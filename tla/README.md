# Verification of TEDI Remote Access

TLA+ models of the programs in this repository, the TLC runs that check them on
small instances, and proofs checked by TLAPS. Paths are relative to the
repository; `useRemote.ts` is `client/src/hooks/useRemote.ts`, `main.rs` and
`daemon.rs` are in `sidecar-src/src/`, `index.js` is `src/index.js`, and
`server.js` is `server/server.js`.

Contents: 1 the system, 2 modules and code, 3 runs, 4 bounds, 5 fairness,
6 timing assumptions, 7 what is proved, 8 where code and text disagree,
9 abstractions and what is not modelled, 10 plan.

## 1. The system

TEDI Remote Access mirrors the terminals of a desktop application (the host)
into a browser through a relay. Five programs take part:

| part | source | state it keeps | operations |
|---|---|---|---|
| relay, HTTP half | `server.js` 35-617 | password hash, consumed one-time codes, rate-limit buckets, agent tickets, pending `open-ssh` requests | login, logout, change password, open-ssh, agent-ticket, static files |
| relay, WebSocket half (the broker) | `server.js` 618-981 | agent sources, browsers, session list per source, drain timers, host name, dedup string, `client_join` throttle | connect / frame / close of a source or a browser, drain timer, heartbeat, shutdown |
| native agent | `main.rs`, `daemon.rs`, `wire.rs` | mirrored sessions with their rings, dirty set, relay channel, pending daemon requests | poll and attach, output pump, heal, browser frames, reconnect |
| extension | `index.js` | agent handle, boot and stop flags, timers, SSH bridge socket, attached sessions and their channels | activate, deactivate, start, stop, restart, watch, AI tool, SSH bridge |
| web client | `client/src` | socket, tab order, terminals, wish to focus a new tab, active tab, open dialogs, stored and fitted font sizes | connect, frames, open / close / drag / select a tab, font size, sign in and out, heartbeat, reconnect |

### How they interact

    desktop app + PTY daemon                 relay                  browser page
      daemon  <- pipe ->  native agent  -- wss /agent --> broker <-- wss /client --
      host API <- invoke -> extension
                            |- spawns, watches, kills the native agent
                            '- SSH bridge -- wss /agent (ticket) --> broker
                                                     HTTP <-- login, open-ssh --

The native agent and the SSH bridge are two *sources* of the relay. The broker
merges their lists, passes their other frames to every browser and passes every
browser frame to every source; each source drops what is not its own. The
broker originates the `host`, `sessions` and `clients` frames. A login or an
`open-ssh` is an HTTP request whose handler awaits the password hash and, for
`open-ssh`, an answer of the bridge.

### What is hard

* **Handlers that await.** The extension's start, stop, restart, reap, watch
  and poll await the host and then use module variables again (`index.js`
  122-335, 415-590); the relay's HTTP handlers await the body and the hash
  (`server.js` 435-592).
* **Parallel tasks.** The agent's pump, poll, relay loop and spawned requests
  run on several threads; a lock is held while a frame is built and not while
  it is sent (`main.rs` 155-207, 426-606).
* **Links.** The relay, both sources and the page may lose a socket at any time,
  a close event is late, a link may be cut without an end being told, and each
  side reconnects with its own back-off and heartbeat.
* **Caches that stand for what the other side has**: the broker's
  `lastSessionsStr`, the bridge's `lastTabMetaStr`, the agent's `changed`, the
  page's snapshot of tabs when it asks for a new one, the props and refs of
  its last render, the terminal's last known grid.
* **Full queues**: the agent's channel to the relay (1024 frames), a browser's
  socket buffer at the relay (8 MiB), the pipe to the daemon.
* **Timers that race answers**: daemon request (30 s), open-ssh (12 s), drain
  window (8 s), stable link (5 s), focus of a new tab (8 s), the Turnstile check
  (8 s).
* **A secret in two places**: the password hash in memory and in `PASS_FILE`, and
  the cookies bound to it in every browser (`server.js` 88-99, 490-516).

### Components, and what makes each correct

| component | correct when | module |
|---|---|---|
| broker | every open browser has the current list and host status, every source the count; no tab flaps on a reconnect; tabs of a host that stays away go; together: it is one board that all browsers read alike | `RelayBroker`, `HostBoard` |
| accounts | a session ends by time or by a change of the password and by nothing else; who changes the password stays signed in; no form is stuck | `RelayAccounts` |
| agent lifecycle | at most one agent runs, a disconnect sticks, and at rest no agent is lost from sight, save one that the host would not list or kill; a dead agent is noticed and replaced | `AgentLifecycle` |
| SSH bridge | one live socket, one sink per session, silence after a stop, return after a loss, no tab listed and unfed | `SshBridge` |
| terminal data path | no gap on the screen that nobody will heal, save after a snapshot out of step; output never runs backwards | `PtyMirror` |
| join replay | a newcomer gets the desktop's layout, and its saved hosts if they can be listed | `JoinReplay` |
| session table | the published list is the table; what lives is listed, what is gone disappears; save a session whose last frame was overtaken or dropped | `PtySessions` |
| browser link | one link or one pending reconnect; back-off; no false close; half-open links noticed; the page returns | `BrowserLink` |
| browser tabs | the active tab is listed; the list is the host's in the page's order, and none shown as running has ended; the requested tab comes to the front | `BrowserTabs` |
| font fit | no terminal is left at a wrong size; under Auto the one in front has the largest size that shows the prompt's row | `FontFit` |
| input path | a session is asked once and in order; no request is lost or leaks; a silent daemon holds nobody up | `InputPath` |
| relay HTTP | a code is used once; every request is answered, and truly | `RelayHttp` |

`PROJECT.json` lists every component with its status and the hazards with the
line where each bites.

## 2. Modules and code

One module per component. A variable has the name of the program's variable
where there is one; one action is one handler, or one task from one await (or
lock) to the next. Each module starts with what it models and what a step is,
declares its bounds as constants with the word *bound*, and ends with its type
invariant and properties. `<Module>Proofs.tla` holds the theorems about it; those about `JoinReplay`,
`BrowserTabs`, `PtySessions` and `PtyMirror` are in `SshBridgeProofs`,
`BrowserLinkProofs`, `AgentLifecycleProofs` and `InputPathProofs`. Operators next to a comment "Mutant of" are faulty
variants of the operator below them; they are used by no specification and
show, one per property, that the property can fail. `MC<Module>.tla` gives the
definitions a `.cfg` cannot express.

| module | state and actions, and the code they stand for |
|---|---|
| `RelayBroker` | `agents`, `clients`, `sessionsBySource`, `drainTimers`, `agentName`, `lastSessionsStr` are the broker's variables; `newer` is the insertion order of the Map; `aReady`, `cReady` are the sockets' `readyState`; `list`, `host`, `told` are the last frames each peer was sent. One action per handler of `wssAgent` and `wssClient` (`server.js` 711-858), the drain timer, the heartbeat's terminate and the shutdown. Every broadcast may shed any set of lagging browsers (`bufferedAmount`). |
| `HostBoard` | what the broker promises, with no sockets, caches or timers in it: the lists the host's sources stand for, one board merged from them, and browsers that are shut or read that board. `RelayBroker` implements it (`ImplementsBoard`). |
| `AgentLifecycle` | `handle`, `booting`, `stoppedByTool`, `agentOnline`, `watchTimer` and the restart timer of `index.js` 31-43; a `Flow` is one activation of start/stop/restart/tool between awaits; `proc` is what the host's process table says, `escaped` the agents that ran when the host failed to list or to kill them (`ListRefused`, `Kill`). Reload of the webview resets the extension's variables and no process. |
| `SshBridge` | `sshWs`, `sshStop`, `sshAttached`, `sshChannels`, timers (`index.js` 346-358); flows of `startSshBridge`/`connectSshRelay`, activations of `pollSsh`; `sink` counts the host's channels per session, `published` is the last list sent. |
| `PtyMirror` | one session: `ring`, `dirty`, `known` (the table entry), `chan` (channel to the relay), the three tasks `pump`, `poll`, `replay`, each with what it has in hand (`main.rs` 418-693), and the page's `screen`, `mounted`, `painted` (`useRemote.ts` 198-204, 460-500). A frame is built in one step and sent in another, and the other tasks run in between, as on the multi-threaded runtime (`main.rs` 377). Output is numbered chunks; `torn` remembers a snapshot that did not fit the data around it, or was dropped. |
| `JoinReplay` | the relay's `recent` join (`server.js` 799-821), the bridge's `tabMeta` and `lastTabMetaStr` (`index.js` 351-358, 394-410, 822-834), and what each browser has; `untold` are those open when the desktop would not list its hosts. |
| `PtySessions` | the table `sessions`, the poll's list and its item in hand, the pump's exit, the relay loop's frame, IN_FLIGHT_OPENS and the published list (`main.rs` 155-334, 426-606). The tasks run in parallel and the channel may be full; `stale` are the sessions whose last frame a change overtook, or the channel dropped. |
| `BrowserLink` | the page's `wsRef`, timers, `authed`, `hostOnline` and delays (`useRemote.ts` 155-195, 624-742), and the relay's end with `isAlive` (`server.js` 787-925); `down` are frames under way, `cut` the dead directions of a link. |
| `BrowserTabs` | `sessions`, `activeId`, `wsById`, `pendingNewIds`, terminals (`useRemote.ts` 69-86, 499-623, 769-825, 966-1070), the dialog that asks before a close (`askClose`, `pendingClose`, `cancelClose`), the sidebar's groups and the shortcuts (`useSessionShortcuts.ts`); `shown` is what the last render left in refs and closures; `table` is the host, which may refuse a close (`HostRefuses`) and sends attached frames again (`HostRepeats`). |
| `RelayAccounts` | the handlers of `/api/me`, login, logout and change-password from one await to the next (`server.js` 143-203, 255-277, 426-516), `PASS_FILE` and its loading (88-99), and the page's boot, forms and dialogs (`useRemote.ts` 701-862, `Login.tsx`, `ChangePasswordModal.tsx`, `Turnstile.tsx`, `modal.tsx`). A hash is a number, a cookie the hash it is bound to and its end. |
| `FontFit` | `TermEntry`'s grid and size, the stored size, `fitActive`, `applyFont` and the flags that ask for a fit (`useRemote.ts` 415-460, 506-550, 864-919, `TerminalHost.tsx` 16-63, `fit.ts`, `SettingsModal.tsx`); an event, the render and effects it causes, and the animation frame are separate steps. |
| `InputPath` | the relay's forwarding (`server.js` 823-850), the agent's loop and its requests (`main.rs` 271-375, `daemon.rs` 68-175) and the bridge's own frames (`index.js` 601-684). |
| `RelayHttp` | `consumedTotp`, `loginFails`, `openSshPending` and the handlers of `/api/login` and `/api/open-ssh` between awaits (`server.js` 143-157, 205-304, 435-592), the bridge's half (`index.js` 698-741) and the heartbeat's pruning. |

The modules meet at frames. What one module sends, another takes as input from
the environment: the list `PtySessions` publishes is an item list of
`RelayBroker`; the list a browser of `RelayBroker` holds is a list frame of
`BrowserTabs`; a browser's connect and close in `RelayBroker` are the links of
`BrowserLink`; a start and a stop in `SshBridge` are calls of `AgentLifecycle`;
a login of `BrowserLink` is one that `RelayAccounts` and `RelayHttp` granted.
The interfaces are kept wide on purpose: `RelayBroker` lets a source send any
list at any time, `BrowserTabs` lets the host do anything a host can do,
`SshBridge` may be started and stopped at any time in turn.

## 3. Runs

Every run is in `PROJECT.json`; its properties are the INVARIANTs and
PROPERTYs of its configuration. What a property says is in the comment above
it. Numbers are distinct states.

| run (configuration) | question | properties | states |
|---|---|---|---|
| `broker` (`MCRelayBroker.cfg`) | Two sources and a browser connect, send, lag, fail and leave in any order. Does what the browser and the sources were last sent stay true, and is the whole one board? | `ClientListFresh`, `CountFresh`, `NoFlap`, `AbandonedHostEmpties`, `ImplementsBoard` | 41 k |
| `agent` (`MCAgentLifecycle.cfg`) | Enable, disable, settings changes, tool disconnects, reloads and crashes, and a list or a kill that the host refuses, with every short call to the host answered promptly. How many agents run, and is the one that should run there? | `AtMostOneAgent`, `DisconnectSticks`, `NoLostAgent`, `DeadAgentReplaced` | 879 k |
| `ssh_bridge` (`MCSshBridge.cfg`) | Starts, stops, lost sockets, refused tickets, joins, sessions that come and go. Is there one socket and one sink, silence after a stop, a return after a loss? | `OneSocket`, `OneSink`, `StopSticks`, `AttachedIsFed`, `BridgeReturns`, `ListCatchesUp` | 373 k |
| `pty_mirror` (`MCPtyMirror.cfg`) | The agent's tasks run in parallel; the relay's and the browser's link are lost, the channel overflows. Does a gap stay unmarked, does it close? | `NoSilentGap`, `Heals` | 954 k |
| `join_spaced` (`MCJoinReplay.cfg`) | Browsers join more than a second apart, and the desktop may fail to list its hosts. Is each greeted with layout and hosts? | `NewcomerIsGreeted` | 1.3 M |
| `pty_sessions` (`MCPtySessions.cfg`) | The desktop and the browser open, shells exit, tabs close, daemon calls time out, links are lost, the channel is full, and the tasks run in parallel. Is the published list the table, and does it catch up? | `PublishedIsTable`, `LiveIsMirrored`, `GoneDisappears` | 531 k |
| `browser_link` (`MCBrowserLink.cfg`) | Links are cut in one or both directions, dropped, refused; the host comes, hangs and goes; sessions expire. | `OneLink`, `HostShown`, `HealthyKept`, `CutNoticed`, `PageReturns` | 40 k |
| `browser_tabs` (`MCBrowserTabs.cfg`) | The host opens, ends and lists tabs, refuses closes and repeats frames, while the page asks before a close, closes, drags, selects by click and by shortcut and asks for tabs, and its link breaks. | `ActiveListed`, `ListCurrent`, `NewcomerFocused`, `OrderKept` | 1.6 M |
| `input_path` (`MCInputPath.cfg`) | Keys, closes and opens on their way to two sources and a daemon that may hang or whose pipe may break. | `KeysInOrder`, `LoopFreed` | 1.1 M |
| `accounts` (`MCRelayAccounts.cfg`) | A browser signs in, signs out and changes the password while others do, a write fails, the relay dies or restarts, an answer is lost, Turnstile hangs. Who stays signed in, and is the form freed? | `ChangerStays`, `SessionSticks`, `FormFreed` | 713 k |
| `font_fit` (`MCFontFit.cfg`) | Lists, attaches, clicks, settings, resizes and zooms come between the request for a fit and its animation frame. Is a terminal left at a wrong size? | `Fitted` | 118 k |
| `relay_http` (`MCRelayHttp.cfg`) | Three overlapping logins and open-ssh requests, one-time codes, time, a cut bridge, a restart. | `OtpOnce`, `AnswerTrue`, `Answered` | 345 k |

Every property of a run has a mutant in `PROJECT.json`: the named definition is
replaced by the faulty variant above it, and the same run then finds the
property violated.

A module may define more properties than its run checks, and a type invariant
`TypeOK`; to check one, add it to the configuration: `HostFresh` of
`RelayBroker` (also proved), `BacksOff` of `BrowserLink`, `AnswerFindsAsker` of
`InputPath`, and `NeverBackwards` of `PtyMirror`: older output never follows
newer output on the screen, even after a snapshot out of step.

## 4. Bounds

Every bound is a constant marked *bound* in its module. They leave the
interesting cases in:

* **broker**: two sources are what the product has (agent and bridge), and two
  slots let an old source drain while its successor lives; the lists cover the
  empty list, one session in two versions, and two sessions. One browser; the
  theorems hold for any number of each, and a run with two holds as well.
* **agent**: three process slots and three activations are what a reload, a
  restart and a tool disconnect can have under way together; two settings
  changes, three toggles, one reload, one list or kill that the host refuses; one
  version of the settings has no token.
* **ssh_bridge**: two starts, so that an old and a new socket and two flows
  meet; two sessions; a fault and a join. One poll at a time (`PromptHost`).
* **pty_mirror**: a ring of two and a channel of one with three chunks of output,
  so that the ring wraps and the channel overflows; one lost connection.
* **join_spaced**: two browsers, three joins, two links of the bridge, one change
  of the layout.
* **pty_sessions**: two sessions, one of the desktop and one of the browser,
  and a cap of one, so that both limits bind; one timed-out call, lost link,
  replay or full channel.
* **browser_link**: two sockets, one cut, one drop, one change of the host, one
  expiry. Delays 1, 2, 4 for the code's 1, 2, 4, 8, 15 s: what matters is that
  it doubles and is capped. `HealthyKept` blames the host for the silence of a
  link only if the host has been hung since the page last heard a frame
  (`dozed`); it holds with two changes of the host as well (safety only, 137 k
  states), and is proved for any number of changes, cuts and drops.
* **browser_tabs**: three tabs in two workspaces, one open at the start, two
  rare events (an order to close counts as one, as do a loss, an end, a repeated
  frame and a drag; that the host refuses the close does not count beside it).
  `NewcomerFocused` speaks of a request made while the page knew every other
  tab, those in lists still on their way included: of two tabs it does not know
  it cannot tell which is its own. The latter shows only with more frames under
  way than the run has; the proof needed it.
* **input_path**: three frames, two of them under way to a source at a time, one
  session per source, one loss or table change; room for three requests in the
  pipe, so the pipe never blocks.
* **accounts**: one browser whose page is followed through every form, two
  requests under way, and one step that stands for the other browsers: a change of the
  password from elsewhere. Two passwords after the first, a session that ends
  when the clock ticks once, one fault (a restart, a death between rename and
  memory, a lost answer).
* **font_fit**: two tabs with two grids, two panes and two faces of the font,
  automatic sizes 1 to 4 and user sizes 2 and 3, so that the user's range is
  inside the automatic one as in the code and every comparison has both answers.
* **relay_http**: three requests of which some open SSH, three steps of 30 s.
  A used code is kept for two steps, fewer than the code's three, and two
  failures lock where the code takes five: both tighter than the code, so the
  wait and the forgetting happen within the bounds.

`CHECK_DEADLOCK FALSE` stands where a bounded run ends when its bounds are used
up and the system is at rest.

## 5. Fairness

Liveness is checked under what the code's scheduling gives and no more.

| module | assumed | why |
|---|---|---|
| `RelayBroker` | close events are delivered, drain timers fire | Node's event loop. Nothing of sources or browsers |
| `AgentLifecycle` | the host answers calls, a killed process exits, timers fire | `ctx.invoke` promises and `setInterval`/`setTimeout` |
| `SshBridge` | the host and the relay's HTTP half answer, sockets open or fail, timers fire, a deaf socket gets its end | the same; nothing says that a connection succeeds, faults are bounded instead |
| `PtyMirror`, `PtySessions` | weak fairness of each task and of delivery, and the daemon answers the poll | tokio's worker threads run a task that stays ready; nothing of opens and closes |
| `BrowserLink` | timers fire, frames on an uncut link arrive, connects succeed or fail; strong for the two heartbeats | a heartbeat is disabled while an answer is awaited and enabled again every period. TCP is not counted on to notice a cut |
| `RelayAccounts` | the hash completes, the 8 s timer of the check fires, answers arrive or their connection is reset | Node runs handlers and timers. Nothing of the Turnstile service: it may hang for ever |
| `RelayHttp` | the hash completes, the 12 s timer fires | nothing of the bridge |
| `InputPath` | the agent's loop, reader, tasks and timers run | nothing of the daemon: it may hang for ever |

`FontFit`, `BrowserTabs` and `JoinReplay` are checked for safety only: their
properties speak of the states in which nothing is due or under way.

## 6. Timing assumptions

Some code is right only if the world is not too fast or too slow. Each such
assumption is a constant, which the configuration sets; the last column says what
to change in it to see what happens without the assumption (section 8).

| constant | assumption in the run | without it |
|---|---|---|
| `Oversized` (`RelayBroker`) | a `sessions` frame stays below the 65536 characters the relay parses: hundreds of sessions | `Oversized <- MCLists`: `ClientListFresh` |
| `Prompt` (`AgentLifecycle`) | the host answers a short call before the next timer or user action; waits that are long by design (READY, draining) still overlap with everything | `Prompt = FALSE`: `AtMostOneAgent` |
| `PromptHost` (`SshBridge`) | a poll ends before the next event | `PromptHost = FALSE`, `Poll = {p1, p2}`: `OneSink` |
| `PromptRelay` (`SshBridge`) | no start while an earlier one awaits its ticket | `PromptRelay = FALSE`: `OneSocket` |
| `Spaced` (`JoinReplay`) | joins are more than a second apart | `Spaced = FALSE`: `NewcomerHasTabs` |
| `PromptRender`, `OneRequest` (`BrowserTabs`) | React renders before the next click; the user asks for one tab at a time | `PromptRender = FALSE`: `ActiveListed`; `OneRequest = FALSE`: `NewcomerFocused` |
| `PromptRender` (`FontFit`) | React renders before the next event | `PromptRender = FALSE`: `Fitted` |
| `OneForm` (`RelayAccounts`) | a page has one form under way: it does not send a second one that sets a cookie before the first is answered | `OneForm = FALSE`: `ChangerStays` |
| `PipeCap` (`InputPath`) | the daemon's pipe has room | `PipeCap = 1`: `LoopFreed` |

`PtyMirror` and `PtySessions` assume nothing of the kind: what the code gets wrong
there is an exception in the property, and a history variable says when it
applies (`torn`, `stale`). `AgentLifecycle`, `JoinReplay` and `BrowserTabs` treat
the calls that the host or the daemon refuses in the same way (`escaped`,
`untold`, `refused`). `BrowserLink` assumes in addition that an uncut link answers
faster than a heartbeat's period; nothing else in the models is timed.

## 7. What is proved

TLAPS proves the following for every value of the constants that satisfies the
named assumptions of the module, and with no bound on the behaviour. TLC
evaluates every assumption in the module's run, and found each inductive
invariant true of that run before it was proved.

| module | theorem | says | further assumption |
|---|---|---|---|
| `RelayBrokerProofs` | `Invariance` | the inductive invariant `IInv` | `Oversized = {}`, for every theorem of this module |
| | `TypeCorrect` | `TypeOK` | |
| | `ListFreshness` | `ClientListFresh`: every open browser holds the current merged list | |
| | `HostFreshness` | `HostFresh`: and the host's status | |
| | `CountFreshness` | `CountFresh` | |
| | `NoFlapping` | `NoFlap`: no loss or return of a source takes a tab from an open browser | |
| | `BrokerImplementsBoard` | `ImplementsBoard`: the broker refines `HostBoard` | |
| `AgentLifecycleProofs` | `OneAgent` | `AtMostOneAgent`: of the agents that have not escaped a refused list or kill | `Prompt` |
| | `ToolSticks` | `DisconnectSticks`, with the same exception | `Prompt` |
| | `NoneIsLost` | `NoLostAgent`, with the same exception; it is about an extension that is on, configured and at rest | `Prompt` |
| | `BrowsersKnowTable` | `PublishedIsTable` of `PtySessions`, for tasks in parallel and a channel that may be full | |
| `SshBridgeProofs` | `TypeCorrect` | the types | |
| | `SocketIsOne` | `OneSocket` | `PromptRelay` |
| | `SinkIsOne`, `AttachedAreFed` | `OneSink`, `AttachedIsFed` | `PromptHost` |
| | `StopIsFinal` | `StopSticks` | both |
| | `NewcomersGreeted` | `NewcomerIsGreeted` of `JoinReplay`: the hosts only if the desktop lists them | `Spaced` |
| `BrowserLinkProofs` | `LinkIsOne`, `HostIsShown` | `OneLink`, `HostShown` | |
| | `HealthyStay` | `HealthyKept` | |
| | `ActiveIsListed` | `ActiveListed` of `BrowserTabs` | `PromptRender` |
| | `OrderIsKept`, `ListIsCurrent` | `OrderKept`, `ListCurrent`: a close that did not take is the one exception | |
| | `NewcomerIsFocused` | `NewcomerFocused` | `OneRequest` |
| `RelayAccountsProofs` | `SessionsStick` | `SessionSticks` | |
| | `ChangersStay` | `ChangerStays` | `OneForm` |
| `FontFitProofs` | `TerminalsFitted` | `Fitted` | `PromptRender` |
| `RelayHttpProofs` | `CodesOnce` | `OtpOnce` | a used code is kept for two steps at least (the code keeps it for three) |
| | `AnswersAreTrue` | `AnswerTrue` | |
| `InputPathProofs` | `InOrder` | `KeysInOrder` | |
| | `GapsAreMarked` | `NoSilentGap` of `PtyMirror`, for tasks in parallel and a channel that may be full | |

Four of the proof modules are about two components, what one program has on its
two sides; these extend both, whose definitions therefore have names of their
own (`JoinInit`, `TabsNext`, `PtySpec`, `mirrorVars`).

The further assumptions are those of section 6, and each is needed: the change
listed there is a counterexample to the theorem without it. The other
assumptions on constants say that bounds are natural numbers, that "none" is not
a value, and in the broker that a source names an id once (each builds its list
from a map keyed by id) and that there are finitely many sockets.

**The broker.** `ClientListFresh` is not inductive: `broadcastSessions` sends
nothing when the merged list equals `lastSessionsStr`, so a stale browser would
stay stale. What makes it hold is that the dedup string is always either empty
or the list as it is now (`CacheFresh`), which in turn needs that only sources
in `agents` or draining have an entry, and that a socket is in a Set exactly
until its close event (`SocketsTracked`). `IInv` is the conjunction of these
with `TypeOK`, `HostFresh` and `CountFresh`. The proof has one lemma per
handler (`AgentConnectIInv`, `AgentClosedIInv`, ...) and under it one step per
conjunct; `BroadcastFresh` and `BroadcastHostFresh` say once what a broadcast
does to the browsers, and `MergedOfAdd`, `MergedOfForget` what the merge does
when a source comes or goes.

**The board.** The refinement maps the host to `agents # {}` and `agentName`, the
tabs to the merged list and a page's view to the last frames of each open
browser. Under `IInv` every handler is one of two shapes: one that leaves the
merged list alone is `HostChanges` (`HostStep`), one that sends every browser
the new list and no host frame is `TabsChange` (`TabsStep`). A step of a source
that changes nothing on the board is a stutter, and the restart is the board's.

**The agent's life.** A boot is entered by one activation and the flag `booting`
says so until it ends (`OneBooter`, `BooterFlagged`); under `Prompt` one
activation at a time decides whether to boot, and none boots meanwhile
(`OneDecider`, `DecidesFirst`). Between its reaper and its spawn no agent runs
(`ReapedFirst`), so there is never a second one; an agent that escaped a refused list
or kill is not counted (`Agents`, `KillDoes`). A disconnect by the tool stops
boots (`NoBootAfterTool`) and once its reaper has run nothing runs
(`ToolReaped`). `NoLostAgent` speaks of rest only; `HeldInv` says what every
step on the way keeps. An agent in `handle` is the only one (`HeldOnly`,
`BootedOnly`), and is watched unless a boot or a stop has it in hand,
and no poll of the watch is under way during a boot (`WatchHeld`); one that runs outside `handle`, left by an earlier load, will be
dealt with by a flow under way or one that is to come (`Handled`). A poll of the
watch is about the agent in `handle` (`OneTick`), so its late answer drops no other.

**The session table.** Unless a list is still to come from the poll or the relay
loop (`PollTells`, `ReplayTells`), the browser shows each session as the table has
it, or the pump has yet to tell the session's exit, or the session is in `stale`
(`Shows`, `ToldOrComing`). A task that builds a frame, and another that changes the
table before it is sent, leave the difference in `stale` and nowhere else.

**The SSH bridge.** `ConnInv`: one flow is under way, alone or with no live
socket beside it; only the current socket lives; the timer names the flow that
waits; a bridge not started or stopped has neither. `SinkInv`: one poll is under
way; what is fed is attached, has its disposer and is fed once; what is being
attached is not fed yet. `StopSticks` combines both with the fact that a stop
leaves the poll nothing to revive (`StoppedDry`).

**Join replay.** Of the `tabmeta` frames on their way the last has the layout
there is now (`LastIsCurrent`), and the dedup string is empty or that layout
(`StrIsCurrent`), so a broadcast that is skipped would have said nothing new. Every
open browser has what it needs or it is to come: a join is still to be handled, the
hosts are being asked for, or the frame is on its way, unless the desktop would not
list them while it was open (`TabsCome`, `ConnsCome`).
With `Spaced` a join always reaches the bridge.

**The page's link.** `LinkInv`: every socket in use is `wsRef` and excludes a
pending reconnect, and a signed-in page has exactly one of the two. For
`HostShown` the frames under way on the link are read as a sequence
(`Informed`): the last frame about the host in it, or what is shown if there is
none, is what the relay knows. For `HealthyKept` a page that has been silent for
long has a ping under way or its answer on the way back, unless the link is cut
or the host dozed or is gone (`Awaited`), and a link the relay gave up has its end on the
way (`EndComes`).

**Tabs.** `OrderKept` and `ActiveListed` are about one list: what is left of the
page's list keeps its order and a tab in front that went is replaced by a listed
one. For `ListCurrent` the frames under way are read as one word about each tab:
the last that lists it, or what the page shows if none does, agrees with the
host's table (`WillList`, `WillLive`, `Current`); a tab whose close is on its way, or
was refused, may be shown as ended all the same. For `NewcomerFocused` that
reading is about the tabs the page did not know: the lists under way introduce the
requested tab first, alone and for good (`Introduces`), or it is in front already
(`Chosen`); that the page has one wish at a time is `OneWish`.

**Accounts.** `SessionSticks` needs that the hash in force is the one in
`PASS_FILE` and the newest that was made (`HashesAgree`): the handler writes the
file and the variable without an await between them, and a death between the two
is followed by a load of the file. `ChangerStays` adds that a page has one
request that can still set a cookie (`OneAtATime`) and that none on its way sets
an older cookie than the one its browser was told of (`NoStaleAnswer`).

**Font fit.** `Fitted` says nothing of a terminal the next render will make, nor
of the sizes the walk passes through. `FitInv` adds that a tab that stays in
front across a render had its terminal before it (`FrontHasTerm`), so a render
that brings a terminal to the front sees the tab change and asks for a fit; that
a walk that grows stands at a size that fits, or at the smallest (`WalkHolds`);
and that terminals the walk is not at work on fit (`OthersFit`).

**Relay HTTP.** An accepted code is remembered until it is too old to be accepted
again (`KeptOrOld`). `RequestTrue` relates, per request, the map of pending
requests, what the bridge is doing and what the desktop opened.

**The input path.** A session is asked in order because three queues stand behind
one another and none overtakes. What a source has not read yet is newer than all
it took (`QueuesRise`, `AgentBehind`, `BridgeBehind`). The agent's loop awaits a
key until it is written, so while one waits nothing later has been taken
(`KeyAwaited`, `LoopLast`), and each frame is written at most once
(`WrittenOnce`). What waits in the daemon's pipe is in order and comes after what
the daemon was asked already (`PipeOrdered`, `PipeLater`). Closes and opens leave
the loop for tasks of their own, which is why the property is about what follows
a key and not about every pair of frames.

**The screen.** A run is a sequence of chunks without a gap; it is known by its last
chunk and its length, so appending and cutting its front need no induction. The
events still to be pumped follow what the pump has in hand (`Stream`), and that
follows what the frames carry (`Carried`). A screen to which nothing will be resent
(`Resends`) becomes a run: there is a snapshot among the frames, or the screen itself,
from which on each frame continues the one before it up to the last chunk sent
(`Gapless`, `Continues`). A data frame that the full channel refuses breaks this and sets
`dirty`. A snapshot restores it if it is the newest output up to the chunk the pump
sends next; the ring may have moved between the copy and the sending, and then `torn`
is set. An empty snapshot repaints nothing, so it must find nothing to repaint
(`Unsent`, `Blanks`).

**Only model-checked** is every liveness property: `AbandonedHostEmpties`,
`DeadAgentReplaced`, `BridgeReturns`, `ListCatchesUp`, `Heals`, `LiveIsMirrored`,
`GoneDisappears`, `CutNoticed`, `PageReturns`, `LoopFreed`, `FormFreed` and
`Answered`: fairness and ENABLED are out of the prover's reach. So are induction
over data and RECURSIVE operators, which no module uses: where an argument
would be an induction over a sequence (the last frame of a kind, the length of
a run, the list of a set in order) the proofs state the fact by index or by the
cardinality of the elements below.
Not proved either are the properties no run lists: `AnswerFindsAsker`, `BacksOff`
and `NeverBackwards`.

## 8. Where code and text disagree

Each row is a change of a listed configuration under which TLC finds a property
violated that a comment, the changelog or a test states of the program. Where
the change is a constant of section 6, the run as listed shows that the code does
what the text says when the assumption holds. Where it is a property with an
exception (`torn`, `stale`, `refused`) that is added here without it, the run shows
that the exception is the only one.

| module, change | property | code | text | what happens |
|---|---|---|---|---|
| `MCJoinReplay`, `Spaced = FALSE` | `NewcomerHasTabs` | `server.js:804` | `server.js:799-802` "the replay broadcasts to ALL clients, so a recent one already covers this newcomer" | a replay delivered before the newcomer connected does not cover it, and the bridge does not answer the page's own `hello`: a browser that joins within a second of another has no tab numbers until the layout changes |
| `MCBrowserTabs`, add `LastTabKept` | `LastTabKept` | `useRemote.ts:1036` | `CHANGELOG.md:126-128` "a workspace always keeps at least one tab" | two closes before the host's next list both count two tabs; the second closes the last |
| `MCAgentLifecycle`, `Failures = FALSE`, `MaxRefusals = 0`, `MaxToggles = 1`, add `SettledIsCurrent` | `SettledIsCurrent` | `index.js:330` | `index.js:814` "(re)start the agent when the relay config changes" | a settings change while an agent boots kills it, and the restart's own start is refused because `booting` is still set: the agent stays off |
| `MCAgentLifecycle`, `Failures = FALSE`, `MaxRefusals = 0`, add `OffMeansOff` | `OffMeansOff` | `index.js:850` | `index.js:812` "the single on/off", `CHANGELOG.md:521-522` | `deactivate` finds no handle while a start waits in `reapOrphanAgents`; the start then spawns |
| `MCRelayBroker`, `Oversized <- MCLists` | `ClientListFresh` | `server.js:727` | `server.js:725-726` "Only control frames (sessions/host) need parsing and they are tiny" | a list of 64 KiB is passed on unparsed: browsers see one source's list alone, and a newcomer never gets it |
| `MCAgentLifecycle`, `Prompt = FALSE` | `AtMostOneAgent` | `index.js:193` | `index.js:127` "exactly one writer" | `booting` is set after four awaits; with a slow host two starts pass the check |
| `MCSshBridge`, `PromptRelay = FALSE` | `OneSocket` | `index.js:489` | `CHANGELOG.md:230-233` | stop and start during a ticket request: both flows open a socket |
| `MCSshBridge`, `PromptHost = FALSE`, `Poll = {p1, p2}` | `OneSink` | `index.js:568` | `index.js:564-566` | a session is detached while its `ssh_attach` is awaited and attached again: two sinks |
| `MCPtyMirror`, add `NoGap` | `NoGap` | `main.rs:367`, `main.rs:514` | `main.rs:151-154`, `CHANGELOG.md:222-224` | an `attached` frame built before and sent after newer data resets the page to the older state, one that holds the chunk the pump has in hand shows it twice, and data before the table entry is painted over by an older snapshot; nothing is marked dirty. So is a replay dropped at a full channel (`main.rs:370`) |
| `MCPtySessions`, `Session = {s1, s2}`, `Desktop = {}`, `MaxOpens = 2`, add `CapHolds` | `CapHolds` | `main.rs:330` | `main.rs:224-227`, `CHANGELOG.md:342-344` | the slot is released when the daemon answers, up to two seconds before the poll counts the session |
| `MCPtySessions`, add `NeverStale` or `LiveIsListed` | both | `main.rs:555` | `main.rs:4` | the relay loop and the poll build their lists under the lock and send them after it: the older can be sent last. A `sessions` frame dropped at a full channel is not sent again either, as `changed` is forgotten |
| `MCBrowserLink`, add `ExpiredSignsOut` | `ExpiredSignsOut` | `useRemote.ts:685-688` | `server.js:891-895` | an expired session is refused by HTTP 401 at the upgrade, which the page sees as 1006: it reconnects for ever and never shows Login |
| `MCBrowserTabs`, add `MarkCorrected` | `MarkCorrected` | `main.rs:345-347` | `useRemote.ts:1025-1026` | a close that the daemon refuses is only logged; nothing changes, so no list follows (the relay would not pass on an equal one), and the live tab stays marked as ended until something else is sent of it |
| `MCBrowserTabs`, `PromptRender = FALSE` | `ActiveListed` | `useRemote.ts:1081` | `useRemote.ts:526-531` | a click on a tab a list has just removed makes it active |
| `MCBrowserTabs`, `OneRequest = FALSE` | `NewcomerFocused` | `useRemote.ts:803` | `useRemote.ts:966-971` | a failing open-ssh cancels the wish of another request |
| `MCInputPath`, `PipeCap = 1` | `LoopFreed` | `daemon.rs:160-166` | `daemon.rs:167-173` | the write to a full pipe comes before the 30 s timer: a daemon that does not read holds the loop for ever |
| `MCRelayAccounts`, `OneForm = FALSE` | `ChangerStays` | `server.js:513`, `server.js:464` | `CHANGELOG.md:153` | the answer of an earlier form arrives after the change's and puts back a cookie bound to the old password: the device that changed it is signed out |
| `MCFontFit`, add `SmallerIsSmaller` | `SmallerIsSmaller` | `useRemote.ts:882-890` | the button's name, `fit.ts:17-19` | A- under Auto from an automatic size below the user's smallest gives that smallest: from 6 the text grows to 8 |

Noted while reading, with no property: the wish to focus a new tab lasts 8 s
(`useRemote.ts:775`; the comment at 969 says 5 s) while the relay waits 12 s for
an SSH tab; a request that timed out at the relay or the agent may still be
carried out later, so a retry can open twice; used codes and rate limits live in
memory only; a boot whose agent a restart or a deactivation has just asked to exit
may still find READY in its output, and puts the status bar and the bridge online
until the watch timer sees the exit (`index.js` 176-240); the 1.1 s timer that closes the change-password dialog after a
success closes whichever dialog is open by then; a rename in the sidebar commits
on blur although `Sidebar.tsx:76-77` says that another row's click cancels it, and
leaving the untouched box makes the derived folder name the workspace's own;
`reorderTabs` has no caller; an item of a live source is
hidden while a source that connected after it drains with the same id
(`server.js:697-702`; the two sources of the product share no ids).

## 9. Abstractions, and what is not modelled

* A session list is a set of items in the broker (the page keeps its own order)
  and a sequence in `BrowserTabs`. A peer's inbox is the last frame of each kind
  it was sent, which is what it shows once drained.
* `AgentLifecycle`: a reload does not overlap with a spawn whose answer is still
  to come from the host, as the reaper could not know that process yet.
* `PtyMirror` has one session; sizes are left out. `PtySessions` has no output,
  sizes or titles. `BrowserTabs` has no terminal contents; the host's frames reach
  the page in the order they were built (their race at the agent is `PtySessions`'),
  and a page is greeted with the list, after which each tab may be sent attached
  again at any time (`HostRepeats`).
* `JoinReplay`: the native agent is connected throughout.
* `SshBridge`: terminal output and the input direction are left out; the latter
  is in `InputPath`.
* `InputPath`: the content of keys and the size of opens are left out; a ping is
  any frame the agent does not own; workspace and tab commands are calls to the
  host that leave the bridge as it is. The order in which the *host* carries out
  un-awaited `ssh_write` calls is outside the repository.
* `RelayHttp`: requests come from a signed-in user at one address and pass
  Turnstile; `OtpOnce` is per life of the relay process.
* `RelayAccounts`: one-time codes and rate limits are in `RelayHttp`; a password
  that is too short is not tried. Rename is atomic, as the file system makes it.
* `FontFit`: a face is the font's family and line spacing together; what the walk
  measures is the table `Room`, the largest size at which so many rows of a face
  fit a pane, in place of pixels; a font that loads after its terminal was
  drawn is left out.

Not modelled: the rate limit and cap of agent tickets (their one use is in
`SshBridge`); the upgrade's token and origin checks (stateless); Turnstile's own
page code beyond its token and reset; static files; inline renaming, pins and
titles of tabs; components and themes (pure functions of modelled state, or
presentation); installer, proxy, build and release scripts (run once);
`tedi.d.ts` and `manifest.json` (declarations of a program that is not here).
The desktop app and the PTY daemon are external: their operators state what the
code in this repository relies on.

## 10. Plan

Done: the modules above, the refinement of `HostBoard`, the proofs of section 7.

1. **Models.** `PtyMirror`: sizes, and an SSH re-attach with empty scrollback
   before the terminal is mounted (`useRemote.ts` 198-204, 473-493).
   Compositions: `SshBridge` with `AgentLifecycle`'s calls; the bridge as one
   source of `RelayBroker`.
2. **Abstract specifications.** `MirrorService`: a page shows a set of tabs that
   is one the host had and in the end the one it has; `HostBoard` (the relay),
   `PtySessions` (the agent's list) and `BrowserTabs` (the rendered list) are
   each to be shown to implement it. `ReliableScreen` for `PtyMirror`: the
   screen is a gapless run of output, or marked, or torn.
3. **Theorems.** Every safety property of every run is proved. Next: `NeverBackwards`,
   `BacksOff`, `AnswerFindsAsker`; and that each further implementation of an abstract
   specification of point 2 refines it.
