---------------------------- MODULE AgentLifecycle ----------------------------
(****************************************************************************)
(* The extension's control of its native agent (src/index.js 39-335 and     *)
(* 773-851): startAgent, stopAgent, the orphan reaper, the watch timer, the *)
(* debounced restart, the AI tool's disconnect, activate and deactivate.    *)
(*                                                                          *)
(* JavaScript runs one piece of code at a time, but every `await` of a call *)
(* to the host lets other callbacks in.  An activation of startAgent and/or *)
(* stopAgent (by activate, deactivate, a restart or the tool) is a Flow;    *)
(* each action runs one flow from one await to the next.  The host's        *)
(* processes live on their own: a kill only asks for the exit, and nothing  *)
(* of the extension's state survives a reload of the webview while every    *)
(* process does.                                                            *)
(****************************************************************************)
EXTENDS Naturals, FiniteSets

CONSTANTS
    Flow,           \* slots for concurrent activations
    Handle,         \* slots for background processes of the host
    None,           \* null
    Off,            \* no watch timer
    Prompt,         \* TRUE: the host answers every short call before the next
                    \* timer fires or the user acts
    Failures,       \* TRUE: agents may exit by themselves or miss READY
    MaxChanges,     \* bound: settings changes
    MaxToggles,     \* bound: enables, disables and tool disconnects
    MaxReloads,     \* bound: webview reloads
    MaxRefusals,    \* bound: lists and kills that the host refuses
    Configured      \* the versions of the settings with a token and a URL

ASSUME FlagsAssumption == Prompt \in BOOLEAN /\ Failures \in BOOLEAN
ASSUME BoundsAssumption ==
    /\ MaxChanges \in Nat /\ MaxToggles \in Nat /\ MaxReloads \in Nat
    /\ MaxRefusals \in Nat
    /\ Configured \subseteq 0..MaxChanges
ASSUME HandleAssumption == None \notin Handle /\ Off \notin Handle /\ None # Off

VARIABLES
    on,             \* the extension is enabled: between activate and deactivate
    handle, booting, stoppedByTool, agentOnline,
    bridge,         \* the SSH bridge was started and not stopped since
    watchTimer,     \* the handle its closure watches, or Off
    ticks,          \* handles whose watch tick awaits shell_bg_logs
    restartTimer,
    flow,           \* the activations in progress
    proc, cfg,      \* the host's processes and the settings each was given
    escaped,        \* history: those running when a list or their kill failed
    refusals,       \* how often that was
    settings,       \* version of the relay settings
    toggles, reloads

jsVars == <<handle, booting, stoppedByTool, agentOnline, bridge,
            watchTimer, ticks, restartTimer, flow>>
hostVars == <<proc, cfg, escaped, refusals>>
userVars == <<on, settings, toggles, reloads>>
vars == <<jsVars, hostVars, userVars>>

-----------------------------------------------------------------------------
\* A flow awaits at pc; `then` is what follows its stopAgent, h the process it
\* awaits, seen the settings version when it began to read them, killed the
\* processes its reaper waits for.
Idle == [pc |-> "idle", then |-> "end", h |-> None, seen |-> 0, killed |-> {}]
At(pc) == [Idle EXCEPT !.pc = pc]
IdleFlows == {f \in Flow : flow[f].pc = "idle"}
AllIdle == IdleFlows = Flow

\* readReady and the reaper's wait take seconds by design, all other awaits
\* are single calls to the host.
LongWaits == {"idle", "draining", "toolDraining", "ready"}
Quiet == Prompt => (ticks = {} /\ \A f \in Flow : flow[f].pc \in LongWaits)

Alive(h) == proc[h] \in {"running", "killed"}
Running == {h \in Handle : proc[h] = "running"}
KillIn(p, S) == [h \in Handle |-> IF h \in S /\ p[h] = "running" THEN "killed" ELSE p[h]]

\* The agents that run and that no refused call of the host let escape.
Agents == Running \ escaped

\* The calls that ask the processes of S to exit; the host may refuse some, and
\* every caller goes on as if it had not (`.catch(() => {})`).
Kill(S) ==
    \E kept \in SUBSET S :
        /\ proc' = KillIn(proc, S \ kept)
        /\ escaped' = escaped \union (kept \intersect Running)
        /\ \/ kept = {} /\ UNCHANGED refusals
           \/ kept # {} /\ refusals < MaxRefusals /\ refusals' = refusals + 1

\* A slot is free when nothing refers to the process that used it.
FreeHandles ==
    {h \in Handle : /\ ~Alive(h) /\ h # handle /\ h # watchTimer /\ h \notin ticks
                    /\ \A f \in Flow : h # flow[f].h /\ h \notin flow[f].killed}

-----------------------------------------------------------------------------
\* startAgent up to its first await.
StartEntry(f) ==
    flow' = [flow EXCEPT ![f] =
               IF handle # None \/ booting
               THEN Idle
               ELSE [At("config") EXCEPT !.seen = settings]]

\* stopAgent up to its first await, or to its end when there is no agent;
\* `then` says what its caller does next.
StopEntry(f, then) ==
    /\ watchTimer' = Off
    /\ bridge' = FALSE
    /\ agentOnline' = FALSE
    /\ IF handle # None
       THEN /\ flow' = [flow EXCEPT ![f] = [At("stopping") EXCEPT !.then = then]]
            /\ Kill({handle})
       ELSE /\ UNCHANGED <<proc, escaped, refusals>>
            /\ \/ then = "start" /\ StartEntry(f)
               \/ then = "end" /\ flow' = [flow EXCEPT ![f] = Idle]
               \/ then = "reap" /\ flow' = [flow EXCEPT ![f] = At("toolReaping")]

-----------------------------------------------------------------------------
Init ==
    /\ on = FALSE
    /\ handle = None /\ booting = FALSE /\ stoppedByTool = FALSE /\ agentOnline = FALSE
    /\ bridge = FALSE /\ watchTimer = Off /\ ticks = {} /\ restartTimer = FALSE
    /\ flow = [f \in Flow |-> Idle]
    /\ proc = [h \in Handle |-> "none"]
    /\ cfg = [h \in Handle |-> 0]
    /\ escaped = {} /\ refusals = 0
    /\ settings = 0 /\ toggles = 0 /\ reloads = 0

Activate(f) ==
    /\ ~on /\ Quiet /\ f \in IdleFlows /\ toggles < MaxToggles
    /\ on' = TRUE
    /\ toggles' = toggles + 1
    /\ stoppedByTool' = FALSE
    /\ StartEntry(f)
    /\ UNCHANGED <<handle, booting, agentOnline, bridge, watchTimer, ticks,
                   restartTimer, hostVars, settings, reloads>>

Deactivate(f) ==
    /\ on /\ Quiet /\ f \in IdleFlows /\ toggles < MaxToggles
    /\ on' = FALSE
    /\ toggles' = toggles + 1
    /\ restartTimer' = FALSE
    /\ StopEntry(f, "end")
    /\ UNCHANGED <<handle, booting, stoppedByTool, ticks, cfg, settings, reloads>>

\* onChange of one of the three settings: scheduleRestart.
ChangeSettings ==
    /\ settings < MaxChanges /\ Quiet
    /\ settings' = settings + 1
    /\ restartTimer' = (on \/ restartTimer)
    /\ UNCHANGED <<on, handle, booting, stoppedByTool, agentOnline, bridge,
                   watchTimer, ticks, flow, hostVars, toggles, reloads>>

\* The debounced callback: await stopAgent(); await startAgent().
RestartFires(f) ==
    /\ restartTimer /\ Quiet /\ f \in IdleFlows
    /\ restartTimer' = FALSE
    /\ StopEntry(f, "start")
    /\ UNCHANGED <<handle, booting, stoppedByTool, ticks, cfg, userVars>>

\* remoteAccessDisconnect, which refuses while booting.
Disconnect(f) ==
    /\ on /\ ~booting /\ Quiet /\ f \in IdleFlows /\ toggles < MaxToggles
    /\ toggles' = toggles + 1
    /\ stoppedByTool' = TRUE
    /\ restartTimer' = FALSE
    /\ StopEntry(f, "reap")
    /\ UNCHANGED <<handle, booting, ticks, cfg, on, settings, reloads>>

\* The webview reloads: the module starts afresh, the processes go on.
Reload ==
    /\ reloads < MaxReloads
    /\ reloads' = reloads + 1
    /\ on' = FALSE
    /\ handle' = None /\ booting' = FALSE /\ stoppedByTool' = FALSE
    /\ agentOnline' = FALSE /\ bridge' = FALSE /\ watchTimer' = Off /\ ticks' = {}
    /\ restartTimer' = FALSE
    /\ flow' = [f \in Flow |-> Idle]
    /\ UNCHANGED <<hostVars, settings, toggles>>

-----------------------------------------------------------------------------
\* The kill asked for by stopAgent was accepted: the handle is dropped,
\* whichever it is by now, and the caller goes on.
StopReturns(f) ==
    /\ flow[f].pc = "stopping"
    /\ handle' = None
    /\ \/ /\ flow[f].then = "start" /\ ~booting
          /\ flow' = [flow EXCEPT ![f] = [At("config") EXCEPT !.seen = settings]]
       \/ /\ flow[f].then = "end" \/ (flow[f].then = "start" /\ booting)
          /\ flow' = [flow EXCEPT ![f] = Idle]
       \/ /\ flow[f].then = "reap"
          /\ flow' = [flow EXCEPT ![f] = At("toolReaping")]
    /\ UNCHANGED <<booting, stoppedByTool, agentOnline, bridge, watchTimer, ticks,
                   restartTimer, hostVars, userVars>>

\* Mutant of HeldOff: the flag is not looked at after the settings are read.
NotHeldOff == FALSE
\* Line 221: a disconnect during the reads holds the start off.
HeldOff == stoppedByTool

\* The settings were read: v is a version they had meanwhile.
ConfigReturns(f, v) ==
    /\ flow[f].pc = "config"
    /\ v \in flow[f].seen..settings
    /\ IF v \notin Configured \/ HeldOff
       THEN /\ flow' = [flow EXCEPT ![f] = Idle]
            /\ UNCHANGED booting
       ELSE /\ booting' = TRUE
            /\ flow' = [flow EXCEPT ![f] = [At("reaping") EXCEPT !.seen = v]]
    /\ UNCHANGED <<handle, stoppedByTool, agentOnline, bridge, watchTimer, ticks,
                   restartTimer, hostVars, userVars>>

\* Mutant of Reaped: an agent of an earlier load is left alone.
NothingReaped == {}
\* The processes reapOrphanAgents finds in the host's registry and kills.
Reaped == {h \in Handle : Alive(h)}

\* shell_bg_list returned to the reaper: kill every agent it names.  The
\* disconnect tool's reaper does the same and then ends.
ListReturns(f) ==
    /\ flow[f].pc \in {"reaping", "toolReaping"}
    /\ Kill(Reaped)
    /\ flow' = [flow EXCEPT
                  ![f].pc = CASE flow[f].pc = "toolReaping" /\ Reaped = {} -> "idle"
                              [] flow[f].pc = "toolReaping" /\ Reaped # {} -> "toolDraining"
                              [] flow[f].pc = "reaping" /\ Reaped = {} -> "spawning"
                              [] OTHER -> "draining",
                  ![f].killed = Reaped]
    /\ UNCHANGED <<handle, booting, stoppedByTool, agentOnline, bridge, watchTimer,
                   ticks, restartTimer, cfg, userVars>>

\* shell_bg_list failed: the reaper gives up, and its caller goes on.
ListRefused(f) ==
    /\ flow[f].pc \in {"reaping", "toolReaping"}
    /\ refusals < MaxRefusals
    /\ refusals' = refusals + 1
    /\ escaped' = escaped \union Running
    /\ flow' = [flow EXCEPT
                  ![f].pc = IF flow[f].pc = "reaping" THEN "spawning" ELSE "idle"]
    /\ UNCHANGED <<handle, booting, stoppedByTool, agentOnline, bridge, watchTimer,
                   ticks, restartTimer, proc, cfg, userVars>>

\* The wait for their exit ends: all are gone, or two seconds have passed.
DrainReturns(f) ==
    /\ flow[f].pc \in {"draining", "toolDraining"}
    /\ Failures \/ \A h \in flow[f].killed : ~Alive(h)
    /\ flow' = [flow EXCEPT ![f] = IF flow[f].pc = "draining"
                                   THEN [At("spawning") EXCEPT !.seen = flow[f].seen]
                                   ELSE Idle]
    /\ UNCHANGED <<handle, booting, stoppedByTool, agentOnline, bridge, watchTimer,
                   ticks, restartTimer, hostVars, userVars>>

\* The host executes shell_bg_spawn_direct.
HostSpawns(f, h) ==
    /\ flow[f].pc = "spawning"
    /\ h \in FreeHandles
    /\ proc' = [proc EXCEPT ![h] = "running"]
    /\ escaped' = escaped \ {h}
    /\ cfg' = [cfg EXCEPT ![h] = flow[f].seen]
    /\ flow' = [flow EXCEPT ![f] = [At("spawned") EXCEPT !.h = h]]
    /\ UNCHANGED <<handle, booting, stoppedByTool, agentOnline, bridge, watchTimer,
                   ticks, restartTimer, refusals, userVars>>

\* Mutant of SpawnedHandle: the answer is kept as the record it may come in.
SpawnAnswer(f) == [handle |-> flow[f].h]
SpawnedHandle(f) == flow[f].h

SpawnReturns(f) ==
    /\ flow[f].pc = "spawned"
    /\ handle' = SpawnedHandle(f)
    /\ flow' = [flow EXCEPT ![f].pc = "ready"]
    /\ UNCHANGED <<booting, stoppedByTool, agentOnline, bridge, watchTimer, ticks,
                   restartTimer, hostVars, userVars>>

\* Mutant of Watched: watchAgent is not called.
Unwatched == Off
\* watchAgent(ctx, handle): whatever the module's handle is by now.
Watched == handle

\* readReady saw READY of an agent that has not exited, though it may have been
\* asked to: it is watched and the bridge started.
ReadyReturns(f) ==
    /\ flow[f].pc = "ready" /\ Alive(flow[f].h)
    /\ agentOnline' = TRUE
    /\ watchTimer' = Watched
    /\ bridge' = TRUE
    /\ booting' = FALSE
    /\ flow' = [flow EXCEPT ![f] = Idle]
    /\ UNCHANGED <<handle, stoppedByTool, ticks, restartTimer, hostVars, userVars>>

\* readReady throws: the agent has exited or 10 seconds have passed.  The
\* catch kills whatever `handle` names now.
ReadyFails(f) ==
    /\ flow[f].pc = "ready"
    /\ ~Alive(flow[f].h) \/ Failures
    /\ IF handle # None
       THEN /\ Kill({handle})
            /\ flow' = [flow EXCEPT ![f] = At("failing")]
            /\ UNCHANGED booting
       ELSE /\ flow' = [flow EXCEPT ![f] = Idle]
            /\ booting' = FALSE
            /\ UNCHANGED <<proc, escaped, refusals>>
    /\ UNCHANGED <<handle, stoppedByTool, agentOnline, bridge, watchTimer, ticks,
                   restartTimer, cfg, userVars>>

\* The kill of the catch was accepted; `finally` clears booting.
FailReturns(f) ==
    /\ flow[f].pc = "failing"
    /\ handle' = None
    /\ booting' = FALSE
    /\ flow' = [flow EXCEPT ![f] = Idle]
    /\ UNCHANGED <<stoppedByTool, agentOnline, bridge, watchTimer, ticks,
                   restartTimer, hostVars, userVars>>

-----------------------------------------------------------------------------
\* The watch interval fires: a stale timer stops itself, a current one polls.
WatchTick ==
    /\ watchTimer # Off /\ Quiet
    /\ IF handle # watchTimer
       THEN watchTimer' = Off /\ UNCHANGED ticks
       ELSE /\ watchTimer \in Handle \ ticks
            /\ ticks' = ticks \union {watchTimer}
            /\ UNCHANGED watchTimer
    /\ UNCHANGED <<handle, booting, stoppedByTool, agentOnline, bridge, restartTimer,
                   flow, hostVars, userVars>>

\* Mutant of AfterExit: the tick forgets to schedule the restart.
NoRestart == restartTimer
\* An exited agent schedules a restart.
AfterExit == TRUE

\* The poll of a tick returned: an exited agent is dropped and replaced.
TickReturns(h) ==
    /\ h \in ticks
    /\ ticks' = ticks \ {h}
    /\ IF proc[h] = "exited"
       THEN /\ watchTimer' = Off
            /\ handle' = None
            /\ agentOnline' = FALSE
            /\ restartTimer' = AfterExit
       ELSE UNCHANGED <<watchTimer, handle, agentOnline, restartTimer>>
    /\ UNCHANGED <<booting, stoppedByTool, bridge, flow, hostVars, userVars>>

\* A process exits: it was asked to, or it failed.
ProcExits(h) ==
    /\ proc[h] = "killed" \/ (Failures /\ proc[h] = "running")
    /\ proc' = [proc EXCEPT ![h] = "exited"]
    /\ UNCHANGED <<jsVars, cfg, escaped, refusals, userVars>>

-----------------------------------------------------------------------------
FlowStep(f) ==
    \/ StopReturns(f) \/ \E v \in 0..MaxChanges : ConfigReturns(f, v)
    \/ ListReturns(f) \/ ListRefused(f) \/ DrainReturns(f)
    \/ \E h \in Handle : HostSpawns(f, h)
    \/ SpawnReturns(f) \/ ReadyReturns(f) \/ ReadyFails(f) \/ FailReturns(f)

UserStep(f) == Activate(f) \/ Deactivate(f) \/ Disconnect(f)

Next ==
    \/ \E f \in Flow : UserStep(f) \/ RestartFires(f) \/ FlowStep(f)
    \/ ChangeSettings \/ Reload \/ WatchTick
    \/ \E h \in Handle : TickReturns(h) \/ ProcExits(h)

Spec == Init /\ [][Next]_vars

\* The host answers every call, if only to refuse it, a killed process exits, timers fire.
Fairness ==
    /\ \A f \in Flow : WF_vars(FlowStep(f))
    /\ \A h \in Handle : WF_vars(TickReturns(h)) /\ WF_vars(proc[h] = "killed" /\ ProcExits(h))
    /\ WF_vars(WatchTick)
    /\ WF_vars(\E f \in Flow : RestartFires(f))

FairSpec == Spec /\ Fairness
-----------------------------------------------------------------------------
PCs == {"idle", "stopping", "config", "reaping", "draining", "spawning", "spawned",
        "ready", "failing", "toolReaping", "toolDraining"}

\* The extension's and the host's state is well typed.
TypeOK ==
    /\ {on, booting, stoppedByTool, agentOnline, bridge, restartTimer} \subseteq BOOLEAN
    /\ handle \in Handle \union {None}
    /\ watchTimer \in Handle \union {None, Off}
    /\ ticks \subseteq Handle
    /\ flow \in [Flow -> [pc : PCs, then : {"start", "end", "reap"},
                          h : Handle \union {None}, seen : 0..MaxChanges,
                          killed : SUBSET Handle]]
    /\ proc \in [Handle -> {"none", "running", "killed", "exited"}]
    /\ cfg \in [Handle -> 0..MaxChanges]
    /\ escaped \subseteq Handle /\ refusals \in 0..MaxRefusals
    /\ settings \in 0..MaxChanges /\ toggles \in 0..MaxToggles /\ reloads \in 0..MaxReloads

\* "guaranteeing exactly one writer per session" (index.js:127): never two
\* agents that nobody asked to exit, those aside that the host would not list
\* or kill when it was asked.
AtMostOneAgent == Cardinality(Agents) <= 1

\* "disconnect sticks" (check-ai-tool.mjs:2): once the tool has answered, no
\* agent runs that the host let it find and kill, until the user turns the
\* extension on again, whatever settings change and whatever restart is due.
DisconnectSticks ==
    (stoppedByTool /\ \A f \in Flow :
        flow[f].then # "reap" /\ flow[f].pc \notin {"toolReaping", "toolDraining"})
    => Agents = {}

\* While the extension is on, configured and at rest, an agent that runs is the
\* one in `handle` or one whose list or kill the host refused, the agent in
\* `handle` is watched, and the bridge and the status bar agree.  Of an agent
\* that runs while the extension wants none it says nothing (OffMeansOff does).
NoLostAgent ==
    (AllIdle /\ on /\ ticks = {} /\ ~restartTimer /\ settings \in Configured) =>
        /\ Agents \subseteq {handle}
        /\ handle # None => watchTimer = handle
        /\ bridge = agentOnline

\* "so mirroring does not silently die": a configured extension whose agent
\* exited by itself boots another.
DeadAgentReplaced ==
    (on /\ ~stoppedByTool /\ agentOnline /\ handle # None /\ proc[handle] = "exited"
        /\ settings \in Configured)
    ~> (booting \/ ~on \/ stoppedByTool \/ settings \notin Configured)

\* "the single on/off" (index.js:812): disabled and nothing left to do means
\* that no agent runs.
OffMeansOff ==
    (~on /\ AllIdle /\ ticks = {} /\ ~restartTimer /\ reloads = 0) => Running = {}

\* "(re)start the agent when the relay config changes" (index.js:814): once
\* everything has settled the agent that runs was given the current settings.
SettledIsCurrent ==
    (AllIdle /\ on /\ ~stoppedByTool /\ ticks = {} /\ ~restartTimer
        /\ settings \in Configured)
    => \E h \in Running : h = handle /\ cfg[h] = settings
=============================================================================
