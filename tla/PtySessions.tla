------------------------------ MODULE PtySessions ------------------------------
(****************************************************************************)
(* The session table of the native agent (sidecar-src/src/main.rs): which   *)
(* PTY sessions of the daemon it mirrors, how it learns of new, exited and  *)
(* closed ones, what list it publishes, and how a browser opens another.    *)
(*                                                                          *)
(* The poll task lists the daemon every two seconds and attaches what is    *)
(* new; the pump marks exited sessions; the relay loop publishes the table  *)
(* on every connect and hello, opens and closes.  The runtime is            *)
(* multi-threaded: a frame is built under the table's lock and sent in a    *)
(* later action, and the other tasks may do anything between the two.       *)
(****************************************************************************)
EXTENDS Naturals, FiniteSets

CONSTANTS
    Session,        \* the sessions that may come to exist
    Desktop,        \* those the desktop app opens; browsers open the others
    Cap,            \* MAX_MIRRORED_SESSIONS
    MaxOpens,       \* bound: sessions the browser asks for
    MaxEvents       \* bound: calls that time out, lost relay connections, replays
                    \* asked by browsers, frames that find the channel full

ASSUME DesktopAssumption == Desktop \subseteq Session
ASSUME BoundAssumption ==
    Cap \in Nat /\ MaxOpens \in Nat /\ MaxEvents \in Nat

VARIABLES
    pty,            \* the daemon's sessions
    subscribed,     \* sessions whose Exit the daemon pushes to the agent
    exits,          \* Exit events not yet pumped
    closing,        \* Close requests on their way to the daemon
    sessions,       \* the agent's table
    poll,           \* the poll task: where it is, the list and what is left of
                    \* it, whether the table changed, the frame to send
    pump,           \* the pump: the exit it has to tell, the entry it left
    replay,         \* the relay loop: a frame built and not yet sent
    up,
    published,      \* the list the browser last received
    stale,          \* history: sessions the table had changed again when the
                    \* last frame about them was sent, or whose frame was dropped
    inFlight,       \* IN_FLIGHT_OPENS
    limited,        \* an open was accepted: the next may come within
                    \* MIN_OPEN_INTERVAL of it
    asked, late,    \* opens the daemon has to execute, and those given up on
    opens, events

daemonVars == <<pty, subscribed, exits, closing>>
tableVars == <<sessions, poll, pump>>
shownVars == <<published, stale>>
relayVars == <<replay, up, shownVars>>
openVars == <<inFlight, limited, asked, late>>
budget == <<opens, events>>
ptyVars == <<daemonVars, tableVars, relayVars, openVars, budget>>

-----------------------------------------------------------------------------
States == {"none", "alive", "dead"}
NoneListed == [s \in Session |-> "none"]
In(table) == {s \in Session : table[s] # "none"}

\* What the daemon's List answers: live sessions, and exited ones it still has.
Listing == [s \in Session |-> IF pty[s] \in {"alive", "dead"} THEN pty[s] ELSE "none"]

PollAt(pc) ==
    [pc |-> pc, live |-> {}, todo |-> {}, changed |-> FALSE, asking |-> {}, got |-> {},
     frame |-> NoneListed]
PollIdle == PollAt("idle")
NoReplay == [pc |-> "idle", frame |-> NoneListed]

PumpIdle == [of |-> {}, entry |-> "none"]

\* Where a list differs from the table.
Outdated(list) == {s \in Session : list[s] # sessions[s]}

\* send_relay without a look at its result: no link, or a full channel.
Unsent == ~up /\ UNCHANGED <<shownVars, events>>
Dropped ==
    /\ up /\ events < MaxEvents /\ events' = events + 1
    /\ stale' = stale \union Outdated(published) /\ UNCHANGED published
\* A sessions frame is sent.
Publish(frame) ==
    \/ /\ up /\ published' = frame /\ stale' = Outdated(frame)
       /\ UNCHANGED events
    \/ Unsent \/ Dropped
\* An exit frame is sent: it marks the tab, if there is one.
Tell(s) ==
    \/ /\ up /\ published' = [published EXCEPT ![s] = IF @ = "none" THEN @ ELSE "dead"]
       /\ stale' = IF sessions[s] = pump.entry THEN stale ELSE stale \union {s}
       /\ UNCHANGED events
    \/ Unsent \/ Dropped

-----------------------------------------------------------------------------
PtyInit ==
    /\ pty = [s \in Session |-> "unborn"]
    /\ subscribed = {} /\ exits = {} /\ closing = {}
    /\ sessions = NoneListed /\ poll = PollIdle /\ pump = PumpIdle
    /\ replay = NoReplay /\ up = FALSE /\ published = NoneListed /\ stale = {}
    /\ inFlight = 0 /\ limited = FALSE /\ asked = 0 /\ late = 0
    /\ opens = 0 /\ events = 0

\* fetch_sub, whatever the answer was.
Released == inFlight - 1

\* An open is answered and its slot released; an open refused between the two
\* is one refused for the interval.
OpenReturns == asked > 0 /\ asked' = asked - 1 /\ inFlight' = Released

\* The daemon executes an open, fails it, or takes longer than REQUEST_TIMEOUT
\* and still executes it afterwards.
DaemonOpens(s) ==
    /\ OpenReturns
    /\ pty[s] = "unborn" /\ s \notin Desktop
    /\ pty' = [pty EXCEPT ![s] = "alive"]
    /\ UNCHANGED <<subscribed, exits, closing, tableVars, relayVars, limited, late, budget>>

DaemonRefuses ==
    /\ OpenReturns
    /\ UNCHANGED <<daemonVars, tableVars, relayVars, limited, late, budget>>

OpenTimesOut ==
    /\ OpenReturns
    /\ events < MaxEvents /\ events' = events + 1
    /\ late' = late + 1
    /\ UNCHANGED <<daemonVars, tableVars, relayVars, limited, opens>>

DaemonOpensLate(s) ==
    /\ late > 0 /\ pty[s] = "unborn" /\ s \notin Desktop
    /\ pty' = [pty EXCEPT ![s] = "alive"]
    /\ late' = late - 1
    /\ UNCHANGED <<subscribed, exits, closing, tableVars, relayVars,
                   inFlight, limited, asked, budget>>

\* The user opens a terminal on the desktop.
DesktopOpens(s) ==
    /\ s \in Desktop /\ pty[s] = "unborn"
    /\ pty' = [pty EXCEPT ![s] = "alive"]
    /\ UNCHANGED <<subscribed, exits, closing, tableVars, relayVars, openVars, budget>>

\* A shell exits; the daemon keeps it listed, and tells its subscribers.
ShellExits(s) ==
    /\ pty[s] = "alive"
    /\ pty' = [pty EXCEPT ![s] = "dead"]
    /\ exits' = exits \union (subscribed \intersect {s})
    /\ UNCHANGED <<subscribed, closing, tableVars, relayVars, openVars, budget>>

\* The daemon drops an exited session.
DaemonDrops(s) ==
    /\ pty[s] = "dead"
    /\ pty' = [pty EXCEPT ![s] = "gone"]
    /\ UNCHANGED <<subscribed, exits, closing, tableVars, relayVars, openVars, budget>>

\* close: the PTY is killed and removed, its subscribers are told.
DaemonCloses(s) ==
    /\ s \in closing
    /\ closing' = closing \ {s}
    /\ IF Listing[s] = "none"
       THEN UNCHANGED <<pty, exits>>
       ELSE /\ pty' = [pty EXCEPT ![s] = "gone"]
            /\ exits' = IF pty[s] = "alive" THEN exits \union (subscribed \intersect {s})
                                            ELSE exits
    /\ UNCHANGED <<subscribed, tableVars, relayVars, openVars, budget>>

-----------------------------------------------------------------------------
\* The poll's tick and the daemon's answer to List, which may be used after
\* later events.
PollLists ==
    /\ poll.pc = "idle"
    /\ poll' = [PollAt("items") EXCEPT !.live = In(Listing),
                                       !.todo = {s \in Session : Listing[s] = "alive"}]
    /\ UNCHANGED <<daemonVars, sessions, pump, relayVars, openVars, budget>>

ListFails ==
    /\ poll.pc = "idle" /\ events < MaxEvents
    /\ events' = events + 1
    /\ UNCHANGED <<daemonVars, tableVars, relayVars, openVars, opens>>

\* The loop takes an item of the list: a known session is refreshed from it,
\* an unknown one is attached.  Exited sessions of the list are skipped.
TakeItem(s) ==
    /\ poll.pc = "items" /\ s \in poll.todo
    /\ IF sessions[s] = "none"
       THEN /\ poll' = [poll EXCEPT !.pc = "attaching", !.todo = @ \ {s},
                                    !.asking = {s}]
            /\ UNCHANGED sessions
       ELSE /\ sessions' = [sessions EXCEPT ![s] = "alive"]
            /\ poll' = [poll EXCEPT !.pc = "items", !.todo = @ \ {s},
                                    !.changed = @ \/ sessions[s] = "dead"]
    /\ UNCHANGED <<daemonVars, pump, relayVars, openVars, budget>>

\* The daemon makes the agent a subscriber, or has no such session.
DaemonAttaches(s) ==
    /\ s \in poll.asking
    /\ IF Listing[s] = "none"
       THEN /\ poll' = [poll EXCEPT !.pc = "items", !.asking = {}]
            /\ UNCHANGED subscribed
       ELSE /\ subscribed' = subscribed \union {s}
            /\ poll' = [poll EXCEPT !.asking = {}, !.got = {s}]
    /\ UNCHANGED <<pty, exits, closing, sessions, pump, relayVars, openVars, budget>>

\* attach answered: the entry is inserted as the list had it, alive.
AttachReturns(s) ==
    /\ s \in poll.got
    /\ sessions' = [sessions EXCEPT ![s] = "alive"]
    /\ poll' = [poll EXCEPT !.pc = "items", !.got = {}, !.changed = TRUE]
    /\ UNCHANGED <<daemonVars, pump, relayVars, openVars, budget>>

\* attach is given up after REQUEST_TIMEOUT, executed or not.
AttachTimesOut ==
    /\ poll.pc = "attaching" /\ events < MaxEvents
    /\ events' = events + 1
    /\ poll' = [poll EXCEPT !.pc = "items", !.asking = {}, !.got = {}]
    /\ UNCHANGED <<daemonVars, sessions, pump, relayVars, openVars, opens>>

\* Mutant of Gone: what the list no longer names stays in the table.
GoneNone == {}
\* Entries the list no longer names.
Gone == In(sessions) \ poll.live

\* Mutant of Changed: an attached or refreshed session is not news.
ChangedGone == Gone # {}
\* Whether the browsers have to be told.
Changed == poll.changed \/ Gone # {}

Sweep ==
    /\ poll.pc = "items" /\ poll.todo = {}
    /\ sessions' = [s \in Session |-> IF s \in Gone THEN "none" ELSE sessions[s]]
    /\ poll' = IF Changed THEN PollAt("build") ELSE PollIdle
    /\ UNCHANGED <<daemonVars, pump, relayVars, openVars, budget>>

PollBuilds ==
    /\ poll.pc = "build"
    /\ poll' = [PollAt("send") EXCEPT !.frame = sessions]
    /\ UNCHANGED <<daemonVars, sessions, pump, relayVars, openVars, budget>>

PollSends ==
    /\ poll.pc = "send"
    /\ Publish(poll.frame)
    /\ poll' = PollIdle
    /\ UNCHANGED <<daemonVars, sessions, pump, replay, up, openVars, opens>>

\* Mutant of Exited: the table keeps an exited session alive.
ExitedKept(s) == sessions
\* The table after the Exit of s.
Exited(s) == [sessions EXCEPT ![s] = IF @ = "none" THEN @ ELSE "dead"]

\* The pump handles an Exit: the entry is marked, then the browser is told.
PumpMarks(s) ==
    /\ s \in exits /\ pump = PumpIdle
    /\ exits' = exits \ {s}
    /\ sessions' = Exited(s)
    /\ pump' = [of |-> {s}, entry |-> Exited(s)[s]]
    /\ UNCHANGED <<pty, subscribed, closing, poll, relayVars, openVars, budget>>

PumpTells(s) ==
    /\ s \in pump.of
    /\ Tell(s)
    /\ pump' = PumpIdle
    /\ UNCHANGED <<daemonVars, sessions, poll, replay, up, openVars, opens>>

-----------------------------------------------------------------------------
\* The relay loop: a new connection is sent the table.
RelayConnects ==
    /\ ~up
    /\ up' = TRUE
    /\ replay' = [NoReplay EXCEPT !.pc = "build"]
    /\ UNCHANGED <<daemonVars, tableVars, shownVars, openVars, budget>>

RelayDrops ==
    /\ up /\ replay.pc = "idle" /\ events < MaxEvents
    /\ events' = events + 1
    /\ up' = FALSE
    /\ UNCHANGED <<daemonVars, tableVars, replay, shownVars, openVars, opens>>

\* hello or client_join.
Hello ==
    /\ up /\ replay.pc = "idle" /\ events < MaxEvents
    /\ events' = events + 1
    /\ replay' = [NoReplay EXCEPT !.pc = "build"]
    /\ UNCHANGED <<daemonVars, tableVars, up, shownVars, openVars, opens>>

ReplayBuilds ==
    /\ replay.pc = "build"
    /\ replay' = [pc |-> "send", frame |-> sessions]
    /\ UNCHANGED <<daemonVars, tableVars, up, shownVars, openVars, budget>>

ReplaySends ==
    /\ replay.pc = "send"
    /\ Publish(replay.frame)
    /\ replay' = NoReplay
    /\ UNCHANGED <<daemonVars, tableVars, up, openVars, opens>>

\* A browser closes a session of the table.
BrowserCloses(s) ==
    /\ up /\ replay.pc = "idle"
    /\ sessions[s] # "none" /\ s \notin closing
    /\ closing' = closing \union {s}
    /\ UNCHANGED <<pty, subscribed, exits, tableVars, relayVars, openVars, budget>>

\* open_allowed: the cap and the rate limit, `soon` after the last open.
OpenAllowed(soon) == Cardinality(In(sessions)) + inFlight < Cap /\ ~soon

\* fetch_add in open_allowed.
Reserved == inFlight + 1

BrowserOpens ==
    /\ up /\ replay.pc = "idle" /\ opens < MaxOpens
    /\ opens' = opens + 1
    /\ \E soon \in {FALSE, limited} :
        IF OpenAllowed(soon)
        THEN inFlight' = Reserved /\ limited' = TRUE /\ asked' = asked + 1
        ELSE UNCHANGED <<inFlight, limited, asked>>
    /\ UNCHANGED <<daemonVars, tableVars, relayVars, late, events>>

-----------------------------------------------------------------------------
\* The poll task, and what the daemon answers it.
PollStep ==
    \/ PollLists \/ Sweep \/ PollBuilds \/ PollSends
    \/ \E s \in Session : TakeItem(s) \/ DaemonAttaches(s) \/ AttachReturns(s)

PumpStep == \E s \in Session : PumpMarks(s) \/ PumpTells(s)

OpenAnswer == DaemonRefuses \/ \E s \in Session : DaemonOpens(s)

RelayStep == RelayConnects \/ ReplayBuilds \/ ReplaySends

PtyNext ==
    \/ PollStep \/ OpenAnswer \/ PumpStep \/ RelayStep
    \/ ListFails \/ AttachTimesOut \/ OpenTimesOut
    \/ RelayDrops \/ Hello \/ BrowserOpens
    \/ \E s \in Session :
        \/ ShellExits(s) \/ DaemonDrops(s) \/ DaemonCloses(s)
        \/ BrowserCloses(s) \/ DesktopOpens(s) \/ DaemonOpensLate(s)

PtySpec == PtyInit /\ [][PtyNext]_ptyVars

\* The runtime runs every task that is ready and the daemon answers the poll.
PtyFairness == WF_ptyVars(PollStep) /\ WF_ptyVars(PumpStep) /\ WF_ptyVars(RelayStep)

FairPtySpec == PtySpec /\ PtyFairness
-----------------------------------------------------------------------------
\* The agent's and the daemon's state is well typed.
PtyTypeOK ==
    /\ pty \in [Session -> {"unborn", "alive", "dead", "gone"}] /\ {subscribed, exits, closing} \subseteq SUBSET Session
    /\ sessions \in [Session -> States] /\ published \in [Session -> States]
    /\ poll.pc \in {"idle", "items", "attaching", "build", "send"}
    /\ poll.frame \in [Session -> States] /\ poll.changed \in BOOLEAN
    /\ {poll.live, poll.todo, poll.asking, poll.got} \subseteq SUBSET Session
    /\ poll.pc = "attaching" <=> Cardinality(poll.asking \union poll.got) = 1
    /\ pump.of \in SUBSET Session /\ Cardinality(pump.of) <= 1 /\ pump.entry \in States
    /\ stale \in SUBSET Session
    /\ replay \in [pc : {"idle", "build", "send"}, frame : [Session -> States]]
    /\ {up, limited} \subseteq BOOLEAN
    /\ {inFlight, asked, late} \subseteq 0..MaxOpens
    /\ opens \in 0..MaxOpens
    /\ events \in 0..MaxEvents

\* When no task has something to send, the browser shows each session as the
\* agent's table has it: no change of a task goes untold, whatever the others do
\* at the same time.  The one exception is a session whose last frame was
\* overtaken by a change of the table, or dropped, until the next list.
PublishedIsTable ==
    (up /\ replay.pc = "idle" /\ pump = PumpIdle
        /\ poll.pc \notin {"build", "send"} /\ ~poll.changed)
    => \A s \in Session \ stale : published[s] = sessions[s]

\* "It mirrors every live PTY daemon session" (main.rs:4): a session that stays
\* alive is on the browser's list from some moment on, or the last frame about it
\* was overtaken or dropped.
LiveIsMirrored ==
    \A s \in Session :
        <>[](pty[s] = "alive") => <>[](published[s] = "alive" \/ s \in stale)

\* "the tab closes everywhere and the next list() drops it" (main.rs:335-336),
\* with the same exception.
GoneDisappears ==
    \A s \in Session : pty[s] = "gone" ~> published[s] = "none" \/ s \in stale

\* The first two without the exception.  The code has neither: a list that a
\* replay built before another task's change is sent after that task's list.
NeverStale ==
    (up /\ replay.pc = "idle" /\ pump = PumpIdle
        /\ poll.pc \notin {"build", "send"} /\ ~poll.changed) => published = sessions
LiveIsListed ==
    \A s \in Session : <>[](pty[s] = "alive") => <>[](published[s] = "alive")

\* The opens "not yet visible in sessions" count toward the cap (main.rs:224-227):
\* browsers alone never bring more sessions to life than the cap.
CapHolds == Cardinality({s \in Session : pty[s] = "alive"}) <= Cap
=============================================================================
