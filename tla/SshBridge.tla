------------------------------- MODULE SshBridge -------------------------------
(****************************************************************************)
(* The extension's SSH bridge (src/index.js 346-745): a second source of    *)
(* the relay that mirrors the desktop's SSH sessions.                       *)
(*                                                                          *)
(* startSshBridge and stopSshBridge are called by the agent's lifecycle,    *)
(* always a start, then a stop.  A Flow is one activation of startSshBridge *)
(* or connectSshRelay, awaiting the host, the ticket or its retry timer; a  *)
(* Poll is one activation of pollSsh, awaiting ssh_list_sessions or         *)
(* ssh_attach.  Activations overlap: nothing in the code serialises them.   *)
(****************************************************************************)
EXTENDS Naturals

CONSTANTS
    Conn,           \* slots for WebSockets to the relay
    NSess,          \* SSH sessions of the host are numbered 1..NSess
    Flow, Poll,     \* slots for activations
    None,           \* null
    PromptHost,     \* TRUE: the host answers a poll before the next event
    PromptRelay,    \* TRUE: no start while an earlier start awaits its ticket
    MaxStarts,      \* bound: starts of the bridge
    MaxFaults,      \* bound: lost sockets, refused tickets, failed host calls
    MaxJoins,       \* bound: client_join frames
    MaxSinks        \* bound: channels the host feeds per session

ASSUME PromptAssumption == PromptHost \in BOOLEAN /\ PromptRelay \in BOOLEAN
ASSUME BoundsAssumption ==
    /\ NSess \in Nat /\ MaxStarts \in Nat /\ MaxFaults \in Nat
    /\ MaxJoins \in Nat /\ MaxSinks \in Nat
ASSUME NoneAssumption == None \notin Conn /\ None \notin Flow

VARIABLES
    sshWs, conn,            \* the current socket, and every socket's state
    sshStop, sshPollTimer,
    sshReconnectTimer,      \* the flow whose pending timer it names
    flow,
    sshAttached,
    sshChannels,            \* sessions with a disposer in the map
    sink,                   \* how many channels the host feeds per session
    poll,
    published,              \* the list last sent on the current socket
    host, closing,          \* the host's sessions, those asked to close
    starts, faults, joins

connVars == <<sshWs, conn, sshStop, sshPollTimer, sshReconnectTimer, flow>>
sinkVars == <<sshAttached, sshChannels, sink>>
pollVars == <<poll, published>>
hostVars == <<host, closing>>
budget == <<starts, faults, joins>>
vars == <<connVars, sinkVars, pollVars, hostVars, budget>>

Sess == 1..NSess
-----------------------------------------------------------------------------
\* What ssh_list_sessions answers.
Listed == [s \in Sess |-> IF host[s] \in {"alive", "dead"} THEN host[s] ELSE "none"]
NothingListed == [s \in Sess |-> "none"]

IdlePoll == [pc |-> "idle", list |-> NothingListed, at |-> 0]
AskHost(p) == poll' = [poll EXCEPT ![p] = [IdlePoll EXCEPT !.pc = "asked"]]
Quiet == PromptHost => \A p \in Poll : poll[p].pc = "idle"

Live(c) == conn[c] \in {"connecting", "open"}
Linked == sshWs # None /\ conn[sshWs] = "open"
Fault == faults < MaxFaults /\ faults' = faults + 1

\* The sinks left when the disposers of S are run.
Disposed(S) ==
    [s \in Sess |-> IF s \in S \intersect sshChannels /\ sink[s] > 0
                    THEN sink[s] - 1 ELSE sink[s]]

\* A timer that calls connectSshRelay again.
Retry(f) == /\ flow' = [flow EXCEPT ![f] = "waiting"]
            /\ sshReconnectTimer' = f

-----------------------------------------------------------------------------
Init ==
    /\ sshWs = None /\ conn = [c \in Conn |-> "free"]
    /\ sshStop = FALSE /\ sshPollTimer = FALSE /\ sshReconnectTimer = None
    /\ flow = [f \in Flow |-> "idle"]
    /\ sshAttached = {} /\ sshChannels = {} /\ sink = [s \in Sess |-> 0]
    /\ poll = [p \in Poll |-> IdlePoll] /\ published = NothingListed
    /\ host = [s \in Sess |-> "unborn"] /\ closing = {}
    /\ starts = 0 /\ faults = 0 /\ joins = 0

\* startSshBridge up to its await of the host.
Start(f) ==
    /\ starts < MaxStarts /\ (starts = 0 \/ sshStop) /\ flow[f] = "idle" /\ Quiet
    /\ PromptRelay => \A g \in Flow : flow[g] \notin {"listing", "ticket"}
    /\ starts' = starts + 1
    /\ sshStop' = FALSE
    /\ flow' = [flow EXCEPT ![f] = "listing"]
    /\ UNCHANGED <<sshWs, conn, sshPollTimer, sshReconnectTimer, sinkVars, pollVars,
                   hostVars, faults, joins>>

\* Mutant of Kept: the reconnect timer survives the stop.
KeptAll == Flow
\* The flows whose timer a stop does not clear.
Kept == Flow \ {sshReconnectTimer}

\* Mutant of Doomed: the channels of a stopped bridge are forgotten only.
DoomedNone == {}
\* The sessions whose disposer a stop runs.
Doomed == Sess

\* stopSshBridge.
Stop ==
    /\ starts > 0 /\ ~sshStop /\ Quiet
    /\ sshStop' = TRUE
    /\ sshPollTimer' = FALSE
    /\ flow' = [f \in Flow |-> IF f \notin Kept /\ flow[f] = "waiting" THEN "idle" ELSE flow[f]]
    /\ sshReconnectTimer' = None
    /\ sshWs' = None
    /\ conn' = [c \in Conn |-> IF c = sshWs /\ Live(c) THEN "detached" ELSE conn[c]]
    /\ sink' = Disposed(Doomed)
    /\ sshChannels' = {} /\ sshAttached' = {}
    /\ UNCHANGED <<pollVars, hostVars, budget>>

-----------------------------------------------------------------------------
\* connectSshRelay up to the ticket request: called when the host has
\* answered startSshBridge, and by the timer.
RequestTicket(f) ==
    /\ flow[f] \in {"listing", "waiting"}
    /\ flow' = [flow EXCEPT ![f] = IF sshStop THEN "idle" ELSE "ticket"]
    /\ sshReconnectTimer' = IF f = sshReconnectTimer THEN None ELSE sshReconnectTimer
    /\ UNCHANGED <<sshWs, conn, sshStop, sshPollTimer, sinkVars, pollVars, hostVars, budget>>

TicketRefused(f) ==
    /\ flow[f] = "ticket" /\ Fault
    /\ IF sshStop
       THEN flow' = [flow EXCEPT ![f] = "idle"] /\ UNCHANGED sshReconnectTimer
       ELSE Retry(f)
    /\ UNCHANGED <<sshWs, conn, sshStop, sshPollTimer, sinkVars, pollVars, hostVars,
                   starts, joins>>

\* Mutant of StoppedMeanwhile: the flag is not looked at again.
NeverStopped == FALSE
\* Line 489: stopped while the ticket was in flight.
StoppedMeanwhile == sshStop

TicketGranted(f, c) ==
    /\ flow[f] = "ticket" /\ conn[c] = "free"
    /\ flow' = [flow EXCEPT ![f] = "idle"]
    /\ IF StoppedMeanwhile
       THEN UNCHANGED <<conn, sshWs>>
       ELSE conn' = [conn EXCEPT ![c] = "connecting"] /\ sshWs' = c
    /\ UNCHANGED <<sshStop, sshPollTimer, sshReconnectTimer, sinkVars, pollVars,
                   hostVars, budget>>

\* ws.onopen: the poll interval is replaced and a first poll is made.
ConnOpens(c, p) ==
    /\ conn[c] = "connecting" /\ poll[p].pc = "idle" /\ Quiet
    /\ conn' = [conn EXCEPT ![c] = "open"]
    /\ sshPollTimer' = TRUE
    /\ published' = NothingListed
    /\ AskHost(p)
    /\ UNCHANGED <<sshWs, sshStop, sshReconnectTimer, flow, sinkVars, hostVars, budget>>

\* Mutant of Deaf: the handlers of a stopped socket stay in place.
DeafNever(c) == FALSE
\* Sockets whose onclose was taken away.
Deaf(c) == conn[c] = "detached"

\* Mutant of Reconnects: a refused or lost socket is not replaced.
ReconnectsNot(c) == FALSE
\* "Only the CURRENT socket may schedule a reconnect."
Reconnects(c) == ~sshStop /\ c = sshWs

\* A socket ends, by the relay, the network or a close that completes; its
\* onclose runs unless it was detached.
ConnEnds(c, f) ==
    /\ IF conn[c] = "detached" THEN UNCHANGED faults ELSE Live(c) /\ Fault
    /\ conn' = [conn EXCEPT ![c] = "free"]
    /\ sshPollTimer' = (sshPollTimer /\ Deaf(c))
    /\ IF ~Deaf(c) /\ Reconnects(c)
       THEN flow[f] = "idle" /\ Retry(f)
       ELSE UNCHANGED <<flow, sshReconnectTimer>>
    /\ UNCHANGED <<sshWs, sshStop, sinkVars, pollVars, hostVars, starts, joins>>

-----------------------------------------------------------------------------
PollTick(p) ==
    /\ sshPollTimer /\ poll[p].pc = "idle" /\ Quiet
    /\ AskHost(p)
    /\ UNCHANGED <<connVars, sinkVars, published, hostVars, budget>>

\* A browser joined: poll without attaching anything twice.
ClientJoin(c, p) ==
    /\ conn[c] = "open" /\ poll[p].pc = "idle" /\ Quiet /\ joins < MaxJoins
    /\ joins' = joins + 1
    /\ AskHost(p)
    /\ UNCHANGED <<connVars, sinkVars, published, hostVars, starts, faults>>

\* The host executes ssh_list_sessions.
HostLists(p) ==
    /\ poll[p].pc = "asked"
    /\ poll' = [poll EXCEPT ![p] = [pc |-> "listed", list |-> Listed, at |-> 0]]
    /\ UNCHANGED <<connVars, sinkVars, published, hostVars, budget>>

ListFails(p) ==
    /\ poll[p].pc = "asked" /\ Fault
    /\ poll' = [poll EXCEPT ![p] = IdlePoll]
    /\ UNCHANGED <<connVars, sinkVars, published, hostVars, starts, joins>>

\* Mutant of Unattached: sessions are attached on every poll.
UnattachedAny(list, attached) == {s \in Sess : list[s] = "alive"}
\* What the loop still attaches: alive and not attached yet.
Unattached(list, attached) == {s \in Sess \ attached : list[s] = "alive"}

\* The loop of pollSsh after session `at`: up to the next ssh_attach, or to
\* the list sent at its end.
PollOn(p, list, at, attached) ==
    LET todo == {s \in Unattached(list, attached) : s > at} IN
    \/ \E s \in todo :
         /\ \A t \in todo : s <= t
         /\ poll' = [poll EXCEPT ![p] = [pc |-> "attaching", list |-> list, at |-> s]]
         /\ sshAttached' = attached \union {s}
         /\ UNCHANGED published
    \/ /\ todo = {}
       /\ poll' = [poll EXCEPT ![p] = IdlePoll]
       /\ sshAttached' = attached
       /\ published' = IF Linked THEN list ELSE published

\* Mutant of Vanished: sessions missing from the list stay attached.
VanishedNone(list) == {}
\* Attached sessions the list no longer names.
Vanished(list) == {s \in sshAttached : list[s] = "none"}

ListReturns(p) ==
    /\ poll[p].pc = "listed"
    /\ LET gone == Vanished(poll[p].list) IN
       /\ sink' = Disposed(gone)
       /\ sshChannels' = sshChannels \ gone
       /\ PollOn(p, poll[p].list, 0, sshAttached \ gone)
    /\ UNCHANGED <<connVars, hostVars, budget>>

\* ssh_attach answered: the disposer is kept, in place of an earlier one.
AttachReturns(p) ==
    /\ poll[p].pc = "attaching" /\ host[poll[p].at] = "alive"
    /\ sink[poll[p].at] < MaxSinks
    /\ sink' = [sink EXCEPT ![poll[p].at] = @ + 1]
    /\ sshChannels' = sshChannels \union {poll[p].at}
    /\ PollOn(p, poll[p].list, poll[p].at, sshAttached)
    /\ UNCHANGED <<connVars, hostVars, budget>>

\* Mutant of Refused: a session that could not be attached counts as attached.
RefusedNone(s) == {}
\* Taken back when ssh_attach fails.
Refused(s) == {s}

AttachFails(p) ==
    /\ poll[p].pc = "attaching"
    /\ IF host[poll[p].at] = "alive" THEN Fault ELSE UNCHANGED faults
    /\ PollOn(p, poll[p].list, poll[p].at, sshAttached \ Refused(poll[p].at))
    /\ UNCHANGED <<connVars, sink, sshChannels, hostVars, starts, joins>>

\* The session a close frame's "ssh:<s>" names.
ClosedId(s) == s

\* A browser closes the tab of s: the frame reaches every open socket.
CloseFrame(c, s) ==
    /\ conn[c] = "open" /\ s \in sshAttached /\ Quiet
    /\ closing' = closing \union {ClosedId(s)}
    /\ sshAttached' = sshAttached \ {s}
    /\ sink' = Disposed({s})
    /\ sshChannels' = sshChannels \ {s}
    /\ UNCHANGED <<connVars, pollVars, host, budget>>

-----------------------------------------------------------------------------
\* The host's sessions: opened, ended, dropped from the list.
SessionOpens(s) ==
    /\ host[s] = "unborn"
    /\ host' = [host EXCEPT ![s] = "alive"]
    /\ UNCHANGED <<connVars, sinkVars, pollVars, closing, budget>>

SessionEnds(s) ==
    /\ host[s] = "alive"
    /\ host' = [host EXCEPT ![s] = "dead"]
    /\ sink' = [sink EXCEPT ![s] = 0]
    /\ UNCHANGED <<connVars, sshAttached, sshChannels, pollVars, closing, budget>>

SessionForgotten(s) ==
    /\ host[s] = "dead"
    /\ host' = [host EXCEPT ![s] = "gone"]
    /\ UNCHANGED <<connVars, sinkVars, pollVars, closing, budget>>

-----------------------------------------------------------------------------
FlowStep(f) ==
    \/ RequestTicket(f) \/ TicketRefused(f)
    \/ \E c \in Conn : TicketGranted(f, c)

ConnStep(c) ==
    \/ \E p \in Poll : ConnOpens(c, p) \/ ClientJoin(c, p)
    \/ \E f \in Flow : ConnEnds(c, f)
    \/ \E s \in Sess : CloseFrame(c, s)

PollStep(p) ==
    HostLists(p) \/ ListFails(p) \/ ListReturns(p) \/ AttachReturns(p) \/ AttachFails(p)

HostStep(s) == SessionOpens(s) \/ SessionEnds(s) \/ SessionForgotten(s)

Next ==
    \/ Stop
    \/ \E f \in Flow : Start(f) \/ FlowStep(f)
    \/ \E c \in Conn : ConnStep(c)
    \/ \E p \in Poll : PollTick(p) \/ PollStep(p)
    \/ \E s \in Sess : HostStep(s)

Spec == Init /\ [][Next]_vars

\* The host and the relay answer, timers fire, a session asked to close ends.
Fairness ==
    /\ \A f \in Flow : WF_vars(FlowStep(f))
    /\ \A c \in Conn : WF_vars(\E p \in Poll : ConnOpens(c, p))
    /\ \A c \in Conn : WF_vars(Deaf(c) /\ \E f \in Flow : ConnEnds(c, f))
    /\ \A p \in Poll : WF_vars(PollStep(p))
    /\ WF_vars(\E p \in Poll : PollTick(p))
    /\ \A s \in Sess : WF_vars(s \in closing /\ SessionEnds(s)) /\ WF_vars(SessionForgotten(s))

FairSpec == Spec /\ Fairness
-----------------------------------------------------------------------------
\* The bridge's state is well typed.
TypeOK ==
    /\ sshWs \in Conn \union {None}
    /\ conn \in [Conn -> {"free", "connecting", "open", "detached"}]
    /\ {sshStop, sshPollTimer} \subseteq BOOLEAN
    /\ sshReconnectTimer \in Flow \union {None}
    /\ flow \in [Flow -> {"idle", "listing", "ticket", "waiting"}]
    /\ sshAttached \subseteq Sess /\ sshChannels \subseteq Sess
    /\ sink \in [Sess -> 0..MaxSinks]
    /\ poll \in [Poll -> [pc : {"idle", "asked", "listed", "attaching"},
                          list : [Sess -> {"none", "dead", "alive"}], at : 0..NSess]]
    /\ published \in [Sess -> {"none", "dead", "alive"}]
    /\ host \in [Sess -> {"unborn", "alive", "dead", "gone"}] /\ closing \subseteq Sess
    /\ starts \in 0..MaxStarts /\ faults \in 0..MaxFaults /\ joins \in 0..MaxJoins

\* "Only the CURRENT socket may schedule a reconnect" (index.js:526-530): the
\* bridge never holds two sockets whose frames it acts on.
OneSocket == \A c, d \in {e \in Conn : Live(e)} : c = d

\* "a restart can't stack a second data sink per session" (index.js:450-451):
\* the host never feeds a session's output twice.
OneSink == \A s \in Sess : sink[s] <= 1

\* A stopped bridge is silent: no socket, no timer, no channel of the host,
\* and whatever it still awaits changes nothing of that.
StopSticks ==
    sshStop =>
        /\ \A c \in Conn : ~Live(c)
        /\ ~sshPollTimer
        /\ \A f \in Flow : flow[f] # "waiting"
        /\ \A s \in Sess : sink[s] = 0

\* A tab that the bridge counts as attached is fed, or is being attached: no
\* live session is left silent.
AttachedIsFed ==
    \A s \in sshAttached :
        host[s] = "alive" => \/ sink[s] > 0
                             \/ \E p \in Poll : poll[p].pc = "attaching" /\ poll[p].at = s

\* A bridge that was started comes back after every loss, until it is stopped.
BridgeReturns == (starts > 0 /\ ~sshStop) ~> (Linked \/ sshStop)

\* The list the browser has is the host's, again and again, while linked.
ListCatchesUp == []<>(Linked => published = Listed)
=============================================================================
