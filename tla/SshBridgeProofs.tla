--------------------------- MODULE SshBridgeProofs ---------------------------
(****************************************************************************)
(* The safety of the SSH bridge for any number of sockets, sessions and     *)
(* activations, and with no bound on the behaviour.  Two of the results     *)
(* assume what the code leaves to its callers and to the host: no start     *)
(* while an earlier one awaits its ticket (PromptRelay), a poll that ends   *)
(* before the next event (PromptHost).  The last part is about JoinReplay,  *)
(* the bridge's answer to browsers that join.                               *)
(****************************************************************************)
EXTENDS SshBridge, JoinReplay, TLAPS

-----------------------------------------------------------------------------
\* One flow at a time is under way, and no socket beside it.
OneFlow == \A f, g \in Flow : flow[f] # "idle" /\ flow[g] # "idle" => f = g
FlowAlone == (\E f \in Flow : flow[f] # "idle") => \A c \in Conn : ~Live(c)
\* Only the current socket is alive; the timer names the flow that waits.
CurrentLive == \A c \in Conn : Live(c) => c = sshWs
TimerNamed == \A f \in Flow : flow[f] = "waiting" => sshReconnectTimer = f
\* Before the first start and after a stop nothing is left to reconnect.
Unstarted ==
    starts = 0 => (\A f \in Flow : flow[f] = "idle") /\ (\A c \in Conn : ~Live(c))
StoppedQuiet ==
    sshStop => /\ \A c \in Conn : ~Live(c)
               /\ ~sshPollTimer
               /\ \A f \in Flow : flow[f] # "waiting"
ConnInv == OneFlow /\ FlowAlone /\ CurrentLive /\ TimerNamed /\ Unstarted /\ StoppedQuiet

\* One poll at a time is under way.
OnePoll == \A p, q \in Poll : poll[p].pc # "idle" /\ poll[q].pc # "idle" => p = q
\* A fed session is attached, with a disposer, and fed once.
SinkKept == \A s \in Sess : sink[s] <= 1 /\ (sink[s] > 0 => s \in sshAttached \cap sshChannels)
\* A session that is being attached counts as attached and is not fed yet.
Unfed ==
    \A p \in Poll : poll[p].pc = "attaching" =>
        poll[p].at \in sshAttached /\ sink[poll[p].at] = 0
\* What is attached or listed has been opened once.
Known ==
    /\ \A s \in sshAttached : host[s] # "unborn"
    /\ \A p \in Poll, s \in Sess : poll[p].list[s] # "none" => host[s] # "unborn"
SinkInv == OnePoll /\ SinkKept /\ Unfed /\ Known /\ AttachedIsFed

\* After a stop no poll is under way and no session is fed.
StoppedDry ==
    sshStop => (\A p \in Poll : poll[p].pc = "idle") /\ (\A s \in Sess : sink[s] = 0)

-----------------------------------------------------------------------------
Poller == [pc : {"idle", "asked", "listed", "attaching"},
           list : [Sess -> {"none", "dead", "alive"}], at : 0..NSess]
\* A poll that attaches is at a session.
AtSession == \A p \in Poll : poll[p].pc = "attaching" => poll[p].at \in Sess
TypeInv == TypeOK /\ AtSession

\* A disposer takes one sink of a session that has it, and no other's.
LEMMA DisposedSinks ==
    ASSUME TypeOK, NEW S
    PROVE  /\ Disposed(S) \in [Sess -> 0..MaxSinks]
           /\ \A s \in Sess : Disposed(S)[s] <= sink[s]
           /\ \A s \in Sess : s \notin S => Disposed(S)[s] = sink[s]
           /\ \A s \in S \cap sshChannels \cap Sess : sink[s] <= 1 => Disposed(S)[s] = 0
BY BoundsAssumption DEF Disposed, TypeOK, Sess

\* The loop of a poll leaves well-typed state.
LEMMA PollOnType ==
    ASSUME TypeInv, NEW p \in Poll, NEW list \in [Sess -> {"none", "dead", "alive"}],
           NEW at, NEW attached \in SUBSET Sess, PollOn(p, list, at, attached)
    PROVE  /\ poll' \in [Poll -> Poller] /\ AtSession'
           /\ sshAttached' \in SUBSET Sess
           /\ published' \in [Sess -> {"none", "dead", "alive"}]
<1>. USE DEF TypeInv
<1>. DEFINE todo == {s \in Unattached(list, attached) : s > at}
<1>1. todo \subseteq Sess /\ Sess \subseteq 0..NSess
  BY BoundsAssumption DEF Unattached, Sess
<1>2. CASE todo = {}
  <2>1. poll' = [poll EXCEPT ![p] = IdlePoll] /\ sshAttached' = attached
        /\ published' = IF Linked THEN list ELSE published
    BY <1>2 DEF PollOn
  <2>2. IdlePoll \in Poller
    BY BoundsAssumption DEF IdlePoll, NothingListed, Poller
  <2>3. AtSession'
    BY <2>1 DEF IdlePoll, AtSession, TypeOK
  <2>. QED BY <2>1, <2>2, <2>3 DEF TypeOK, Poller
<1>3. CASE todo # {}
  <2>1. PICK s \in todo :
          /\ poll' = [poll EXCEPT ![p] = [pc |-> "attaching", list |-> list, at |-> s]]
          /\ sshAttached' = attached \union {s}
          /\ UNCHANGED published
    BY <1>3 DEF PollOn
  <2>2. [pc |-> "attaching", list |-> list, at |-> s] \in Poller
    BY <1>1 DEF Poller
  <2>3. AtSession'
    BY <1>1, <2>1 DEF AtSession, TypeOK
  <2>4. attached \union {s} \subseteq Sess
    BY <1>1
  <2>5. poll \in [Poll -> Poller] /\ published \in [Sess -> {"none", "dead", "alive"}]
    BY DEF TypeOK, Poller
  <2>. HIDE DEF TypeInv
  <2>. QED BY <2>1, <2>2, <2>3, <2>4, <2>5
<1>. QED BY <1>2, <1>3

\* TypeOK: the bridge's state is well typed (index.js:346-358).
THEOREM TypeCorrect == Spec => []TypeInv
<1>1. Init => TypeInv
  <2>. SUFFICES ASSUME Init PROVE TypeInv
    OBVIOUS
  <2>1. IdlePoll \in Poller /\ IdlePoll.pc = "idle"
    BY BoundsAssumption DEF IdlePoll, NothingListed, Poller
  <2>2. poll \in [Poll -> Poller] /\ AtSession
    BY <2>1 DEF Init, AtSession
  <2>3. sink \in [Sess -> 0..MaxSinks]
    BY BoundsAssumption DEF Init
  <2>4. /\ conn \in [Conn -> {"free", "connecting", "open", "detached"}]
        /\ flow \in [Flow -> {"idle", "listing", "ticket", "waiting"}]
        /\ published \in [Sess -> {"none", "dead", "alive"}]
        /\ host \in [Sess -> {"unborn", "alive", "dead", "gone"}]
    BY DEF Init, NothingListed
  <2>5. starts \in 0..MaxStarts /\ faults \in 0..MaxFaults /\ joins \in 0..MaxJoins
    BY BoundsAssumption DEF Init
  <2>6. poll \in [Poll -> [pc : {"idle", "asked", "listed", "attaching"},
                          list : [Sess -> {"none", "dead", "alive"}], at : 0..NSess]]
    BY <2>2 DEF Poller
  <2>. QED BY <2>2, <2>3, <2>4, <2>5, <2>6 DEF Init, TypeOK, TypeInv
<1>2. TypeInv /\ [Next]_vars => TypeInv'
  <2>. SUFFICES ASSUME TypeInv, [Next]_vars PROVE TypeInv'
    OBVIOUS
  <2>. USE DEF TypeInv, TypeOK, connVars, sinkVars, pollVars, hostVars, budget
  <2>i. IdlePoll \in Poller /\ [IdlePoll EXCEPT !.pc = "asked"] \in Poller
        /\ IdlePoll.pc = "idle" /\ [IdlePoll EXCEPT !.pc = "asked"].pc = "asked"
    BY BoundsAssumption DEF IdlePoll, NothingListed, Poller
  <2>ask. \A p \in Poll : AskHost(p) => poll' \in [Poll -> Poller] /\ AtSession'
    BY <2>i DEF AskHost, Poller, AtSession
  <2>same. poll' = poll => AtSession'
    BY DEF AtSession
  <2>1. ASSUME NEW f \in Flow, Start(f) PROVE TypeInv'
    <3>1. starts' \in 0..MaxStarts BY <2>1, BoundsAssumption DEF Start
    <3>2. flow' \in [Flow -> {"idle", "listing", "ticket", "waiting"}]
      BY <2>1 DEF Start
    <3>. QED BY <2>1, <2>same, <3>1, <3>2 DEF Start
  <2>2. CASE Stop
    <3>1. flow' \in [Flow -> {"idle", "listing", "ticket", "waiting"}]
      BY <2>2 DEF Stop
    <3>2. conn' \in [Conn -> {"free", "connecting", "open", "detached"}]
      BY <2>2 DEF Stop
    <3>3. sink' \in [Sess -> 0..MaxSinks]
      BY <2>2, DisposedSinks DEF Stop
    <3>. QED BY <2>2, <2>same, <3>1, <3>2, <3>3 DEF Stop
  <2>3. ASSUME NEW f \in Flow, FlowStep(f) PROVE TypeInv'
    <3>1. CASE RequestTicket(f) BY <2>same, <3>1 DEF RequestTicket
    <3>2. CASE TicketRefused(f)
      BY <2>same, <3>2, BoundsAssumption DEF TicketRefused, Fault, Retry
    <3>3. ASSUME NEW c \in Conn, TicketGranted(f, c) PROVE TypeInv'
      BY <2>same, <3>3 DEF TicketGranted
    <3>. QED BY <2>3, <3>1, <3>2, <3>3 DEF FlowStep
  <2>4. ASSUME NEW c \in Conn, ConnStep(c) PROVE TypeInv'
    <3>1. ASSUME NEW p \in Poll, ConnOpens(c, p) PROVE TypeInv'
      <4>1. poll' \in [Poll -> Poller] /\ AtSession' BY <2>ask, <3>1 DEF ConnOpens
      <4>. QED BY <3>1, <4>1 DEF ConnOpens, Poller, NothingListed
    <3>2. ASSUME NEW p \in Poll, ClientJoin(c, p) PROVE TypeInv'
      <4>1. poll' \in [Poll -> Poller] /\ AtSession' BY <2>ask, <3>2 DEF ClientJoin
      <4>. QED BY <3>2, <4>1, BoundsAssumption DEF ClientJoin, Poller
    <3>3. ASSUME NEW f \in Flow, ConnEnds(c, f) PROVE TypeInv'
      BY <2>same, <3>3, BoundsAssumption DEF ConnEnds, Fault, Retry
    <3>4. ASSUME NEW s \in Sess, CloseFrame(c, s) PROVE TypeInv'
      BY <2>same, <3>4, DisposedSinks DEF CloseFrame, ClosedId
    <3>. QED BY <2>4, <3>1, <3>2, <3>3, <3>4 DEF ConnStep
  <2>5. ASSUME NEW p \in Poll, PollTick(p) PROVE TypeInv'
    <3>1. poll' \in [Poll -> Poller] /\ AtSession' BY <2>ask, <2>5 DEF PollTick
    <3>. QED BY <2>5, <3>1 DEF PollTick, Poller
  <2>6. ASSUME NEW p \in Poll, PollStep(p) PROVE TypeInv'
    <3>. /\ poll[p].list \in [Sess -> {"none", "dead", "alive"}]
         /\ sshAttached \in SUBSET Sess
      OBVIOUS
    <3>1. CASE HostLists(p)
      <4>1. Listed \in [Sess -> {"none", "dead", "alive"}]
        BY DEF Listed
      <4>. DEFINE new == [pc |-> "listed", list |-> Listed, at |-> 0]
      <4>2. new \in Poller
        BY <4>1, BoundsAssumption DEF Poller
      <4>3. poll' = [poll EXCEPT ![p] = new]
        BY <3>1 DEF HostLists
      <4>4. poll' \in [Poll -> Poller] /\ AtSession'
        BY <4>2, <4>3 DEF Poller, AtSession
      <4>. QED BY <3>1, <4>4 DEF HostLists, Poller
    <3>2. CASE ListFails(p)
      <4>1. poll' \in [Poll -> Poller] /\ AtSession'
        BY <2>i, <3>2 DEF ListFails, Poller, AtSession
      <4>. QED BY <3>2, <4>1, BoundsAssumption DEF ListFails, Fault, Poller
    <3>3. CASE ListReturns(p)
      <4>. DEFINE gone == Vanished(poll[p].list)
      <4>1. PollOn(p, poll[p].list, 0, sshAttached \ gone) BY <3>3 DEF ListReturns
      <4>2. /\ poll' \in [Poll -> Poller] /\ AtSession' /\ sshAttached' \subseteq Sess
            /\ published' \in [Sess -> {"none", "dead", "alive"}]
        BY <4>1, PollOnType
      <4>. QED BY <3>3, <4>2, DisposedSinks DEF ListReturns, Poller
    <3>4. CASE AttachReturns(p)
      <4>1. PollOn(p, poll[p].list, poll[p].at, sshAttached) BY <3>4 DEF AttachReturns
      <4>2. /\ poll' \in [Poll -> Poller] /\ AtSession' /\ sshAttached' \subseteq Sess
            /\ published' \in [Sess -> {"none", "dead", "alive"}]
        BY <4>1, PollOnType
      <4>3. poll[p].at \in Sess
        BY <3>4 DEF AttachReturns, AtSession
      <4>4. sink' \in [Sess -> 0..MaxSinks] /\ sshChannels' \subseteq Sess
        BY <3>4, <4>3, BoundsAssumption DEF AttachReturns
      <4>. QED BY <3>4, <4>2, <4>4 DEF AttachReturns, Poller
    <3>5. CASE AttachFails(p)
      <4>1. PollOn(p, poll[p].list, poll[p].at, sshAttached \ Refused(poll[p].at))
        BY <3>5 DEF AttachFails
      <4>2. /\ poll' \in [Poll -> Poller] /\ AtSession' /\ sshAttached' \subseteq Sess
            /\ published' \in [Sess -> {"none", "dead", "alive"}]
        BY <4>1, PollOnType
      <4>. QED BY <3>5, <4>2, BoundsAssumption DEF AttachFails, Fault, Poller
    <3>. QED BY <2>6, <3>1, <3>2, <3>3, <3>4, <3>5 DEF PollStep
  <2>7. ASSUME NEW s \in Sess, HostStep(s) PROVE TypeInv'
    <3>1. CASE SessionOpens(s) BY <2>same, <3>1 DEF SessionOpens
    <3>2. CASE SessionEnds(s)
      <4>1. sink' \in [Sess -> 0..MaxSinks] BY <3>2, BoundsAssumption DEF SessionEnds
      <4>2. host' \in [Sess -> {"unborn", "alive", "dead", "gone"}] BY <3>2 DEF SessionEnds
      <4>. QED BY <2>same, <3>2, <4>1, <4>2 DEF SessionEnds
    <3>3. CASE SessionForgotten(s) BY <2>same, <3>3 DEF SessionForgotten
    <3>. QED BY <2>7, <3>1, <3>2, <3>3 DEF HostStep
  <2>8. CASE UNCHANGED vars BY <2>8, <2>same DEF vars
  <2>. QED BY <2>1, <2>2, <2>3, <2>4, <2>5, <2>6, <2>7, <2>8 DEF Next
<1>. QED BY <1>1, <1>2, PTL DEF Spec

-----------------------------------------------------------------------------
\* Sockets and flows.  Only the steps named in the lemma touch them.
LEMMA ConnFrame ==
    ASSUME ConnInv, UNCHANGED <<connVars, starts>>
    PROVE  ConnInv'
BY DEF ConnInv, OneFlow, FlowAlone, CurrentLive, TimerNamed, Unstarted, StoppedQuiet, Live,
       connVars

\* Every step keeps one flow or one live socket, and nothing after a stop.
LEMMA ConnStepInv ==
    ASSUME PromptRelay, TypeInv, ConnInv, [Next]_vars
    PROVE  ConnInv'
<1>. USE DEF TypeInv, TypeOK, Live
<1>1. ASSUME NEW f \in Flow, Start(f) PROVE ConnInv'
  <2>1. (\A g \in Flow : flow[g] = "idle") /\ (\A c \in Conn : ~Live(c))
    BY <1>1 DEF Start, ConnInv, Unstarted, StoppedQuiet
  <2>2. /\ flow' = [flow EXCEPT ![f] = "listing"] /\ conn' = conn
        /\ starts' = starts + 1 /\ ~sshStop'
    BY <1>1 DEF Start
  <2>3. starts' # 0
    BY <2>2, BoundsAssumption
  <2>. QED
    BY <2>1, <2>2, <2>3 DEF ConnInv, OneFlow, FlowAlone, CurrentLive, TimerNamed, Unstarted,
       StoppedQuiet
<1>2. CASE Stop
  <2>1. /\ conn' = [c \in Conn |-> IF c = sshWs /\ Live(c) THEN "detached" ELSE conn[c]]
        /\ flow' = [f \in Flow |-> IF f \notin Kept /\ flow[f] = "waiting" THEN "idle"
                                    ELSE flow[f]]
        /\ sshPollTimer' = FALSE /\ starts' = starts /\ starts > 0
    BY <1>2 DEF Stop, budget
  <2>2. \A c \in Conn : ~Live(c)'
    BY <2>1 DEF ConnInv, CurrentLive
  <2>3. \A f \in Flow : flow'[f] # "waiting" /\ (flow'[f] # "idle" => flow[f] # "idle")
    BY <2>1 DEF ConnInv, TimerNamed, Kept
  <2>4. starts' # 0
    BY <2>1, BoundsAssumption
  <2>. QED
    BY <2>1, <2>2, <2>3, <2>4 DEF ConnInv, OneFlow, FlowAlone, CurrentLive, TimerNamed,
       Unstarted, StoppedQuiet
<1>3. ASSUME NEW f \in Flow, FlowStep(f) PROVE ConnInv'
  <2>1. CASE RequestTicket(f)
    <3>1. /\ flow[f] # "idle" /\ UNCHANGED <<conn, sshStop, sshPollTimer, sshWs, starts>>
          /\ flow' = [flow EXCEPT ![f] = IF sshStop THEN "idle" ELSE "ticket"]
          /\ sshReconnectTimer' = IF f = sshReconnectTimer THEN None ELSE sshReconnectTimer
      BY <2>1 DEF RequestTicket, budget
    <3>. QED
      BY <3>1 DEF ConnInv, OneFlow, FlowAlone, CurrentLive, TimerNamed, Unstarted, StoppedQuiet
  <2>2. CASE TicketRefused(f)
    BY <2>2 DEF TicketRefused, Retry, ConnInv, OneFlow, FlowAlone, CurrentLive, TimerNamed,
       Unstarted, StoppedQuiet
  <2>3. ASSUME NEW c \in Conn, TicketGranted(f, c) PROVE ConnInv'
    <3>1. /\ flow[f] # "idle" /\ flow' = [flow EXCEPT ![f] = "idle"]
          /\ UNCHANGED <<sshStop, sshPollTimer, sshReconnectTimer, starts>>
      BY <2>3 DEF TicketGranted, budget
    <3>2. /\ \A g \in Flow : flow'[g] = "idle"
          /\ \A d \in Conn : ~Live(d)
          /\ starts # 0
      BY <3>1 DEF ConnInv, OneFlow, FlowAlone, Unstarted
    <3>3. CASE sshStop
      BY <2>3, <3>1, <3>2, <3>3 DEF TicketGranted, StoppedMeanwhile, ConnInv, OneFlow, FlowAlone,
         CurrentLive, TimerNamed, Unstarted, StoppedQuiet
    <3>4. CASE ~sshStop
      <4>1. conn' = [conn EXCEPT ![c] = "connecting"] /\ sshWs' = c
        BY <2>3, <3>4 DEF TicketGranted, StoppedMeanwhile
      <4>. QED
        BY <3>1, <3>2, <3>4, <4>1 DEF ConnInv, OneFlow, FlowAlone, CurrentLive, TimerNamed,
           Unstarted, StoppedQuiet
    <3>. QED BY <3>3, <3>4
  <2>. QED BY <1>3, <2>1, <2>2, <2>3 DEF FlowStep
<1>4. ASSUME NEW c \in Conn, ConnStep(c) PROVE ConnInv'
  <2>1. ASSUME NEW p \in Poll, ConnOpens(c, p) PROVE ConnInv'
    <3>1. /\ Live(c) /\ conn' = [conn EXCEPT ![c] = "open"]
          /\ UNCHANGED <<sshWs, sshStop, sshReconnectTimer, flow, starts>>
      BY <2>1 DEF ConnOpens, budget
    <3>2. \A d \in Conn : Live(d)' = Live(d)
      BY <3>1
    <3>. QED
      BY <3>1, <3>2 DEF ConnInv, OneFlow, FlowAlone, CurrentLive, TimerNamed, Unstarted,
         StoppedQuiet
  <2>2. ASSUME NEW p \in Poll, ClientJoin(c, p) PROVE ConnInv'
    BY <2>2, ConnFrame DEF ClientJoin
  <2>3. ASSUME NEW f \in Flow, ConnEnds(c, f) PROVE ConnInv'
    <3>1. /\ conn' = [conn EXCEPT ![c] = "free"]
          /\ sshPollTimer' = (sshPollTimer /\ Deaf(c))
          /\ UNCHANGED <<sshWs, sshStop, starts>>
      BY <2>3 DEF ConnEnds
    <3>2. \A d \in Conn : Live(d)' => Live(d)
      BY <3>1
    <3>3. CASE ~Deaf(c) /\ Reconnects(c)
      <4>1. /\ flow' = [flow EXCEPT ![f] = "waiting"] /\ sshReconnectTimer' = f
            /\ Live(c) /\ ~sshStop
        BY <2>3, <3>3 DEF ConnEnds, Retry, Deaf, Reconnects
      <4>2. /\ \A g \in Flow : flow[g] = "idle"
            /\ \A d \in Conn : ~Live(d)'
            /\ starts # 0
        BY <3>1, <4>1 DEF ConnInv, FlowAlone, CurrentLive, Unstarted
      <4>. QED
        BY <3>1, <4>1, <4>2 DEF ConnInv, OneFlow, FlowAlone, CurrentLive, TimerNamed, Unstarted,
           StoppedQuiet
    <3>4. CASE ~(~Deaf(c) /\ Reconnects(c))
      <4>1. UNCHANGED <<flow, sshReconnectTimer>>
        BY <2>3, <3>4 DEF ConnEnds
      <4>. QED
        BY <3>1, <3>2, <4>1 DEF ConnInv, OneFlow, FlowAlone, CurrentLive, TimerNamed, Unstarted,
           StoppedQuiet
    <3>. QED BY <3>3, <3>4
  <2>4. ASSUME NEW s \in Sess, CloseFrame(c, s) PROVE ConnInv'
    BY <2>4, ConnFrame DEF CloseFrame, budget
  <2>. QED BY <1>4, <2>1, <2>2, <2>3, <2>4 DEF ConnStep
<1>5. ASSUME NEW p \in Poll, PollTick(p) \/ PollStep(p) PROVE ConnInv'
  BY <1>5, ConnFrame DEF PollTick, PollStep, HostLists, ListFails, ListReturns, AttachReturns,
     AttachFails, budget
<1>6. ASSUME NEW s \in Sess, HostStep(s) PROVE ConnInv'
  BY <1>6, ConnFrame DEF HostStep, SessionOpens, SessionEnds, SessionForgotten, budget
<1>7. CASE UNCHANGED vars
  BY <1>7, ConnFrame DEF vars, budget
<1>. QED BY <1>1, <1>2, <1>3, <1>4, <1>5, <1>6, <1>7 DEF Next

LEMMA ConnInvariant == PromptRelay => (Spec => []ConnInv)
<1>. SUFFICES ASSUME PromptRelay PROVE Spec => []ConnInv
  OBVIOUS
<1>1. Init => ConnInv
  BY DEF Init, ConnInv, OneFlow, FlowAlone, CurrentLive, TimerNamed, Unstarted, StoppedQuiet,
     Live
<1>2. TypeInv /\ ConnInv /\ [Next]_vars => ConnInv'
  BY ConnStepInv
<1>. QED BY <1>1, <1>2, TypeCorrect, PTL DEF Spec

\* OneSocket: a start that does not overlap with an earlier one's ticket never
\* leaves the bridge with two sockets (index.js:526-530).
THEOREM SocketIsOne == PromptRelay => (Spec => []OneSocket)
<1>. SUFFICES ASSUME PromptRelay PROVE Spec => []OneSocket
  OBVIOUS
<1>1. ConnInv => OneSocket
  BY DEF ConnInv, CurrentLive, OneSocket
<1>2. Spec => []ConnInv
  BY ConnInvariant
<1>. QED BY <1>1, <1>2, PTL

-----------------------------------------------------------------------------
\* Sinks and polls.
NoPoll == \A p \in Poll : poll[p].pc = "idle"

LEMMA SinkFrame ==
    ASSUME TypeInv, SinkInv, UNCHANGED <<sinkVars, poll, host>>
    PROVE  SinkInv'
BY DEF SinkInv, OnePoll, SinkKept, Unfed, Known, AttachedIsFed, sinkVars

\* A poll asks the host while no other is under way.
LEMMA AskSinkInv ==
    ASSUME TypeInv, SinkInv, NoPoll, NEW p \in Poll, AskHost(p), UNCHANGED <<sinkVars, host>>
    PROVE  SinkInv'
<1>1. /\ poll' = [poll EXCEPT ![p] = [IdlePoll EXCEPT !.pc = "asked"]]
      /\ [IdlePoll EXCEPT !.pc = "asked"].pc = "asked"
      /\ [IdlePoll EXCEPT !.pc = "asked"].list = NothingListed
  BY DEF AskHost, IdlePoll
<1>2. \A q \in Poll : /\ poll'[q].pc # "attaching"
                      /\ poll'[q].pc # "idle" => q = p
                      /\ \A s \in Sess : poll'[q].list[s] # "none" => poll[q].list[s] # "none"
  BY <1>1 DEF NoPoll, NothingListed, TypeInv, TypeOK
<1>. QED
  BY <1>2 DEF SinkInv, OnePoll, SinkKept, Unfed, Known, AttachedIsFed, sinkVars, NoPoll

\* The loop of the only poll goes on with every attached session fed.
LEMMA PollOnSinkInv ==
    ASSUME TypeInv, NEW p \in Poll, NEW list \in [Sess -> {"none", "dead", "alive"}], NEW at,
           NEW attached \in SUBSET Sess, PollOn(p, list, at, attached),
           \A q \in Poll \ {p} : poll[q].pc = "idle",
           \A s \in Sess : /\ sink'[s] <= 1
                           /\ sink'[s] > 0 => s \in attached \cap sshChannels'
                           /\ s \notin attached => sink'[s] = 0,
           \A s \in attached : host[s] # "unborn" /\ (host[s] = "alive" => sink'[s] > 0),
           \A q \in Poll, s \in Sess : poll[q].list[s] # "none" => host[s] # "unborn",
           \A s \in Sess : list[s] # "none" => host[s] # "unborn",
           host' = host
    PROVE  SinkInv'
<1>. DEFINE todo == {s \in Unattached(list, attached) : s > at}
<1>1. todo \subseteq Sess \ attached /\ \A s \in todo : list[s] = "alive"
  BY DEF Unattached
<1>2. CASE todo = {}
  <2>1. poll' = [poll EXCEPT ![p] = IdlePoll] /\ sshAttached' = attached
    BY <1>2 DEF PollOn
  <2>2. \A q \in Poll : /\ poll'[q].pc = "idle"
                        /\ \A s \in Sess : poll'[q].list[s] # "none" => host[s] # "unborn"
    BY <2>1 DEF IdlePoll, NothingListed, TypeInv, TypeOK
  <2>. QED BY <2>1, <2>2 DEF SinkInv, OnePoll, SinkKept, Unfed, Known, AttachedIsFed
<1>3. CASE todo # {}
  <2>1. PICK s \in todo :
          /\ poll' = [poll EXCEPT ![p] = [pc |-> "attaching", list |-> list, at |-> s]]
          /\ sshAttached' = attached \union {s}
    BY <1>3 DEF PollOn
  <2>2. s \in Sess /\ sink'[s] = 0 /\ host[s] # "unborn"
    BY <1>1
  <2>3. \A q \in Poll : /\ poll'[q].pc # "idle" => q = p
                        /\ \A t \in Sess : poll'[q].list[t] # "none" => host[t] # "unborn"
    BY <2>1 DEF TypeInv, TypeOK
  <2>4. poll'[p].pc = "attaching" /\ poll'[p].at = s
    BY <2>1 DEF TypeInv, TypeOK
  <2>5. OnePoll' /\ Unfed' /\ Known'
    BY <2>1, <2>2, <2>3, <2>4 DEF OnePoll, Unfed, Known
  <2>6. SinkKept'
    BY <2>1 DEF SinkKept
  <2>7. AttachedIsFed'
    BY <2>1, <2>4 DEF AttachedIsFed
  <2>. QED BY <2>5, <2>6, <2>7 DEF SinkInv
<1>. QED BY <1>2, <1>3

\* Disposers run while no poll is under way: after a stop, or a close frame.
LEMMA DisposeSinkInv ==
    ASSUME TypeInv, SinkInv, NoPoll, NEW S \in SUBSET Sess,
           sink' = Disposed(S), sshChannels' = sshChannels \ S, sshAttached' = sshAttached \ S,
           UNCHANGED <<poll, host>>
    PROVE  SinkInv'
<1>1. \A s \in Sess : s \notin S => sink'[s] = sink[s]
  BY DisposedSinks DEF TypeInv
<1>2. \A s \in S : sink'[s] = 0
  BY DisposedSinks DEF TypeInv, TypeOK, Disposed, SinkInv, SinkKept
<1>. QED
  BY <1>1, <1>2 DEF SinkInv, OnePoll, SinkKept, Unfed, Known, AttachedIsFed, NoPoll, TypeInv,
     TypeOK

\* A poll that has its list, or the answer for a session, goes on.
LEMMA LoopSinkInv ==
    ASSUME TypeInv, SinkInv, NEW p \in Poll, ListReturns(p) \/ AttachReturns(p) \/ AttachFails(p)
    PROVE  SinkInv'
<1>. DEFINE list == poll[p].list
            at == poll[p].at
<1>1. /\ list \in [Sess -> {"none", "dead", "alive"}] /\ host' = host
      /\ \A q \in Poll \ {p} : poll[q].pc = "idle"
      /\ \A q \in Poll, s \in Sess : poll[q].list[s] # "none" => host[s] # "unborn"
      /\ \A s \in Sess : sink[s] \in Nat
      /\ \A s \in sshAttached : host[s] # "unborn"
      /\ sshAttached \subseteq Sess
      /\ \A s \in sshAttached : host[s] = "alive" =>
             sink[s] > 0 \/ (poll[p].pc = "attaching" /\ at = s)
  BY DEF ListReturns, AttachReturns, AttachFails, SinkInv, OnePoll, Known, AttachedIsFed, TypeInv,
     TypeOK, hostVars
<1>2. CASE ListReturns(p)
  <2>. DEFINE gone == Vanished(list)
  <2>1. /\ sink' = Disposed(gone) /\ sshChannels' = sshChannels \ gone
        /\ PollOn(p, list, 0, sshAttached \ gone) /\ poll[p].pc # "attaching"
    BY <1>2 DEF ListReturns
  <2>2. \A s \in Sess : s \notin gone => sink'[s] = sink[s]
    BY <2>1, DisposedSinks DEF TypeInv
  <2>3. \A s \in gone : s \in Sess /\ sink'[s] = 0
    BY <2>1, DisposedSinks DEF TypeInv, TypeOK, Disposed, SinkInv, SinkKept, Vanished
  <2>4. \A s \in Sess : /\ sink'[s] <= 1
                        /\ sink'[s] > 0 => s \in (sshAttached \ gone) \cap sshChannels'
                        /\ s \notin sshAttached \ gone => sink'[s] = 0
    BY <1>1, <2>1, <2>2, <2>3 DEF SinkInv, SinkKept
  <2>5. \A s \in sshAttached \ gone : host[s] # "unborn" /\ (host[s] = "alive" => sink'[s] > 0)
    BY <1>1, <2>1, <2>2
  <2>6. sshAttached \ gone \in SUBSET Sess
    BY <1>1
  <2>. HIDE DEF gone, list
  <2>. QED BY <1>1, <2>1, <2>4, <2>5, <2>6, PollOnSinkInv DEF list
<1>3. CASE AttachReturns(p)
  <2>1. /\ sink' = [sink EXCEPT ![at] = @ + 1] /\ sshChannels' = sshChannels \union {at}
        /\ PollOn(p, list, at, sshAttached) /\ poll[p].pc = "attaching"
    BY <1>3 DEF AttachReturns
  <2>2. at \in sshAttached /\ at \in Sess /\ sink[at] = 0
    BY <2>1 DEF SinkInv, Unfed, TypeInv, AtSession
  <2>3. sink'[at] = 1 /\ \A s \in Sess \ {at} : sink'[s] = sink[s]
    BY <2>1, <2>2 DEF TypeInv, TypeOK
  <2>4. \A s \in Sess : /\ sink'[s] <= 1
                        /\ sink'[s] > 0 => s \in sshAttached \cap sshChannels'
                        /\ s \notin sshAttached => sink'[s] = 0
    BY <1>1, <2>1, <2>2, <2>3 DEF SinkInv, SinkKept
  <2>5. \A s \in sshAttached : host[s] # "unborn" /\ (host[s] = "alive" => sink'[s] > 0)
    BY <1>1, <2>2, <2>3
  <2>6. sshAttached \in SUBSET Sess
    BY <1>1
  <2>. HIDE DEF list, at
  <2>. QED BY <1>1, <2>1, <2>4, <2>5, <2>6, PollOnSinkInv DEF list, at
<1>4. CASE AttachFails(p)
  <2>. DEFINE left == sshAttached \ Refused(at)
  <2>1. /\ UNCHANGED <<sink, sshChannels>> /\ PollOn(p, list, at, left)
        /\ poll[p].pc = "attaching"
    BY <1>4 DEF AttachFails
  <2>2. left = sshAttached \ {at} /\ at \in Sess /\ sink[at] = 0
    BY <2>1 DEF SinkInv, Unfed, TypeInv, AtSession, Refused
  <2>3. \A s \in Sess : /\ sink'[s] <= 1
                        /\ sink'[s] > 0 => s \in left \cap sshChannels'
                        /\ s \notin left => sink'[s] = 0
    BY <1>1, <2>1, <2>2 DEF SinkInv, SinkKept
  <2>4. \A s \in left : host[s] # "unborn" /\ (host[s] = "alive" => sink'[s] > 0)
    BY <1>1, <2>1, <2>2
  <2>5. left \in SUBSET Sess
    BY <1>1
  <2>. HIDE DEF list, at, left
  <2>. QED BY <1>1, <2>1, <2>3, <2>4, <2>5, PollOnSinkInv DEF list, at
<1>. QED BY <1>2, <1>3, <1>4

\* With a host that answers at once, every step keeps one poll and one sink.
LEMMA SinkStepInv ==
    ASSUME PromptHost, TypeInv, SinkInv, [Next]_vars
    PROVE  SinkInv'
<1>. Quiet => NoPoll
  BY DEF Quiet, NoPoll
<1>1. ASSUME NEW f \in Flow, Start(f) \/ FlowStep(f) PROVE SinkInv'
  BY <1>1, SinkFrame DEF Start, FlowStep, RequestTicket, TicketRefused, TicketGranted, pollVars,
     hostVars
<1>2. CASE Stop
  <2>1. /\ NoPoll /\ sink' = Disposed(Sess) /\ UNCHANGED <<poll, host>>
        /\ sshChannels' = sshChannels \ Sess /\ sshAttached' = sshAttached \ Sess
    BY <1>2 DEF Stop, Doomed, TypeInv, TypeOK, pollVars, hostVars
  <2>. QED BY <2>1, DisposeSinkInv
<1>3. ASSUME NEW c \in Conn, ConnStep(c) PROVE SinkInv'
  <2>1. ASSUME NEW p \in Poll, ConnOpens(c, p) \/ ClientJoin(c, p) PROVE SinkInv'
    <3>1. NoPoll /\ AskHost(p) /\ UNCHANGED <<sinkVars, host>>
      BY <2>1 DEF ConnOpens, ClientJoin, hostVars
    <3>. QED BY <3>1, AskSinkInv
  <2>2. ASSUME NEW f \in Flow, ConnEnds(c, f) PROVE SinkInv'
    BY <2>2, SinkFrame DEF ConnEnds, pollVars, hostVars
  <2>3. ASSUME NEW s \in Sess, CloseFrame(c, s) PROVE SinkInv'
    <3>1. /\ NoPoll /\ sink' = Disposed({s}) /\ UNCHANGED <<poll, host>>
          /\ sshChannels' = sshChannels \ {s} /\ sshAttached' = sshAttached \ {s}
      BY <2>3 DEF CloseFrame, pollVars
    <3>2. {s} \in SUBSET Sess
      OBVIOUS
    <3>. QED BY <3>1, <3>2, DisposeSinkInv
  <2>. QED BY <1>3, <2>1, <2>2, <2>3 DEF ConnStep
<1>4. ASSUME NEW p \in Poll, PollTick(p) PROVE SinkInv'
  <2>1. NoPoll /\ AskHost(p) /\ UNCHANGED <<sinkVars, host>>
    BY <1>4 DEF PollTick, hostVars
  <2>. QED BY <2>1, AskSinkInv
<1>5. ASSUME NEW p \in Poll, PollStep(p) PROVE SinkInv'
  <2>1. CASE HostLists(p) \/ ListFails(p)
    <3>1. UNCHANGED <<sinkVars, host>>
      BY <2>1 DEF HostLists, ListFails, hostVars
    <3>2. PICK new \in {[pc |-> "listed", list |-> Listed, at |-> 0], IdlePoll} :
            poll' = [poll EXCEPT ![p] = new] /\ poll[p].pc = "asked"
      BY <2>1 DEF HostLists, ListFails
    <3>3. \A s \in Sess : new.list[s] # "none" => host[s] # "unborn"
      BY <3>2 DEF Listed, IdlePoll, NothingListed
    <3>4. new.pc # "attaching"
      BY <3>2 DEF IdlePoll
    <3>5. /\ poll'[p] = new /\ \A q \in Poll \ {p} : poll'[q] = poll[q]
      BY <3>2 DEF TypeInv, TypeOK
    <3>. QED
      BY <3>1, <3>2, <3>3, <3>4, <3>5 DEF SinkInv, OnePoll, SinkKept, Unfed, Known,
         AttachedIsFed, sinkVars
  <2>2. CASE ListReturns(p) \/ AttachReturns(p) \/ AttachFails(p)
    BY <2>2, LoopSinkInv
  <2>. QED BY <1>5, <2>1, <2>2 DEF PollStep
<1>6. ASSUME NEW s \in Sess, HostStep(s) PROVE SinkInv'
  <2>1. UNCHANGED <<poll, sshAttached, sshChannels>>
    BY <1>6 DEF HostStep, SessionOpens, SessionEnds, SessionForgotten, sinkVars, pollVars
  <2>2. /\ \A t \in Sess : host[t] # "unborn" => host'[t] # "unborn"
        /\ \A t \in Sess : sink'[t] = sink[t] \/ (sink'[t] = 0 /\ host'[t] # "alive")
        /\ \A t \in Sess : host'[t] = "alive" => host[t] \in {"alive", "unborn"}
    BY <1>6 DEF HostStep, SessionOpens, SessionEnds, SessionForgotten, sinkVars, TypeInv, TypeOK
  <2>3. \A t \in sshAttached : t \in Sess /\ host[t] # "unborn"
    BY DEF SinkInv, Known, TypeInv, TypeOK
  <2>4. AttachedIsFed'
    BY <2>1, <2>2, <2>3 DEF SinkInv, AttachedIsFed
  <2>5. SinkKept' /\ Unfed'
    BY <2>1, <2>2 DEF SinkInv, SinkKept, Unfed, TypeInv, AtSession
  <2>6. OnePoll' /\ Known'
    BY <2>1, <2>2, <2>3 DEF SinkInv, OnePoll, Known
  <2>. QED BY <2>4, <2>5, <2>6 DEF SinkInv
<1>7. CASE UNCHANGED vars
  BY <1>7, SinkFrame DEF vars, pollVars, hostVars
<1>. QED BY <1>1, <1>2, <1>3, <1>4, <1>5, <1>6, <1>7 DEF Next

LEMMA SinkInvariant == PromptHost => (Spec => []SinkInv)
<1>. SUFFICES ASSUME PromptHost PROVE Spec => []SinkInv
  OBVIOUS
<1>1. Init => SinkInv
  BY DEF Init, SinkInv, OnePoll, SinkKept, Unfed, Known, AttachedIsFed, IdlePoll, NothingListed
<1>2. TypeInv /\ SinkInv /\ [Next]_vars => SinkInv'
  BY SinkStepInv
<1>. QED BY <1>1, <1>2, TypeCorrect, PTL DEF Spec

\* OneSink: with a host that answers a poll before the next event, no restart,
\* loss, join or close makes the host feed a session twice (index.js:450-451).
THEOREM SinkIsOne == PromptHost => (Spec => []OneSink)
<1>. SUFFICES ASSUME PromptHost PROVE Spec => []OneSink
  OBVIOUS
<1>1. SinkInv => OneSink
  BY DEF SinkInv, SinkKept, OneSink
<1>2. Spec => []SinkInv
  BY SinkInvariant
<1>. QED BY <1>1, <1>2, PTL

\* AttachedIsFed: nor is a live session the bridge counts as attached left
\* without output (index.js:543-589).
THEOREM AttachedAreFed == PromptHost => (Spec => []AttachedIsFed)
<1>. SUFFICES ASSUME PromptHost PROVE Spec => []AttachedIsFed
  OBVIOUS
<1>1. SinkInv => AttachedIsFed
  BY DEF SinkInv
<1>2. Spec => []SinkInv
  BY SinkInvariant
<1>. QED BY <1>1, <1>2, PTL

-----------------------------------------------------------------------------
\* A stopped bridge polls nothing and feeds nothing.
LEMMA DryStepInv ==
    ASSUME PromptHost, TypeInv, ConnInv, SinkInv, StoppedDry, [Next]_vars
    PROVE  StoppedDry'
<1>. SUFFICES ASSUME sshStop' PROVE NoPoll' /\ \A s \in Sess : sink'[s] = 0
  BY DEF StoppedDry, NoPoll
<1>1. CASE Stop
  <2>1. NoPoll /\ UNCHANGED poll /\ sink' = Disposed(Sess)
    BY <1>1 DEF Stop, Quiet, NoPoll, Doomed, pollVars
  <2>2. \A s \in Sess : sink'[s] = 0
    BY <2>1, DisposedSinks DEF TypeInv, TypeOK, Disposed, SinkInv, SinkKept
  <2>. QED BY <2>1, <2>2 DEF NoPoll
<1>2. CASE sshStop /\ ~Stop
  <2>1. NoPoll /\ (\A s \in Sess : sink[s] = 0)
    BY <1>2 DEF StoppedDry, NoPoll
  <2>2. (\A c \in Conn : ~Live(c)) /\ ~sshPollTimer
    BY <1>2 DEF ConnInv, StoppedQuiet
  <2>3. ASSUME NEW f \in Flow, FlowStep(f) PROVE UNCHANGED <<poll, sink>>
    BY <2>3 DEF FlowStep, RequestTicket, TicketRefused, TicketGranted, pollVars, sinkVars
  <2>4. ASSUME NEW c \in Conn, ConnStep(c) PROVE UNCHANGED <<poll, sink>>
    BY <2>2, <2>4 DEF ConnStep, ConnOpens, ClientJoin, ConnEnds, CloseFrame, Live, pollVars,
       sinkVars
  <2>5. ASSUME NEW p \in Poll, PollTick(p) \/ PollStep(p) PROVE FALSE
    BY <2>1, <2>2, <2>5 DEF NoPoll, PollTick, PollStep, HostLists, ListFails, ListReturns,
       AttachReturns, AttachFails
  <2>6. ASSUME NEW s \in Sess, HostStep(s)
        PROVE  UNCHANGED poll /\ \A t \in Sess : sink'[t] \in {0, sink[t]}
    BY <2>6 DEF HostStep, SessionOpens, SessionEnds, SessionForgotten, pollVars, sinkVars,
       TypeInv, TypeOK
  <2>7. ASSUME NEW f \in Flow, Start(f) PROVE FALSE
    BY <2>7 DEF Start
  <2>8. CASE UNCHANGED vars
    BY <2>1, <2>8 DEF vars, pollVars, sinkVars, NoPoll
  <2>. QED
    BY <1>2, <2>1, <2>3, <2>4, <2>5, <2>6, <2>7, <2>8 DEF Next, NoPoll
<1>3. ~sshStop /\ ~Stop => ~sshStop'
  BY DEF Next, Start, FlowStep, RequestTicket, TicketRefused, TicketGranted, ConnStep, ConnOpens,
     ClientJoin, ConnEnds, CloseFrame, PollTick, PollStep, HostLists, ListFails, ListReturns,
     AttachReturns, AttachFails, HostStep, SessionOpens, SessionEnds, SessionForgotten, vars,
     connVars
<1>. QED BY <1>1, <1>2, <1>3

\* StopSticks: a stopped bridge is silent, and nothing it still awaits revives
\* it (index.js:428-461, 489).
THEOREM StopIsFinal == PromptHost /\ PromptRelay => (Spec => []StopSticks)
<1>. SUFFICES ASSUME PromptHost, PromptRelay PROVE Spec => []StopSticks
  OBVIOUS
<1>1. Init => StoppedDry
  BY DEF Init, StoppedDry, IdlePoll
<1>2. TypeInv /\ ConnInv /\ SinkInv /\ StoppedDry /\ [Next]_vars => StoppedDry'
  BY DryStepInv
<1>3. ConnInv /\ StoppedDry => StopSticks
  BY DEF ConnInv, StoppedQuiet, StoppedDry, StopSticks
<1>4. Spec => []ConnInv
  BY ConnInvariant
<1>5. Spec => []SinkInv
  BY SinkInvariant
<1>. QED BY <1>1, <1>2, <1>3, <1>4, <1>5, TypeCorrect, PTL DEF Spec
-----------------------------------------------------------------------------
(* JoinReplay: who joins more than a second after the last join is told the *)
(* layout and the SSH hosts, for any number of browsers, joins and links of  *)
(* the bridge.                                                               *)

\* The bridge's frames.
Frames == [t : {"tabmeta", "ssh-conns"}, items : Layout]

JoinTyped ==
    /\ open \subseteq Client /\ recent \in BOOLEAN /\ linkUp \in BOOLEAN
    /\ toBridge \in Nat /\ asking \in Nat /\ arrivals \in 0..MaxArrivals /\ links \in 0..MaxLinks
    /\ tabMeta \in Layout /\ lastTabMetaStr \in Layout \union {Nothing}
    /\ toRelay \in Seq(Frames)
    /\ tabs \in [Client -> Layout \union {Nothing}] /\ conns \in [Client -> BOOLEAN]

\* The bridge is asked for the hosts once per join and once per link.
AskedOnce == toBridge <= arrivals /\ toBridge + asking <= arrivals + links

\* A link that is down carries nothing.
DownIsEmpty == ~linkUp => toBridge = 0 /\ toRelay = <<>>

\* The layout last broadcast is the layout there is.
StrIsCurrent == lastTabMetaStr \in {Nothing, tabMeta}

OnWay(kind) == \E i \in 1..Len(toRelay) : toRelay[i].t = kind
LastOfItsKind(i) == \A j \in i + 1..Len(toRelay) : toRelay[j].t # toRelay[i].t

\* The last layout on its way is the layout there is.
LastIsCurrent ==
    \A i \in 1..Len(toRelay) :
        toRelay[i].t = "tabmeta" /\ LastOfItsKind(i) => toRelay[i].items = tabMeta

\* Whoever is open has the layout and the hosts, or they are to come.
TabsCome == linkUp => \A c \in open : toBridge > 0 \/ OnWay("tabmeta") \/ tabs[c] = tabMeta
ConnsCome ==
    linkUp => \A c \in open :
        toBridge > 0 \/ asking > 0 \/ OnWay("ssh-conns") \/ conns[c] \/ c \in untold

JoinInv ==
    JoinTyped /\ AskedOnce /\ DownIsEmpty /\ StrIsCurrent /\ LastIsCurrent /\ TabsCome /\ ConnsCome

LEMMA JoinInitInv == ASSUME JoinInit PROVE JoinInv
<1>1. 0 \in Layout /\ <<>> \in Seq(Frames)
  BY BoundAssumption DEF Layout
<1>2. JoinTyped
  <2>1. toRelay \in Seq(Frames)
    BY <1>1 DEF JoinInit
  <2>2. tabs \in [Client -> Layout \union {Nothing}] /\ conns \in [Client -> BOOLEAN]
    BY DEF JoinInit
  <2>3. toBridge \in Nat /\ asking \in Nat /\ arrivals \in 0..MaxArrivals /\ links \in 0..MaxLinks
    BY BoundAssumption DEF JoinInit
  <2>. QED BY <1>1, <2>1, <2>2, <2>3 DEF JoinInit, JoinTyped
<1>. QED
  BY <1>2 DEF JoinInit, JoinInv, AskedOnce, DownIsEmpty, StrIsCurrent, LastIsCurrent, TabsCome, ConnsCome

LEMMA ClientJoinsInv ==
    ASSUME Spaced, JoinInv, NEW c \in Client, NEW fresh \in BOOLEAN,
           ClientJoins(c, fresh)
    PROVE  JoinInv'
<1>1. /\ open' = open \union {c} /\ recent' = TRUE
      /\ arrivals < MaxArrivals /\ arrivals' = arrivals + 1
      /\ toBridge' = IF linkUp THEN toBridge + 1 ELSE toBridge
      /\ UNCHANGED <<linkUp, asking, tabMeta, lastTabMetaStr, toRelay, links>>
  BY DEF ClientJoins, bridgeVars
<1>2. /\ tabs' \in [Client -> Layout \union {Nothing}] /\ conns' \in [Client -> BOOLEAN]
  BY DEF ClientJoins, JoinInv, JoinTyped
<1>3. JoinTyped' /\ AskedOnce'
  BY <1>1, <1>2, BoundAssumption DEF JoinInv, JoinTyped, AskedOnce
<1>4. DownIsEmpty' /\ StrIsCurrent' /\ LastIsCurrent'
  BY <1>1 DEF JoinInv, DownIsEmpty, StrIsCurrent, LastIsCurrent, LastOfItsKind
<1>5. linkUp' => toBridge' > 0
  BY <1>1 DEF JoinInv, JoinTyped
<1>. QED BY <1>3, <1>4, <1>5 DEF JoinInv, TabsCome, ConnsCome

LEMMA ClientLeavesInv ==
    ASSUME JoinInv, NEW c \in Client, ClientLeaves(c)
    PROVE  JoinInv'
<1>1. /\ open' = open \ {c}
      /\ UNCHANGED <<recent, linkUp, toBridge, asking, tabMeta, lastTabMetaStr, toRelay,
                 tabs, conns, untold, arrivals, links>>
  BY DEF ClientLeaves, bridgeVars, pageVars
<1>2. JoinTyped' /\ AskedOnce'
  BY <1>1 DEF JoinInv, JoinTyped, AskedOnce
<1>3. DownIsEmpty' /\ StrIsCurrent' /\ LastIsCurrent'
  BY <1>1 DEF JoinInv, DownIsEmpty, StrIsCurrent, LastIsCurrent, LastOfItsKind
<1>4. TabsCome' /\ ConnsCome'
  BY <1>1 DEF JoinInv, TabsCome, ConnsCome, OnWay
<1>. QED BY <1>2, <1>3, <1>4 DEF JoinInv

\* What the pages are told takes the first frame off the way.
LEMMA BroadcastInv == ASSUME JoinInv, Broadcast PROVE JoinInv'
<1>. DEFINE f == Head(toRelay)
<1>1. /\ toRelay # <<>> /\ toRelay' = Tail(toRelay)
      /\ \/ /\ f.t = "tabmeta"
            /\ tabs' = [c \in Client |-> IF c \in open THEN f.items ELSE tabs[c]]
            /\ UNCHANGED <<conns, untold>>
         \/ /\ f.t = "ssh-conns"
            /\ conns' = [c \in Client |-> c \in open \/ conns[c]]
            /\ untold' = untold \ open /\ tabs' = tabs
      /\ UNCHANGED <<open, recent, linkUp, toBridge, asking, tabMeta, lastTabMetaStr, arrivals, links>>
  BY DEF Broadcast, relayVars, bridgeVars
<1>2. toRelay \in Seq(Frames) /\ open \subseteq Client
  BY DEF JoinInv, JoinTyped
<1>3. /\ Len(toRelay) \in Nat /\ Len(toRelay) > 0 /\ f = toRelay[1] /\ f \in Frames
      /\ toRelay' \in Seq(Frames) /\ Len(toRelay') = Len(toRelay) - 1
      /\ \A i \in 1..Len(toRelay') : toRelay'[i] = toRelay[i + 1]
  BY <1>1, <1>2
<1>4. JoinTyped'
  <2>1. f.items \in Layout
    BY <1>3 DEF Frames
  <2>2. tabs' \in [Client -> Layout \union {Nothing}] /\ conns' \in [Client -> BOOLEAN]
    BY <1>1, <2>1 DEF JoinInv, JoinTyped
  <2>. QED BY <1>1, <1>3, <2>2 DEF JoinInv, JoinTyped
<1>5. AskedOnce' /\ StrIsCurrent'
  BY <1>1 DEF JoinInv, AskedOnce, StrIsCurrent
<1>6. DownIsEmpty'
  BY <1>1 DEF JoinInv, DownIsEmpty
<1>7. \A i \in 1..Len(toRelay') : LastOfItsKind(i)' => LastOfItsKind(i + 1)
  <2>. SUFFICES ASSUME NEW i \in 1..Len(toRelay'), LastOfItsKind(i)', NEW j \in i + 2..Len(toRelay)
                PROVE  toRelay[j].t # toRelay[i + 1].t
    BY <1>3 DEF LastOfItsKind
  <2>1. j - 1 \in i + 1..Len(toRelay') /\ toRelay'[j - 1] = toRelay[j] /\ toRelay'[i] = toRelay[i + 1]
    BY <1>3
  <2>. QED BY <2>1 DEF LastOfItsKind
<1>8. LastIsCurrent'
  BY <1>1, <1>3, <1>7 DEF JoinInv, LastIsCurrent
<1>9. ASSUME NEW kind, OnWay(kind), f.t # kind PROVE OnWay(kind)'
  <2>1. PICK i \in 1..Len(toRelay) : toRelay[i].t = kind
    BY <1>9 DEF OnWay
  <2>2. i - 1 \in 1..Len(toRelay') /\ toRelay'[i - 1] = toRelay[i]
    BY <1>3, <1>9, <2>1
  <2>. QED BY <2>1, <2>2 DEF OnWay
<1>10. f.t = "tabmeta" => OnWay("tabmeta")' \/ f.items = tabMeta
  <2>. SUFFICES ASSUME f.t = "tabmeta", ~OnWay("tabmeta")' PROVE f.items = tabMeta
    OBVIOUS
  <2>1. LastOfItsKind(1)
    <3>. SUFFICES ASSUME NEW j \in 2..Len(toRelay) PROVE toRelay[j].t # "tabmeta"
      BY <1>3 DEF LastOfItsKind
    <3>1. j - 1 \in 1..Len(toRelay') /\ toRelay'[j - 1] = toRelay[j]
      BY <1>3
    <3>. QED BY <3>1 DEF OnWay
  <2>. QED BY <1>3, <2>1 DEF JoinInv, LastIsCurrent
<1>11. TabsCome'
  <2>. SUFFICES ASSUME linkUp, NEW c \in open, toBridge = 0, ~OnWay("tabmeta")'
                PROVE  tabs'[c] = tabMeta
    BY <1>1 DEF TabsCome, JoinInv, JoinTyped
  <2>1. CASE f.t = "tabmeta"
    BY <1>1, <1>2, <1>10, <2>1
  <2>2. CASE f.t = "ssh-conns"
    <3>1. ~OnWay("tabmeta")
      BY <1>9, <2>2
    <3>. QED BY <1>1, <2>2, <3>1 DEF JoinInv, TabsCome, JoinTyped
  <2>. QED BY <1>1, <2>1, <2>2
<1>12. ConnsCome'
  <2>. SUFFICES ASSUME linkUp, NEW c \in open, toBridge = 0, asking = 0, ~OnWay("ssh-conns")'
                PROVE  conns'[c] \/ c \in untold'
    BY <1>1 DEF ConnsCome, JoinInv, JoinTyped
  <2>1. CASE f.t = "ssh-conns"
    BY <1>1, <1>2, <2>1
  <2>2. CASE f.t = "tabmeta"
    <3>1. ~OnWay("ssh-conns")
      BY <1>9, <2>2
    <3>. QED BY <1>1, <2>2, <3>1 DEF JoinInv, ConnsCome, JoinTyped
  <2>. QED BY <1>1, <2>1, <2>2
<1>. QED BY <1>4, <1>5, <1>6, <1>8, <1>11, <1>12 DEF JoinInv

LEMMA BridgeOpensInv == ASSUME JoinInv, BridgeOpens PROVE JoinInv'
<1>1. /\ ~linkUp /\ links < MaxLinks /\ links' = links + 1 /\ linkUp' = TRUE /\ asking' = asking + 1
      /\ toRelay' = <<TabMeta(tabMeta)>>
      /\ UNCHANGED <<open, recent, toBridge, tabMeta, lastTabMetaStr, tabs, conns, untold, arrivals>>
  BY DEF BridgeOpens, Greeting, relayVars, bridgeVars, pageVars
<1>2. /\ TabMeta(tabMeta) \in Frames /\ TabMeta(tabMeta).t = "tabmeta"
      /\ TabMeta(tabMeta).items = tabMeta
  BY DEF TabMeta, Frames, JoinInv, JoinTyped
<1>3. toRelay' \in Seq(Frames) /\ Len(toRelay') = 1 /\ toRelay'[1] = TabMeta(tabMeta)
  BY <1>1, <1>2
<1>4. JoinTyped' /\ AskedOnce'
  <2>1. asking' \in Nat /\ links' \in 0..MaxLinks /\ AskedOnce'
    BY <1>1, BoundAssumption DEF JoinInv, JoinTyped, AskedOnce
  <2>. QED BY <1>1, <1>3, <2>1 DEF JoinInv, JoinTyped
<1>5. DownIsEmpty' /\ StrIsCurrent'
  BY <1>1 DEF JoinInv, DownIsEmpty, StrIsCurrent
<1>6. LastIsCurrent'
  BY <1>1, <1>2, <1>3 DEF LastIsCurrent
<1>7. OnWay("tabmeta")' /\ asking' > 0
  BY <1>1, <1>2, <1>3 DEF OnWay, JoinInv, JoinTyped
<1>. QED BY <1>4, <1>5, <1>6, <1>7 DEF JoinInv, TabsCome, ConnsCome

LEMMA BridgeClosesInv == ASSUME JoinInv, BridgeCloses PROVE JoinInv'
<1>1. /\ linkUp' = FALSE /\ toBridge' = 0 /\ toRelay' = <<>>
      /\ UNCHANGED <<open, recent, asking, tabMeta, lastTabMetaStr, tabs, conns, untold, arrivals, links>>
  BY DEF BridgeCloses, relayVars, bridgeVars, pageVars
<1>2. JoinTyped' /\ AskedOnce'
  <2>1. toRelay' \in Seq(Frames)
    BY <1>1
  <2>2. AskedOnce'
    BY <1>1 DEF JoinInv, JoinTyped, AskedOnce
  <2>. QED BY <1>1, <2>1, <2>2 DEF JoinInv, JoinTyped
<1>. QED BY <1>1, <1>2 DEF JoinInv, DownIsEmpty, StrIsCurrent, LastIsCurrent, TabsCome, ConnsCome

\* A frame of the bridge comes after those on their way; a layout it sends is
\* the one there is from then on.
LEMMA Sending ==
    ASSUME JoinInv, NEW f \in Frames, SshSend(f), linkUp' = linkUp,
           IF f.t = "tabmeta" THEN f.items = tabMeta' ELSE tabMeta' = tabMeta
    PROVE  /\ toRelay' \in Seq(Frames) /\ LastIsCurrent' /\ (~linkUp => toRelay' = toRelay)
           /\ linkUp => OnWay(f.t)' /\ \A kind : OnWay(kind) => OnWay(kind)'
<1>1. toRelay \in Seq(Frames) /\ (~linkUp => toRelay = <<>>)
  BY DEF JoinInv, JoinTyped, DownIsEmpty
<1>2. CASE ~linkUp
  BY <1>1, <1>2 DEF SshSend, LastIsCurrent
<1>3. CASE linkUp
  <2>1. /\ toRelay' = Append(toRelay, f) /\ toRelay' \in Seq(Frames)
        /\ Len(toRelay) \in Nat /\ Len(toRelay') = Len(toRelay) + 1
        /\ toRelay'[Len(toRelay) + 1] = f /\ \A i \in 1..Len(toRelay) : toRelay'[i] = toRelay[i]
    BY <1>1, <1>3 DEF SshSend
  <2>2. OnWay(f.t)' /\ \A kind : OnWay(kind) => OnWay(kind)'
    BY <2>1 DEF OnWay
  <2>3. LastIsCurrent'
    <3>. SUFFICES ASSUME NEW i \in 1..Len(toRelay'), toRelay'[i].t = "tabmeta", LastOfItsKind(i)'
                  PROVE  toRelay'[i].items = tabMeta'
      BY DEF LastIsCurrent
    <3>1. CASE i = Len(toRelay) + 1
      BY <2>1, <3>1
    <3>2. CASE i \in 1..Len(toRelay)
      <4>1. f.t # "tabmeta"
        BY <2>1, <3>2 DEF LastOfItsKind
      <4>2. LastOfItsKind(i)
        BY <2>1, <3>2 DEF LastOfItsKind
      <4>. QED BY <2>1, <3>2, <4>1, <4>2 DEF JoinInv, LastIsCurrent
    <3>. QED BY <2>1, <3>1, <3>2
  <2>. QED BY <1>3, <2>1, <2>2, <2>3
<1>. QED BY <1>2, <1>3

LEMMA HandleJoinInv == ASSUME JoinInv, HandleJoin PROVE JoinInv'
<1>. DEFINE f == TabMeta(tabMeta)
<1>1. /\ toBridge > 0 /\ toBridge' = toBridge - 1 /\ asking' = asking + 1 /\ SshSend(f)
      /\ UNCHANGED <<open, recent, linkUp, tabMeta, lastTabMetaStr, tabs, conns, untold, arrivals, links>>
  BY DEF HandleJoin, Asked, relayVars, bridgeVars, pageVars
<1>2. f \in Frames /\ f.t = "tabmeta" /\ f.items = tabMeta
  BY DEF TabMeta, Frames, JoinInv, JoinTyped
<1>. HIDE DEF f
<1>3. /\ toRelay' \in Seq(Frames) /\ LastIsCurrent' /\ (~linkUp => toRelay' = toRelay)
      /\ linkUp => OnWay("tabmeta")'
  BY <1>1, <1>2, Sending
<1>4. JoinTyped' /\ AskedOnce' /\ asking' > 0
  BY <1>1, <1>3 DEF JoinInv, JoinTyped, AskedOnce
<1>5. linkUp
  BY <1>1 DEF JoinInv, DownIsEmpty
<1>6. DownIsEmpty' /\ StrIsCurrent'
  BY <1>1, <1>5 DEF JoinInv, DownIsEmpty, StrIsCurrent
<1>. QED BY <1>1, <1>3, <1>4, <1>6 DEF JoinInv, TabsCome, ConnsCome

LEMMA ConnsReturnInv == ASSUME JoinInv, ConnsReturn PROVE JoinInv'
<1>1. /\ asking > 0 /\ asking' = asking - 1 /\ SshSend(SshConns)
      /\ UNCHANGED <<open, recent, linkUp, toBridge, tabMeta, lastTabMetaStr, tabs, conns, untold, arrivals, links>>
  BY DEF ConnsReturn, relayVars, bridgeVars, pageVars
<1>2. SshConns \in Frames /\ SshConns.t = "ssh-conns"
  BY BoundAssumption DEF SshConns, Frames, Layout
<1>3. /\ toRelay' \in Seq(Frames) /\ LastIsCurrent' /\ (~linkUp => toRelay' = toRelay)
      /\ linkUp => OnWay("ssh-conns")' /\ \A kind : OnWay(kind) => OnWay(kind)'
  BY <1>1, <1>2, Sending
<1>4. JoinTyped' /\ AskedOnce'
  BY <1>1, <1>3 DEF JoinInv, JoinTyped, AskedOnce
<1>5. DownIsEmpty' /\ StrIsCurrent'
  BY <1>1, <1>3 DEF JoinInv, DownIsEmpty, StrIsCurrent
<1>6. TabsCome' /\ ConnsCome'
  BY <1>1, <1>3 DEF JoinInv, TabsCome, ConnsCome
<1>. QED BY <1>3, <1>4, <1>5, <1>6 DEF JoinInv

\* Whoever is open when the hosts cannot be listed is kept in mind.
LEMMA ConnsFailInv == ASSUME JoinInv, ConnsFail PROVE JoinInv'
<1>1. /\ asking > 0 /\ asking' = asking - 1 /\ untold' = untold \union open
      /\ UNCHANGED <<open, recent, linkUp, toBridge, tabMeta, lastTabMetaStr, toRelay, tabs, conns,
                     arrivals, links>>
  BY DEF ConnsFail, relayVars, bridgeVars
<1>2. JoinTyped' /\ AskedOnce'
  BY <1>1 DEF JoinInv, JoinTyped, AskedOnce
<1>3. DownIsEmpty' /\ StrIsCurrent' /\ LastIsCurrent'
  BY <1>1 DEF JoinInv, DownIsEmpty, StrIsCurrent, LastIsCurrent, LastOfItsKind
<1>4. TabsCome' /\ ConnsCome'
  BY <1>1 DEF JoinInv, TabsCome, ConnsCome, OnWay
<1>. QED BY <1>2, <1>3, <1>4 DEF JoinInv

LEMMA ContextChangeInv ==
    ASSUME JoinInv,
           NEW c \in Layout \union {Nothing}, ContextChange(c)
    PROVE  JoinInv'
<1>. DEFINE f == TabMeta(Terminals(c))
<1>1. /\ tabMeta' = Terminals(c) /\ lastTabMetaStr' = Terminals(c)
      /\ IF Unchanged(Terminals(c)) THEN toRelay' = toRelay ELSE SshSend(f)
      /\ UNCHANGED <<open, recent, linkUp, toBridge, asking, tabs, conns, untold, arrivals, links>>
  BY DEF ContextChange, relayVars, pageVars
<1>2. Terminals(c) \in Layout /\ Layout \subseteq Nat
  BY BoundAssumption DEF Terminals, Layout
<1>3. f \in Frames /\ f.t = "tabmeta" /\ f.items = tabMeta'
  BY <1>1, <1>2 DEF TabMeta, Frames
<1>. HIDE DEF f
<1>4. CASE Unchanged(Terminals(c))
  <2>1. tabMeta' = tabMeta
    BY <1>1, <1>2, <1>4, NothingAssumption DEF Unchanged, JoinInv, StrIsCurrent
  <2>2. JoinTyped' /\ AskedOnce'
    BY <1>1, <1>2, <1>4, <2>1 DEF JoinInv, JoinTyped, AskedOnce
  <2>3. DownIsEmpty' /\ StrIsCurrent' /\ LastIsCurrent'
    BY <1>1, <1>4, <2>1 DEF JoinInv, DownIsEmpty, StrIsCurrent, LastIsCurrent, LastOfItsKind
  <2>4. TabsCome' /\ ConnsCome'
    BY <1>1, <1>4, <2>1 DEF JoinInv, TabsCome, ConnsCome, OnWay
  <2>. QED BY <2>2, <2>3, <2>4 DEF JoinInv
<1>5. CASE ~Unchanged(Terminals(c))
  <2>1. /\ toRelay' \in Seq(Frames) /\ LastIsCurrent' /\ (~linkUp => toRelay' = toRelay)
        /\ linkUp => OnWay("tabmeta")' /\ \A kind : OnWay(kind) => OnWay(kind)'
    BY <1>1, <1>3, <1>5, Sending
  <2>2. JoinTyped' /\ AskedOnce'
    BY <1>1, <1>2, <2>1 DEF JoinInv, JoinTyped, AskedOnce
  <2>3. DownIsEmpty' /\ StrIsCurrent'
    BY <1>1, <2>1 DEF JoinInv, DownIsEmpty, StrIsCurrent
  <2>4. TabsCome' /\ ConnsCome'
    BY <1>1, <2>1 DEF JoinInv, TabsCome, ConnsCome
  <2>. QED BY <2>1, <2>2, <2>3, <2>4 DEF JoinInv
<1>. QED BY <1>4, <1>5

LEMMA JoinStepInv ==
    ASSUME Spaced, JoinInv, [JoinNext]_joinVars
    PROVE  JoinInv'
<1>1. CASE UNCHANGED joinVars
  <2>1. UNCHANGED <<open, recent, linkUp, toBridge, asking, tabMeta, lastTabMetaStr, toRelay,
                 tabs, conns, untold, arrivals, links>>
    BY <1>1 DEF joinVars, relayVars, bridgeVars, pageVars
  <2>2. JoinTyped' /\ AskedOnce'
    BY <2>1 DEF JoinInv, JoinTyped, AskedOnce
  <2>3. DownIsEmpty' /\ StrIsCurrent' /\ LastIsCurrent'
    BY <2>1 DEF JoinInv, DownIsEmpty, StrIsCurrent, LastIsCurrent, LastOfItsKind
  <2>4. TabsCome' /\ ConnsCome'
    BY <2>1 DEF JoinInv, TabsCome, ConnsCome, OnWay
  <2>. QED BY <2>2, <2>3, <2>4 DEF JoinInv
<1>2. CASE SecondPasses
  <2>1. recent' = FALSE /\ UNCHANGED <<open, linkUp, toBridge, asking, tabMeta, lastTabMetaStr, toRelay,
                 tabs, conns, untold, arrivals, links>>
    BY <1>2 DEF SecondPasses, bridgeVars, pageVars
  <2>2. JoinTyped' /\ AskedOnce'
    BY <2>1 DEF JoinInv, JoinTyped, AskedOnce
  <2>3. DownIsEmpty' /\ StrIsCurrent' /\ LastIsCurrent'
    BY <2>1 DEF JoinInv, DownIsEmpty, StrIsCurrent, LastIsCurrent, LastOfItsKind
  <2>4. TabsCome' /\ ConnsCome'
    BY <2>1 DEF JoinInv, TabsCome, ConnsCome, OnWay
  <2>. QED BY <2>2, <2>3, <2>4 DEF JoinInv
<1>. QED
  BY <1>1, <1>2, ClientJoinsInv, ClientLeavesInv, BroadcastInv, BridgeOpensInv, BridgeClosesInv,
     HandleJoinInv, ConnsReturnInv, ConnsFailInv, ContextChangeInv DEF JoinNext

\* NewcomerIsGreeted: browsers that join more than a second apart all have the
\* layout once every frame has arrived, and the SSH hosts unless the desktop
\* would not list them while they were open, whatever links and pages were lost
\* meanwhile (server.js:799-804, index.js:402-409 and 692-697).
THEOREM NewcomersGreeted == Spaced => (JoinSpec => []NewcomerIsGreeted)
<1>. SUFFICES ASSUME Spaced PROVE JoinSpec => []NewcomerIsGreeted
  OBVIOUS
<1>1. JoinInit => JoinInv
  BY JoinInitInv
<1>2. JoinInv /\ [JoinNext]_joinVars => JoinInv'
  BY JoinStepInv
<1>3. JoinInv => NewcomerIsGreeted
  BY DEF JoinInv, NewcomerIsGreeted, NewcomerHasTabs, Settled, TabsCome, ConnsCome, OnWay
<1>. QED BY <1>1, <1>2, <1>3, PTL DEF JoinSpec
=============================================================================
