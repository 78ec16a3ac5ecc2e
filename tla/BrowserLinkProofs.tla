--------------------------- MODULE BrowserLinkProofs ---------------------------
(***************************************************************************)
(* One browser page, for every value of the constants: its link to the     *)
(* relay and the host's state it shows, for any number of sockets and with *)
(* no bound on cuts, drops, sign-outs and what is under way; and its tabs, *)
(* for any number of tabs, frames under way and rare events.               *)
(***************************************************************************)
EXTENDS BrowserLink, BrowserTabs, FiniteSetTheorems, SequenceTheorems, TLAPS

-----------------------------------------------------------------------------
\* The types the argument needs.
Frame == {"online", "offline", "pong", "end"}
TimersTyped ==
    /\ reconnectMs \in Nat \ {0} /\ reconnectTimer \in Nat
    /\ hostOnline \in BOOLEAN /\ wsRef \in Sock \union {None}
LinksTyped ==
    /\ sock \in [Sock -> {"free", "connecting", "open", "closing"}]
    /\ relay \in [Sock -> {"none", "alive", "waiting"}]
    /\ cut \in [Sock -> SUBSET {"up", "down"}]
    /\ down \in [Sock -> Seq(Frame)]

\* Every socket in use is the page's, and excludes a pending reconnect.
OnlyLink == \A s \in Sock : sock[s] # "free" => s = wsRef /\ reconnectTimer = 0
\* The heartbeat runs, and the host is shown online, with an open socket only.
OpenOnly ==
    hbTimer \/ hostOnline => wsRef \in Sock /\ sock[wsRef] \in {"open", "closing"}
\* A page that is not signed in has no link at all; one that is has a socket
\* or a reconnect pending.
LinkOrTimer ==
    IF authed = "in"
    THEN wsRef \in Sock /\ ((reconnectTimer > 0) # (sock[wsRef] # "free"))
    ELSE reconnectTimer = 0 /\ \A s \in Sock : sock[s] = "free"
LinkInv == TimersTyped /\ LinksTyped /\ OnlyLink /\ OpenOnly /\ LinkOrTimer

\* The last of the host's states in the frames of q, or else what is shown.
HostStates == {"online", "offline"}
Tells(q, showing, truth) ==
    /\ (\A i \in 1..Len(q) : q[i] \notin HostStates) => (showing <=> truth)
    /\ \A i \in 1..Len(q) :
           (q[i] \in HostStates /\ \A j \in 1..Len(q) : j > i => q[j] \notin HostStates)
               => ((q[i] = "online") <=> truth)
\* What is shown and what is under way end in what the relay knows.
Informed ==
    \A s \in Sock : sock[s] # "free" /\ Kept(s) /\ Whole(s) =>
        Tells(down[s], hostOnline, host # "gone")

-----------------------------------------------------------------------------
\* The frames of a link, one after the other.
LEMMA TellsHost ==
    ASSUME NEW q \in Seq(Frame), NEW frame \in HostStates, NEW showing, NEW truth,
           (frame = "online") <=> truth
    PROVE  Tells(Append(q, frame), showing, truth)
<1>. DEFINE a == Append(q, frame)
<1>1. Len(a) = Len(q) + 1 /\ a[Len(q) + 1] = frame /\ Len(q) \in Nat
  OBVIOUS
<1>2. Len(q) + 1 \in 1..Len(a)
  BY <1>1
<1>. HIDE DEF a
<1>3. \A i \in 1..Len(a) :
          (a[i] \in HostStates /\ \A j \in 1..Len(a) : j > i => a[j] \notin HostStates)
              => i = Len(q) + 1
  BY <1>1, <1>2
<1>4. Tells(a, showing, truth)
  BY <1>1, <1>2, <1>3 DEF Tells
<1>. QED BY <1>4 DEF a

LEMMA TellsPong ==
    ASSUME NEW q \in Seq(Frame), NEW frame \in Frame \ HostStates, NEW showing, NEW truth,
           Tells(q, showing, truth)
    PROVE  Tells(Append(q, frame), showing, truth)
<1>. DEFINE a == Append(q, frame)
<1>1. /\ Len(a) = Len(q) + 1 /\ a[Len(q) + 1] = frame /\ Len(q) \in Nat
      /\ \A i \in 1..Len(q) : a[i] = q[i]
  OBVIOUS
<1>. HIDE DEF a
<1>2. \A i \in 1..Len(a) : i \in 1..Len(q) \/ a[i] \notin HostStates
  BY <1>1
<1>3. 1..Len(q) \subseteq 1..Len(a)
  BY <1>1
<1>4. (\A i \in 1..Len(a) : a[i] \notin HostStates) => (showing <=> truth)
  BY <1>1, <1>3 DEF Tells
<1>5. ASSUME NEW i \in 1..Len(a), a[i] \in HostStates,
             \A j \in 1..Len(a) : j > i => a[j] \notin HostStates
      PROVE  (a[i] = "online") <=> truth
  <2>1. i \in 1..Len(q) /\ a[i] = q[i]
    BY <1>1, <1>2, <1>5
  <2>2. \A j \in 1..Len(q) : j > i => q[j] \notin HostStates
    BY <1>1, <1>3, <1>5
  <2>. QED BY <1>5, <2>1, <2>2 DEF Tells
<1>6. Tells(a, showing, truth)
  BY <1>4, <1>5 DEF Tells
<1>. QED BY <1>6 DEF a

LEMMA TellsNext ==
    ASSUME NEW q \in Seq(Frame), q # <<>>, NEW showing, NEW truth, Tells(q, showing, truth),
           NEW now, Head(q) \in HostStates => (now <=> Head(q) = "online"),
           Head(q) \notin HostStates => (now <=> showing)
    PROVE  Tells(Tail(q), now, truth)
<1>. DEFINE t == Tail(q)
<1>1. /\ Len(q) \in Nat \ {0} /\ Len(t) = Len(q) - 1 /\ Head(q) = q[1]
      /\ \A i \in 1..Len(t) : t[i] = q[i + 1]
  OBVIOUS
<1>. HIDE DEF t
<1>2. /\ \A i \in 1..Len(t) : i + 1 \in 1..Len(q)
      /\ \A j \in 1..Len(q) : j # 1 => j - 1 \in 1..Len(t) /\ q[j] = t[j - 1]
      /\ 1 \in 1..Len(q)
  BY <1>1
<1>3. ASSUME \A i \in 1..Len(t) : t[i] \notin HostStates PROVE now <=> truth
  <2>1. \A j \in 1..Len(q) : j # 1 => q[j] \notin HostStates
    BY <1>2, <1>3
  <2>2. CASE Head(q) \in HostStates
    <3>1. \A j \in 1..Len(q) : j > 1 => q[j] \notin HostStates
      BY <2>1
    <3>2. (q[1] = "online") <=> truth
      BY <1>1, <1>2, <2>2, <3>1 DEF Tells
    <3>. QED BY <1>1, <2>2, <3>2
  <2>3. CASE Head(q) \notin HostStates
    <3>1. \A j \in 1..Len(q) : q[j] \notin HostStates
      BY <1>1, <2>1, <2>3
    <3>. QED BY <2>3, <3>1 DEF Tells
  <2>. QED BY <2>2, <2>3
<1>4. ASSUME NEW i \in 1..Len(t), t[i] \in HostStates,
             \A j \in 1..Len(t) : j > i => t[j] \notin HostStates
      PROVE  (t[i] = "online") <=> truth
  <2>1. \A j \in 1..Len(q) : j > i + 1 => q[j] \notin HostStates
    <3>. SUFFICES ASSUME NEW j \in 1..Len(q), j > i + 1 PROVE q[j] \notin HostStates
      OBVIOUS
    <3>1. j # 1 /\ j - 1 > i
      BY <1>1
    <3>. QED BY <1>2, <1>4, <3>1
  <2>2. i + 1 \in 1..Len(q) /\ q[i + 1] = t[i]
    BY <1>1, <1>2
  <2>. QED BY <1>4, <2>1, <2>2 DEF Tells
<1>5. Tells(t, now, truth)
  BY <1>3, <1>4 DEF Tells
<1>. QED BY <1>5 DEF t

-----------------------------------------------------------------------------
\* The page's half of the link, and what the other steps leave of it.
LEMMA SentTyped ==
    ASSUME LinksTyped, NEW frame \in Frame
    PROVE  /\ \A s \in Sock : Sent(s, frame) \in Seq(Frame)
           /\ Broadcast(frame) \in [Sock -> Seq(Frame)]
<1>1. \A s \in Sock : Sent(s, frame) \in Seq(Frame)
  BY DEF Sent, LinksTyped
<1>. QED BY <1>1 DEF Broadcast, LinksTyped

LEMMA LinkFrame ==
    ASSUME LinkInv, LinksTyped', UNCHANGED <<pageVars, sock>>
    PROVE  LinkInv'
BY DEF LinkInv, TimersTyped, OnlyLink, OpenOnly, LinkOrTimer, pageVars

LEMMA ConnectKeeps ==
    ASSUME LinkInv, NEW s \in Sock, Connect(s), \A t \in Sock : sock[t] = "free",
           authed' = "in", reconnectTimer' = 0,
           UNCHANGED <<hbTimer, hostOnline, reconnectMs, relay, cut, down>>
    PROVE  LinkInv'
<1>1. sock' = [sock EXCEPT ![s] = "connecting"] /\ wsRef' = s
  BY DEF Connect
<1>2. LinksTyped' /\ \A t \in Sock : sock'[t] = IF t = s THEN "connecting" ELSE "free"
  BY <1>1 DEF LinkInv, LinksTyped
<1>3. ~hbTimer /\ ~hostOnline
  BY DEF LinkInv, OpenOnly
<1>. QED
  BY <1>1, <1>2, <1>3 DEF LinkInv, TimersTyped, OnlyLink, OpenOnly, LinkOrTimer

LEMMA OnCloseKeeps ==
    ASSUME LinkInv, NEW s \in Sock, sock[s] # "free", OnClose(s), UNCHANGED <<relay, cut>>
    PROVE  LinkInv'
<1>1. /\ sock' = [sock EXCEPT ![s] = "free"] /\ down' = [down EXCEPT ![s] = <<>>]
      /\ hbTimer' = FALSE /\ hostOnline' = FALSE /\ reconnectTimer' = reconnectMs
      /\ reconnectMs' = Backoff /\ UNCHANGED <<authed, wsRef>>
  BY DEF OnClose, HostAfterClose, Rearmed
<1>2. LinksTyped'
  BY <1>1 DEF LinkInv, LinksTyped
<1>3. TimersTyped'
  <2>1. reconnectMs \in Nat \ {0} /\ LastDelay \in Nat \ {0}
    BY DelayAssumption DEF LinkInv, TimersTyped
  <2>2. Backoff \in Nat \ {0}
    BY <2>1 DEF Backoff, AtMost
  <2>. QED BY <1>1, <2>1, <2>2 DEF LinkInv, TimersTyped
<1>4. \A t \in Sock : sock'[t] = "free"
  BY <1>1 DEF LinkInv, OnlyLink, LinksTyped
<1>5. authed = "in" /\ wsRef = s
  BY DEF LinkInv, OnlyLink, LinkOrTimer
<1>. QED
  BY <1>1, <1>2, <1>3, <1>4, <1>5 DEF LinkInv, TimersTyped, OnlyLink, OpenOnly, LinkOrTimer

LEMMA PageKeeps ==
    ASSUME LinkInv, NEW s \in Sock, PageStep(s)
    PROVE  LinkInv'
<1>1. CASE Boot(s) /\ ~cookie
  <2>1. UNCHANGED <<wsRef, hostOnline, hbTimer, reconnectTimer, reconnectMs, sock, relay, cut,
                    down>> /\ authed = "checking" /\ authed' = "out"
    BY <1>1 DEF Boot
  <2>. QED
    BY <2>1 DEF LinkInv, TimersTyped, LinksTyped, OnlyLink, OpenOnly, LinkOrTimer
<1>2. CASE (Boot(s) /\ cookie) \/ Login(s) \/ ReconnectFires(s)
  <2>1. /\ Connect(s)
        /\ UNCHANGED <<hbTimer, hostOnline, reconnectMs, relay, cut, down>>
    BY <1>2 DEF Boot, Login, ReconnectFires
  <2>2. \A t \in Sock : sock[t] = "free"
    BY <1>2 DEF Boot, Login, ShowsLogin, ReconnectFires, LinkInv, OnlyLink, LinkOrTimer
  <2>3. authed' = "in" /\ reconnectTimer' = 0
    BY <1>2 DEF Boot, Login, ShowsLogin, ReconnectFires, LinkInv, LinkOrTimer, TimersTyped
  <2>. QED BY <2>1, <2>2, <2>3, ConnectKeeps
<1>3. CASE Opens(s)
  <2>1. /\ sock[s] = "connecting" /\ sock' = [sock EXCEPT ![s] = "open"] /\ hbTimer' = TRUE
        /\ UNCHANGED <<authed, wsRef, hostOnline, reconnectTimer, reconnectMs, relay, cut, down>>
    BY <1>3 DEF Opens
  <2>2. LinksTyped' /\ wsRef = s
    BY <2>1 DEF LinkInv, LinksTyped, OnlyLink
  <2>. QED
    BY <2>1, <2>2 DEF LinkInv, TimersTyped, LinksTyped, OnlyLink, OpenOnly, LinkOrTimer
<1>4. CASE ConnectFails(s) \/ Closes(s)
  <2>1. sock[s] # "free" /\ OnClose(s) /\ UNCHANGED <<relay, cut>>
    BY <1>4 DEF ConnectFails, Closes
  <2>. QED BY <2>1, OnCloseKeeps
<1>5. CASE Deliver(s)
  <2>1. /\ sock[s] \in {"open", "closing"} /\ down[s] # <<>>
        /\ down' = [down EXCEPT ![s] = Tail(@)]
        /\ hostOnline' \in {TRUE, FALSE, hostOnline}
        /\ UNCHANGED <<authed, wsRef, hbTimer, reconnectTimer, reconnectMs, sock, relay, cut>>
    BY <1>5 DEF Deliver
  <2>2. Tail(down[s]) \in Seq(Frame)
    BY <2>1 DEF LinkInv, LinksTyped
  <2>3. LinksTyped' /\ wsRef = s
    BY <2>1, <2>2 DEF LinkInv, LinksTyped, OnlyLink
  <2>. QED
    BY <2>1, <2>3 DEF LinkInv, TimersTyped, OnlyLink, OpenOnly, LinkOrTimer
<1>6. CASE HeartBeat(s)
  <2>1. /\ sock[s] = "open" /\ s = wsRef
        /\ sock' = [sock EXCEPT ![s] = "closing"] \/ sock' = sock
        /\ UNCHANGED <<authed, wsRef, hostOnline, hbTimer, reconnectTimer, reconnectMs, relay,
                       cut, down>>
    BY <1>6 DEF HeartBeat, AfterSilence
  <2>2. LinksTyped' /\ \A t \in Sock \ {s} : sock'[t] = sock[t]
    BY <2>1 DEF LinkInv, LinksTyped
  <2>3. sock'[s] \in {"open", "closing"}
    BY <2>1 DEF LinkInv, LinksTyped
  <2>. QED
    BY <2>1, <2>2, <2>3 DEF LinkInv, TimersTyped, OnlyLink, OpenOnly, LinkOrTimer
<1>. QED BY <1>1, <1>2, <1>3, <1>4, <1>5, <1>6 DEF PageStep

LEMMA LinkStep ==
    ASSUME LinkInv, [Next]_vars
    PROVE  LinkInv'
<1>1. ASSUME NEW s \in Sock, PageStep(s) PROVE LinkInv'
  BY <1>1, PageKeeps
<1>2. ASSUME NEW s \in Sock, RelayStep(s) \/ NetworkStep(s) PROVE LinkInv'
  <2>1. UNCHANGED <<pageVars, sock>>
    BY <1>2 DEF RelayStep, NetworkStep, Upgrade, PingLands, RelayBeat, RelaySeesClose, RelayDrops,
       Forgotten, LinkCut
  <2>2. \A t \in Sock : Sent(t, "end") \in Seq(Frame)
    BY SentTyped DEF LinkInv, Frame
  <2>3. Broadcast("pong") \in [Sock -> Seq(Frame)] /\ <<HostFrame>> \in Seq(Frame)
    BY SentTyped DEF LinkInv, Frame, HostFrame
  <2>4. LinksTyped'
    <3>1. CASE Upgrade(s)
      BY <2>1, <2>3, <3>1 DEF Upgrade, LinkInv, LinksTyped
    <3>2. CASE PingLands(s)
      BY <2>1, <2>3, <3>2 DEF PingLands, LinkInv, LinksTyped
    <3>3. CASE RelayBeat(s) \/ RelaySeesClose(s) \/ RelayDrops(s)
      <4>1. PICK heard \in {"none", "alive", "waiting"}, q \in {down[s], Sent(s, "end")} :
                /\ relay' = [relay EXCEPT ![s] = heard]
                /\ down' = down \/ down' = [down EXCEPT ![s] = q]
                /\ UNCHANGED <<sock, cut>>
        <5>1. CASE RelayBeat(s)
          BY <5>1 DEF RelayBeat
        <5>2. CASE RelaySeesClose(s)
          BY <5>2 DEF RelaySeesClose
        <5>3. CASE RelayDrops(s)
          BY <5>3 DEF RelayDrops
        <5>. QED BY <3>3, <5>1, <5>2, <5>3
      <4>2. q \in Seq(Frame)
        BY <2>2, <4>1 DEF LinkInv, LinksTyped
      <4>3. relay' \in [Sock -> {"none", "alive", "waiting"}]
        BY <4>1 DEF LinkInv, LinksTyped
      <4>4. down' \in [Sock -> Seq(Frame)]
        BY <4>1, <4>2 DEF LinkInv, LinksTyped
      <4>. QED BY <4>1, <4>3, <4>4 DEF LinkInv, LinksTyped
    <3>4. CASE Forgotten(s)
      BY <2>1, <3>4 DEF Forgotten, LinkInv, LinksTyped
    <3>5. ASSUME NEW how \in {{"up"}, {"down"}, {"up", "down"}}, LinkCut(s, how)
          PROVE  LinksTyped'
      <4>1. how \in SUBSET {"up", "down"}
        OBVIOUS
      <4>2. cut' = [cut EXCEPT ![s] = how] /\ (down' = down \/ down' = [down EXCEPT ![s] = <<>>])
            /\ UNCHANGED <<sock, relay>>
        BY <3>5 DEF LinkCut
      <4>3. down' \in [Sock -> Seq(Frame)]
        <5>1. <<>> \in Seq(Frame)
          OBVIOUS
        <5>. QED BY <4>2, <5>1 DEF LinkInv, LinksTyped
      <4>4. cut' \in [Sock -> SUBSET {"up", "down"}]
        BY <4>1, <4>2 DEF LinkInv, LinksTyped
      <4>. QED BY <4>2, <4>3, <4>4 DEF LinkInv, LinksTyped
    <3>. QED BY <1>2, <3>1, <3>2, <3>3, <3>4, <3>5 DEF RelayStep, NetworkStep
  <2>. QED BY <2>1, <2>4, LinkFrame
<1>3. CASE Leave
  <2>1. LinksTyped'
    BY <1>3 DEF Leave, LinkInv, LinksTyped
  <2>. QED
    BY <1>3, <2>1, DelayAssumption DEF Leave, LinkInv, TimersTyped, OnlyLink, OpenOnly,
       LinkOrTimer
<1>4. CASE StableFires
  <2>1. LinksTyped'
    BY <1>4 DEF StableFires, LinkInv, LinksTyped, linkVars
  <2>. QED
    BY <1>4, <2>1, DelayAssumption DEF StableFires, LinkInv, TimersTyped, OnlyLink, OpenOnly,
       LinkOrTimer, linkVars
<1>5. ASSUME NEW new \in {"gone", "up", "hung"}, HostChanges(new) PROVE LinkInv'
  <2>1. /\ Broadcast("online") \in [Sock -> Seq(Frame)]
        /\ Broadcast("offline") \in [Sock -> Seq(Frame)]
    BY SentTyped DEF LinkInv, Frame
  <2>2. LinksTyped' /\ UNCHANGED <<pageVars, sock>>
    BY <1>5, <2>1 DEF HostChanges, LinkInv, LinksTyped
  <2>. QED BY <2>2, LinkFrame
<1>6. CASE SessionEnds \/ UNCHANGED vars
  <2>1. UNCHANGED <<pageVars, linkVars>>
    BY <1>6 DEF SessionEnds, vars
  <2>2. LinksTyped'
    BY <2>1 DEF LinkInv, LinksTyped, linkVars
  <2>. QED BY <2>1, <2>2, LinkFrame DEF linkVars
<1>. QED BY <1>1, <1>2, <1>3, <1>4, <1>5, <1>6 DEF Next

LEMMA LinkInit == Init => LinkInv
<1>. SUFFICES ASSUME Init PROVE LinkInv
  OBVIOUS
<1>1. TimersTyped
  BY DelayAssumption DEF Init, TimersTyped
<1>2. LinksTyped
  <2>1. <<>> \in Seq(Frame) /\ {} \in SUBSET {"up", "down"}
    OBVIOUS
  <2>. QED BY <2>1 DEF Init, LinksTyped
<1>. QED BY <1>1, <1>2 DEF Init, LinkInv, OnlyLink, OpenOnly, LinkOrTimer

\* OneLink: whatever closes, times out or is cut, a page has one socket or one
\* reconnect pending (useRemote.ts:625-700).
THEOREM LinkIsOne == Spec => []OneLink
<1>1. LinkInv => OneLink
  BY SockAssumption DEF LinkInv, OnlyLink, OpenOnly, LinkOrTimer, OneLink
<1>2. LinkInv /\ [Next]_vars => LinkInv'
  BY LinkStep
<1>. QED BY <1>1, <1>2, LinkInit, PTL DEF Spec

-----------------------------------------------------------------------------
\* What a step that leaves a link, or adds a frame to it, makes of Informed.
Facts(s) == sock[s] # "free" /\ Kept(s) /\ Whole(s)
Told(s) == Tells(down[s], hostOnline, host # "gone")

LEMMA SentTells ==
    ASSUME LinkInv, Informed, NEW s \in Sock, Facts(s)
    PROVE  /\ Tells(Sent(s, "pong"), hostOnline, host # "gone")
           /\ Tells(Sent(s, "online"), hostOnline, TRUE)
           /\ Tells(Sent(s, "offline"), hostOnline, FALSE)
<1>1. /\ down[s] \in Seq(Frame) /\ Told(s)
      /\ \A frame : Sent(s, frame) = Append(down[s], frame)
  BY DEF LinkInv, LinksTyped, Informed, Sent, Facts, Told, Whole, Down
<1>2. Tells(Append(down[s], "pong"), hostOnline, host # "gone")
  BY <1>1, TellsPong DEF Frame, HostStates, Told
<1>3. Tells(Append(down[s], "online"), hostOnline, TRUE)
  BY <1>1, TellsHost DEF HostStates
<1>4. Tells(Append(down[s], "offline"), hostOnline, FALSE)
  BY <1>1, TellsHost DEF HostStates
<1>. QED BY <1>1, <1>2, <1>3, <1>4

LEMMA PageInforms ==
    ASSUME LinkInv, LinkInv', Informed, NEW s \in Sock, PageStep(s)
    PROVE  Informed'
<1>. SUFFICES ASSUME NEW t \in Sock, Facts(t)' PROVE Told(t)'
  BY DEF Informed, Facts, Told
<1>1. CASE Boot(s) \/ Login(s) \/ ReconnectFires(s)
  <2>1. CASE Boot(s) /\ ~cookie
    BY <2>1 DEF Boot, Facts, Told, Informed, Kept, Whole
  <2>2. CASE ~(Boot(s) /\ ~cookie)
    <3>1. /\ Unused(s) /\ sock' = [sock EXCEPT ![s] = "connecting"]
          /\ UNCHANGED <<relay, cut>>
      BY <1>1, <2>2 DEF Boot, Login, ReconnectFires, Connect
    <3>2. \A u \in Sock : sock[u] = "free"
      BY <1>1, <2>2 DEF Boot, Login, ShowsLogin, ReconnectFires, LinkInv, OnlyLink, LinkOrTimer
    <3>3. ~Facts(t)'
      BY <3>1, <3>2 DEF Facts, Kept, Unused, Gone, LinkInv, LinksTyped
    <3>. QED BY <3>3
  <2>. QED BY <2>1, <2>2
<1>2. CASE Opens(s)
  <2>1. /\ sock[s] = "connecting" /\ sock' = [sock EXCEPT ![s] = "open"]
        /\ UNCHANGED <<hostOnline, relay, cut, down, host>>
    BY <1>2 DEF Opens
  <2>2. Facts(t)
    BY <2>1 DEF Facts, Kept, Whole, LinkInv, LinksTyped
  <2>. QED BY <2>1, <2>2 DEF Informed, Facts, Told
<1>3. CASE ConnectFails(s) \/ Closes(s)
  <2>1. sock[s] # "free" /\ sock' = [sock EXCEPT ![s] = "free"]
    BY <1>3 DEF ConnectFails, Closes, OnClose
  <2>2. ~Facts(t)'
    BY <2>1 DEF Facts, LinkInv, OnlyLink, LinksTyped
  <2>. QED BY <2>2
<1>4. CASE Deliver(s)
  <2>1. /\ sock[s] \in {"open", "closing"} /\ down[s] # <<>>
        /\ down' = [down EXCEPT ![s] = Tail(@)]
        /\ Head(down[s]) = "online" => hostOnline'
        /\ Head(down[s]) = "offline" => ~hostOnline'
        /\ Head(down[s]) \notin HostStates => hostOnline' = hostOnline
        /\ UNCHANGED <<sock, relay, cut, host>>
    BY <1>4 DEF Deliver, HostStates
  <2>2. t = s
    BY <2>1 DEF Facts, LinkInv, OnlyLink
  <2>3. Facts(s) /\ down[s] \in Seq(Frame)
    BY <2>1, <2>2 DEF Facts, Kept, Whole, LinkInv, LinksTyped
  <2>4. Told(s) /\ down'[s] = Tail(down[s])
    BY <2>1, <2>3 DEF Informed, Facts, Told, LinkInv, LinksTyped
  <2>5. /\ Head(down[s]) \in HostStates => (hostOnline' <=> Head(down[s]) = "online")
        /\ Head(down[s]) \notin HostStates => (hostOnline' <=> hostOnline)
    BY <2>1 DEF HostStates
  <2>6. Tells(Tail(down[s]), hostOnline', host # "gone")
    BY <2>1, <2>3, <2>4, <2>5, TellsNext DEF Told
  <2>. QED BY <2>1, <2>2, <2>4, <2>6 DEF Told
<1>5. CASE HeartBeat(s)
  <2>1. /\ sock[s] = "open" /\ (sock' = [sock EXCEPT ![s] = "closing"] \/ sock' = sock)
        /\ UNCHANGED <<hostOnline, relay, cut, down, host>>
    BY <1>5 DEF HeartBeat
  <2>2. Facts(t)
    BY <2>1 DEF Facts, Kept, Whole, LinkInv, LinksTyped
  <2>. QED BY <2>1, <2>2 DEF Informed, Facts, Told
<1>. QED BY <1>1, <1>2, <1>3, <1>4, <1>5 DEF PageStep

LEMMA OthersInform ==
    ASSUME LinkInv, Informed, NEW s \in Sock, RelayStep(s) \/ NetworkStep(s)
    PROVE  Informed'
<1>. SUFFICES ASSUME NEW t \in Sock, Facts(t)' PROVE Told(t)'
  BY DEF Informed, Facts, Told
<1>p. UNCHANGED <<sock, hostOnline, host>>
  BY DEF RelayStep, NetworkStep, Upgrade, PingLands, RelayBeat, RelaySeesClose, RelayDrops,
     Forgotten, LinkCut, pageVars
<1>1. CASE Upgrade(s)
  <2>1. /\ relay' = [relay EXCEPT ![s] = "alive"] /\ cut' = cut
        /\ down' = [down EXCEPT ![s] = <<HostFrame>>]
    BY <1>1 DEF Upgrade
  <2>2. CASE t = s
    <3>1. /\ <<>> \in Seq(Frame) /\ HostFrame \in HostStates
          /\ (HostFrame = "online") <=> (host # "gone")
      BY DEF HostFrame, HostStates
    <3>2. Tells(Append(<<>>, HostFrame), hostOnline, host # "gone")
      BY <3>1, TellsHost
    <3>3. down'[t] = Append(<<>>, HostFrame)
      BY <2>1, <2>2 DEF LinkInv, LinksTyped
    <3>. QED BY <1>p, <3>2, <3>3 DEF Told
  <2>3. CASE t # s
    BY <1>p, <2>1, <2>3 DEF Facts, Told, Informed, Kept, Whole, LinkInv, LinksTyped
  <2>. QED BY <2>2, <2>3
<1>2. CASE PingLands(s)
  <2>1. UNCHANGED <<relay, cut>> /\ down' \in {down, Broadcast("pong")}
    BY <1>2 DEF PingLands
  <2>2. Facts(t)
    BY <1>p, <2>1 DEF Facts, Kept, Whole
  <2>3. down'[t] = down[t] \/ down'[t] = Sent(t, "pong")
    BY <2>1 DEF Broadcast
  <2>. QED BY <1>p, <2>2, <2>3, SentTells DEF Informed, Facts, Told
<1>3. CASE RelayBeat(s) \/ RelaySeesClose(s) \/ RelayDrops(s)
  <2>1. /\ cut' = cut
        /\ \/ relay' = [relay EXCEPT ![s] = "none"] /\ down' = [down EXCEPT ![s] = Sent(s, "end")]
           \/ /\ Kept(s) /\ down' = down
              /\ \E x \in {"alive", "waiting"} : relay' = [relay EXCEPT ![s] = x]
    BY <1>3 DEF RelayBeat, RelaySeesClose, RelayDrops
  <2>2. Facts(t) /\ down'[t] = down[t]
    BY <1>p, <2>1 DEF Facts, Kept, Whole, LinkInv, LinksTyped
  <2>. QED BY <1>p, <2>2 DEF Informed, Facts, Told
<1>4. CASE Forgotten(s) \/ \E how \in {{"up"}, {"down"}, {"up", "down"}} : LinkCut(s, how)
  <2>1. CASE Forgotten(s)
    BY <1>p, <2>1 DEF Forgotten, Gone, Facts, Told, Informed, Kept, Whole, LinkInv, LinksTyped
  <2>2. ASSUME NEW how \in {{"up"}, {"down"}, {"up", "down"}}, LinkCut(s, how)
        PROVE  Told(t)'
    <3>1. /\ cut' = [cut EXCEPT ![s] = how] /\ relay' = relay /\ how # {}
          /\ (down' = down \/ down' = [down EXCEPT ![s] = <<>>])
      BY <2>2 DEF LinkCut
    <3>2. t # s
      BY <3>1 DEF Facts, Whole, LinkInv, LinksTyped
    <3>3. Facts(t) /\ down'[t] = down[t]
      BY <1>p, <3>1, <3>2 DEF Facts, Kept, Whole, LinkInv, LinksTyped
    <3>. QED BY <1>p, <3>3 DEF Informed, Facts, Told
  <2>. QED BY <1>4, <2>1, <2>2
<1>. QED BY <1>1, <1>2, <1>3, <1>4 DEF RelayStep, NetworkStep

LEMMA InformedStep ==
    ASSUME LinkInv, LinkInv', Informed, [Next]_vars
    PROVE  Informed'
<1>1. ASSUME NEW s \in Sock, PageStep(s) \/ RelayStep(s) \/ NetworkStep(s) PROVE Informed'
  BY <1>1, PageInforms, OthersInform
<1>2. CASE Leave
  BY <1>2 DEF Leave, Informed
<1>3. ASSUME NEW new \in {"gone", "up", "hung"}, HostChanges(new) PROVE Informed'
  <2>. SUFFICES ASSUME NEW t \in Sock, Facts(t)' PROVE Told(t)'
    BY DEF Informed, Facts, Told
  <2>1. /\ UNCHANGED <<hostOnline, sock, relay, cut>> /\ host' = new
        /\ down' = IF "gone" \in {host, new}
                   THEN Broadcast(IF new = "gone" THEN "offline" ELSE "online") ELSE down
        /\ host # new
    BY <1>3 DEF HostChanges, pageVars
  <2>2. Facts(t)
    BY <2>1 DEF Facts, Kept, Whole
  <2>3. CASE "gone" \notin {host, new}
    BY <2>1, <2>2, <2>3 DEF Informed, Facts, Told
  <2>4. CASE "gone" \in {host, new}
    <3>1. down'[t] = Sent(t, IF new = "gone" THEN "offline" ELSE "online")
      BY <2>1, <2>2, <2>4 DEF Broadcast, Facts
    <3>2. CASE new = "gone"
      BY <2>1, <2>2, <3>1, <3>2, SentTells DEF Told
    <3>3. CASE new # "gone"
      BY <2>1, <2>2, <3>1, <3>3, SentTells DEF Told
    <3>. QED BY <3>2, <3>3
  <2>. QED BY <2>3, <2>4
<1>4. CASE StableFires \/ SessionEnds \/ UNCHANGED vars
  <2>1. UNCHANGED <<hostOnline, linkVars, host>>
    BY <1>4 DEF StableFires, SessionEnds, vars, pageVars
  <2>. QED BY <2>1 DEF Informed, Kept, Whole, linkVars
<1>. QED BY <1>1, <1>2, <1>3, <1>4 DEF Next

\* HostShown: the host is shown online through an open link only, and when
\* nothing is under way on it the page shows what the relay knows
\* (useRemote.ts:501-506, 684; server.js:711-720, 792-794).
THEOREM HostIsShown == Spec => []HostShown
<1>1. LinkInv /\ Informed => HostShown
  <2>. SUFFICES ASSUME LinkInv, Informed, NEW s \in Sock, sock[s] = "open", Kept(s), Whole(s),
                       down[s] = <<>>
                PROVE  hostOnline <=> host # "gone"
    BY DEF LinkInv, OpenOnly, HostShown
  <2>1. Tells(<<>>, hostOnline, host # "gone")
    BY DEF Informed
  <2>2. \A i \in 1..Len(<<>>) : <<>>[i] \notin HostStates
    OBVIOUS
  <2>. QED BY <2>1, <2>2 DEF Tells
<1>2. Init => Informed
  BY DEF Init, Informed
<1>3. LinkInv /\ LinkInv' /\ Informed /\ [Next]_vars => Informed'
  BY InformedStep
<1>4. LinkInv /\ [Next]_vars => LinkInv'
  BY LinkStep
<1>. QED BY <1>1, <1>2, <1>3, <1>4, LinkInit, PTL DEF Spec
-----------------------------------------------------------------------------
(* The heartbeat.                                                           *)

HealthTyped ==
    silent \in Nat /\ pinged \subseteq Sock /\ host \in {"gone", "up", "hung"} /\ dozed \in BOOLEAN
HungIsDozed == host = "hung" => dozed
\* A whole link that the relay has left ends with its end.
EndComes ==
    \A s \in Sock : sock[s] = "open" /\ Whole(s) /\ ~Kept(s) =>
        down[s] # <<>> /\ down[s][Len(down[s])] = "end"
\* A page in touch with a host that has not been hung is silent only while the
\* answer to its ping is to come.
Awaited ==
    \A s \in Sock : sock[s] = "open" /\ Whole(s) /\ Kept(s) /\ ~dozed /\ silent > 0 =>
        s \in pinged \/ down[s] # <<>> \/ host = "gone"
HealthInv == HealthTyped /\ HungIsDozed /\ EndComes /\ Awaited

LEMMA Lengthens ==
    ASSUME LinksTyped, NEW s \in Sock, NEW frame \in Frame
    PROVE  /\ down[s] # <<>> => Sent(s, frame) # <<>>
           /\ sock[s] # "free" /\ Whole(s) =>
                 /\ Sent(s, frame) # <<>>
                 /\ Sent(s, frame)[Len(Sent(s, frame))] = frame
<1>1. down[s] \in Seq(Frame)
  BY DEF LinksTyped
<1>2. /\ Append(down[s], frame) # <<>>
      /\ Append(down[s], frame)[Len(Append(down[s], frame))] = frame
  BY <1>1
<1>. QED BY <1>2 DEF Sent, Whole, Down

\* A frame for every browser leaves the ends and the waits as they are.
LEMMA BroadcastHealth ==
    ASSUME LinksTyped, EndComes, NEW frame \in Frame, down' = Broadcast(frame),
           UNCHANGED <<sock, relay, cut>>
    PROVE  /\ EndComes'
           /\ \A s \in Sock : down[s] # <<>> => down'[s] # <<>>
           /\ \A s \in Sock : sock[s] # "free" /\ Whole(s) /\ Kept(s) => down'[s] # <<>>
<1>1. \A s \in Sock : down'[s] = IF Kept(s) THEN Sent(s, frame) ELSE down[s]
  BY DEF Broadcast
<1>2. EndComes'
  BY <1>1 DEF EndComes, Whole, Kept
<1>3. \A s \in Sock : down[s] # <<>> => down'[s] # <<>>
  BY <1>1, Lengthens
<1>4. \A s \in Sock : sock[s] # "free" /\ Whole(s) /\ Kept(s) => down'[s] # <<>>
  BY <1>1, Lengthens
<1>. QED BY <1>2, <1>3, <1>4

LEMMA LastStays ==
    ASSUME NEW q \in Seq(Frame), q # <<>>, q[Len(q)] = "end", Head(q) # "end"
    PROVE  Tail(q) # <<>> /\ Tail(q)[Len(Tail(q))] = "end"
<1>1. Head(q) = q[1] /\ Len(q) \in Nat \ {0}
  OBVIOUS
<1>2. Len(q) > 1
  BY <1>1
<1>3. Len(Tail(q)) = Len(q) - 1 /\ \A i \in 1..Len(q) - 1 : Tail(q)[i] = q[i + 1]
  BY <1>1
<1>4. Len(q) - 1 \in 1..Len(q) - 1 /\ Len(Tail(q)) # 0 /\ Len(<<>>) = 0
  BY <1>1, <1>2, <1>3
<1>5. Tail(q)[Len(q) - 1] = q[Len(q)]
  BY <1>1, <1>3, <1>4
<1>6. Tail(q) # <<>>
  BY <1>4
<1>. QED BY <1>3, <1>5, <1>6

LEMMA PageHealth ==
    ASSUME LinkInv, HealthInv, NEW s \in Sock, PageStep(s)
    PROVE  HealthInv'
<1>1. CASE Boot(s) \/ Login(s) \/ ReconnectFires(s)
  <2>1. /\ sock' = sock \/ sock' = [sock EXCEPT ![s] = "connecting"]
        /\ UNCHANGED <<relay, cut, down, pinged, host, dozed, silent>>
    BY <1>1 DEF Boot, Login, ReconnectFires, Connect, history
  <2>2. \A t \in Sock : sock'[t] = "open" => sock[t] = "open"
    BY <2>1 DEF LinkInv, LinksTyped
  <2>3. HealthTyped' /\ HungIsDozed'
    BY <2>1 DEF HealthInv, HealthTyped, HungIsDozed
  <2>4. EndComes' /\ Awaited'
    BY <2>1, <2>2 DEF HealthInv, EndComes, Awaited, Whole, Kept
  <2>. QED BY <2>3, <2>4 DEF HealthInv
<1>2. CASE Opens(s)
  <2>1. /\ sock' = [sock EXCEPT ![s] = "open"] /\ Kept(s) /\ silent' = 0
        /\ dozed' = (host = "hung") /\ UNCHANGED <<relay, cut, down, pinged, host>>
    BY <1>2 DEF Opens
  <2>2. HealthTyped' /\ HungIsDozed'
    BY <2>1 DEF HealthInv, HealthTyped, HungIsDozed
  <2>3. EndComes' /\ Awaited'
    BY <2>1 DEF HealthInv, EndComes, Awaited, Whole, Kept, LinkInv, LinksTyped
  <2>. QED BY <2>2, <2>3 DEF HealthInv
<1>3. CASE ConnectFails(s) \/ Closes(s)
  <2>1. /\ sock' = [sock EXCEPT ![s] = "free"] /\ down' = [down EXCEPT ![s] = <<>>]
        /\ pinged' = pinged \ {s} /\ silent' = 0 /\ UNCHANGED <<relay, cut, host, dozed>>
    BY <1>3 DEF ConnectFails, Closes, OnClose
  <2>2. \A t \in Sock : sock'[t] = "open" => sock[t] = "open" /\ down'[t] = down[t]
    BY <2>1 DEF LinkInv, LinksTyped
  <2>3. HealthTyped' /\ HungIsDozed'
    BY <2>1 DEF HealthInv, HealthTyped, HungIsDozed
  <2>4. EndComes' /\ Awaited'
    BY <2>1, <2>2 DEF HealthInv, EndComes, Awaited, Whole, Kept
  <2>. QED BY <2>3, <2>4 DEF HealthInv
<1>4. CASE Deliver(s)
  <2>1. /\ down[s] # <<>> /\ Head(down[s]) # "end" /\ down' = [down EXCEPT ![s] = Tail(@)]
        /\ silent' = 0 /\ dozed' = (host = "hung") /\ UNCHANGED <<sock, relay, cut, pinged, host>>
    BY <1>4 DEF Deliver, Received
  <2>2. HealthTyped' /\ HungIsDozed' /\ Awaited'
    BY <2>1 DEF HealthInv, HealthTyped, HungIsDozed, Awaited
  <2>3. ASSUME down[s][Len(down[s])] = "end"
        PROVE  Tail(down[s]) # <<>> /\ Tail(down[s])[Len(Tail(down[s]))] = "end"
    BY <2>1, <2>3, LastStays DEF LinkInv, LinksTyped
  <2>4. EndComes'
    BY <2>1, <2>3 DEF HealthInv, EndComes, Whole, Kept, LinkInv, LinksTyped
  <2>. QED BY <2>2, <2>4 DEF HealthInv
<1>5. CASE HeartBeat(s)
  <2>1. /\ s = wsRef /\ sock[s] = "open" /\ silent' \in Nat
        /\ UNCHANGED <<relay, cut, down, host, dozed>>
        /\ \/ sock' = [sock EXCEPT ![s] = "closing"] /\ pinged' = pinged
           \/ sock' = sock /\ pinged' = IF Up(s) THEN pinged \union {s} ELSE pinged
    BY <1>5 DEF HeartBeat, AtMost, MaxSilent, AfterPing, HealthInv, HealthTyped, history
  <2>2. \A t \in Sock : sock'[t] = "open" => sock[t] = "open" /\ t = s /\ sock' = sock
    BY <2>1 DEF LinkInv, LinksTyped, OnlyLink
  <2>3. HealthTyped' /\ HungIsDozed'
    BY <2>1 DEF HealthInv, HealthTyped, HungIsDozed
  <2>4. EndComes'
    BY <2>1, <2>2 DEF HealthInv, EndComes, Whole, Kept
  <2>5. Awaited'
    BY <2>1, <2>2 DEF LinkInv, LinksTyped, Awaited, Whole, Up
  <2>. QED BY <2>3, <2>4, <2>5 DEF HealthInv
<1>. QED BY <1>1, <1>2, <1>3, <1>4, <1>5 DEF PageStep

LEMMA OthersHealth ==
    ASSUME LinkInv, HealthInv, NEW s \in Sock, RelayStep(s) \/ NetworkStep(s)
    PROVE  HealthInv'
<1>p. UNCHANGED <<sock, silent, host, dozed>>
  BY DEF RelayStep, NetworkStep, Upgrade, PingLands, RelayBeat, RelaySeesClose, RelayDrops,
     Forgotten, LinkCut, pageVars, history
<1>q. pinged' \subseteq pinged
  BY DEF RelayStep, NetworkStep, Upgrade, PingLands, RelayBeat, RelaySeesClose, RelayDrops,
     Forgotten, LinkCut
<1>r. HealthTyped' /\ HungIsDozed'
  BY <1>p, <1>q DEF HealthInv, HealthTyped, HungIsDozed
<1>1. CASE Upgrade(s)
  <2>1. /\ sock[s] = "connecting" /\ relay' = [relay EXCEPT ![s] = "alive"]
        /\ down' = [down EXCEPT ![s] = <<HostFrame>>] /\ UNCHANGED <<cut, pinged>>
    BY <1>1 DEF Upgrade
  <2>2. EndComes' /\ Awaited'
    BY <1>p, <2>1 DEF HealthInv, EndComes, Awaited, Whole, Kept, LinkInv, LinksTyped
  <2>. QED BY <1>r, <2>2 DEF HealthInv
<1>2. CASE PingLands(s)
  <2>1. /\ pinged' = pinged \ {s} /\ UNCHANGED <<relay, cut>>
        /\ down' = IF host = "up" THEN Broadcast("pong") ELSE down
    BY <1>2 DEF PingLands
  <2>2. CASE host = "up"
    <3>1. down' = Broadcast("pong") /\ "pong" \in Frame
      BY <2>1, <2>2 DEF Frame
    <3>2. /\ EndComes'
          /\ \A t \in Sock : sock[t] # "free" /\ Whole(t) /\ Kept(t) => down'[t] # <<>>
      BY <1>p, <2>1, <3>1, BroadcastHealth DEF LinkInv, HealthInv
    <3>3. Awaited'
      BY <1>p, <2>1, <3>2 DEF Awaited, Whole, Kept
    <3>. QED BY <1>r, <3>2, <3>3 DEF HealthInv
  <2>3. CASE host # "up"
    <3>1. down' = down /\ (host = "gone" \/ dozed)
      BY <2>1, <2>3 DEF HealthInv, HealthTyped, HungIsDozed
    <3>2. EndComes' /\ Awaited'
      BY <1>p, <2>1, <3>1 DEF HealthInv, EndComes, Awaited, Whole, Kept
    <3>. QED BY <1>r, <3>2 DEF HealthInv
  <2>. QED BY <2>2, <2>3
<1>3. CASE RelayBeat(s) \/ RelaySeesClose(s) \/ RelayDrops(s)
  <2>1. /\ UNCHANGED <<cut, pinged>> /\ Kept(s)
        /\ \/ relay' = [relay EXCEPT ![s] = "none"] /\ down' = [down EXCEPT ![s] = Sent(s, "end")]
           \/ /\ down' = down
              /\ \E x \in {"alive", "waiting"} : relay' = [relay EXCEPT ![s] = x]
    BY <1>3 DEF RelayBeat, RelaySeesClose, RelayDrops
  <2>2. /\ Kept(s)' \/ (sock[s] = "open" /\ Whole(s) =>
                            down'[s] # <<>> /\ down'[s][Len(down'[s])] = "end")
        /\ Kept(s)' => down' = down
        /\ \A t \in Sock : t # s => Kept(t)' = Kept(t) /\ down'[t] = down[t]
    BY <2>1, Lengthens DEF Kept, LinkInv, LinksTyped, Frame
  <2>3. EndComes'
    BY <1>p, <2>1, <2>2 DEF HealthInv, EndComes, Whole
  <2>4. Awaited'
    BY <1>p, <2>1, <2>2 DEF HealthInv, Awaited, Whole
  <2>. QED BY <1>r, <2>3, <2>4 DEF HealthInv
<1>4. CASE Forgotten(s)
  <2>1. /\ sock[s] = "free" /\ cut' = [cut EXCEPT ![s] = {}] /\ UNCHANGED <<relay, down, pinged>>
    BY <1>4 DEF Forgotten, Gone
  <2>2. EndComes' /\ Awaited'
    BY <1>p, <2>1 DEF HealthInv, EndComes, Awaited, Whole, Kept, LinkInv, LinksTyped
  <2>. QED BY <1>r, <2>2 DEF HealthInv
<1>5. ASSUME NEW how \in {{"up"}, {"down"}, {"up", "down"}}, LinkCut(s, how)
      PROVE  HealthInv'
  <2>1. /\ cut' = [cut EXCEPT ![s] = how] /\ relay' = relay /\ how # {}
        /\ (down' = down \/ down' = [down EXCEPT ![s] = <<>>])
        /\ (pinged' = pinged \/ pinged' = pinged \ {s})
    BY <1>5 DEF LinkCut
  <2>2. \A t \in Sock : Whole(t)' => /\ t # s /\ Whole(t) /\ down'[t] = down[t]
                                     /\ (t \in pinged' <=> t \in pinged)
    BY <2>1 DEF Whole, LinkInv, LinksTyped
  <2>3. EndComes' /\ Awaited'
    BY <1>p, <2>1, <2>2 DEF HealthInv, EndComes, Awaited, Kept
  <2>. QED BY <1>r, <2>3 DEF HealthInv
<1>. QED BY <1>1, <1>2, <1>3, <1>4, <1>5 DEF RelayStep, NetworkStep

LEMMA HealthStep ==
    ASSUME LinkInv, HealthInv, [Next]_vars
    PROVE  HealthInv'
<1>1. ASSUME NEW s \in Sock, PageStep(s) \/ RelayStep(s) \/ NetworkStep(s) PROVE HealthInv'
  BY <1>1, PageHealth, OthersHealth
<1>2. CASE Leave
  BY <1>2 DEF Leave, HealthInv, HealthTyped, HungIsDozed, EndComes, Awaited
<1>3. ASSUME NEW new \in {"gone", "up", "hung"}, HostChanges(new) PROVE HealthInv'
  <2>1. /\ host' = new /\ host # new /\ dozed' = (dozed \/ new = "hung")
        /\ down' = IF "gone" \in {host, new}
                   THEN Broadcast(IF new = "gone" THEN "offline" ELSE "online") ELSE down
        /\ UNCHANGED <<silent, sock, relay, cut, pinged>>
    BY <1>3 DEF HostChanges, pageVars
  <2>2. HealthTyped' /\ HungIsDozed'
    BY <2>1 DEF HealthInv, HealthTyped, HungIsDozed
  <2>3. CASE "gone" \in {host, new}
    <3>1. PICK frame \in Frame : down' = Broadcast(frame)
      BY <2>1, <2>3 DEF Frame
    <3>2. /\ EndComes'
          /\ \A t \in Sock : sock[t] # "free" /\ Whole(t) /\ Kept(t) => down'[t] # <<>>
      BY <2>1, <3>1, BroadcastHealth DEF LinkInv, HealthInv
    <3>3. Awaited'
      BY <2>1, <3>2 DEF Awaited, Whole, Kept
    <3>. QED BY <2>2, <3>2, <3>3 DEF HealthInv
  <2>4. CASE "gone" \notin {host, new}
    <3>1. down' = down
      BY <2>1, <2>4
    <3>2. EndComes' /\ Awaited'
      BY <2>1, <2>4, <3>1 DEF HealthInv, EndComes, Awaited, Whole, Kept
    <3>. QED BY <2>2, <3>2 DEF HealthInv
  <2>. QED BY <2>3, <2>4
<1>4. CASE StableFires \/ SessionEnds \/ UNCHANGED vars
  <2>1. UNCHANGED <<silent, linkVars, host, dozed>>
    BY <1>4 DEF StableFires, SessionEnds, vars, pageVars, history
  <2>2. HealthTyped' /\ HungIsDozed'
    BY <2>1 DEF HealthInv, HealthTyped, HungIsDozed, linkVars
  <2>3. EndComes' /\ Awaited'
    BY <2>1 DEF HealthInv, EndComes, Awaited, Whole, Kept, linkVars
  <2>. QED BY <2>2, <2>3 DEF HealthInv
<1>. QED BY <1>1, <1>2, <1>3, <1>4 DEF Next

\* Only the heartbeat closes an open socket, and not that of a healthy link.
LEMMA OnlyBeatCloses ==
    ASSUME LinkInv, Informed, HealthInv, [Next]_vars, NEW s \in Sock,
           sock[s] = "open", sock'[s] = "closing"
    PROVE  ~Whole(s) \/ dozed
<1>1. PICK t \in Sock : HeartBeat(t)
  <2>1. ASSUME NEW t \in Sock, Boot(t) \/ Login(t) \/ ReconnectFires(t) PROVE FALSE
    BY <2>1 DEF Boot, Login, ReconnectFires, Connect, LinkInv, LinksTyped
  <2>2. ASSUME NEW t \in Sock, Opens(t) \/ ConnectFails(t) \/ Deliver(t) \/ Closes(t) PROVE FALSE
    BY <2>2 DEF Opens, ConnectFails, Deliver, Closes, OnClose, LinkInv, LinksTyped
  <2>3. ASSUME NEW t \in Sock, RelayStep(t) \/ NetworkStep(t) PROVE FALSE
    BY <2>3 DEF RelayStep, NetworkStep, Upgrade, PingLands, RelayBeat, RelaySeesClose, RelayDrops,
       Forgotten, LinkCut
  <2>4. ASSUME Leave \/ StableFires \/ SessionEnds \/ UNCHANGED vars
               \/ \E new \in {"gone", "up", "hung"} : HostChanges(new)
        PROVE  FALSE
    BY <2>4 DEF Leave, StableFires, SessionEnds, HostChanges, vars, linkVars
  <2>. QED BY <2>1, <2>2, <2>3, <2>4 DEF Next, PageStep
<1>2. /\ t = s /\ hostOnline /\ Settled(s) /\ MaybeOverdue(AtMost(silent + 1, MaxSilent))
  BY <1>1 DEF HeartBeat, LinkInv, LinksTyped
<1>3. silent > 0
  BY <1>2 DEF MaybeOverdue, AtMost, MaxSilent, HealthInv, HealthTyped
<1>. SUFFICES ASSUME Whole(s), ~dozed PROVE FALSE
  OBVIOUS
<1>4. down[s] = <<>> /\ s \notin pinged
  BY <1>2 DEF Settled
<1>5. Kept(s)
  BY <1>4 DEF HealthInv, EndComes
<1>6. host = "gone"
  BY <1>3, <1>4, <1>5 DEF HealthInv, Awaited
<1>7. Tells(<<>>, hostOnline, host # "gone")
  BY <1>4, <1>5 DEF Informed
<1>8. \A i \in 1..Len(<<>>) : <<>>[i] \notin HostStates
  OBVIOUS
<1>. QED BY <1>2, <1>6, <1>7, <1>8 DEF Tells

\* HealthyKept: the page's heartbeat closes no link that is whole and whose host
\* has not been hung since the page last heard from it (useRemote.ts:639-666).
THEOREM HealthyStay == Spec => HealthyKept
<1>1. Init => Informed /\ HealthInv
  <2>. SUFFICES ASSUME Init PROVE Informed /\ HealthInv
    OBVIOUS
  <2>1. \A s \in Sock : sock[s] = "free"
    BY DEF Init
  <2>2. HealthTyped /\ HungIsDozed
    BY DEF Init, HealthTyped, HungIsDozed
  <2>3. Informed /\ EndComes /\ Awaited
    BY <2>1 DEF Informed, EndComes, Awaited
  <2>. QED BY <2>2, <2>3 DEF HealthInv
<1>2. LinkInv /\ LinkInv' /\ Informed /\ [Next]_vars => Informed'
  BY InformedStep
<1>3. LinkInv /\ HealthInv /\ [Next]_vars => HealthInv'
  BY HealthStep
<1>4. LinkInv /\ Informed /\ HealthInv /\ [Next]_vars =>
          [\A s \in Sock : sock[s] = "open" /\ sock'[s] = "closing" => ~Whole(s) \/ dozed]_vars
  BY OnlyBeatCloses
<1>5. LinkInv /\ [Next]_vars => LinkInv'
  BY LinkStep
<1>. QED BY <1>1, <1>2, <1>3, <1>4, <1>5, LinkInit, PTL DEF Spec, HealthyKept

-----------------------------------------------------------------------------
(***************************************************************************)
(* The tabs of the page.                                                   *)
(***************************************************************************)

\* Every finite set of numbers can be put in order.
LEMMA Ordered ==
    ASSUME NEW S \in SUBSET Nat, IsFiniteSet(S)
    PROVE  /\ InOrder(S) \in [1..Cardinality(S) -> S]
           /\ \A i, j \in 1..Cardinality(S) : i < j => InOrder(S)[i] < InOrder(S)[j]
           /\ \A t \in S : \E i \in 1..Cardinality(S) : InOrder(S)[i] = t
<1>. DEFINE n == Cardinality(S)
            below(t) == {u \in S : u < t}
            rank == [t \in S |-> Cardinality(below(t)) + 1]
<1>0. \A t \in S : t \in Nat
  OBVIOUS
<1>1. n \in Nat /\ IsFiniteSet(1..n) /\ Cardinality(1..n) = n
  BY FS_CardinalityType, FS_Interval
<1>2. ASSUME NEW t \in S PROVE rank[t] \in 1..n
  <2>1. below(t) \in SUBSET S /\ t \notin below(t)
    OBVIOUS
  <2>2. IsFiniteSet(below(t)) /\ Cardinality(below(t)) <= n /\ Cardinality(below(t)) # n
    BY <2>1, FS_Subset
  <2>3. Cardinality(below(t)) \in Nat
    BY <2>2, FS_CardinalityType
  <2>. QED BY <1>1, <2>2, <2>3
<1>3. ASSUME NEW t \in S, NEW u \in S, t < u PROVE rank[t] < rank[u]
  <2>1. below(t) \in SUBSET below(u) /\ t \in below(u) /\ t \notin below(t)
    <3>1. \A v \in S : v < t => v < u
      BY <1>0, <1>3
    <3>2. below(t) \in SUBSET below(u)
      BY <3>1
    <3>3. ~(t < t) /\ t < u
      BY <1>0, <1>3
    <3>. QED BY <3>2, <3>3
  <2>2. IsFiniteSet(below(u)) /\ below(u) \in SUBSET S
    BY FS_Subset
  <2>3. IsFiniteSet(below(t)) /\ Cardinality(below(t)) <= Cardinality(below(u))
        /\ Cardinality(below(t)) # Cardinality(below(u))
    BY <2>1, <2>2, FS_Subset
  <2>4. Cardinality(below(t)) \in Nat /\ Cardinality(below(u)) \in Nat
    BY <2>2, <2>3, FS_CardinalityType
  <2>. QED BY <2>3, <2>4
<1>. HIDE DEF rank
<1>4. rank \in [S -> 1..n]
  BY <1>2 DEF rank
<1>5. rank \in Injection(S, 1..n)
  BY <1>3, <1>4 DEF Injection, IsInjective
<1>6. \A i \in 1..n : \E t \in S : rank[t] = i
  <2>1. rank \in Surjection(S, 1..n)
    BY <1>1, <1>5, FS_Injection
  <2>. QED BY <2>1 DEF Surjection
<1>. DEFINE f == [i \in 1..n |-> CHOOSE t \in S : rank[t] = i]
<1>7. f \in [1..n -> S] /\ \A i \in 1..n : rank[f[i]] = i
  BY <1>6
<1>. HIDE DEF f
<1>8. \A i, j \in 1..n : i < j => f[i] < f[j]
  <2>. SUFFICES ASSUME NEW i \in 1..n, NEW j \in 1..n, i < j, ~(f[i] < f[j]) PROVE FALSE
    OBVIOUS
  <2>1. f[i] \in S /\ f[j] \in S /\ rank[f[i]] = i /\ rank[f[j]] = j
    BY <1>7
  <2>2. f[i] = f[j] \/ f[j] < f[i]
    <3>1. f[i] \in Nat /\ f[j] \in Nat
      BY <1>0, <2>1
    <3>. QED BY <3>1
  <2>3. CASE f[i] = f[j]
    BY <2>1, <2>3
  <2>4. CASE f[j] < f[i]
    <3>1. rank[f[j]] < rank[f[i]]
      BY <1>3, <2>1, <2>4
    <3>. QED BY <2>1, <3>1
  <2>. QED BY <2>2, <2>3, <2>4
<1>. DEFINE g == InOrder(S)
<1>9. g \in [1..n -> S] /\ \A i, j \in 1..n : i < j => g[i] < g[j]
  BY <1>7, <1>8 DEF InOrder
<1>. HIDE DEF g
<1>10. \A i, j \in 1..n : g[i] = g[j] => i = j
  <2>. SUFFICES ASSUME NEW i \in 1..n, NEW j \in 1..n, g[i] = g[j], i # j PROVE FALSE
    OBVIOUS
  <2>1. i < j \/ j < i
    BY <1>1
  <2>3. g[i] \in Nat
    BY <1>0, <1>9
  <2>2. g[i] < g[j] \/ g[j] < g[i]
    BY <1>9, <2>1
  <2>. QED BY <2>2, <2>3
<1>11. g \in Injection(1..n, S)
  BY <1>9, <1>10 DEF Injection, IsInjective
<1>12. \A t \in S : \E i \in 1..n : g[i] = t
  <2>1. g \in Surjection(1..n, S)
    BY <1>1, <1>11, FS_Injection
  <2>. QED BY <2>1 DEF Surjection
<1>. QED BY <1>9, <1>12 DEF g

-----------------------------------------------------------------------------
(* The page's list.                                                         *)

Distinct(list) == \A i, j \in DOMAIN list : list[i].id = list[j].id => i = j
\* Entries of r that stand in list too stand in the same order there.
SameOrder(r, list) ==
    \A i, j \in DOMAIN r : i < j /\ Has(list, r[i].id) /\ Has(list, r[j].id) =>
        \E a, b \in DOMAIN list : a < b /\ list[a].id = r[i].id /\ list[b].id = r[j].id

LEMMA KeptFacts ==
    ASSUME NEW prev \in Seq(Entry), Distinct(prev), NEW ids
    PROVE  /\ StillThere(prev, ids) \in Seq(Entry)
           /\ Distinct(StillThere(prev, ids)) /\ SameOrder(StillThere(prev, ids), prev)
           /\ \A t : Has(StillThere(prev, ids), t) <=> Has(prev, t) /\ t \in ids
<1>. DEFINE S == {i \in DOMAIN prev : prev[i].id \in ids}
            n == Cardinality(S)
            p == InOrder(S)
            k == StillThere(prev, ids)
<1>1. DOMAIN prev = 1..Len(prev) /\ Len(prev) \in Nat /\ \A i \in DOMAIN prev : prev[i] \in Entry
  OBVIOUS
<1>2. S \in SUBSET Nat /\ IsFiniteSet(S) /\ n \in Nat
  <2>1. S \in SUBSET (1..Len(prev)) /\ IsFiniteSet(1..Len(prev))
    BY <1>1, FS_Interval
  <2>2. IsFiniteSet(S)
    BY <2>1, FS_Subset
  <2>. QED BY <1>1, <2>1, <2>2, FS_CardinalityType
<1>3. /\ p \in [1..n -> S] /\ \A i, j \in 1..n : i < j => p[i] < p[j]
      /\ \A t \in S : \E i \in 1..n : p[i] = t
  BY <1>2, Ordered
<1>4. k = [i \in DOMAIN p |-> prev[p[i]]]
  BY DEF StillThere
<1>5. DOMAIN p = 1..n /\ \A i \in 1..n : p[i] \in DOMAIN prev /\ prev[p[i]].id \in ids
  BY <1>3
<1>6. \A i \in DOMAIN prev : prev[i].id \in ids => \E j \in 1..n : p[j] = i
  BY <1>3
<1>. HIDE DEF p, n
<1>7. k \in [1..n -> Entry] /\ \A i \in 1..n : k[i] = prev[p[i]]
  BY <1>1, <1>4, <1>5
<1>. HIDE DEF k, S
<1>8. k \in Seq(Entry) /\ DOMAIN k = 1..n
  BY <1>2, <1>7
<1>9. \A t : Has(k, t) <=> Has(prev, t) /\ t \in ids
  BY <1>5, <1>6, <1>7, <1>8 DEF Has, IdsOf
<1>10. SameOrder(k, prev)
  BY <1>3, <1>5, <1>7, <1>8 DEF SameOrder
<1>11. Distinct(k)
  <2>. SUFFICES ASSUME NEW i \in 1..n, NEW j \in 1..n, k[i].id = k[j].id, i < j PROVE FALSE
    BY <1>2, <1>8 DEF Distinct
  <2>1. p[i] = p[j] /\ p[i] < p[j] /\ p[i] \in 1..Len(prev)
    BY <1>1, <1>3, <1>5, <1>7 DEF Distinct
  <2>. QED BY <1>1, <2>1
<1>. QED BY <1>8, <1>9, <1>10, <1>11 DEF k

ListFrames == [t : {"sessions"}, ids : SUBSET Tab, live : SUBSET Tab]

LEMMA NewcomersFacts ==
    ASSUME NEW prev, NEW f \in ListFrames
    PROVE  \E n \in Nat :
               /\ Newcomers(prev, f) \in [1..n -> f.ids \ IdsOf(prev)]
               /\ \A i, j \in 1..n : Newcomers(prev, f)[i] = Newcomers(prev, f)[j] => i = j
               /\ \A t \in f.ids \ IdsOf(prev) : \E i \in 1..n : Newcomers(prev, f)[i] = t
<1>. DEFINE S == f.ids \ IdsOf(prev)
            n == Cardinality(S)
            new == Newcomers(prev, f)
<1>1. S \in SUBSET Nat /\ IsFiniteSet(S) /\ n \in Nat
  <2>1. S \in SUBSET (1..NTabs) /\ IsFiniteSet(1..NTabs) /\ NTabs \in Nat
    BY TabAssumption, FS_Interval DEF ListFrames, Tab
  <2>2. IsFiniteSet(S)
    BY <2>1, FS_Subset
  <2>. QED BY <2>1, <2>2, FS_CardinalityType
<1>. HIDE DEF S
<1>2. /\ new \in [1..n -> S] /\ \A i, j \in 1..n : i < j => new[i] < new[j]
      /\ \A t \in S : \E i \in 1..n : new[i] = t
  BY <1>1, Ordered DEF Newcomers, S
<1>. HIDE DEF n, new
<1>3. \A i, j \in 1..n : new[i] = new[j] => i = j
  <2>. SUFFICES ASSUME NEW i \in 1..n, NEW j \in 1..n, i < j, new[i] = new[j] PROVE FALSE
    BY <1>1
  <2>1. new[i] \in S /\ new[i] < new[j]
    BY <1>2
  <2>2. new[i] \in Nat
    BY <1>1, <2>1
  <2>. QED BY <2>1, <2>2
<1>. QED BY <1>1, <1>2, <1>3 DEF new, S

LEMMA ItemFacts ==
    ASSUME NEW f, NEW t
    PROVE  Item(t, f).id = t /\ (Item(t, f).alive <=> t \in f.live) /\ (t \in Tab => Item(t, f) \in Entry)
<1>1. Item(t, f).id = t /\ (t \in Tab => Item(t, f) \in Entry)
  BY DEF Item, Entry
<1>2. Item(t, f).alive <=> t \in f.live
  BY Zenon DEF Item
<1>. QED BY <1>1, <1>2

LEMMA ReconcileFacts ==
    ASSUME NEW prev \in Seq(Entry), Distinct(prev), NEW f \in ListFrames
    PROVE  LET r == reconcileOrder(prev, f) IN
           /\ r \in Seq(Entry) /\ Distinct(r) /\ SameOrder(r, prev)
           /\ \A t : Has(r, t) <=> t \in f.ids
           /\ \A i \in DOMAIN r : r[i].alive <=> r[i].id \in f.live
<1>. DEFINE kept == StillThere(prev, f.ids)
            new == Newcomers(prev, f)
            a == [i \in DOMAIN kept |-> Item(kept[i].id, f)]
            b == [i \in DOMAIN new |-> Item(new[i], f)]
            r == reconcileOrder(prev, f)
<1>1. /\ kept \in Seq(Entry) /\ Distinct(kept) /\ SameOrder(kept, prev)
      /\ \A t : Has(kept, t) <=> Has(prev, t) /\ t \in f.ids
  BY KeptFacts
<1>2. PICK n \in Nat :
          /\ new \in [1..n -> f.ids \ IdsOf(prev)]
          /\ \A i, j \in 1..n : new[i] = new[j] => i = j
          /\ \A t \in f.ids \ IdsOf(prev) : \E i \in 1..n : new[i] = t
  BY NewcomersFacts, SMTT(30)
<1>3. r = a \o b
  BY DEF reconcileOrder
<1>. HIDE DEF kept, new, r
<1>m. /\ DOMAIN kept = 1..Len(kept) /\ Len(kept) \in Nat /\ f.ids \subseteq Tab
      /\ \A i \in 1..Len(kept) : kept[i] \in Entry
  BY <1>1 DEF ListFrames
<1>a. a \in [1..Len(kept) -> Entry] /\ \A i \in 1..Len(kept) : a[i] = Item(kept[i].id, f)
  <2>1. \A i \in 1..Len(kept) : Item(kept[i].id, f) \in Entry
    BY <1>m, ItemFacts DEF Entry
  <2>. QED BY <1>m, <2>1
<1>b. b \in [1..n -> Entry] /\ \A i \in 1..n : b[i] = Item(new[i], f)
  <2>1. \A i \in 1..n : Item(new[i], f) \in Entry
    BY <1>2, <1>m, ItemFacts
  <2>. QED BY <1>2, <2>1
<1>. HIDE DEF a, b
<1>4. /\ a \in Seq(Entry) /\ Len(a) = Len(kept)
      /\ \A i \in 1..Len(kept) : a[i].id = kept[i].id /\ (a[i].alive <=> a[i].id \in f.live)
  <2>1. a \in Seq(Entry) /\ Len(a) = Len(kept)
    BY <1>a, <1>m
  <2>. QED BY <1>a, <2>1, ItemFacts
<1>5. /\ b \in Seq(Entry) /\ Len(b) = n
      /\ \A i \in 1..n : b[i].id = new[i] /\ (b[i].alive <=> b[i].id \in f.live)
  <2>1. b \in Seq(Entry) /\ Len(b) = n
    BY <1>b
  <2>. QED BY <1>b, <2>1, ItemFacts
<1>. DEFINE k == Len(kept)
<1>6. /\ r \in Seq(Entry) /\ Len(r) = k + n
      /\ \A i \in 1..k + n : r[i] = IF i <= k THEN a[i] ELSE b[i - k]
  <2>1. /\ a \o b \in Seq(Entry) /\ Len(a \o b) = Len(a) + Len(b)
        /\ \A i \in 1..Len(a) + Len(b) : (a \o b)[i] = IF i <= Len(a) THEN a[i] ELSE b[i - Len(a)]
    BY <1>4, <1>5, ConcatProperties, SMTT(30)
  <2>. QED BY <1>3, <1>4, <1>5, <2>1 DEF k
<1>. HIDE DEF k
<1>7. DOMAIN r = 1..k + n /\ k \in Nat
  BY <1>6, <1>m DEF k
<1>8. \A i \in 1..k + n : /\ i <= k => i \in DOMAIN kept /\ r[i].id = kept[i].id
                          /\ i > k => i - k \in 1..n /\ r[i].id = new[i - k]
                          /\ r[i].alive <=> r[i].id \in f.live
  <2>. TAKE i \in 1..k + n
  <2>1. CASE i <= k
    BY <1>4, <1>6, <1>7, <1>m, <2>1, SMTT(30) DEF k
  <2>2. CASE i > k
    <3>1. i - k \in 1..n /\ r[i] = b[i - k]
      BY <1>6, <1>7, <2>2
    <3>2. b[i - k].id = new[i - k] /\ (b[i - k].alive <=> b[i - k].id \in f.live)
      BY <1>5, <3>1
    <3>. QED BY <1>7, <2>2, <3>1, <3>2
  <2>. QED BY <1>7, <2>1, <2>2
<1>9. \A i \in 1..k + n : Has(prev, r[i].id) <=> i <= k
  <2>1. \A i \in DOMAIN kept : Has(prev, kept[i].id)
    BY <1>1 DEF Has, IdsOf
  <2>2. \A i \in 1..n : ~Has(prev, new[i])
    BY <1>2 DEF Has
  <2>. QED BY <1>7, <1>8, <2>1, <2>2
<1>10. SameOrder(r, prev)
  BY <1>1, <1>7, <1>8, <1>9 DEF SameOrder
<1>11. \A t : Has(r, t) <=> t \in f.ids
  <2>1. ASSUME NEW t, Has(r, t) PROVE t \in f.ids
    <3>1. PICK i \in 1..k + n : r[i].id = t
      BY <1>7, <2>1 DEF Has, IdsOf
    <3>2. CASE i <= k
      BY <1>1, <1>8, <3>1, <3>2 DEF Has, IdsOf
    <3>3. CASE i > k
      BY <1>2, <1>8, <3>1, <3>3
    <3>. QED BY <1>7, <3>2, <3>3
  <2>2. ASSUME NEW t \in f.ids PROVE Has(r, t)
    <3>1. CASE Has(prev, t)
      <4>1. PICK i \in 1..k : kept[i].id = t
        BY <1>1, <1>m, <3>1 DEF Has, IdsOf, k
      <4>2. i \in 1..k + n /\ i <= k
        BY <1>7
      <4>. QED BY <1>7, <1>8, <4>1, <4>2 DEF Has, IdsOf
    <3>2. CASE ~Has(prev, t)
      <4>1. PICK i \in 1..n : new[i] = t
        BY <1>2, <3>2 DEF Has
      <4>2. k + i \in 1..k + n /\ k + i > k /\ (k + i) - k = i
        BY <1>7
      <4>. QED BY <1>7, <1>8, <4>1, <4>2 DEF Has, IdsOf
    <3>. QED BY <3>1, <3>2
  <2>. QED BY <2>1, <2>2
<1>12. Distinct(r)
  <2>. SUFFICES ASSUME NEW i \in 1..k + n, NEW j \in 1..k + n, r[i].id = r[j].id PROVE i = j
    BY <1>7 DEF Distinct
  <2>1. i <= k <=> j <= k
    BY <1>9
  <2>2. CASE i <= k
    BY <1>1, <1>8, <2>1, <2>2 DEF Distinct
  <2>3. CASE i > k
    <3>1. j > k
      BY <1>7, <2>1, <2>3
    <3>2. i - k = j - k
      BY <1>2, <1>8, <2>3, <3>1
    <3>. QED BY <1>7, <3>2
  <2>. QED BY <1>7, <2>2, <2>3
<1>. QED BY <1>6, <1>7, <1>8, <1>10, <1>11, <1>12 DEF r

\* Tab t is shown in list, and as one that is running.
ShownAlive(list, t) == \E i \in DOMAIN list : list[i] = [id |-> t, alive |-> TRUE]

LEMMA SeqDomain ==
    ASSUME NEW S, NEW q \in Seq(S)
    PROVE  DOMAIN q = 1..Len(q) /\ Len(q) \in Nat /\ \A i \in 1..Len(q) : q[i] \in S
  OBVIOUS

LEMMA MarkedFacts ==
    ASSUME NEW list \in Seq(Entry), Distinct(list), NEW t \in Tab, NEW alive \in BOOLEAN
    PROVE  LET m == Marked(list, t, alive) IN
           /\ m \in Seq(Entry) /\ Distinct(m) /\ SameOrder(m, list)
           /\ \A u : Has(m, u) <=> Has(list, u)
           /\ \A u : ShownAlive(m, u) <=> IF u = t THEN Has(list, t) /\ alive = TRUE
                                                   ELSE ShownAlive(list, u)
<1>. DEFINE m == Marked(list, t, alive)
            e == [id |-> t, alive |-> alive]
<1>1. DOMAIN list = 1..Len(list) /\ Len(list) \in Nat /\ \A i \in 1..Len(list) : list[i] \in Entry
  BY SeqDomain
<1>2. e \in Entry /\ e.id = t /\ (e = [id |-> t, alive |-> TRUE] <=> alive = TRUE)
  BY DEF Entry
<1>3. m = [i \in 1..Len(list) |-> IF list[i].id = t THEN e ELSE list[i]]
  BY <1>1 DEF Marked
<1>. HIDE DEF m, e
<1>4. /\ m \in [1..Len(list) -> Entry]
      /\ \A i \in 1..Len(list) : m[i] = IF list[i].id = t THEN e ELSE list[i]
  BY <1>1, <1>2, <1>3
<1>5. m \in Seq(Entry) /\ DOMAIN m = 1..Len(list)
  BY <1>1, <1>4
<1>6. \A i \in 1..Len(list) : m[i].id = list[i].id
  BY <1>2, <1>4
<1>7. Distinct(m) /\ SameOrder(m, list) /\ \A u : Has(m, u) <=> Has(list, u)
  BY <1>1, <1>5, <1>6 DEF Distinct, SameOrder, Has, IdsOf
<1>8. ASSUME NEW u
      PROVE  ShownAlive(m, u) <=> IF u = t THEN Has(list, t) /\ alive = TRUE ELSE ShownAlive(list, u)
  <2>1. CASE u = t
    <3>1. \A i \in 1..Len(list) : m[i] = [id |-> t, alive |-> TRUE] => m[i].id = t
      OBVIOUS
    <3>2. \A i \in 1..Len(list) : m[i] = [id |-> t, alive |-> TRUE] <=> list[i].id = t /\ alive = TRUE
      BY <1>2, <1>4, <1>6, <3>1
    <3>3. Has(list, t) <=> \E i \in 1..Len(list) : list[i].id = t
      BY <1>1 DEF Has, IdsOf
    <3>. QED BY <1>5, <2>1, <3>2, <3>3 DEF ShownAlive
  <2>2. CASE u # t
    <3>1. \A x : x = [id |-> u, alive |-> TRUE] => x.id = u
      OBVIOUS
    <3>2. \A i \in 1..Len(list) : m[i] = [id |-> u, alive |-> TRUE]
                                     <=> list[i] = [id |-> u, alive |-> TRUE]
      BY <1>2, <1>4, <2>2, <3>1
    <3>. QED BY <1>1, <1>5, <2>2, <3>2 DEF ShownAlive
  <2>. QED BY <2>1, <2>2
<1>. QED BY <1>5, <1>7, <1>8 DEF m

LEMMA MovedFacts ==
    ASSUME NEW list \in Seq(Entry), Distinct(list), NEW from \in DOMAIN list, NEW target,
           Has(list, target), list[from].id # target
    PROVE  LET m == Moved(list, from, target) IN
           /\ m \in Seq(Entry) /\ Distinct(m)
           /\ \A u : Has(m, u) <=> Has(list, u)
           /\ \A u : ShownAlive(m, u) <=> ShownAlive(list, u)
<1>. DEFINE n == Len(list)
            before == SubSeq(list, 1, from - 1)
            after == SubSeq(list, from + 1, n)
            rest == before \o after
            to == CHOOSE i \in DOMAIN rest : rest[i].id = target
            left == SubSeq(rest, 1, to - 1)
            right == SubSeq(rest, to, Len(rest))
            m == Moved(list, from, target)
<1>1. /\ DOMAIN list = 1..n /\ n \in Nat /\ \A i \in 1..n : list[i] \in Entry
      /\ from \in 1..n /\ <<list[from]>> \in Seq(Entry)
  BY SeqDomain
<1>2. m = left \o <<list[from]>> \o right
  BY DEF Moved
<1>. HIDE DEF n, m
<1>3. /\ before \in Seq(Entry) /\ Len(before) = from - 1
      /\ \A i \in 1..from - 1 : before[i] = list[i]
  <2>1. \A i \in 1..from - 1 : list[i] \in Entry
    BY <1>1
  <2>2. /\ before \in Seq(Entry) /\ Len(before) = IF 1 <= from - 1 THEN from - 1 - 1 + 1 ELSE 0
        /\ \A i \in 1..from - 1 - 1 + 1 : before[i] = list[1 + i - 1]
    BY <1>1, <2>1, SubSeqProperties
  <2>. HIDE DEF before
  <2>. QED BY <1>1, <2>2
<1>4. /\ after \in Seq(Entry) /\ Len(after) = n - from
      /\ \A i \in 1..n - from : after[i] = list[from + i]
  <2>1. \A i \in from + 1..n : list[i] \in Entry
    BY <1>1
  <2>2. /\ after \in Seq(Entry) /\ Len(after) = IF from + 1 <= n THEN n - (from + 1) + 1 ELSE 0
        /\ \A i \in 1..n - (from + 1) + 1 : after[i] = list[from + 1 + i - 1]
    BY <1>1, <2>1, SubSeqProperties
  <2>. HIDE DEF after
  <2>. QED BY <1>1, <2>2, SMTT(30)
<1>. HIDE DEF before, after
<1>5. /\ rest \in Seq(Entry) /\ Len(rest) = n - 1
      /\ \A i \in 1..n - 1 : rest[i] = IF i < from THEN list[i] ELSE list[i + 1]
  <2>1. /\ rest \in Seq(Entry) /\ Len(rest) = Len(before) + Len(after)
        /\ \A i \in 1..Len(before) + Len(after) :
               rest[i] = IF i <= Len(before) THEN before[i] ELSE after[i - Len(before)]
    BY <1>3, <1>4, ConcatProperties
  <2>. HIDE DEF rest
  <2>2. Len(before) + Len(after) = n - 1 /\ Len(before) = from - 1
    BY <1>1, <1>3, <1>4
  <2>3. \A i \in 1..n - 1 : i < from => i <= from - 1 /\ i \in 1..from - 1
    BY <1>1
  <2>4. \A i \in 1..n - 1 : ~(i < from) => /\ ~(i <= from - 1) /\ i - (from - 1) \in 1..n - from
                                          /\ from + (i - (from - 1)) = i + 1
    BY <1>1
  <2>5. \A i \in 1..n - 1 : rest[i] = IF i <= from - 1 THEN before[i] ELSE after[i - (from - 1)]
    BY <2>1, <2>2
  <2>6. ASSUME NEW i \in 1..n - 1 PROVE rest[i] = IF i < from THEN list[i] ELSE list[i + 1]
    <3>1. CASE i < from
      BY <1>3, <2>3, <2>5, <3>1
    <3>2. CASE ~(i < from)
      <4>1. rest[i] = after[i - (from - 1)]
        BY <2>4, <2>5, <3>2
      <4>. QED BY <1>4, <2>4, <3>2, <4>1
    <3>. QED BY <3>1, <3>2
  <2>. QED BY <2>1, <2>2, <2>6
<1>. HIDE DEF rest
<1>6. to \in 1..n - 1
  <2>1. PICK p \in 1..n : list[p].id = target
    BY <1>1 DEF Has, IdsOf
  <2>2. p # from
    BY <2>1
  <2>3. \E i \in 1..n - 1 : rest[i].id = target
    <3>1. CASE p < from
      BY <1>1, <1>5, <2>1, <3>1
    <3>2. CASE p > from
      <4>1. p - 1 \in 1..n - 1 /\ ~(p - 1 < from) /\ p - 1 + 1 = p
        BY <1>1, <3>2
      <4>. QED BY <1>5, <2>1, <4>1
    <3>. QED BY <1>1, <2>2, <3>1, <3>2
  <2>4. DOMAIN rest = 1..n - 1
    BY <1>1, <1>5
  <2>. QED BY <2>3, <2>4
<1>. HIDE DEF to
<1>7. /\ left \in Seq(Entry) /\ Len(left) = to - 1
      /\ \A i \in 1..to - 1 : left[i] = rest[i]
  <2>1. \A i \in 1..to - 1 : rest[i] \in Entry
    BY <1>1, <1>5, <1>6
  <2>2. /\ left \in Seq(Entry) /\ Len(left) = IF 1 <= to - 1 THEN to - 1 - 1 + 1 ELSE 0
        /\ \A i \in 1..to - 1 - 1 + 1 : left[i] = rest[1 + i - 1]
    BY <1>1, <1>6, <2>1, SubSeqProperties
  <2>. HIDE DEF left
  <2>. QED BY <1>1, <1>6, <2>2
<1>8. /\ right \in Seq(Entry) /\ Len(right) = n - to
      /\ \A i \in 1..n - to : right[i] = rest[to + i - 1]
  <2>1. \A i \in to..n - 1 : rest[i] \in Entry
    BY <1>1, <1>5, <1>6
  <2>2. /\ right \in Seq(Entry) /\ Len(right) = IF to <= n - 1 THEN n - 1 - to + 1 ELSE 0
        /\ \A i \in 1..n - 1 - to + 1 : right[i] = rest[to + i - 1]
    BY <1>1, <1>5, <1>6, <2>1, SubSeqProperties
  <2>. HIDE DEF right
  <2>. QED BY <1>1, <1>6, <2>2
<1>. HIDE DEF left, right
<1>9. /\ m \in Seq(Entry) /\ Len(m) = n
      /\ \A i \in 1..n : m[i] = IF i < to THEN rest[i] ELSE
                                 IF i = to THEN list[from] ELSE rest[i - 1]
  <2>. DEFINE one == <<list[from]>>
              head == left \o one
  <2>1. one \in Seq(Entry) /\ Len(one) = 1 /\ one[1] = list[from]
    BY <1>1
  <2>. HIDE DEF one
  <2>2. /\ head \in Seq(Entry) /\ Len(head) = Len(left) + Len(one)
        /\ \A i \in 1..Len(left) + Len(one) : head[i] = IF i <= Len(left) THEN left[i] ELSE one[i - Len(left)]
    BY <1>7, <2>1, ConcatProperties
  <2>. HIDE DEF head
  <2>3. /\ Len(head) = to /\ \A i \in 1..to : head[i] = IF i < to THEN rest[i] ELSE list[from]
    <3>1. Len(left) + Len(one) = to /\ Len(left) = to - 1 /\ to \in Nat
      BY <1>1, <1>6, <1>7, <2>1
    <3>2. \A i \in 1..to : /\ i < to => i <= to - 1 /\ i \in 1..to - 1
                           /\ ~(i < to) => ~(i <= to - 1) /\ i - (to - 1) = 1
      BY <3>1
    <3>3. \A i \in 1..to : head[i] = IF i <= to - 1 THEN left[i] ELSE one[i - (to - 1)]
      BY <2>2, <3>1
    <3>. QED BY <1>7, <2>1, <2>2, <3>1, <3>2, <3>3
  <2>4. /\ m \in Seq(Entry) /\ Len(m) = Len(head) + Len(right)
        /\ \A i \in 1..Len(head) + Len(right) : m[i] = IF i <= Len(head) THEN head[i] ELSE right[i - Len(head)]
    <3>1. m = head \o right
      BY <1>2 DEF head, one
    <3>2. /\ head \o right \in Seq(Entry) /\ Len(head \o right) = Len(head) + Len(right)
          /\ \A i \in 1..Len(head) + Len(right) :
                 (head \o right)[i] = IF i <= Len(head) THEN head[i] ELSE right[i - Len(head)]
      <4>1. head \in Seq(Entry) /\ right \in Seq(Entry)
        BY <1>8, <2>2
      <4>. QED BY <4>1, ConcatProperties
    <3>. QED BY <3>1, <3>2
  <2>5. Len(head) + Len(right) = n
    BY <1>1, <1>6, <1>8, <2>3
  <2>6. \A i \in 1..n : i > to => i - to \in 1..n - to /\ to + (i - to) - 1 = i - 1
    BY <1>1, <1>6
  <2>7. \A i \in 1..n : i > to => m[i] = rest[i - 1]
    <3>. TAKE i \in 1..n
    <3>. HAVE i > to
    <3>1. m[i] = right[i - to] /\ ~(i <= to)
      BY <1>1, <1>6, <2>3, <2>4, <2>5
    <3>2. right[i - to] = rest[to + (i - to) - 1]
      BY <1>8, <2>6
    <3>. QED BY <2>6, <3>1, <3>2
  <2>8. \A i \in 1..n : ~(i > to) => m[i] = head[i] /\ i \in 1..to
    BY <1>1, <1>6, <2>3, <2>4, <2>5
  <2>9. \A i \in 1..n : m[i] = IF i < to THEN rest[i] ELSE IF i = to THEN list[from] ELSE rest[i - 1]
    BY <1>1, <1>6, <2>3, <2>7, <2>8
  <2>. QED BY <2>4, <2>5, <2>9
<1>. DEFINE g == [i \in 1..n |-> IF i < to THEN (IF i < from THEN i ELSE i + 1) ELSE
                                 IF i = to THEN from ELSE (IF i - 1 < from THEN i - 1 ELSE i)]
            h == [j \in 1..n |-> IF j = from THEN to ELSE
                                 IF j < from THEN (IF j < to THEN j ELSE j + 1)
                                             ELSE (IF j - 1 < to THEN j - 1 ELSE j)]
<1>10. g \in [1..n -> 1..n] /\ h \in [1..n -> 1..n]
  BY <1>1, <1>6
<1>11. \A i \in 1..n : g[h[i]] = i /\ h[g[i]] = i
  <2>1. \A i \in 1..n : g[h[i]] = i
    BY <1>1, <1>6, <1>10
  <2>2. \A i \in 1..n : h[g[i]] = i
    BY <1>1, <1>6, <1>10
  <2>. QED BY <2>1, <2>2
<1>12. \A i \in 1..n : m[i] = list[g[i]]
  <2>. TAKE i \in 1..n
  <2>1. CASE i < to
    <3>1. i \in 1..n - 1 /\ g[i] = IF i < from THEN i ELSE i + 1
      BY <1>1, <1>6, <2>1
    <3>2. m[i] = rest[i]
      BY <1>9, <2>1
    <3>. HIDE DEF g
    <3>. QED BY <1>5, <3>1, <3>2
  <2>2. CASE i = to
    <3>1. g[i] = from /\ m[i] = list[from]
      BY <1>6, <1>9, <1>1, <2>2
    <3>. QED BY <3>1
  <2>3. CASE i > to
    <3>0. i - 1 \in 1..n - 1 /\ (i - 1) + 1 = i /\ ~(i < to) /\ i # to
      BY <1>1, <1>6, <2>3
    <3>1. g[i] = IF i - 1 < from THEN i - 1 ELSE i
      BY <3>0
    <3>2. m[i] = rest[i - 1]
      BY <1>1, <1>6, <1>9, <2>3
    <3>. HIDE DEF g
    <3>. QED BY <1>5, <3>0, <3>1, <3>2
  <2>. QED BY <1>6, <2>1, <2>2, <2>3
<1>. HIDE DEF g, h
<1>13. DOMAIN m = 1..n
  BY <1>1, <1>9
<1>14. \A i \in 1..n : /\ g[i] \in 1..n /\ m[i] = list[g[i]]
                       /\ h[i] \in 1..n /\ list[i] = m[h[i]]
  <2>1. \A i \in 1..n : g[i] \in 1..n /\ h[i] \in 1..n
    BY <1>10
  <2>. QED BY <1>11, <1>12, <2>1
<1>15. Distinct(m)
  <2>. SUFFICES ASSUME NEW i \in 1..n, NEW j \in 1..n, m[i].id = m[j].id PROVE i = j
    BY <1>13 DEF Distinct
  <2>1. g[i] = g[j]
    BY <1>1, <1>14 DEF Distinct
  <2>. QED BY <1>11, <2>1
<1>16. \A u : Has(m, u) <=> Has(list, u)
  <2>1. \A u : Has(m, u) <=> \E i \in 1..n : m[i].id = u
    BY <1>13 DEF Has, IdsOf
  <2>2. \A u : Has(list, u) <=> \E i \in 1..n : list[i].id = u
    BY <1>1 DEF Has, IdsOf
  <2>. QED BY <1>14, <2>1, <2>2
<1>17. \A u : ShownAlive(m, u) <=> ShownAlive(list, u)
  <2>. TAKE u
  <2>. DEFINE e == [id |-> u, alive |-> TRUE]
  <2>1. ShownAlive(m, u) <=> \E i \in 1..n : m[i] = e
    BY <1>13 DEF ShownAlive
  <2>2. ShownAlive(list, u) <=> \E i \in 1..n : list[i] = e
    BY <1>1 DEF ShownAlive
  <2>. HIDE DEF e
  <2>. QED BY <1>14, <2>1, <2>2
<1>. QED BY <1>9, <1>15, <1>16, <1>17 DEF m

-----------------------------------------------------------------------------
(* Types.                                                                   *)

TabFrame ==
    ListFrames \cup [t : {"tabmeta"}, ids : SUBSET Tab] \cup [t : {"exit"}, id : Tab]
        \cup [t : {"attached"}, id : Tab, alive : BOOLEAN]
TableTyped ==
    /\ table \in [Tab -> {"none", "alive", "dead", "gone"}]
    /\ announced \subseteq Tab /\ closing \subseteq Tab /\ frames \in Seq(TabFrame)
ListTyped ==
    /\ sessions \in Seq(Entry) /\ Distinct(sessions)
    /\ shown.sessions \in Seq(Entry) /\ Distinct(shown.sessions)
    /\ activeId \in Tab \cup {NoTab}
    /\ pendingNewIds = NoTab \/ pendingNewIds \in SUBSET Tab
TabsTyped == TableTyped /\ ListTyped

LEMMA FramesTyped ==
    /\ \A t \in Tab : /\ ExitFrame(t) \in TabFrame
                       /\ \A alive \in BOOLEAN : AttachedFrame(t, alive) \in TabFrame
    /\ \A ids \in SUBSET Tab : TabmetaFrame(ids) \in TabFrame
    /\ \A tab : ListFrame(tab) \in ListFrames /\ ListFrame(tab) \in TabFrame
    /\ \A tab : \A known \in SUBSET Tab : Greeting(tab, known) \in Seq(TabFrame)
<1>1. \A t \in Tab : /\ ExitFrame(t) \in TabFrame
                    /\ \A alive \in BOOLEAN : AttachedFrame(t, alive) \in TabFrame
  BY DEF AttachedFrame, ExitFrame, TabFrame
<1>2. \A ids \in SUBSET Tab : TabmetaFrame(ids) \in TabFrame
  BY DEF TabmetaFrame, TabFrame
<1>3. \A tab : ListFrame(tab) \in ListFrames /\ ListFrame(tab) \in TabFrame
  BY DEF ListFrame, Listed, Live, ListFrames, TabFrame
<1>4. \A tab : \A known \in SUBSET Tab : Greeting(tab, known) \in Seq(TabFrame)
  BY <1>2, <1>3 DEF Greeting
<1>. QED BY <1>1, <1>2, <1>3, <1>4

\* Two frames sent together.
LEMMA TwoFrames ==
    ASSUME NEW q \in Seq(TabFrame), NEW a \in TabFrame, NEW b \in TabFrame
    PROVE  q \o <<a, b>> = Append(Append(q, a), b)
<1>. DEFINE two == <<a, b>>
            l == q \o two
            r == Append(Append(q, a), b)
<1>1. two \in Seq(TabFrame) /\ Len(two) = 2 /\ two[1] = a /\ two[2] = b
  OBVIOUS
<1>. HIDE DEF two
<1>2. /\ l \in Seq(TabFrame) /\ Len(l) = Len(q) + Len(two)
      /\ \A i \in 1..Len(q) + Len(two) : l[i] = IF i <= Len(q) THEN q[i] ELSE two[i - Len(q)]
  BY <1>1, ConcatProperties
<1>3. /\ r \in Seq(TabFrame) /\ Len(r) = Len(q) + 2 /\ Len(q) \in Nat
      /\ \A i \in 1..Len(q) : r[i] = q[i]
      /\ r[Len(q) + 1] = a /\ r[Len(q) + 2] = b
  OBVIOUS
<1>. HIDE DEF l, r
<1>4. l[Len(q) + 1] = a /\ l[Len(q) + 2] = b /\ \A i \in 1..Len(q) : l[i] = q[i]
  <2>1. Len(q) + 1 - Len(q) = 1 /\ Len(q) + 2 - Len(q) = 2
    BY <1>3
  <2>2. \A i \in 1..Len(q) + 2 : l[i] = IF i <= Len(q) THEN q[i] ELSE two[i - Len(q)]
    BY <1>1, <1>2
  <2>3. /\ Len(q) + 1 \in 1..Len(q) + 2 /\ ~(Len(q) + 1 <= Len(q))
        /\ Len(q) + 2 \in 1..Len(q) + 2 /\ ~(Len(q) + 2 <= Len(q))
        /\ \A i \in 1..Len(q) : i \in 1..Len(q) + 2 /\ i <= Len(q)
    BY <1>3
  <2>4. l[Len(q) + 1] = two[Len(q) + 1 - Len(q)] /\ l[Len(q) + 2] = two[Len(q) + 2 - Len(q)]
    BY <2>2, <2>3
  <2>5. \A i \in 1..Len(q) : l[i] = q[i]
    BY <2>2, <2>3
  <2>. QED BY <1>1, <2>1, <2>4, <2>5
<1>5. \A i \in 1..Len(l) : l[i] = r[i]
  BY <1>1, <1>2, <1>3, <1>4
<1>6. l = r
  BY <1>1, <1>2, <1>3, <1>5, SeqEqual
<1>. QED BY <1>6 DEF l, r, two

\* What an opened tab does to the table and to the frames.
LEMMA OpenSends ==
    ASSUME TableTyped, NEW t \in Tab, OpensTab(t)
    PROVE  /\ table[t] = "none" /\ table' = [table EXCEPT ![t] = "alive"]
           /\ UNCHANGED <<listVars, announced, closing>>
           /\ \E a, b \in TabFrame :
                  /\ {a, b} = {AttachedFrame(t, TRUE), ListFrame(table')}
                  /\ frames' = Append(Append(frames, a), b)
<1>1. AttachedFrame(t, TRUE) \in TabFrame /\ ListFrame(table') \in TabFrame
  BY FramesTyped
<1>2. \A a, b \in TabFrame : frames \o <<a, b>> = Append(Append(frames, a), b)
  BY TwoFrames DEF TableTyped
<1>3. \/ frames' = Append(Append(frames, AttachedFrame(t, TRUE)), ListFrame(table'))
      \/ frames' = Append(Append(frames, ListFrame(table')), AttachedFrame(t, TRUE))
  BY <1>1, <1>2 DEF OpensTab
<1>4. /\ table[t] = "none" /\ table' = [table EXCEPT ![t] = "alive"]
      /\ UNCHANGED <<listVars, announced, closing>>
  BY DEF OpensTab
<1>5. PICK a \in TabFrame, b \in TabFrame :
          {a, b} = {AttachedFrame(t, TRUE), ListFrame(table')} /\ frames' = Append(Append(frames, a), b)
  BY <1>1, <1>3
<1>. QED BY <1>4, <1>5

LEMMA EntryAlive ==
    ASSUME NEW x \in Entry, NEW u
    PROVE  x = [id |-> u, alive |-> TRUE] <=> x.id = u /\ x.alive
<1>1. x = [id |-> x.id, alive |-> x.alive] /\ x.alive \in BOOLEAN
  BY DEF Entry
<1>2. ASSUME x.id = u, x.alive PROVE x = [id |-> u, alive |-> TRUE]
  <2>1. x.alive = TRUE
    BY <1>1, <1>2
  <2>. QED BY <1>1, <1>2, <2>1
<1>3. ASSUME x = [id |-> u, alive |-> TRUE] PROVE x.id = u /\ x.alive
  <2>1. [id |-> u, alive |-> TRUE].id = u /\ [id |-> u, alive |-> TRUE].alive = TRUE
    OBVIOUS
  <2>. QED BY <1>3, <2>1
<1>. QED BY <1>2, <1>3

\* What a frame does to the list.
LEMMA FrameHandled ==
    ASSUME TabsTyped, handleFrame
    PROVE  LET f == Head(frames) IN
           /\ f \in TabFrame /\ frames' = Tail(frames) /\ frames # <<>>
           /\ sessions' \in Seq(Entry) /\ Distinct(sessions') /\ SameOrder(sessions', sessions)
           /\ UNCHANGED <<table, announced, closing, shown, tabHistory>>
           /\ CASE f.t = "sessions" ->
                     /\ \A u : Has(sessions', u) <=> u \in f.ids
                     /\ \A u : ShownAlive(sessions', u) <=> u \in f.ids \cap f.live
                     /\ IF Fresh(f) # {} THEN activeId' \in Fresh(f) /\ pendingNewIds' = NoTab
                        ELSE activeId' \in StillListed(f) /\ pendingNewIds' = pendingNewIds
                [] f.t = "attached" ->
                     /\ \A u : Has(sessions', u) <=> Has(sessions, u) \/ u = f.id
                     /\ \A u : ShownAlive(sessions', u) <=> IF u = f.id THEN f.alive
                                                             ELSE ShownAlive(sessions, u)
                     /\ activeId' = IF activeId = NoTab THEN f.id ELSE activeId
                     /\ pendingNewIds' = pendingNewIds
                [] f.t = "exit" ->
                     /\ \A u : Has(sessions', u) <=> Has(sessions, u)
                     /\ \A u : ShownAlive(sessions', u) <=> ShownAlive(sessions, u) /\ u # f.id
                     /\ UNCHANGED <<activeId, pendingNewIds>>
                [] OTHER -> UNCHANGED <<sessions, activeId, pendingNewIds>>
<1>. DEFINE f == Head(frames)
<1>1. f \in TabFrame /\ frames' = Tail(frames) /\ frames # <<>>
      /\ UNCHANGED <<table, announced, closing, shown, tabHistory>>
  <2>1. /\ frames # <<>> /\ frames' = Tail(frames) /\ UNCHANGED <<hostVars, tabHistory>>
        /\ OnSessions(f) \/ OnAttached(f) \/ OnExit(f) \/ OnTabmeta(f)
    BY DEF handleFrame
  <2>2. f \in TabFrame
    BY <2>1 DEF TabsTyped, TableTyped
  <2>. HIDE DEF f
  <2>3. shown' = shown
    BY <2>1 DEF OnSessions, OnAttached, OnExit, OnTabmeta
  <2>. QED BY <2>1, <2>2, <2>3 DEF hostVars
<1>2. f.t \in {"sessions", "attached", "exit", "tabmeta"}
  BY <1>1 DEF TabFrame, ListFrames
<1>s. sessions \in Seq(Entry) /\ Distinct(sessions)
  BY DEF TabsTyped, ListTyped
<1>. HIDE DEF f
<1>3. CASE f.t = "sessions"
  <2>1. f \in ListFrames /\ OnSessions(f)
    BY <1>1, <1>3 DEF TabFrame, handleFrame, f
  <2>2. sessions' = reconcileOrder(sessions, f)
    BY <2>1 DEF OnSessions
  <2>3. /\ sessions' \in Seq(Entry) /\ Distinct(sessions') /\ SameOrder(sessions', sessions)
        /\ \A u : Has(sessions', u) <=> u \in f.ids
        /\ \A i \in DOMAIN sessions' : sessions'[i].alive <=> sessions'[i].id \in f.live
    BY <1>s, <2>1, <2>2, ReconcileFacts
  <2>4. \A u : ShownAlive(sessions', u) <=> u \in f.ids \cap f.live
    <3>. TAKE u
    <3>1. \A i \in DOMAIN sessions' : sessions'[i] = [id |-> u, alive |-> TRUE]
                                        <=> sessions'[i].id = u /\ sessions'[i].alive
      <4>1. \A i \in DOMAIN sessions' : sessions'[i] \in Entry
        BY <2>3, SeqDomain
      <4>. QED BY <4>1, EntryAlive
    <3>. QED BY <2>3, <3>1 DEF ShownAlive, Has, IdsOf
  <2>. QED BY <1>1, <1>3, <2>1, <2>3, <2>4 DEF OnSessions, f
<1>4. CASE f.t = "attached"
  <2>1. f.id \in Tab /\ f.alive \in BOOLEAN /\ OnAttached(f)
    BY <1>1, <1>4 DEF TabFrame, ListFrames, handleFrame, f
  <2>2. CASE Has(sessions, f.id)
    <3>1. sessions' = Marked(sessions, f.id, f.alive)
      BY <2>1, <2>2 DEF OnAttached
    <3>2. /\ sessions' \in Seq(Entry) /\ Distinct(sessions') /\ SameOrder(sessions', sessions)
          /\ \A u : Has(sessions', u) <=> Has(sessions, u)
          /\ \A u : ShownAlive(sessions', u) <=> IF u = f.id THEN Has(sessions, f.id) /\ f.alive
                                                            ELSE ShownAlive(sessions, u)
      BY <1>s, <2>1, <3>1, MarkedFacts
    <3>. QED BY <1>1, <1>4, <2>1, <2>2, <3>2 DEF OnAttached, f
  <2>3. CASE ~Has(sessions, f.id)
    <3>1. sessions' = Append(sessions, [id |-> f.id, alive |-> f.alive])
      BY <2>1, <2>3 DEF OnAttached
    <3>. DEFINE e == [id |-> f.id, alive |-> f.alive]
                n == Len(sessions)
    <3>2. e \in Entry /\ e.id = f.id
      BY <2>1 DEF Entry
    <3>3. \A u : e = [id |-> u, alive |-> TRUE] <=> u = f.id /\ f.alive
      BY <3>2, EntryAlive
    <3>. HIDE DEF e
    <3>4. /\ sessions' \in Seq(Entry) /\ DOMAIN sessions' = 1..n + 1 /\ n \in Nat
          /\ DOMAIN sessions = 1..n
          /\ \A i \in 1..n : sessions'[i] = sessions[i] /\ sessions'[n + 1] = e
      BY <1>s, <3>1, <3>2 DEF e
    <3>5. sessions'[n + 1] = e
      BY <1>s, <3>1, <3>2 DEF e
    <3>6. \A i \in 1..n + 1 : i \in 1..n \/ i = n + 1
      BY <3>4
    <3>7. \A i \in 1..n : sessions[i].id # f.id /\ i \in 1..n + 1 /\ i < n + 1 /\ i # n + 1
      BY <2>3, <3>4 DEF Has, IdsOf
    <3>8. n + 1 \in 1..n + 1
      BY <3>4
    <3>. HIDE DEF n
    <3>9. Distinct(sessions')
      BY <1>s, <3>2, <3>4, <3>5, <3>6, <3>7 DEF Distinct
    <3>10. \A u : Has(sessions', u) <=> Has(sessions, u) \/ u = f.id
      BY <3>2, <3>4, <3>5, <3>6, <3>7, <3>8 DEF Has, IdsOf
    <3>11. \A u : ShownAlive(sessions', u) <=> IF u = f.id THEN f.alive ELSE ShownAlive(sessions, u)
      <4>. TAKE u
      <4>. DEFINE x == [id |-> u, alive |-> TRUE]
      <4>1. /\ ShownAlive(sessions', u) <=> \E i \in 1..n + 1 : sessions'[i] = x
            /\ ShownAlive(sessions, u) <=> \E i \in 1..n : sessions[i] = x
        BY <3>4 DEF ShownAlive
      <4>2. e = x <=> u = f.id /\ f.alive
        BY <3>3
      <4>3. u = f.id => \A i \in 1..n : sessions[i] # x
        BY <3>7
      <4>. HIDE DEF x
      <4>. QED BY <3>4, <3>5, <3>6, <3>7, <3>8, <4>1, <4>2, <4>3
    <3>12. SameOrder(sessions', sessions)
      <4>1. ASSUME NEW i \in DOMAIN sessions', NEW j \in DOMAIN sessions', i < j,
                   Has(sessions, sessions'[i].id), Has(sessions, sessions'[j].id)
            PROVE  \E a, b \in DOMAIN sessions : /\ a < b /\ sessions[a].id = sessions'[i].id
                                                 /\ sessions[b].id = sessions'[j].id
        <5>1. i \in 1..n /\ j \in 1..n
          BY <2>3, <3>2, <3>4, <3>5, <3>6, <4>1
        <5>. QED BY <3>4, <4>1, <5>1
      <4>. QED BY <4>1 DEF SameOrder
    <3>. QED BY <1>1, <1>4, <2>1, <3>4, <3>9, <3>10, <3>11, <3>12 DEF OnAttached, f
  <2>. QED BY <2>2, <2>3
<1>5. CASE f.t = "exit"
  <2>1. f.id \in Tab /\ OnExit(f)
    BY <1>1, <1>5 DEF TabFrame, ListFrames, handleFrame, f
  <2>2. sessions' = Marked(sessions, f.id, FALSE)
    BY <2>1 DEF OnExit
  <2>3. /\ sessions' \in Seq(Entry) /\ Distinct(sessions') /\ SameOrder(sessions', sessions)
        /\ \A u : Has(sessions', u) <=> Has(sessions, u)
        /\ \A u : ShownAlive(sessions', u) <=> IF u = f.id THEN FALSE ELSE ShownAlive(sessions, u)
    BY <1>s, <2>1, <2>2, MarkedFacts
  <2>. QED BY <1>1, <1>5, <2>1, <2>3 DEF OnExit, f
<1>6. CASE f.t = "tabmeta"
  <2>1. UNCHANGED <<sessions, activeId, pendingNewIds>>
    BY <1>1, <1>6 DEF handleFrame, OnTabmeta, f
  <2>2. SameOrder(sessions, sessions)
    BY DEF SameOrder, Has, IdsOf
  <2>. QED BY <1>1, <1>6, <1>s, <2>1, <2>2 DEF f
<1>. QED BY <1>2, <1>3, <1>4, <1>5, <1>6 DEF f

\* A close that does not take, and a frame sent again.
LEMMA OneRefused ==
    ASSUME NEW t \in Tab, HostRefuses(t)
    PROVE  /\ UNCHANGED <<announced, listVars, table, due>>
           /\ closing' = closing \ {t} /\ refused' = refused \cup {t}
           /\ frames' = frames \/ frames' = Append(frames, ExitFrame(t))
  BY DEF HostRefuses

LEMMA OneRepeated ==
    ASSUME TabsTyped, HostRepeats
    PROVE  /\ UNCHANGED <<announced, listVars, table, closing, due>>
           /\ \/ \E t \in Tab : /\ t \in Listed(table) /\ refused' = refused \ {t}
                                /\ AttachedFrame(t, table[t] = "alive") \in TabFrame
                                /\ frames' = Append(frames, AttachedFrame(t, table[t] = "alive"))
              \/ frames' = Append(frames, ListFrame(table)) /\ refused' = {}
<1>1. Listed(table) \subseteq Tab /\ \A t \in Tab : AttachedFrame(t, table[t] = "alive") \in TabFrame
  BY FramesTyped DEF Listed
<1>. QED BY <1>1 DEF HostRepeats

\* The steps that change neither the list, nor the host's table, nor a frame.
Quiet ==
    \/ Shortcut \/ cancelClose \/ newTerminal \/ openSshConnection
    \/ SshOpened \/ SshFails \/ PendingExpires \/ UNCHANGED tabsVars
    \/ \E t \in Tab : Select(t) \/ selectWorkspace(WsOf[t]) \/ askClose(t)
Opening == ServesOpen \/ ServesSsh \/ DesktopOpens

AtMostFocus ==
    /\ UNCHANGED <<table, announced, closing, frames, sessions, shown, refused>>
    /\ pendingNewIds' \in {pendingNewIds, NoTab, IdsOf(shown.sessions)}
    /\ \/ activeId' = activeId
       \/ ClickTurn /\ Has(shown.sessions, activeId') /\ pendingNewIds' = pendingNewIds

LEMMA QuietFacts ==
    ASSUME Quiet
    PROVE  AtMostFocus
<1>1. CASE cancelClose \/ newTerminal \/ openSshConnection \/ SshOpened \/ SshFails \/ PendingExpires
           \/ UNCHANGED tabsVars \/ \E t \in Tab : askClose(t)
  BY <1>1 DEF AtMostFocus, cancelClose, newTerminal, openSshConnection, markPendingNew, SshOpened,
     SshFails, PendingExpires, askClose, tabsVars, hostVars, listVars, tabHistory
<1>2. CASE Shortcut
  BY <1>2 DEF AtMostFocus, Shortcut, setActiveId, hostVars, Has, IdsOf
<1>3. CASE \E t \in Tab : Select(t)
  BY <1>3 DEF AtMostFocus, Select, setActiveId, hostVars
<1>4. CASE \E t \in Tab : selectWorkspace(WsOf[t])
  BY <1>4 DEF AtMostFocus, selectWorkspace, setActiveId, hostVars, Has, IdsOf
<1>. QED BY <1>1, <1>2, <1>3, <1>4 DEF Quiet

LEMMA Reordered ==
    ASSUME TabsTyped, reorderTabs
    PROVE  /\ UNCHANGED <<table, announced, closing, frames, shown, activeId, pendingNewIds, due, refused>>
           /\ sessions' \in Seq(Entry) /\ Distinct(sessions')
           /\ \A u : Has(sessions', u) <=> Has(sessions, u)
           /\ \A u : ShownAlive(sessions', u) <=> ShownAlive(sessions, u)
<1>s. /\ sessions \in Seq(Entry) /\ Distinct(sessions)
      /\ shown.sessions \in Seq(Entry) /\ Distinct(shown.sessions)
  BY DEF TabsTyped, ListTyped
<1>1. UNCHANGED <<table, announced, closing, frames, shown, activeId, pendingNewIds, due, refused>>
  BY DEF reorderTabs, hostVars, tabHistory
<1>2. PICK from \in DOMAIN shown.sessions, to \in DOMAIN shown.sessions :
          /\ from # to
          /\ IF Has(sessions, shown.sessions[from].id) /\ Has(sessions, shown.sessions[to].id)
             THEN sessions' = Moved(sessions,
                      CHOOSE k \in DOMAIN sessions : sessions[k].id = shown.sessions[from].id,
                      shown.sessions[to].id)
             ELSE sessions' = sessions
  BY DEF reorderTabs
<1>. DEFINE dragged == shown.sessions[from].id
            target == shown.sessions[to].id
            i == CHOOSE k \in DOMAIN sessions : sessions[k].id = dragged
<1>3. dragged # target
  BY <1>s, <1>2 DEF Distinct
<1>4. CASE Has(sessions, dragged) /\ Has(sessions, target)
  <2>1. i \in DOMAIN sessions /\ sessions[i].id = dragged
    BY <1>4 DEF Has, IdsOf
  <2>2. sessions' = Moved(sessions, i, target)
    BY <1>2, <1>4
  <2>. HIDE DEF i, dragged, target
  <2>. QED BY <1>1, <1>3, <1>4, <1>s, <2>1, <2>2, MovedFacts
<1>5. CASE ~(Has(sessions, dragged) /\ Has(sessions, target))
  BY <1>1, <1>2, <1>5, <1>s
<1>. QED BY <1>4, <1>5

LEMMA ClosedOne ==
    ASSUME TabsTyped, NEW t \in Tab, closeTerminal(t)
    PROVE  /\ UNCHANGED <<table, announced, frames, shown, activeId, pendingNewIds, due, refused>>
           /\ sessions' \in Seq(Entry) /\ Distinct(sessions')
           /\ \A u : Has(sessions', u) <=> Has(sessions, u)
           /\ closing \subseteq closing' /\ closing' \subseteq Tab
           /\ \A u : ShownAlive(sessions', u) => ShownAlive(sessions, u)
           /\ \A u : u \notin closing' => (ShownAlive(sessions', u) <=> ShownAlive(sessions, u))
<1>s. sessions \in Seq(Entry) /\ Distinct(sessions) /\ closing \subseteq Tab
  BY DEF TabsTyped, ListTyped, TableTyped
<1>1. UNCHANGED <<table, announced, frames, shown, activeId, pendingNewIds, due, refused>>
  BY DEF closeTerminal, tabHistory
<1>2. CASE closing' = closing /\ sessions' = sessions
  BY <1>1, <1>2, <1>s
<1>3. CASE closing' = closing \cup {t} /\ sessions' = Marked(sessions, t, FALSE)
  <2>1. /\ sessions' \in Seq(Entry) /\ Distinct(sessions')
        /\ \A u : Has(sessions', u) <=> Has(sessions, u)
        /\ \A u : ShownAlive(sessions', u) <=> IF u = t THEN FALSE ELSE ShownAlive(sessions, u)
    BY <1>3, <1>s, MarkedFacts
  <2>. QED BY <1>1, <1>3, <1>s, <2>1
<1>. QED BY <1>2, <1>3 DEF closeTerminal

\* A shell ends; its close, if one was under way, is done with.
LEMMA OneEnds ==
    ASSUME NEW t \in Tab, ShellEnds(t) \/ HostCloses(t)
    PROVE  /\ UNCHANGED <<announced, listVars>>
           /\ closing \ {t} \subseteq closing' /\ closing' \subseteq closing /\ refused' = refused
           /\ \/ /\ table[t] = "alive" /\ table' = [table EXCEPT ![t] = "dead"]
                 /\ frames' = Append(frames, ExitFrame(t))
                 /\ due' = IF due = t THEN NoTab ELSE due
              \/ table[t] # "alive" /\ UNCHANGED <<table, frames, due>>
<1>1. CASE ShellEnds(t)
  BY <1>1 DEF ShellEnds, Ends
<1>2. CASE HostCloses(t)
  <2>1. CASE table[t] = "alive"
    BY <1>2, <2>1 DEF HostCloses, Ends
  <2>2. CASE table[t] # "alive"
    BY <1>2, <2>2 DEF HostCloses, tabHistory
  <2>. QED BY <2>1, <2>2
<1>. QED BY <1>1, <1>2

LEMMA TypedStep ==
    ASSUME TabsTyped, [TabsNext]_tabsVars
    PROVE  TabsTyped'
<1>t. /\ table \in [Tab -> {"none", "alive", "dead", "gone"}] /\ frames \in Seq(TabFrame)
      /\ announced \subseteq Tab /\ closing \subseteq Tab
  BY DEF TabsTyped, TableTyped
<1>s. \A u : Has(shown.sessions, u) => u \in Tab
  <2>1. \A i \in DOMAIN shown.sessions : shown.sessions[i] \in Entry
    BY SeqDomain DEF TabsTyped, ListTyped
  <2>. QED BY <2>1 DEF Has, IdsOf, Entry
<1>1. CASE Opening
  <2>1. PICK t \in Tab : OpensTab(t)
    BY <1>1 DEF Opening, ServesOpen, ServesSsh, DesktopOpens
  <2>2. PICK a \in TabFrame, b \in TabFrame : frames' = Append(Append(frames, a), b)
    BY <2>1, OpenSends DEF TabsTyped
  <2>3. /\ table' = [table EXCEPT ![t] = "alive"] /\ UNCHANGED <<listVars, announced, closing>>
    BY <2>1, OpenSends DEF TabsTyped
  <2>4. frames' \in Seq(TabFrame)
    BY <1>t, <2>2
  <2>. QED BY <1>t, <2>3, <2>4 DEF TabsTyped, TableTyped, ListTyped, listVars
<1>2. CASE HostAnnounces
  <2>1. announced' \subseteq Tab /\ TabmetaFrame(announced') \in TabFrame
    BY <1>2, FramesTyped DEF HostAnnounces, Listed
  <2>2. frames' \in Seq(TabFrame)
    BY <1>2, <1>t, <2>1 DEF HostAnnounces
  <2>. QED BY <1>2, <2>1, <2>2 DEF HostAnnounces, TabsTyped, TableTyped, ListTyped, listVars
<1>3. CASE LinkLost
  <2>1. frames' \in Seq(TabFrame)
    BY <1>3, <1>t, FramesTyped DEF LinkLost
  <2>. QED BY <1>3, <2>1 DEF LinkLost, TabsTyped, TableTyped, ListTyped, listVars
<1>4. ASSUME NEW t \in Tab, ShellEnds(t) \/ HostCloses(t) PROVE TabsTyped'
  <2>1. frames' \in Seq(TabFrame) /\ table' \in [Tab -> {"none", "alive", "dead", "gone"}]
    <3>1. CASE UNCHANGED <<table, frames>>
      BY <1>t, <3>1
    <3>2. CASE table' = [table EXCEPT ![t] = "dead"] /\ frames' = Append(frames, ExitFrame(t))
      <4>1. ExitFrame(t) \in TabFrame
        BY FramesTyped
      <4>. QED BY <1>t, <3>2, <4>1
    <3>. QED BY <1>4, <3>1, <3>2, OneEnds
  <2>. QED BY <1>4, <2>1, OneEnds DEF TabsTyped, TableTyped, ListTyped, listVars
<1>11. ASSUME NEW t \in Tab, HostRefuses(t) PROVE TabsTyped'
  <2>1. frames' \in Seq(TabFrame)
    <3>1. ExitFrame(t) \in TabFrame
      BY FramesTyped
    <3>. QED BY <1>11, <1>t, <3>1, OneRefused
  <2>. QED BY <1>11, <2>1, OneRefused DEF TabsTyped, TableTyped, ListTyped, listVars
<1>12. CASE HostRepeats
  <2>1. frames' \in Seq(TabFrame)
    <3>1. ListFrame(table) \in TabFrame
      BY FramesTyped
    <3>. QED BY <1>12, <1>t, <3>1, OneRepeated
  <2>. QED BY <1>12, <2>1, OneRepeated DEF TabsTyped, TableTyped, ListTyped, listVars
<1>5. ASSUME NEW t \in Tab, HostDrops(t) PROVE TabsTyped'
  <2>1. frames' \in Seq(TabFrame)
    BY <1>5, <1>t, FramesTyped DEF HostDrops
  <2>. QED BY <1>5, <2>1 DEF HostDrops, TabsTyped, TableTyped, ListTyped, listVars
<1>6. CASE handleFrame
  <2>1. frames' \in Seq(TabFrame)
    BY <1>6, <1>t, FrameHandled, SMTT(30)
  <2>2. activeId' \in Tab \cup {NoTab}
    BY <1>6, FrameHandled DEF TabsTyped, ListTyped, TabFrame, ListFrames, Fresh, StillListed
  <2>3. pendingNewIds' = NoTab \/ pendingNewIds' \in SUBSET Tab
    BY <1>6, FrameHandled DEF TabsTyped, ListTyped
  <2>. QED BY <1>6, <2>1, <2>2, <2>3, FrameHandled DEF TabsTyped, TableTyped, ListTyped
<1>7. CASE Render
  <2>1. shown'.sessions = sessions
    BY <1>7 DEF Render
  <2>. QED BY <1>7, <2>1 DEF Render, hostVars, TabsTyped, TableTyped, ListTyped
<1>8. CASE reorderTabs
  BY <1>8, Reordered DEF TabsTyped, TableTyped, ListTyped
<1>9. ASSUME NEW t \in Tab, closeTerminal(t) PROVE TabsTyped'
  BY <1>9, ClosedOne DEF TabsTyped, TableTyped, ListTyped
<1>10. CASE Quiet
  <2>1. IdsOf(shown.sessions) \in SUBSET Tab
    BY <1>s DEF Has
  <2>. QED BY <1>10, <1>s, <2>1, QuietFacts DEF AtMostFocus, TabsTyped, TableTyped, ListTyped
<1>. QED BY <1>1, <1>2, <1>3, <1>4, <1>5, <1>6, <1>7, <1>8, <1>9, <1>10, <1>11, <1>12
     DEF TabsNext, Host, User, Page, Opening, Quiet

LEMMA TypedInit ==
    ASSUME TabsInit
    PROVE  TabsTyped
<1>1. table \in [Tab -> {"none", "alive", "dead", "gone"}] /\ announced \subseteq Tab
  BY TabAssumption DEF TabsInit, Tab
<1>2. frames \in Seq(TabFrame)
  BY <1>1, FramesTyped DEF TabsInit
<1>3. sessions = <<>> /\ shown.sessions = <<>>
  BY DEF TabsInit
<1>4. Distinct(<<>>) /\ <<>> \in Seq(Entry)
  BY DEF Distinct
<1>. QED BY <1>1, <1>2, <1>3, <1>4 DEF TabsInit, TabsTyped, TableTyped, ListTyped

-----------------------------------------------------------------------------
(* The tab in front, and the order.                                         *)

LEMMA EmptyList ==
    ASSUME NEW list \in Seq(Entry)
    PROVE  list = <<>> <=> \A u : ~Has(list, u)
<1>1. CASE list = <<>>
  BY <1>1 DEF Has, IdsOf
<1>2. CASE list # <<>>
  <2>1. 1 \in DOMAIN list
    BY <1>2
  <2>. QED BY <1>2, <2>1 DEF Has, IdsOf
<1>. QED BY <1>1, <1>2

LEMMA ActiveStep ==
    ASSUME TabsTyped, TabsTyped', PromptRender, ActiveListed, [TabsNext]_tabsVars
    PROVE  ActiveListed'
<1>s. sessions \in Seq(Entry) /\ sessions' \in Seq(Entry)
  BY DEF TabsTyped, ListTyped
<1>e. /\ sessions = <<>> <=> \A u : ~Has(sessions, u)
      /\ sessions' = <<>> <=> \A u : ~Has(sessions', u)
  BY <1>s, EmptyList
<1>1. CASE UNCHANGED <<sessions, activeId>>
  BY <1>1 DEF ActiveListed
<1>2. CASE /\ activeId' = activeId /\ \A u : Has(sessions', u) <=> Has(sessions, u)
  BY <1>2, <1>e DEF ActiveListed
<1>3. CASE handleFrame
  <2>. DEFINE f == Head(frames)
  <2>1. f \in TabFrame /\ f.t \in {"sessions", "attached", "exit", "tabmeta"}
    BY <1>3, FrameHandled DEF TabFrame, ListFrames
  <2>. HIDE DEF f
  <2>2. CASE f.t = "sessions"
    <3>1. /\ \A u : Has(sessions', u) <=> u \in f.ids
          /\ activeId' \in Fresh(f) \/ activeId' \in StillListed(f)
      BY <1>3, <2>2, FrameHandled DEF f
    <3>. QED BY <1>e, <3>1 DEF ActiveListed, Fresh, StillListed
  <2>3. CASE f.t = "attached"
    <3>1. /\ \A u : Has(sessions', u) <=> Has(sessions, u) \/ u = f.id
          /\ activeId' = IF activeId = NoTab THEN f.id ELSE activeId
      BY <1>3, <2>3, FrameHandled DEF f
    <3>. QED BY <1>e, <3>1 DEF ActiveListed
  <2>4. CASE f.t = "exit"
    <3>1. (\A u : Has(sessions', u) <=> Has(sessions, u)) /\ activeId' = activeId
      BY <1>3, <2>4, FrameHandled DEF f
    <3>. QED BY <1>2, <3>1
  <2>5. CASE f.t = "tabmeta"
    <3>1. UNCHANGED <<sessions, activeId>>
      BY <1>3, <2>5, FrameHandled DEF f
    <3>. QED BY <1>1, <3>1
  <2>. QED BY <2>1, <2>2, <2>3, <2>4, <2>5
<1>4. CASE Quiet
  <2>1. sessions' = sessions /\ (activeId' = activeId \/ (ClickTurn /\ Has(shown.sessions, activeId')))
    BY <1>4, QuietFacts DEF AtMostFocus
  <2>2. ClickTurn => shown.sessions = sessions
    BY DEF ClickTurn, Rendered
  <2>. QED BY <1>e, <2>1, <2>2 DEF ActiveListed
<1>5. CASE reorderTabs
  BY <1>2, <1>5, Reordered
<1>6. ASSUME NEW t \in Tab, closeTerminal(t) PROVE ActiveListed'
  BY <1>2, <1>6, ClosedOne
<1>7. CASE Opening \/ HostAnnounces \/ HostRepeats \/ LinkLost \/ Render
           \/ \E t \in Tab : ShellEnds(t) \/ HostCloses(t) \/ HostRefuses(t) \/ HostDrops(t)
  <2>1. UNCHANGED <<sessions, activeId>>
    BY <1>7, OneEnds, OneRefused, OneRepeated DEF Opening, ServesOpen, ServesSsh, DesktopOpens, OpensTab,
       HostAnnounces, LinkLost, HostDrops, Render, listVars
  <2>. QED BY <1>1, <2>1
<1>. QED BY <1>3, <1>4, <1>5, <1>6, <1>7 DEF TabsNext, Host, User, Page, Opening, Quiet

\* ActiveListed: the tab in front is one of the listed ones, and there is one
\* whenever any is listed, if the page renders before the next click
\* (useRemote.ts:526-531, 547, 1081).
THEOREM ActiveIsListed == PromptRender => (TabsSpec => []ActiveListed)
<1>. SUFFICES ASSUME PromptRender PROVE TabsSpec => []ActiveListed
  OBVIOUS
<1>1. TabsInit => TabsTyped /\ ActiveListed
  BY TypedInit DEF TabsInit, ActiveListed
<1>2. TabsTyped /\ [TabsNext]_tabsVars => TabsTyped'
  BY TypedStep
<1>3. TabsTyped /\ TabsTyped' /\ ActiveListed /\ [TabsNext]_tabsVars => ActiveListed'
  BY ActiveStep
<1>. QED BY <1>1, <1>2, <1>3, PTL DEF TabsSpec

LEMMA SamePositions ==
    ASSUME NEW r \in Seq(Entry), Distinct(r), NEW list \in Seq(Entry), Distinct(list), SameOrder(r, list),
           NEW t \in IdsOf(list) \cap IdsOf(r), NEW u \in IdsOf(list) \cap IdsOf(r),
           Position(list, t) < Position(list, u)
    PROVE  Position(r, t) < Position(r, u)
<1>1. DOMAIN list = 1..Len(list) /\ DOMAIN r = 1..Len(r) /\ Len(list) \in Nat /\ Len(r) \in Nat
  BY SeqDomain
<1>2. /\ \A x \in IdsOf(list) : Position(list, x) \in DOMAIN list /\ list[Position(list, x)].id = x
      /\ \A x \in IdsOf(r) : Position(r, x) \in DOMAIN r /\ r[Position(r, x)].id = x
  BY DEF Position, IdsOf
<1>. DEFINE i == Position(r, t)
            j == Position(r, u)
<1>3. i \in DOMAIN r /\ j \in DOMAIN r /\ r[i].id = t /\ r[j].id = u
  BY <1>2
<1>. HIDE DEF i, j
<1>4. i # j
  <2>1. t # u
    BY <1>1, <1>2
  <2>. QED BY <1>3, <2>1
<1>5. ASSUME j < i PROVE FALSE
  <2>1. PICK a \in DOMAIN list, b \in DOMAIN list : a < b /\ list[a].id = u /\ list[b].id = t
    BY <1>3, <1>5 DEF SameOrder, Has
  <2>2. a = Position(list, u) /\ b = Position(list, t)
    BY <1>2, <2>1 DEF Distinct
  <2>. QED BY <1>1, <2>1, <2>2
<1>. QED BY <1>1, <1>3, <1>4, <1>5 DEF i, j

\* OrderKept: no frame reorders the tabs that stay (useRemote.ts:72-86).
THEOREM OrderIsKept == TabsSpec => OrderKept
<1>1. TabsTyped /\ [TabsNext]_tabsVars =>
          [frames' # frames =>
              \A t, u \in IdsOf(sessions) \cap IdsOf(sessions') :
                  Position(sessions, t) < Position(sessions, u)
                      => Position(sessions', t) < Position(sessions', u)]_sessions
  <2>. SUFFICES ASSUME TabsTyped, [TabsNext]_tabsVars, sessions' # sessions, frames' # frames,
                       NEW t \in IdsOf(sessions) \cap IdsOf(sessions'),
                       NEW u \in IdsOf(sessions) \cap IdsOf(sessions'),
                       Position(sessions, t) < Position(sessions, u)
                PROVE  Position(sessions', t) < Position(sessions', u)
    OBVIOUS
  <2>1. CASE handleFrame
    <3>1. sessions' \in Seq(Entry) /\ Distinct(sessions') /\ SameOrder(sessions', sessions)
      BY <2>1, FrameHandled
    <3>2. sessions \in Seq(Entry) /\ Distinct(sessions)
      BY DEF TabsTyped, ListTyped
    <3>. QED BY <3>1, <3>2, SamePositions
  <2>2. ~Quiet /\ ~reorderTabs /\ \A x \in Tab : ~closeTerminal(x)
    BY QuietFacts, Reordered, ClosedOne DEF AtMostFocus
  <2>3. ~(Opening \/ HostAnnounces \/ HostRepeats \/ LinkLost \/ Render)
    BY OneRepeated DEF Opening, ServesOpen, ServesSsh, DesktopOpens, OpensTab, HostAnnounces, LinkLost,
       Render, listVars
  <2>4. \A x \in Tab : ~(ShellEnds(x) \/ HostCloses(x) \/ HostRefuses(x) \/ HostDrops(x))
    BY OneEnds, OneRefused DEF HostDrops, listVars
  <2>. QED BY <2>1, <2>2, <2>3, <2>4 DEF TabsNext, Host, User, Page, Opening, Quiet
<1>2. TabsInit => TabsTyped
  BY TypedInit
<1>3. TabsTyped /\ [TabsNext]_tabsVars => TabsTyped'
  BY TypedStep
<1>. QED BY <1>1, <1>2, <1>3, PTL DEF TabsSpec, OrderKept

-----------------------------------------------------------------------------
(* The list once nothing is under way.                                      *)

\* The last of the places 1..k in A is in B, or now holds and none is in A.
After(k, A, B, now) ==
    \/ \E i \in 1..k : i \in A /\ i \in B /\ \A j \in 1..k : j > i => j \notin A
    \/ now /\ \A i \in 1..k : i \notin A

LEMMA AfterMore ==
    ASSUME NEW k \in Nat, NEW A, NEW B, NEW A2, NEW B2, NEW now \in BOOLEAN,
           \A i \in 1..k : (i \in A <=> i \in A2) /\ (i \in B <=> i \in B2)
    PROVE  After(k + 1, A2, B2, now) <=> IF k + 1 \in A2 THEN k + 1 \in B2 ELSE After(k, A, B, now)
<1>0. /\ \A i \in 1..k + 1 : i \in 1..k \/ i = k + 1
      /\ \A i \in 1..k : i \in 1..k + 1 /\ k + 1 > i /\ i # k + 1
      /\ k + 1 \in 1..k + 1 /\ \A i \in 1..k + 1 : ~(i > k + 1)
  OBVIOUS
<1>1. CASE k + 1 \in A2
  BY <1>0, <1>1 DEF After
<1>2. CASE k + 1 \notin A2
  BY <1>0, <1>2 DEF After
<1>. QED BY <1>1, <1>2

LEMMA AfterLess ==
    ASSUME NEW k \in Nat, NEW A, NEW B, NEW A2, NEW B2, NEW now \in BOOLEAN, NEW now2 \in BOOLEAN,
           \A i \in 1..k : (i \in A2 <=> i + 1 \in A) /\ (i \in B2 <=> i + 1 \in B),
           now2 <=> IF 1 \in A THEN 1 \in B ELSE now
    PROVE  After(k, A2, B2, now2) <=> After(k + 1, A, B, now)
<1>0. /\ \A i \in 1..k + 1 : i = 1 \/ (i - 1 \in 1..k /\ i = (i - 1) + 1 /\ i > 1)
      /\ \A i \in 1..k : i + 1 \in 1..k + 1 /\ i + 1 > 1 /\ i + 1 # 1
      /\ 1 \in 1..k + 1
      /\ \A i, j \in 1..k : i > j <=> i + 1 > j + 1
  OBVIOUS
<1>1. ASSUME NEW i \in 1..k, i \in A2, i \in B2, \A j \in 1..k : j > i => j \notin A2
      PROVE  After(k + 1, A, B, now)
  <2>1. i + 1 \in 1..k + 1 /\ i + 1 \in A /\ i + 1 \in B
    BY <1>0, <1>1
  <2>2. \A j \in 1..k + 1 : j > i + 1 => j \notin A
    BY <1>0, <1>1
  <2>. QED BY <2>1, <2>2 DEF After
<1>2. ASSUME now2, \A i \in 1..k : i \notin A2 PROVE After(k + 1, A, B, now)
  <2>1. \A i \in 1..k + 1 : i = 1 \/ i \notin A
    BY <1>0, <1>2
  <2>. QED BY <1>0, <1>2, <2>1 DEF After
<1>3. ASSUME NEW i \in 1..k + 1, i \in A, i \in B, \A j \in 1..k + 1 : j > i => j \notin A
      PROVE  After(k, A2, B2, now2)
  <2>1. CASE i = 1
    BY <1>0, <1>3, <2>1 DEF After
  <2>2. CASE i # 1
    <3>1. i - 1 \in 1..k /\ i - 1 \in A2 /\ i - 1 \in B2
      BY <1>0, <1>3, <2>2
    <3>2. \A j \in 1..k : j > i - 1 => j \notin A2
      <4>1. \A j \in 1..k : j > i - 1 => j + 1 > i /\ j + 1 \in 1..k + 1
        OBVIOUS
      <4>. QED BY <1>3, <4>1
    <3>. QED BY <3>1, <3>2 DEF After
  <2>. QED BY <2>1, <2>2
<1>4. ASSUME now, \A i \in 1..k + 1 : i \notin A PROVE After(k, A2, B2, now2)
  BY <1>0, <1>4 DEF After
<1>. QED BY <1>1, <1>2, <1>3, <1>4 DEF After

\* What frame f says of tab t: whether it is listed, and whether it runs.
Lists(f, t) == f.t = "sessions" \/ (f.t = "attached" /\ f.id = t)
Puts(f, t) == f.t = "sessions" => t \in f.ids
Speaks(f, t) == Lists(f, t) \/ (f.t = "exit" /\ f.id = t)
Revives(f, t) == (f.t = "attached" /\ f.alive) \/ (f.t = "sessions" /\ t \in f.ids \cap f.live)
\* Whether the page lists t, and as running, when it has handled the frames q.
WillList(q, list, t) ==
    After(Len(q), {i \in DOMAIN q : Lists(q[i], t)}, {i \in DOMAIN q : Puts(q[i], t)}, Has(list, t))
WillLive(q, list, t) ==
    After(Len(q), {i \in DOMAIN q : Speaks(q[i], t)}, {i \in DOMAIN q : Revives(q[i], t)},
          ShownAlive(list, t))
\* The frames under way bring the page's list in line with the host's table.
Current ==
    \A t \in Tab :
        /\ WillList(frames, sessions, t) <=> table[t] \in {"alive", "dead"}
        /\ WillLive(frames, sessions, t) => table[t] = "alive"
        /\ table[t] = "alive" /\ t \notin closing \cup refused => WillLive(frames, sessions, t)

LEMMA WillSent ==
    ASSUME NEW q \in Seq(TabFrame), NEW f \in TabFrame, NEW list, NEW t
    PROVE  /\ WillList(Append(q, f), list, t) <=> IF Lists(f, t) THEN Puts(f, t) ELSE WillList(q, list, t)
           /\ WillLive(Append(q, f), list, t) <=> IF Speaks(f, t) THEN Revives(f, t)
                                                                 ELSE WillLive(q, list, t)
<1>. DEFINE a == Append(q, f)
            n == Len(q)
<1>1. /\ n \in Nat /\ Len(a) = n + 1 /\ DOMAIN a = 1..n + 1 /\ DOMAIN q = 1..n
      /\ a[n + 1] = f /\ \A i \in 1..n : a[i] = q[i]
  OBVIOUS
<1>2. n + 1 \in 1..n + 1 /\ \A i \in 1..n : i \in 1..n + 1
  BY <1>1
<1>3. Has(list, t) \in BOOLEAN /\ ShownAlive(list, t) \in BOOLEAN
  BY DEF Has, ShownAlive
<1>. HIDE DEF a, n
<1>4. WillList(a, list, t) <=> IF Lists(f, t) THEN Puts(f, t) ELSE WillList(q, list, t)
  <2>. DEFINE A == {i \in DOMAIN q : Lists(q[i], t)}
              B == {i \in DOMAIN q : Puts(q[i], t)}
              A2 == {i \in DOMAIN a : Lists(a[i], t)}
              B2 == {i \in DOMAIN a : Puts(a[i], t)}
  <2>1. \A i \in 1..n : (i \in A <=> i \in A2) /\ (i \in B <=> i \in B2)
    BY <1>1, <1>2
  <2>2. (n + 1 \in A2 <=> Lists(f, t)) /\ (n + 1 \in B2 <=> Puts(f, t))
    BY <1>1, <1>2
  <2>. HIDE DEF A, B, A2, B2
  <2>3. After(n + 1, A2, B2, Has(list, t)) <=> IF n + 1 \in A2 THEN n + 1 \in B2
                                                             ELSE After(n, A, B, Has(list, t))
    BY <1>1, <1>3, <2>1, AfterMore
  <2>. QED BY <1>1, <2>2, <2>3 DEF WillList, A, B, A2, B2, n
<1>5. WillLive(a, list, t) <=> IF Speaks(f, t) THEN Revives(f, t) ELSE WillLive(q, list, t)
  <2>. DEFINE A == {i \in DOMAIN q : Speaks(q[i], t)}
              B == {i \in DOMAIN q : Revives(q[i], t)}
              A2 == {i \in DOMAIN a : Speaks(a[i], t)}
              B2 == {i \in DOMAIN a : Revives(a[i], t)}
  <2>1. \A i \in 1..n : (i \in A <=> i \in A2) /\ (i \in B <=> i \in B2)
    BY <1>1, <1>2
  <2>2. (n + 1 \in A2 <=> Speaks(f, t)) /\ (n + 1 \in B2 <=> Revives(f, t))
    BY <1>1, <1>2
  <2>. HIDE DEF A, B, A2, B2
  <2>3. After(n + 1, A2, B2, ShownAlive(list, t)) <=> IF n + 1 \in A2 THEN n + 1 \in B2
                                                                 ELSE After(n, A, B, ShownAlive(list, t))
    BY <1>1, <1>3, <2>1, AfterMore
  <2>. QED BY <1>1, <2>2, <2>3 DEF WillLive, A, B, A2, B2, n
<1>. QED BY <1>4, <1>5 DEF a

LEMMA WillHandled ==
    ASSUME NEW q \in Seq(TabFrame), q # <<>>, NEW list, NEW list2, NEW t
    PROVE  /\ (Has(list2, t) <=> IF Lists(Head(q), t) THEN Puts(Head(q), t) ELSE Has(list, t))
                  => (WillList(Tail(q), list2, t) <=> WillList(q, list, t))
           /\ (ShownAlive(list2, t) <=> IF Speaks(Head(q), t) THEN Revives(Head(q), t)
                                                            ELSE ShownAlive(list, t))
                  => (WillLive(Tail(q), list2, t) <=> WillLive(q, list, t))
<1>. DEFINE a == Tail(q)
            n == Len(a)
            f == Head(q)
<1>1. /\ n \in Nat /\ Len(q) = n + 1 /\ DOMAIN a = 1..n /\ DOMAIN q = 1..n + 1
      /\ f = q[1] /\ \A i \in 1..n : a[i] = q[i + 1]
  OBVIOUS
<1>2. 1 \in 1..n + 1 /\ \A i \in 1..n : i + 1 \in 1..n + 1
  BY <1>1
<1>3. /\ Has(list, t) \in BOOLEAN /\ ShownAlive(list, t) \in BOOLEAN
      /\ Has(list2, t) \in BOOLEAN /\ ShownAlive(list2, t) \in BOOLEAN
  BY DEF Has, ShownAlive
<1>. HIDE DEF a, n, f
<1>4. ASSUME Has(list2, t) <=> IF Lists(f, t) THEN Puts(f, t) ELSE Has(list, t)
      PROVE  WillList(a, list2, t) <=> WillList(q, list, t)
  <2>. DEFINE A == {i \in DOMAIN q : Lists(q[i], t)}
              B == {i \in DOMAIN q : Puts(q[i], t)}
              A2 == {i \in DOMAIN a : Lists(a[i], t)}
              B2 == {i \in DOMAIN a : Puts(a[i], t)}
  <2>1. \A i \in 1..n : (i \in A2 <=> i + 1 \in A) /\ (i \in B2 <=> i + 1 \in B)
    BY <1>1, <1>2
  <2>2. (1 \in A <=> Lists(f, t)) /\ (1 \in B <=> Puts(f, t))
    BY <1>1, <1>2
  <2>. HIDE DEF A, B, A2, B2
  <2>3. After(n, A2, B2, Has(list2, t)) <=> After(n + 1, A, B, Has(list, t))
    BY <1>1, <1>3, <1>4, <2>1, <2>2, AfterLess
  <2>. QED BY <1>1, <2>3 DEF WillList, A, B, A2, B2, n
<1>5. ASSUME ShownAlive(list2, t) <=> IF Speaks(f, t) THEN Revives(f, t) ELSE ShownAlive(list, t)
      PROVE  WillLive(a, list2, t) <=> WillLive(q, list, t)
  <2>. DEFINE A == {i \in DOMAIN q : Speaks(q[i], t)}
              B == {i \in DOMAIN q : Revives(q[i], t)}
              A2 == {i \in DOMAIN a : Speaks(a[i], t)}
              B2 == {i \in DOMAIN a : Revives(a[i], t)}
  <2>1. \A i \in 1..n : (i \in A2 <=> i + 1 \in A) /\ (i \in B2 <=> i + 1 \in B)
    BY <1>1, <1>2
  <2>2. (1 \in A <=> Speaks(f, t)) /\ (1 \in B <=> Revives(f, t))
    BY <1>1, <1>2
  <2>. HIDE DEF A, B, A2, B2
  <2>3. After(n, A2, B2, ShownAlive(list2, t)) <=> After(n + 1, A, B, ShownAlive(list, t))
    BY <1>1, <1>3, <1>5, <2>1, <2>2, AfterLess
  <2>. QED BY <1>1, <2>3 DEF WillLive, A, B, A2, B2, n
<1>. QED BY <1>4, <1>5 DEF a, f

LEMMA WillFollow ==
    ASSUME NEW q, NEW list, NEW list2, NEW t
    PROVE  /\ (Has(list2, t) <=> Has(list, t)) => (WillList(q, list2, t) <=> WillList(q, list, t))
           /\ (ShownAlive(list2, t) => ShownAlive(list, t)) => (WillLive(q, list2, t) => WillLive(q, list, t))
  BY DEF WillList, WillLive, After

\* A frame that lists the table says all of it.
LEMMA ListSays ==
    ASSUME NEW tab, NEW t \in Tab
    PROVE  /\ Lists(ListFrame(tab), t) /\ Speaks(ListFrame(tab), t)
           /\ Puts(ListFrame(tab), t) <=> tab[t] \in {"alive", "dead"}
           /\ Revives(ListFrame(tab), t) <=> tab[t] = "alive"
  BY DEF ListFrame, Lists, Speaks, Puts, Revives, Listed, Live

LEMMA GreetingSays ==
    ASSUME NEW list, NEW t \in Tab, announced \in SUBSET Tab
    PROVE  /\ WillList(Greeting(table, announced), list, t) <=> table[t] \in {"alive", "dead"}
           /\ WillLive(Greeting(table, announced), list, t) <=> table[t] = "alive"
<1>. DEFINE l == ListFrame(table)
            m == TabmetaFrame(announced)
<1>1. l \in TabFrame /\ m \in TabFrame /\ ~Lists(m, t) /\ ~Speaks(m, t)
  BY FramesTyped DEF TabmetaFrame, Lists, Speaks
<1>2. Greeting(table, announced) = Append(Append(<<>>, l), m)
  <2>. HIDE DEF l, m
  <2>1. <<l, m>> = Append(Append(<<>>, l), m)
    OBVIOUS
  <2>. QED BY <2>1 DEF Greeting, l, m
<1>3. /\ Lists(l, t) /\ Speaks(l, t) /\ (Puts(l, t) <=> table[t] \in {"alive", "dead"})
      /\ (Revives(l, t) <=> table[t] = "alive")
  BY ListSays
<1>. HIDE DEF l, m
<1>4. <<>> \in Seq(TabFrame) /\ Append(<<>>, l) \in Seq(TabFrame)
  BY <1>1
<1>5. /\ WillList(Append(<<>>, l), list, t) <=> Puts(l, t)
      /\ WillLive(Append(<<>>, l), list, t) <=> Revives(l, t)
  BY <1>1, <1>3, <1>4, WillSent
<1>. DEFINE q == Append(<<>>, l)
<1>. HIDE DEF q
<1>6. /\ WillList(Append(q, m), list, t) <=> WillList(q, list, t)
      /\ WillLive(Append(q, m), list, t) <=> WillLive(q, list, t)
  <2>1. q \in Seq(TabFrame)
    BY <1>4 DEF q
  <2>. QED BY <2>1, <1>1, WillSent
<1>. QED BY <1>2, <1>3, <1>5, <1>6 DEF q

LEMMA CurrentStep ==
    ASSUME TabsTyped, Current, [TabsNext]_tabsVars
    PROVE  Current'
<1>t. /\ table \in [Tab -> {"none", "alive", "dead", "gone"}] /\ frames \in Seq(TabFrame)
      /\ announced \in SUBSET Tab /\ closing \subseteq Tab
  BY DEF TabsTyped, TableTyped
<1>. SUFFICES ASSUME NEW t \in Tab
              PROVE  /\ WillList(frames', sessions', t) <=> table'[t] \in {"alive", "dead"}
                     /\ WillLive(frames', sessions', t) => table'[t] = "alive"
                     /\ table'[t] = "alive" /\ t \notin closing' \cup refused' => WillLive(frames', sessions', t)
  BY DEF Current
<1>c. /\ WillList(frames, sessions, t) <=> table[t] \in {"alive", "dead"}
      /\ WillLive(frames, sessions, t) => table[t] = "alive"
      /\ table[t] = "alive" /\ t \notin closing \cup refused => WillLive(frames, sessions, t)
  BY DEF Current
<1>1. CASE UNCHANGED <<frames, sessions, table, closing, refused>>
  BY <1>1, <1>c
<1>2. CASE Opening
  <2>1. PICK u \in Tab : OpensTab(u)
    BY <1>2 DEF Opening, ServesOpen, ServesSsh, DesktopOpens
  <2>2. /\ table[u] = "none" /\ table' = [table EXCEPT ![u] = "alive"]
        /\ closing' = closing /\ sessions' = sessions
    BY <2>1, OpenSends DEF TabsTyped, listVars
  <2>3. PICK a \in TabFrame, b \in TabFrame :
            {a, b} = {AttachedFrame(u, TRUE), ListFrame(table')} /\ frames' = Append(Append(frames, a), b)
    BY <2>1, OpenSends DEF TabsTyped
  <2>4. /\ \A f \in TabFrame : f = AttachedFrame(u, TRUE) =>
              /\ Lists(f, t) <=> t = u
              /\ Speaks(f, t) <=> t = u
              /\ Puts(f, t) /\ (t = u => Revives(f, t))
        /\ \A f \in TabFrame : f = ListFrame(table') =>
              /\ Lists(f, t) /\ Speaks(f, t)
              /\ Puts(f, t) <=> table'[t] \in {"alive", "dead"}
              /\ Revives(f, t) <=> table'[t] = "alive"
    BY ListSays DEF AttachedFrame, Lists, Speaks, Puts, Revives
  <2>5. (a = AttachedFrame(u, TRUE) /\ b = ListFrame(table')) \/ (b = AttachedFrame(u, TRUE) /\ a = ListFrame(table'))
    BY <2>3
  <2>6. t = u => table'[t] = "alive"
    BY <1>t, <2>2
  <2>7. Append(frames, a) \in Seq(TabFrame)
    BY <1>t
  <2>8. /\ WillList(frames', sessions, t) <=> table'[t] \in {"alive", "dead"}
        /\ WillLive(frames', sessions, t) <=> table'[t] = "alive"
    BY <1>t, <2>3, <2>4, <2>5, <2>6, <2>7, WillSent
  <2>. QED BY <2>2, <2>8
<1>3. CASE HostAnnounces
  <2>. DEFINE m == TabmetaFrame(announced')
  <2>1. m \in TabFrame /\ ~Lists(m, t) /\ ~Speaks(m, t)
    <3>1. announced' \in SUBSET Tab
      BY <1>3 DEF HostAnnounces, Listed
    <3>. QED BY <3>1, FramesTyped DEF TabmetaFrame, Lists, Speaks
  <2>2. frames' = Append(frames, m) /\ UNCHANGED <<sessions, table, closing, refused>>
    BY <1>3 DEF HostAnnounces, listVars, tabHistory
  <2>. HIDE DEF m
  <2>. QED BY <1>c, <1>t, <2>1, <2>2, WillSent
<1>4. CASE LinkLost
  <2>1. frames' = Greeting(table, announced) /\ UNCHANGED <<sessions, table>>
    BY <1>4 DEF LinkLost, listVars
  <2>. QED BY <1>t, <2>1, GreetingSays
<1>5. ASSUME NEW u \in Tab, ShellEnds(u) \/ HostCloses(u)
      PROVE  /\ WillList(frames', sessions', t) <=> table'[t] \in {"alive", "dead"}
             /\ WillLive(frames', sessions', t) => table'[t] = "alive"
             /\ table'[t] = "alive" /\ t \notin closing' \cup refused' => WillLive(frames', sessions', t)
  <2>1. /\ sessions' = sessions /\ refused' = refused
        /\ closing \ {u} \subseteq closing' /\ closing' \subseteq closing
    BY <1>5, OneEnds DEF listVars
  <2>2. CASE table[u] # "alive" /\ UNCHANGED <<table, frames>>
    BY <1>c, <2>1, <2>2
  <2>3. CASE /\ table[u] = "alive" /\ table' = [table EXCEPT ![u] = "dead"]
             /\ frames' = Append(frames, ExitFrame(u))
    <3>. DEFINE f == ExitFrame(u)
    <3>1. /\ f \in TabFrame /\ ~Lists(f, t) /\ (Speaks(f, t) <=> t = u) /\ ~Revives(f, t)
      BY FramesTyped DEF Lists, Speaks, Revives, ExitFrame
    <3>2. frames' = Append(frames, f)
      BY <2>3
    <3>. HIDE DEF f
    <3>3. /\ WillList(frames', sessions, t) <=> WillList(frames, sessions, t)
          /\ WillLive(frames', sessions, t) <=> t # u /\ WillLive(frames, sessions, t)
      BY <1>t, <3>1, <3>2, WillSent
    <3>. QED BY <1>c, <1>t, <2>1, <2>3, <3>3
  <2>. QED BY <1>5, <2>2, <2>3, OneEnds
<1>6. ASSUME NEW u \in Tab, HostDrops(u)
      PROVE  /\ WillList(frames', sessions', t) <=> table'[t] \in {"alive", "dead"}
             /\ WillLive(frames', sessions', t) <=> table'[t] = "alive"
  <2>1. frames' = Append(frames, ListFrame(table')) /\ sessions' = sessions
    BY <1>6 DEF HostDrops, listVars
  <2>2. ListFrame(table') \in TabFrame
    BY FramesTyped
  <2>. QED BY <1>t, <2>1, <2>2, WillSent, ListSays
<1>11. ASSUME NEW u \in Tab, HostRefuses(u)
       PROVE  /\ WillList(frames', sessions', t) <=> table'[t] \in {"alive", "dead"}
              /\ WillLive(frames', sessions', t) => table'[t] = "alive"
              /\ table'[t] = "alive" /\ t \notin closing' \cup refused' => WillLive(frames', sessions', t)
  <2>1. /\ sessions' = sessions /\ table' = table
        /\ closing' = closing \ {u} /\ refused' = refused \cup {u}
        /\ frames' = frames \/ frames' = Append(frames, ExitFrame(u))
    BY <1>11, OneRefused DEF listVars
  <2>2. CASE frames' = frames
    BY <1>c, <2>1, <2>2
  <2>3. CASE frames' = Append(frames, ExitFrame(u))
    <3>. DEFINE f == ExitFrame(u)
    <3>1. /\ f \in TabFrame /\ ~Lists(f, t) /\ (Speaks(f, t) <=> t = u) /\ ~Revives(f, t)
      BY FramesTyped DEF Lists, Speaks, Revives, ExitFrame
    <3>2. frames' = Append(frames, f)
      BY <2>3
    <3>. HIDE DEF f
    <3>3. /\ WillList(frames', sessions, t) <=> WillList(frames, sessions, t)
          /\ WillLive(frames', sessions, t) <=> t # u /\ WillLive(frames, sessions, t)
      BY <1>t, <3>1, <3>2, WillSent
    <3>. QED BY <1>c, <1>t, <2>1, <2>3, <3>3
  <2>. QED BY <2>1, <2>2, <2>3
<1>12. CASE HostRepeats
  <2>1. UNCHANGED <<sessions, table, closing>>
    BY <1>12, OneRepeated DEF listVars
  <2>2. CASE frames' = Append(frames, ListFrame(table))
    <3>1. ListFrame(table) \in TabFrame
      BY FramesTyped
    <3>. QED BY <1>t, <2>1, <2>2, <3>1, WillSent, ListSays
  <2>3. ASSUME NEW u \in Tab, u \in Listed(table), refused' = refused \ {u},
               AttachedFrame(u, table[u] = "alive") \in TabFrame,
               frames' = Append(frames, AttachedFrame(u, table[u] = "alive"))
        PROVE  /\ WillList(frames', sessions', t) <=> table'[t] \in {"alive", "dead"}
               /\ WillLive(frames', sessions', t) => table'[t] = "alive"
               /\ table'[t] = "alive" /\ t \notin closing' \cup refused' => WillLive(frames', sessions', t)
    <3>. DEFINE f == AttachedFrame(u, table[u] = "alive")
    <3>1. /\ f \in TabFrame /\ (Lists(f, t) <=> t = u) /\ (Speaks(f, t) <=> t = u)
          /\ Puts(f, t) /\ (Revives(f, t) <=> table[u] = "alive")
      BY <2>3 DEF Lists, Speaks, Puts, Revives, AttachedFrame
    <3>2. frames' = Append(frames, f) /\ table[u] \in {"alive", "dead"}
      BY <2>3 DEF Listed
    <3>. HIDE DEF f
    <3>3. /\ WillList(frames', sessions, t) <=> t = u \/ WillList(frames, sessions, t)
          /\ WillLive(frames', sessions, t) <=> IF t = u THEN table[u] = "alive"
                                                         ELSE WillLive(frames, sessions, t)
      BY <1>t, <3>1, <3>2, WillSent
    <3>. QED BY <1>c, <2>1, <2>3, <3>2, <3>3
  <2>. QED BY <1>12, <2>2, <2>3, OneRepeated
<1>7. CASE handleFrame
  <2>. DEFINE f == Head(frames)
  <2>1. /\ f \in TabFrame /\ frames' = Tail(frames) /\ frames # <<>>
        /\ UNCHANGED <<table, closing, refused>>
        /\ f.t \in {"sessions", "attached", "exit", "tabmeta"}
    BY <1>7, FrameHandled DEF TabFrame, ListFrames, tabHistory
  <2>2. /\ Has(sessions', t) <=> IF Lists(f, t) THEN Puts(f, t) ELSE Has(sessions, t)
        /\ ShownAlive(sessions', t) <=> IF Speaks(f, t) THEN Revives(f, t) ELSE ShownAlive(sessions, t)
    <3>. HIDE DEF f
    <3>1. CASE f.t = "sessions"
      <4>1. /\ Has(sessions', t) <=> t \in f.ids
            /\ ShownAlive(sessions', t) <=> t \in f.ids \cap f.live
        BY <1>7, <3>1, FrameHandled DEF f
      <4>. QED BY <3>1, <4>1 DEF Lists, Puts, Speaks, Revives
    <3>2. CASE f.t = "attached"
      <4>1. /\ Has(sessions', t) <=> Has(sessions, t) \/ t = f.id
            /\ ShownAlive(sessions', t) <=> IF t = f.id THEN f.alive ELSE ShownAlive(sessions, t)
        BY <1>7, <3>2, FrameHandled DEF f
      <4>. QED BY <3>2, <4>1 DEF Lists, Puts, Speaks, Revives
    <3>3. CASE f.t = "exit"
      <4>1. /\ Has(sessions', t) <=> Has(sessions, t)
            /\ ShownAlive(sessions', t) <=> ShownAlive(sessions, t) /\ t # f.id
        BY <1>7, <3>3, FrameHandled DEF f
      <4>. QED BY <3>3, <4>1 DEF Lists, Puts, Speaks, Revives
    <3>4. CASE f.t = "tabmeta"
      <4>1. sessions' = sessions
        BY <1>7, <3>4, FrameHandled DEF f
      <4>. QED BY <3>4, <4>1 DEF Lists, Puts, Speaks, Revives
    <3>. QED BY <2>1, <3>1, <3>2, <3>3, <3>4
  <2>3. /\ WillList(frames', sessions', t) <=> WillList(frames, sessions, t)
        /\ WillLive(frames', sessions', t) <=> WillLive(frames, sessions, t)
    BY <1>t, <2>1, <2>2, WillHandled
  <2>. QED BY <1>c, <2>1, <2>3
<1>8. CASE reorderTabs
  <2>1. /\ UNCHANGED <<frames, table, closing, refused>>
        /\ (Has(sessions', t) <=> Has(sessions, t)) /\ (ShownAlive(sessions', t) <=> ShownAlive(sessions, t))
    BY <1>8, Reordered
  <2>. QED BY <1>c, <2>1, WillFollow
<1>9. ASSUME NEW u \in Tab, closeTerminal(u)
      PROVE  /\ WillList(frames', sessions', t) <=> table'[t] \in {"alive", "dead"}
             /\ WillLive(frames', sessions', t) => table'[t] = "alive"
             /\ table'[t] = "alive" /\ t \notin closing' \cup refused' => WillLive(frames', sessions', t)
  <2>1. /\ UNCHANGED <<frames, table, refused>> /\ closing \subseteq closing'
        /\ (Has(sessions', t) <=> Has(sessions, t)) /\ (ShownAlive(sessions', t) => ShownAlive(sessions, t))
        /\ (t \notin closing' => (ShownAlive(sessions', t) <=> ShownAlive(sessions, t)))
    BY <1>9, ClosedOne
  <2>. QED BY <1>c, <2>1, WillFollow
<1>10. CASE Quiet \/ Render
  BY <1>1, <1>10, QuietFacts DEF AtMostFocus, Render, hostVars, tabHistory
<1>. QED BY <1>1, <1>2, <1>3, <1>4, <1>5, <1>6, <1>7, <1>8, <1>9, <1>10, <1>11, <1>12
     DEF TabsNext, Host, User, Page, Opening, Quiet

LEMMA CurrentInit ==
    ASSUME TabsInit
    PROVE  Current
<1>1. frames = Greeting(table, announced) /\ announced \in SUBSET Tab
  BY TabAssumption DEF TabsInit, Tab
<1>. QED BY <1>1, GreetingSays DEF Current

\* ListCurrent: with nothing under way in either direction the page lists the
\* host's tabs, and is wrong about one only if it shows it as ended, its own
\* close of it did not take and the host has sent nothing of it since
\* (useRemote.ts:522, 537, 568, 1039; main.rs:345-347).
THEOREM ListIsCurrent == TabsSpec => []ListCurrent
<1>1. TabsTyped /\ Current => ListCurrent
  <2>. SUFFICES ASSUME TabsTyped, Current, frames = <<>>, closing = {}
                PROVE  /\ IdsOf(sessions) = Listed(table)
                       /\ \A i \in DOMAIN sessions :
                            /\ sessions[i].alive => table[sessions[i].id] = "alive"
                            /\ table[sessions[i].id] = "alive"
                                   => sessions[i].alive \/ sessions[i].id \in refused
    BY DEF ListCurrent
  <2>s. sessions \in Seq(Entry) /\ Distinct(sessions)
    BY DEF TabsTyped, ListTyped
  <2>e. \A i \in DOMAIN sessions : sessions[i] \in Entry
    BY <2>s, SeqDomain
  <2>1. \A t : (WillList(<<>>, sessions, t) <=> Has(sessions, t))
              /\ (WillLive(<<>>, sessions, t) <=> ShownAlive(sessions, t))
    <3>1. Len(<<>>) = 0 /\ \A i \in 1..0 : FALSE
      OBVIOUS
    <3>. QED BY <3>1 DEF WillList, WillLive, After
  <2>2. \A t \in Tab : /\ Has(sessions, t) <=> table[t] \in {"alive", "dead"}
                       /\ ShownAlive(sessions, t) => table[t] = "alive"
                       /\ table[t] = "alive" /\ t \notin refused => ShownAlive(sessions, t)
    BY <2>1 DEF Current
  <2>3. IdsOf(sessions) \subseteq Tab
    BY <2>e DEF IdsOf, Entry
  <2>4. \A i \in DOMAIN sessions : ShownAlive(sessions, sessions[i].id) <=> sessions[i].alive
    <3>1. \A i, j \in DOMAIN sessions : sessions[j] = [id |-> sessions[i].id, alive |-> TRUE]
                                          <=> j = i /\ sessions[i].alive
      BY <2>e, <2>s, EntryAlive DEF Distinct
    <3>. QED BY <3>1 DEF ShownAlive
  <2>5. \A i \in DOMAIN sessions : sessions[i].id \in Tab
    BY <2>e DEF Entry
  <2>. QED BY <2>2, <2>3, <2>4, <2>5 DEF Listed, Has
<1>2. TabsInit => TabsTyped /\ Current
  BY TypedInit, CurrentInit
<1>3. TabsTyped /\ [TabsNext]_tabsVars => TabsTyped'
  BY TypedStep
<1>4. TabsTyped /\ Current /\ [TabsNext]_tabsVars => Current'
  BY CurrentStep
<1>. QED BY <1>1, <1>2, <1>3, <1>4, PTL DEF TabsSpec

-----------------------------------------------------------------------------
(* The tab the page asked for.                                              *)

IsList(f) == f.t = "sessions"
\* What every list among the frames q says, and which tabs the frames name.
AllWithin(q, S) == \A i \in DOMAIN q : IsList(q[i]) => q[i].ids \subseteq S
AllContain(q, t) == \A i \in DOMAIN q : IsList(q[i]) => t \in q[i].ids
NamedBy(f) == CASE f.t = "sessions" -> f.ids [] f.t = "attached" -> {f.id} [] OTHER -> {}
NameOnly(q, S) == \A i \in DOMAIN q : NamedBy(q[i]) \subseteq S
\* Among the tabs that were not there before, t is the first to be listed, it
\* comes alone, and it stays.
Introduces(q, before, t) ==
    \E i \in DOMAIN q :
        /\ IsList(q[i]) /\ q[i].ids \ before = {t}
        /\ \A j \in DOMAIN q : IsList(q[j]) => IF j < i THEN q[j].ids \subseteq before ELSE t \in q[j].ids

OpenedTabs == {t \in Tab : table[t] # "none"}
Known ==
    /\ IdsOf(sessions) \cup IdsOf(shown.sessions) \subseteq OpenedTabs
    /\ pendingNewIds # NoTab => pendingNewIds \subseteq OpenedTabs
    /\ NameOnly(frames, OpenedTabs)
OneWish ==
    /\ opens \in Nat /\ due \in Tab \cup {Asked, NoTab} /\ ssh \in {"idle", "asked", "opened"}
    /\ opens > 0 => ssh = "idle"
    /\ ssh = "asked" => due \notin Tab
\* While the tab is asked for, the page knows all the others; once it is open
\* the lists under way introduce it, or have brought it to the front.
Chosen ==
    /\ due = Asked => /\ pendingNewIds # NoTab
                      /\ Listed(table) \subseteq pendingNewIds /\ AllWithin(frames, pendingNewIds)
    /\ due \in Tab =>
        /\ table[due] = "alive"
        /\ IF pendingNewIds = NoTab THEN activeId = due /\ AllContain(frames, due)
           ELSE Introduces(frames, pendingNewIds, due)

LEMMA ListsSent ==
    ASSUME NEW q \in Seq(TabFrame), NEW f \in TabFrame, NEW S, NEW t
    PROVE  /\ AllWithin(Append(q, f), S) <=> AllWithin(q, S) /\ (IsList(f) => f.ids \subseteq S)
           /\ AllContain(Append(q, f), t) <=> AllContain(q, t) /\ (IsList(f) => t \in f.ids)
           /\ NameOnly(Append(q, f), S) <=> NameOnly(q, S) /\ NamedBy(f) \subseteq S
           /\ Introduces(q, S, t) /\ (IsList(f) => t \in f.ids) => Introduces(Append(q, f), S, t)
           /\ AllWithin(q, S) /\ IsList(f) /\ f.ids \ S = {t} => Introduces(Append(q, f), S, t)
<1>. DEFINE a == Append(q, f)
            n == Len(q)
<1>1. /\ n \in Nat /\ DOMAIN a = 1..n + 1 /\ DOMAIN q = 1..n
      /\ a[n + 1] = f /\ \A i \in 1..n : a[i] = q[i]
  OBVIOUS
<1>2. /\ n + 1 \in 1..n + 1 /\ \A i \in 1..n : i \in 1..n + 1 /\ i < n + 1 /\ ~(n + 1 < i)
      /\ \A i \in 1..n + 1 : (i \in 1..n \/ i = n + 1) /\ ~(n + 1 < i)
  BY <1>1
<1>. HIDE DEF a, n
<1>3. AllWithin(a, S) <=> AllWithin(q, S) /\ (IsList(f) => f.ids \subseteq S)
  BY <1>1, <1>2 DEF AllWithin
<1>4. AllContain(a, t) <=> AllContain(q, t) /\ (IsList(f) => t \in f.ids)
  BY <1>1, <1>2 DEF AllContain
<1>5. NameOnly(a, S) <=> NameOnly(q, S) /\ NamedBy(f) \subseteq S
  BY <1>1, <1>2 DEF NameOnly
<1>6. ASSUME Introduces(q, S, t), IsList(f) => t \in f.ids PROVE Introduces(a, S, t)
  <2>1. PICK i \in 1..n :
            /\ IsList(q[i]) /\ q[i].ids \ S = {t}
            /\ \A j \in 1..n : IsList(q[j]) => IF j < i THEN q[j].ids \subseteq S ELSE t \in q[j].ids
    BY <1>1, <1>6 DEF Introduces
  <2>2. \A j \in 1..n + 1 : IsList(a[j]) => IF j < i THEN a[j].ids \subseteq S ELSE t \in a[j].ids
    BY <1>1, <1>2, <1>6, <2>1
  <2>. QED BY <1>1, <1>2, <2>1, <2>2 DEF Introduces
<1>7. ASSUME AllWithin(q, S), IsList(f), f.ids \ S = {t} PROVE Introduces(a, S, t)
  <2>1. \A j \in 1..n + 1 : IsList(a[j]) => IF j < n + 1 THEN a[j].ids \subseteq S ELSE t \in a[j].ids
    BY <1>1, <1>2, <1>7 DEF AllWithin
  <2>. QED BY <1>1, <1>2, <1>7, <2>1 DEF Introduces
<1>. QED BY <1>3, <1>4, <1>5, <1>6, <1>7 DEF a

LEMMA ListsHandled ==
    ASSUME NEW q \in Seq(TabFrame), q # <<>>, NEW S, NEW t
    PROVE  LET f == Head(q) IN
           /\ AllWithin(q, S) => AllWithin(Tail(q), S) /\ (IsList(f) => f.ids \subseteq S)
           /\ AllContain(q, t) => AllContain(Tail(q), t) /\ (IsList(f) => t \in f.ids)
           /\ NameOnly(q, S) => NameOnly(Tail(q), S) /\ NamedBy(f) \subseteq S
           /\ Introduces(q, S, t) =>
                  \/ IsList(f) /\ f.ids \ S = {t} /\ AllContain(Tail(q), t)
                  \/ (IsList(f) => f.ids \subseteq S) /\ Introduces(Tail(q), S, t)
<1>. DEFINE a == Tail(q)
            n == Len(a)
            f == Head(q)
<1>1. /\ n \in Nat /\ DOMAIN a = 1..n /\ DOMAIN q = 1..n + 1
      /\ f = q[1] /\ \A i \in 1..n : a[i] = q[i + 1]
  OBVIOUS
<1>2. /\ 1 \in 1..n + 1 /\ \A i \in 1..n : i + 1 \in 1..n + 1 /\ ~(i + 1 < 1) /\ i + 1 # 1
      /\ \A i \in 1..n + 1 : i = 1 \/ (i - 1 \in 1..n /\ (i - 1) + 1 = i /\ 1 < i)
  BY <1>1
<1>. HIDE DEF a, n, f
<1>3. AllWithin(q, S) => AllWithin(a, S) /\ (IsList(f) => f.ids \subseteq S)
  BY <1>1, <1>2 DEF AllWithin
<1>4. AllContain(q, t) => AllContain(a, t) /\ (IsList(f) => t \in f.ids)
  BY <1>1, <1>2 DEF AllContain
<1>5. NameOnly(q, S) => NameOnly(a, S) /\ NamedBy(f) \subseteq S
  BY <1>1, <1>2 DEF NameOnly
<1>6. ASSUME Introduces(q, S, t)
      PROVE  \/ IsList(f) /\ f.ids \ S = {t} /\ AllContain(a, t)
             \/ (IsList(f) => f.ids \subseteq S) /\ Introduces(a, S, t)
  <2>1. PICK i \in 1..n + 1 :
            /\ IsList(q[i]) /\ q[i].ids \ S = {t}
            /\ \A j \in 1..n + 1 : IsList(q[j]) => IF j < i THEN q[j].ids \subseteq S ELSE t \in q[j].ids
    BY <1>1, <1>6 DEF Introduces
  <2>2. CASE i = 1
    <3>1. AllContain(a, t)
      BY <1>1, <1>2, <2>1, <2>2 DEF AllContain
    <3>. QED BY <1>1, <2>1, <2>2, <3>1
  <2>3. CASE i # 1
    <3>1. IsList(f) => f.ids \subseteq S
      BY <1>1, <1>2, <2>1, <2>3
    <3>2. IsList(a[i - 1]) /\ a[i - 1].ids \ S = {t} /\ i - 1 \in 1..n
      BY <1>1, <1>2, <2>1, <2>3
    <3>3. \A j \in 1..n : IsList(a[j]) => IF j < i - 1 THEN a[j].ids \subseteq S ELSE t \in a[j].ids
      <4>1. \A j \in 1..n : j < i - 1 <=> j + 1 < i
        OBVIOUS
      <4>. QED BY <1>1, <1>2, <2>1, <4>1
    <3>. QED BY <1>1, <3>1, <3>2, <3>3 DEF Introduces
  <2>. QED BY <2>2, <2>3
<1>. QED BY <1>3, <1>4, <1>5, <1>6 DEF a, f

LEMMA GreetingLists ==
    ASSUME NEW S, NEW t, announced \in SUBSET Tab
    PROVE  LET q == Greeting(table, announced) IN
           /\ AllWithin(q, S) <=> Listed(table) \subseteq S
           /\ AllContain(q, t) <=> t \in Listed(table)
           /\ NameOnly(q, S) <=> Listed(table) \subseteq S
           /\ Listed(table) \ S = {t} => Introduces(q, S, t)
<1>. DEFINE q == Greeting(table, announced)
            l == ListFrame(table)
            m == TabmetaFrame(announced)
<1>1. DOMAIN q = 1..2 /\ q[1] = l /\ q[2] = m
  BY DEF Greeting
<1>2. /\ IsList(l) /\ l.ids = Listed(table) /\ NamedBy(l) = Listed(table)
      /\ ~IsList(m) /\ NamedBy(m) = {}
  BY DEF ListFrame, TabmetaFrame, IsList, NamedBy
<1>3. 1 \in 1..2 /\ 2 \in 1..2 /\ \A i \in 1..2 : i = 1 \/ i = 2
  OBVIOUS
<1>. HIDE DEF q, l, m
<1>4. AllWithin(q, S) <=> Listed(table) \subseteq S
  BY <1>1, <1>2, <1>3 DEF AllWithin
<1>5. AllContain(q, t) <=> t \in Listed(table)
  BY <1>1, <1>2, <1>3 DEF AllContain
<1>6. NameOnly(q, S) <=> Listed(table) \subseteq S
  BY <1>1, <1>2, <1>3 DEF NameOnly
<1>7. Listed(table) \ S = {t} => Introduces(q, S, t)
  <2>1. \A j \in 1..2 : IsList(q[j]) => j = 1
    BY <1>1, <1>2, <1>3
  <2>. QED BY <1>1, <1>2, <1>3, <2>1 DEF Introduces
<1>. QED BY <1>4, <1>5, <1>6, <1>7 DEF q

\* The wish, the requests and the tab in front, in the steps that leave the
\* host's table and the frames alone.
LEMMA WishFacts ==
    ASSUME OneRequest, OneWish, TabsTyped, TabsNext \/ UNCHANGED tabsVars
    PROVE  OneWish'
<1>n. Asked \notin Tab /\ NoTab \notin Tab /\ NoTab # Asked
  BY NoTabAssumption DEF Asked, Tab
<1>1. CASE ServesOpen
  BY <1>1, <1>n DEF ServesOpen, OneWish
<1>2. CASE ServesSsh
  BY <1>2, <1>n DEF ServesSsh, OneWish
<1>3. CASE DesktopOpens
  BY <1>3, <1>n DEF DesktopOpens, OneWish
<1>4. CASE HostAnnounces
  BY <1>4 DEF HostAnnounces, tabHistory, OneWish
<1>5. CASE LinkLost
  BY <1>5, <1>n DEF LinkLost, OneWish
<1>6. ASSUME NEW t \in Tab, ShellEnds(t) \/ HostCloses(t) PROVE OneWish'
  <2>1. UNCHANGED <<opens, ssh>>
    BY <1>6 DEF ShellEnds, HostCloses, Ends
  <2>2. due' \in {due, NoTab}
    BY <1>6, OneEnds
  <2>. QED BY <1>n, <2>1, <2>2 DEF OneWish
<1>7. ASSUME NEW t \in Tab, HostDrops(t) PROVE OneWish'
  BY <1>7 DEF HostDrops, tabHistory, OneWish
<1>8. CASE handleFrame \/ Render
  BY <1>8 DEF handleFrame, Render, hostVars, tabHistory, OneWish
<1>9. CASE reorderTabs \/ cancelClose \/ (\E t \in Tab : askClose(t) \/ closeTerminal(t))
  BY <1>9 DEF reorderTabs, cancelClose, askClose, closeTerminal, hostVars, tabHistory, OneWish
<1>10. ASSUME NEW t, setActiveId(t) PROVE OneWish'
  BY <1>10, <1>n DEF setActiveId, hostVars, OneWish
<1>11. CASE newTerminal
  BY <1>11, <1>n DEF newTerminal, markPendingNew, RequestTurn, OneWish
<1>12. CASE openSshConnection
  BY <1>12, <1>n DEF openSshConnection, markPendingNew, RequestTurn, OneWish
<1>13. CASE SshOpened
  BY <1>13 DEF SshOpened, tabHistory, OneWish
<1>14. CASE SshFails
  BY <1>14, <1>n DEF SshFails, OneWish
<1>15. CASE PendingExpires
  BY <1>15, <1>n DEF PendingExpires, hostVars, OneWish
<1>16. CASE UNCHANGED tabsVars
  BY <1>16 DEF tabsVars, hostVars, tabHistory, OneWish
<1>17. CASE Shortcut \/ (\E t \in Tab : Select(t) \/ selectWorkspace(WsOf[t]))
  BY <1>10, <1>17 DEF Shortcut, Select, selectWorkspace
<1>18. CASE HostRepeats \/ (\E t \in Tab : HostRefuses(t))
  BY <1>18 DEF HostRepeats, HostRefuses, OneWish
<1>. QED BY <1>1, <1>2, <1>3, <1>4, <1>5, <1>6, <1>7, <1>8, <1>9, <1>11, <1>12, <1>13, <1>14, <1>15,
            <1>16, <1>17, <1>18 DEF TabsNext, Host, User, Page

LEMMA KnownStep ==
    ASSUME TabsTyped, Known, [TabsNext]_tabsVars
    PROVE  Known'
<1>t. /\ table \in [Tab -> {"none", "alive", "dead", "gone"}] /\ frames \in Seq(TabFrame)
      /\ announced \in SUBSET Tab
  BY DEF TabsTyped, TableTyped
<1>g. /\ \A q, S, T : NameOnly(q, S) /\ S \subseteq T => NameOnly(q, T)
      /\ Listed(table) \subseteq OpenedTabs /\ Listed(table)' \subseteq OpenedTabs'
      /\ \A tab : NamedBy(ListFrame(tab)) = Listed(tab)
      /\ \A t, alive : NamedBy(AttachedFrame(t, alive)) = {t}
  <2>1. /\ \A tab : NamedBy(ListFrame(tab)) = Listed(tab)
        /\ \A t, alive : NamedBy(AttachedFrame(t, alive)) = {t}
    BY DEF NamedBy, ListFrame, AttachedFrame
  <2>2. Listed(table) \subseteq OpenedTabs /\ Listed(table)' \subseteq OpenedTabs'
    BY DEF Listed, OpenedTabs
  <2>3. \A q, S, T : NameOnly(q, S) /\ S \subseteq T => NameOnly(q, T)
    BY DEF NameOnly
  <2>. QED BY <2>1, <2>2, <2>3
<1>k. /\ IdsOf(sessions) \subseteq OpenedTabs /\ IdsOf(shown.sessions) \subseteq OpenedTabs
      /\ pendingNewIds # NoTab => pendingNewIds \subseteq OpenedTabs
      /\ NameOnly(frames, OpenedTabs)
  BY DEF Known
<1>1. CASE Opening
  <2>1. PICK t \in Tab : OpensTab(t)
    BY <1>1 DEF Opening, ServesOpen, ServesSsh, DesktopOpens
  <2>2. PICK a \in TabFrame, b \in TabFrame :
            {a, b} = {AttachedFrame(t, TRUE), ListFrame(table')} /\ frames' = Append(Append(frames, a), b)
    BY <2>1, OpenSends DEF TabsTyped
  <2>3. table' = [table EXCEPT ![t] = "alive"] /\ UNCHANGED listVars
    BY <2>1, OpenSends DEF TabsTyped
  <2>4. OpenedTabs \subseteq OpenedTabs' /\ t \in OpenedTabs'
    BY <1>t, <2>3 DEF OpenedTabs
  <2>5. NamedBy(a) \subseteq OpenedTabs' /\ NamedBy(b) \subseteq OpenedTabs'
    <3>1. NamedBy(AttachedFrame(t, TRUE)) \subseteq OpenedTabs' /\ NamedBy(ListFrame(table')) \subseteq OpenedTabs'
      <4>1. Listed(table)' = Listed(table')
        BY DEF Listed
      <4>2. NamedBy(AttachedFrame(t, TRUE)) = {t}
        BY DEF NamedBy, AttachedFrame
      <4>. QED BY <1>g, <2>4, <4>1, <4>2
    <3>2. a \in {AttachedFrame(t, TRUE), ListFrame(table')} /\ b \in {AttachedFrame(t, TRUE), ListFrame(table')}
      BY <2>2
    <3>. QED BY <3>1, <3>2
  <2>6. NameOnly(frames', OpenedTabs')
    <3>1. Append(frames, a) \in Seq(TabFrame)
      BY <1>t
    <3>2. NameOnly(frames, OpenedTabs')
      BY <1>g, <1>k, <2>4
    <3>. QED BY <1>t, <2>2, <2>5, <3>1, <3>2, ListsSent
  <2>. QED BY <1>k, <2>3, <2>4, <2>6 DEF Known, listVars
<1>2. CASE HostAnnounces
  <2>1. TabmetaFrame(announced') \in TabFrame /\ NamedBy(TabmetaFrame(announced')) = {}
    <3>1. announced' \in SUBSET Tab
      BY <1>2 DEF HostAnnounces, Listed
    <3>. QED BY <3>1, FramesTyped DEF TabmetaFrame, NamedBy
  <2>2. frames' = Append(frames, TabmetaFrame(announced')) /\ UNCHANGED <<table, listVars>>
    BY <1>2 DEF HostAnnounces
  <2>3. OpenedTabs' = OpenedTabs
    BY <2>2 DEF OpenedTabs
  <2>4. NameOnly(frames', OpenedTabs)
    BY <1>k, <1>t, <2>1, <2>2, ListsSent
  <2>. QED BY <1>k, <2>2, <2>3, <2>4 DEF Known, listVars
<1>3. CASE LinkLost
  <2>1. frames' = Greeting(table, announced) /\ UNCHANGED <<table, listVars>>
    BY <1>3 DEF LinkLost
  <2>2. OpenedTabs' = OpenedTabs
    BY <2>1 DEF OpenedTabs
  <2>3. NameOnly(frames', OpenedTabs)
    BY <1>g, <1>t, <2>1, GreetingLists
  <2>. QED BY <1>k, <2>1, <2>2, <2>3 DEF Known, listVars
<1>4. ASSUME NEW t \in Tab, ShellEnds(t) \/ HostCloses(t) PROVE Known'
  <2>1. UNCHANGED listVars
    BY <1>4, OneEnds
  <2>2. CASE UNCHANGED <<table, frames>>
    <3>1. OpenedTabs' = OpenedTabs
      BY <2>2 DEF OpenedTabs
    <3>. QED BY <1>k, <2>1, <2>2, <3>1 DEF Known, listVars
  <2>3. CASE table' = [table EXCEPT ![t] = "dead"] /\ frames' = Append(frames, ExitFrame(t))
             /\ table[t] = "alive"
    <3>1. OpenedTabs' = OpenedTabs
      BY <1>t, <2>3 DEF OpenedTabs
    <3>2. ExitFrame(t) \in TabFrame /\ NamedBy(ExitFrame(t)) = {}
      BY FramesTyped DEF NamedBy, ExitFrame
    <3>3. NameOnly(frames', OpenedTabs)
      BY <1>k, <1>t, <2>3, <3>2, ListsSent
    <3>. QED BY <1>k, <2>1, <3>1, <3>3 DEF Known, listVars
  <2>. QED BY <1>4, <2>2, <2>3, OneEnds
<1>5. ASSUME NEW t \in Tab, HostDrops(t) PROVE Known'
  <2>1. /\ frames' = Append(frames, ListFrame(table')) /\ UNCHANGED listVars
        /\ table[t] = "dead" /\ table' = [table EXCEPT ![t] = "gone"]
    BY <1>5 DEF HostDrops
  <2>2. OpenedTabs' = OpenedTabs
    BY <1>t, <2>1 DEF OpenedTabs
  <2>3. ListFrame(table') \in TabFrame /\ NamedBy(ListFrame(table')) \subseteq OpenedTabs
    <3>1. Listed(table)' = Listed(table')
      BY DEF Listed
    <3>. QED BY <1>g, <2>2, <3>1, FramesTyped
  <2>4. NameOnly(frames', OpenedTabs)
    BY <1>k, <1>t, <2>1, <2>3, ListsSent
  <2>. QED BY <1>k, <2>1, <2>2, <2>4 DEF Known, listVars
<1>6. CASE handleFrame
  <2>. DEFINE f == Head(frames)
  <2>1. /\ frames # <<>> /\ frames' = Tail(frames) /\ UNCHANGED <<table, shown>>
    BY <1>6, FrameHandled
  <2>2. NameOnly(frames', OpenedTabs) /\ NamedBy(f) \subseteq OpenedTabs
    BY <1>k, <1>t, <2>1, ListsHandled
  <2>3. OpenedTabs' = OpenedTabs
    BY <2>1 DEF OpenedTabs
  <2>4. pendingNewIds' \in {pendingNewIds, NoTab}
    BY <1>6, FrameHandled
  <2>5. \A u : Has(sessions', u) => Has(sessions, u) \/ u \in NamedBy(f)
    <3>. HIDE DEF f
    <3>1. f.t \in {"sessions", "attached", "exit", "tabmeta"}
      BY <1>6, FrameHandled DEF TabFrame, ListFrames, f
    <3>2. CASE f.t = "sessions"
      <4>1. \A u : Has(sessions', u) <=> u \in f.ids
        BY <1>6, <3>2, FrameHandled DEF f
      <4>. QED BY <3>2, <4>1 DEF NamedBy
    <3>3. CASE f.t = "attached"
      <4>1. \A u : Has(sessions', u) <=> Has(sessions, u) \/ u = f.id
        BY <1>6, <3>3, FrameHandled DEF f
      <4>. QED BY <3>3, <4>1 DEF NamedBy
    <3>4. CASE f.t = "exit"
      <4>. QED BY <1>6, <3>4, FrameHandled DEF f
    <3>5. CASE f.t = "tabmeta"
      <4>. QED BY <1>6, <3>5, FrameHandled DEF f
    <3>. QED BY <3>1, <3>2, <3>3, <3>4, <3>5
  <2>6. IdsOf(sessions') \subseteq OpenedTabs
    BY <1>k, <2>2, <2>5 DEF Has
  <2>. QED BY <1>k, <2>1, <2>2, <2>3, <2>4, <2>6 DEF Known
<1>7. CASE Render
  <2>1. shown'.sessions = sessions /\ UNCHANGED <<table, frames, sessions, pendingNewIds>>
    BY <1>7 DEF Render, hostVars
  <2>2. OpenedTabs' = OpenedTabs
    BY <2>1 DEF OpenedTabs
  <2>. QED BY <1>k, <2>1, <2>2 DEF Known
<1>8. ASSUME UNCHANGED <<table, frames, shown, pendingNewIds>>,
             \A u : Has(sessions', u) <=> Has(sessions, u)
      PROVE  Known'
  <2>1. OpenedTabs' = OpenedTabs
    BY <1>8 DEF OpenedTabs
  <2>2. IdsOf(sessions') \subseteq OpenedTabs
    BY <1>8, <1>k DEF Has
  <2>. QED BY <1>8, <1>k, <2>1, <2>2 DEF Known
<1>9. CASE reorderTabs
  BY <1>8, <1>9, Reordered
<1>10. ASSUME NEW t \in Tab, closeTerminal(t) PROVE Known'
  BY <1>8, <1>10, ClosedOne
<1>11. CASE Quiet
  <2>1. OpenedTabs' = OpenedTabs
    BY <1>11, QuietFacts DEF AtMostFocus, OpenedTabs
  <2>. QED BY <1>11, <1>k, <2>1, QuietFacts DEF AtMostFocus, Known
<1>12. ASSUME UNCHANGED <<table, listVars>>,
              frames' = frames \/ \E f \in TabFrame : /\ frames' = Append(frames, f)
                                                     /\ NamedBy(f) \subseteq OpenedTabs
       PROVE  Known'
  <2>1. OpenedTabs' = OpenedTabs
    BY <1>12 DEF OpenedTabs
  <2>2. ASSUME NEW f \in TabFrame, frames' = Append(frames, f), NamedBy(f) \subseteq OpenedTabs
        PROVE  NameOnly(frames', OpenedTabs)
    BY <1>k, <1>t, <2>2, ListsSent
  <2>3. NameOnly(frames', OpenedTabs)
    BY <1>12, <1>k, <2>2
  <2>. QED BY <1>12, <1>k, <2>1, <2>3 DEF Known, listVars
<1>13. ASSUME NEW t \in Tab, HostRefuses(t) PROVE Known'
  <2>1. ExitFrame(t) \in TabFrame /\ NamedBy(ExitFrame(t)) \subseteq OpenedTabs
    BY FramesTyped DEF NamedBy, ExitFrame
  <2>. QED BY <1>12, <1>13, <2>1, OneRefused
<1>14. CASE HostRepeats
  <2>1. ListFrame(table) \in TabFrame /\ NamedBy(ListFrame(table)) \subseteq OpenedTabs
    BY <1>g, FramesTyped
  <2>2. \A t \in Listed(table) : NamedBy(AttachedFrame(t, table[t] = "alive")) \subseteq OpenedTabs
    BY <1>g
  <2>. QED BY <1>12, <1>14, <2>1, <2>2, OneRepeated
<1>. QED BY <1>1, <1>2, <1>3, <1>4, <1>5, <1>6, <1>7, <1>9, <1>10, <1>11, <1>13, <1>14
     DEF TabsNext, Host, User, Page, Opening, Quiet

LEMMA ChosenStep ==
    ASSUME OneRequest, TabsTyped, Known, OneWish, Chosen, [TabsNext]_tabsVars
    PROVE  Chosen'
<1>n. Asked \notin Tab /\ NoTab \notin Tab /\ NoTab # Asked /\ \A S \in SUBSET Tab : S # NoTab
  BY NoTabAssumption DEF Asked, Tab
<1>t. /\ table \in [Tab -> {"none", "alive", "dead", "gone"}] /\ frames \in Seq(TabFrame)
      /\ announced \in SUBSET Tab
  BY DEF TabsTyped, TableTyped
<1>a. due = Asked => /\ pendingNewIds # NoTab
                     /\ Listed(table) \subseteq pendingNewIds /\ AllWithin(frames, pendingNewIds)
  BY DEF Chosen
<1>b. ASSUME due \in Tab
      PROVE  /\ table[due] = "alive" /\ due \in Listed(table)
             /\ IF pendingNewIds = NoTab THEN activeId = due /\ AllContain(frames, due)
                ELSE Introduces(frames, pendingNewIds, due)
  BY <1>b DEF Chosen, Listed
<1>l. \A tab : IsList(ListFrame(tab)) /\ ListFrame(tab).ids = Listed(tab) /\ ListFrame(tab) \in TabFrame
  BY FramesTyped DEF IsList, ListFrame
<1>1. CASE Opening
  <2>1. PICK u \in Tab : OpensTab(u) /\ due' \in {IF due = Asked THEN u ELSE due, IF due = Asked THEN NoTab ELSE due}
    BY <1>1 DEF Opening, ServesOpen, ServesSsh, DesktopOpens
  <2>2. PICK a \in TabFrame, b \in TabFrame :
            {a, b} = {AttachedFrame(u, TRUE), ListFrame(table')} /\ frames' = Append(Append(frames, a), b)
    BY <2>1, OpenSends DEF TabsTyped
  <2>3. table[u] = "none" /\ table' = [table EXCEPT ![u] = "alive"] /\ UNCHANGED <<activeId, pendingNewIds>>
    BY <2>1, OpenSends DEF TabsTyped, listVars
  <2>4. Listed(table') = Listed(table) \cup {u}
    BY <1>t, <2>3 DEF Listed
  <2>5. ~IsList(AttachedFrame(u, TRUE))
    BY DEF IsList, AttachedFrame
  <2>6. Append(frames, a) \in Seq(TabFrame)
    BY <1>t
  <2>7. due' # Asked
    BY <1>n, <2>1
  <2>8. ASSUME due' \in Tab, due \in Tab, due' = due PROVE Chosen'
    <3>1. table'[due] = "alive"
      BY <1>b, <1>t, <2>3, <2>8
    <3>2. due \in Listed(table')
      BY <1>b, <2>4, <2>8
    <3>3. (IsList(a) => due \in a.ids) /\ (IsList(b) => due \in b.ids)
      <4>1. a \in {AttachedFrame(u, TRUE), ListFrame(table')} /\ b \in {AttachedFrame(u, TRUE), ListFrame(table')}
        BY <2>2
      <4>. QED BY <1>l, <2>5, <3>2, <4>1
    <3>4. AllContain(frames, due) => AllContain(frames', due)
      BY <1>t, <2>2, <2>6, <3>3, ListsSent
    <3>5. Introduces(frames, pendingNewIds, due) => Introduces(frames', pendingNewIds, due)
      BY <1>t, <2>2, <2>6, <3>3, ListsSent
    <3>. QED BY <1>b, <2>3, <2>7, <2>8, <3>1, <3>4, <3>5 DEF Chosen
  <2>9. ASSUME due = Asked, due' = u PROVE Chosen'
    <3>1. u \notin pendingNewIds
      BY <1>a, <2>3, <2>9 DEF Known, OpenedTabs
    <3>2. Listed(table') \ pendingNewIds = {u}
      BY <1>a, <2>4, <2>9, <3>1
    <3>3. Introduces(frames', pendingNewIds, u)
      <4>1. CASE a = AttachedFrame(u, TRUE) /\ b = ListFrame(table')
        <5>1. AllWithin(Append(frames, a), pendingNewIds)
          BY <1>a, <1>t, <2>5, <2>9, <4>1, ListsSent
        <5>. QED BY <1>l, <2>2, <2>6, <3>2, <4>1, <5>1, ListsSent
      <4>2. CASE b = AttachedFrame(u, TRUE) /\ a = ListFrame(table')
        <5>1. Introduces(Append(frames, a), pendingNewIds, u)
          BY <1>a, <1>l, <1>t, <2>9, <3>2, <4>2, ListsSent
        <5>. QED BY <2>2, <2>5, <2>6, <4>2, <5>1, ListsSent
      <4>3. (a = AttachedFrame(u, TRUE) /\ b = ListFrame(table')) \/ (b = AttachedFrame(u, TRUE) /\ a = ListFrame(table'))
        BY <2>2
      <4>. QED BY <4>1, <4>2, <4>3
    <3>4. table'[u] = "alive"
      BY <1>t, <2>3
    <3>. QED BY <1>a, <2>3, <2>7, <2>9, <3>3, <3>4 DEF Chosen
  <2>10. ASSUME due' \notin Tab PROVE Chosen'
    BY <2>7, <2>10 DEF Chosen
  <2>. QED BY <1>n, <2>1, <2>8, <2>9, <2>10 DEF OneWish
<1>2. CASE HostAnnounces
  <2>1. TabmetaFrame(announced') \in TabFrame /\ ~IsList(TabmetaFrame(announced'))
    <3>1. announced' \in SUBSET Tab
      BY <1>2 DEF HostAnnounces, Listed
    <3>. QED BY <3>1, FramesTyped DEF TabmetaFrame, IsList
  <2>2. /\ frames' = Append(frames, TabmetaFrame(announced'))
        /\ UNCHANGED <<table, activeId, pendingNewIds, due>>
    BY <1>2 DEF HostAnnounces, listVars, tabHistory
  <2>3. /\ AllWithin(frames, pendingNewIds) => AllWithin(frames', pendingNewIds)
        /\ AllContain(frames, due) => AllContain(frames', due)
        /\ Introduces(frames, pendingNewIds, due) => Introduces(frames', pendingNewIds, due)
    BY <1>t, <2>1, <2>2, ListsSent
  <2>. QED BY <1>a, <1>b, <2>2, <2>3 DEF Chosen
<1>3. CASE LinkLost
  <2>1. /\ frames' = Greeting(table, announced) /\ UNCHANGED <<table, activeId, pendingNewIds>>
        /\ due' = IF pendingNewIds # NoTab /\ Listed(table) \ pendingNewIds # {due} THEN NoTab ELSE due
    BY <1>3 DEF LinkLost, listVars
  <2>2. due' # Asked
    BY <1>a, <1>n, <2>1
  <2>3. ASSUME due' \in Tab PROVE Chosen'
    <3>1. due' = due /\ (pendingNewIds # NoTab => Listed(table) \ pendingNewIds = {due})
      BY <1>n, <2>1, <2>3
    <3>2. /\ due \in Listed(table) => AllContain(frames', due)
          /\ Listed(table) \ pendingNewIds = {due} => Introduces(frames', pendingNewIds, due)
      BY <1>t, <2>1, GreetingLists
    <3>. QED BY <1>b, <2>1, <2>2, <2>3, <3>1, <3>2 DEF Chosen
  <2>. QED BY <2>2, <2>3 DEF Chosen
<1>4. ASSUME NEW u \in Tab, ShellEnds(u) \/ HostCloses(u) PROVE Chosen'
  <2>1. UNCHANGED <<activeId, pendingNewIds>>
    BY <1>4, OneEnds DEF listVars
  <2>2. CASE UNCHANGED <<table, frames, due>>
    BY <2>1, <2>2 DEF Chosen
  <2>3. CASE /\ table[u] = "alive" /\ table' = [table EXCEPT ![u] = "dead"]
             /\ frames' = Append(frames, ExitFrame(u))
             /\ due' = IF due = u THEN NoTab ELSE due
    <3>1. ExitFrame(u) \in TabFrame /\ ~IsList(ExitFrame(u))
      BY FramesTyped DEF IsList, ExitFrame
    <3>2. /\ AllWithin(frames, pendingNewIds) => AllWithin(frames', pendingNewIds)
          /\ AllContain(frames, due) => AllContain(frames', due)
          /\ Introduces(frames, pendingNewIds, due) => Introduces(frames', pendingNewIds, due)
      BY <1>t, <2>3, <3>1, ListsSent
    <3>3. Listed(table') = Listed(table)
      BY <1>t, <2>3 DEF Listed
    <3>4. due # u /\ due \in Tab => table'[due] = table[due]
      BY <1>t, <2>3
    <3>5. due' # NoTab => due' = due /\ due # u
      BY <2>3
    <3>. QED BY <1>a, <1>b, <1>n, <2>1, <3>2, <3>3, <3>4, <3>5 DEF Chosen
  <2>. QED BY <1>4, <2>2, <2>3, OneEnds
<1>5. ASSUME NEW u \in Tab, HostDrops(u) PROVE Chosen'
  <2>1. /\ frames' = Append(frames, ListFrame(table')) /\ UNCHANGED <<activeId, pendingNewIds, due>>
        /\ table[u] = "dead" /\ table' = [table EXCEPT ![u] = "gone"]
    BY <1>5 DEF HostDrops, listVars, tabHistory
  <2>2. Listed(table') = Listed(table) \ {u}
    BY <1>t, <2>1 DEF Listed
  <2>3. due \in Tab => table'[due] = "alive" /\ due \in Listed(table')
    BY <1>b, <1>t, <2>1, <2>2
  <2>4. /\ AllWithin(frames, pendingNewIds) /\ Listed(table') \subseteq pendingNewIds
              => AllWithin(frames', pendingNewIds)
        /\ AllContain(frames, due) /\ due \in Listed(table') => AllContain(frames', due)
        /\ Introduces(frames, pendingNewIds, due) /\ due \in Listed(table')
              => Introduces(frames', pendingNewIds, due)
    BY <1>l, <1>t, <2>1, ListsSent
  <2>. QED BY <1>a, <1>b, <2>1, <2>2, <2>3, <2>4 DEF Chosen
<1>6. CASE handleFrame
  <2>. DEFINE f == Head(frames)
  <2>1. /\ f \in TabFrame /\ frames # <<>> /\ frames' = Tail(frames) /\ UNCHANGED <<table, due>>
    BY <1>6, FrameHandled DEF tabHistory
  <2>2. /\ IsList(f) => IF Fresh(f) # {} THEN activeId' \in Fresh(f) /\ pendingNewIds' = NoTab
                        ELSE activeId' \in StillListed(f) /\ pendingNewIds' = pendingNewIds
        /\ ~IsList(f) => pendingNewIds' = pendingNewIds /\ (activeId # NoTab => activeId' = activeId)
    <3>. HIDE DEF f
    <3>1. CASE f.t = "sessions"
      BY <1>6, <3>1, FrameHandled DEF f, IsList
    <3>2. CASE f.t = "attached"
      <4>1. activeId' = (IF activeId = NoTab THEN f.id ELSE activeId) /\ pendingNewIds' = pendingNewIds
        BY <1>6, <3>2, FrameHandled DEF f
      <4>. QED BY <3>2, <4>1 DEF IsList
    <3>3. CASE f.t = "exit"
      <4>1. UNCHANGED <<activeId, pendingNewIds>>
        BY <1>6, <3>3, FrameHandled DEF f
      <4>. QED BY <3>3, <4>1 DEF IsList
    <3>4. CASE f.t = "tabmeta"
      <4>1. UNCHANGED <<activeId, pendingNewIds>>
        BY <1>6, <3>4, FrameHandled DEF f
      <4>. QED BY <3>4, <4>1 DEF IsList
    <3>. QED BY <2>1, <3>1, <3>2, <3>3, <3>4 DEF TabFrame, ListFrames, f
  <2>3. /\ AllWithin(frames, pendingNewIds)
              => AllWithin(frames', pendingNewIds) /\ (IsList(f) => f.ids \subseteq pendingNewIds)
        /\ AllContain(frames, due) => AllContain(frames', due) /\ (IsList(f) => due \in f.ids)
        /\ Introduces(frames, pendingNewIds, due) =>
              \/ IsList(f) /\ f.ids \ pendingNewIds = {due} /\ AllContain(frames', due)
              \/ (IsList(f) => f.ids \subseteq pendingNewIds) /\ Introduces(frames', pendingNewIds, due)
    BY <1>t, <2>1, ListsHandled
  <2>. HIDE DEF f
  <2>4. CASE due = Asked
    <3>1. IsList(f) => Fresh(f) = {}
      BY <1>a, <2>3, <2>4 DEF Fresh
    <3>2. pendingNewIds' = pendingNewIds
      BY <2>2, <3>1
    <3>. QED BY <1>a, <1>n, <2>1, <2>3, <2>4, <3>2 DEF Chosen
  <2>5. CASE due \in Tab /\ pendingNewIds = NoTab
    <3>1. Fresh(f) = {} /\ activeId = due
      BY <1>b, <2>5 DEF Fresh
    <3>2. IsList(f) => activeId' = due /\ pendingNewIds' = NoTab
      BY <1>b, <2>2, <2>3, <2>5, <3>1 DEF StillListed
    <3>3. ~IsList(f) => activeId' = due /\ pendingNewIds' = NoTab
      BY <1>n, <2>2, <2>5, <3>1
    <3>. QED BY <1>b, <1>n, <2>1, <2>3, <2>5, <3>2, <3>3 DEF Chosen
  <2>6. CASE due \in Tab /\ pendingNewIds # NoTab
    <3>1. CASE IsList(f) /\ f.ids \ pendingNewIds = {due} /\ AllContain(frames', due)
      <4>1. Fresh(f) = {due}
        BY <2>6, <3>1 DEF Fresh
      <4>2. activeId' = due /\ pendingNewIds' = NoTab
        BY <2>2, <3>1, <4>1
      <4>. QED BY <1>b, <1>n, <2>1, <2>6, <3>1, <4>2 DEF Chosen
    <3>2. CASE (IsList(f) => f.ids \subseteq pendingNewIds) /\ Introduces(frames', pendingNewIds, due)
      <4>1. IsList(f) => Fresh(f) = {}
        BY <3>2 DEF Fresh
      <4>2. pendingNewIds' = pendingNewIds
        BY <2>2, <4>1
      <4>. QED BY <1>b, <1>n, <2>1, <2>6, <3>2, <4>2 DEF Chosen
    <3>. QED BY <1>b, <2>3, <2>6, <3>1, <3>2
  <2>7. CASE due \notin Tab /\ due # Asked
    BY <2>1, <2>7 DEF Chosen
  <2>. QED BY <2>4, <2>5, <2>6, <2>7
<1>7. CASE UNCHANGED <<table, frames, activeId, pendingNewIds, due>>
  BY <1>7 DEF Chosen
<1>8. ASSUME NEW t \in Tab, setActiveId(t) PROVE Chosen'
  <2>1. UNCHANGED <<table, frames, pendingNewIds>> /\ activeId' = t /\ due' = IF t = due THEN due ELSE NoTab
    BY <1>8 DEF setActiveId, hostVars
  <2>. QED BY <1>b, <1>n, <2>1 DEF Chosen
<1>s. \A i \in DOMAIN shown.sessions : shown.sessions[i].id \in Tab
  <2>1. \A i \in DOMAIN shown.sessions : shown.sessions[i] \in Entry
    BY SeqDomain DEF TabsTyped, ListTyped
  <2>. QED BY <2>1 DEF Entry
<1>9. CASE newTerminal \/ openSshConnection
  <2>1. /\ UNCHANGED <<table, frames>> /\ pendingNewIds' = IdsOf(shown.sessions)
        /\ due' = IF Listed(table) \cup Underway \subseteq pendingNewIds' THEN Asked ELSE NoTab
    BY <1>9 DEF newTerminal, openSshConnection, markPendingNew
  <2>2. pendingNewIds' \in SUBSET Tab
    BY <1>s, <2>1 DEF IdsOf
  <2>3. Underway \subseteq pendingNewIds' => AllWithin(frames, pendingNewIds')
    BY DEF Underway, AllWithin, IsList
  <2>. QED BY <1>n, <2>1, <2>2, <2>3 DEF Chosen
<1>10. CASE SshFails
  <2>1. due \notin Tab /\ opens = 0
    BY <1>10 DEF SshFails, OneWish
  <2>2. due' \notin Tab /\ due' # Asked
    BY <1>10, <1>n, <2>1 DEF SshFails
  <2>. QED BY <2>2 DEF Chosen
<1>11. CASE PendingExpires
  BY <1>11, <1>n DEF PendingExpires, Chosen
<1>12. CASE Shortcut \/ (\E t \in Tab : Select(t) \/ selectWorkspace(WsOf[t]))
  <2>1. CASE Shortcut
    BY <1>8, <1>s, <2>1 DEF Shortcut
  <2>2. ASSUME NEW t \in Tab, Select(t) \/ selectWorkspace(WsOf[t]) PROVE Chosen'
    BY <1>8, <1>s, <2>2 DEF Select, selectWorkspace
  <2>. QED BY <1>12, <2>1, <2>2
<1>13. CASE Render \/ SshOpened \/ cancelClose \/ (\E t \in Tab : askClose(t)) \/ UNCHANGED tabsVars
  BY <1>7, <1>13 DEF Render, SshOpened, cancelClose, askClose, hostVars, listVars, tabHistory, tabsVars
<1>14. CASE reorderTabs
  BY <1>7, <1>14, Reordered
<1>15. ASSUME NEW t \in Tab, closeTerminal(t) PROVE Chosen'
  BY <1>7, <1>15, ClosedOne
<1>16. ASSUME NEW f \in TabFrame, IsList(f) => f.ids = Listed(table), frames' = Append(frames, f),
              UNCHANGED <<table, activeId, pendingNewIds, due>>
       PROVE  Chosen'
  <2>1. /\ AllWithin(frames, pendingNewIds) /\ Listed(table) \subseteq pendingNewIds
              => AllWithin(frames', pendingNewIds)
        /\ AllContain(frames, due) /\ due \in Listed(table) => AllContain(frames', due)
        /\ Introduces(frames, pendingNewIds, due) /\ due \in Listed(table)
              => Introduces(frames', pendingNewIds, due)
    BY <1>16, <1>t, ListsSent
  <2>. QED BY <1>a, <1>b, <1>16, <2>1 DEF Chosen
<1>17. ASSUME NEW u \in Tab, HostRefuses(u) PROVE Chosen'
  <2>1. ExitFrame(u) \in TabFrame /\ ~IsList(ExitFrame(u))
    BY FramesTyped DEF IsList, ExitFrame
  <2>2. UNCHANGED <<table, activeId, pendingNewIds, due>>
    BY <1>17, OneRefused DEF listVars
  <2>. QED BY <1>7, <1>16, <1>17, <2>1, <2>2, OneRefused
<1>18. CASE HostRepeats
  <2>1. ListFrame(table) \in TabFrame /\ ListFrame(table).ids = Listed(table)
    BY <1>l
  <2>2. \A t \in Tab : ~IsList(AttachedFrame(t, table[t] = "alive"))
    BY DEF IsList, AttachedFrame
  <2>3. UNCHANGED <<table, activeId, pendingNewIds, due>>
    BY <1>18, OneRepeated DEF listVars
  <2>. QED BY <1>16, <1>18, <2>1, <2>2, <2>3, OneRepeated
<1>. QED BY <1>1, <1>2, <1>3, <1>4, <1>5, <1>6, <1>9, <1>10, <1>11, <1>12, <1>13, <1>14, <1>15, <1>17, <1>18
     DEF TabsNext, Host, User, Page, Opening

LEMMA FocusInit ==
    ASSUME TabsInit
    PROVE  Known /\ OneWish /\ Chosen
<1>n. NoTab # Asked /\ NoTab \notin Tab
  BY NoTabAssumption DEF Asked, Tab
<1>1. /\ frames = Greeting(table, announced) /\ announced \in SUBSET Tab
      /\ sessions = <<>> /\ shown.sessions = <<>> /\ pendingNewIds = NoTab /\ due = NoTab
      /\ opens = 0 /\ ssh = "idle"
  BY TabAssumption DEF TabsInit, Tab
<1>2. Listed(table) \subseteq OpenedTabs
  BY DEF Listed, OpenedTabs
<1>3. IdsOf(<<>>) = {}
  BY DEF IdsOf
<1>4. NameOnly(frames, OpenedTabs)
  BY <1>1, <1>2, GreetingLists
<1>. QED BY <1>n, <1>1, <1>3, <1>4 DEF Known, OneWish, Chosen

\* NewcomerFocused: the tab the page asked for comes to the front once its list
\* has arrived, if the page knew every other tab when it asked, nothing else
\* was opened in between, and the user has not chosen another; as long as the
\* user asks for one tab at a time (useRemote.ts:523-529, 772).
THEOREM NewcomerIsFocused == OneRequest => (TabsSpec => []NewcomerFocused)
<1>. SUFFICES ASSUME OneRequest PROVE TabsSpec => []NewcomerFocused
  OBVIOUS
<1>. DEFINE Inv == TabsTyped /\ Known /\ OneWish /\ Chosen
<1>1. TabsInit => Inv
  BY TypedInit, FocusInit
<1>2. Inv /\ [TabsNext]_tabsVars => Inv'
  BY TypedStep, KnownStep, WishFacts, ChosenStep
<1>3. Inv => NewcomerFocused
  <2>1. \A q, S, t : q = <<>> => ~Introduces(q, S, t)
    BY DEF Introduces
  <2>. QED BY <2>1 DEF Chosen, NewcomerFocused
<1>. QED BY <1>1, <1>2, <1>3, PTL DEF TabsSpec
=============================================================================
