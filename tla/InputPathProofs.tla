---------------------------- MODULE InputPathProofs ----------------------------
(***************************************************************************)
(* Every frame about a session is asked once and keys in order, for any    *)
(* number of sessions and frames, any room in the pipe and any number of   *)
(* lost links: KeysInOrder is an invariant of InputPath.                   *)
(* The last section is about the way back (PtyMirror): NoSilentGap.        *)
(***************************************************************************)
EXTENDS InputPath, PtyMirror, SequenceTheorems, TLAPS

-----------------------------------------------------------------------------
In(n, q) == \E i \in 1..Len(q) : q[i] = n
Rising(q) == \A i \in 1..Len(q) : \A j \in 1..i - 1 : q[j] < q[i]
AgentSide(n) == About(n) \notin Ssh
Sent == 1..Len(frame)

\* The frames the agent took from its link for a request that is under way, in
\* the pipe or done.
Taken(n) == req[n] # "none" \/ In(n, pipe) \/ (In(n, asked) /\ AgentSide(n))

\* What KeysInOrder says of two frames asked one after the other.
Ordered(earlier, later) ==
    /\ earlier # later
    /\ (About(earlier) = About(later) /\ Tell(later) = "input") => earlier < later

Status == {"none", "spawned", "entered", "waiting", "answered", "expired"}
Typed ==
    /\ frame \in Seq(Asks) /\ Sent \subseteq Number
    /\ queue \in [Source -> Seq(Sent)]
    /\ mirrored["agent"] \subseteq Pty /\ mirrored["bridge"] \subseteq Ssh
    /\ DOMAIN mirrored = Source
    /\ req \in [Number -> Status]
    /\ loop \in {Reading} \cup Number
    /\ pipe \in Seq(Sent) /\ asked \in Seq(Sent)
    /\ \A n \in Number : req[n] # "none" => n \in Sent

\* A link delivers in order; what a source has not read yet was sent after all
\* it has read.
QueuesRise == \A x \in Source : Rising(queue[x])
AgentBehind == \A n \in Sent, i \in 1..Len(queue["agent"]) : Taken(n) => n < queue["agent"][i]
BridgeBehind ==
    \A n \in Sent, i \in 1..Len(queue["bridge"]) :
        (In(n, asked) /\ ~AgentSide(n)) => n < queue["bridge"][i]

\* A frame goes to one source; it is written once; the loop awaits a key until
\* it is, and is not ahead of what it awaits.
AgentsOwn == \A n \in Sent : req[n] # "none" \/ In(n, pipe) => AgentSide(n)
Unwritten(n) == req[n] \in {"spawned", "entered"}
WrittenOnce == \A n \in Sent : Unwritten(n) => ~In(n, pipe) /\ ~In(n, asked)
KeyAwaited == \A n \in Sent : (Unwritten(n) /\ Tell(n) = "input") => loop = n
LoopLast == loop # Reading => \A n \in Sent : Taken(n) => n <= loop

\* The pipe is a queue: its frames are asked after those asked already.
AskedOrdered == \A i \in 1..Len(asked) : \A j \in 1..i - 1 : Ordered(asked[j], asked[i])
PipeOrdered == \A i \in 1..Len(pipe) : \A j \in 1..i - 1 : Ordered(pipe[j], pipe[i])
PipeLater == \A i \in 1..Len(pipe) : \A j \in 1..Len(asked) : Ordered(asked[j], pipe[i])

ReadInv == QueuesRise /\ AgentBehind /\ BridgeBehind
AgentInv == AgentsOwn /\ WrittenOnce /\ KeyAwaited /\ LoopLast
OrderInv == AskedOrdered /\ PipeOrdered /\ PipeLater
Inv == Typed /\ ReadInv /\ AgentInv /\ OrderInv

-----------------------------------------------------------------------------
(* Sequences.                                                               *)

LEMMA Appended ==
    ASSUME NEW S, NEW q \in Seq(S), NEW e \in S
    PROVE  /\ Append(q, e) \in Seq(S) /\ Len(Append(q, e)) = Len(q) + 1
           /\ \A i \in 1..Len(q) : Append(q, e)[i] = q[i]
           /\ Append(q, e)[Len(q) + 1] = e
           /\ \A n : In(n, Append(q, e)) <=> (In(n, q) \/ n = e)
<1>1. /\ Append(q, e) \in Seq(S) /\ Len(Append(q, e)) = Len(q) + 1 /\ Len(q) \in Nat
      /\ \A i \in 1..Len(q) : Append(q, e)[i] = q[i]
      /\ Append(q, e)[Len(q) + 1] = e
  OBVIOUS
<1>. QED BY <1>1 DEF In

LEMMA Taking ==
    ASSUME NEW S, NEW q \in Seq(S), q # <<>>
    PROVE  /\ Tail(q) \in Seq(S) /\ Len(q) \in Nat \ {0} /\ Len(Tail(q)) = Len(q) - 1
           /\ Head(q) = q[1] /\ Head(q) \in S
           /\ \A i \in 1..Len(Tail(q)) : i + 1 \in 1..Len(q) /\ Tail(q)[i] = q[i + 1]
           /\ \A n : In(n, q) <=> (In(n, Tail(q)) \/ n = Head(q))
<1>1. /\ Tail(q) \in Seq(S) /\ Len(q) \in Nat \ {0} /\ Len(Tail(q)) = Len(q) - 1
      /\ Head(q) = q[1] /\ Head(q) \in S
      /\ \A i \in 1..Len(Tail(q)) : i + 1 \in 1..Len(q) /\ Tail(q)[i] = q[i + 1]
  OBVIOUS
<1>2. ASSUME NEW n, In(n, q) PROVE In(n, Tail(q)) \/ n = Head(q)
  <2>1. PICK i \in 1..Len(q) : q[i] = n
    BY <1>2 DEF In
  <2>2. i = 1 \/ (i - 1 \in 1..Len(Tail(q)) /\ Tail(q)[i - 1] = q[i])
    BY <1>1
  <2>. QED BY <1>1, <2>1, <2>2 DEF In
<1>3. ASSUME NEW n, In(n, Tail(q)) \/ n = Head(q) PROVE In(n, q)
  <2>1. CASE n = Head(q)
    <3>1. 1 \in 1..Len(q) /\ q[1] = n
      BY <1>1, <2>1
    <3>. QED BY <3>1 DEF In
  <2>2. CASE In(n, Tail(q))
    BY <1>1, <2>2 DEF In
  <2>. QED BY <1>3, <2>1, <2>2
<1>. QED BY <1>1, <1>2, <1>3

LEMMA Rest ==
    ASSUME NEW S, NEW q \in Seq(S), q # <<>>, Rising(q), S \subseteq Nat
    PROVE  Rising(Tail(q)) /\ \A i \in 1..Len(Tail(q)) : Head(q) < Tail(q)[i]
<1>1. ASSUME NEW i \in 1..Len(Tail(q)) PROVE Head(q) < Tail(q)[i]
  <2>1. i + 1 \in 1..Len(q) /\ Tail(q)[i] = q[i + 1] /\ Head(q) = q[1] /\ 1 \in 1..(i + 1) - 1
    BY Taking
  <2>. QED BY <2>1 DEF Rising
<1>2. ASSUME NEW i \in 1..Len(Tail(q)), NEW j \in 1..i - 1 PROVE Tail(q)[j] < Tail(q)[i]
  <2>1. /\ i + 1 \in 1..Len(q) /\ Tail(q)[i] = q[i + 1]
        /\ j \in 1..Len(Tail(q)) /\ j + 1 \in 1..(i + 1) - 1
    BY Taking
  <2>2. Tail(q)[j] = q[j + 1]
    BY <2>1, Taking
  <2>. QED BY <2>1, <2>2 DEF Rising
<1>. QED BY <1>1, <1>2 DEF Rising

-----------------------------------------------------------------------------
(* The page, the relay and the links.                                       *)

LEMMA SentSmall == Sent \subseteq Nat
BY DEF Sent

\* A step that hands on, writes and asks nothing and takes up no frame.
LEMMA RequestMoves ==
    ASSUME Inv, UNCHANGED <<frame, queue, mirrored, pipe, asked>>, req' \in [Number -> Status],
           \A n \in Number : (req'[n] # "none" => req[n] # "none") /\ (Unwritten(n)' => Unwritten(n)),
           loop' = loop \/ (loop' = Reading /\ \A n \in Number : loop = n => ~Unwritten(n)')
    PROVE  Inv'
<1>. USE DEF Inv
<1>1. Sent' = Sent /\ Sent \subseteq Number
  BY DEF Typed, Sent
<1>2. \A n \in Sent : /\ Taken(n)' => Taken(n)
                      /\ In(n, pipe)' = In(n, pipe) /\ In(n, asked)' = In(n, asked)
                      /\ AgentSide(n)' = AgentSide(n) /\ Tell(n)' = Tell(n)
  BY <1>1 DEF Taken, In, AgentSide, About, Tell
<1>3. Typed'
  BY <1>1 DEF Typed
<1>4. ReadInv'
  <2>1. QueuesRise'
    BY DEF ReadInv, QueuesRise, Rising
  <2>2. AgentBehind'
    BY <1>1, <1>2 DEF ReadInv, AgentBehind
  <2>3. BridgeBehind'
    BY <1>1, <1>2 DEF ReadInv, BridgeBehind
  <2>. QED BY <2>1, <2>2, <2>3 DEF ReadInv
<1>5. AgentInv'
  <2>1. AgentsOwn'
    BY <1>1, <1>2 DEF AgentInv, AgentsOwn
  <2>2. WrittenOnce'
    BY <1>1, <1>2 DEF AgentInv, WrittenOnce
  <2>3. KeyAwaited'
    BY <1>1, <1>2 DEF AgentInv, KeyAwaited
  <2>4. LoopLast'
    BY <1>1, <1>2 DEF AgentInv, LoopLast
  <2>. QED BY <2>1, <2>2, <2>3, <2>4 DEF AgentInv
<1>6. OrderInv'
  BY DEF OrderInv, AskedOrdered, PipeOrdered, PipeLater, Ordered, About, Tell
<1>. QED BY <1>3, <1>4, <1>5, <1>6

\* The request steps that write nothing.
LEMMA RequestStepInv ==
    ASSUME Inv, NEW n \in Number,
           TaskStarts(n) \/ Returns(n) \/ Expires(n) \/ GivesUp(n) \/ WriteFails(n)
    PROVE  Inv'
<1>1. UNCHANGED <<frame, queue, mirrored, pipe, asked>>
  BY DEF TaskStarts, Returns, Expires, GivesUp, WriteFails, sourceVars, daemonVars
<1>2. req \in [Number -> Status] /\ loop \in {Reading} \cup Number
  BY DEF Inv, Typed
<1>3. CASE TaskStarts(n) \/ Expires(n)
  <2>1. /\ loop' = loop /\ req[n] # "none"
        /\ \E to \in {"entered", "expired"} : req' = [req EXCEPT ![n] = to]
                                            /\ (to = "entered" => req[n] = "spawned")
    BY <1>3 DEF TaskStarts, Expires
  <2>2. req' \in [Number -> Status]
    BY <1>2, <2>1 DEF Status
  <2>3. \A m \in Number : (req'[m] # "none" => req[m] # "none") /\ (Unwritten(m)' => Unwritten(m))
    BY <1>2, <2>1 DEF Unwritten
  <2>. QED BY <1>1, <2>1, <2>2, <2>3, RequestMoves
<1>4. CASE Returns(n) \/ GivesUp(n) \/ WriteFails(n)
  <2>1. req' = [req EXCEPT ![n] = "none"] /\ loop' = IF loop = n THEN Reading ELSE loop
    BY <1>4 DEF Returns, GivesUp, WriteFails, Ends
  <2>2. req' \in [Number -> Status]
    BY <1>2, <2>1 DEF Status
  <2>3. \A m \in Number : (req'[m] # "none" => req[m] # "none") /\ (Unwritten(m)' => Unwritten(m))
    BY <1>2, <2>1 DEF Unwritten
  <2>4. ~Unwritten(n)'
    BY <1>2, <2>1 DEF Unwritten
  <2>. QED BY <1>1, <2>1, <2>2, <2>3, <2>4, RequestMoves
<1>. QED BY <1>3, <1>4

\* The thread that reads the daemon's answers.
LEMMA ReaderInv ==
    ASSUME Inv, ReaderTakes
    PROVE  Inv'
<1>1. UNCHANGED <<frame, queue, mirrored, pipe, asked>>
  BY DEF ReaderTakes, sourceVars
<1>2. req \in [Number -> Status] /\ loop \in {Reading} \cup Number
  BY DEF Inv, Typed
<1>3. /\ loop' = loop
      /\ req' = req \/ \E m \in Number : req[m] = "waiting" /\ req' = [req EXCEPT ![m] = "answered"]
  <2>1. req' = req \/ (/\ req[Head(answers)] = "waiting"
                       /\ req' = [req EXCEPT ![Head(answers)] = "answered"])
    BY DEF ReaderTakes
  <2>2. loop' = loop
    BY DEF ReaderTakes
  <2>3. Head(answers) \notin Number => req' = req
    BY <1>2, <2>1
  <2>. QED BY <2>1, <2>2, <2>3
<1>4. req' \in [Number -> Status]
  BY <1>2, <1>3 DEF Status
<1>5. \A m \in Number : (req'[m] # "none" => req[m] # "none") /\ (Unwritten(m)' => Unwritten(m))
  BY <1>2, <1>3 DEF Unwritten
<1>. QED BY <1>1, <1>3, <1>4, <1>5, RequestMoves

\* The relay hands on a frame that is newer than all others.
LEMMA ForwardInv ==
    ASSUME Inv, NEW f \in Asks, Forward(f)
    PROVE  Inv'
<1>. USE DEF Inv
<1>. DEFINE n == Len(frame) + 1
<1>1. /\ Len(frame) \in Nat /\ frame' = Append(frame, f) /\ frame' \in Seq(Asks)
      /\ Sent' = Sent \cup {n} /\ n \in Number /\ n \notin Sent /\ \A m \in Sent : m < n
      /\ \A m \in Sent : frame'[m] = frame[m]
  <2>1. frame \in Seq(Asks) /\ frame' = Append(frame, f) /\ Len(frame) < MaxFrames /\ MaxFrames \in Nat
    BY BoundAssumption DEF Forward, Typed
  <2>2. /\ frame' \in Seq(Asks) /\ Len(frame') = n /\ Len(frame) \in Nat
        /\ \A m \in 1..Len(frame) : frame'[m] = frame[m]
    BY <2>1
  <2>. QED BY <2>1, <2>2 DEF Sent, Number
<1>2. UNCHANGED <<mirrored, loop, req, pipe, asked>>
  BY DEF Forward, clientVars, daemonVars
<1>3. \A m \in Sent : AgentSide(m)' = AgentSide(m) /\ Tell(m)' = Tell(m) /\ About(m)' = About(m)
  BY <1>1 DEF AgentSide, About, Tell
<1>4. \A x \in Source : queue'[x] = queue[x] \/ queue'[x] = Append(queue[x], n)
  BY DEF Forward, Given, Typed
<1>. HIDE DEF n
<1>5. Seq(Sent) \subseteq Seq(Sent') /\ n \in Sent'
  BY <1>1
<1>6. \A x \in Source : queue[x] \in Seq(Sent)
  BY DEF Typed
<1>7. \A x \in Source : queue'[x] \in Seq(Sent') /\ Rising(queue'[x])
                        /\ \A i \in 1..Len(queue'[x]) :
                              queue'[x][i] = n \/ (i \in 1..Len(queue[x]) /\ queue'[x][i] = queue[x][i])
  <2>. SUFFICES ASSUME NEW x \in Source
                PROVE  queue'[x] \in Seq(Sent') /\ Rising(queue'[x])
                        /\ \A i \in 1..Len(queue'[x]) :
                              queue'[x][i] = n \/ (i \in 1..Len(queue[x]) /\ queue'[x][i] = queue[x][i])
    OBVIOUS
  <2>1. queue[x] \in Seq(Sent') /\ Rising(queue[x])
    BY <1>5, <1>6 DEF ReadInv, QueuesRise
  <2>2. CASE queue'[x] = queue[x]
    BY <2>1, <2>2
  <2>3. CASE queue'[x] = Append(queue[x], n)
    <3>1. /\ queue'[x] \in Seq(Sent') /\ Len(queue'[x]) = Len(queue[x]) + 1
          /\ \A i \in 1..Len(queue[x]) : queue'[x][i] = queue[x][i]
          /\ queue'[x][Len(queue[x]) + 1] = n
      BY <1>5, <2>1, <2>3, Appended
    <3>2. Len(queue[x]) \in Nat /\ \A i \in 1..Len(queue[x]) : queue[x][i] \in Sent
      BY <1>6
    <3>3. \A i \in 1..Len(queue[x]) : queue[x][i] < n
      BY <1>1, <3>2
    <3>4. ASSUME NEW i \in 1..Len(queue'[x]), NEW j \in 1..i - 1
          PROVE  queue'[x][j] < queue'[x][i]
      <4>1. j \in 1..Len(queue[x]) /\ queue'[x][j] = queue[x][j]
        BY <3>1, <3>2
      <4>2. CASE i = Len(queue[x]) + 1
        BY <3>1, <3>3, <4>1, <4>2
      <4>3. CASE i \in 1..Len(queue[x])
        BY <2>1, <3>1, <4>1, <4>3 DEF Rising
      <4>. QED BY <3>1, <3>2, <4>2, <4>3
    <3>5. Rising(queue'[x])
      BY <3>4 DEF Rising
    <3>. QED BY <3>1, <3>5
  <2>. QED BY <1>4, <2>2, <2>3
<1>8. queue' \in [Source -> Seq(Sent')]
  <2>1. queue' = [x \in Source |-> queue'[x]]
    BY DEF Forward, Given
  <2>. QED BY <1>7, <2>1
<1>9. Typed'
  BY <1>1, <1>2, <1>5, <1>8 DEF Typed
<1>10. ~In(n, pipe) /\ ~In(n, asked) /\ req[n] = "none"
  <2>1. pipe \in Seq(Sent) /\ asked \in Seq(Sent)
    BY DEF Typed
  <2>2. (\A i \in 1..Len(pipe) : pipe[i] \in Sent) /\ (\A i \in 1..Len(asked) : asked[i] \in Sent)
    BY <2>1
  <2>. QED BY <1>1, <2>2 DEF In, Typed
<1>11. \A m \in Sent' : Taken(m)' => m \in Sent /\ Taken(m)
  BY <1>1, <1>2, <1>3, <1>10 DEF Taken, In
<1>12. ReadInv'
  <2>1. QueuesRise'
    BY <1>7 DEF QueuesRise, Rising
  <2>2. AgentBehind'
    BY <1>1, <1>7, <1>11 DEF ReadInv, AgentBehind, Source
  <2>3. \A m \in Sent' : In(m, asked)' => m \in Sent /\ In(m, asked)
    BY <1>1, <1>2, <1>10 DEF In
  <2>4. BridgeBehind'
    BY <1>1, <1>3, <1>7, <2>3 DEF ReadInv, BridgeBehind, Source
  <2>. QED BY <2>1, <2>2, <2>4 DEF ReadInv
<1>13. \A m \in Sent' : (req'[m] # "none" \/ In(m, pipe)') => m \in Sent /\ (req[m] # "none" \/ In(m, pipe))
  BY <1>1, <1>2, <1>10 DEF In
<1>14. AgentInv'
  <2>1. AgentsOwn'
    BY <1>3, <1>13 DEF AgentInv, AgentsOwn
  <2>2. WrittenOnce' /\ KeyAwaited'
    BY <1>1, <1>2, <1>3, <1>10 DEF AgentInv, WrittenOnce, KeyAwaited, Unwritten, In
  <2>3. LoopLast'
    BY <1>2, <1>11 DEF AgentInv, LoopLast
  <2>. QED BY <2>1, <2>2, <2>3 DEF AgentInv
<1>15. OrderInv'
  <2>1. (\A i \in 1..Len(pipe) : pipe[i] \in Sent) /\ (\A i \in 1..Len(asked) : asked[i] \in Sent)
    BY DEF Typed
  <2>2. \A a, b \in Sent : Ordered(a, b) => Ordered(a, b)'
    BY <1>3 DEF Ordered
  <2>3. Len(pipe) \in Nat /\ Len(asked) \in Nat
    BY DEF Typed
  <2>. QED BY <1>2, <2>1, <2>2, <2>3, SMTT(30) DEF OrderInv, AskedOrdered, PipeOrdered, PipeLater
<1>. QED BY <1>9, <1>12, <1>14, <1>15

\* A link is lost, and what is under way on it from some frame on.
LEMMA DropsInv ==
    ASSUME Inv, NEW x \in Source, SourceDrops(x)
    PROVE  Inv'
<1>. USE DEF Inv
<1>1. UNCHANGED <<frame, mirrored, loop, req, pipe, asked>>
  BY DEF SourceDrops, clientVars, daemonVars
<1>2. PICK k \in 0..Len(queue[x]) : queue' = [queue EXCEPT ![x] = SubSeq(@, 1, k)]
  BY DEF SourceDrops
<1>3. queue \in [Source -> Seq(Sent)] /\ Sent' = Sent
  BY <1>1 DEF Typed, Sent
<1>4. \A y \in Source : /\ queue'[y] \in Seq(Sent) /\ Len(queue'[y]) \in 0..Len(queue[y])
                         /\ \A i \in 1..Len(queue'[y]) : queue'[y][i] = queue[y][i]
  <2>1. ASSUME NEW q \in Seq(Sent), NEW j \in 0..Len(q)
        PROVE  /\ SubSeq(q, 1, j) \in Seq(Sent) /\ Len(SubSeq(q, 1, j)) = j
               /\ \A i \in 1..j : SubSeq(q, 1, j)[i] = q[i]
    OBVIOUS
  <2>2. \A y \in Source : queue[y] \in Seq(Sent) /\ Len(queue[y]) \in Nat
    BY <1>3
  <2>. QED BY <1>2, <1>3, <2>1, <2>2
<1>5. queue' \in [Source -> Seq(Sent)]
  BY <1>2, <1>3, <1>4
<1>6. \A y \in Source : Len(queue[y]) \in Nat /\ 1..Len(queue'[y]) \subseteq 1..Len(queue[y])
  BY <1>3, <1>4
<1>7. Typed'
  BY <1>1, <1>3, <1>5 DEF Typed
<1>8. QueuesRise'
  <2>. SUFFICES ASSUME NEW y \in Source, NEW i \in 1..Len(queue'[y]), NEW j \in 1..i - 1
                PROVE  queue'[y][j] < queue'[y][i]
    BY DEF QueuesRise, Rising
  <2>1. j \in 1..Len(queue'[y])
    BY <1>4
  <2>. QED BY <1>4, <1>6, <2>1 DEF ReadInv, QueuesRise, Rising
<1>9. AgentBehind' /\ BridgeBehind'
  <2>1. \A n \in Sent : /\ Taken(n)' = Taken(n) /\ In(n, asked)' = In(n, asked)
                        /\ AgentSide(n)' = AgentSide(n)
    BY <1>1 DEF Taken, In, AgentSide, About
  <2>. QED BY <1>3, <1>4, <1>6, <2>1 DEF ReadInv, AgentBehind, BridgeBehind, Source
<1>10. AgentInv' /\ OrderInv'
  BY <1>1, <1>3 DEF AgentInv, AgentsOwn, WrittenOnce, KeyAwaited, LoopLast, Taken, Unwritten, In,
     OrderInv, AskedOrdered, PipeOrdered, PipeLater, Ordered, AgentSide, About, Tell
<1>. QED BY <1>7, <1>8, <1>9, <1>10 DEF ReadInv

-----------------------------------------------------------------------------
(* What a source does with the next frame of its link.                      *)

\* What a source has read is not under way any more; the rest is newer.
LEMMA Reads ==
    ASSUME Inv, NEW x \in Source, queue[x] # <<>>, queue' = [queue EXCEPT ![x] = Tail(@)],
           UNCHANGED frame
    PROVE  /\ queue' \in [Source -> Seq(Sent)] /\ Head(queue[x]) \in Sent
           /\ QueuesRise'
           /\ \A y \in Source : y # x => queue'[y] = queue[y]
           /\ \A i \in 1..Len(queue'[x]) : /\ Head(queue[x]) < queue'[x][i]
                                          /\ In(queue'[x][i], queue[x])
           /\ 1 \in 1..Len(queue[x]) /\ Head(queue[x]) = queue[x][1]
           /\ \A i \in 1..Len(queue'[x]) : i + 1 \in 1..Len(queue[x])
                                          /\ queue'[x][i] = queue[x][i + 1]
<1>1. queue \in [Source -> Seq(Sent)] /\ \A y \in Source : Rising(queue[y])
  BY DEF Inv, Typed, ReadInv, QueuesRise
<1>2. queue'[x] = Tail(queue[x]) /\ \A y \in Source : y # x => queue'[y] = queue[y]
  BY <1>1
<1>3. /\ Tail(queue[x]) \in Seq(Sent) /\ Head(queue[x]) \in Sent
      /\ 1 \in 1..Len(queue[x]) /\ Head(queue[x]) = queue[x][1]
      /\ \A i \in 1..Len(Tail(queue[x])) : i + 1 \in 1..Len(queue[x])
                                          /\ Tail(queue[x])[i] = queue[x][i + 1]
  BY <1>1, Taking
<1>4. Rising(Tail(queue[x])) /\ \A i \in 1..Len(Tail(queue[x])) : Head(queue[x]) < Tail(queue[x])[i]
  BY <1>1, Rest, SentSmall
<1>5. QueuesRise'
  <2>1. \A y \in Source : Rising(queue'[y])
    BY <1>1, <1>2, <1>4
  <2>. QED BY <2>1 DEF QueuesRise, Rising
<1>6. queue' \in [Source -> Seq(Sent)]
  BY <1>1, <1>2, <1>3
<1>. QED BY <1>2, <1>3, <1>4, <1>5, <1>6 DEF In

LEMMA AgentTakesInv ==
    ASSUME Inv, AgentTakes
    PROVE  Inv'
<1>. DEFINE n == Head(queue["agent"])
<1>1. /\ loop = Reading /\ queue["agent"] # <<>> /\ queue' = [queue EXCEPT !["agent"] = Tail(@)]
      /\ AwaitsKey(n) \/ Spawns(n) \/ Ignores(n)
      /\ UNCHANGED <<frame, mirrored, pipe, asked>>
  BY DEF AgentTakes, daemonVars
<1>2. /\ queue' \in [Source -> Seq(Sent)] /\ n \in Sent /\ QueuesRise'
      /\ queue'["bridge"] = queue["bridge"]
      /\ 1 \in 1..Len(queue["agent"]) /\ n = queue["agent"][1]
      /\ \A i \in 1..Len(queue'["agent"]) :
            n < queue'["agent"][i] /\ i + 1 \in 1..Len(queue["agent"])
            /\ queue'["agent"][i] = queue["agent"][i + 1]
  BY <1>1, Reads DEF Source
<1>. HIDE DEF n
<1>3. /\ Sent' = Sent /\ Sent \subseteq Number /\ req \in [Number -> Status]
      /\ \A m \in Sent : Tell(m)' = Tell(m) /\ About(m)' = About(m) /\ AgentSide(m)' = AgentSide(m)
      /\ \A m \in Sent : In(m, pipe)' = In(m, pipe) /\ In(m, asked)' = In(m, asked)
  BY <1>1 DEF Inv, Typed, Sent, Tell, About, AgentSide, In
<1>4. \A m \in Sent : Taken(m) => m < n
  BY <1>2 DEF Inv, ReadInv, AgentBehind
<1>5. Requests(n) => AgentSide(n)
  <2>1. frame[n] \in Asks
    BY <1>2 DEF Inv, Typed, Sent
  <2>2. Tell(n) = "open" => About(n) = None
    BY <2>1 DEF Asks, Tell, About
  <2>3. Owned("agent", n) => About(n) \in Pty
    BY DEF Owned, Inv, Typed
  <2>. QED BY <2>2, <2>3, SessionAssumption DEF Requests, AgentSide
<1>6. PICK to \in {"spawned", "entered", "none"} :
          /\ req' = (IF to = "none" THEN req ELSE [req EXCEPT ![n] = to])
          /\ loop' = (IF to = "entered" THEN n ELSE loop)
          /\ to # "none" => Requests(n)
          /\ to = "spawned" => Tell(n) # "input"
  <2>1. CASE AwaitsKey(n)
    BY <2>1 DEF AwaitsKey
  <2>2. CASE Spawns(n)
    BY <2>2 DEF Spawns, Inline
  <2>3. CASE Ignores(n)
    BY <2>3 DEF Ignores, clientVars
  <2>. QED BY <1>1, <2>1, <2>2, <2>3
<1>7. /\ req' \in [Number -> Status] /\ loop' \in {Reading} \cup Number
      /\ \A m \in Number : m # n => req'[m] = req[m]
  BY <1>1, <1>2, <1>3, <1>6 DEF Status
<1>8. Typed'
  BY <1>1, <1>2, <1>3, <1>7 DEF Inv, Typed
<1>9. \A m \in Sent : Taken(m)' => (Taken(m) \/ (m = n /\ to # "none"))
  BY <1>3, <1>6, <1>7 DEF Taken
<1>10. ~Taken(n)
  BY <1>2, <1>4, SentSmall
<1>11. ReadInv'
  <2>1. AgentBehind'
    <3>. SUFFICES ASSUME NEW m \in Sent, NEW i \in 1..Len(queue'["agent"]), Taken(m)'
                  PROVE  m < queue'["agent"][i]
      BY <1>3 DEF AgentBehind
    <3>1. CASE m = n
      BY <1>2, <3>1
    <3>2. CASE Taken(m)
      BY <1>2, <3>2 DEF Inv, ReadInv, AgentBehind
    <3>. QED BY <1>9, <3>1, <3>2
  <2>2. BridgeBehind'
    BY <1>2, <1>3 DEF Inv, ReadInv, BridgeBehind
  <2>. QED BY <1>2, <2>1, <2>2 DEF ReadInv
<1>12. AgentInv'
  <2>1. AgentsOwn'
    BY <1>3, <1>5, <1>6, <1>7 DEF Inv, AgentInv, AgentsOwn
  <2>2. WrittenOnce'
    <3>. SUFFICES ASSUME NEW m \in Sent, Unwritten(m)' PROVE ~In(m, pipe) /\ ~In(m, asked)
      BY <1>3 DEF WrittenOnce
    <3>1. CASE m = n /\ to # "none"
      BY <1>5, <1>6, <1>10, <3>1 DEF Taken
    <3>2. CASE req'[m] = req[m]
      BY <3>2 DEF Unwritten, Inv, AgentInv, WrittenOnce
    <3>. QED BY <1>3, <1>6, <1>7, <3>1, <3>2
  <2>3. KeyAwaited'
    <3>. SUFFICES ASSUME NEW m \in Sent, Unwritten(m)', Tell(m) = "input" PROVE loop' = m
      BY <1>3 DEF KeyAwaited
    <3>1. CASE req'[m] = req[m]
      <4>1. loop = m
        BY <3>1 DEF Unwritten, Inv, AgentInv, KeyAwaited
      <4>. QED BY <1>1, <1>3, <4>1 DEF Reading, Number
    <3>2. CASE m = n /\ to # "none"
      BY <1>6, <3>2
    <3>. QED BY <1>3, <1>6, <1>7, <3>1, <3>2
  <2>4. LoopLast'
    <3>. SUFFICES ASSUME loop' # Reading, NEW m \in Sent, Taken(m)' PROVE m <= loop'
      BY <1>3 DEF LoopLast
    <3>1. loop' = n
      BY <1>1, <1>6
    <3>. QED BY <1>2, <1>4, <1>9, <3>1, SentSmall
  <2>. QED BY <2>1, <2>2, <2>3, <2>4 DEF AgentInv
<1>13. OrderInv'
  BY <1>1 DEF Inv, OrderInv, AskedOrdered, PipeOrdered, PipeLater, Ordered, About, Tell
<1>. QED BY <1>8, <1>11, <1>12, <1>13 DEF Inv

\* The bridge asks the host about a session of its own, after all it asked so far.
LEMMA BridgeTakesInv ==
    ASSUME Inv, BridgeTakes
    PROVE  Inv'
<1>. DEFINE n == Head(queue["bridge"])
<1>1. /\ queue["bridge"] # <<>> /\ queue' = [queue EXCEPT !["bridge"] = Tail(@)]
      /\ BridgeActs(n) \/ BridgeIgnores(n)
      /\ UNCHANGED <<frame, loop, req, pipe>>
  BY DEF BridgeTakes, clientVars
<1>2. /\ queue' \in [Source -> Seq(Sent)] /\ n \in Sent /\ QueuesRise'
      /\ queue'["agent"] = queue["agent"]
      /\ 1 \in 1..Len(queue["bridge"]) /\ n = queue["bridge"][1]
      /\ \A i \in 1..Len(queue'["bridge"]) :
            n < queue'["bridge"][i] /\ i + 1 \in 1..Len(queue["bridge"])
            /\ queue'["bridge"][i] = queue["bridge"][i + 1]
  BY <1>1, Reads DEF Source
<1>. HIDE DEF n
<1>3. /\ Sent' = Sent /\ Sent \subseteq Number
      /\ \A m \in Sent : Tell(m)' = Tell(m) /\ About(m)' = About(m) /\ AgentSide(m)' = AgentSide(m)
      /\ \A m \in Sent : In(m, pipe)' = In(m, pipe)
  BY <1>1 DEF Inv, Typed, Sent, Tell, About, AgentSide, In
<1>4. /\ DOMAIN mirrored' = Source /\ mirrored'["agent"] = mirrored["agent"]
      /\ mirrored'["bridge"] \subseteq mirrored["bridge"]
  BY <1>1 DEF BridgeActs, BridgeIgnores, Inv, Typed, Source
<1>5. asked \in Seq(Sent) /\ pipe \in Seq(Sent)
      /\ (asked' = asked \/ (asked' = Append(asked, n) /\ ~AgentSide(n)))
  BY <1>1 DEF BridgeActs, BridgeIgnores, Owned, AgentSide, Inv, Typed
<1>a. /\ Append(asked, n) \in Seq(Sent) /\ Len(Append(asked, n)) = Len(asked) + 1
      /\ Append(asked, n)[Len(asked) + 1] = n
      /\ \A i \in 1..Len(asked) : Append(asked, n)[i] = asked[i]
      /\ \A m : In(m, Append(asked, n)) <=> (In(m, asked) \/ m = n)
  <2>. HIDE DEF Sent
  <2>. QED BY <1>2, <1>5, Appended
<1>6. asked' \in Seq(Sent)
  BY <1>5, <1>a
<1>7. Typed'
  BY <1>1, <1>2, <1>3, <1>4, <1>6 DEF Inv, Typed
<1>8. \A m \in Sent : In(m, asked)' => In(m, asked) \/ (m = n /\ ~AgentSide(n))
  <2>1. \A m : In(m, asked)' = In(m, asked')
    BY DEF In
  <2>. QED BY <1>5, <1>a, <2>1
<1>9. \A m \in Sent : Taken(m)' => Taken(m)
  BY <1>1, <1>3, <1>8 DEF Taken
<1>10. \A m \in Sent : In(m, asked) /\ ~AgentSide(m) => m < n
  BY <1>2 DEF Inv, ReadInv, BridgeBehind
<1>11. ReadInv'
  <2>1. AgentBehind'
    BY <1>2, <1>3, <1>9 DEF Inv, ReadInv, AgentBehind
  <2>2. BridgeBehind'
    <3>. SUFFICES ASSUME NEW m \in Sent, NEW i \in 1..Len(queue'["bridge"]),
                         In(m, asked)', ~AgentSide(m)
                  PROVE  m < queue'["bridge"][i]
      BY <1>3 DEF BridgeBehind
    <3>. QED BY <1>2, <1>8 DEF Inv, ReadInv, BridgeBehind
  <2>. QED BY <1>2, <2>1, <2>2 DEF ReadInv
<1>12. AgentInv'
  <2>1. AgentsOwn' /\ KeyAwaited'
    BY <1>1, <1>3 DEF Inv, AgentInv, AgentsOwn, KeyAwaited, Unwritten
  <2>2. WrittenOnce'
    <3>. SUFFICES ASSUME NEW m \in Sent, Unwritten(m) PROVE ~In(m, pipe) /\ ~In(m, asked)'
      BY <1>1, <1>3 DEF WrittenOnce, Unwritten
    <3>1. AgentSide(m)
      BY DEF Unwritten, Inv, AgentInv, AgentsOwn
    <3>. QED BY <1>8, <3>1 DEF Inv, AgentInv, WrittenOnce
  <2>3. LoopLast'
    BY <1>1, <1>3, <1>9 DEF Inv, AgentInv, LoopLast
  <2>. QED BY <2>1, <2>2, <2>3 DEF AgentInv
<1>13. OrderInv'
  <2>2. /\ \A i \in 1..Len(pipe) : pipe[i] \in Sent /\ AgentSide(pipe[i])
        /\ Len(asked) \in Nat /\ \A i \in 1..Len(asked) : asked[i] \in Sent /\ In(asked[i], asked)
    BY <1>5 DEF Inv, AgentInv, AgentsOwn, In
  <2>3. CASE asked' = asked
    BY <1>1, <2>3 DEF Inv, OrderInv, AskedOrdered, PipeOrdered, PipeLater, Ordered, About, Tell
  <2>4. CASE asked' = Append(asked, n) /\ ~AgentSide(n)
    <3>1. /\ Len(asked') = Len(asked) + 1 /\ asked'[Len(asked) + 1] = n
          /\ \A i \in 1..Len(asked) : asked'[i] = asked[i]
      BY <1>a, <2>4
    <3>2. ASSUME NEW i \in 1..Len(asked) PROVE Ordered(asked[i], n)
      <4>1. asked[i] \in Sent /\ In(asked[i], asked) /\ asked[i] \in Nat /\ n \in Nat
        BY <1>2, <2>2, SentSmall
      <4>2. CASE AgentSide(asked[i])
        BY <2>4, <4>2 DEF Ordered, AgentSide
      <4>3. CASE ~AgentSide(asked[i])
        <5>1. asked[i] < n
          BY <1>10, <4>1, <4>3
        <5>. QED BY <4>1, <5>1 DEF Ordered
      <4>. QED BY <4>2, <4>3
    <3>3. \A i \in 1..Len(pipe) : Ordered(n, pipe[i])
      BY <1>2, <2>2, <2>4 DEF Ordered, AgentSide
    <3>4. AskedOrdered'
      <4>. SUFFICES ASSUME NEW i \in 1..Len(asked'), NEW j \in 1..i - 1
                    PROVE  Ordered(asked'[j], asked'[i])
        BY <1>1 DEF AskedOrdered, Ordered, About, Tell
      <4>1. asked'[j] = asked[j] /\ j \in 1..Len(asked)
        BY <2>2, <3>1
      <4>2. CASE i = Len(asked) + 1
        BY <3>1, <3>2, <4>1, <4>2
      <4>3. CASE i \in 1..Len(asked)
        BY <3>1, <4>1, <4>3 DEF Inv, OrderInv, AskedOrdered
      <4>. QED BY <2>2, <3>1, <4>2, <4>3
    <3>5. PipeOrdered'
      BY <1>1 DEF Inv, OrderInv, PipeOrdered, Ordered, About, Tell
    <3>6. PipeLater'
      <4>. SUFFICES ASSUME NEW i \in 1..Len(pipe), NEW j \in 1..Len(asked')
                    PROVE  Ordered(asked'[j], pipe[i])
        BY <1>1 DEF PipeLater, Ordered, About, Tell
      <4>1. CASE j = Len(asked) + 1
        BY <3>1, <3>3, <4>1
      <4>2. CASE j \in 1..Len(asked)
        <5>1. Ordered(asked[j], pipe[i])
          BY <4>2 DEF Inv, OrderInv, PipeLater
        <5>. QED BY <3>1, <4>2, <5>1
      <4>. QED BY <2>2, <3>1, <4>1, <4>2
    <3>. QED BY <3>4, <3>5, <3>6 DEF OrderInv
  <2>. QED BY <1>5, <2>3, <2>4
<1>. QED BY <1>7, <1>11, <1>12, <1>13 DEF Inv

-----------------------------------------------------------------------------
(* The pipe to the daemon.                                                  *)

\* A request is written after all that the agent took before it.
LEMMA WritesInv ==
    ASSUME Inv, NEW n \in Number, Writes(n)
    PROVE  Inv'
<1>1. /\ req[n] = "entered" /\ req' = [req EXCEPT ![n] = "waiting"] /\ pipe' = Append(pipe, n)
      /\ UNCHANGED <<frame, queue, mirrored, loop, asked>>
  BY DEF Writes, sourceVars
<1>2. /\ Sent' = Sent /\ Sent \subseteq Number /\ req \in [Number -> Status] /\ n \in Sent
      /\ pipe \in Seq(Sent) /\ asked \in Seq(Sent)
  BY <1>1 DEF Inv, Typed, Sent
<1>3. /\ \A m \in Sent : Tell(m)' = Tell(m) /\ About(m)' = About(m) /\ AgentSide(m)' = AgentSide(m)
      /\ \A m \in Sent : In(m, asked)' = In(m, asked)
  BY <1>1 DEF Tell, About, AgentSide, In
<1>4. /\ pipe' \in Seq(Sent) /\ Len(pipe') = Len(pipe) + 1
      /\ pipe'[Len(pipe) + 1] = n
      /\ \A i \in 1..Len(pipe) : pipe'[i] = pipe[i]
      /\ \A m : In(m, pipe)' <=> (In(m, pipe) \/ m = n)
  <2>. HIDE DEF Sent
  <2>1. \A m : In(m, pipe)' <=> In(m, Append(pipe, n))
    BY <1>1 DEF In
  <2>. QED BY <1>1, <1>2, <2>1, Appended
<1>5. req' \in [Number -> Status]
  BY <1>1, <1>2 DEF Status
<1>6. \A m \in Sent : Taken(m)' => Taken(m)
  BY <1>1, <1>2, <1>3, <1>4 DEF Taken
<1>7. AgentSide(n) /\ ~In(n, pipe) /\ ~In(n, asked) /\ (Tell(n) = "input" => loop = n)
  BY <1>1, <1>2 DEF Inv, AgentInv, AgentsOwn, WrittenOnce, KeyAwaited, Unwritten
<1>8. Typed'
  BY <1>1, <1>2, <1>4, <1>5 DEF Inv, Typed
<1>9. ReadInv'
  <2>1. QueuesRise'
    BY <1>1 DEF Inv, ReadInv, QueuesRise, Rising
  <2>2. AgentBehind' /\ BridgeBehind'
    BY <1>1, <1>2, <1>3, <1>6 DEF Inv, ReadInv, AgentBehind, BridgeBehind
  <2>. QED BY <2>1, <2>2 DEF ReadInv
<1>10. \A m \in Sent : Unwritten(m)' => m # n /\ Unwritten(m)
  BY <1>1, <1>2 DEF Unwritten
<1>11. AgentInv'
  <2>1. AgentsOwn'
    BY <1>1, <1>2, <1>3, <1>4, <1>7 DEF Inv, AgentInv, AgentsOwn
  <2>2. WrittenOnce'
    BY <1>2, <1>3, <1>4, <1>10 DEF Inv, AgentInv, WrittenOnce
  <2>3. KeyAwaited' /\ LoopLast'
    BY <1>1, <1>2, <1>3, <1>6, <1>10 DEF Inv, AgentInv, KeyAwaited, LoopLast
  <2>. QED BY <2>1, <2>2, <2>3 DEF AgentInv
<1>12. \A m \in Sent : (Taken(m) \/ In(m, asked)) /\ m # n => Ordered(m, n)
  <2>. SUFFICES ASSUME NEW m \in Sent, Taken(m) \/ In(m, asked), m # n,
                       About(m) = About(n), Tell(n) = "input"
                PROVE  m < n
    BY DEF Ordered
  <2>1. AgentSide(m)
    BY <1>7 DEF AgentSide
  <2>2. Taken(m)
    BY <2>1 DEF Taken
  <2>3. loop = n /\ loop # Reading
    BY <1>2, <1>7 DEF Number, Reading
  <2>4. m <= n
    BY <2>2, <2>3 DEF Inv, AgentInv, LoopLast
  <2>. QED BY <1>2, <2>4, SentSmall
<1>13. /\ Len(pipe) \in Nat /\ \A i \in 1..Len(pipe) : pipe[i] \in Sent /\ In(pipe[i], pipe)
       /\ Len(asked) \in Nat /\ \A i \in 1..Len(asked) : asked[i] \in Sent /\ In(asked[i], asked)
  BY <1>2 DEF In
<1>14. /\ \A i \in 1..Len(pipe) : Ordered(pipe[i], n)
       /\ \A i \in 1..Len(asked) : Ordered(asked[i], n)
  BY <1>7, <1>12, <1>13 DEF Taken
<1>15. OrderInv'
  <2>1. AskedOrdered'
    BY <1>1 DEF Inv, OrderInv, AskedOrdered, Ordered, About, Tell
  <2>2. PipeOrdered'
    <3>. SUFFICES ASSUME NEW i \in 1..Len(pipe'), NEW j \in 1..i - 1
                  PROVE  Ordered(pipe'[j], pipe'[i])
      BY <1>1 DEF PipeOrdered, Ordered, About, Tell
    <3>1. pipe'[j] = pipe[j] /\ j \in 1..Len(pipe)
      BY <1>4, <1>13
    <3>2. CASE i = Len(pipe) + 1
      BY <1>4, <1>14, <3>1, <3>2
    <3>3. CASE i \in 1..Len(pipe)
      BY <1>4, <3>1, <3>3 DEF Inv, OrderInv, PipeOrdered
    <3>. QED BY <1>4, <1>13, <3>2, <3>3
  <2>3. PipeLater'
    <3>. SUFFICES ASSUME NEW i \in 1..Len(pipe'), NEW j \in 1..Len(asked)
                  PROVE  Ordered(asked[j], pipe'[i])
      BY <1>1 DEF PipeLater, Ordered, About, Tell
    <3>1. CASE i = Len(pipe) + 1
      BY <1>4, <1>14, <3>1
    <3>2. CASE i \in 1..Len(pipe)
      BY <1>4, <3>2 DEF Inv, OrderInv, PipeLater
    <3>. QED BY <1>4, <1>13, <3>1, <3>2
  <2>. QED BY <2>1, <2>2, <2>3 DEF OrderInv
<1>. QED BY <1>8, <1>9, <1>11, <1>15 DEF Inv

\* The daemon serves the pipe from its front.
LEMMA DaemonServesInv ==
    ASSUME Inv, DaemonServes
    PROVE  Inv'
<1>. DEFINE n == Head(pipe)
<1>1. /\ pipe # <<>> /\ pipe' = Tail(pipe) /\ asked' = Append(asked, n)
      /\ UNCHANGED <<frame, queue, mirrored, loop, req>>
  BY DEF DaemonServes, sourceVars, clientVars
<1>2. /\ Sent' = Sent /\ Sent \subseteq Number
      /\ pipe \in Seq(Sent) /\ asked \in Seq(Sent)
  BY <1>1 DEF Inv, Typed, Sent
<1>3. \A m \in Sent : Tell(m)' = Tell(m) /\ About(m)' = About(m) /\ AgentSide(m)' = AgentSide(m)
  BY <1>1 DEF Tell, About, AgentSide
<1>4. /\ pipe' \in Seq(Sent) /\ Len(pipe) \in Nat \ {0} /\ Len(pipe') = Len(pipe) - 1
      /\ n = pipe[1] /\ n \in Sent
      /\ \A i \in 1..Len(pipe') : i + 1 \in 1..Len(pipe) /\ pipe'[i] = pipe[i + 1]
      /\ \A m : In(m, pipe) <=> (In(m, pipe)' \/ m = n)
  <2>. HIDE DEF Sent
  <2>1. \A m : In(m, pipe)' <=> In(m, Tail(pipe))
    BY <1>1 DEF In
  <2>. QED BY <1>1, <1>2, <2>1, Taking
<1>. HIDE DEF n
<1>5. /\ asked' \in Seq(Sent) /\ Len(asked') = Len(asked) + 1 /\ Len(asked) \in Nat
      /\ asked'[Len(asked) + 1] = n
      /\ \A i \in 1..Len(asked) : asked'[i] = asked[i]
      /\ \A m : In(m, asked)' <=> (In(m, asked) \/ m = n)
  <2>. HIDE DEF Sent
  <2>1. \A m : In(m, asked)' <=> In(m, Append(asked, n))
    BY <1>1 DEF In
  <2>. QED BY <1>1, <1>2, <1>4, <2>1, Appended
<1>6. AgentSide(n)
  BY <1>4 DEF Inv, AgentInv, AgentsOwn
<1>7. \A m \in Sent : Taken(m)' <=> Taken(m)
  BY <1>1, <1>3, <1>4, <1>5, <1>6 DEF Taken
<1>8. Typed'
  BY <1>1, <1>2, <1>4, <1>5 DEF Inv, Typed
<1>9. ReadInv'
  <2>1. QueuesRise'
    BY <1>1 DEF Inv, ReadInv, QueuesRise, Rising
  <2>2. AgentBehind'
    BY <1>1, <1>2, <1>7 DEF Inv, ReadInv, AgentBehind
  <2>3. BridgeBehind'
    BY <1>1, <1>2, <1>3, <1>5, <1>6 DEF Inv, ReadInv, BridgeBehind
  <2>. QED BY <2>1, <2>2, <2>3 DEF ReadInv
<1>10. AgentInv'
  <2>1. AgentsOwn'
    BY <1>1, <1>2, <1>3, <1>4 DEF Inv, AgentInv, AgentsOwn
  <2>2. WrittenOnce'
    BY <1>1, <1>2, <1>4, <1>5 DEF Inv, AgentInv, WrittenOnce, Unwritten
  <2>3. KeyAwaited' /\ LoopLast'
    BY <1>1, <1>2, <1>3, <1>7 DEF Inv, AgentInv, KeyAwaited, LoopLast, Unwritten
  <2>. QED BY <2>1, <2>2, <2>3 DEF AgentInv
<1>11. OrderInv'
  <2>1. AskedOrdered'
    <3>. SUFFICES ASSUME NEW i \in 1..Len(asked'), NEW j \in 1..i - 1
                  PROVE  Ordered(asked'[j], asked'[i])
      BY <1>1 DEF AskedOrdered, Ordered, About, Tell
    <3>1. asked'[j] = asked[j] /\ j \in 1..Len(asked)
      BY <1>5
    <3>2. CASE i = Len(asked) + 1
      BY <1>4, <1>5, <3>1, <3>2 DEF Inv, OrderInv, PipeLater
    <3>3. CASE i \in 1..Len(asked)
      BY <1>5, <3>1, <3>3 DEF Inv, OrderInv, AskedOrdered
    <3>. QED BY <1>5, <3>2, <3>3
  <2>2. PipeOrdered'
    <3>. SUFFICES ASSUME NEW i \in 1..Len(pipe'), NEW j \in 1..i - 1
                  PROVE  Ordered(pipe'[j], pipe'[i])
      BY <1>1 DEF PipeOrdered, Ordered, About, Tell
    <3>1. i + 1 \in 1..Len(pipe) /\ pipe'[i] = pipe[i + 1]
      BY <1>4
    <3>2. j + 1 \in 1..(i + 1) - 1 /\ j \in 1..Len(pipe')
      BY <1>4
    <3>3. pipe'[j] = pipe[j + 1]
      BY <1>4, <3>2
    <3>. QED BY <3>1, <3>2, <3>3 DEF Inv, OrderInv, PipeOrdered
  <2>3. PipeLater'
    <3>. SUFFICES ASSUME NEW i \in 1..Len(pipe'), NEW j \in 1..Len(asked')
                  PROVE  Ordered(asked'[j], pipe'[i])
      BY <1>1 DEF PipeLater, Ordered, About, Tell
    <3>1. i + 1 \in 1..Len(pipe) /\ pipe'[i] = pipe[i + 1] /\ 1 \in 1..(i + 1) - 1
      BY <1>4
    <3>2. CASE j = Len(asked) + 1
      BY <1>4, <1>5, <3>1, <3>2 DEF Inv, OrderInv, PipeOrdered
    <3>3. CASE j \in 1..Len(asked)
      BY <1>5, <3>1, <3>3 DEF Inv, OrderInv, PipeLater
    <3>. QED BY <1>5, <3>2, <3>3
  <2>. QED BY <2>1, <2>2, <2>3 DEF OrderInv
<1>. QED BY <1>8, <1>9, <1>10, <1>11 DEF Inv

-----------------------------------------------------------------------------
LEMMA InitInv == Init => Inv
<1>. SUFFICES ASSUME Init PROVE Inv
  OBVIOUS
<1>1. /\ frame = <<>> /\ pipe = <<>> /\ asked = <<>> /\ Len(frame) = 0
      /\ \A x \in Source : queue[x] = <<>>
      /\ req = [n \in Number |-> "none"] /\ loop = Reading
  BY DEF Init
<1>2. Sent = {}
  BY <1>1 DEF Sent
<1>3. Typed
  BY <1>1, <1>2 DEF Init, Typed, Status, Source
<1>4. ReadInv
  BY <1>1, <1>2 DEF ReadInv, QueuesRise, Rising, AgentBehind, BridgeBehind
<1>5. AgentInv /\ OrderInv
  BY <1>1, <1>2 DEF AgentInv, AgentsOwn, WrittenOnce, KeyAwaited, LoopLast, OrderInv,
     AskedOrdered, PipeOrdered, PipeLater
<1>. QED BY <1>3, <1>4, <1>5 DEF Inv

\* A step that only moves what Inv does not speak of, or finds a session.
LEMMA QuietInv ==
    ASSUME Inv, UNCHANGED <<frame, queue, loop, req, pipe, asked>>,
           DOMAIN mirrored' = Source, mirrored'["agent"] \subseteq Pty, mirrored'["bridge"] \subseteq Ssh
    PROVE  Inv'
<1>1. Typed'
  BY DEF Inv, Typed, Sent
<1>2. ReadInv' /\ AgentInv' /\ OrderInv'
  BY DEF Inv, ReadInv, QueuesRise, Rising, AgentBehind, BridgeBehind, AgentInv, AgentsOwn,
     WrittenOnce, KeyAwaited, LoopLast, OrderInv, AskedOrdered, PipeOrdered, PipeLater, Ordered,
     Taken, In, AgentSide, About, Tell, Unwritten, Sent
<1>. QED BY <1>1, <1>2 DEF Inv

LEMMA StepInv == Inv /\ [Next]_vars => Inv'
<1>. SUFFICES ASSUME Inv, [Next]_vars PROVE Inv'
  OBVIOUS
<1>1. ASSUME NEW f \in Asks, Forward(f) PROVE Inv'
  BY <1>1, ForwardInv
<1>2. ASSUME NEW x \in Source, SourceDrops(x) PROVE Inv'
  BY <1>2, DropsInv
<1>3. ASSUME NEW x \in Source, SourceReconnects(x) PROVE Inv'
  BY <1>3, QuietInv DEF SourceReconnects, clientVars, daemonVars, Inv, Typed
<1>4. ASSUME NEW x \in Source, NEW s \in Pty \cup Ssh, TableChanges(x, s) PROVE Inv'
  <2>1. UNCHANGED <<frame, queue, loop, req, pipe, asked>>
    BY <1>4 DEF TableChanges, sourceVars, clientVars, daemonVars
  <2>2. /\ DOMAIN mirrored' = Source /\ mirrored'["agent"] \subseteq Pty
        /\ mirrored'["bridge"] \subseteq Ssh
    BY <1>4 DEF TableChanges, Inv, Typed, Source
  <2>. QED BY <2>1, <2>2, QuietInv
<1>5. CASE AgentTakes \/ BridgeTakes
  BY <1>5, AgentTakesInv, BridgeTakesInv
<1>6. ASSUME NEW n \in Number, RequestStep(n) \/ WriteFails(n) PROVE Inv'
  BY <1>6, RequestStepInv, WritesInv DEF RequestStep
<1>7. CASE DaemonServes
  BY <1>7, DaemonServesInv
<1>8. CASE ReaderTakes
  BY <1>8, ReaderInv
<1>9. CASE UNCHANGED vars
  BY <1>9, QuietInv DEF vars, sourceVars, clientVars, daemonVars, Inv, Typed
<1>. QED BY <1>1, <1>2, <1>3, <1>4, <1>5, <1>6, <1>7, <1>8, <1>9 DEF Next

\* KeysInOrder: whatever is lost on a link, given up or found gone on the way,
\* no frame is asked twice, and nothing that the page sent about a session after
\* a key is asked before that key (main.rs 287-297, 343-348; daemon.rs 126-175).
THEOREM InOrder == Spec => []KeysInOrder
<1>1. Inv => KeysInOrder
  <2>. SUFFICES ASSUME Inv PROVE KeysInOrder
    OBVIOUS
  <2>1. asked \in Seq(Sent) /\ DOMAIN asked = 1..Len(asked)
    BY DEF Inv, Typed
  <2>. QED BY <2>1 DEF Inv, OrderInv, AskedOrdered, Ordered, KeysInOrder
<1>. QED BY <1>1, InitInv, StepInv, PTL DEF Spec

-----------------------------------------------------------------------------
\* The data path of the agent (PtyMirror): no gap on the screen that is not
\* marked to be resent.

\* A sequence of chunks without a gap, known by its last chunk.
End(s) == IF s = <<>> THEN 0 ELSE s[Len(s)]
Run(s) ==
    /\ \A i \in 1..Len(s) : s[i] = End(s) - Len(s) + i
    /\ s # <<>> => Len(s) <= End(s)

\* The chunks that the pump has taken, or that came with the attach.
Pumped == out - Len(ev)

Frame == [t : {"data", "attached"}, body : Seq(Nat)]
Task(pcs) == [pc : pcs, body : Seq(Nat)]
MirrorTyped ==
    /\ out \in Nat /\ ev \in Seq(Nat) /\ ring \in Seq(Nat) /\ screen \in Seq(Nat)
    /\ {subscribed, known, dirty, linked, torn, online, mounted} \subseteq BOOLEAN
    /\ chan \in Seq(Frame) /\ inbox \in Nat
    /\ pump \in Task({"idle", "send", "mark"})
    /\ poll \in Task({"idle", "asking", "asked", "announce", "drain", "copy", "heal"})
    /\ replay \in Task({"idle", "copy", "send"})

\* The events begin with the subscription, and what is left of them follows what
\* the pump has in hand.
Stream ==
    /\ known \/ poll.pc = "asked" => subscribed
    /\ ~subscribed => ev = <<>> /\ pump.pc = "idle"
    /\ Len(ev) <= out
    /\ \A i \in 1..Len(ev) : ev[i] = Pumped + i
    /\ pump.pc # "idle" => pump.body = <<Pumped>> /\ Pumped > 0

\* The last chunk that the screen will show once the frames have arrived.
Carried == IF pump.pc = "send" THEN Pumped - 1 ELSE Pumped

\* A data frame carries a chunk; before the first one an empty snapshot is in
\* step, and finds the screen and the frames before it empty.
DataFrames == \A i \in 1..Len(chan) : chan[i].t = "data" => Len(chan[i].body) = 1
Bare(q, s) == s = <<>> /\ \A i \in 1..Len(q) : q[i].body = <<>>
Unsent == Carried = 0 /\ ~torn => Bare(chan, screen)

\* A snapshot will be sent, or the screen is known to lack something.
Resends ==
    \/ dirty \/ ~linked \/ ~online \/ ~known \/ inbox > 0 \/ replay.pc # "idle"
    \/ pump.pc = "mark" \/ poll.pc \in {"announce", "copy", "heal"}

\* Of the frames q and a screen s: from the k-th frame on, a snapshot, or from
\* the screen on if k is 0, every frame is a run, a frame with data continues
\* what is before it, up to the chunk x, and a snapshot that is empty finds
\* nothing that it would have to paint over.
Runs(q, k) == \A j \in 1..Len(q) : j >= k => Run(q[j].body)
Blanks(q, s, k) ==
    \A j \in 1..Len(q) : j >= k /\ q[j].body = <<>>
        => s = <<>> /\ \A i \in 1..j : q[i].body = <<>>
Continues(q, s, x, k) ==
    /\ k = 0 => /\ Run(s)
                /\ q = <<>> => End(s) = x
                /\ q # <<>> /\ q[1].t = "data" => End(q[1].body) = End(s) + 1
    /\ k > 0 => q[k].t = "attached"
    /\ \A j \in k+1..Len(q) : j > 1 /\ q[j].t = "data" => End(q[j].body) = End(q[j - 1].body) + 1
    /\ q # <<>> => End(q[Len(q)].body) = x
    /\ Runs(q, k) /\ Blanks(q, s, k)
Gapless == \E k \in 0..Len(chan) : Continues(chan, screen, Carried, k)
Healed == Resends \/ torn \/ FullScreen \/ Gapless

MirrorInv == MirrorTyped /\ Stream /\ DataFrames /\ Unsent /\ Healed

-----------------------------------------------------------------------------
\* Runs.
LEMMA EmptyRun == Run(<<>>) /\ End(<<>>) = 0
BY DEF Run, End

LEMMA RunEnds ==
    ASSUME NEW s \in Seq(Nat), Run(s)
    PROVE  End(s) \in Nat /\ (s = <<>> <=> End(s) = 0)
<1>1. CASE s = <<>>
  BY <1>1 DEF End
<1>2. CASE s # <<>>
  <2>1. Len(s) \in Nat \ {0} /\ End(s) = s[Len(s)] /\ s[Len(s)] \in Nat /\ Len(s) <= End(s)
    BY <1>2 DEF Run, End
  <2>. QED BY <1>2, <2>1
<1>. QED BY <1>1, <1>2

LEMMA RunGrows ==
    ASSUME NEW s \in Seq(Nat), Run(s), NEW c \in Nat, c = End(s) + 1
    PROVE  /\ Append(s, c) \in Seq(Nat) /\ Run(Append(s, c)) /\ End(Append(s, c)) = c
           /\ s \o <<c>> = Append(s, c)
<1>. DEFINE t == Append(s, c)
<1>1. t \in Seq(Nat) /\ Len(t) = Len(s) + 1 /\ t # <<>>
      /\ t[Len(t)] = c /\ \A i \in 1..Len(s) : t[i] = s[i]
  OBVIOUS
<1>2. End(t) = c
  BY <1>1 DEF End
<1>3. s = <<>> \/ Len(s) <= End(s)
  BY DEF Run
<1>4. Len(t) <= c
  BY <1>1, <1>3, RunEnds
<1>5. \A i \in 1..Len(t) : t[i] = c - Len(t) + i
  <2>. SUFFICES ASSUME NEW i \in 1..Len(t) PROVE t[i] = c - Len(t) + i
    OBVIOUS
  <2>1. CASE i = Len(t)
    BY <1>1, <2>1
  <2>2. CASE i # Len(t)
    <3>1. i \in 1..Len(s) /\ t[i] = s[i] /\ s[i] = End(s) - Len(s) + i
      BY <1>1, <2>2 DEF Run
    <3>. QED BY <1>1, <3>1, RunEnds
  <2>. QED BY <2>1, <2>2
<1>6. s \o <<c>> = t
  OBVIOUS
<1>. QED BY <1>1, <1>2, <1>4, <1>5, <1>6 DEF Run

LEMMA NewestType ==
    ASSUME NEW s \in Seq(Nat)
    PROVE  Newest(s) \in Seq(Nat)
<1>. DEFINE m == IF Len(s) > RingCap THEN Len(s) - RingCap + 1 ELSE 1
<1>1. Newest(s) = SubSeq(s, m, Len(s)) /\ RingCap \in Nat \ {0} /\ Len(s) \in Nat
  BY CapAssumption DEF Newest
<1>2. CASE s = <<>>
  BY <1>1, <1>2
<1>3. CASE s # <<>>
  <2>1. m \in 1..Len(s) /\ Len(s) \in 1..Len(s)
    BY <1>1, <1>3
  <2>. HIDE DEF m
  <2>. QED BY <1>1, <2>1, SubSeqProperties
<1>. QED BY <1>2, <1>3

LEMMA WrittenType ==
    ASSUME out \in Nat
    PROVE  Written \in Seq(Nat)
BY DEF Written

-----------------------------------------------------------------------------
\* What a frame that is queued, and one that arrives, make of the frames.
LEMMA FrameData ==
    ASSUME NEW c \in Nat \ {0}
    PROVE  /\ Data(c) \in Frame /\ Data(c).t = "data" /\ Data(c).body = <<c>>
           /\ Run(<<c>>) /\ End(<<c>>) = c
BY DEF Data, Frame, Run, End

LEMMA FrameAttached ==
    ASSUME NEW b \in Seq(Nat)
    PROVE  Attached(b) \in Frame /\ Attached(b).t = "attached" /\ Attached(b).body = b
BY DEF Attached, Frame

LEMMA FrameQueued ==
    ASSUME NEW q \in Seq(Frame), NEW f \in Frame
    PROVE  /\ Append(q, f) \in Seq(Frame) /\ Len(Append(q, f)) = Len(q) + 1 /\ Len(q) \in Nat
           /\ Append(q, f) # <<>> /\ Append(q, f)[Len(q) + 1] = f
           /\ \A i \in 1..Len(q) : Append(q, f)[i] = q[i]
BY AppendProperties

LEMMA DataContinues ==
    ASSUME NEW q \in Seq(Frame), NEW s, NEW x \in Nat, NEW k \in 0..Len(q),
           Continues(q, s, x, k)
    PROVE  Continues(Append(q, Data(x + 1)), s, x + 1, k)
<1>. DEFINE p == Append(q, Data(x + 1))
<1>a. x + 1 \in Nat \ {0}
  OBVIOUS
<1>0. /\ Data(x + 1) \in Frame /\ Data(x + 1).t = "data" /\ End(Data(x + 1).body) = x + 1
      /\ Run(Data(x + 1).body) /\ Data(x + 1).body # <<>>
  <2>1. /\ Data(x + 1) \in Frame /\ Data(x + 1).t = "data" /\ Data(x + 1).body = <<x + 1>>
        /\ Run(<<x + 1>>) /\ End(<<x + 1>>) = x + 1
    BY <1>a, FrameData
  <2>2. <<x + 1>> # <<>>
    OBVIOUS
  <2>. QED BY <2>1, <2>2, Zenon
<1>1. /\ p \in Seq(Frame) /\ Len(p) = Len(q) + 1 /\ p # <<>> /\ Len(q) \in Nat
      /\ p[Len(p)] = Data(x + 1) /\ \A i \in 1..Len(q) : p[i] = q[i]
  BY <1>0, FrameQueued
<1>. HIDE DEF p
<1>2. \A j \in 1..Len(p) : j = Len(p) \/ (j \in 1..Len(q) /\ p[j] = q[j])
  BY <1>1
<1>3. Runs(p, k) /\ Blanks(p, s, k)
  <2>1. Runs(p, k)
    BY <1>0, <1>1, <1>2 DEF Continues, Runs
  <2>2. ASSUME NEW j \in 1..Len(p), j >= k, p[j].body = <<>>
        PROVE  s = <<>> /\ \A i \in 1..j : p[i].body = <<>>
    <3>1. j \in 1..Len(q) /\ p[j] = q[j]
      BY <1>0, <1>1, <1>2, <2>2
    <3>2. s = <<>> /\ \A i \in 1..j : q[i].body = <<>>
      BY <2>2, <3>1 DEF Continues, Blanks
    <3>3. \A i \in 1..j : p[i] = q[i]
      BY <1>1, <3>1
    <3>. QED BY <3>2, <3>3
  <2>. QED BY <2>1, <2>2 DEF Blanks
<1>4. CASE q = <<>>
  <2>1. k = 0 /\ Run(s) /\ End(s) = x /\ Len(p) = 1
    BY <1>1, <1>4 DEF Continues
  <2>. QED BY <1>0, <1>1, <1>3, <2>1 DEF Continues, p
<1>5. CASE q # <<>>
  <2>1. Len(q) >= 1 /\ p[1] = q[1] /\ (k > 0 => p[k] = q[k]) /\ k \in Nat
    BY <1>1, <1>5
  <2>2. ASSUME NEW j \in k+1..Len(p), j > 1, p[j].t = "data"
        PROVE  End(p[j].body) = End(p[j - 1].body) + 1
    <3>1. CASE j = Len(p)
      <4>1. p[j - 1] = q[Len(q)]
        BY <1>1, <2>1, <3>1
      <4>. QED BY <1>0, <1>1, <1>5, <3>1, <4>1 DEF Continues
    <3>2. CASE j # Len(p)
      <4>1. j \in k+1..Len(q) /\ p[j] = q[j] /\ p[j - 1] = q[j - 1]
        BY <1>1, <2>1, <2>2, <3>2, SMTT(30)
      <4>. QED BY <2>2, <4>1 DEF Continues
    <3>. QED BY <3>1, <3>2
  <2>. QED BY <1>0, <1>1, <1>3, <1>5, <2>1, <2>2 DEF Continues, p
<1>. QED BY <1>4, <1>5

\* A snapshot in step is queued: from it on nothing is missing.
LEMMA AttachedContinues ==
    ASSUME NEW q \in Seq(Frame), NEW s, NEW b \in Seq(Nat), Run(b), b = <<>> => Bare(q, s)
    PROVE  \E k \in 0..Len(Append(q, Attached(b))) :
              Continues(Append(q, Attached(b)), s, End(b), k)
<1>. DEFINE p == Append(q, Attached(b))
            k == Len(q) + 1
<1>1. /\ p \in Seq(Frame) /\ Len(p) = k /\ p # <<>> /\ Len(q) \in Nat /\ k \in Nat /\ k > 0
      /\ p[k].t = "attached" /\ p[k].body = b /\ \A i \in 1..Len(q) : p[i] = q[i]
  <2>1. Attached(b) \in Frame /\ Attached(b).t = "attached" /\ Attached(b).body = b
    BY FrameAttached
  <2>. QED BY <2>1, FrameQueued
<1>2. \A j \in 1..Len(p) : j >= k => j = k
  BY <1>1
<1>3. \A i \in 1..k : i = k \/ i \in 1..Len(q)
  BY <1>1
<1>. HIDE DEF p, k
<1>4. Runs(p, k)
  BY <1>1, <1>2 DEF Runs
<1>5. Blanks(p, s, k)
  BY <1>1, <1>2, <1>3 DEF Blanks, Bare
<1>6. Continues(p, s, End(b), k)
  BY <1>1, <1>4, <1>5 DEF Continues
<1>. QED BY <1>1, <1>6 DEF p

\* The screen after the next frame: what it carries follows, or replaces, what
\* was shown.
LEMMA NextContinues ==
    ASSUME NEW q \in Seq(Frame), q # <<>>, NEW s \in Seq(Nat), NEW x \in Nat, NEW k \in 0..Len(q),
           Continues(q, s, x, k), NEW z,
           \/ Head(q).t = "attached" /\ z = Head(q).body
           \/ Head(q).t = "attached" /\ z = s /\ Head(q).body = <<>>
           \/ /\ Head(q).t = "data" /\ Head(q).body # <<>>
              /\ Run(s) /\ End(Head(q).body) = End(s) + 1
                    => Run(z) /\ End(z) = End(Head(q).body)
    PROVE  \E n \in 0..Len(Tail(q)) : Continues(Tail(q), z, x, n)
<1>. DEFINE p == Tail(q)
<1>1. /\ Len(q) \in Nat \ {0} /\ Len(p) = Len(q) - 1 /\ p \in Seq(Frame)
      /\ \A i \in 1..Len(p) : p[i] = q[i + 1]
  BY HeadTailProperties
<1>. HIDE DEF p
<1>c. Head(q) = q[1]
  OBVIOUS
<1>d. p = <<>> <=> Len(q) = 1
  <2>1. p # <<>> => Len(p) \in Nat \ {0}
    BY <1>1, EmptySeq
  <2>2. Len(<<>>) = 0
    BY EmptySeq
  <2>. QED BY <1>1, <2>1, <2>2
<1>b. Head(q) = q[1] /\ (p = <<>> <=> Len(q) = 1)
  BY <1>c, <1>d
<1>2. ASSUME NEW n \in 0..Len(p), k <= n + 1, NEW j \in n+1..Len(p), j > 1, p[j].t = "data"
      PROVE  End(p[j].body) = End(p[j - 1].body) + 1
  <2>1. j + 1 \in k+1..Len(q) /\ j + 1 > 1 /\ p[j] = q[j + 1] /\ p[j - 1] = q[j] /\ (j + 1) - 1 = j
    <3>0. k \in Nat /\ n \in Nat /\ Len(p) \in Nat /\ j \in Nat
      BY <1>1, <1>2
    <3>1. j \in Nat /\ j + 1 \in k+1..Len(q) /\ j \in 1..Len(p) /\ j - 1 \in 1..Len(p)
      BY <1>1, <1>2, <3>0
    <3>2. p[j] = q[j + 1] /\ p[j - 1] = q[(j - 1) + 1] /\ (j - 1) + 1 = j /\ (j + 1) - 1 = j
      BY <1>1, <3>1
    <3>. QED BY <1>2, <3>1, <3>2, SMTT(30)
  <2>. QED BY <1>2, <2>1 DEF Continues
<1>3. p # <<>> => End(p[Len(p)].body) = x
  <2>. SUFFICES ASSUME p # <<>> PROVE End(p[Len(p)].body) = x
    OBVIOUS
  <2>1. Len(p) \in 1..Len(p) /\ p[Len(p)] = q[Len(q)]
    BY <1>1
  <2>. QED BY <2>1 DEF Continues
<1>e. q[1].body = <<>> /\ s = <<>> => z = <<>>
  BY <1>c
<1>f. ASSUME NEW n \in 0..Len(p), k <= n + 1 PROVE Runs(p, n) /\ Blanks(p, z, n)
  <2>1. ASSUME NEW j \in 1..Len(p), j >= n
        PROVE  j + 1 \in 1..Len(q) /\ j + 1 >= k /\ p[j] = q[j + 1] /\ j \in Nat
    BY <1>1, <1>f, <2>1
  <2>2. Runs(p, n)
    BY <2>1 DEF Continues, Runs
  <2>3. ASSUME NEW j \in 1..Len(p), j >= n, p[j].body = <<>>
        PROVE  z = <<>> /\ \A i \in 1..j : p[i].body = <<>>
    <3>1. s = <<>> /\ \A i \in 1..j + 1 : q[i].body = <<>>
      BY <2>1, <2>3 DEF Continues, Blanks
    <3>2. ASSUME NEW i \in 1..j PROVE p[i].body = <<>>
      <4>1. i \in 1..Len(p) /\ i + 1 \in 1..j + 1
        BY <1>1, <2>1
      <4>. QED BY <1>1, <3>1, <4>1
    <3>3. q[1].body = <<>>
      BY <2>1, <3>1
    <3>. QED BY <1>e, <3>1, <3>2, <3>3
  <2>. QED BY <2>2, <2>3 DEF Blanks
<1>4. CASE k <= 1
  <2>0. Run(q[1].body) /\ (q[1].body = <<>> => s = <<>>)
    BY <1>1, <1>4 DEF Continues, Runs, Blanks
  <2>1. Run(z) /\ End(z) = End(q[1].body)
    <3>1. CASE q[1].t = "data"
      <4>1. k = 0
        BY <1>1, <1>4, <3>1 DEF Continues
      <4>. QED BY <1>1, <3>1, <4>1 DEF Continues
    <3>2. CASE q[1].t # "data"
      BY <1>1, <2>0, <3>2
    <3>. QED BY <3>1, <3>2
  <2>2. p = <<>> => End(z) = x
    BY <1>1, <1>b, <2>1 DEF Continues
  <2>3. p # <<>> /\ p[1].t = "data" => End(p[1].body) = End(z) + 1
    <3>. SUFFICES ASSUME p # <<>>, p[1].t = "data" PROVE End(p[1].body) = End(z) + 1
      OBVIOUS
    <3>1. 2 \in k+1..Len(q) /\ p[1] = q[2]
      BY <1>1, <1>4
    <3>. QED BY <2>1, <3>1 DEF Continues
  <2>4. 0 \in 0..Len(p) /\ k <= 0 + 1
    BY <1>1, <1>4
  <2>5. Continues(p, z, x, 0)
    BY <1>2, <1>3, <1>f, <2>1, <2>2, <2>3, <2>4 DEF Continues
  <2>. QED BY <2>4, <2>5 DEF p
<1>5. CASE k > 1
  <2>1. k - 1 \in 0..Len(p) /\ k - 1 > 0 /\ k - 1 # 0 /\ p[k - 1] = q[k] /\ k <= (k - 1) + 1
    BY <1>1, <1>5
  <2>2. q[k].t = "attached"
    BY <1>5 DEF Continues
  <2>3. Continues(p, z, x, k - 1)
    BY <1>2, <1>3, <1>f, <2>1, <2>2 DEF Continues
  <2>. QED BY <2>1, <2>3 DEF p
<1>. QED BY <1>1, <1>4, <1>5

-----------------------------------------------------------------------------
LEMMA TaskRecs ==
    ASSUME NEW pcs, NEW pc \in pcs, NEW b \in Seq(Nat)
    PROVE  At(pc, b) \in Task(pcs) /\ At(pc, b).pc = pc /\ At(pc, b).body = b
BY DEF At, Task

LEMMA WaitingRec ==
    /\ Waiting.pc = "idle" /\ Waiting.body = <<>>
    /\ \A pcs : "idle" \in pcs => Waiting \in Task(pcs)
BY DEF Waiting, Task

LEMMA NextIs ==
    ASSUME MirrorInv
    PROVE  Pumped \in Nat /\ Carried \in Nat /\ NextChunk = Carried + 1
<1>1. out \in Nat /\ ev \in Seq(Nat) /\ Len(ev) \in Nat /\ Len(ev) <= out /\ Pumped \in Nat
  BY DEF MirrorInv, MirrorTyped, Stream, Pumped
<1>2. pump.pc = "send" => Head(pump.body) = Pumped /\ Pumped > 0
  BY DEF MirrorInv, Stream
<1>. QED BY <1>1, <1>2 DEF NextChunk, Carried, Pumped

\* A snapshot in step is a run up to the last chunk that was sent.
LEMMA InStepRun ==
    ASSUME MirrorInv, NEW s \in Seq(Nat), InStep(s)
    PROVE  Run(s) /\ End(s) = Carried /\ (Carried = 0 => s = <<>>)
<1>0. Carried \in Nat /\ NextChunk = Carried + 1 /\ NextChunk - 1 = Carried
  BY NextIs
<1>1. /\ Len(s) <= Carried /\ Carried \in Nat /\ Len(s) \in Nat
      /\ \A i \in 1..Len(s) : s[i] = Carried - Len(s) + i
      /\ s = <<>> => Carried = 0
  <2>1. Len(s) < NextChunk /\ (\A i \in 1..Len(s) : s[i] = NextChunk - 1 - Len(s) + i)
        /\ (s = <<>> => NextChunk = 1)
    BY DEF InStep
  <2>2. Len(s) \in Nat
    OBVIOUS
  <2>. QED BY <1>0, <2>1, <2>2
<1>2. CASE s = <<>>
  BY <1>1, <1>2, EmptyRun
<1>3. CASE s # <<>>
  <2>1. Len(s) \in 1..Len(s) /\ End(s) = s[Len(s)]
    BY <1>1, <1>3 DEF End
  <2>2. End(s) = Carried
    BY <1>1, <2>1
  <2>. QED BY <1>1, <1>3, <2>2 DEF Run
<1>. QED BY <1>2, <1>3

\* A step that sends nothing and leaves the pump and the screen alone, and that
\* ends a resend only by beginning another.
LEMMA QuietKeeps ==
    ASSUME MirrorInv, MirrorTyped',
           UNCHANGED <<out, subscribed, ev, chan, torn, pump, screen>>,
           known' \/ poll'.pc = "asked" => subscribed,
           Resends => Resends'
    PROVE  MirrorInv'
<1>1. Pumped' = Pumped /\ Carried' = Carried
  BY DEF Pumped, Carried
<1>2. Stream' /\ DataFrames'
  BY <1>1 DEF MirrorInv, Stream, DataFrames
<1>3. Unsent'
  BY <1>1 DEF MirrorInv, Unsent, Bare
<1>4. Gapless => Gapless'
  BY <1>1 DEF Gapless
<1>5. Healed'
  BY <1>4 DEF MirrorInv, Healed
<1>. QED BY <1>2, <1>3, <1>5 DEF MirrorInv

\* A snapshot that is queued fits, and nothing is missing from it on, or it does
\* not, which `torn` remembers.
LEMMA SnapshotKeeps ==
    ASSUME MirrorInv, NEW s \in Seq(Nat), NEW lost \in BOOLEAN, Snapshot(s, lost), torn => lost,
           UNCHANGED <<out, ev, pump, screen>>
    PROVE  /\ chan' \in Seq(Frame) /\ torn' \in BOOLEAN /\ DataFrames' /\ Unsent'
           /\ CanSend => torn' \/ Gapless'
           /\ ~CanSend => torn' = lost
<1>t. chan \in Seq(Frame) /\ torn \in BOOLEAN /\ screen \in Seq(Nat) /\ DataFrames /\ Unsent
  BY DEF MirrorInv, MirrorTyped
<1>1. Pumped' = Pumped /\ Carried' = Carried
  BY DEF Pumped, Carried
<1>2. CASE CanSend
  <2>1. chan' = Append(chan, Attached(s)) /\ torn' = (~InStep(s) \/ (torn /\ s = <<>>))
    BY <1>2 DEF Snapshot, Send
  <2>2. Attached(s) \in Frame /\ Attached(s).t = "attached" /\ Attached(s).body = s
    BY FrameAttached
  <2>3. /\ chan' \in Seq(Frame) /\ Len(chan') = Len(chan) + 1 /\ Len(chan) \in Nat
        /\ chan'[Len(chan) + 1] = Attached(s) /\ \A i \in 1..Len(chan) : chan'[i] = chan[i]
    BY <1>t, <2>1, <2>2, FrameQueued
  <2>4. \A i \in 1..Len(chan') : i = Len(chan) + 1 \/ i \in 1..Len(chan)
    BY <2>3
  <2>5. DataFrames'
    BY <1>t, <2>2, <2>3, <2>4 DEF DataFrames
  <2>6. ASSUME ~torn' PROVE InStep(s) /\ (s = <<>> => Carried = 0 /\ Bare(chan, screen))
    <3>1. InStep(s) /\ (s = <<>> => ~torn)
      BY <2>1, <2>6
    <3>2. s = <<>> => Carried = 0
      BY <3>1, NextIs DEF InStep
    <3>. QED BY <1>t, <3>1, <3>2 DEF Unsent
  <2>7. Unsent'
    <3>. SUFFICES ASSUME Carried = 0, ~torn' PROVE Bare(chan', screen)
      BY <1>1 DEF Unsent, Bare
    <3>1. s = <<>> /\ Bare(chan, screen)
      BY <2>6, InStepRun
    <3>. QED BY <2>2, <2>3, <2>4, <3>1 DEF Bare
  <2>8. ASSUME ~torn' PROVE Gapless'
    <3>1. Run(s) /\ End(s) = Carried
      BY <2>6, <2>8, InStepRun
    <3>2. \E k \in 0..Len(chan') : Continues(chan', screen, Carried, k)
      BY <1>t, <2>1, <2>6, <2>8, <3>1, AttachedContinues
    <3>. QED BY <1>1, <3>2 DEF Gapless
  <2>. QED BY <1>2, <2>1, <2>3, <2>5, <2>7, <2>8
<1>3. CASE ~CanSend
  <2>1. chan' = chan /\ torn' = lost
    BY <1>3 DEF Snapshot, Send
  <2>. QED BY <1>1, <1>3, <1>t, <2>1 DEF DataFrames, Unsent, Bare
<1>. QED BY <1>2, <1>3

LEMMA OutputKeeps ==
    ASSUME MirrorInv, Output
    PROVE  MirrorInv'
<1>1. /\ out' = out + 1
      /\ ev' = IF subscribed THEN Append(ev, out + 1) ELSE ev
      /\ UNCHANGED <<subscribed, known, ring, dirty, linked, chan, torn, pump, poll, replay, inbox,
                     online, screen, mounted>>
  BY DEF Output, ringVars, chanVars, browserVars
<1>t. out \in Nat /\ ev \in Seq(Nat) /\ Len(ev) <= out /\ Len(ev) \in Nat
  BY DEF MirrorInv, MirrorTyped, Stream
<1>2. MirrorTyped' /\ DataFrames'
  BY <1>1, <1>t DEF MirrorInv, MirrorTyped, DataFrames
<1>4. CASE subscribed
  <2>1. ev' = Append(ev, out + 1) /\ Len(ev') = Len(ev) + 1 /\ Pumped' = Pumped
    BY <1>1, <1>t, <1>4 DEF Pumped
  <2>2. \A i \in 1..Len(ev') : ev'[i] = Pumped + i
    <3>. SUFFICES ASSUME NEW i \in 1..Len(ev') PROVE ev'[i] = Pumped + i
      OBVIOUS
    <3>1. CASE i = Len(ev')
      BY <1>t, <2>1, <3>1 DEF Pumped
    <3>2. CASE i # Len(ev')
      <4>1. i \in 1..Len(ev) /\ ev'[i] = ev[i]
        BY <1>t, <2>1, <3>2
      <4>. QED BY <4>1 DEF MirrorInv, Stream
    <3>. QED BY <3>1, <3>2
  <2>3. Stream'
    BY <1>1, <1>4, <1>t, <2>1, <2>2 DEF MirrorInv, Stream
  <2>4. Carried' = Carried /\ Resends' = Resends
    BY <1>1, <2>1 DEF Carried, Resends
  <2>5. Unsent' /\ Healed'
    BY <1>1, <2>4 DEF MirrorInv, Unsent, Bare, Healed, Gapless
  <2>. QED BY <1>2, <2>3, <2>5 DEF MirrorInv
<1>5. CASE ~subscribed
  <2>1. ~known /\ pump.pc = "idle" /\ ev = <<>> /\ poll.pc # "asked"
    BY <1>5 DEF MirrorInv, Stream
  <2>2. Stream' /\ Healed'
    BY <1>1, <1>t, <1>5, <2>1 DEF MirrorInv, Stream, Healed, Resends
  <2>3. Carried' = out + 1 /\ Carried' # 0
    BY <1>1, <1>t, <1>5, <2>1 DEF Carried, Pumped
  <2>. QED BY <1>2, <2>2, <2>3 DEF MirrorInv, Unsent
<1>. QED BY <1>4, <1>5

LEMMA PumpTakesKeeps ==
    ASSUME MirrorInv, PumpTakes
    PROVE  MirrorInv'
<1>1. /\ pump.pc = "idle" /\ ev # <<>> /\ ev' = Tail(ev)
      /\ ring' = IF known THEN Grown(Head(ev)) ELSE ring
      /\ pump' = At("send", <<Head(ev)>>)
      /\ UNCHANGED <<out, subscribed, known, dirty, linked, chan, torn, poll, replay, inbox, online,
                     screen, mounted>>
  BY DEF PumpTakes, outVars, chanVars, browserVars
<1>t. out \in Nat /\ ev \in Seq(Nat) /\ Len(ev) <= out /\ ring \in Seq(Nat)
  BY DEF MirrorInv, MirrorTyped, Stream
<1>2. /\ Len(ev) \in Nat \ {0} /\ ev' \in Seq(Nat) /\ Len(ev') = Len(ev) - 1 /\ Head(ev) = ev[1]
      /\ \A i \in 1..Len(ev') : ev'[i] = ev[i + 1]
  BY <1>1, <1>t
<1>3. Pumped \in Nat /\ Pumped' = Pumped + 1 /\ Pumped' \in Nat \ {0} /\ Head(ev) = Pumped'
  <2>1. ev[1] = Pumped + 1
    BY <1>2 DEF MirrorInv, Stream
  <2>2. Pumped \in Nat /\ Pumped' = Pumped + 1
    BY <1>1, <1>2, <1>t DEF Pumped
  <2>. QED BY <1>2, <2>1, <2>2
<1>4. ring' \in Seq(Nat)
  <2>1. Append(ring, Head(ev)) \in Seq(Nat)
    BY <1>3, <1>t
  <2>. QED BY <1>1, <1>t, <2>1, NewestType DEF Grown
<1>5. /\ pump' \in Task({"idle", "send", "mark"}) /\ pump'.pc = "send" /\ pump'.body = <<Pumped'>>
  <2>1. <<Pumped'>> \in Seq(Nat)
    BY <1>3
  <2>2. "send" \in {"idle", "send", "mark"}
    OBVIOUS
  <2>3. LET p == At("send", <<Pumped'>>) IN
        p \in Task({"idle", "send", "mark"}) /\ p.pc = "send" /\ p.body = <<Pumped'>>
    BY <2>1, <2>2, TaskRecs
  <2>. QED BY <1>1, <1>3, <2>3
<1>6. MirrorTyped' /\ DataFrames'
  BY <1>1, <1>2, <1>4, <1>5 DEF MirrorInv, MirrorTyped, DataFrames
<1>7. Stream'
  <2>1. ASSUME NEW i \in 1..Len(ev') PROVE ev'[i] = Pumped' + i
    <3>1. i + 1 \in 1..Len(ev) /\ ev'[i] = ev[i + 1]
      BY <1>2
    <3>. QED BY <1>2, <1>3, <3>1 DEF MirrorInv, Stream
  <2>2. Len(ev') <= out' /\ subscribed
    BY <1>1, <1>2, <1>t DEF MirrorInv, Stream
  <2>3. pump'.pc # "idle" => pump'.body = <<Pumped'>> /\ Pumped' > 0
    BY <1>3, <1>5
  <2>4. \A i \in 1..Len(ev') : ev'[i] = Pumped' + i
    BY <2>1
  <2>. HIDE <2>1
  <2>. QED BY <1>1, <2>2, <2>3, <2>4 DEF Stream
<1>9. Unsent' /\ Healed'
  <2>1. Carried' = Carried
    BY <1>1, <1>3, <1>5 DEF Carried
  <2>2. Resends => Resends'
    BY <1>1 DEF Resends
  <2>. QED BY <1>1, <2>1, <2>2 DEF MirrorInv, Unsent, Bare, Healed, Gapless
<1>. QED BY <1>6, <1>7, <1>9 DEF MirrorInv

\* A dropped frame leaves the pump with a mark to make.
LEMMA PumpSendsKeeps ==
    ASSUME MirrorInv, PumpSends
    PROVE  MirrorInv'
<1>1. /\ pump.pc = "send" /\ pump.body = <<Pumped>> /\ Pumped > 0 /\ Send(Data(Head(pump.body)))
      /\ pump' = IF CanSend THEN Waiting ELSE At("mark", pump.body)
      /\ UNCHANGED <<out, subscribed, ev, known, ring, dirty, linked, torn, poll, replay, inbox, online,
                     screen, mounted>>
  BY DEF PumpSends, outVars, ringVars, browserVars, MirrorInv, Stream
<1>t. Pumped \in Nat \ {0} /\ Pumped' = Pumped /\ chan \in Seq(Frame) /\ pump.body \in Seq(Nat)
  BY <1>1, NextIs DEF MirrorInv, MirrorTyped, Pumped, Task
<1>2. /\ pump' \in Task({"idle", "send", "mark"}) /\ pump'.pc = IF CanSend THEN "idle" ELSE "mark"
      /\ ~CanSend => pump'.body = pump.body
  <2>1. /\ At("mark", pump.body) \in Task({"idle", "send", "mark"})
        /\ At("mark", pump.body).pc = "mark" /\ At("mark", pump.body).body = pump.body
    BY <1>t DEF At, Task
  <2>. QED BY <1>1, <2>1, WaitingRec
<1>3. Carried = Pumped - 1 /\ Carried' = Pumped /\ Carried' # 0
  BY <1>1, <1>2, <1>t DEF Carried
<1>4. Stream' /\ Unsent'
  BY <1>1, <1>2, <1>3, <1>t DEF MirrorInv, Stream, Unsent
<1>5. CASE CanSend
  <2>1. chan' = Append(chan, Data(Pumped))
    BY <1>1, <1>5 DEF Send
  <2>2. Data(Pumped) \in Frame /\ Len(Data(Pumped).body) = 1
    <3>1. Data(Pumped) \in Frame /\ Data(Pumped).body = <<Pumped>>
      BY <1>t, FrameData
    <3>. QED BY <3>1
  <2>3. /\ chan' \in Seq(Frame) /\ Len(chan') = Len(chan) + 1 /\ Len(chan) \in Nat
        /\ chan'[Len(chan) + 1] = Data(Pumped) /\ \A i \in 1..Len(chan) : chan'[i] = chan[i]
    BY <1>t, <2>1, <2>2, FrameQueued
  <2>4. \A i \in 1..Len(chan') : i = Len(chan) + 1 \/ i \in 1..Len(chan)
    BY <2>3
  <2>5. DataFrames' /\ MirrorTyped'
    BY <1>1, <1>2, <2>2, <2>3, <2>4 DEF MirrorInv, MirrorTyped, DataFrames
  <2>6. ASSUME Gapless PROVE Gapless'
    <3>1. PICK k \in 0..Len(chan) : Continues(chan, screen, Carried, k)
      BY <2>6 DEF Gapless
    <3>2. Carried \in Nat /\ Pumped = Carried + 1
      BY <1>3, <1>t
    <3>3. Continues(chan', screen', Carried', k)
      BY <1>1, <1>3, <1>t, <2>1, <3>1, <3>2, DataContinues
    <3>. QED BY <2>3, <3>3 DEF Gapless
  <2>7. Resends => Resends'
    BY <1>1, <1>2 DEF Resends
  <2>. QED BY <1>1, <1>4, <2>5, <2>6, <2>7 DEF MirrorInv, Healed
<1>6. CASE ~CanSend
  <2>1. chan' = chan
    BY <1>1, <1>6 DEF Send
  <2>2. MirrorTyped' /\ DataFrames' /\ Healed'
    BY <1>1, <1>2, <1>6, <2>1 DEF MirrorInv, MirrorTyped, DataFrames, Healed, Resends
  <2>. QED BY <1>4, <2>2 DEF MirrorInv
<1>. QED BY <1>5, <1>6

LEMMA PumpMarksKeeps ==
    ASSUME MirrorInv, PumpMarks
    PROVE  MirrorInv'
<1>1. /\ dirty' = TRUE /\ pump.pc = "mark" /\ pump' = Waiting
      /\ UNCHANGED <<out, subscribed, ev, known, ring, linked, chan, torn, poll, replay, inbox, online,
                     screen, mounted>>
  BY DEF PumpMarks, Marked, outVars, ringVars, chanVars, browserVars
<1>2. pump'.pc = "idle" /\ pump' \in Task({"idle", "send", "mark"})
  BY <1>1, WaitingRec
<1>3. Pumped' = Pumped /\ Carried' = Carried
  BY <1>1, <1>2 DEF Pumped, Carried
<1>4. MirrorTyped' /\ DataFrames' /\ Stream' /\ Unsent'
  BY <1>1, <1>2, <1>3 DEF MirrorInv, MirrorTyped, DataFrames, Stream, Unsent, Bare
<1>5. Healed'
  BY <1>1 DEF Healed, Resends
<1>. QED BY <1>4, <1>5 DEF MirrorInv

-----------------------------------------------------------------------------
\* The poll goes on without a frame: it lists, attaches, drains and copies.
LEMMA PollTickKeeps ==
    ASSUME MirrorInv, PollTick
    PROVE  MirrorInv'
<1>1. /\ poll.pc = "idle" /\ poll' = At(IF known THEN "drain" ELSE "asking", <<>>)
      /\ UNCHANGED <<out, subscribed, ev, known, ring, dirty, linked, chan, torn, pump, replay, inbox,
                     online, screen, mounted>>
  BY DEF PollTick, outVars, ringVars, chanVars, browserVars
<1>2. /\ poll' \in Task({"idle", "asking", "asked", "announce", "drain", "copy", "heal"})
      /\ poll'.pc \in {"drain", "asking"}
  BY <1>1 DEF At, Task
<1>3. MirrorTyped' /\ (Resends => Resends') /\ (known' \/ poll'.pc = "asked" => subscribed)
  BY <1>1, <1>2 DEF MirrorInv, MirrorTyped, Stream, Resends
<1>. QED BY <1>1, <1>3, QuietKeeps

LEMMA DaemonAttachesKeeps ==
    ASSUME MirrorInv, DaemonAttaches
    PROVE  MirrorInv'
<1>1. /\ poll.pc = "asking" /\ subscribed' = TRUE /\ poll' = At("asked", Newest(Written))
      /\ UNCHANGED <<out, ev, known, ring, dirty, linked, chan, torn, pump, replay, inbox, online, screen,
                     mounted>>
  BY DEF DaemonAttaches, ringVars, chanVars, browserVars
<1>2. Newest(Written) \in Seq(Nat)
  BY WrittenType, NewestType DEF MirrorInv, MirrorTyped
<1>3. /\ poll' \in Task({"idle", "asking", "asked", "announce", "drain", "copy", "heal"})
      /\ poll'.pc = "asked"
  BY <1>1, <1>2 DEF At, Task
<1>4. Pumped' = Pumped /\ Carried' = Carried /\ (Resends => Resends')
  BY <1>1 DEF Pumped, Carried, Resends
<1>5. MirrorTyped' /\ DataFrames' /\ Stream' /\ Unsent'
  BY <1>1, <1>3, <1>4 DEF MirrorInv, MirrorTyped, DataFrames, Stream, Unsent, Bare
<1>6. Healed'
  BY <1>1, <1>4 DEF MirrorInv, Healed, Gapless
<1>. QED BY <1>5, <1>6 DEF MirrorInv

LEMMA AttachReturnsKeeps ==
    ASSUME MirrorInv, AttachReturns
    PROVE  MirrorInv'
<1>1. /\ poll.pc = "asked" /\ known' = TRUE /\ ring' = poll.body /\ poll' = At("announce", poll.body)
      /\ UNCHANGED <<out, subscribed, ev, dirty, linked, chan, torn, pump, replay, inbox, online, screen,
                     mounted>>
  BY DEF AttachReturns, outVars, chanVars, browserVars
<1>2. poll.body \in Seq(Nat) /\ subscribed
  BY <1>1 DEF MirrorInv, MirrorTyped, Task, Stream
<1>3. /\ poll' \in Task({"idle", "asking", "asked", "announce", "drain", "copy", "heal"})
      /\ poll'.pc = "announce"
  BY <1>1, <1>2 DEF At, Task
<1>4. MirrorTyped' /\ Resends'
  BY <1>1, <1>2, <1>3 DEF MirrorInv, MirrorTyped, Resends
<1>. QED BY <1>1, <1>2, <1>4, QuietKeeps

LEMMA DrainKeeps ==
    ASSUME MirrorInv, Drain \/ HealCopies
    PROVE  MirrorInv'
<1>1. /\ poll.pc \in {"drain", "copy"}
      /\ UNCHANGED <<out, subscribed, ev, known, ring, linked, chan, torn, pump, replay, inbox, online,
                     screen, mounted>>
  BY DEF Drain, HealCopies, outVars, ringVars, chanVars, browserVars
<1>t. ring \in Seq(Nat) /\ dirty \in BOOLEAN
  BY DEF MirrorInv, MirrorTyped
<1>2. /\ poll' \in Task({"idle", "asking", "asked", "announce", "drain", "copy", "heal"})
      /\ dirty' \in BOOLEAN /\ poll'.pc # "asked"
      /\ \/ poll'.pc \in {"copy", "heal"}
         \/ poll.pc = "drain" /\ ~dirty /\ ~dirty'
  <2>. DEFINE pcs == {"idle", "asking", "asked", "announce", "drain", "copy", "heal"}
  <2>1. /\ At("copy", <<>>) \in Task(pcs) /\ At("copy", <<>>).pc = "copy"
        /\ At("heal", ring) \in Task(pcs) /\ At("heal", ring).pc = "heal"
        /\ Waiting \in Task(pcs) /\ Waiting.pc = "idle"
    BY <1>t DEF At, Waiting, Task
  <2>2. CASE Drain
    <3>1. /\ dirty' = FALSE /\ poll.pc = "drain"
          /\ \/ dirty /\ poll' = At("copy", <<>>)
             \/ ~dirty /\ poll' = Waiting
      BY <2>2 DEF Drain
    <3>. QED BY <2>1, <3>1
  <2>3. CASE HealCopies
    <3>1. dirty' = dirty /\ poll' = At("heal", ring)
      BY <2>3 DEF HealCopies
    <3>. QED BY <1>t, <2>1, <3>1
  <2>. QED BY <2>2, <2>3
<1>3. MirrorTyped' /\ (Resends => Resends') /\ (known' \/ poll'.pc = "asked" => subscribed)
  BY <1>1, <1>2 DEF MirrorInv, MirrorTyped, Stream, Resends
<1>. QED BY <1>1, <1>3, QuietKeeps

\* A poll's snapshot is sent: that of a heal unless the channel is full or gone,
\* which is remembered.
LEMMA PollSendsKeeps ==
    ASSUME MirrorInv, Announce \/ HealSends
    PROVE  MirrorInv'
<1>t. /\ poll.body \in Seq(Nat) /\ {torn, linked, dirty} \subseteq BOOLEAN
      /\ (torn \/ linked) \in BOOLEAN
  BY DEF MirrorInv, MirrorTyped, Task
<1>1. /\ UNCHANGED <<out, subscribed, ev, known, ring, linked, pump, replay, inbox, online, screen,
                     mounted>>
      /\ \E lost \in {torn, torn \/ linked} :
            /\ Snapshot(poll.body, lost)
            /\ ~CanSend => lost \/ ~linked \/ dirty'
  BY <1>t DEF Announce, HealSends, HealAgain, Forgotten, outVars, ringVars, browserVars
<1>2. /\ poll' \in Task({"idle", "asking", "asked", "announce", "drain", "copy", "heal"})
      /\ poll'.pc \in {"drain", "idle"} /\ dirty' \in BOOLEAN
  <2>1. poll' = At("drain", <<>>) \/ poll' = Waiting
    BY DEF Announce, HealSends
  <2>2. dirty' \in BOOLEAN
    BY <1>t DEF Announce, HealSends, HealAgain
  <2>. DEFINE pcs == {"idle", "asking", "asked", "announce", "drain", "copy", "heal"}
  <2>3. /\ At("drain", <<>>) \in Task(pcs) /\ At("drain", <<>>).pc = "drain"
        /\ Waiting \in Task(pcs) /\ Waiting.pc = "idle"
    BY DEF At, Waiting, Task
  <2>. QED BY <2>1, <2>2, <2>3
<1>3. /\ chan' \in Seq(Frame) /\ torn' \in BOOLEAN /\ DataFrames' /\ Unsent'
      /\ torn' \/ ~linked \/ dirty' \/ Gapless'
  <2>1. PICK lost \in BOOLEAN : /\ Snapshot(poll.body, lost) /\ (torn => lost)
                                /\ ~CanSend => lost \/ ~linked \/ dirty'
    BY <1>1, <1>t
  <2>2. /\ chan' \in Seq(Frame) /\ torn' \in BOOLEAN /\ DataFrames' /\ Unsent'
        /\ CanSend => torn' \/ Gapless'
        /\ ~CanSend => torn' = lost
    BY <1>1, <1>t, <2>1, SnapshotKeeps
  <2>. QED BY <2>1, <2>2
<1>4. MirrorTyped' /\ Stream'
  BY <1>1, <1>2, <1>3 DEF MirrorInv, MirrorTyped, Stream, Pumped
<1>5. Healed'
  BY <1>1, <1>3 DEF Healed, Resends
<1>. QED BY <1>3, <1>4, <1>5 DEF MirrorInv

-----------------------------------------------------------------------------
\* The relay loop.
LEMMA ReplayBeginsKeeps ==
    ASSUME MirrorInv, RelayConnects \/ HandleJoin
    PROVE  MirrorInv'
<1>1. /\ linked' \in BOOLEAN /\ replay' = At("copy", <<>>) /\ inbox' \in Nat
      /\ chan' = chan \/ chan' = <<>>
      /\ UNCHANGED <<out, subscribed, ev, known, ring, dirty, torn, pump, poll, online, screen, mounted>>
  <2>1. CASE RelayConnects
    BY <2>1 DEF RelayConnects, OnConnect, outVars, ringVars, browserVars, MirrorInv, MirrorTyped
  <2>2. CASE HandleJoin
    <3>1. /\ inbox > 0 /\ inbox' = inbox - 1 /\ replay' = At("copy", <<>>) /\ chan' = chan
          /\ UNCHANGED <<out, subscribed, ev, known, ring, dirty, linked, torn, pump, poll, online,
                         screen, mounted>>
      BY <2>2 DEF HandleJoin, OnJoin, outVars, ringVars, chanVars, browserVars
    <3>2. inbox \in Nat /\ linked \in BOOLEAN
      BY DEF MirrorInv, MirrorTyped
    <3>. QED BY <3>1, <3>2
  <2>. QED BY <2>1, <2>2
<1>2. replay' \in Task({"idle", "copy", "send"}) /\ replay'.pc = "copy"
  BY <1>1 DEF At, Task
<1>3. chan' \in Seq(Frame) /\ DataFrames' /\ Pumped' = Pumped /\ Carried' = Carried
  <2>1. CASE chan' = chan
    BY <1>1, <2>1 DEF MirrorInv, MirrorTyped, DataFrames, Pumped, Carried
  <2>2. CASE chan' = <<>>
    <3>1. chan' \in Seq(Frame) /\ DataFrames'
      BY <2>2 DEF DataFrames
    <3>. QED BY <1>1, <3>1 DEF Pumped, Carried
  <2>. QED BY <1>1, <2>1, <2>2
<1>4. Unsent'
  BY <1>1, <1>3 DEF MirrorInv, Unsent, Bare
<1>5. MirrorTyped' /\ Stream' /\ Healed'
  BY <1>1, <1>2, <1>3 DEF MirrorInv, MirrorTyped, Stream, Healed, Resends
<1>. QED BY <1>3, <1>4, <1>5 DEF MirrorInv

LEMMA ReplayCopiesKeeps ==
    ASSUME MirrorInv, ReplayCopies
    PROVE  MirrorInv'
<1>1. /\ replay.pc = "copy" /\ replay' = IF known THEN At("send", ring) ELSE Waiting
      /\ UNCHANGED <<out, subscribed, ev, known, ring, dirty, linked, chan, torn, pump, poll, inbox,
                     online, screen, mounted>>
  BY DEF ReplayCopies, outVars, ringVars, chanVars, browserVars
<1>t. ring \in Seq(Nat)
  BY DEF MirrorInv, MirrorTyped
<1>2. /\ replay' \in Task({"idle", "copy", "send"})
      /\ ~known \/ replay'.pc = "send"
  BY <1>1, <1>t DEF At, Waiting, Task
<1>3. MirrorTyped' /\ Resends' /\ (known' \/ poll'.pc = "asked" => subscribed)
  BY <1>1, <1>2 DEF MirrorInv, MirrorTyped, Stream, Resends
<1>. QED BY <1>1, <1>3, QuietKeeps

LEMMA ReplaySendsKeeps ==
    ASSUME MirrorInv, ReplaySends
    PROVE  MirrorInv'
<1>t. replay.body \in Seq(Nat) /\ (torn \/ linked) \in BOOLEAN /\ {torn, linked} \subseteq BOOLEAN
  BY DEF MirrorInv, MirrorTyped, Task
<1>1. /\ replay' = Waiting /\ Snapshot(replay.body, torn \/ linked)
      /\ UNCHANGED <<out, subscribed, ev, known, ring, dirty, linked, pump, poll, inbox, online, screen,
                     mounted>>
  BY DEF ReplaySends, Forgotten, outVars, ringVars, browserVars
<1>2. replay' \in Task({"idle", "copy", "send"})
  BY <1>1, WaitingRec
<1>3. /\ chan' \in Seq(Frame) /\ torn' \in BOOLEAN /\ DataFrames' /\ Unsent'
      /\ torn' \/ ~linked \/ Gapless'
  BY <1>1, <1>t, SnapshotKeeps
<1>4. MirrorTyped' /\ Stream'
  BY <1>1, <1>2, <1>3 DEF MirrorInv, MirrorTyped, Stream, Pumped
<1>5. Healed'
  BY <1>1, <1>3 DEF Healed, Resends
<1>. QED BY <1>3, <1>4, <1>5 DEF MirrorInv

LEMMA RelayDropsKeeps ==
    ASSUME MirrorInv, RelayDrops
    PROVE  MirrorInv'
<1>1. /\ linked' = FALSE /\ chan' = <<>> /\ inbox' = 0
      /\ UNCHANGED <<out, subscribed, ev, known, ring, dirty, torn, pump, poll, replay, online, screen,
                     mounted>>
  BY DEF RelayDrops, outVars, ringVars, browserVars
<1>2. Pumped' = Pumped /\ Carried' = Carried
  BY <1>1 DEF Pumped, Carried
<1>3. MirrorTyped' /\ Stream'
  <2>1. chan' \in Seq(Frame)
    BY <1>1
  <2>. QED BY <1>1, <1>2, <2>1 DEF MirrorInv, MirrorTyped, Stream
<1>4. DataFrames' /\ Unsent' /\ Healed'
  BY <1>1, <1>2 DEF MirrorInv, DataFrames, Unsent, Bare, Healed, Resends
<1>. QED BY <1>3, <1>4 DEF MirrorInv

\* The browser connects, shows a terminal or is lost.
LEMMA BrowserKeeps ==
    ASSUME MirrorInv, Mount \/ BrowserJoins \/ BrowserDrops
    PROVE  MirrorInv'
<1>1. UNCHANGED <<out, subscribed, ev, known, ring, dirty, linked, chan, torn, pump, poll, replay, screen>>
  BY DEF Mount, BrowserJoins, BrowserDrops, outVars, ringVars, chanVars
<1>2. /\ online' \in BOOLEAN /\ mounted' \in BOOLEAN /\ inbox' \in Nat
      /\ \/ UNCHANGED <<online, inbox>>
         \/ inbox' > 0 /\ linked
         \/ ~linked /\ inbox' = 0
         \/ ~online' /\ inbox' = inbox
  <2>1. inbox \in Nat /\ {linked, online, mounted} \subseteq BOOLEAN
    BY DEF MirrorInv, MirrorTyped
  <2>2. CASE Mount
    BY <2>1, <2>2 DEF Mount
  <2>3. CASE BrowserJoins
    <3>1. PICK n \in 1..2 : inbox' = IF linked THEN n ELSE 0
      BY <2>3 DEF BrowserJoins
    <3>2. online' = TRUE /\ mounted' = mounted
      BY <2>3 DEF BrowserJoins
    <3>3. CASE linked
      <4>1. inbox' \in Nat /\ inbox' > 0
        BY <3>1, <3>3
      <4>2. mounted' \in BOOLEAN /\ online' \in BOOLEAN
        BY <2>1, <3>2
      <4>. QED BY <3>3, <4>1, <4>2
    <3>4. CASE ~linked
      BY <2>1, <3>1, <3>2, <3>4
    <3>. QED BY <3>3, <3>4
  <2>4. CASE BrowserDrops
    BY <2>1, <2>4 DEF BrowserDrops
  <2>. QED BY <2>2, <2>3, <2>4
<1>3. MirrorTyped' /\ (known' \/ poll'.pc = "asked" => subscribed)
  BY <1>1, <1>2 DEF MirrorInv, MirrorTyped, Stream
<1>4. Resends => Resends'
  BY <1>1, <1>2 DEF Resends
<1>. QED BY <1>1, <1>3, <1>4, QuietKeeps

\* The next frame arrives: it is appended to the screen, or replaces it.
LEMMA DeliverKeeps ==
    ASSUME MirrorInv, Deliver
    PROVE  MirrorInv'
<1>. DEFINE f == Head(chan)
<1>1. /\ chan # <<>> /\ chan' = Tail(chan)
      /\ UNCHANGED <<out, subscribed, ev, known, ring, dirty, linked, torn, pump, poll, replay, inbox,
                     online, mounted>>
  BY DEF Deliver, outVars, ringVars
<1>t. chan \in Seq(Frame) /\ screen \in Seq(Nat)
  BY DEF MirrorInv, MirrorTyped
<1>2. /\ Len(chan) \in Nat \ {0} /\ Len(chan') = Len(chan) - 1 /\ chan' \in Seq(Frame)
      /\ \A i \in 1..Len(chan') : i + 1 \in 1..Len(chan) /\ chan'[i] = chan[i + 1]
  BY <1>1, <1>t, HeadTailProperties
<1>3. f = chan[1] /\ f \in Frame
  BY <1>1, <1>t
<1>. HIDE DEF f
<1>4. f.body \in Seq(Nat) /\ (f.t = "data" => Len(f.body) = 1 /\ f.body # <<>>)
  <2>1. f.t = "data" => Len(f.body) = 1
    BY <1>2, <1>3 DEF MirrorInv, DataFrames
  <2>2. f.body \in Seq(Nat)
    BY <1>3 DEF Frame
  <2>3. Len(<<>>) # 1
    BY EmptySeq
  <2>. QED BY <2>1, <2>2, <2>3, Zenon
<1>5. \/ screen' = screen /\ ~online
      \/ f.t = "data" /\ screen' = screen \o f.body
      \/ f.t = "attached" /\ screen' = f.body
      \/ f.t = "attached" /\ screen' = screen /\ (FullScreen \/ f.body = <<>>)
  <2>1. CASE ~online
    BY <2>1 DEF Deliver
  <2>2. CASE online /\ f.t = "data"
    BY <2>2 DEF Deliver, f
  <2>3. CASE online /\ f.t = "attached"
    <3>1. screen' = IF Repaints(f.body) THEN f.body ELSE screen
      BY <2>3 DEF Deliver, Repainted, f
    <3>2. Repaints(f.body) \/ FullScreen \/ f.body = <<>>
      BY DEF Repaints
    <3>. QED BY <2>3, <3>1, <3>2
  <2>. QED BY <1>3, <2>1, <2>2, <2>3 DEF Frame
<1>6. /\ screen' \in Seq(Nat)
      /\ screen = <<>> /\ f.body = <<>> => screen' = <<>>
  <2>1. screen \o f.body \in Seq(Nat) /\ (screen = <<>> /\ f.body = <<>> => screen \o f.body = <<>>)
    BY <1>4, <1>t
  <2>. QED BY <1>4, <1>5, <1>t, <2>1
<1>7. Pumped' = Pumped /\ Carried' = Carried /\ Carried \in Nat
  BY <1>1, NextIs DEF Pumped, Carried
<1>8. MirrorTyped' /\ Stream' /\ DataFrames'
  BY <1>1, <1>2, <1>6, <1>7 DEF MirrorInv, MirrorTyped, Stream, DataFrames
<1>9. Unsent'
  <2>. SUFFICES ASSUME Carried = 0, ~torn PROVE Bare(chan', screen')
    BY <1>1, <1>7 DEF Unsent
  <2>1. screen = <<>> /\ \A i \in 1..Len(chan) : chan[i].body = <<>>
    BY DEF MirrorInv, Unsent, Bare
  <2>2. f.body = <<>>
    BY <1>2, <1>3, <2>1
  <2>. QED BY <1>2, <1>6, <2>1, <2>2 DEF Bare
<1>10. Healed'
  <2>1. Resends => Resends'
    BY <1>1 DEF Resends
  <2>2. ASSUME ~Resends, ~torn, ~FullScreen PROVE Gapless'
    <3>1. PICK k \in 0..Len(chan) : Continues(chan, screen, Carried, k)
      BY <2>2 DEF MirrorInv, Healed, Gapless
    <3>3. online
      BY <2>2 DEF Resends
    <3>4. \/ f.t = "attached" /\ screen' = f.body
          \/ f.t = "attached" /\ screen' = screen /\ f.body = <<>>
          \/ /\ f.t = "data" /\ f.body # <<>>
             /\ Run(screen) /\ End(f.body) = End(screen) + 1
                   => Run(screen') /\ End(screen') = End(f.body)
      <4>1. CASE f.t = "attached"
        BY <1>5, <2>2, <3>3, <4>1
      <4>2. CASE f.t = "data"
        <5>. SUFFICES ASSUME Run(screen), End(f.body) = End(screen) + 1
                      PROVE  Run(screen') /\ End(screen') = End(f.body)
          BY <1>4, <4>2
        <5>1. screen' = screen \o f.body
          BY <1>5, <3>3, <4>2
        <5>2. f.body = <<f.body[1]>> /\ f.body[1] \in Nat /\ End(f.body) = f.body[1]
          BY <1>4, <4>2 DEF End
        <5>. DEFINE c == f.body[1]
        <5>3. c \in Nat /\ c = End(screen) + 1 /\ f.body = <<c>>
          BY <5>2
        <5>4. screen \in Seq(Nat)
          BY <1>t
        <5>. HIDE DEF c
        <5>5. Run(Append(screen, c)) /\ End(Append(screen, c)) = c /\ screen \o <<c>> = Append(screen, c)
          BY <5>3, <5>4, RunGrows
        <5>. QED BY <5>1, <5>2, <5>3, <5>5 DEF c
      <4>. QED BY <1>3, <4>1, <4>2 DEF Frame
    <3>5. \E n \in 0..Len(Tail(chan)) : Continues(Tail(chan), screen', Carried, n)
      BY <1>1, <1>7, <1>t, <3>1, <3>4, NextContinues DEF f
    <3>. QED BY <1>1, <1>7, <3>5 DEF Gapless
  <2>. QED BY <1>1, <2>1, <2>2 DEF Healed
<1>. QED BY <1>8, <1>9, <1>10 DEF MirrorInv

-----------------------------------------------------------------------------
LEMMA MirrorStep ==
    ASSUME MirrorInv, [MirrorNext]_mirrorVars
    PROVE  MirrorInv'
<1>1. CASE UNCHANGED mirrorVars
  <2>1. UNCHANGED <<out, subscribed, ev, known, ring, dirty, linked, chan, torn, pump, poll, replay, inbox,
                    online, screen, mounted>>
    BY <1>1 DEF mirrorVars, outVars, ringVars, chanVars, browserVars
  <2>2. MirrorTyped' /\ (Resends => Resends') /\ (known' \/ poll'.pc = "asked" => subscribed)
    BY <2>1 DEF MirrorInv, MirrorTyped, Stream, Resends
  <2>. QED BY <2>1, <2>2, QuietKeeps
<1>. QED BY <1>1, OutputKeeps, PumpTakesKeeps, PumpSendsKeeps, PumpMarksKeeps, PollTickKeeps,
            DaemonAttachesKeeps, AttachReturnsKeeps, DrainKeeps, PollSendsKeeps, ReplayBeginsKeeps,
            ReplayCopiesKeeps, ReplaySendsKeeps, RelayDropsKeeps, BrowserKeeps, DeliverKeeps
     DEF MirrorNext, PumpStep, PollStep, ReplayStep

LEMMA MirrorBegins == MirrorInit => MirrorInv
<1>. SUFFICES ASSUME MirrorInit PROVE MirrorInv
  OBVIOUS
<1>1. /\ out = 0 /\ ~subscribed /\ ev = <<>> /\ ~known /\ ring = <<>> /\ ~linked /\ chan = <<>>
      /\ ~torn /\ screen = <<>> /\ inbox = 0 /\ pump = Waiting /\ poll = Waiting /\ replay = Waiting
  BY DEF MirrorInit
<1>2. MirrorTyped
  <2>1. {subscribed, known, dirty, linked, torn, online, mounted} \subseteq BOOLEAN
    BY DEF MirrorInit
  <2>. QED BY <1>1, <2>1, WaitingRec DEF MirrorTyped
<1>3. pump.pc = "idle" /\ poll.pc = "idle" /\ replay.pc = "idle"
  BY <1>1, WaitingRec
<1>. QED BY <1>1, <1>2, <1>3 DEF MirrorInv, Stream, DataFrames, Unsent, Bare, Healed, Resends

\* NoSilentGap: with the pump, the poll and the replays running in parallel,
\* whatever order their frames are sent in and whatever was lost before, the
\* screen of a normal shell repeats and lacks nothing once everything was
\* delivered, or the session is marked to be resent (main.rs:151-154), or the
\* last snapshot a browser was due was out of step with the data around it or
\* found the channel full.
THEOREM GapsAreMarked == MirrorSpec => []NoSilentGap
<1>1. MirrorInv => NoSilentGap
  <2>. SUFFICES ASSUME MirrorInv, Settled, ~FullScreen, ~dirty, ~torn PROVE Current
    BY DEF NoSilentGap
  <2>1. ~Resends /\ Carried = out /\ chan = <<>> /\ out \in Nat /\ screen \in Seq(Nat)
    BY DEF Settled, Resends, Carried, Pumped, MirrorInv, MirrorTyped
  <2>2. PICK k \in 0..Len(chan) : Continues(chan, screen, out, k)
    BY <2>1 DEF MirrorInv, Healed, Gapless
  <2>3. Run(screen) /\ End(screen) = out
    BY <2>1, <2>2 DEF Continues
  <2>4. out > 0 => screen # <<>> /\ Last(screen) = out
    BY <2>3 DEF End, Last
  <2>5. ASSUME NEW i \in 1..Len(screen) - 1 PROVE screen[i + 1] = screen[i] + 1
    <3>1. i \in 1..Len(screen) /\ i + 1 \in 1..Len(screen) /\ Len(screen) \in Nat
      BY <2>1
    <3>2. screen[i] = out - Len(screen) + i /\ screen[i + 1] = out - Len(screen) + (i + 1)
      BY <2>3, <3>1 DEF Run
    <3>. QED BY <2>1, <3>1, <3>2
  <2>. QED BY <2>4, <2>5 DEF Current
<1>2. MirrorInit => MirrorInv
  BY MirrorBegins
<1>3. MirrorInv /\ [MirrorNext]_mirrorVars => MirrorInv'
  BY MirrorStep
<1>. QED BY <1>1, <1>2, <1>3, PTL DEF MirrorSpec
=============================================================================
