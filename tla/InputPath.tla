----------------------------- MODULE InputPath -----------------------------
(***************************************************************************)
(* What a page asks of the host - keys, closes and opens - through the     *)
(* relay (server.js 823-850), which hands every frame to every source, to  *)
(* the native agent (main.rs 271-375) and the SSH bridge (index.js         *)
(* 600-691), and on through the agent's requests to the PTY daemon         *)
(* (daemon.rs).                                                            *)
(*                                                                         *)
(* The agent's loop handles one frame after another; a key is written to   *)
(* the daemon before the next frame is read, an open or a close by a task  *)
(* of its own.  Tasks and the thread that reads the daemon's answers run   *)
(* in parallel.  Frames are numbered in the order the relay reads them; a  *)
(* request has the number of its frame, as next_req never gives an id      *)
(* twice.  A frame still under way to the relay is one not yet sent.  A    *)
(* ping passes as any frame the agent does not own.                        *)
(***************************************************************************)
EXTENDS Naturals, Sequences

CONSTANTS
    Pty, Ssh,       \* sessions of the daemon, and of the SSH bridge
    None,           \* no session
    PipeCap,        \* requests the pipe to the daemon holds
    MaxFrames,      \* bound: frames the page sends
    MaxFlight,      \* bound: frames under way to a source
    MaxUpsets       \* bound: losses of a source's link, changes of its table, failed writes

Source == {"agent", "bridge"}
Number == 1..MaxFrames
Reading == 0

ASSUME SessionAssumption == Pty \cap Ssh = {} /\ None \notin Pty \cup Ssh
ASSUME BoundAssumption == {PipeCap, MaxFrames, MaxFlight, MaxUpsets} \subseteq Nat

VARIABLES
    frame,          \* the frames sent so far: [t, s]
    up,             \* the sources whose link is open
    queue,          \* source -> frames under way to it
    mirrored,       \* source -> sessions it mirrors
    loop,           \* the frame whose request the agent's loop awaits, or Reading
    req,            \* frame -> where its request is
    pending,        \* requests with an entry in the map
    pipe, answers,  \* to and from the daemon
    asked,          \* history: what daemon and host were asked, in order
    upsets

sourceVars == <<up, queue>>
clientVars == <<loop, req, pending>>
daemonVars == <<pipe, answers, asked>>
vars == <<frame, sourceVars, mirrored, clientVars, daemonVars, upsets>>

Tell(n) == frame[n].t
About(n) == frame[n].s

Init ==
    /\ frame = <<>> /\ up = Source /\ queue = [x \in Source |-> <<>>]
    /\ mirrored = [x \in Source |-> IF x = "agent" THEN Pty ELSE Ssh]
    /\ loop = Reading /\ req = [n \in Number |-> "none"] /\ pending = {}
    /\ pipe = <<>> /\ answers = <<>> /\ asked = <<>> /\ upsets = 0

-----------------------------------------------------------------------------
\* The page and the relay.

Asks == [t : {"input", "close"}, s : Pty \cup Ssh] \cup [t : {"open"}, s : {None}]

\* Every source with an open socket is given the frame.
Given(n) == [x \in Source |-> IF x \in up THEN Append(queue[x], n) ELSE queue[x]]
Forward(f) ==
    /\ Len(frame) < MaxFrames /\ \A x \in Source : Len(queue[x]) < MaxFlight
    /\ frame' = Append(frame, f)
    /\ queue' = Given(Len(frame) + 1)
    /\ UNCHANGED <<up, mirrored, clientVars, daemonVars, upsets>>

\* What is under way on a lost link is lost from some frame on.
SourceDrops(x) ==
    /\ x \in up /\ upsets < MaxUpsets /\ upsets' = upsets + 1
    /\ up' = up \ {x}
    /\ \E k \in 0..Len(queue[x]) : queue' = [queue EXCEPT ![x] = SubSeq(@, 1, k)]
    /\ UNCHANGED <<frame, mirrored, clientVars, daemonVars>>
\* A source has read what had arrived before it connects again.
SourceReconnects(x) ==
    /\ x \notin up /\ queue[x] = <<>> /\ (x = "agent" => loop = Reading)
    /\ up' = up \cup {x}
    /\ UNCHANGED <<frame, queue, mirrored, clientVars, daemonVars, upsets>>

\* A poll finds a session, or that it is gone.
TableChanges(x, s) ==
    /\ s \in IF x = "agent" THEN Pty ELSE Ssh
    /\ upsets < MaxUpsets /\ upsets' = upsets + 1
    /\ mirrored' = [mirrored EXCEPT ![x] = IF s \in @ THEN @ \ {s} ELSE @ \cup {s}]
    /\ UNCHANGED <<frame, sourceVars, clientVars, daemonVars>>

-----------------------------------------------------------------------------
\* The agent's loop over the relay's frames.

Owned(x, n) == About(n) \in mirrored[x]
Entered(n) == pending \cup {n}

\* Mutant of Inline: a key has a task of its own, like an open or a close.
InlineNothing(n) == FALSE
\* The loop awaits the request of a key.
Inline(n) == Tell(n) = "input"
\* An open may also be refused (PtySessions models the cap).
Requests(n) == Tell(n) = "open" \/ Owned("agent", n)
Ignorable(n) == Tell(n) = "open" \/ ~Owned("agent", n)

AwaitsKey(n) ==
    /\ Requests(n) /\ Inline(n)
    /\ loop' = n /\ req' = [req EXCEPT ![n] = "entered"] /\ pending' = Entered(n)
Spawns(n) ==
    /\ Requests(n) /\ ~Inline(n)
    /\ req' = [req EXCEPT ![n] = "spawned"] /\ UNCHANGED <<loop, pending>>
Ignores(n) == Ignorable(n) /\ UNCHANGED clientVars
AgentTakes ==
    /\ loop = Reading /\ queue["agent"] # <<>>
    /\ queue' = [queue EXCEPT !["agent"] = Tail(@)]
    /\ LET n == Head(queue["agent"]) IN AwaitsKey(n) \/ Spawns(n) \/ Ignores(n)
    /\ UNCHANGED <<frame, up, mirrored, daemonVars, upsets>>

TaskStarts(n) ==
    /\ req[n] = "spawned" /\ req' = [req EXCEPT ![n] = "entered"] /\ pending' = Entered(n)
    /\ UNCHANGED <<frame, sourceVars, mirrored, loop, daemonVars, upsets>>

-----------------------------------------------------------------------------
\* A request to the daemon.

\* The request is over; the loop goes on if it was the one awaited.
Ends(n) ==
    /\ req' = [req EXCEPT ![n] = "none"]
    /\ loop' = IF loop = n THEN Reading ELSE loop

\* The write waits for room in the pipe, and no timer runs yet.
Writes(n) ==
    /\ req[n] = "entered" /\ Len(pipe) < PipeCap
    /\ req' = [req EXCEPT ![n] = "waiting"] /\ pipe' = Append(pipe, n)
    /\ UNCHANGED <<frame, sourceVars, mirrored, loop, pending, answers, asked, upsets>>

\* The pipe refuses the write: the entry is taken back and the request fails.
\* The agent goes on until the thread that reads the pipe meets its end.
WriteFails(n) ==
    /\ req[n] = "entered" /\ upsets < MaxUpsets /\ upsets' = upsets + 1
    /\ pending' = pending \ {n} /\ Ends(n)
    /\ UNCHANGED <<frame, sourceVars, mirrored, daemonVars>>

\* The daemon serves requests in the order they come: it may also stop to.
DaemonServes ==
    /\ pipe # <<>> /\ pipe' = Tail(pipe)
    /\ answers' = Append(answers, Head(pipe))
    /\ asked' = Append(asked, Head(pipe))
    /\ UNCHANGED <<frame, sourceVars, mirrored, clientVars, upsets>>

\* The reader thread hands an answer to the request whose entry it finds; a
\* request whose time is up no longer looks at it.
ReaderTakes ==
    /\ answers # <<>> /\ answers' = Tail(answers)
    /\ LET n == Head(answers) IN
        /\ pending' = pending \ {n}
        /\ req' = IF n \in pending /\ req[n] = "waiting" THEN [req EXCEPT ![n] = "answered"]
                  ELSE req
    /\ UNCHANGED <<frame, sourceVars, mirrored, loop, pipe, asked, upsets>>

Returns(n) ==
    /\ req[n] = "answered" /\ Ends(n)
    /\ UNCHANGED <<frame, sourceVars, mirrored, pending, daemonVars, upsets>>

\* Mutant of Expires: a request waits for ever.
ExpiresNever(n) == FALSE /\ UNCHANGED vars
\* Thirty seconds without an answer.
Expires(n) ==
    /\ req[n] = "waiting"
    /\ req' = [req EXCEPT ![n] = "expired"]
    /\ UNCHANGED <<frame, sourceVars, mirrored, loop, pending, daemonVars, upsets>>

\* Mutant of Withdrawn: the entry of a request given up stays in the map.
LeftBehind(n) == pending
Withdrawn(n) == pending \ {n}
GivesUp(n) ==
    /\ req[n] = "expired" /\ pending' = Withdrawn(n) /\ Ends(n)
    /\ UNCHANGED <<frame, sourceVars, mirrored, daemonVars, upsets>>

-----------------------------------------------------------------------------
\* The bridge asks the host about its own sessions and waits for nothing; a
\* session it closed is no longer its own.  Frames about tabs and workspaces
\* are a call to the host each and leave the bridge as it is.
BridgeActs(n) ==
    /\ Owned("bridge", n)
    /\ asked' = Append(asked, n)
    /\ mirrored' = [mirrored EXCEPT !["bridge"] =
                        IF Tell(n) = "close" THEN @ \ {About(n)} ELSE @]
BridgeIgnores(n) == ~Owned("bridge", n) /\ UNCHANGED <<asked, mirrored>>
BridgeTakes ==
    /\ queue["bridge"] # <<>>
    /\ queue' = [queue EXCEPT !["bridge"] = Tail(@)]
    /\ LET n == Head(queue["bridge"]) IN BridgeActs(n) \/ BridgeIgnores(n)
    /\ UNCHANGED <<frame, up, clientVars, pipe, answers, upsets>>

-----------------------------------------------------------------------------
RequestStep(n) ==
    TaskStarts(n) \/ Writes(n) \/ Returns(n) \/ Expires(n) \/ GivesUp(n)

Next ==
    \/ \E f \in Asks : Forward(f)
    \/ \E x \in Source : SourceDrops(x) \/ SourceReconnects(x)
    \/ \E x \in Source, s \in Pty \cup Ssh : TableChanges(x, s)
    \/ AgentTakes \/ BridgeTakes
    \/ \E n \in Number : RequestStep(n) \/ WriteFails(n)
    \/ DaemonServes \/ ReaderTakes

Spec == Init /\ [][Next]_vars

\* The agent's tasks and threads run and its timers fire.  Nothing is assumed
\* of the daemon: it may hang.
Fairness ==
    /\ WF_vars(AgentTakes) /\ WF_vars(ReaderTakes)
    /\ \A n \in Number : WF_vars(RequestStep(n))

FairSpec == Spec /\ Fairness
-----------------------------------------------------------------------------
\* The state is well typed.
TypeOK ==
    /\ frame \in Seq(Asks)
    /\ up \subseteq Source /\ queue \in [Source -> Seq(Number)]
    /\ mirrored \in [Source -> SUBSET (Pty \cup Ssh)]
    /\ loop \in {Reading} \cup Number
    /\ req \in [Number -> {"none", "spawned", "entered", "waiting", "answered", "expired"}]
    /\ pending \subseteq Number /\ {pipe, answers, asked} \subseteq Seq(Number)
    /\ Len(pipe) <= PipeCap /\ upsets \in 0..MaxUpsets

\* What was sent about one session is asked of the daemon or the host once
\* and, a close apart, in that order: a key never overtakes a key, and a close
\* never the keys typed before it, although every source is given every frame
\* and requests are given up while they wait in the pipe (main.rs 287-297,
\* 343-348).  A key may overtake the close before it, which is a task.
KeysInOrder ==
    \A i \in DOMAIN asked : \A j \in 1..i - 1 :
        LET earlier == asked[j]
            later == asked[i]
        IN  /\ earlier # later
            /\ (About(earlier) = About(later) /\ Tell(later) = "input") => earlier < later

\* A request that waits for its answer has its entry in the map, where the
\* answer will find it; and the map holds no entry of a request that is over
\* (daemon.rs 135, 159, 171).
AnswerFindsAsker ==
    /\ \A n \in Number : req[n] = "waiting" => n \in pending
    /\ \A n \in pending : req[n] \in {"entered", "waiting", "expired"}

\* The agent always comes to read the relay's next frame again, a ping among
\* them, although the daemon hangs over a key (daemon.rs 167-173).
LoopFreed == loop # Reading ~> loop = Reading
=============================================================================
