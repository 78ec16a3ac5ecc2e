------------------------------- MODULE PtyMirror -------------------------------
(****************************************************************************)
(* The data path of the native agent (sidecar-src/src/main.rs) for one PTY  *)
(* session, from the daemon's output to the screen of one browser           *)
(* (client/src/hooks/useRemote.ts).                                         *)
(*                                                                          *)
(* Output is a sequence of chunks 1, 2, ...  Three tasks of the agent use   *)
(* the ring and the bounded channel to the relay: the pump (daemon events), *)
(* the poll (attach and self-heal) and the relay loop (replay on connect,   *)
(* hello and client_join).  The runtime is multi-threaded and each lock is  *)
(* held for one action only, so a frame is built in one action and sent in  *)
(* a later one, and the other tasks may do anything between the two.        *)
(****************************************************************************)
EXTENDS Naturals, Sequences, SequencesExt

CONSTANTS
    RingCap,        \* chunks the ring keeps
    ChanCap,        \* frames the channel to the relay holds
    FullScreen,     \* TRUE: a full-screen program runs, in the alternate buffer
    MaxOut,         \* bound: chunks the session writes
    MaxFaults       \* bound: lost relay and browser connections

ASSUME CapAssumption == RingCap \in Nat \ {0} /\ ChanCap \in Nat \ {0}
ASSUME FlagAssumption == FullScreen \in BOOLEAN
ASSUME LimitAssumption == MaxOut \in Nat /\ MaxFaults \in Nat

VARIABLES
    out, subscribed,        \* the daemon: chunks written, agent subscribed
    ev,                     \* events the reader thread passed on, not yet pumped
    known, ring,            \* the session's entry in `sessions`
    dirty,
    linked, chan,           \* relay_tx and its queue
    pump, poll, replay,     \* where the three tasks are
    inbox,                  \* hello and client_join frames not yet handled
    online, screen, painted, mounted,   \* the browser; painted is attachedOnce
    torn,                   \* history: the last snapshot a browser was due did
                            \* not fit the data around it, or was dropped
    faults

outVars == <<out, subscribed>>
ringVars == <<known, ring>>
chanVars == <<linked, chan, torn>>
browserVars == <<online, screen, painted, mounted>>
mirrorVars == <<outVars, ev, ringVars, dirty, chanVars, pump, poll, replay, inbox,
          browserVars, faults>>

-----------------------------------------------------------------------------
\* The newest chunks of s, as many as the ring keeps.
Newest(s) == SubSeq(s, IF Len(s) > RingCap THEN Len(s) - RingCap + 1 ELSE 1, Len(s))
Written == [i \in 1..out |-> i]

Data(c) == [t |-> "data", body |-> <<c>>]
Attached(s) == [t |-> "attached", body |-> s]

Waiting == [pc |-> "idle", body |-> <<>>]
At(pc, body) == [pc |-> pc, body |-> body]

\* The chunk whose data frame the pump tries to send next: the events not yet
\* pumped are the last Len(ev) chunks.
NextChunk == IF pump.pc = "send" THEN Head(pump.body) ELSE out - Len(ev) + 1

\* A snapshot fits when it is the newest output up to that chunk.
InStep(s) ==
    /\ Len(s) < NextChunk
    /\ \A i \in 1..Len(s) : s[i] = NextChunk - 1 - Len(s) + i
    /\ s = <<>> => NextChunk = 1

\* send_relay: try_send on the current channel, false when it is full or gone.
CanSend == linked /\ Len(chan) < ChanCap
Send(f) == chan' = IF CanSend THEN Append(chan, f) ELSE chan

\* A snapshot is sent; `lost` is what `torn` becomes if it cannot be.  One that
\* is empty is not painted over a screen, so it mends nothing.
Snapshot(s, lost) ==
    /\ Send(Attached(s))
    /\ torn' = IF CanSend THEN ~InStep(s) \/ (torn /\ s = <<>>) ELSE lost

\* Most callers of send_relay do not look at its result: a snapshot that finds
\* the channel full is forgotten; one that finds no link is due on the next.
Forgotten == torn \/ linked

-----------------------------------------------------------------------------
MirrorInit ==
    /\ out = 0 /\ subscribed = FALSE /\ ev = <<>>
    /\ known = FALSE /\ ring = <<>> /\ dirty = FALSE
    /\ linked = FALSE /\ chan = <<>> /\ torn = FALSE
    /\ pump = Waiting /\ poll = Waiting /\ replay = Waiting /\ inbox = 0
    /\ online = FALSE /\ screen = <<>> /\ painted = FALSE /\ mounted = FALSE
    /\ faults = 0

\* The session writes a chunk; a subscriber is pushed a Data event.
Output ==
    /\ out < MaxOut
    /\ out' = out + 1
    /\ ev' = IF subscribed THEN Append(ev, out + 1) ELSE ev
    /\ UNCHANGED <<subscribed, ringVars, dirty, chanVars, pump, poll, replay, inbox,
                   browserVars, faults>>

-----------------------------------------------------------------------------
\* The ring with c added and cut to its capacity.
Grown(c) == Newest(Append(ring, c))

\* The pump takes an event and, if the session is mirrored, grows its ring.
PumpTakes ==
    /\ pump.pc = "idle" /\ ev # <<>>
    /\ ev' = Tail(ev)
    /\ ring' = IF known THEN Grown(Head(ev)) ELSE ring
    /\ pump' = At("send", <<Head(ev)>>)
    /\ UNCHANGED <<outVars, known, dirty, chanVars, poll, replay, inbox, browserVars, faults>>

PumpSends ==
    /\ pump.pc = "send"
    /\ Send(Data(Head(pump.body)))
    /\ pump' = IF CanSend THEN Waiting ELSE At("mark", pump.body)
    /\ UNCHANGED <<outVars, ev, ringVars, dirty, linked, torn, poll, replay, inbox, browserVars, faults>>

\* Mutant of Marked: a dropped data frame is forgotten.
Unmarked == dirty
\* The session is resent later.
Marked == TRUE

PumpMarks ==
    /\ pump.pc = "mark"
    /\ dirty' = Marked
    /\ pump' = Waiting
    /\ UNCHANGED <<outVars, ev, ringVars, chanVars, poll, replay, inbox, browserVars, faults>>

-----------------------------------------------------------------------------
\* The poll's tick: the list names the session, a known one needs no attach.
PollTick ==
    /\ poll.pc = "idle"
    /\ known => dirty
    /\ poll' = At(IF known THEN "drain" ELSE "asking", <<>>)
    /\ UNCHANGED <<outVars, ev, ringVars, dirty, chanVars, pump, replay, inbox,
                   browserVars, faults>>

\* The daemon attaches the agent: its scrollback up to now, then events.
DaemonAttaches ==
    /\ poll.pc = "asking"
    /\ subscribed' = TRUE
    /\ poll' = At("asked", Newest(Written))
    /\ UNCHANGED <<out, ev, ringVars, dirty, chanVars, pump, replay, inbox, browserVars, faults>>

AttachReturns ==
    /\ poll.pc = "asked"
    /\ known' = TRUE
    /\ ring' = poll.body
    /\ poll' = At("announce", poll.body)
    /\ UNCHANGED <<outVars, ev, dirty, chanVars, pump, replay, inbox, browserVars, faults>>

Announce ==
    /\ poll.pc = "announce"
    /\ Snapshot(poll.body, Forgotten)
    /\ poll' = At("drain", <<>>)
    /\ UNCHANGED <<outVars, ev, ringVars, dirty, linked, pump, replay, inbox, browserVars, faults>>

\* Self-heal: the dirty set is drained, then the ring is copied, then sent.
Drain ==
    /\ poll.pc = "drain"
    /\ dirty' = FALSE
    /\ poll' = IF dirty THEN At("copy", <<>>) ELSE Waiting
    /\ UNCHANGED <<outVars, ev, ringVars, chanVars, pump, replay, inbox, browserVars, faults>>

HealCopies ==
    /\ poll.pc = "copy"
    /\ poll' = At("heal", ring)
    /\ UNCHANGED <<outVars, ev, ringVars, dirty, chanVars, pump, replay, inbox,
                   browserVars, faults>>

\* Mutant of HealAgain: a resend that finds the channel full is given up.
HealOnce == dirty
\* "still saturated; retry next tick"
HealAgain == TRUE

HealSends ==
    /\ poll.pc = "heal"
    /\ Snapshot(poll.body, torn)
    /\ dirty' = IF CanSend THEN dirty ELSE HealAgain
    /\ poll' = Waiting
    /\ UNCHANGED <<outVars, ev, ringVars, linked, pump, replay, inbox, browserVars, faults>>

-----------------------------------------------------------------------------
\* Mutant of OnConnect: a new relay connection is not sent the snapshot.
OnConnectNothing == Waiting
\* A new relay connection is sent the current state.
OnConnect == At("copy", <<>>)

RelayConnects ==
    /\ ~linked
    /\ linked' = TRUE /\ chan' = <<>>
    /\ replay' = OnConnect
    /\ UNCHANGED <<outVars, ev, ringVars, dirty, torn, pump, poll, inbox, browserVars, faults>>

RelayDrops ==
    /\ linked /\ replay.pc = "idle" /\ faults < MaxFaults
    /\ faults' = faults + 1
    /\ linked' = FALSE /\ chan' = <<>> /\ inbox' = 0
    /\ UNCHANGED <<outVars, ev, ringVars, dirty, torn, pump, poll, replay, browserVars>>

\* Mutant of OnJoin: hello and client_join are answered with the list only.
OnJoinNothing == Waiting
\* A browser (re)joined: replay current state.
OnJoin == At("copy", <<>>)

HandleJoin ==
    /\ inbox > 0 /\ replay.pc = "idle"
    /\ inbox' = inbox - 1
    /\ replay' = OnJoin
    /\ UNCHANGED <<outVars, ev, ringVars, dirty, chanVars, pump, poll, browserVars, faults>>

\* attached_frames
ReplayCopies ==
    /\ replay.pc = "copy"
    /\ replay' = IF known THEN At("send", ring) ELSE Waiting
    /\ UNCHANGED <<outVars, ev, ringVars, dirty, chanVars, pump, poll, inbox,
                   browserVars, faults>>

ReplaySends ==
    /\ replay.pc = "send"
    /\ Snapshot(replay.body, Forgotten)
    /\ replay' = Waiting
    /\ UNCHANGED <<outVars, ev, ringVars, dirty, linked, pump, poll, inbox, browserVars, faults>>

-----------------------------------------------------------------------------
\* writeScrollback repaints a mounted terminal on the first attach, or when a
\* normal screen has something to repaint; before the mount it is what the
\* terminal will be fed.
Repaints(s) == ~mounted \/ ~painted \/ (~FullScreen /\ s # <<>>)

\* Mutant of Repainted: the terminal is not reset before the repaint.
RepaintedOver(s) == screen \o s
\* What a repaint leaves on the screen.
Repainted(s) == s

\* The writer task and the relay carry the next frame to the browser.
Deliver ==
    /\ chan # <<>>
    /\ chan' = Tail(chan)
    /\ LET f == Head(chan) IN
       IF ~online
       THEN UNCHANGED <<screen, painted>>
       ELSE \/ /\ f.t = "data"
               /\ screen' = screen \o f.body
               /\ UNCHANGED painted
            \/ /\ f.t = "attached"
               /\ screen' = IF Repaints(f.body) THEN Repainted(f.body) ELSE screen
               /\ painted' = TRUE
    /\ UNCHANGED <<outVars, ev, ringVars, dirty, linked, torn, pump, poll, replay, inbox,
                   online, mounted, faults>>

\* The session is listed, its terminal's element appears: what is pending is
\* flushed to it.
Mount ==
    /\ ~mounted /\ online /\ known
    /\ mounted' = TRUE
    /\ UNCHANGED <<outVars, ev, ringVars, dirty, chanVars, pump, poll, replay, inbox,
                   online, screen, painted, faults>>

\* The browser connects and says hello; the relay may add a client_join.
BrowserJoins ==
    /\ ~online
    /\ online' = TRUE
    /\ \E n \in 1..2 : inbox' = IF linked THEN n ELSE 0
    /\ UNCHANGED <<outVars, ev, ringVars, dirty, chanVars, pump, poll, replay,
                   screen, painted, mounted, faults>>

BrowserDrops ==
    /\ online /\ faults < MaxFaults
    /\ faults' = faults + 1
    /\ online' = FALSE
    /\ UNCHANGED <<outVars, ev, ringVars, dirty, chanVars, pump, poll, replay, inbox,
                   screen, painted, mounted>>

-----------------------------------------------------------------------------
PumpStep == PumpTakes \/ PumpSends \/ PumpMarks
PollStep == \/ PollTick \/ DaemonAttaches \/ AttachReturns \/ Announce
            \/ Drain \/ HealCopies \/ HealSends
ReplayStep == HandleJoin \/ ReplayCopies \/ ReplaySends \/ RelayConnects

MirrorNext ==
    \/ Output \/ PumpStep \/ PollStep \/ ReplayStep \/ RelayDrops
    \/ Deliver \/ Mount \/ BrowserJoins \/ BrowserDrops

MirrorSpec == MirrorInit /\ [][MirrorNext]_mirrorVars

\* The runtime runs every task that is ready, the relay and the browser come
\* back, frames are delivered.
MirrorFairness ==
    /\ WF_mirrorVars(PumpStep) /\ WF_mirrorVars(PollStep) /\ WF_mirrorVars(ReplayStep)
    /\ WF_mirrorVars(Deliver) /\ WF_mirrorVars(Mount) /\ WF_mirrorVars(BrowserJoins)

FairMirrorSpec == MirrorSpec /\ MirrorFairness
-----------------------------------------------------------------------------
Chunks == Seq(1..MaxOut)

\* The agent's and the browser's state is well typed; ring and channel keep
\* to their capacities.
MirrorTypeOK ==
    /\ out \in 0..MaxOut /\ ev \in Chunks /\ ring \in Chunks /\ Len(ring) <= RingCap
    /\ {subscribed, known, dirty, linked, online, painted, mounted} \subseteq BOOLEAN
    /\ chan \in Seq([t : {"data", "attached"}, body : Chunks]) /\ Len(chan) <= ChanCap
    /\ pump \in [pc : {"idle", "send", "mark"}, body : Chunks]
    /\ poll \in [pc : {"idle", "asking", "asked", "announce", "drain", "copy", "heal"},
                 body : Chunks]
    /\ replay \in [pc : {"idle", "copy", "send"}, body : Chunks]
    /\ inbox \in 0..2 /\ screen \in Chunks /\ torn \in BOOLEAN
    /\ faults \in 0..MaxFaults

\* The screen shows an uninterrupted run of the output that ends with its end.
Current ==
    /\ out > 0 => screen # <<>> /\ Last(screen) = out
    /\ \A i \in 1..Len(screen) - 1 : screen[i + 1] = screen[i] + 1

Settled ==
    /\ linked /\ online /\ known /\ ev = <<>> /\ chan = <<>> /\ inbox = 0
    /\ pump.pc = "idle" /\ poll.pc = "idle" /\ replay.pc = "idle"

\* "a mid-stream drop under backpressure self-heals" (main.rs:151-154): once
\* everything was delivered, the screen of a normal shell lacks nothing and
\* repeats nothing, or the session is marked to be resent.  Whatever the pump,
\* the poll and the replays do at the same time, the one exception is a snapshot
\* that was out of step with the data around it, or dropped itself, and that
\* lasts until the next one that is in step.
NoSilentGap == Settled /\ ~FullScreen /\ ~dirty /\ ~torn => Current

\* The same without the exception.  The code does not have it: a snapshot built
\* before newer data and sent after it, or one that repeats what the pump has in
\* hand, shows on the screen and marks nothing.
NoGap == Settled /\ ~FullScreen /\ ~dirty => Current

\* Whatever the tasks' interleaving, older output never follows newer output
\* on the screen.
NeverBackwards == \A i \in 1..Len(screen) - 1 : screen[i] <= screen[i + 1]

\* The gap closes: again and again the screen of a normal shell is current, or
\* the last snapshot did not fit.
Heals == []<>(FullScreen \/ Current \/ torn)
=============================================================================
