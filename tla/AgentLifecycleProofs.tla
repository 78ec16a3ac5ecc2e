------------------------- MODULE AgentLifecycleProofs -------------------------
(****************************************************************************)
(* One agent at a time, a disconnect that sticks and, in an extension that  *)
(* is on, configured and at rest, no agent that runs unwatched, for any     *)
(* number of activations, processes, settings changes and reloads.  All     *)
(* three assume that the host answers a short call before the next timer or *)
(* the user's next action (Prompt); agents may die and boots may fail at    *)
(* any moment, and the host may refuse to list or to kill: the agents that  *)
(* escape so are what the three except.                                     *)
(* The last section is about the agent's session table (PtySessions).       *)
(****************************************************************************)
EXTENDS AgentLifecycle, PtySessions, FiniteSetTheorems, TLAPS

-----------------------------------------------------------------------------
\* An activation that boots an agent, from the flag's setting to its clearing.
Boots == {"reaping", "draining", "spawning", "spawned", "ready", "failing"}
Booters == {f \in Flow : flow[f].pc \in Boots}
\* One that will decide whether to boot.
Deciders == {f \in Flow : flow[f].pc \in {"stopping", "config"}}
\* One whose reaper, called by the disconnect tool, is still to come.
Reapers ==
    {f \in Flow : \/ flow[f].pc = "stopping" /\ flow[f].then = "reap"
                  \/ flow[f].pc = "toolReaping"}

Thens == {"start", "end", "reap"}
FlowRec == [pc : PCs, then : Thens, h : Handle \union {None}, seen : 0..MaxChanges,
            killed : SUBSET Handle]
Typed == flow \in [Flow -> FlowRec] /\ settings \in 0..MaxChanges

\* One activation boots, while the flag says so; one decides, and none boots
\* while it reads the settings.
OneBooter == \A f, g \in Booters : f = g
BooterFlagged == Booters # {} => booting
OneDecider == \A f, g \in Deciders : f = g
DecidesFirst == \A f \in Flow : flow[f].pc = "config" => ~booting
\* After its reaper and before its spawn an activation has no agent beside it.
ReapedFirst == (\E f \in Flow : flow[f].pc \in {"draining", "spawning"}) => Agents = {}
OneRunning == \A a, b \in Agents : a = b
\* A disconnect stops no boot, for there is none, and none begins.
NoBootAfterTool == stoppedByTool => ~booting
ToolReaped == stoppedByTool /\ Reapers = {} => Agents = {}

FlowInv == OneBooter /\ BooterFlagged /\ OneDecider /\ DecidesFirst /\ NoBootAfterTool
ProcInv == ReapedFirst /\ OneRunning /\ ToolReaped

-----------------------------------------------------------------------------
\* After a kill none of those it names is an agent, asked to exit or escaped.
LEMMA KillDoes ==
    ASSUME NEW S, Kill(S)
    PROVE  /\ Agents' \subseteq Agents \ S
           /\ proc \in [Handle -> {"none", "running", "killed", "exited"}] =>
                  proc' \in [Handle -> {"none", "running", "killed", "exited"}]
<1>1. PICK kept \in SUBSET S :
        /\ proc' = KillIn(proc, S \ kept)
        /\ escaped' = escaped \union (kept \intersect Running)
  BY DEF Kill
<1>2. ASSUME NEW h \in Agents' PROVE h \in Agents \ S
  <2>1. h \in Handle /\ proc'[h] = "running" /\ h \notin escaped'
    BY <1>2 DEF Agents, Running
  <2>2. h \notin S \ kept /\ proc[h] = "running"
    BY <1>1, <2>1 DEF KillIn
  <2>. QED BY <1>1, <2>1, <2>2 DEF Agents, Running
<1>. QED BY <1>1, <1>2 DEF KillIn

-----------------------------------------------------------------------------
\* The records of activations that the actions write.
LEMMA Records ==
    /\ Idle \in FlowRec /\ Idle.pc = "idle" /\ Idle.then = "end"
    /\ \A pc \in PCs : At(pc) \in FlowRec /\ At(pc).pc = pc /\ At(pc).then = "end"
BY BoundsAssumption DEF FlowRec, Idle, At, PCs, Thens

\* A record of an activation that awaits at pc, with the given caller.
Awaits(r, pc, then) == r \in FlowRec /\ r.pc = pc /\ r.then = then

LEMMA Updates ==
    ASSUME NEW r \in FlowRec
    PROVE  /\ \A pc \in PCs, K \in SUBSET Handle :
                  Awaits([r EXCEPT !.pc = pc, !.killed = K], pc, r.then)
           /\ \A pc \in PCs : Awaits([r EXCEPT !.pc = pc], pc, r.then)
           /\ \A then \in Thens : Awaits([r EXCEPT !.then = then], r.pc, then)
           /\ \A v \in 0..MaxChanges : Awaits([r EXCEPT !.seen = v], r.pc, r.then)
           /\ \A h \in Handle : Awaits([r EXCEPT !.h = h], r.pc, r.then)
           /\ r.seen \in 0..MaxChanges
<1>1. \A pc \in PCs, K \in SUBSET Handle : Awaits([r EXCEPT !.pc = pc, !.killed = K], pc, r.then)
  BY DEF FlowRec, Awaits
<1>2. \A pc \in PCs : Awaits([r EXCEPT !.pc = pc], pc, r.then)
  BY DEF FlowRec, Awaits
<1>3. \A then \in Thens : Awaits([r EXCEPT !.then = then], r.pc, then)
  BY DEF FlowRec, Awaits
<1>4. \A v \in 0..MaxChanges : Awaits([r EXCEPT !.seen = v], r.pc, r.then)
  BY DEF FlowRec, Awaits
<1>5. \A h \in Handle : Awaits([r EXCEPT !.h = h], r.pc, r.then)
  BY DEF FlowRec, Awaits
<1>6. r.seen \in 0..MaxChanges
  BY DEF FlowRec
<1>. QED BY <1>1, <1>2, <1>3, <1>4, <1>5, <1>6, Zenon

\* The same of a fresh record.
LEMMA FreshUpdates ==
    ASSUME NEW pc \in PCs
    PROVE  /\ \A then \in Thens : Awaits([At(pc) EXCEPT !.then = then], pc, then)
           /\ \A v \in 0..MaxChanges : Awaits([At(pc) EXCEPT !.seen = v], pc, "end")
           /\ \A h \in Handle : Awaits([At(pc) EXCEPT !.h = h], pc, "end")
<1>1. At(pc) \in FlowRec /\ At(pc).pc = pc /\ At(pc).then = "end"
  BY Records
<1>. HIDE DEF At
<1>2. /\ \A then \in Thens : Awaits([At(pc) EXCEPT !.then = then], At(pc).pc, then)
      /\ \A v \in 0..MaxChanges : Awaits([At(pc) EXCEPT !.seen = v], At(pc).pc, At(pc).then)
      /\ \A h \in Handle : Awaits([At(pc) EXCEPT !.h = h], At(pc).pc, At(pc).then)
  BY <1>1, Updates, Zenon
<1>. QED BY <1>1, <1>2

\* A step writes the record new to flow f and leaves the other flows alone.
Writes(f, new) == flow' = [flow EXCEPT ![f] = new] /\ new \in FlowRec

LEMMA WritesDoes ==
    ASSUME Typed, settings' \in 0..MaxChanges, NEW f \in Flow, NEW new, Writes(f, new)
    PROVE  /\ Typed'
           /\ flow'[f] = new
           /\ \A g \in Flow \ {f} : flow'[g] = flow[g]
BY DEF Typed, Writes

\* What the entries of startAgent and stopAgent make of a flow.
LEMMA StartEntryDoes ==
    ASSUME Typed, NEW f \in Flow, StartEntry(f)
    PROVE  \E new : /\ Writes(f, new) /\ new.then = "end"
                    /\ new.pc = "idle" \/ (new.pc = "config" /\ ~booting)
<1>. DEFINE asks == [At("config") EXCEPT !.seen = settings]
<1>1. "config" \in PCs
  BY DEF PCs
<1>2. asks \in FlowRec /\ asks.pc = "config" /\ asks.then = "end"
  BY <1>1, FreshUpdates DEF Typed, Awaits
<1>3. CASE handle # None \/ booting
  BY <1>3, Records DEF StartEntry, Writes
<1>4. CASE ~(handle # None \/ booting)
  <2>1. Writes(f, asks) /\ ~booting
    BY <1>2, <1>4 DEF StartEntry, Writes
  <2>. HIDE DEF asks
  <2>. QED BY <1>2, <2>1
<1>. QED BY <1>3, <1>4

LEMMA StopEntryDoes ==
    ASSUME Typed, NEW f \in Flow, NEW then \in Thens, StopEntry(f, then)
    PROVE  /\ \E new : /\ Writes(f, new)
                       /\ \/ new.pc = "stopping" /\ new.then = then
                          \/ new.pc = "idle" /\ then # "reap"
                          \/ new.pc = "config" /\ ~booting /\ then # "reap"
                          \/ new.pc = "toolReaping" /\ then = "reap"
           /\ Agents' \subseteq Agents
<1>. DEFINE stops == [At("stopping") EXCEPT !.then = then]
<1>1. "stopping" \in PCs /\ "toolReaping" \in PCs
  BY DEF PCs
<1>2. stops \in FlowRec /\ stops.pc = "stopping" /\ stops.then = then
  BY <1>1, FreshUpdates DEF Awaits
<1>3. CASE handle # None
  <2>1. Writes(f, stops) /\ Kill({handle})
    BY <1>2, <1>3 DEF StopEntry, Writes
  <2>2. Agents' \subseteq Agents
    BY <2>1, KillDoes
  <2>. HIDE DEF stops
  <2>. QED BY <1>2, <2>1, <2>2
<1>4. CASE handle = None
  <2>1. Agents' = Agents
    BY <1>4 DEF StopEntry, Agents, Running
  <2>2. CASE then = "start" /\ StartEntry(f)
    BY <2>1, <2>2, StartEntryDoes
  <2>3. CASE then = "end" /\ flow' = [flow EXCEPT ![f] = Idle]
    BY <2>1, <2>3, Records DEF Writes
  <2>4. CASE then = "reap" /\ flow' = [flow EXCEPT ![f] = At("toolReaping")]
    BY <1>1, <2>1, <2>4, Records DEF Writes
  <2>. QED BY <1>4, <2>2, <2>3, <2>4 DEF StopEntry
<1>. QED BY <1>3, <1>4

\* Which steps a flow in progress may take, and what each does to the flag and
\* to the agents that run.
Kept == booting' = booting /\ Agents' \subseteq Agents
Decides(f, new) ==
    \/ /\ flow[f].pc = "stopping" /\ Kept
       /\ \/ new.pc = "idle" /\ flow[f].then # "reap"
          \/ new.pc = "config" /\ ~booting /\ flow[f].then # "reap"
          \/ new.pc = "toolReaping" /\ flow[f].then = "reap"
    \/ /\ flow[f].pc = "config" /\ Agents' \subseteq Agents
       /\ \/ new.pc = "idle" /\ booting' = booting
          \/ new.pc = "reaping" /\ ~stoppedByTool /\ booting' = TRUE
Reaps(f, new) ==
    \/ /\ booting' = booting /\ Agents' = {}
       /\ \/ flow[f].pc = "reaping" /\ new.pc \in {"draining", "spawning"}
          \/ flow[f].pc = "toolReaping" /\ new.pc \in {"idle", "toolDraining"}
    \/ /\ Kept
       /\ \/ flow[f].pc = "draining" /\ new.pc = "spawning"
          \/ flow[f].pc = "toolDraining" /\ new.pc = "idle"
Spawns(f, new) ==
    /\ flow[f].pc = "spawning" /\ new.pc = "spawned" /\ booting' = booting
    /\ \E h \in Handle : Agents' \subseteq Agents \union {h}
Ends(f, new) ==
    \/ flow[f].pc = "spawned" /\ new.pc = "ready" /\ Kept
    \/ flow[f].pc = "ready" /\ new.pc = "failing" /\ Kept
    \/ /\ flow[f].pc \in {"ready", "failing"} /\ new.pc = "idle" /\ booting' = FALSE
       /\ Agents' \subseteq Agents

LEMMA FlowStepDoes ==
    ASSUME Typed, NEW f \in Flow, FlowStep(f)
    PROVE  /\ \E new : /\ Writes(f, new)
                       /\ Decides(f, new) \/ Reaps(f, new) \/ Spawns(f, new) \/ Ends(f, new)
           /\ UNCHANGED <<stoppedByTool, settings>>
<1>. DEFINE Goal == /\ \E new : /\ Writes(f, new)
                                /\ \/ Decides(f, new) \/ Reaps(f, new) \/ Spawns(f, new)
                                   \/ Ends(f, new)
                    /\ UNCHANGED <<stoppedByTool, settings>>
<1>p. /\ {"config", "toolReaping", "reaping", "draining", "toolDraining", "spawning", "spawned",
          "ready", "failing", "idle"} \subseteq PCs
      /\ flow[f] \in FlowRec /\ settings \in 0..MaxChanges
  BY DEF PCs, Typed
<1>1. CASE StopReturns(f)
  <2>1. /\ flow[f].pc = "stopping" /\ UNCHANGED <<booting, stoppedByTool, settings, proc, escaped>>
        /\ \/ /\ flow[f].then = "start" /\ ~booting
              /\ flow' = [flow EXCEPT ![f] = [At("config") EXCEPT !.seen = settings]]
           \/ flow[f].then # "reap" /\ flow' = [flow EXCEPT ![f] = Idle]
           \/ flow[f].then = "reap" /\ flow' = [flow EXCEPT ![f] = At("toolReaping")]
    BY <1>1 DEF StopReturns, hostVars, userVars
  <2>2. Kept
    BY <2>1 DEF Kept, Agents, Running
  <2>3. Awaits([At("config") EXCEPT !.seen = settings], "config", "end")
    BY <1>p, FreshUpdates
  <2>4. /\ Idle \in FlowRec /\ Idle.pc = "idle"
        /\ At("toolReaping") \in FlowRec /\ At("toolReaping").pc = "toolReaping"
    BY <1>p, Records
  <2>. QED BY <2>1, <2>2, <2>3, <2>4 DEF Writes, Decides, Awaits
<1>2. ASSUME NEW v \in 0..MaxChanges, ConfigReturns(f, v) PROVE Goal
  <2>1. /\ flow[f].pc = "config" /\ UNCHANGED <<stoppedByTool, settings, proc, escaped>>
        /\ \/ flow' = [flow EXCEPT ![f] = Idle] /\ booting' = booting
           \/ /\ flow' = [flow EXCEPT ![f] = [At("reaping") EXCEPT !.seen = v]]
              /\ booting' = TRUE /\ ~stoppedByTool
    BY <1>2 DEF ConfigReturns, HeldOff, hostVars, userVars
  <2>2. Agents' \subseteq Agents
    BY <2>1 DEF Agents, Running
  <2>3. Awaits([At("reaping") EXCEPT !.seen = v], "reaping", "end")
    BY <1>p, FreshUpdates
  <2>4. Idle \in FlowRec /\ Idle.pc = "idle"
    BY Records
  <2>. QED BY <2>1, <2>2, <2>3, <2>4 DEF Writes, Decides, Awaits
<1>3. CASE ListReturns(f)
  <2>1. PICK pc \in {"idle", "toolDraining", "spawning", "draining"} :
          /\ flow' = [flow EXCEPT ![f].pc = pc, ![f].killed = Reaped]
          /\ \/ flow[f].pc = "reaping" /\ pc \in {"draining", "spawning"}
             \/ flow[f].pc = "toolReaping" /\ pc \in {"idle", "toolDraining"}
    BY <1>3 DEF ListReturns
  <2>. DEFINE new == [flow[f] EXCEPT !.pc = pc, !.killed = Reaped]
  <2>2. /\ UNCHANGED <<booting, stoppedByTool, settings>> /\ Kill(Reaped)
    BY <1>3 DEF ListReturns, userVars
  <2>3. Agents' = {}
    BY <2>2, KillDoes DEF Agents, Running, Reaped, Alive
  <2>4. Awaits(new, pc, flow[f].then)
    <3>1. pc \in PCs /\ Reaped \in SUBSET Handle
      BY <1>p DEF Reaped
    <3>. QED BY <1>p, <3>1, Updates, Zenon
  <2>5. flow' = [flow EXCEPT ![f] = new]
    BY <2>1
  <2>. HIDE DEF new
  <2>6. Writes(f, new) /\ Reaps(f, new)
    BY <2>1, <2>2, <2>3, <2>4, <2>5 DEF Writes, Reaps, Awaits
  <2>. QED BY <2>2, <2>6
<1>a. CASE ListRefused(f)
  <2>1. PICK pc \in {"idle", "spawning"} :
          /\ flow' = [flow EXCEPT ![f].pc = pc]
          /\ \/ flow[f].pc = "reaping" /\ pc = "spawning"
             \/ flow[f].pc = "toolReaping" /\ pc = "idle"
    BY <1>a DEF ListRefused
  <2>. DEFINE new == [flow[f] EXCEPT !.pc = pc]
  <2>2. UNCHANGED <<booting, stoppedByTool, settings>> /\ Agents' = {}
    BY <1>a DEF ListRefused, userVars, Agents, Running
  <2>3. Awaits(new, pc, flow[f].then)
    <3>1. pc \in PCs
      BY <1>p
    <3>. QED BY <1>p, <3>1, Updates, Zenon
  <2>4. flow' = [flow EXCEPT ![f] = new]
    BY <2>1
  <2>. HIDE DEF new
  <2>5. Writes(f, new) /\ Reaps(f, new)
    BY <2>1, <2>2, <2>3, <2>4 DEF Writes, Reaps, Awaits
  <2>. QED BY <2>2, <2>5
<1>4. CASE DrainReturns(f)
  <2>1. /\ UNCHANGED <<booting, stoppedByTool, settings, proc, escaped>>
        /\ \/ /\ flow[f].pc = "draining"
              /\ flow' = [flow EXCEPT ![f] = [At("spawning") EXCEPT !.seen = flow[f].seen]]
           \/ flow[f].pc = "toolDraining" /\ flow' = [flow EXCEPT ![f] = Idle]
    BY <1>4 DEF DrainReturns, hostVars, userVars
  <2>2. Kept
    BY <2>1 DEF Kept, Agents, Running
  <2>3. Awaits([At("spawning") EXCEPT !.seen = flow[f].seen], "spawning", "end")
    <3>1. flow[f].seen \in 0..MaxChanges
      BY <1>p DEF FlowRec
    <3>. QED BY <1>p, <3>1, FreshUpdates
  <2>4. Idle \in FlowRec /\ Idle.pc = "idle"
    BY Records
  <2>. QED BY <2>1, <2>2, <2>3, <2>4 DEF Writes, Reaps, Awaits
<1>5. ASSUME NEW h \in Handle, HostSpawns(f, h) PROVE Goal
  <2>1. /\ flow[f].pc = "spawning" /\ UNCHANGED <<booting, stoppedByTool, settings>>
        /\ proc' = [proc EXCEPT ![h] = "running"] /\ escaped' = escaped \ {h}
        /\ flow' = [flow EXCEPT ![f] = [At("spawned") EXCEPT !.h = h]]
    BY <1>5 DEF HostSpawns, userVars
  <2>2. Agents' \subseteq Agents \union {h}
    BY <2>1 DEF Agents, Running
  <2>3. Awaits([At("spawned") EXCEPT !.h = h], "spawned", "end")
    BY <1>p, FreshUpdates
  <2>. QED BY <2>1, <2>2, <2>3 DEF Writes, Spawns, Awaits
<1>6. CASE SpawnReturns(f)
  <2>. DEFINE new == [flow[f] EXCEPT !.pc = "ready"]
  <2>1. /\ flow[f].pc = "spawned" /\ UNCHANGED <<booting, stoppedByTool, settings, proc, escaped>>
        /\ flow' = [flow EXCEPT ![f] = new]
    BY <1>6 DEF SpawnReturns, hostVars, userVars
  <2>2. Kept
    BY <2>1 DEF Kept, Agents, Running
  <2>3. Awaits(new, "ready", flow[f].then)
    <3>1. "ready" \in PCs
      BY <1>p
    <3>. QED BY <1>p, <3>1, Updates, Zenon
  <2>. HIDE DEF new
  <2>. QED BY <2>1, <2>2, <2>3 DEF Writes, Ends, Awaits
<1>7. CASE ReadyReturns(f) \/ ReadyFails(f) \/ FailReturns(f)
  <2>1. /\ UNCHANGED <<stoppedByTool, settings>>
        /\ \/ /\ flow[f].pc = "ready" /\ flow' = [flow EXCEPT ![f] = At("failing")]
              /\ booting' = booting
           \/ /\ flow[f].pc \in {"ready", "failing"} /\ flow' = [flow EXCEPT ![f] = Idle]
              /\ booting' = FALSE
    BY <1>7 DEF ReadyReturns, ReadyFails, FailReturns, userVars
  <2>2. Agents' \subseteq Agents
    <3>1. Kill({handle}) \/ UNCHANGED <<proc, escaped>>
      BY <1>7 DEF ReadyReturns, ReadyFails, FailReturns, hostVars
    <3>. QED BY <3>1, KillDoes DEF Agents, Running
  <2>3. /\ Idle \in FlowRec /\ Idle.pc = "idle"
        /\ At("failing") \in FlowRec /\ At("failing").pc = "failing"
    BY <1>p, Records
  <2>. QED BY <2>1, <2>2, <2>3 DEF Writes, Ends, Kept
<1>. QED BY <1>1, <1>2, <1>3, <1>a, <1>4, <1>5, <1>6, <1>7 DEF FlowStep

-----------------------------------------------------------------------------
Inv == Typed /\ FlowInv /\ ProcInv

\* A step that lets no agent and no activation begin.
LEMMA QuietStep ==
    ASSUME Inv, Typed', flow' = flow, Agents' \subseteq Agents,
           UNCHANGED <<booting, stoppedByTool>>
    PROVE  Inv'
BY DEF Inv, FlowInv, ProcInv, OneBooter, BooterFlagged, OneDecider, DecidesFirst,
       NoBootAfterTool, ReapedFirst, OneRunning, ToolReaped, Booters, Deciders, Reapers

\* An idle activation begins, while the host owes no answer.
LEMMA EntryStep ==
    ASSUME Prompt, Inv, Quiet, settings' \in 0..MaxChanges, NEW f \in IdleFlows, NEW new,
           Writes(f, new), booting' = booting, Agents' \subseteq Agents,
           new.pc = "config" => ~booting, new.pc \in {"idle", "stopping", "config", "toolReaping"},
           stoppedByTool' =>
               \/ stoppedByTool
               \/ ~booting /\ (new.pc = "toolReaping" \/ (new.pc = "stopping" /\ new.then = "reap"))
    PROVE  Inv'
<1>1. f \in Flow /\ flow[f].pc = "idle"
  BY DEF IdleFlows
<1>2. /\ Typed' /\ flow'[f] = new
      /\ \A g \in Flow \ {f} : flow'[g] = flow[g]
  BY <1>1, WritesDoes DEF Inv
<1>3. \A g \in Flow : flow[g].pc \in {"idle", "draining", "toolDraining", "ready"}
  BY DEF Quiet, LongWaits
<1>4. OneBooter' /\ BooterFlagged'
  BY <1>1, <1>2 DEF Inv, FlowInv, OneBooter, BooterFlagged, Booters, Boots
<1>5. OneDecider' /\ DecidesFirst'
  BY <1>2, <1>3 DEF OneDecider, DecidesFirst, Deciders
<1>6. NoBootAfterTool'
  BY DEF Inv, FlowInv, NoBootAfterTool
<1>7. ReapedFirst' /\ OneRunning'
  BY <1>1, <1>2 DEF Inv, ProcInv, ReapedFirst, OneRunning
<1>8. ToolReaped'
  <2>1. Reapers = {}
    BY <1>3 DEF Reapers
  <2>2. new.pc = "toolReaping" \/ (new.pc = "stopping" /\ new.then = "reap") => f \in Reapers'
    BY <1>1, <1>2 DEF Reapers
  <2>. QED BY <2>1, <2>2 DEF Inv, ProcInv, ToolReaped
<1>. QED BY <1>2, <1>4, <1>5, <1>6, <1>7, <1>8 DEF Inv, FlowInv, ProcInv

\* A flow in progress goes on: only the one that boots lets an agent begin,
\* after it has asked every other to exit.
LEMMA ProgressStep ==
    ASSUME Inv, NEW f \in Flow, FlowStep(f)
    PROVE  Inv'
<1>1. PICK new : /\ Writes(f, new)
                 /\ Decides(f, new) \/ Reaps(f, new) \/ Spawns(f, new) \/ Ends(f, new)
  BY FlowStepDoes DEF Inv
<1>2. /\ UNCHANGED <<stoppedByTool, settings>> /\ settings' \in 0..MaxChanges
  BY FlowStepDoes DEF Inv, Typed
<1>3. /\ Typed' /\ flow'[f] = new
      /\ \A g \in Flow \ {f} : flow'[g] = flow[g]
  BY <1>1, <1>2, WritesDoes DEF Inv
<1>. USE DEF Booters, Boots, Deciders
<1>4. FlowInv'
  <2>1. f \in Booters' => f \in Booters \/ (f \in Deciders /\ booting' = TRUE /\ ~booting)
    BY <1>1, <1>3 DEF Decides, Reaps, Spawns, Ends, Inv, FlowInv, DecidesFirst
  <2>2. OneBooter'
    BY <1>3, <2>1 DEF Inv, FlowInv, OneBooter, BooterFlagged
  <2>3. booting' = booting \/ booting' = TRUE \/ Booters' \subseteq Booters \ {f}
    BY <1>1, <1>3 DEF Decides, Reaps, Spawns, Ends, Kept
  <2>4. booting' = FALSE /\ booting => f \in Booters
    BY <1>1 DEF Decides, Reaps, Spawns, Ends, Kept
  <2>5. BooterFlagged'
    BY <1>3, <2>1, <2>3, <2>4 DEF Inv, FlowInv, OneBooter, BooterFlagged
  <2>6. f \in Deciders' => f \in Deciders /\ booting' = booting /\ ~booting
    BY <1>1, <1>3 DEF Decides, Reaps, Spawns, Ends, Kept
  <2>7. booting' # booting => f \in Deciders \/ booting' = FALSE
    BY <1>1 DEF Decides, Reaps, Spawns, Ends, Kept
  <2>8. OneDecider'
    BY <1>3, <2>6 DEF Inv, FlowInv, OneDecider
  <2>9. DecidesFirst'
    BY <1>3, <2>6, <2>7 DEF Inv, FlowInv, OneDecider, DecidesFirst
  <2>10. NoBootAfterTool'
    BY <1>1, <1>2 DEF Decides, Reaps, Spawns, Ends, Kept, Inv, FlowInv, NoBootAfterTool
  <2>. QED BY <2>2, <2>5, <2>8, <2>9, <2>10 DEF FlowInv
<1>5. ProcInv'
  <2>1. CASE Spawns(f, new)
    <3>1. f \in Booters /\ Agents = {} /\ booting
      BY <2>1 DEF Spawns, Inv, FlowInv, ProcInv, ReapedFirst, BooterFlagged
    <3>2. OneRunning'
      BY <2>1, <3>1 DEF Spawns, OneRunning
    <3>3. ReapedFirst'
      BY <1>3, <2>1, <3>1 DEF Spawns, ReapedFirst, Inv, FlowInv, OneBooter
    <3>4. ~stoppedByTool
      BY <3>1 DEF Inv, FlowInv, NoBootAfterTool
    <3>. QED BY <1>2, <3>2, <3>3, <3>4 DEF ProcInv, ToolReaped
  <2>2. CASE ~Spawns(f, new)
    <3>1. Agents' \subseteq Agents
      BY <1>1, <2>2 DEF Decides, Reaps, Ends, Kept
    <3>2. new.pc \in {"draining", "spawning"} =>
              flow[f].pc \in {"draining", "spawning"} \/ Agents' = {}
      BY <1>1, <2>2 DEF Decides, Reaps, Ends
    <3>3. ReapedFirst' /\ OneRunning'
      BY <1>3, <3>1, <3>2 DEF Inv, ProcInv, ReapedFirst, OneRunning
    <3>4. f \in Reapers => f \in Reapers' \/ Agents' = {}
      BY <1>1, <1>3, <2>2 DEF Decides, Reaps, Ends, Reapers
    <3>5. ToolReaped'
      BY <1>2, <1>3, <3>1, <3>4 DEF Inv, ProcInv, ToolReaped, Reapers
    <3>. QED BY <3>3, <3>5 DEF ProcInv
  <2>. QED BY <2>1, <2>2
<1>. QED BY <1>3, <1>4, <1>5 DEF Inv

LEMMA StepInv ==
    ASSUME Prompt, Inv, [Next]_vars
    PROVE  Inv'
<1>1. ASSUME NEW f \in Flow, Activate(f) PROVE Inv'
  <2>1. /\ Quiet /\ f \in IdleFlows /\ StartEntry(f) /\ stoppedByTool' = FALSE
        /\ UNCHANGED <<booting, settings, proc, escaped>>
    BY <1>1 DEF Activate, hostVars
  <2>2. PICK new : /\ Writes(f, new) /\ new.then = "end"
                   /\ new.pc = "idle" \/ (new.pc = "config" /\ ~booting)
    BY <2>1, StartEntryDoes DEF Inv
  <2>. QED BY <2>1, <2>2, EntryStep DEF Agents, Running, Inv, Typed
<1>2. ASSUME NEW f \in Flow, NEW then \in Thens, Quiet, f \in IdleFlows, StopEntry(f, then),
             UNCHANGED <<booting, settings>>,
             stoppedByTool' => stoppedByTool \/ (~booting /\ then = "reap")
      PROVE  Inv'
  <2>1. PICK new : /\ Writes(f, new)
                   /\ \/ new.pc = "stopping" /\ new.then = then
                      \/ new.pc = "idle" /\ then # "reap"
                      \/ new.pc = "config" /\ ~booting /\ then # "reap"
                      \/ new.pc = "toolReaping" /\ then = "reap"
    BY <1>2, StopEntryDoes DEF Inv
  <2>2. Agents' \subseteq Agents
    BY <1>2, StopEntryDoes DEF Inv, Agents, Running
  <2>. QED BY <1>2, <2>1, <2>2, EntryStep DEF Inv, Typed
<1>3. ASSUME NEW f \in Flow, Deactivate(f) \/ RestartFires(f) \/ Disconnect(f) PROVE Inv'
  BY <1>2, <1>3 DEF Deactivate, RestartFires, Disconnect, userVars, Thens
<1>4. ASSUME NEW f \in Flow, FlowStep(f) PROVE Inv'
  BY <1>4, ProgressStep
<1>5. CASE ChangeSettings
  <2>1. settings' \in 0..MaxChanges
    BY <1>5, BoundsAssumption DEF ChangeSettings, Inv, Typed
  <2>2. /\ flow' = flow /\ Agents' \subseteq Agents /\ UNCHANGED <<booting, stoppedByTool>>
    BY <1>5 DEF ChangeSettings, hostVars, Agents, Running
  <2>3. Typed'
    BY <2>1, <2>2 DEF Inv, Typed
  <2>. QED BY <2>2, <2>3, QuietStep
<1>6. CASE WatchTick \/ UNCHANGED vars \/ \E h \in Handle : TickReturns(h) \/ ProcExits(h)
  <2>1. UNCHANGED <<flow, settings, booting, stoppedByTool>>
    BY <1>6 DEF WatchTick, TickReturns, ProcExits, vars, jsVars, userVars
  <2>2. Agents' \subseteq Agents
    <3>1. /\ proc' = proc \/ \E h \in Handle : proc' = [proc EXCEPT ![h] = "exited"]
          /\ escaped' = escaped
      BY <1>6 DEF WatchTick, TickReturns, ProcExits, vars, hostVars
    <3>2. CASE proc' = proc
      BY <3>1, <3>2 DEF Agents, Running
    <3>3. ASSUME NEW h \in Handle, proc' = [proc EXCEPT ![h] = "exited"], NEW g \in Agents'
          PROVE  g \in Agents
      BY <3>1, <3>3 DEF Agents, Running
    <3>. QED BY <3>1, <3>2, <3>3
  <2>3. Typed'
    BY <2>1 DEF Inv, Typed
  <2>. QED BY <2>1, <2>2, <2>3, QuietStep
<1>7. CASE Reload
  <2>1. /\ flow' = [f \in Flow |-> Idle] /\ ~booting' /\ ~stoppedByTool'
        /\ settings' = settings /\ UNCHANGED <<proc, escaped>>
    BY <1>7 DEF Reload, hostVars
  <2>2. Typed' /\ \A f \in Flow : flow'[f].pc = "idle"
    BY <2>1, Records DEF Typed, Inv
  <2>3. Agents' = Agents
    BY <2>1 DEF Agents, Running
  <2>. QED
    BY <2>1, <2>2, <2>3 DEF Inv, FlowInv, ProcInv, OneBooter, BooterFlagged, OneDecider,
       DecidesFirst, NoBootAfterTool, ReapedFirst, OneRunning, ToolReaped, Booters, Boots,
       Deciders
<1>. QED BY <1>1, <1>3, <1>4, <1>5, <1>6, <1>7 DEF Next, UserStep

LEMMA InitInv == Init => Inv
<1>. SUFFICES ASSUME Init PROVE Inv
  OBVIOUS
<1>1. Typed /\ \A f \in Flow : flow[f].pc = "idle"
  BY Records, BoundsAssumption DEF Init, Typed
<1>2. Agents = {} /\ ~booting /\ ~stoppedByTool
  BY DEF Init, Agents, Running
<1>. QED
  BY <1>1, <1>2 DEF Inv, FlowInv, ProcInv, OneBooter, BooterFlagged, OneDecider, DecidesFirst,
     NoBootAfterTool, ReapedFirst, OneRunning, ToolReaped, Booters, Boots, Deciders

\* AtMostOneAgent: whatever boots, restarts, disconnects, reloads and failures
\* overlap, never two agents that nobody asked to exit, those aside that a
\* refused list or kill let escape (index.js:127-150).
THEOREM OneAgent == Prompt => (Spec => []AtMostOneAgent)
<1>. SUFFICES ASSUME Prompt PROVE Spec => []AtMostOneAgent
  OBVIOUS
<1>1. Inv => AtMostOneAgent
  <2>. SUFFICES ASSUME OneRunning PROVE Cardinality(Agents) <= 1
    BY DEF Inv, ProcInv, AtMostOneAgent
  <2>1. CASE Agents = {}
    BY <2>1, FS_EmptySet
  <2>2. ASSUME NEW h \in Agents PROVE Cardinality(Agents) <= 1
    <3>1. Agents = {h}
      BY DEF OneRunning
    <3>. QED BY <3>1, FS_Singleton
  <2>. QED BY <2>1, <2>2
<1>2. Inv /\ [Next]_vars => Inv'
  BY StepInv
<1>. QED BY <1>1, <1>2, InitInv, PTL DEF Spec

\* DisconnectSticks: once the tool has answered no agent runs, one that escaped
\* aside, until the user turns the extension on again (check-ai-tool.mjs:2).
THEOREM ToolSticks == Prompt => (Spec => []DisconnectSticks)
<1>. SUFFICES ASSUME Prompt PROVE Spec => []DisconnectSticks
  OBVIOUS
<1>1. Inv => DisconnectSticks
  BY DEF Inv, ProcInv, ToolReaped, Reapers, DisconnectSticks
<1>2. Inv /\ [Next]_vars => Inv'
  BY StepInv
<1>. QED BY <1>1, <1>2, InitInv, PTL DEF Spec

-----------------------------------------------------------------------------
\* An activation of startAgent before it keeps the handle of what it spawned.
Early == {"reaping", "draining", "spawning", "spawned"}

HeldTyped ==
    /\ handle \in Handle \union {None}
    /\ proc \in [Handle -> {"none", "running", "killed", "exited"}]

\* The flag is up only while an activation boots.
BootLives == booting => Booters # {}
\* Until an activation has spawned its agent there is no handle.
NoAgentYet == \A f \in Flow : flow[f].pc \in Early \union {"config"} => handle = None
\* The agent that a stopAgent gives up has been asked to exit, and no boot is
\* at a point where it would let another begin before the handle is dropped.
StopsFirst ==
    \A f \in Flow : flow[f].pc = "stopping" =>
        /\ ticks = {} /\ handle \notin Agents
        /\ \A g \in Flow : flow[g].pc \notin Early
        /\ flow[f].then = "end" => ~on
\* While an activation awaits READY only its own agent runs, and in `handle`.
BootedOnly ==
    \A f \in Flow :
        /\ flow[f].pc \in {"spawned", "ready"} =>
               flow[f].h \in Handle /\ Agents \subseteq {flow[f].h}
        /\ flow[f].pc = "ready" /\ Agents # {} => handle = flow[f].h
        /\ flow[f].pc = "failing" => Agents = {}
HeldOnly == handle # None => Agents \subseteq {handle}
\* During a boot no poll of the watch is under way and no timer of an earlier
\* agent takes the new one for its own; an agent that is not watched is being
\* booted or stopped.
WatchHeld ==
    /\ booting => ticks = {} /\ (handle = None \/ watchTimer # handle)
    /\ \A f \in Flow : flow[f].pc = "spawned" => watchTimer # flow[f].h
    /\ handle # None =>
           \/ watchTimer = handle
           \/ \E f \in Flow : flow[f].pc \in {"ready", "failing", "stopping"}
\* One poll of the watch is under way, about the agent in `handle`.
OneTick == ticks = {} \/ (ticks = {handle} /\ watchTimer = handle /\ handle \in Handle)
\* The settings do not change while they are read.
ReadsCurrent == \A f \in Flow : flow[f].pc = "config" => flow[f].seen = settings
\* An agent that runs outside `handle`, of an earlier load, will be dealt with:
\* by an activation that reaps it, or after one that is to come.
WillReap(f) ==
    \/ flow[f].pc \in {"config", "reaping", "spawned", "toolReaping"}
    \/ flow[f].pc = "stopping" /\ flow[f].then # "end"
Handled ==
    \/ Agents \subseteq {handle} \/ ~on \/ restartTimer \/ settings \notin Configured
    \/ \E f \in Flow : WillReap(f)
\* The bridge and the status bar disagree only until the restart after an exit.
Agreed == bridge = agentOnline \/ restartTimer

HeldInv ==
    /\ HeldTyped /\ BootLives /\ NoAgentYet /\ StopsFirst /\ BootedOnly /\ HeldOnly
    /\ WatchHeld /\ OneTick /\ ReadsCurrent /\ Handled /\ Agreed

\* Killing the agent in `handle` leaves none that runs, when there is one.
LEMMA KillHeld ==
    ASSUME HeldTyped, HeldOnly, handle # None, Kill({handle})
    PROVE  Agents' = {} /\ proc' \in [Handle -> {"none", "running", "killed", "exited"}]
BY KillDoes DEF HeldTyped, HeldOnly

\* A boot that awaits its reaper's kills or READY without a handle, or has
\* failed, has no agent.
LEMMA BootWithout ==
    ASSUME Inv, HeldInv, booting,
           \A f \in Flow : flow[f].pc \in {"draining", "ready", "failing"} \/ flow[f].pc \notin Boots,
           handle \notin Agents
    PROVE  Agents = {}
<1>1. PICK f \in Flow : flow[f].pc \in {"draining", "ready", "failing"}
  BY DEF HeldInv, BootLives, Booters
<1>2. CASE flow[f].pc = "draining"
  BY <1>2 DEF Inv, ProcInv, ReapedFirst
<1>3. CASE flow[f].pc = "ready" \/ flow[f].pc = "failing"
  BY <1>3 DEF HeldInv, BootedOnly
<1>. QED BY <1>1, <1>2, <1>3

\* stopAgent begins, while the host owes no answer.
LEMMA StopEntryKeeps ==
    ASSUME Inv, HeldInv, Prompt, Quiet, NEW f \in IdleFlows, NEW then \in Thens,
           StopEntry(f, then), then = "end" => ~on',
           UNCHANGED <<handle, booting, ticks, settings>>
    PROVE  HeldInv'
<1>. DEFINE stops == [At("stopping") EXCEPT !.then = then]
            asks == [At("config") EXCEPT !.seen = settings]
<1>1. /\ f \in Flow /\ flow[f].pc = "idle" /\ ticks = {}
      /\ \A g \in Flow : flow[g].pc \in LongWaits
  BY DEF IdleFlows, Quiet
<1>2. /\ "stopping" \in PCs /\ "config" \in PCs /\ "toolReaping" \in PCs
      /\ flow \in [Flow -> FlowRec] /\ settings \in 0..MaxChanges
  BY DEF PCs, Inv, Typed
<1>3. watchTimer' = Off /\ bridge' = FALSE /\ agentOnline' = FALSE
  BY DEF StopEntry
<1>4. \A g \in Flow \ {f} : flow'[g] = flow[g]
  BY <1>2 DEF StopEntry, StartEntry
<1>5. CASE handle # None
  <2>1. flow'[f] = stops /\ Kill({handle})
    BY <1>1, <1>2, <1>5 DEF StopEntry
  <2>2. flow'[f].pc = "stopping" /\ flow'[f].then = then
    BY <1>2, <2>1, FreshUpdates DEF Awaits
  <2>. HIDE DEF stops
  <2>3. Agents' = {} /\ HeldTyped'
    BY <1>5, <2>1, KillHeld DEF HeldInv, HeldTyped
  <2>4. BootLives' /\ NoAgentYet' /\ BootedOnly' /\ HeldOnly' /\ ReadsCurrent'
    BY <1>1, <1>4, <1>5, <2>2, <2>3
       DEF HeldInv, BootLives, NoAgentYet, BootedOnly, HeldOnly, ReadsCurrent, Booters, Boots, Early
  <2>5. StopsFirst'
    BY <1>1, <1>3, <1>4, <1>5, <2>2, <2>3 DEF HeldInv, NoAgentYet, StopsFirst, LongWaits, Early
  <2>6. WatchHeld' /\ OneTick' /\ Handled' /\ Agreed'
    BY <1>1, <1>3, <1>4, <1>5, <2>2, <2>3, HandleAssumption
       DEF HeldInv, HeldTyped, WatchHeld, OneTick, Handled, Agreed, LongWaits
  <2>. QED BY <2>3, <2>4, <2>5, <2>6 DEF HeldInv
<1>6. CASE handle = None
  <2>1. proc' = proc /\ Agents' = Agents
    BY <1>6 DEF StopEntry, Agents, Running
  <2>2. \/ then = "start" /\ ~booting /\ flow'[f] = asks
        \/ then = "start" /\ booting /\ flow'[f] = Idle
        \/ then = "end" /\ flow'[f] = Idle
        \/ then = "reap" /\ flow'[f] = At("toolReaping")
    BY <1>1, <1>2, <1>6 DEF StopEntry, StartEntry
  <2>a. asks.pc = "config" /\ asks.seen = settings
    BY <1>2 DEF At, Idle
  <2>. HIDE DEF asks
  <2>3. \/ then = "start" /\ ~booting /\ flow'[f].pc = "config" /\ flow'[f].seen = settings
        \/ then = "start" /\ booting /\ flow'[f].pc = "idle"
        \/ then = "end" /\ flow'[f].pc = "idle"
        \/ then = "reap" /\ flow'[f].pc = "toolReaping"
    BY <1>2, <2>2, <2>a, Records
  <2>4. HeldTyped' /\ BootLives' /\ NoAgentYet' /\ BootedOnly' /\ HeldOnly' /\ ReadsCurrent'
    BY <1>1, <1>4, <1>6, <2>1, <2>3
       DEF HeldInv, HeldTyped, BootLives, NoAgentYet, BootedOnly, HeldOnly, ReadsCurrent, Booters,
           Boots, Early
  <2>5. StopsFirst'
    BY <1>1, <1>4, <2>3 DEF StopsFirst, LongWaits
  <2>6. WatchHeld' /\ OneTick' /\ Agreed'
    BY <1>1, <1>3, <1>4, <1>6, <2>3 DEF WatchHeld, OneTick, Agreed, LongWaits
  <2>7. Handled'
    <3>1. CASE booting
      <4>1. handle \notin Agents
        BY <1>6, HandleAssumption DEF Agents, Running
      <4>2. Agents = {}
        BY <1>1, <3>1, <4>1, BootWithout DEF LongWaits, Boots
      <4>. QED BY <2>1, <4>2 DEF Handled
    <3>2. CASE ~booting
      BY <1>1, <2>3, <3>2 DEF Handled, WillReap, Thens
    <3>. QED BY <3>1, <3>2
  <2>. QED BY <2>4, <2>5, <2>6, <2>7 DEF HeldInv
<1>. QED BY <1>5, <1>6

LEMMA ActivateKeeps ==
    ASSUME Inv, HeldInv, Prompt, NEW f \in Flow, Activate(f)
    PROVE  HeldInv'
<1>. DEFINE asks == [At("config") EXCEPT !.seen = settings]
<1>1. /\ flow[f].pc = "idle" /\ ticks = {} /\ \A g \in Flow : flow[g].pc \in LongWaits
      /\ UNCHANGED <<handle, booting, agentOnline, bridge, watchTimer, ticks, restartTimer,
                     proc, escaped, settings>>
  BY DEF Activate, IdleFlows, Quiet, hostVars
<1>2. flow \in [Flow -> FlowRec] /\ settings \in 0..MaxChanges
  BY DEF Inv, Typed
<1>3. /\ \A g \in Flow \ {f} : flow'[g] = flow[g]
      /\ \/ handle = None /\ ~booting /\ flow'[f] = asks
         \/ (handle # None \/ booting) /\ flow'[f] = Idle
  BY <1>2 DEF Activate, StartEntry
<1>4. asks.pc = "config" /\ asks.seen = settings
  BY <1>2 DEF At, Idle
<1>. HIDE DEF asks
<1>5. \/ handle = None /\ ~booting /\ flow'[f].pc = "config" /\ flow'[f].seen = settings
      \/ (handle # None \/ booting) /\ flow'[f].pc = "idle"
  BY <1>3, <1>4, Records
<1>6. Agents' = Agents
  BY <1>1 DEF Agents, Running
<1>7. HeldTyped' /\ BootLives' /\ NoAgentYet' /\ BootedOnly' /\ HeldOnly' /\ ReadsCurrent'
  BY <1>1, <1>3, <1>5, <1>6
     DEF HeldInv, HeldTyped, BootLives, NoAgentYet, BootedOnly, HeldOnly, ReadsCurrent, Booters,
         Boots, Early
<1>8. StopsFirst' /\ OneTick' /\ Agreed'
  BY <1>1, <1>3, <1>5 DEF HeldInv, StopsFirst, OneTick, Agreed, LongWaits
<1>9. WatchHeld'
  BY <1>1, <1>3, <1>5 DEF HeldInv, WatchHeld, LongWaits
<1>10. Handled'
  <2>1. CASE handle # None
    BY <1>1, <1>6, <2>1 DEF HeldInv, HeldOnly, Handled
  <2>2. CASE handle = None /\ booting
    <3>1. handle \notin Agents
      BY <2>2, HandleAssumption DEF Agents, Running
    <3>2. Agents = {}
      BY <1>1, <2>2, <3>1, BootWithout DEF LongWaits, Boots
    <3>. QED BY <1>6, <3>2 DEF Handled
  <2>3. CASE handle = None /\ ~booting
    BY <1>5, <2>3 DEF Handled, WillReap
  <2>. QED BY <2>1, <2>2, <2>3
<1>. QED BY <1>7, <1>8, <1>9, <1>10 DEF HeldInv

\* A stopAgent drops the handle, and its caller goes on.
LEMMA StopReturnsKeeps ==
    ASSUME Inv, HeldInv, NEW f \in Flow, StopReturns(f)
    PROVE  HeldInv'
<1>. DEFINE asks == [At("config") EXCEPT !.seen = settings]
<1>1. /\ flow[f].pc = "stopping" /\ handle' = None
      /\ UNCHANGED <<on, booting, agentOnline, bridge, watchTimer, ticks, restartTimer,
                     proc, escaped, settings>>
  BY DEF StopReturns, hostVars, userVars
<1>2. flow \in [Flow -> FlowRec] /\ settings \in 0..MaxChanges /\ "toolReaping" \in PCs
  BY DEF Inv, Typed, PCs
<1>3. \A g \in Flow \ {f} : flow'[g] = flow[g] /\ flow[g].pc # "stopping"
  BY <1>1, <1>2 DEF StopReturns, Inv, FlowInv, OneDecider, Deciders
<1>4. asks.pc = "config" /\ asks.seen = settings
  BY <1>2 DEF At, Idle
<1>a. \/ flow[f].then = "start" /\ ~booting /\ flow'[f] = asks
      \/ flow[f].then = "start" /\ booting /\ flow'[f] = Idle
      \/ flow[f].then = "end" /\ flow'[f] = Idle
      \/ flow[f].then = "reap" /\ flow'[f] = At("toolReaping")
  BY <1>2 DEF StopReturns
<1>. HIDE DEF asks
<1>5. \/ flow[f].then = "start" /\ ~booting /\ flow'[f].pc = "config" /\ flow'[f].seen = settings
      \/ flow[f].then = "start" /\ booting /\ flow'[f].pc = "idle"
      \/ flow[f].then = "end" /\ flow'[f].pc = "idle"
      \/ flow[f].then = "reap" /\ flow'[f].pc = "toolReaping"
  BY <1>2, <1>4, <1>a, Records
<1>6. /\ ticks = {} /\ handle \notin Agents
      /\ flow[f].then = "end" => ~on
      /\ \A g \in Flow : flow[g].pc \notin Early
  BY <1>1 DEF HeldInv, StopsFirst
<1>7. Agents' = Agents
  BY <1>1 DEF Agents, Running
<1>8. HeldTyped' /\ BootLives' /\ NoAgentYet' /\ HeldOnly' /\ ReadsCurrent'
  BY <1>1, <1>3, <1>5
     DEF HeldInv, HeldTyped, BootLives, NoAgentYet, HeldOnly, ReadsCurrent, Booters, Boots
<1>9. BootedOnly'
  BY <1>1, <1>3, <1>5, <1>6, <1>7 DEF HeldInv, BootedOnly
<1>10. StopsFirst'
  BY <1>3, <1>5 DEF StopsFirst
<1>12. WatchHeld' /\ OneTick' /\ Agreed'
  BY <1>1, <1>3, <1>5, <1>6 DEF HeldInv, WatchHeld, OneTick, Agreed
<1>13. Handled'
  <2>1. CASE flow[f].then = "start" /\ booting
    <3>1. Agents = {}
      BY <1>6, <2>1, BootWithout DEF Boots, Early
    <3>. QED BY <1>7, <3>1 DEF Handled
  <2>2. CASE ~(flow[f].then = "start" /\ booting)
    BY <1>1, <1>5, <1>6, <2>2 DEF Handled, WillReap
  <2>. QED BY <2>1, <2>2
<1>. QED BY <1>8, <1>9, <1>10, <1>12, <1>13 DEF HeldInv

\* The settings were read: as none changed meanwhile, the agent is given the
\* current ones or none is to run.
LEMMA ConfigReturnsKeeps ==
    ASSUME Inv, HeldInv, NEW f \in Flow, NEW v \in 0..MaxChanges, ConfigReturns(f, v)
    PROVE  HeldInv'
<1>. DEFINE reaps == [At("reaping") EXCEPT !.seen = v]
<1>1. /\ flow[f].pc = "config" /\ v \in flow[f].seen..settings
      /\ UNCHANGED <<on, handle, agentOnline, bridge, watchTimer, ticks, restartTimer,
                     proc, escaped, settings>>
  BY DEF ConfigReturns, hostVars, userVars
<1>2. /\ flow \in [Flow -> FlowRec] /\ settings \in 0..MaxChanges
      /\ handle = None /\ flow[f].seen = settings
  BY <1>1 DEF Inv, Typed, HeldInv, NoAgentYet, ReadsCurrent
<1>3. v = settings
  BY <1>1, <1>2, BoundsAssumption
<1>4. \A g \in Flow \ {f} : flow'[g] = flow[g]
  BY <1>2 DEF ConfigReturns
<1>5. \A g \in Flow : flow[g].pc # "stopping"
  BY <1>1 DEF Inv, FlowInv, OneDecider, Deciders
<1>a. "reaping" \in PCs
  BY DEF PCs
<1>6. reaps.pc = "reaping"
  BY <1>a, FreshUpdates DEF Awaits
<1>b. \/ flow'[f] = Idle /\ booting' = booting /\ (settings \notin Configured \/ stoppedByTool)
      \/ flow'[f] = reaps /\ booting' = TRUE
  BY <1>2, <1>3 DEF ConfigReturns, HeldOff
<1>. HIDE DEF reaps
<1>7. \/ /\ flow'[f].pc = "idle" /\ booting' = booting
         /\ settings \notin Configured \/ stoppedByTool
      \/ flow'[f].pc = "reaping" /\ booting' = TRUE
  BY <1>6, <1>b, Records
<1>8. Agents' = Agents
  BY <1>1 DEF Agents, Running
<1>9. HeldTyped' /\ BootLives' /\ NoAgentYet' /\ HeldOnly' /\ ReadsCurrent'
  BY <1>1, <1>2, <1>4, <1>7
     DEF HeldInv, HeldTyped, BootLives, NoAgentYet, HeldOnly, ReadsCurrent, Booters, Boots
<1>10. BootedOnly' /\ StopsFirst'
  BY <1>1, <1>4, <1>5, <1>7, <1>8 DEF HeldInv, BootedOnly, StopsFirst
<1>c. ticks = {}
  BY <1>2, HandleAssumption DEF HeldInv, HeldTyped, OneTick
<1>11. WatchHeld' /\ OneTick' /\ Agreed'
  BY <1>1, <1>2, <1>4, <1>7, <1>c DEF HeldInv, WatchHeld, OneTick, Agreed
<1>12. Handled'
  <2>1. CASE flow'[f].pc = "idle" /\ stoppedByTool
    <3>1. CASE Reapers = {}
      BY <1>8, <2>1, <3>1 DEF Inv, ProcInv, ToolReaped, Handled
    <3>2. ASSUME NEW g \in Reapers PROVE Handled'
      <4>1. g \in Flow /\ flow[g].pc = "toolReaping"
        BY <1>5 DEF Reapers
      <4>2. flow'[g].pc = "toolReaping"
        BY <1>1, <1>4, <4>1
      <4>. QED BY <4>1, <4>2 DEF Handled, WillReap
    <3>. QED BY <3>1, <3>2
  <2>2. CASE ~(flow'[f].pc = "idle" /\ stoppedByTool)
    BY <1>1, <1>7, <2>2 DEF Handled, WillReap
  <2>. QED BY <2>1, <2>2
<1>. QED BY <1>9, <1>10, <1>11, <1>12 DEF HeldInv

\* A reaper asks every agent to exit, or lets them escape.
LEMMA ReaperKeeps ==
    ASSUME Inv, HeldInv, NEW f \in Flow, ListReturns(f) \/ ListRefused(f)
    PROVE  HeldInv'
<1>1. /\ flow[f].pc \in {"reaping", "toolReaping"}
      /\ UNCHANGED <<on, handle, booting, agentOnline, bridge, watchTimer, ticks, restartTimer,
                     settings>>
  BY DEF ListReturns, ListRefused, userVars
<1>2. flow \in [Flow -> FlowRec]
  BY DEF Inv, Typed
<1>3. PICK pc \in PCs :
        /\ \/ flow' = [flow EXCEPT ![f].pc = pc, ![f].killed = Reaped]
           \/ flow' = [flow EXCEPT ![f].pc = pc]
        /\ \/ flow[f].pc = "reaping" /\ pc \in {"draining", "spawning"}
           \/ flow[f].pc = "toolReaping" /\ pc \in {"idle", "toolDraining"}
  BY <1>1 DEF ListReturns, ListRefused, PCs
<1>4. /\ flow'[f].pc = pc
      /\ \A g \in Flow \ {f} : flow'[g] = flow[g]
  BY <1>2, <1>3 DEF FlowRec
<1>5. Agents' = {} /\ HeldTyped'
  <2>1. CASE ListReturns(f)
    <3>1. Kill(Reaped)
      BY <2>1 DEF ListReturns
    <3>. QED BY <1>1, <3>1, KillDoes DEF HeldInv, HeldTyped, Agents, Running, Reaped, Alive
  <2>2. CASE ListRefused(f)
    BY <1>1, <2>2 DEF ListRefused, HeldInv, HeldTyped, Agents, Running
  <2>. QED BY <2>1, <2>2
<1>6. BootLives' /\ NoAgentYet' /\ HeldOnly' /\ ReadsCurrent'
  BY <1>1, <1>3, <1>4, <1>5
     DEF HeldInv, BootLives, NoAgentYet, HeldOnly, ReadsCurrent, Booters, Boots, Early
<1>7. BootedOnly'
  BY <1>3, <1>4, <1>5 DEF HeldInv, BootedOnly
<1>8. StopsFirst'
  <2>1. ASSUME NEW g \in Flow, flow'[g].pc = "stopping"
        PROVE  /\ g # f /\ flow[g].pc = "stopping" /\ flow[f].pc \notin Early
               /\ flow'[f].pc \notin Early
    BY <1>3, <1>4, <2>1 DEF HeldInv, StopsFirst, Early
  <2>. QED BY <1>1, <1>4, <1>5, <2>1 DEF HeldInv, StopsFirst
<1>9. WatchHeld' /\ OneTick' /\ Agreed' /\ Handled'
  BY <1>1, <1>3, <1>4, <1>5 DEF HeldInv, WatchHeld, OneTick, Agreed, Handled
<1>. QED BY <1>5, <1>6, <1>7, <1>8, <1>9 DEF HeldInv

LEMMA DrainReturnsKeeps ==
    ASSUME Inv, HeldInv, NEW f \in Flow, DrainReturns(f)
    PROVE  HeldInv'
<1>. DEFINE spawns == [At("spawning") EXCEPT !.seen = flow[f].seen]
<1>1. /\ flow[f].pc \in {"draining", "toolDraining"}
      /\ UNCHANGED <<on, handle, booting, agentOnline, bridge, watchTimer, ticks, restartTimer,
                     proc, escaped, settings>>
  BY DEF DrainReturns, userVars, hostVars
<1>2. flow \in [Flow -> FlowRec] /\ "spawning" \in PCs
  BY DEF Inv, Typed, PCs
<1>3. spawns.pc = "spawning"
  <2>1. flow[f].seen \in 0..MaxChanges
    BY <1>2 DEF FlowRec
  <2>. QED BY <1>2, <2>1, FreshUpdates DEF Awaits
<1>4. /\ \/ flow[f].pc = "draining" /\ flow'[f] = spawns
         \/ flow[f].pc = "toolDraining" /\ flow'[f] = Idle
      /\ \A g \in Flow \ {f} : flow'[g] = flow[g]
  BY <1>2 DEF DrainReturns
<1>. HIDE DEF spawns
<1>5. \/ flow[f].pc = "draining" /\ flow'[f].pc = "spawning"
      \/ flow[f].pc = "toolDraining" /\ flow'[f].pc = "idle"
  BY <1>3, <1>4, Records
<1>6. Agents' = Agents
  BY <1>1 DEF Agents, Running
<1>7. HeldTyped' /\ BootLives' /\ NoAgentYet' /\ HeldOnly' /\ ReadsCurrent' /\ BootedOnly'
  BY <1>1, <1>4, <1>5, <1>6
     DEF HeldInv, HeldTyped, BootLives, NoAgentYet, HeldOnly, ReadsCurrent, BootedOnly, Booters,
         Boots, Early
<1>8. StopsFirst'
  BY <1>1, <1>4, <1>5, <1>6 DEF HeldInv, StopsFirst, Early
<1>9. WatchHeld' /\ OneTick' /\ Agreed'
  BY <1>1, <1>3, <1>4, <1>5 DEF HeldInv, WatchHeld, OneTick, Agreed
<1>10. Handled'
  BY <1>1, <1>4, <1>5, <1>6 DEF HeldInv, Handled, WillReap
<1>. QED BY <1>7, <1>8, <1>9, <1>10 DEF HeldInv

\* An agent begins where none runs, and its activation still has to keep it.
LEMMA HostSpawnsKeeps ==
    ASSUME Inv, HeldInv, NEW f \in Flow, NEW h \in Handle, HostSpawns(f, h)
    PROVE  HeldInv'
<1>. DEFINE spawned == [At("spawned") EXCEPT !.h = h]
<1>1. /\ flow[f].pc = "spawning" /\ proc' = [proc EXCEPT ![h] = "running"]
      /\ UNCHANGED <<on, handle, booting, agentOnline, bridge, watchTimer, ticks, restartTimer,
                     settings>>
  BY DEF HostSpawns, userVars
<1>2. flow \in [Flow -> FlowRec] /\ "spawned" \in PCs
  BY DEF Inv, Typed, PCs
<1>3. spawned.pc = "spawned" /\ spawned.h = h
  BY DEF At, Idle
<1>4. /\ flow'[f] = spawned
      /\ \A g \in Flow \ {f} : flow'[g] = flow[g]
  BY <1>2 DEF HostSpawns
<1>. HIDE DEF spawned
<1>5. flow'[f].pc = "spawned" /\ flow'[f].h = h
  BY <1>3, <1>4
<1>d. proc' = [proc EXCEPT ![h] = "running"] /\ escaped' = escaped \ {h}
  BY DEF HostSpawns
<1>6. Agents = {} /\ Agents' \subseteq {h} /\ HeldTyped'
  BY <1>1, <1>d DEF Inv, ProcInv, ReapedFirst, HeldInv, HeldTyped, Agents, Running
<1>7. /\ handle = None
      /\ \A g \in Flow \ {f} : flow[g].pc \notin Boots
      /\ \A g \in Flow : flow[g].pc # "stopping"
  BY <1>1 DEF HeldInv, NoAgentYet, StopsFirst, Early, Inv, FlowInv, OneBooter, Booters, Boots
<1>8. BootLives' /\ NoAgentYet' /\ HeldOnly' /\ ReadsCurrent' /\ StopsFirst'
  BY <1>1, <1>4, <1>5, <1>7
     DEF HeldInv, BootLives, NoAgentYet, HeldOnly, ReadsCurrent, StopsFirst, Booters, Boots
<1>9. BootedOnly'
  BY <1>4, <1>5, <1>6, <1>7 DEF BootedOnly, Boots
<1>e. watchTimer # h
  BY DEF HostSpawns, FreeHandles
<1>10. WatchHeld' /\ OneTick' /\ Agreed' /\ Handled'
  BY <1>1, <1>4, <1>5, <1>7, <1>e DEF HeldInv, WatchHeld, OneTick, Agreed, Handled, WillReap
<1>. QED BY <1>6, <1>8, <1>9, <1>10 DEF HeldInv

LEMMA SpawnReturnsKeeps ==
    ASSUME Inv, HeldInv, NEW f \in Flow, SpawnReturns(f)
    PROVE  HeldInv'
<1>1. /\ flow[f].pc = "spawned" /\ handle' = flow[f].h
      /\ UNCHANGED <<on, booting, agentOnline, bridge, watchTimer, ticks, restartTimer,
                     proc, escaped, settings>>
  BY DEF SpawnReturns, SpawnedHandle, userVars, hostVars
<1>2. flow \in [Flow -> FlowRec]
  BY DEF Inv, Typed
<1>3. /\ flow'[f] = [flow[f] EXCEPT !.pc = "ready"]
      /\ \A g \in Flow \ {f} : flow'[g] = flow[g]
  BY <1>2 DEF SpawnReturns
<1>4. /\ flow'[f].pc = "ready" /\ flow'[f].h = flow[f].h
      /\ \A g \in Flow \ {f} : flow'[g] = flow[g]
  BY <1>2, <1>3 DEF FlowRec
<1>5. flow[f].h \in Handle /\ Agents \subseteq {flow[f].h} /\ Agents' = Agents
  BY <1>1 DEF HeldInv, BootedOnly, Agents, Running
<1>6. /\ booting
      /\ \A g \in Flow \ {f} : flow[g].pc \notin Boots
      /\ \A g \in Flow : flow[g].pc # "stopping" /\ flow[g].pc # "config"
  BY <1>1 DEF HeldInv, WatchHeld, StopsFirst, Early, Inv, FlowInv, OneBooter, BooterFlagged,
     DecidesFirst, Booters, Boots
<1>7. ticks = {}
  BY <1>6 DEF HeldInv, WatchHeld
<1>8. HeldTyped' /\ BootLives' /\ HeldOnly' /\ ReadsCurrent' /\ StopsFirst'
  BY <1>1, <1>4, <1>5, <1>6
     DEF HeldInv, HeldTyped, BootLives, HeldOnly, ReadsCurrent, StopsFirst, Booters, Boots
<1>9. NoAgentYet'
  BY <1>1, <1>4, <1>6 DEF NoAgentYet, Boots, Early
<1>a. BootedOnly'
  BY <1>1, <1>4, <1>5, <1>6 DEF BootedOnly, Boots
<1>10. WatchHeld' /\ OneTick' /\ Agreed' /\ Handled'
  BY <1>1, <1>4, <1>5, <1>6, <1>7 DEF HeldInv, WatchHeld, OneTick, Agreed, Handled
<1>. QED BY <1>8, <1>9, <1>a, <1>10 DEF HeldInv

\* READY was seen: the agent is watched when it is still the one in `handle`.
LEMMA ReadyReturnsKeeps ==
    ASSUME Inv, HeldInv, NEW f \in Flow, ReadyReturns(f)
    PROVE  HeldInv'
<1>1. /\ flow[f].pc = "ready"
      /\ watchTimer' = handle /\ booting' = FALSE /\ agentOnline' = TRUE /\ bridge' = TRUE
      /\ UNCHANGED <<on, handle, ticks, restartTimer, proc, escaped, settings>>
  BY DEF ReadyReturns, Watched, userVars, hostVars
<1>2. flow \in [Flow -> FlowRec]
  BY DEF Inv, Typed
<1>3. /\ flow'[f].pc = "idle"
      /\ \A g \in Flow \ {f} : flow'[g] = flow[g]
  BY <1>2, Records DEF ReadyReturns
<1>4. Agents = {} \/ handle = flow[f].h
  BY <1>1 DEF HeldInv, BootedOnly
<1>c. Agents' = Agents
  BY <1>1 DEF Agents, Running
<1>5. booting /\ \A g \in Flow \ {f} : flow[g].pc \notin Boots
  BY <1>1 DEF Inv, FlowInv, OneBooter, BooterFlagged, Booters, Boots
<1>6. ticks = {}
  BY <1>5 DEF HeldInv, WatchHeld
<1>7. HeldTyped' /\ BootLives' /\ HeldOnly' /\ ReadsCurrent'
  BY <1>1, <1>3, <1>c DEF HeldInv, HeldTyped, BootLives, HeldOnly, ReadsCurrent
<1>b. NoAgentYet'
  BY <1>1, <1>3 DEF HeldInv, NoAgentYet, Early
<1>8. BootedOnly'
  BY <1>3, <1>5 DEF BootedOnly, Boots
<1>a. StopsFirst'
  BY <1>1, <1>3, <1>6, <1>c DEF HeldInv, StopsFirst, Early
<1>9. WatchHeld' /\ OneTick' /\ Agreed'
  BY <1>1, <1>3, <1>5, <1>6 DEF WatchHeld, OneTick, Agreed, Boots
<1>d. Handled'
  <2>1. Agents \subseteq {flow[f].h}
    BY <1>1 DEF HeldInv, BootedOnly
  <2>. QED BY <1>1, <1>4, <1>c, <2>1 DEF Handled
<1>. QED BY <1>7, <1>8, <1>9, <1>a, <1>b, <1>d DEF HeldInv

LEMMA ReadyFailsKeeps ==
    ASSUME Inv, HeldInv, NEW f \in Flow, ReadyFails(f)
    PROVE  HeldInv'
<1>1. /\ flow[f].pc = "ready"
      /\ UNCHANGED <<on, handle, agentOnline, bridge, watchTimer, ticks, restartTimer, settings>>
  BY DEF ReadyFails, userVars
<1>2. flow \in [Flow -> FlowRec] /\ "failing" \in PCs
  BY DEF Inv, Typed, PCs
<1>3. booting /\ \A g \in Flow \ {f} : flow[g].pc \notin Boots /\ flow'[g] = flow[g]
  BY <1>1, <1>2 DEF ReadyFails, Inv, FlowInv, OneBooter, BooterFlagged, Booters, Boots
<1>4. ticks = {}
  BY <1>3 DEF HeldInv, WatchHeld
<1>5. CASE handle # None
  <2>1. flow'[f].pc = "failing" /\ Kill({handle}) /\ booting' = booting
    BY <1>2, <1>5, Records DEF ReadyFails
  <2>2. Agents' = {} /\ HeldTyped'
    BY <1>1, <1>5, <2>1, KillHeld DEF HeldInv, HeldTyped
  <2>3. BootLives' /\ NoAgentYet' /\ HeldOnly' /\ ReadsCurrent' /\ BootedOnly'
    BY <1>1, <1>3, <1>5, <2>1, <2>2
       DEF HeldInv, BootLives, NoAgentYet, HeldOnly, ReadsCurrent, BootedOnly, Booters, Boots, Early
  <2>4. StopsFirst'
    BY <1>1, <1>3, <2>1, <2>2 DEF HeldInv, StopsFirst, Early, Boots
  <2>5. WatchHeld' /\ OneTick' /\ Agreed' /\ Handled'
    BY <1>1, <1>3, <1>4, <2>1, <2>2 DEF HeldInv, WatchHeld, OneTick, Agreed, Handled, Boots
  <2>. QED BY <2>2, <2>3, <2>4, <2>5 DEF HeldInv
<1>6. CASE handle = None
  <2>1. flow'[f].pc = "idle" /\ UNCHANGED <<proc, escaped>> /\ booting' = FALSE
    BY <1>2, <1>6, Records DEF ReadyFails
  <2>2. Agents' = Agents
    BY <2>1 DEF Agents, Running
  <2>3. HeldTyped' /\ BootLives' /\ NoAgentYet' /\ HeldOnly' /\ ReadsCurrent' /\ BootedOnly'
    BY <1>1, <1>3, <1>6, <2>1, <2>2
       DEF HeldInv, HeldTyped, BootLives, NoAgentYet, HeldOnly, ReadsCurrent, BootedOnly, Boots
  <2>4. StopsFirst'
    BY <1>1, <1>3, <2>1, <2>2 DEF HeldInv, StopsFirst, Early, Boots
  <2>5. WatchHeld' /\ OneTick' /\ Agreed'
    BY <1>1, <1>3, <1>4, <1>6, <2>1, <2>2 DEF HeldInv, WatchHeld, OneTick, Agreed, Boots
  <2>6. Handled'
    BY <1>1, <1>3, <2>2 DEF HeldInv, Handled, WillReap
  <2>. QED BY <2>3, <2>4, <2>5, <2>6 DEF HeldInv
<1>. QED BY <1>5, <1>6

LEMMA FailReturnsKeeps ==
    ASSUME Inv, HeldInv, NEW f \in Flow, FailReturns(f)
    PROVE  HeldInv'
<1>1. /\ flow[f].pc = "failing" /\ handle' = None /\ booting' = FALSE
      /\ UNCHANGED <<on, agentOnline, bridge, watchTimer, ticks, restartTimer, proc, escaped, settings>>
  BY DEF FailReturns, userVars, hostVars
<1>2. /\ flow'[f].pc = "idle"
      /\ \A g \in Flow \ {f} : flow'[g] = flow[g]
  BY Records DEF FailReturns, Inv, Typed
<1>3. booting /\ \A g \in Flow \ {f} : flow[g].pc \notin Boots
  BY <1>1 DEF Inv, FlowInv, OneBooter, BooterFlagged, Booters, Boots
<1>4. ticks = {}
  BY <1>3 DEF HeldInv, WatchHeld
<1>5. Agents' = {}
  BY <1>1 DEF HeldInv, BootedOnly, Agents, Running
<1>6. HeldTyped' /\ BootLives' /\ NoAgentYet' /\ HeldOnly' /\ ReadsCurrent'
  BY <1>1, <1>2 DEF HeldInv, HeldTyped, BootLives, NoAgentYet, HeldOnly, ReadsCurrent
<1>7. BootedOnly'
  BY <1>2, <1>3 DEF BootedOnly, Boots
<1>a. StopsFirst'
  BY <1>1, <1>2, <1>4, <1>5 DEF HeldInv, StopsFirst, Early
<1>8. WatchHeld' /\ OneTick' /\ Agreed' /\ Handled'
  BY <1>1, <1>2, <1>4, <1>5 DEF HeldInv, WatchHeld, OneTick, Agreed, Handled
<1>. QED BY <1>6, <1>7, <1>8, <1>a DEF HeldInv

\* The settings change, a timer of the watch fires or a poll returns.
LEMMA ChangeSettingsKeeps ==
    ASSUME Inv, HeldInv, Prompt, ChangeSettings
    PROVE  HeldInv'
<1>1. /\ \A g \in Flow : flow[g].pc \in LongWaits
      /\ restartTimer' = (on \/ restartTimer)
      /\ UNCHANGED <<on, handle, booting, agentOnline, bridge, watchTimer, ticks, flow, proc, escaped>>
  BY DEF ChangeSettings, Quiet, hostVars
<1>2. Agents' = Agents
  BY <1>1 DEF Agents, Running
<1>3. HeldTyped' /\ BootLives' /\ NoAgentYet' /\ HeldOnly' /\ BootedOnly' /\ WatchHeld' /\ OneTick'
  BY <1>1, <1>2
     DEF HeldInv, HeldTyped, BootLives, NoAgentYet, HeldOnly, BootedOnly, WatchHeld, OneTick, Booters
<1>4. StopsFirst' /\ ReadsCurrent'
  BY <1>1 DEF StopsFirst, ReadsCurrent, LongWaits
<1>5. Handled' /\ Agreed'
  BY <1>1 DEF HeldInv, Handled, Agreed
<1>. QED BY <1>3, <1>4, <1>5 DEF HeldInv

LEMMA WatchTickKeeps ==
    ASSUME Inv, HeldInv, Prompt, WatchTick
    PROVE  HeldInv'
<1>1. /\ ticks = {} /\ \A g \in Flow : flow[g].pc \in LongWaits
      /\ \/ handle # watchTimer /\ watchTimer' = Off /\ ticks' = {}
         \/ /\ handle = watchTimer /\ watchTimer' = watchTimer /\ watchTimer \in Handle
            /\ ticks' = {handle}
      /\ UNCHANGED <<on, handle, booting, agentOnline, bridge, restartTimer, flow, proc, escaped, settings>>
  BY DEF WatchTick, Quiet, hostVars, userVars
<1>2. Agents' = Agents
  BY <1>1 DEF Agents, Running
<1>3. HeldTyped' /\ BootLives' /\ NoAgentYet' /\ HeldOnly' /\ BootedOnly' /\ ReadsCurrent'
  BY <1>1, <1>2
     DEF HeldInv, HeldTyped, BootLives, NoAgentYet, HeldOnly, BootedOnly, ReadsCurrent, Booters
<1>4. StopsFirst'
  BY <1>1 DEF StopsFirst, LongWaits
<1>5. WatchHeld'
  BY <1>1, HandleAssumption DEF HeldInv, HeldTyped, WatchHeld, LongWaits
<1>6. OneTick' /\ Agreed'
  BY <1>1 DEF HeldInv, OneTick, Agreed
<1>7. Handled'
  BY <1>1, <1>2 DEF HeldInv, Handled, WillReap
<1>. QED BY <1>3, <1>4, <1>5, <1>6, <1>7 DEF HeldInv

LEMMA TickReturnsKeeps ==
    ASSUME Inv, HeldInv, NEW h \in Handle, TickReturns(h)
    PROVE  HeldInv'
<1>1. /\ h = handle /\ handle \in Handle /\ watchTimer = handle /\ ticks' = {}
      /\ UNCHANGED <<on, booting, bridge, flow, proc, escaped, settings>>
  BY DEF HeldInv, OneTick, TickReturns, hostVars, userVars
<1>2. Agents' = Agents
  BY <1>1 DEF Agents, Running
<1>3. CASE proc[h] = "exited"
  <2>1. watchTimer' = Off /\ handle' = None /\ agentOnline' = FALSE /\ restartTimer' = TRUE
    BY <1>3 DEF TickReturns, AfterExit
  <2>2. Agents = {}
    BY <1>1, <1>3, HandleAssumption DEF HeldInv, HeldOnly, Agents, Running
  <2>3. HeldTyped' /\ BootLives' /\ NoAgentYet' /\ HeldOnly' /\ BootedOnly' /\ ReadsCurrent'
    BY <1>1, <1>2, <2>1, <2>2
       DEF HeldInv, HeldTyped, BootLives, NoAgentYet, HeldOnly, BootedOnly, ReadsCurrent, Booters
  <2>a. \A f \in Flow : flow[f].pc = "spawned" => booting
    BY DEF Inv, FlowInv, BooterFlagged, Booters, Boots
  <2>b. ~booting
    BY <1>1, HandleAssumption DEF HeldInv, WatchHeld
  <2>4. StopsFirst' /\ WatchHeld' /\ OneTick' /\ Agreed' /\ Handled'
    BY <1>1, <1>2, <2>1, <2>2, <2>a, <2>b
       DEF HeldInv, StopsFirst, WatchHeld, OneTick, Agreed, Handled
  <2>. QED BY <2>3, <2>4 DEF HeldInv
<1>4. CASE proc[h] # "exited"
  <2>1. UNCHANGED <<watchTimer, handle, agentOnline, restartTimer>>
    BY <1>4 DEF TickReturns
  <2>2. HeldTyped' /\ BootLives' /\ NoAgentYet' /\ HeldOnly' /\ BootedOnly' /\ ReadsCurrent'
    BY <1>1, <1>2, <2>1
       DEF HeldInv, HeldTyped, BootLives, NoAgentYet, HeldOnly, BootedOnly, ReadsCurrent, Booters
  <2>3. StopsFirst' /\ WatchHeld' /\ OneTick' /\ Agreed' /\ Handled'
    BY <1>1, <1>2, <2>1
       DEF HeldInv, StopsFirst, WatchHeld, OneTick, Agreed, Handled, WillReap
  <2>. QED BY <2>2, <2>3 DEF HeldInv
<1>. QED BY <1>3, <1>4

\* A process exits, or nothing happens.
LEMMA ExitKeeps ==
    ASSUME Inv, HeldInv, UNCHANGED vars \/ \E h \in Handle : ProcExits(h)
    PROVE  HeldInv'
<1>1. UNCHANGED <<on, handle, booting, agentOnline, bridge, watchTimer, ticks, restartTimer, flow,
                  settings>>
  BY DEF ProcExits, vars, jsVars, userVars
<1>2. Agents' \subseteq Agents /\ HeldTyped'
  <2>1. CASE UNCHANGED vars
    BY <2>1 DEF HeldInv, HeldTyped, Agents, Running, vars, jsVars, hostVars
  <2>2. ASSUME NEW h \in Handle, proc' = [proc EXCEPT ![h] = "exited"], escaped' = escaped
        PROVE  Agents' \subseteq Agents /\ HeldTyped'
    BY <1>1, <2>2 DEF HeldInv, HeldTyped, Agents, Running
  <2>. QED BY <2>1, <2>2 DEF ProcExits
<1>3. BootLives' /\ NoAgentYet' /\ HeldOnly' /\ BootedOnly' /\ ReadsCurrent'
  BY <1>1, <1>2 DEF HeldInv, BootLives, NoAgentYet, HeldOnly, BootedOnly, ReadsCurrent, Booters
<1>4. StopsFirst' /\ WatchHeld' /\ OneTick' /\ Agreed'
  BY <1>1, <1>2 DEF HeldInv, StopsFirst, WatchHeld, OneTick, Agreed
<1>5. Handled'
  BY <1>1, <1>2 DEF HeldInv, Handled, WillReap
<1>. QED BY <1>2, <1>3, <1>4, <1>5 DEF HeldInv

LEMMA ReloadKeeps ==
    ASSUME Inv, HeldInv, Reload
    PROVE  HeldInv'
<1>1. /\ ~on' /\ handle' = None /\ ~booting' /\ agentOnline' = FALSE /\ bridge' = FALSE
      /\ watchTimer' = Off /\ ticks' = {} /\ UNCHANGED <<proc, escaped>>
      /\ \A f \in Flow : flow'[f].pc = "idle"
  BY Records DEF Reload, hostVars
<1>. QED BY <1>1 DEF HeldInv, HeldTyped, BootLives, NoAgentYet, StopsFirst, BootedOnly, HeldOnly,
            WatchHeld, OneTick, ReadsCurrent, Handled, Agreed, Early

LEMMA HeldStep ==
    ASSUME Prompt, Inv, HeldInv, [Next]_vars
    PROVE  HeldInv'
<1>1. ASSUME NEW f \in Flow, Deactivate(f) \/ RestartFires(f) \/ Disconnect(f) PROVE HeldInv'
  BY <1>1, StopEntryKeeps DEF Deactivate, RestartFires, Disconnect, userVars, Thens
<1>2. ASSUME NEW f \in Flow, FlowStep(f) PROVE HeldInv'
  BY <1>2, StopReturnsKeeps, ConfigReturnsKeeps, ReaperKeeps, DrainReturnsKeeps,
     HostSpawnsKeeps, SpawnReturnsKeeps, ReadyReturnsKeeps, ReadyFailsKeeps, FailReturnsKeeps
     DEF FlowStep
<1>. QED BY <1>1, <1>2, ActivateKeeps, ChangeSettingsKeeps, WatchTickKeeps, TickReturnsKeeps,
            ExitKeeps, ReloadKeeps DEF Next, UserStep

LEMMA HeldInit == Init => HeldInv
<1>. SUFFICES ASSUME Init PROVE HeldInv
  OBVIOUS
<1>1. /\ Agents = {} /\ \A f \in Flow : flow[f].pc = "idle"
  BY Records DEF Init, Agents, Running
<1>. QED BY <1>1 DEF Init, HeldInv, HeldTyped, BootLives, NoAgentYet, StopsFirst, BootedOnly, HeldOnly,
            WatchHeld, OneTick, ReadsCurrent, Handled, Agreed, Early

\* NoLostAgent: once an extension that is on and configured has settled, an
\* agent that runs is the one in `handle` or one whose list or kill the host
\* refused, the agent in `handle` is watched, and bridge and status bar agree,
\* whatever overlapped before (index.js:39-335).
THEOREM NoneIsLost == Prompt => (Spec => []NoLostAgent)
<1>. SUFFICES ASSUME Prompt PROVE Spec => []NoLostAgent
  OBVIOUS
<1>1. HeldInv => NoLostAgent
  <2>. SUFFICES ASSUME HeldInv, AllIdle, on, ticks = {}, ~restartTimer, settings \in Configured
                PROVE  /\ Agents \subseteq {handle}
                       /\ handle # None => watchTimer = handle
                       /\ bridge = agentOnline
    BY DEF NoLostAgent
  <2>1. \A f \in Flow : flow[f].pc = "idle"
    BY DEF AllIdle, IdleFlows
  <2>. QED BY <2>1 DEF HeldInv, Handled, WillReap, WatchHeld, Agreed
<1>2. Init => Inv /\ HeldInv
  BY InitInv, HeldInit
<1>3. Inv /\ HeldInv /\ [Next]_vars => (Inv /\ HeldInv)'
  BY StepInv, HeldStep
<1>. QED BY <1>1, <1>2, <1>3, PTL DEF Spec

-----------------------------------------------------------------------------
(****************************************************************************)
(* The session table of the agent.                                          *)
(****************************************************************************)

Lists == [Session -> States]
PollRec ==
    [pc : {"idle", "items", "attaching", "build", "send"}, live : SUBSET Session,
     todo : SUBSET Session, changed : BOOLEAN, asking : SUBSET Session,
     got : SUBSET Session, frame : Lists]
PumpRec == [of : SUBSET Session, entry : States]
ReplayRec == [pc : {"idle", "build", "send"}, frame : Lists]
TableTyped ==
    /\ sessions \in Lists /\ published \in Lists
    /\ poll \in PollRec /\ pump \in PumpRec /\ replay \in ReplayRec

\* An attach is under way only while the poll waits for it; a poll starts with
\* nothing to tell; the pump has one exit at a time, which left no entry alive.
Waits(p) == p.asking \union p.got # {} => p.pc = "attaching" /\ (p.asking = {} \/ p.got = {})
AskingAttaches == Waits(poll)
IdleToldAll == poll.pc = "idle" => ~poll.changed
ExitLeft == \A r, s \in pump.of : r = s /\ pump.entry # "alive"

\* The browser shows what the table has, or the pump has yet to tell the exit,
\* or the last frame about the session was overtaken or dropped; unless a list
\* is to come.
PollTells == poll.pc \in {"build", "send"} \/ poll.changed
ReplayTells == replay.pc # "idle"
Shows(s) ==
    \/ s \in stale
    \/ published[s] = sessions[s]
    \/ s \in pump.of /\ published[s] = "alive" /\ sessions[s] = "dead"
ToldOrComing == up => PollTells \/ ReplayTells \/ \A s \in Session : Shows(s)

TableInv == TableTyped /\ AskingAttaches /\ IdleToldAll /\ ExitLeft /\ ToldOrComing

LEMMA Frames ==
    /\ NoneListed \in Lists
    /\ NoReplay \in ReplayRec /\ NoReplay.pc = "idle"
    /\ [NoReplay EXCEPT !.pc = "build"] \in ReplayRec /\ [NoReplay EXCEPT !.pc = "build"].pc = "build"
    /\ PumpIdle \in PumpRec /\ PumpIdle.of = {}
<1>1. NoneListed \in Lists
  BY DEF NoneListed, States, Lists
<1>2. NoReplay \in ReplayRec /\ NoReplay.pc = "idle"
  BY <1>1 DEF NoReplay, ReplayRec
<1>3. [NoReplay EXCEPT !.pc = "build"] \in ReplayRec /\ [NoReplay EXCEPT !.pc = "build"].pc = "build"
  BY <1>2 DEF ReplayRec
<1>4. PumpIdle \in PumpRec /\ PumpIdle.of = {}
  BY DEF PumpIdle, PumpRec, States
<1>. QED BY <1>1, <1>2, <1>3, <1>4

LEMMA PollStarts ==
    ASSUME NEW pc \in {"idle", "items", "attaching", "build", "send"}
    PROVE  /\ PollAt(pc) \in PollRec /\ PollAt(pc).pc = pc /\ ~PollAt(pc).changed
           /\ PollAt(pc).asking = {} /\ PollAt(pc).got = {}
  BY Frames DEF PollAt, PollRec

LEMMA TableInit == PtyInit => TableInv
<1>. SUFFICES ASSUME PtyInit PROVE TableInv
  OBVIOUS
<1>1. poll = PollAt("idle") /\ replay = NoReplay /\ pump = PumpIdle /\ ~up
      /\ sessions = NoneListed /\ published = NoneListed
  BY DEF PtyInit, PollIdle
<1>2. poll \in PollRec /\ poll.pc = "idle" /\ ~poll.changed
      /\ poll.asking = {} /\ poll.got = {}
  BY <1>1, PollStarts
<1>. QED BY <1>1, <1>2, Frames
     DEF Waits, TableInv, TableTyped, AskingAttaches, IdleToldAll, ExitLeft, ToldOrComing

-----------------------------------------------------------------------------
\* A list that was sent leaves nothing untold that is not overtaken or dropped.
LEMMA ListShows ==
    ASSUME sessions \in Lists, published \in Lists, NEW frame \in Lists, Publish(frame)
    PROVE  /\ published' \in Lists
           /\ up => \A s \in Session : s \in stale' \/ published'[s] = sessions[s]
<1>1. CASE up /\ published' = frame /\ stale' = Outdated(frame)
  BY <1>1 DEF Outdated
<1>2. CASE Unsent
  BY <1>2 DEF Unsent, shownVars
<1>3. CASE Dropped
  BY <1>3 DEF Dropped, Outdated
<1>. QED BY <1>1, <1>2, <1>3 DEF Publish

\* So does an exit that was told.
LEMMA ExitShows ==
    ASSUME TableInv, NEW s \in pump.of, s \in Session, Tell(s), up
    PROVE  \A r \in Session : Shows(r) => r \in stale' \/ published'[r] = sessions[r]
<1>. SUFFICES ASSUME NEW r \in Session, Shows(r), r \notin stale'
              PROVE  published'[r] = sessions[r]
  OBVIOUS
<1>t. /\ sessions \in Lists /\ published \in Lists /\ pump.entry # "alive"
      /\ \A q \in pump.of : q = s
  BY DEF TableInv, TableTyped, ExitLeft
<1>1. CASE Dropped
  BY <1>1 DEF Dropped, Outdated
<1>2. CASE ~Dropped
  <2>1. /\ published' = [published EXCEPT ![s] = IF @ = "none" THEN @ ELSE "dead"]
        /\ stale' = IF sessions[s] = pump.entry THEN stale ELSE stale \union {s}
    BY <1>2 DEF Tell, Unsent
  <2>2. r \notin stale /\ (r = s => sessions[s] # "alive")
    BY <1>t, <2>1
  <2>3. CASE r # s
    BY <1>t, <2>1, <2>2, <2>3 DEF Shows, Lists
  <2>4. CASE r = s
    <3>1. published'[s] = IF published[s] = "none" THEN "none" ELSE "dead"
      BY <1>t, <2>1 DEF Lists
    <3>2. sessions[s] \in {"none", "dead"}
      BY <1>t, <2>2, <2>4 DEF Lists, States
    <3>. QED BY <2>2, <2>4, <3>1, <3>2 DEF Shows
  <2>. QED BY <2>3, <2>4
<1>. QED BY <1>1, <1>2

-----------------------------------------------------------------------------
\* A step that only moves what TableInv does not speak of.
LEMMA ElsewhereKeeps ==
    ASSUME TableInv, UNCHANGED <<sessions, poll, pump, replay, up, published, stale>>
    PROVE  TableInv'
  BY DEF Waits, TableInv, TableTyped, AskingAttaches, IdleToldAll, ExitLeft, ToldOrComing, PollTells,
     ReplayTells, Shows

\* A step of the poll that changes neither the table nor what the browser shows.
LEMMA PollKeeps ==
    ASSUME TableInv, UNCHANGED <<sessions, pump, replay, up, published, stale>>, poll' \in PollRec,
           PollTells => PollTells', Waits(poll)',
           poll'.pc = "idle" => ~poll'.changed
    PROVE  TableInv'
  BY DEF TableInv, TableTyped, AskingAttaches, IdleToldAll, ExitLeft, ToldOrComing, ReplayTells, Shows

\* A step of the poll after which the browser is to be sent a list.
LEMMA PollChanges ==
    ASSUME TableInv, UNCHANGED <<pump, replay, up, published, stale>>, sessions' \in Lists,
           poll' \in PollRec, PollTells', poll'.asking = {}, poll'.got = {}, poll'.pc # "idle"
    PROVE  TableInv'
  BY DEF Waits, TableInv, TableTyped, AskingAttaches, IdleToldAll, ExitLeft, ToldOrComing, ReplayTells

LEMMA TakeItemKeeps ==
    ASSUME TableInv, NEW s \in Session, TakeItem(s)
    PROVE  TableInv'
<1>1. /\ poll.pc = "items" /\ poll.asking = {} /\ poll.got = {} /\ poll \in PollRec /\ sessions \in Lists
      /\ UNCHANGED <<pump, replay, up, published, stale>>
  BY DEF TakeItem, relayVars, shownVars, TableInv, TableTyped, AskingAttaches, Waits
<1>2. CASE sessions[s] = "none"
  <2>1. poll' = [poll EXCEPT !.pc = "attaching", !.todo = @ \ {s}, !.asking = {s}]
        /\ sessions' = sessions
    BY <1>2 DEF TakeItem
  <2>2. poll' \in PollRec /\ poll'.pc = "attaching" /\ poll'.changed = poll.changed
        /\ poll'.got = {}
    BY <1>1, <2>1 DEF PollRec
  <2>. QED BY <1>1, <2>1, <2>2, PollKeeps DEF PollTells, Waits
<1>3. CASE sessions[s] # "none"
  <2>1. poll' = [poll EXCEPT !.pc = "items", !.todo = @ \ {s}, !.changed = @ \/ sessions[s] = "dead"]
        /\ sessions' = [sessions EXCEPT ![s] = "alive"]
    BY <1>3 DEF TakeItem
  <2>2. /\ poll' \in PollRec /\ poll'.pc = "items" /\ poll'.asking = {} /\ poll'.got = {}
        /\ poll'.changed <=> poll.changed \/ sessions[s] = "dead"
    BY <1>1, <2>1 DEF PollRec
  <2>3. sessions' \in Lists
    BY <1>1, <2>1 DEF Lists, States
  <2>4. CASE sessions[s] = "alive"
    <3>1. sessions' = sessions
      BY <1>1, <2>1, <2>4 DEF Lists
    <3>. QED BY <1>1, <2>2, <3>1, PollKeeps DEF PollTells, Waits
  <2>5. CASE sessions[s] = "dead"
    BY <1>1, <2>2, <2>3, <2>5, PollChanges DEF PollTells
  <2>. QED BY <1>1, <1>3, <2>4, <2>5 DEF Lists, States
<1>. QED BY <1>2, <1>3

LEMMA AttachKeeps ==
    ASSUME TableInv, NEW s \in Session, DaemonAttaches(s) \/ AttachReturns(s)
    PROVE  TableInv'
<1>1. /\ poll \in PollRec /\ sessions \in Lists
      /\ UNCHANGED <<pump, replay, up, published, stale>>
  BY DEF DaemonAttaches, AttachReturns, relayVars, shownVars, TableInv,
     TableTyped
<1>2. CASE DaemonAttaches(s)
  <2>1. poll.pc = "attaching" /\ poll.got = {} /\ sessions' = sessions
    BY <1>2 DEF DaemonAttaches, TableInv, AskingAttaches, Waits
  <2>2. \/ poll' = [poll EXCEPT !.pc = "items", !.asking = {}]
        \/ poll' = [poll EXCEPT !.asking = {}, !.got = {s}]
    BY <1>2 DEF DaemonAttaches
  <2>3. /\ poll' \in PollRec /\ poll'.changed = poll.changed /\ poll'.asking = {}
        /\ (poll'.pc = "items" /\ poll'.got = {}) \/ poll'.pc = "attaching"
    <3>1. CASE poll' = [poll EXCEPT !.pc = "items", !.asking = {}]
      BY <1>1, <2>1, <3>1 DEF PollRec
    <3>2. CASE poll' = [poll EXCEPT !.asking = {}, !.got = {s}]
      BY <1>1, <2>1, <3>2 DEF PollRec
    <3>. QED BY <2>2, <3>1, <3>2
  <2>. QED BY <1>1, <2>1, <2>3, PollKeeps DEF PollTells, Waits
<1>3. CASE AttachReturns(s)
  <2>1. poll' = [poll EXCEPT !.pc = "items", !.got = {}, !.changed = TRUE]
        /\ sessions' = [sessions EXCEPT ![s] = "alive"] /\ poll.asking = {}
    BY <1>3 DEF AttachReturns, TableInv, AskingAttaches, Waits
  <2>2. poll' \in PollRec /\ poll'.pc = "items" /\ poll'.changed /\ poll'.asking = {}
        /\ poll'.got = {}
    BY <1>1, <2>1 DEF PollRec
  <2>3. sessions' \in Lists
    BY <1>1, <2>1 DEF Lists, States
  <2>. QED BY <1>1, <2>2, <2>3, PollChanges DEF PollTells
<1>. QED BY <1>2, <1>3

LEMMA TimesOutKeeps ==
    ASSUME TableInv, AttachTimesOut
    PROVE  TableInv'
<1>1. /\ poll \in PollRec /\ poll.pc = "attaching"
      /\ poll' = [poll EXCEPT !.pc = "items", !.asking = {}, !.got = {}]
      /\ UNCHANGED <<sessions, pump, replay, up, published, stale>>
  BY DEF AttachTimesOut, relayVars, shownVars, TableInv, TableTyped
<1>2. /\ poll' \in PollRec /\ poll'.changed = poll.changed /\ poll'.asking = {}
      /\ poll'.got = {} /\ poll'.pc = "items"
  BY <1>1 DEF PollRec
<1>. QED BY <1>1, <1>2, PollKeeps DEF PollTells, Waits

LEMMA SweepKeeps ==
    ASSUME TableInv, PollLists \/ Sweep \/ PollBuilds
    PROVE  TableInv'
<1>1. /\ poll \in PollRec /\ sessions \in Lists
      /\ UNCHANGED <<pump, replay, up, published, stale>>
  BY DEF PollLists, Sweep, PollBuilds, relayVars, shownVars, TableInv, TableTyped
<1>2. CASE PollLists
  <2>1. /\ poll' = [PollAt("items") EXCEPT !.live = In(Listing),
                                           !.todo = {s \in Session : Listing[s] = "alive"}]
        /\ poll.pc = "idle" /\ sessions' = sessions /\ ~poll.changed
    BY <1>2 DEF PollLists, TableInv, IdleToldAll
  <2>2. poll' = [pc |-> "items", live |-> In(Listing),
                 todo |-> {s \in Session : Listing[s] = "alive"}, changed |-> FALSE,
                 asking |-> {}, got |-> {}, frame |-> NoneListed]
    BY <2>1 DEF PollAt
  <2>3. In(Listing) \in SUBSET Session /\ {s \in Session : Listing[s] = "alive"} \in SUBSET Session
    BY DEF In
  <2>4. poll' \in PollRec
    BY <2>2, <2>3, Frames DEF PollRec
  <2>5. poll'.pc = "items" /\ poll'.asking = {} /\ poll'.got = {}
    BY <2>2
  <2>. QED BY <1>1, <2>1, <2>4, <2>5, PollKeeps DEF PollTells, Waits
<1>3. CASE Sweep
  <2>1. /\ sessions' = [s \in Session |-> IF s \in Gone THEN "none" ELSE sessions[s]]
        /\ poll' = IF Changed THEN PollAt("build") ELSE PollAt("idle")
        /\ poll.pc = "items"
    BY <1>3 DEF Sweep, PollIdle
  <2>2. sessions' \in Lists
    BY <1>1, <2>1 DEF Lists, States
  <2>3. CASE Changed
    <3>1. poll' \in PollRec /\ poll'.pc = "build" /\ poll'.asking = {} /\ poll'.got = {}
      BY <2>1, <2>3, PollStarts
    <3>. QED BY <1>1, <2>2, <3>1, PollChanges DEF PollTells
  <2>4. CASE ~Changed
    <3>1. Gone = {} /\ ~poll.changed
      BY <2>4 DEF Changed
    <3>2. sessions' = sessions
      BY <1>1, <2>1, <3>1 DEF Lists
    <3>3. poll' \in PollRec /\ poll'.pc = "idle" /\ ~poll'.changed /\ poll'.asking = {}
          /\ poll'.got = {}
      BY <2>1, <2>4, PollStarts
    <3>. QED BY <1>1, <2>1, <3>1, <3>2, <3>3, PollKeeps DEF PollTells, Waits
  <2>. QED BY <2>3, <2>4
<1>4. CASE PollBuilds
  <2>1. poll' = [PollAt("send") EXCEPT !.frame = sessions] /\ sessions' = sessions
    BY <1>4 DEF PollBuilds
  <2>2. poll' \in PollRec /\ poll'.pc = "send" /\ poll'.asking = {} /\ poll'.got = {}
    BY <1>1, <2>1, PollStarts DEF PollRec
  <2>. QED BY <1>1, <2>1, <2>2, PollKeeps DEF PollTells, Waits
<1>. QED BY <1>2, <1>3, <1>4

LEMMA SendsKeep ==
    ASSUME TableInv, PollSends \/ ReplaySends
    PROVE  TableInv'
<1>1. /\ poll \in PollRec /\ replay \in ReplayRec /\ sessions \in Lists /\ published \in Lists
      /\ UNCHANGED <<sessions, pump, up>>
  BY DEF PollSends, ReplaySends, tableVars, TableInv, TableTyped
<1>2. \E frame \in Lists : Publish(frame)
  BY <1>1 DEF PollSends, ReplaySends, PollRec, ReplayRec
<1>3. /\ published' \in Lists
      /\ up => \A s \in Session : s \in stale' \/ published'[s] = sessions[s]
  BY <1>1, <1>2, ListShows
<1>4. poll' \in PollRec /\ Waits(poll)' /\ (poll'.pc = "idle" => ~poll'.changed)
  BY <1>1, PollStarts DEF PollSends, ReplaySends, PollIdle, tableVars, TableInv, AskingAttaches,
     IdleToldAll, Waits
<1>5. replay' \in ReplayRec
  BY <1>1, Frames DEF PollSends, ReplaySends
<1>6. ToldOrComing'
  BY <1>1, <1>3 DEF ToldOrComing, Shows
<1>. QED BY <1>1, <1>3, <1>4, <1>5, <1>6
     DEF TableInv, TableTyped, AskingAttaches, IdleToldAll, ExitLeft

LEMMA PumpKeeps ==
    ASSUME TableInv, NEW s \in Session, PumpMarks(s) \/ PumpTells(s)
    PROVE  TableInv'
<1>1. /\ sessions \in Lists /\ published \in Lists /\ pump \in PumpRec
      /\ UNCHANGED <<poll, replay, up>>
  BY DEF PumpMarks, PumpTells, relayVars, TableInv, TableTyped
<1>2. CASE PumpMarks(s)
  <2>1. /\ pump.of = {} /\ sessions' = [sessions EXCEPT ![s] = IF @ = "none" THEN @ ELSE "dead"]
        /\ pump' = [of |-> {s}, entry |-> sessions'[s]] /\ UNCHANGED <<published, stale>>
    BY <1>2, Frames DEF PumpMarks, Exited, relayVars, shownVars
  <2>2. sessions' \in Lists /\ sessions'[s] # "alive" /\ pump' \in PumpRec
    BY <1>1, <2>1 DEF Lists, States, PumpRec
  <2>3. ASSUME NEW r \in Session, Shows(r) PROVE Shows(r)'
    <3>1. pump'.of = {s}
      BY <2>1
    <3>2. r \in stale \/ published[r] = sessions[r]
      BY <2>1, <2>3 DEF Shows
    <3>3. CASE r = s
      <4>1. sessions'[s] = IF sessions[s] = "none" THEN "none" ELSE "dead"
        BY <1>1, <2>1 DEF Lists
      <4>2. published[s] \in {"none", "alive", "dead"}
        BY <1>1 DEF Lists, States
      <4>. QED BY <2>1, <3>1, <3>2, <3>3, <4>1, <4>2 DEF Shows
    <3>4. CASE r # s
      BY <1>1, <2>1, <3>2, <3>4 DEF Shows, Lists
    <3>. QED BY <3>3, <3>4
  <2>. QED BY <1>1, <2>1, <2>2, <2>3
       DEF Waits, TableInv, TableTyped, AskingAttaches, IdleToldAll, ExitLeft, ToldOrComing, PollTells,
           ReplayTells
<1>3. CASE PumpTells(s)
  <2>1. s \in pump.of /\ Tell(s) /\ pump' = PumpIdle /\ sessions' = sessions
    BY <1>3 DEF PumpTells
  <2>2. published' \in Lists
    BY <1>1, <2>1 DEF Tell, Unsent, Dropped, shownVars, Lists, States
  <2>3. ASSUME up, NEW r \in Session, Shows(r) PROVE Shows(r)'
    BY <2>1, <2>3, ExitShows DEF Shows
  <2>. QED BY <1>1, <2>1, <2>2, <2>3, Frames
       DEF Waits, TableInv, TableTyped, AskingAttaches, IdleToldAll, ExitLeft, ToldOrComing, PollTells,
           ReplayTells
<1>. QED BY <1>2, <1>3

\* The relay loop starts a replay, builds its list, or loses the link.
LEMMA RelayKeeps ==
    ASSUME TableInv, RelayConnects \/ Hello \/ ReplayBuilds \/ RelayDrops
    PROVE  TableInv'
<1>1. UNCHANGED <<sessions, poll, pump, published, stale>> /\ sessions \in Lists
  BY DEF RelayConnects, Hello, ReplayBuilds, RelayDrops, tableVars, shownVars, TableInv, TableTyped
<1>2. CASE RelayConnects \/ Hello \/ ReplayBuilds
  <2>1. \/ replay' = [NoReplay EXCEPT !.pc = "build"]
        \/ replay' = [pc |-> "send", frame |-> sessions]
    BY <1>2 DEF RelayConnects, Hello, ReplayBuilds
  <2>2. replay' \in ReplayRec /\ replay'.pc # "idle"
    BY <1>1, <2>1, Frames DEF ReplayRec
  <2>. QED BY <1>1, <2>2
       DEF Waits, TableInv, TableTyped, AskingAttaches, IdleToldAll, ExitLeft, ToldOrComing, ReplayTells
<1>3. CASE RelayDrops
  BY <1>1, <1>3
     DEF RelayDrops, Waits, TableInv, TableTyped, AskingAttaches, IdleToldAll, ExitLeft, ToldOrComing
<1>. QED BY <1>2, <1>3

LEMMA TableStep == TableInv /\ [PtyNext]_ptyVars => TableInv'
<1>. SUFFICES ASSUME TableInv, [PtyNext]_ptyVars PROVE TableInv'
  OBVIOUS
<1>1. ASSUME NEW s \in Session, TakeItem(s) PROVE TableInv'
  BY <1>1, TakeItemKeeps
<1>2. CASE \E s \in Session : DaemonAttaches(s) \/ AttachReturns(s)
  BY <1>2, AttachKeeps
<1>3. CASE AttachTimesOut
  BY <1>3, TimesOutKeeps
<1>4. CASE PollLists \/ Sweep \/ PollBuilds
  BY <1>4, SweepKeeps
<1>5. CASE PollSends \/ ReplaySends
  BY <1>5, SendsKeep
<1>6. CASE PumpStep
  BY <1>6, PumpKeeps DEF PumpStep
<1>7. CASE RelayConnects \/ Hello \/ ReplayBuilds \/ RelayDrops
  BY <1>7, RelayKeeps
<1>8. CASE \E s \in Session : \/ ShellExits(s) \/ DaemonDrops(s) \/ DaemonCloses(s) \/ BrowserCloses(s)
                              \/ DesktopOpens(s) \/ DaemonOpensLate(s) \/ DaemonOpens(s)
  BY <1>8, ElsewhereKeeps DEF ShellExits, DaemonDrops, DaemonCloses, BrowserCloses, DesktopOpens,
     DaemonOpensLate, DaemonOpens, tableVars, relayVars, shownVars
<1>9. CASE ListFails \/ DaemonRefuses \/ OpenTimesOut \/ BrowserOpens \/ UNCHANGED ptyVars
  BY <1>9, ElsewhereKeeps DEF ListFails, DaemonRefuses, OpenTimesOut, BrowserOpens, ptyVars,
     tableVars, relayVars, shownVars
<1>. QED BY <1>1, <1>2, <1>3, <1>4, <1>5, <1>6, <1>7, <1>8, <1>9
     DEF PtyNext, PollStep, OpenAnswer, RelayStep

\* PublishedIsTable: when no task has something to send, the browser shows each
\* session as the agent's table has it, unless the last frame about it was
\* overtaken by a change of the table or dropped; whatever poll, pump and relay
\* loop do at the same time (main.rs:452-460, 539-556, 366-371).
THEOREM BrowsersKnowTable == PtySpec => []PublishedIsTable
<1>1. TableInv => PublishedIsTable
  BY Frames DEF TableInv, ToldOrComing, PollTells, ReplayTells, Shows, PublishedIsTable
<1>. QED BY <1>1, TableInit, TableStep, PTL DEF PtySpec
=============================================================================
