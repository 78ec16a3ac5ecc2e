--------------------------- MODULE RelayHttpProofs ---------------------------
(***************************************************************************)
(* Replays of one-time codes and the truth of an open-ssh answer, for any  *)
(* number of requests and any clock, with no bound on cuts and restarts.   *)
(***************************************************************************)
EXTENDS RelayHttp, TLAPS

-----------------------------------------------------------------------------
Status == Answer \cup {"unsent", "checking", "pending"}
Job == {"none", "sent", "opening", "said ok", "said no"}
\* The part of the types the argument needs.
Typed ==
    /\ now \in Step
    /\ code \in [Req -> Step]
    /\ status \in [Req -> Status]
    /\ consumedTotp \in [Step -> Nat] /\ accepted \in [Step -> Nat]
    /\ job \in [Req -> Job]

\* An accepted code is remembered until it is too old to be accepted again.
KeptOrOld(c) ==
    /\ accepted[c] <= 1
    /\ accepted[c] = 1 => consumedTotp[c] >= c + 2 \/ now >= c + 2
CodeInv == Typed /\ \A c \in Step : KeptOrOld(c)

\* The map holds the requests that wait.  The bridge works on a request only
\* while the relay waits for its result, or after it gave up, and what it says
\* agrees with what the desktop did.  What the desktop opened was not answered
\* otherwise.
RequestTrue(r) ==
    /\ r \in openSshPending <=> status[r] = "pending"
    /\ job[r] # "none" => status[r] \in {"pending", "timeout", "lost"}
    /\ job[r] \in {"sent", "opening", "said no"} => r \notin opened
    /\ job[r] = "said ok" => r \in opened
    /\ r \in opened => status[r] \in {"pending", "ok", "timeout", "lost"}
    /\ status[r] = "ok" /\ r \in OpenReq => r \in opened
AnswerInv == Typed /\ \A r \in Req : RequestTrue(r)

-----------------------------------------------------------------------------
LEMMA Steps == 0 \in Step /\ Step \subseteq Nat /\ \A n \in Step : 0..n \subseteq Step
BY BoundAssumption DEF Step

LEMMA InitInv == Init => CodeInv /\ AnswerInv
<1>. SUFFICES ASSUME Init PROVE CodeInv /\ AnswerInv
  OBVIOUS
<1>1. Typed
  BY Steps DEF Init, Typed, Status, Job
<1>2. \A c \in Step : KeptOrOld(c)
  BY DEF Init, KeptOrOld
<1>3. \A r \in Req : RequestTrue(r)
  BY DEF Init, RequestTrue
<1>. QED BY <1>1, <1>2, <1>3 DEF CodeInv, AnswerInv

\* The second half of a request keeps the types.
LEMMA CheckedTyped ==
    ASSUME Typed, NEW r \in Req, Checked(r)
    PROVE  Typed'
<1>1. now' = now /\ code' \in [Req -> Step]
  BY Steps DEF Checked, Typed
<1>2. CASE Denied(r)
  BY <1>1, <1>2 DEF Denied, Typed, Status, Answer
<1>3. CASE Accepted(r) /\ (LoginAccepted(r) \/ OpenAccepted(r))
  <2>1. /\ now \in Nat /\ KeptSteps \in Nat /\ code[r] \in Step
        /\ \A c \in Step : accepted[c] + 1 \in Nat
    BY Steps, StepAssumption DEF Typed
  <2>2. consumedTotp' \in [Step -> Nat] /\ accepted' \in [Step -> Nat]
    <3>1. now + KeptSteps \in Nat
      BY <2>1
    <3>. QED BY <1>3, <2>1, <3>1 DEF Accepted, Consumed, Typed
  <2>3. status' \in [Req -> Status] /\ job' \in [Req -> Job]
    BY <1>3 DEF LoginAccepted, OpenAccepted, Typed, Status, Answer, Job
  <2>. QED BY <1>1, <2>2, <2>3 DEF Typed
<1>. QED BY <1>2, <1>3 DEF Checked, LoginAccepted, OpenAccepted

LEMMA TypedStep ==
    ASSUME Typed, [Next]_vars
    PROVE  Typed'
<1>1. CASE Tick
  <2>1. now' = now + 1 /\ now < MaxClock /\ consumedTotp' = Pruned(now')
        /\ UNCHANGED <<code, status, accepted, job>>
    BY <1>1 DEF Tick, requestVars, bridgeVars
  <2>2. now' \in Step
    BY <2>1, BoundAssumption DEF Typed, Step
  <2>3. consumedTotp' \in [Step -> Nat]
    BY <2>1 DEF Typed, Pruned
  <2>. QED BY <2>1, <2>2, <2>3 DEF Typed
<1>2. CASE Restart
  <2>1. /\ now' = now /\ code' \in [Req -> Step]
        /\ consumedTotp' \in [Step -> Nat] /\ accepted' \in [Step -> Nat]
    BY <1>2, Steps DEF Restart
  <2>2. status' \in [Req -> Status] /\ job' \in [Req -> Job]
    BY <1>2 DEF Restart, Dropped, Typed, Status, Answer, Job
  <2>. QED BY <2>1, <2>2 DEF Typed
<1>3. CASE LinkCut \/ LinkBack \/ LinkNoticed
  BY <1>3 DEF LinkCut, LinkBack, LinkNoticed, Dropped, requestVars, relayVars, Typed, Job
<1>4. ASSUME NEW r \in Req, Relay(r) PROVE Typed'
  <2>1. CASE Post(r)
    <3>1. code' \in [Req -> Step]
      BY <2>1, Steps DEF Post, Typed
    <3>2. status' \in [Req -> Status]
      BY <2>1 DEF Post, Typed, Status, Answer
    <3>. QED BY <2>1, <3>1, <3>2 DEF Post, relayVars, bridgeVars, Typed
  <2>2. CASE Checked(r)
    BY <2>2, CheckedTyped
  <2>3. CASE Result(r)
    BY <2>3 DEF Result, Resolved, Typed, Status, Answer, Job
  <2>4. CASE TimesOut(r)
    BY <2>4 DEF TimesOut, bridgeVars, Typed, Status, Answer
  <2>. QED BY <1>4, <2>1, <2>2, <2>3, <2>4 DEF Relay
<1>5. ASSUME NEW r \in Req, Bridge(r) PROVE Typed'
  BY <1>5 DEF Bridge, openConnection, ConnectionOpened, ConnectionRefused, reply, requestVars,
     relayVars, Typed, Job
<1>6. CASE UNCHANGED vars
  BY <1>6 DEF vars, requestVars, relayVars, bridgeVars, Typed
<1>. QED BY <1>1, <1>2, <1>3, <1>4, <1>5, <1>6 DEF Next

-----------------------------------------------------------------------------
\* A code is too old to be accepted again by the time it is forgotten.
LEMMA CodeStep ==
    ASSUME KeptSteps >= 2, CodeInv, [Next]_vars
    PROVE  CodeInv'
<1>. Typed'
  BY TypedStep DEF CodeInv
<1>. Typed /\ \A c \in Step : KeptOrOld(c)
  BY DEF CodeInv
<1>. SUFFICES ASSUME NEW c \in Step PROVE KeptOrOld(c)'
  BY DEF CodeInv
<1>. c \in Nat /\ now \in Nat /\ consumedTotp[c] \in Nat /\ accepted[c] \in Nat
  BY Steps DEF Typed
<1>1. CASE Tick
  <2>1. now' = now + 1 /\ accepted' = accepted
        /\ consumedTotp'[c] = IF consumedTotp[c] <= now + 1 THEN 0 ELSE consumedTotp[c]
    BY <1>1 DEF Tick, Pruned
  <2>. QED BY <2>1 DEF KeptOrOld
<1>2. CASE Restart
  BY <1>2 DEF Restart, KeptOrOld
<1>3. ASSUME NEW r \in Req, Checked(r), Accepted(r) PROVE KeptOrOld(c)'
  <2>1. /\ code[r] \in {now - 1, now} /\ consumedTotp[code[r]] = 0 /\ now' = now
        /\ accepted' = [accepted EXCEPT ![code[r]] = @ + 1]
        /\ consumedTotp' = [consumedTotp EXCEPT ![code[r]] = now + KeptSteps]
    BY <1>3 DEF Checked, Accepted, verifyTotp, Consumed
  <2>2. CASE c = code[r]
    <3>1. accepted[c] = 0
      BY <2>1, <2>2 DEF KeptOrOld
    <3>2. accepted'[c] = 1 /\ consumedTotp'[c] = now + KeptSteps
      BY <2>1, <2>2, <3>1 DEF Typed
    <3>. QED BY <2>1, <2>2, <3>2, StepAssumption DEF KeptOrOld
  <2>3. CASE c # code[r]
    <3>1. accepted'[c] = accepted[c] /\ consumedTotp'[c] = consumedTotp[c]
      BY <2>1, <2>3 DEF Typed
    <3>. QED BY <2>1, <3>1 DEF KeptOrOld
  <2>. QED BY <2>2, <2>3
<1>4. ASSUME UNCHANGED <<now, consumedTotp, accepted>> PROVE KeptOrOld(c)'
  BY <1>4 DEF KeptOrOld
<1>5. ASSUME NEW r \in Req, Relay(r), ~(Checked(r) /\ Accepted(r))
      PROVE  UNCHANGED <<now, consumedTotp, accepted>>
  BY <1>5 DEF Relay, Post, Checked, Denied, LoginAccepted, OpenAccepted, Result, TimesOut,
     relayVars
<1>6. ASSUME NEW r \in Req, Bridge(r) PROVE UNCHANGED <<now, consumedTotp, accepted>>
  BY <1>6 DEF Bridge, openConnection, ConnectionOpened, ConnectionRefused, relayVars
<1>7. CASE LinkCut \/ LinkBack \/ LinkNoticed \/ UNCHANGED vars
  BY <1>4, <1>7 DEF LinkCut, LinkBack, LinkNoticed, vars, relayVars
<1>. QED BY <1>1, <1>2, <1>3, <1>4, <1>5, <1>6, <1>7 DEF Next

\* OtpOnce: if a used code is remembered for two of its steps at least (the
\* code keeps it for three, server.js:245), no two requests of one relay are
\* accepted with it, however they overlap (server.js:238-247, 463).
THEOREM CodesOnce == KeptSteps >= 2 => (Spec => []OtpOnce)
<1>. SUFFICES ASSUME KeptSteps >= 2 PROVE Spec => []OtpOnce
  OBVIOUS
<1>1. Init => CodeInv
  BY InitInv
<1>2. CodeInv /\ [Next]_vars => CodeInv'
  BY CodeStep
<1>3. CodeInv => OtpOnce
  BY DEF CodeInv, KeptOrOld, OtpOnce
<1>. QED BY <1>1, <1>2, <1>3, PTL DEF Spec

-----------------------------------------------------------------------------
\* A step that leaves request q alone keeps what is true of it.
Untouched(q) ==
    /\ status'[q] = status[q] /\ job'[q] = job[q]
    /\ q \in opened' <=> q \in opened
    /\ q \in openSshPending' <=> q \in openSshPending

LEMMA UntouchedTrue ==
    ASSUME NEW q \in Req, RequestTrue(q), Untouched(q)
    PROVE  RequestTrue(q)'
BY DEF RequestTrue, Untouched

\* The relay's half: what it makes of a request, and of the bridge's result.
LEMMA RelayStep ==
    ASSUME Typed, NEW r \in Req, RequestTrue(r), Relay(r)
    PROVE  RequestTrue(r)' /\ \A q \in Req \ {r} : Untouched(q)
<1>. USE DEF Typed
<1>1. CASE Post(r)
  <2>1. /\ status[r] = "unsent" /\ UNCHANGED <<openSshPending, job, opened>>
        /\ \E x \in {"blocked", "checking"} : status' = [status EXCEPT ![r] = x]
    BY <1>1 DEF Post, relayVars, bridgeVars
  <2>. QED BY <2>1 DEF RequestTrue, Untouched
<1>2. CASE Checked(r)
  <2>1. /\ status[r] = "checking" /\ opened' = opened
        /\ job[r] = "none" /\ r \notin opened /\ r \notin openSshPending
    BY <1>2 DEF Checked, RequestTrue
  <2>2. CASE OpenAccepted(r) /\ delivered
    <3>1. /\ status' = [status EXCEPT ![r] = "pending"]
          /\ openSshPending' = openSshPending \cup {r}
          /\ job' = [job EXCEPT ![r] = IF link = "up" THEN "sent" ELSE "none"]
      BY <2>2 DEF OpenAccepted
    <3>. QED BY <2>1, <3>1 DEF RequestTrue, Untouched
  <2>3. CASE ~(OpenAccepted(r) /\ delivered)
    <3>1. /\ UNCHANGED <<openSshPending, job>>
          /\ \/ \E x \in {"denied", "offline"} : status' = [status EXCEPT ![r] = x]
             \/ status' = [status EXCEPT ![r] = "ok"] /\ r \notin OpenReq
      BY <1>2, <2>3 DEF Checked, Denied, LoginAccepted, OpenAccepted
    <3>. QED BY <2>1, <3>1 DEF RequestTrue, Untouched
  <2>. QED BY <2>2, <2>3
<1>3. CASE Result(r)
  <2>1. /\ job[r] \in {"said ok", "said no"} /\ job' = [job EXCEPT ![r] = "none"]
        /\ opened' = opened /\ (job[r] = "said ok" <=> r \in opened)
    BY <1>3 DEF Result, RequestTrue
  <2>2. CASE r \in openSshPending
    <3>1. /\ status' = [status EXCEPT ![r] = IF job[r] = "said ok" THEN "ok" ELSE "refused"]
          /\ openSshPending' = openSshPending \ {r}
      BY <1>3, <2>2 DEF Result, Resolved
    <3>. QED BY <2>1, <3>1 DEF RequestTrue, Untouched
  <2>3. CASE r \notin openSshPending
    <3>1. UNCHANGED <<status, openSshPending>>
      BY <1>3, <2>3 DEF Result, Resolved
    <3>. QED BY <2>1, <3>1 DEF RequestTrue, Untouched
  <2>. QED BY <2>2, <2>3
<1>4. CASE TimesOut(r)
  <2>1. /\ status' = [status EXCEPT ![r] = "timeout"] /\ openSshPending' = openSshPending \ {r}
        /\ UNCHANGED <<job, opened>> /\ status[r] = "pending"
    BY <1>4 DEF TimesOut, Expired, bridgeVars, RequestTrue
  <2>. QED BY <2>1 DEF RequestTrue, Untouched
<1>. QED BY <1>1, <1>2, <1>3, <1>4 DEF Relay

\* The bridge's half.
LEMMA BridgeStep ==
    ASSUME Typed, NEW r \in Req, RequestTrue(r), Bridge(r)
    PROVE  RequestTrue(r)' /\ \A q \in Req \ {r} : Untouched(q)
<1>1. UNCHANGED <<status, openSshPending>>
  BY DEF Bridge, openConnection, ConnectionOpened, ConnectionRefused, requestVars, relayVars
<1>2. job[r] # "none" /\ status[r] \in {"pending", "timeout", "lost"} /\ r \notin opened
  BY DEF Bridge, openConnection, ConnectionOpened, ConnectionRefused, RequestTrue
<1>3. \/ opened' = opened /\ \E x \in {"opening", "said no", "none"} :
                                 job' = [job EXCEPT ![r] = x]
      \/ opened' = opened \cup {r} /\ \E x \in {"said ok", "none"} :
                                          job' = [job EXCEPT ![r] = x]
  BY DEF Bridge, openConnection, ConnectionOpened, ConnectionRefused, reply
<1>. QED BY <1>1, <1>2, <1>3 DEF RequestTrue, Untouched, Typed

LEMMA AnswerStep ==
    ASSUME AnswerInv, [Next]_vars
    PROVE  AnswerInv'
<1>. Typed /\ \A r \in Req : RequestTrue(r)
  BY DEF AnswerInv
<1>. Typed'
  BY TypedStep
<1>. SUFFICES ASSUME NEW q \in Req PROVE RequestTrue(q)'
  BY DEF AnswerInv
<1>1. CASE Restart
  <2>1. /\ status'[q] = IF status[q] \in {"checking", "pending"} THEN "lost" ELSE status[q]
        /\ job'[q] \in {"none", job[q]} /\ openSshPending' = {} /\ opened' = opened
    BY <1>1 DEF Restart, Dropped
  <2>. QED BY <2>1 DEF RequestTrue
<1>2. CASE LinkCut
  <2>1. /\ UNCHANGED <<status, openSshPending, opened>> /\ job'[q] \in {"none", job[q]}
    BY <1>2 DEF LinkCut, Dropped, requestVars, relayVars
  <2>. QED BY <2>1 DEF RequestTrue
<1>3. CASE Tick \/ LinkBack \/ LinkNoticed \/ UNCHANGED vars
  <2>1. Untouched(q)
    BY <1>3 DEF Tick, LinkBack, LinkNoticed, vars, requestVars, relayVars, bridgeVars, Untouched
  <2>. QED BY <2>1, UntouchedTrue
<1>4. ASSUME NEW r \in Req, Relay(r) \/ Bridge(r) PROVE RequestTrue(q)'
  <2>1. RequestTrue(r)' /\ (q # r => Untouched(q))
    BY <1>4, RelayStep, BridgeStep
  <2>. QED BY <2>1, UntouchedTrue
<1>. QED BY <1>1, <1>2, <1>3, <1>4 DEF Next

\* AnswerTrue: whatever is cut, late, refused or restarted, the page that asked
\* for a connection hears ok only if the desktop opened it, and a refusal only
\* if it did not (server.js:642-648, index.js:705-708).
THEOREM AnswersAreTrue == Spec => []AnswerTrue
<1>1. Init => AnswerInv
  BY InitInv
<1>2. AnswerInv /\ [Next]_vars => AnswerInv'
  BY AnswerStep
<1>3. AnswerInv => AnswerTrue
  BY ReqAssumption DEF AnswerInv, RequestTrue, AnswerTrue
<1>. QED BY <1>1, <1>2, <1>3, PTL DEF Spec
=============================================================================
