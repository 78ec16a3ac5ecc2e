----------------------------- MODULE RelayHttp -----------------------------
(***************************************************************************)
(* The two requests that prove a password to the relay: POST /api/login    *)
(* and POST /api/open-ssh (server.js), the latter with its way through the *)
(* extension's SSH bridge to the desktop and back (index.js).              *)
(*                                                                         *)
(* A handler runs to its next await: the body and the password hash are    *)
(* awaited, then everything up to the answer, or to the wait for the       *)
(* bridge, is one step.  Time is counted in the 30 s steps of a one-time   *)
(* code, which are also the relay's heartbeats; the relay's 12 s wait may  *)
(* end whenever it is on.                                                  *)
(***************************************************************************)
EXTENDS Integers, FiniteSets

CONSTANTS
    Req,            \* requests
    OpenReq,        \* those that open an SSH connection
    NativeAgent,    \* TRUE: the native agent is connected as well
    FailLimit,      \* failures before the address has to wait (code: 5)
    LockSteps,      \* steps of the first wait (code: 60 s, that is 2)
    MaxLock,        \* steps of the longest wait (code: 15 min, that is 30)
    KeptSteps,      \* steps a used code is remembered (code: 90 s, that is 3)
    MaxClock,       \* bound: steps of time
    MaxCuts,        \* bound: times the bridge's link is cut
    MaxRestarts     \* bound: restarts of the relay

ASSUME ReqAssumption == OpenReq \subseteq Req /\ NativeAgent \in BOOLEAN
ASSUME StepAssumption ==
    /\ FailLimit \in Nat \ {0} /\ LockSteps \in Nat \ {0} /\ MaxLock \in Nat
    /\ KeptSteps \in Nat \ {0}
ASSUME BoundAssumption == MaxClock \in Nat /\ MaxCuts \in Nat /\ MaxRestarts \in Nat

VARIABLES
    now,            \* the time step
    status,         \* of each request: its place in the handler, or its answer
    code,           \* while it is checked: the step whose one-time code it carries
    good,           \* while it is checked: whether its password is right
    consumedTotp,   \* step -> when it may be forgotten, or 0
    loginFails,     \* failures since the last success, and the end of the wait
    openSshPending, \* requests with an entry in the map
    link,           \* the bridge's socket: "up", "cut" (the relay thinks it open), "down"
    job,            \* of each request: where the bridge is with it
    opened,         \* history: requests for which the desktop opened a connection
    accepted,       \* history: step -> requests this relay accepted with its code
    cuts, restarts

relayVars == <<consumedTotp, loginFails, openSshPending>>
requestVars == <<status, code, good>>
bridgeVars == <<link, job, opened>>
vars == <<now, requestVars, relayVars, bridgeVars, accepted, cuts, restarts>>

Answer == {"ok", "denied", "blocked", "offline", "refused", "timeout", "lost"}
Step == 0..MaxClock

-----------------------------------------------------------------------------
Init ==
    /\ now = 0
    /\ status = [r \in Req |-> "unsent"]
    /\ code = [r \in Req |-> 0] /\ good = [r \in Req |-> FALSE]
    /\ consumedTotp = [c \in Step |-> 0]
    /\ loginFails = [n |-> 0, until |-> 0]
    /\ openSshPending = {}
    /\ link = "up" /\ job = [r \in Req |-> "none"] /\ opened = {}
    /\ accepted = [c \in Step |-> 0] /\ cuts = 0 /\ restarts = 0

\* A used code is forgotten by a heartbeat once its time is over.
Pruned(t) == [c \in Step |-> IF consumedTotp[c] <= t THEN 0 ELSE consumedTotp[c]]
Tick ==
    /\ now < MaxClock /\ now' = now + 1
    /\ consumedTotp' = Pruned(now')
    /\ UNCHANGED <<requestVars, loginFails, openSshPending, bridgeVars, accepted, cuts, restarts>>

-----------------------------------------------------------------------------
\* The handler, first part: the wait after too many failures.  The code is one
\* the user has seen: of this step or an earlier one.
rateBlocked == loginFails.until > now
Post(r) ==
    /\ status[r] = "unsent"
    /\ IF rateBlocked
       THEN status' = [status EXCEPT ![r] = "blocked"] /\ UNCHANGED <<code, good>>
       ELSE /\ status' = [status EXCEPT ![r] = "checking"]
            /\ \E c \in 0..now : code' = [code EXCEPT ![r] = c]
            /\ \E g \in BOOLEAN : good' = [good EXCEPT ![r] = g]
    /\ UNCHANGED <<now, relayVars, bridgeVars, accepted, cuts, restarts>>

\* The code of this step or of the one before, unless it was used.
verifyTotp(c) == c \in {now - 1, now} /\ consumedTotp[c] = 0
\* Mutant of Consumed: a used code is forgotten a step early.
ConsumedBriefly(c) == [consumedTotp EXCEPT ![c] = now + KeptSteps - 1]
Consumed(c) == [consumedTotp EXCEPT ![c] = now + KeptSteps]
Forgiven == [n |-> 0, until |-> 0]
noteFail ==
    LET n == loginFails.n + 1
        wait == LockSteps * 2 ^ (n - FailLimit)
    IN [n |-> n,
        until |-> IF n < FailLimit THEN loginFails.until
                  ELSE now + IF wait < MaxLock THEN wait ELSE MaxLock]

\* The agents whose socket the relay holds for open.
delivered == NativeAgent \/ link \in {"up", "cut"}

\* The handler, second part: password and code are judged together.
Denied(r) ==
    /\ ~(good[r] /\ verifyTotp(code[r]))
    /\ loginFails' = noteFail
    /\ status' = [status EXCEPT ![r] = "denied"]
    /\ UNCHANGED <<consumedTotp, openSshPending, job, accepted>>
Accepted(r) ==
    /\ good[r] /\ verifyTotp(code[r])
    /\ consumedTotp' = Consumed(code[r])
    /\ loginFails' = Forgiven
    /\ accepted' = [accepted EXCEPT ![code[r]] = @ + 1]
LoginAccepted(r) ==
    /\ r \notin OpenReq /\ Accepted(r)
    /\ status' = [status EXCEPT ![r] = "ok"]
    /\ UNCHANGED <<openSshPending, job>>
OpenAccepted(r) ==
    /\ r \in OpenReq /\ Accepted(r)
    /\ IF delivered
       THEN /\ status' = [status EXCEPT ![r] = "pending"]
            /\ openSshPending' = openSshPending \cup {r}
            /\ job' = [job EXCEPT ![r] = IF link = "up" THEN "sent" ELSE "none"]
       ELSE status' = [status EXCEPT ![r] = "offline"] /\ UNCHANGED <<openSshPending, job>>
Checked(r) ==
    /\ status[r] = "checking"
    /\ Denied(r) \/ LoginAccepted(r) \/ OpenAccepted(r)
    /\ code' = [code EXCEPT ![r] = 0] /\ good' = [good EXCEPT ![r] = FALSE]
    /\ UNCHANGED <<now, link, opened, cuts, restarts>>

\* Mutant of Resolved: a result answers whichever request waits.
ResolvedAny(r, answer) ==
    IF openSshPending # {}
    THEN LET p == CHOOSE q \in openSshPending : TRUE
         IN /\ status' = [status EXCEPT ![p] = answer]
            /\ openSshPending' = openSshPending \ {p}
    ELSE UNCHANGED <<status, openSshPending>>
\* The result of the bridge, if the request still waits for it.
Resolved(r, answer) ==
    IF r \in openSshPending
    THEN /\ status' = [status EXCEPT ![r] = answer]
         /\ openSshPending' = openSshPending \ {r}
    ELSE UNCHANGED <<status, openSshPending>>
Result(r) ==
    /\ job[r] \in {"said ok", "said no"}
    /\ Resolved(r, IF job[r] = "said ok" THEN "ok" ELSE "refused")
    /\ job' = [job EXCEPT ![r] = "none"]
    /\ UNCHANGED <<now, code, good, consumedTotp, loginFails, link, opened, accepted, cuts,
                   restarts>>

\* Twelve seconds without a result.
Expired(r) == openSshPending \ {r}
\* Mutant of TimesOut: the relay waits for ever.
TimesOutNever(r) == FALSE /\ UNCHANGED vars
\* The wait for the bridge is over.
TimesOut(r) ==
    /\ r \in openSshPending
    /\ openSshPending' = Expired(r)
    /\ status' = [status EXCEPT ![r] = "timeout"]
    /\ UNCHANGED <<now, code, good, consumedTotp, loginFails, bridgeVars, accepted, cuts, restarts>>

\* The relay restarts: requests break off, and its memory is new.  Its agents'
\* sockets close.
OnWire == {"sent", "said ok", "said no"}
Dropped == [r \in Req |-> IF job[r] \in OnWire THEN "none" ELSE job[r]]
Restart ==
    /\ restarts < MaxRestarts /\ restarts' = restarts + 1
    /\ status' = [r \in Req |-> IF status[r] \in {"checking", "pending"} THEN "lost"
                                ELSE status[r]]
    /\ consumedTotp' = [c \in Step |-> 0] /\ loginFails' = Forgiven
    /\ openSshPending' = {} /\ accepted' = [c \in Step |-> 0]
    /\ code' = [r \in Req |-> 0] /\ good' = [r \in Req |-> FALSE]
    /\ link' = "down" /\ job' = Dropped
    /\ UNCHANGED <<now, opened, cuts>>

-----------------------------------------------------------------------------
\* The SSH bridge.

LinkCut ==
    /\ cuts < MaxCuts /\ cuts' = cuts + 1
    /\ link = "up" /\ link' = "cut" /\ job' = Dropped
    /\ UNCHANGED <<now, requestVars, relayVars, opened, accepted, restarts>>
LinkBack ==
    /\ link # "up" /\ link' = "up"
    /\ UNCHANGED <<now, requestVars, relayVars, job, opened, accepted, cuts, restarts>>
LinkNoticed ==
    /\ link = "cut" /\ link' = "down"
    /\ UNCHANGED <<now, requestVars, relayVars, job, opened, accepted, cuts, restarts>>

\* open-ssh arrives; the desktop switches workspace, then opens the
\* connection: one wait, whose outcome is known at its end.
openConnection(r) ==
    /\ job[r] = "sent" /\ job' = [job EXCEPT ![r] = "opening"]
    /\ UNCHANGED <<now, requestVars, relayVars, link, opened, accepted, cuts, restarts>>
\* The reply goes out on the socket the bridge has then, if it is open.
reply(r, said) == job' = [job EXCEPT ![r] = IF link = "up" THEN said ELSE "none"]
ConnectionOpened(r) ==
    /\ job[r] = "opening" /\ opened' = opened \cup {r} /\ reply(r, "said ok")
    /\ UNCHANGED <<now, requestVars, relayVars, link, accepted, cuts, restarts>>
ConnectionRefused(r) ==
    /\ job[r] = "opening" /\ reply(r, "said no")
    /\ UNCHANGED <<now, requestVars, relayVars, link, opened, accepted, cuts, restarts>>

Relay(r) == Post(r) \/ Checked(r) \/ Result(r) \/ TimesOut(r)
Bridge(r) == openConnection(r) \/ ConnectionOpened(r) \/ ConnectionRefused(r)
Next ==
    \/ Tick \/ Restart \/ LinkCut \/ LinkBack \/ LinkNoticed
    \/ \E r \in Req : Relay(r) \/ Bridge(r)

Spec == Init /\ [][Next]_vars

\* The hash is computed and the timer fires.
Fairness == \A r \in Req : WF_vars(Checked(r)) /\ WF_vars(TimesOut(r))
FairSpec == Spec /\ Fairness

-----------------------------------------------------------------------------
Waiting == {r \in Req : status[r] = "pending"}

\* Every request that waits for the bridge has its entry in the map, and no
\* other request has; the rest has its type.
TypeOK ==
    /\ now \in Step /\ good \in [Req -> BOOLEAN] /\ code \in [Req -> Step]
    /\ status \in [Req -> Answer \cup {"unsent", "checking", "pending"}]
    /\ consumedTotp \in [Step -> Nat]
    /\ loginFails.n \in 0..Cardinality(Req) /\ loginFails.until \in Nat
    /\ openSshPending = Waiting
    /\ link \in {"up", "cut", "down"}
    /\ job \in [Req -> {"none", "sent", "opening", "said ok", "said no"}]
    /\ opened \subseteq OpenReq /\ accepted \in [Step -> Nat]

\* A one-time code is accepted once in the life of a relay, however the
\* requests that carry it overlap (server.js:238-247, 463).
OtpOnce == \A c \in Step : accepted[c] <= 1

\* The page is told the truth about its SSH connection: ok only if the desktop
\* opened it for this very request, a refusal only if it did not
\* (server.js:642-648, index.js:705-708).
AnswerTrue ==
    \A r \in OpenReq :
        /\ status[r] = "ok" => r \in opened
        /\ status[r] \in {"denied", "blocked", "offline", "refused"} => r \notin opened

\* Every request is answered, or breaks off with the relay, whatever becomes
\* of the bridge (server.js:573-583).
Answered == \A r \in Req : status[r] = "checking" ~> status[r] \in Answer
=============================================================================
