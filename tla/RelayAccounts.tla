---------------------------- MODULE RelayAccounts ----------------------------
(****************************************************************************)
(* Signing in, signing out and changing the password: the handlers of       *)
(* /api/me, /api/login, /api/logout and /api/change-password (server.js),   *)
(* the hash they keep in memory and in PASS_FILE, and the browsers with     *)
(* their cookie, their page and its form (useRemote.ts, Login.tsx,          *)
(* ChangePasswordModal.tsx, Turnstile.tsx).                                 *)
(*                                                                          *)
(* A handler runs to its next await: the body and the Turnstile check (one  *)
(* wait: nothing is read between them), then the password hash.  Hashes are *)
(* numbered: 0 is LOGIN_PASS_HASH, and every change sets a password not     *)
(* used before; a cookie is the hash it is bound to and the time it ends.   *)
(* One-time codes and the wait after failures are in RelayHttp: here a      *)
(* request may be told to wait at any time.  Both ends refuse a new         *)
(* password that is too short; that is left out.                            *)
(****************************************************************************)
EXTENDS Integers

CONSTANTS
    Browser,                \* browsers in the model, each with one page
    Req,                    \* slots for the requests under way
    None,
    OneForm,                \* the user waits for an answer before the next form
    SESSION_TTL,            \* life of a cookie
    MaxClock, MaxHash, MaxFaults    \* bounds; a fault: a restart, a lost answer

Hash == 0..MaxHash
Cookie == [k : Hash, exp : 0..MaxClock + SESSION_TTL]

ASSUME AccountsAssumption ==
    /\ Req \subseteq Nat /\ None \notin Int \union Browser \union Cookie /\ OneForm \in BOOLEAN /\ SESSION_TTL \in Nat
    /\ MaxClock \in Nat /\ MaxHash \in Nat /\ MaxFaults \in Nat

VARIABLES
    loginPassHash,          \* in memory
    passFile,               \* PASS_FILE, or None
    hashes,                 \* hashes made so far
    now,
    reqs,                   \* request -> where it is, whose, what it carries now
    jar,                    \* the cookie of each browser, or None
    page, form,             \* its page, and the form on it
    told,                   \* history: the newest of its changes it was told of
    faults

relayVars == <<loginPassHash, passFile, hashes>>
browserVars == <<jar, page, form, told>>
vars == <<relayVars, now, reqs, browserVars, faults>>

Env == 0
Free == [at |-> "free", who |-> None, shown |-> FALSE, kind |-> None, has |-> None]
NoCookie == <<>>            \* an answer without Set-Cookie
Clearing == <<None>>
NoForm == [open |-> FALSE, sent |-> FALSE, busy |-> FALSE, done |-> FALSE]
EmptyForm == [NoForm EXCEPT !.open = TRUE]

Init ==
    /\ loginPassHash = Env /\ passFile = None /\ hashes = 0 /\ now = 0
    /\ reqs = [r \in Req |-> Free]
    /\ jar = [b \in Browser |-> None]
    /\ page = [b \in Browser |-> "boot"]
    /\ form = [b \in Browser |-> NoForm]
    /\ told = [b \in Browser |-> None]
    /\ faults = 0

-----------------------------------------------------------------------------
\* What the relay loads when it starts.  Mutant: PASS_FILE is not read.
LoadedFromEnv(file) == Env
Loaded(file) == IF file # None THEN file ELSE Env

\* A cookie is bound to the hash in force when it is signed.  Mutant: to the
\* one the request was checked against.
signSessionEarly(hash, checked) == [k |-> checked, exp |-> now + SESSION_TTL]
signSession(hash, checked) == [k |-> hash, exp |-> now + SESSION_TTL]
verifySession(c) == c # None /\ c.exp >= now /\ c.k = loginPassHash

-----------------------------------------------------------------------------
(* The browser.                                                             *)

Mine(b) == {r \in Req : reqs[r].who = b}

\* A request takes the first free slot.
Enters(q) ==
    \E r \in Req :
        /\ reqs[r] = Free /\ \A x \in Req : x < r => reqs[x] # Free
        /\ reqs' = [reqs EXCEPT ![r] = q]
\* A fetch: the cookie of the moment goes with it.
Fetch(b, kind, pass, fresh) ==
    Enters([at |-> "sent", who |-> b, shown |-> TRUE, kind |-> kind,
            has |-> [cookie |-> jar[b], pass |-> pass, fresh |-> fresh]])

\* The page loads and asks who is signed in.
Boot(b) ==
    /\ page[b] = "boot" /\ Mine(b) = {}
    /\ Fetch(b, "me", None, TRUE)
    /\ UNCHANGED <<relayVars, now, browserVars, faults>>

\* Submit, once the widget has handed out a token; a token that was sent
\* before is no new one.  The button is disabled while busy or done.
Submit(b, kind, pass) ==
    /\ form[b].open /\ ~form[b].busy /\ ~form[b].done
    /\ Fetch(b, kind, pass, ~form[b].sent)
    /\ form' = [form EXCEPT ![b].busy = TRUE, ![b].sent = TRUE]
    /\ UNCHANGED <<relayVars, now, jar, page, told, faults>>
SubmitLogin(b, pass) == page[b] = "login" /\ Submit(b, "login", pass)
SubmitChange(b, pass) == page[b] = "app" /\ Submit(b, "change", pass)

\* The change-password dialog.  Escape and the overlay close it at any time,
\* also while its request is under way; so does, a second after a success, a
\* timer, whichever dialog is open then.
OpenChange(b) ==
    /\ page[b] = "app" /\ ~form[b].open
    /\ OneForm => Mine(b) = {}
    /\ form' = [form EXCEPT ![b] = EmptyForm]
    /\ UNCHANGED <<relayVars, now, reqs, jar, page, told, faults>>
CloseChange(b) ==
    /\ page[b] = "app" /\ form[b].open
    /\ form' = [form EXCEPT ![b] = NoForm]
    /\ reqs' = [r \in Req |-> IF r \in Mine(b) THEN [reqs[r] EXCEPT !.shown = FALSE] ELSE reqs[r]]
    /\ UNCHANGED <<relayVars, now, jar, page, told, faults>>

Logout(b) ==
    /\ page[b] = "app"
    /\ Fetch(b, "logout", None, TRUE)
    /\ UNCHANGED <<relayVars, now, browserVars, faults>>

-----------------------------------------------------------------------------
(* The relay.                                                               *)

\* A request that has come to its next await, or to its answer.
Goes(r, at, has) == reqs' = [reqs EXCEPT ![r].at = at, ![r].has = has]
Answered(r, ok, sets) == Goes(r, "answered", [ok |-> ok, made |-> None, sets |-> sets])
Refused(r) == Answered(r, FALSE, NoCookie)

\* The handler to its first await, or to its answer.
Arrive(r) ==
    /\ reqs[r].at = "sent"
    /\ CASE reqs[r].kind = "me" -> Answered(r, verifySession(reqs[r].has.cookie), NoCookie)
         [] reqs[r].kind = "logout" -> Answered(r, TRUE, Clearing)
         [] reqs[r].kind = "change" /\ ~verifySession(reqs[r].has.cookie) -> Refused(r)
         [] OTHER -> \/ Refused(r)
                     \/ Goes(r, "gate", [pass |-> reqs[r].has.pass, fresh |-> reqs[r].has.fresh])
    /\ UNCHANGED <<relayVars, now, browserVars, faults>>

\* The same for a change of the password from a browser that is not in the model.
Elsewhere(pass) ==
    /\ Enters([at |-> "gate", who |-> None, shown |-> FALSE, kind |-> "change",
               has |-> [pass |-> pass, fresh |-> TRUE]])
    /\ UNCHANGED <<relayVars, now, browserVars, faults>>

\* Turnstile: a token is good once, and a check that fails or takes 8 s is
\* refused.  Mutant of TimesOut: a check may hang.
NeverTimesOut == FALSE
TimesOut == TRUE
GatePasses(r) ==
    /\ reqs[r].at = "gate" /\ reqs[r].has.fresh
    /\ Goes(r, "hash", [pass |-> reqs[r].has.pass, checked |-> loginPassHash])
    /\ UNCHANGED <<relayVars, now, browserVars, faults>>
GateFails(r) ==
    /\ reqs[r].at = "gate"
    /\ ~reqs[r].has.fresh \/ TimesOut
    /\ Refused(r)
    /\ UNCHANGED <<relayVars, now, browserVars, faults>>

\* The hash of the password has been compared with the one in force before.
\* A change writes PASS_FILE first; when that fails nothing has changed.
\* Mutant of InMemory: the new hash is taken before it is written.
MemoryFirst(hash, saved) == hash
InMemory(hash, saved) == IF saved THEN hash ELSE loginPassHash

Right(r) == reqs[r].has.pass = reqs[r].has.checked
WrongPassword(r) ==
    /\ reqs[r].at = "hash" /\ ~Right(r)
    /\ Refused(r)
    /\ UNCHANGED <<relayVars, now, browserVars, faults>>
SignsIn(r) ==
    /\ reqs[r].at = "hash" /\ reqs[r].kind = "login" /\ Right(r)
    /\ Answered(r, TRUE, <<signSession(loginPassHash, reqs[r].has.checked)>>)
    /\ UNCHANGED <<relayVars, now, browserVars, faults>>
Changes(r) ==
    /\ reqs[r].at = "hash" /\ reqs[r].kind = "change" /\ Right(r)
    /\ \E saved \in IF hashes < MaxHash THEN BOOLEAN ELSE {FALSE} :
          /\ loginPassHash' = InMemory(hashes + 1, saved)
          /\ IF saved
             THEN /\ passFile' = hashes + 1 /\ hashes' = hashes + 1
                  /\ Goes(r, "answered", [ok |-> TRUE, made |-> hashes + 1,
                         sets |-> <<signSession(hashes + 1, reqs[r].has.checked)>>])
             ELSE UNCHANGED <<passFile, hashes>> /\ Refused(r)
    /\ UNCHANGED <<now, browserVars, faults>>
HashDone(r) == WrongPassword(r) \/ SignsIn(r) \/ Changes(r)

\* The process dies, also between the rename of PASS_FILE and the answer, and
\* is started again; requests without an answer are reset.
Broken == [r \in Req |-> IF reqs[r].at \in {"sent", "gate", "hash"}
                         THEN [reqs[r] EXCEPT !.at = "lost"] ELSE reqs[r]]
Restarts(file) ==
    /\ faults < MaxFaults /\ faults' = faults + 1
    /\ passFile' = file /\ loginPassHash' = Loaded(file)
    /\ reqs' = Broken
    /\ UNCHANGED <<now, browserVars>>
Restart == Restarts(passFile) /\ UNCHANGED hashes
DiesAfterRename(r) ==
    /\ reqs[r].at = "hash" /\ reqs[r].kind = "change" /\ Right(r) /\ hashes < MaxHash
    /\ hashes' = hashes + 1
    /\ Restarts(hashes + 1)

-----------------------------------------------------------------------------
(* The answer.                                                              *)

\* What a form does with a failure: the token is used up, a new one is asked
\* for.  Mutant: the form keeps it.
KeepsToken(f) == [f EXCEPT !.busy = FALSE]
AfterFailure(f) == [f EXCEPT !.busy = FALSE, !.sent = FALSE]

\* The page's handler for the end of a request, with or without an answer.
PageHandles(b, q, ok) ==
    CASE q.kind = "me" ->
            /\ page' = [page EXCEPT ![b] = IF ok THEN "app" ELSE "login"]
            /\ form' = [form EXCEPT ![b] = IF ok THEN NoForm ELSE EmptyForm]
      [] q.kind = "login" ->
            /\ page' = [page EXCEPT ![b] = IF ok THEN "app" ELSE "login"]
            /\ form' = [form EXCEPT ![b] = IF ok THEN NoForm ELSE AfterFailure(form[b])]
      [] q.kind = "change" ->
            /\ form' = [form EXCEPT ![b] =
                          IF ~q.shown THEN form[b]
                          ELSE IF ok THEN [form[b] EXCEPT !.busy = FALSE, !.done = TRUE]
                          ELSE AfterFailure(form[b])]
            /\ UNCHANGED page
      [] q.kind = "logout" ->       \* location.reload()
            /\ page' = [page EXCEPT ![b] = "boot"]
            /\ form' = [form EXCEPT ![b] = NoForm]

\* `who` None: nobody waits for the answer any more.  A reload forgets the
\* requests of the page it replaces.
Without(q, rs) ==
    IF q.kind # "logout" THEN rs
    ELSE [r \in Req |-> IF rs[r].who = q.who THEN [rs[r] EXCEPT !.who = None] ELSE rs[r]]

Deliver(r) ==
    LET q == reqs[r] b == reqs[r].who
    IN /\ q.at = "answered" /\ b # None
       /\ PageHandles(b, q, q.has.ok)
       /\ reqs' = Without(q, [reqs EXCEPT ![r] = Free])
       /\ jar' = [jar EXCEPT ![b] = IF q.has.sets = NoCookie THEN @ ELSE q.has.sets[1]]
       /\ told' = [told EXCEPT ![b] =
                      IF q.has.sets = Clearing THEN None
                      ELSE IF q.has.made # None /\ (@ = None \/ @ < q.has.made) THEN q.has.made
                      ELSE @]
       /\ UNCHANGED <<relayVars, now, faults>>

\* "Network error".  The relay died; or the connection of a request is lost,
\* and the relay goes on with it.
Fails(r) ==
    LET q == reqs[r]
    IN /\ q.who # None
       /\ PageHandles(q.who, q, FALSE)
       /\ \/ /\ q.at = "lost"
             /\ reqs' = Without(q, [reqs EXCEPT ![r] = Free])
             /\ UNCHANGED faults
          \/ /\ q.at \in {"sent", "gate", "hash", "answered"}
             /\ faults < MaxFaults /\ faults' = faults + 1
             /\ reqs' = Without(q, [reqs EXCEPT ![r].who = None])
       /\ UNCHANGED <<relayVars, now, jar, told>>

\* Nobody waits for it.
Forgotten(r) ==
    /\ reqs[r].at \in {"answered", "lost"} /\ reqs[r].who = None
    /\ reqs' = [reqs EXCEPT ![r] = Free]
    /\ UNCHANGED <<relayVars, now, browserVars, faults>>

Tick ==
    /\ now < MaxClock /\ now' = now + 1
    /\ UNCHANGED <<relayVars, reqs, browserVars, faults>>

-----------------------------------------------------------------------------
BrowserNext ==
    \E b \in Browser :
        \/ Boot(b) \/ OpenChange(b) \/ CloseChange(b) \/ Logout(b)
        \/ \E pass \in Hash : SubmitLogin(b, pass) \/ SubmitChange(b, pass)

RelayNext ==
    \/ \E r \in Req :
        \/ Arrive(r) \/ GatePasses(r) \/ GateFails(r) \/ HashDone(r) \/ DiesAfterRename(r)
        \/ Deliver(r) \/ Fails(r) \/ Forgotten(r)
    \/ \E pass \in Hash : Elsewhere(pass)
    \/ Restart

Next == BrowserNext \/ RelayNext \/ Tick

Spec == Init /\ [][Next]_vars

\* Node runs the handlers and its 8 s timer, the hash completes, an answer
\* arrives or its connection is reset.  Nothing of Turnstile's service.
Proceeds(r) ==
    Arrive(r) \/ GateFails(r) \/ HashDone(r) \/ Deliver(r) \/ Fails(r) \/ Forgotten(r)
Fairness == \A r \in Req : WF_vars(Proceeds(r))

FairSpec == Spec /\ Fairness

-----------------------------------------------------------------------------
\* What a request carries: to the relay, to the check, to the hash, and back.
Sent == [cookie : Cookie \union {None}, pass : Hash \union {None}, fresh : BOOLEAN]
Gated == [pass : Hash \union {None}, fresh : BOOLEAN]
Hashing == [pass : Hash \union {None}, checked : Hash]
Answer == [ok : BOOLEAN, made : Hash \union {None},
           sets : {NoCookie, Clearing} \union {<<c>> : c \in Cookie}]
Request == [at : {"free", "sent", "gate", "hash", "answered", "lost"},
            who : Browser \union {None}, shown : BOOLEAN,
            kind : {"me", "login", "change", "logout", None},
            has : Sent \union Gated \union Hashing \union Answer \union {None}]

RequestsOK ==
    /\ reqs \in [Req -> Request]
    /\ \A r \in Req :
          /\ reqs[r].at = "sent" => reqs[r].has \in Sent
          /\ reqs[r].at = "gate" => reqs[r].has \in Gated
          /\ reqs[r].at = "hash" => reqs[r].has \in Hashing
          /\ reqs[r].at = "answered" => reqs[r].has \in Answer

TypeOK ==
    /\ RequestsOK
    /\ loginPassHash \in Hash /\ passFile \in Hash \union {None}
    /\ hashes \in Hash /\ now \in 0..MaxClock
    /\ jar \in [Browser -> Cookie \union {None}]
    /\ page \in [Browser -> {"boot", "login", "app"}]
    /\ form \in [Browser -> [open : BOOLEAN, sent : BOOLEAN, busy : BOOLEAN, done : BOOLEAN]]
    /\ told \in [Browser -> Hash \union {None}]
    /\ faults \in 0..MaxFaults

\* The password in force is the one a restart would load: a change is in
\* memory exactly when it is in the file, wherever the write failed or the
\* process died.
InForceIsSaved == loginPassHash = Loaded(passFile)

\* A cookie that is good stops being good by its own time or by a change of the
\* password, and by nothing else: no restart signs anybody out.
SessionSticks ==
    [][\A b \in Browser :
         /\ verifySession(jar[b]) /\ ~verifySession(jar[b])'
         /\ jar'[b] = jar[b] /\ now' = now
         => hashes' > hashes]_vars

\* Who changed the password stays signed in: while the newest change a browser
\* was told of is in force, its cookie is bound to it, whatever answers come.
ChangerStays ==
    \A b \in Browser :
        told[b] = loginPassHash => jar[b] # None /\ jar[b].k = loginPassHash

\* A token is brought to the check once only: whoever solved the widget and
\* knows the password is not turned away for a used token.
FreshToken == \A r \in Req : reqs[r].at = "gate" => reqs[r].has.fresh

\* A form that was submitted does not stay busy, even when Turnstile's service
\* hangs, the relay dies or the answer is lost.
FormFreed == \A b \in Browser : form[b].busy ~> ~form[b].busy
=============================================================================
