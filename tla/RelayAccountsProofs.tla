------------------------ MODULE RelayAccountsProofs ------------------------
(***************************************************************************)
(* SessionSticks and ChangerStays for any number of browsers, requests,    *)
(* passwords and faults.                                                   *)
(*                                                                         *)
(* Sessions stick because the password in memory is at every step the      *)
(* newest hash made and the one PASS_FILE would give a restart             *)
(* (HashesAgree): memory, file and cookies never part.                     *)
(*                                                                         *)
(* The browser that changed the password last stays signed in because no   *)
(* answer with an older cookie is on its way to it (NoStaleAnswer).  That  *)
(* takes OneForm: a page has at most one login or change under way         *)
(* (OneAtATime), so when the change is answered the only other answers it  *)
(* waits for sign it out.                                                  *)
(***************************************************************************)
EXTENDS RelayAccounts, TLAPS

\* Memory, PASS_FILE and the count of hashes say the same.
HashesAgree == loginPassHash = hashes /\ InForceIsSaved

SetsCookie(r) == reqs[r].at = "answered" /\ reqs[r].has.sets \notin {NoCookie, Clearing}

\* Nobody is told of a hash that was not made; the answer to a change carries
\* a cookie bound to the hash it made, the answer to a logout carries none.
AnswersTrue ==
    /\ \A b \in Browser : told[b] # None => told[b] <= hashes
    /\ \A r \in Req : reqs[r].at = "answered" =>
          /\ reqs[r].has.made # None =>
                (/\ reqs[r].kind = "change" /\ reqs[r].has.made <= hashes
                 /\ SetsCookie(r) /\ reqs[r].has.sets[1].k = reqs[r].has.made)
          /\ reqs[r].kind = "logout" => ~SetsCookie(r)

\* The requests a page waits for, by what it shows.
OneFor(b) ==
    /\ page[b] = "boot" => \A r, s \in Mine(b) : r = s /\ reqs[r].kind = "me"
    /\ page[b] = "login" =>
          \A r, s \in Mine(b) : r = s /\ reqs[r].kind = "login" /\ form[b].busy
    /\ page[b] = "app" =>
          /\ \A r \in Mine(b) : reqs[r].kind \in {"change", "logout"}
          /\ \A r, s \in Mine(b) : (reqs[r].kind = "change" /\ reqs[s].kind = "change") =>
                (r = s /\ (form[b].open => form[b].busy))
OneAtATime == \A b \in Browser : OneFor(b)

\* No older cookie is on its way to a browser that knows of the newest change.
NoneStaleFor(b) ==
    told[b] = hashes =>
        /\ jar[b] # None /\ jar[b].k = hashes
        /\ \A r \in Mine(b) : SetsCookie(r) => reqs[r].has.sets[1].k = hashes
NoStaleAnswer == \A b \in Browser : NoneStaleFor(b)

AccountsInv == TypeOK /\ HashesAgree /\ AnswersTrue /\ OneAtATime /\ NoStaleAnswer

-----------------------------------------------------------------------------
(* SessionSticks needs HashesAgree only.                                    *)

SavedInv == hashes \in Nat /\ HashesAgree

LEMMA InitSaved == Init => SavedInv
BY AccountsAssumption DEF Init, SavedInv, HashesAgree, InForceIsSaved, Loaded, Env

\* The relay's hash changes with the count of hashes, or not at all.
LEMMA HashSteps ==
    ASSUME SavedInv, Next
    PROVE  \/ UNCHANGED <<loginPassHash, passFile, hashes>>
           \/ loginPassHash' = hashes + 1 /\ passFile' = hashes + 1 /\ hashes' = hashes + 1
<1> USE DEF SavedInv, HashesAgree, InForceIsSaved, Loaded
<1>1. CASE BrowserNext
  BY <1>1 DEF BrowserNext, Boot, OpenChange, CloseChange, Logout, SubmitLogin, SubmitChange, Submit, relayVars
<1>2. CASE Tick
  BY <1>2 DEF Tick, relayVars
<1>3. CASE Restart
  BY <1>3 DEF Restart, Restarts
<1>4. CASE \E pass \in Hash : Elsewhere(pass)
  BY <1>4 DEF Elsewhere, relayVars
<1>5. ASSUME NEW r \in Req,
             Arrive(r) \/ GatePasses(r) \/ GateFails(r) \/ WrongPassword(r) \/ SignsIn(r)
               \/ Deliver(r) \/ Fails(r) \/ Forgotten(r)
      PROVE  UNCHANGED <<loginPassHash, passFile, hashes>>
  BY <1>5 DEF Arrive, GatePasses, GateFails, WrongPassword, SignsIn, Deliver, Fails, Forgotten, relayVars
<1>6. ASSUME NEW r \in Req, Changes(r)
      PROVE  \/ UNCHANGED <<loginPassHash, passFile, hashes>>
             \/ loginPassHash' = hashes + 1 /\ passFile' = hashes + 1 /\ hashes' = hashes + 1
  BY <1>6 DEF Changes, InMemory
<1>7. ASSUME NEW r \in Req, DiesAfterRename(r)
      PROVE  loginPassHash' = hashes + 1 /\ passFile' = hashes + 1 /\ hashes' = hashes + 1
  <2>1. hashes + 1 # None
    BY AccountsAssumption
  <2> QED
    BY <1>7, <2>1 DEF DiesAfterRename, Restarts
<1> QED
  BY <1>1, <1>2, <1>3, <1>4, <1>5, <1>6, <1>7 DEF Next, RelayNext, HashDone

LEMMA StepSaved == SavedInv /\ [Next]_vars => SavedInv'
<1> SUFFICES ASSUME SavedInv, [Next]_vars PROVE SavedInv'
  OBVIOUS
<1>1. \/ UNCHANGED <<loginPassHash, passFile, hashes>>
      \/ loginPassHash' = hashes + 1 /\ passFile' = hashes + 1 /\ hashes' = hashes + 1
  BY HashSteps DEF vars, relayVars
<1> QED
  BY <1>1, AccountsAssumption DEF SavedInv, HashesAgree, InForceIsSaved, Loaded

\* The step that makes a cookie bad without time passing made a hash.
SticksStep ==
    \A b \in Browser :
        /\ verifySession(jar[b]) /\ ~verifySession(jar[b])'
        /\ jar'[b] = jar[b] /\ now' = now
        => hashes' > hashes

\* No restart and no failed write signs anybody out: the password a restart
\* loads is the one in force (server.js:88-99, 499-508), and a cookie is good
\* for the hash it is bound to (166-203).
THEOREM SessionsStick == Spec => SessionSticks
<1>1. SavedInv /\ [Next]_vars => [SticksStep]_vars
  <2> SUFFICES ASSUME SavedInv, Next, NEW b \in Browser,
                      verifySession(jar[b]), ~verifySession(jar[b])', jar'[b] = jar[b], now' = now
               PROVE  hashes' > hashes
    BY DEF SticksStep
  <2>1. loginPassHash' # loginPassHash
    BY DEF verifySession
  <2> QED
    BY <2>1, HashSteps DEF SavedInv
<1> QED
  BY <1>1, InitSaved, StepSaved, PTL DEF Spec, SessionSticks, SticksStep

-----------------------------------------------------------------------------
(* ChangerStays: what the helpers do to the requests.                       *)

\* Requests that keep their page and their kind.
Kept(rs) == \A x \in Req : rs[x].who = reqs[x].who /\ rs[x].kind = reqs[x].kind

LEMMA GoesOn ==
    ASSUME RequestsOK, NEW r \in Req, NEW at, NEW has, Goes(r, at, has),
           \/ at = "gate" /\ has \in Gated
           \/ at = "hash" /\ has \in Hashing
           \/ at = "answered" /\ has \in Answer
    PROVE  /\ RequestsOK' /\ Kept(reqs') /\ \A x \in Req \ {r} : reqs'[x] = reqs[x]
           /\ reqs'[r].at = at /\ reqs'[r].has = has
<1>1. reqs'[r] = [reqs[r] EXCEPT !.at = at, !.has = has] /\ reqs' \in [Req -> Request]
  <2>1. reqs' = [reqs EXCEPT ![r] = [reqs[r] EXCEPT !.at = at, !.has = has]]
    BY DEF Goes
  <2>2. [reqs[r] EXCEPT !.at = at, !.has = has] \in Request
    BY DEF RequestsOK, Request
  <2> QED
    BY <2>1, <2>2 DEF RequestsOK
<1>2. \A x \in Req \ {r} : reqs'[x] = reqs[x]
  BY DEF RequestsOK, Goes
<1>3. reqs[r] \in Request
  BY DEF RequestsOK
<1>4. /\ reqs'[r].at = at /\ reqs'[r].has = has
      /\ reqs'[r].who = reqs[r].who /\ reqs'[r].kind = reqs[r].kind
  BY <1>1, <1>3 DEF Request
<1> QED
  BY <1>1, <1>2, <1>4 DEF RequestsOK, Kept

LEMMA EntersAs ==
    ASSUME RequestsOK, NEW q \in Request, Enters(q),
           q.at = "sent" => q.has \in Sent, q.at = "gate" => q.has \in Gated,
           q.at \in {"sent", "gate"}
    PROVE  \E r \in Req : /\ RequestsOK' /\ reqs[r] = Free /\ reqs'[r] = q
                          /\ \A x \in Req \ {r} : reqs'[x] = reqs[x]
<1>1. PICK r \in Req : reqs[r] = Free /\ reqs' = [reqs EXCEPT ![r] = q]
  BY DEF Enters
<1> QED
  BY <1>1 DEF RequestsOK

\* A page whose requests stay, or are fewer, and that stays as it is.
LEMMA QuietPage ==
    ASSUME NEW b \in Browser, OneFor(b), page'[b] = page[b], form'[b] = form[b],
           \A x \in Req : reqs'[x].who = b => reqs[x].who = b /\ reqs'[x].kind = reqs[x].kind
    PROVE  OneFor(b)'
<1>1. Mine(b)' \subseteq Mine(b) /\ \A x \in Mine(b)' : reqs'[x].kind = reqs[x].kind
  BY DEF Mine
<1> QED
  BY <1>1 DEF OneFor

\* A page that waits for nothing new, of an unchanged count of hashes.
LEMMA QuietAnswers ==
    ASSUME NEW b \in Browser, NoneStaleFor(b), hashes' = hashes, jar'[b] = jar[b], told'[b] = told[b],
           \A x \in Req : reqs'[x].who = b /\ SetsCookie(x)' =>
              (reqs[x].who = b /\ SetsCookie(x) /\ reqs'[x].has = reqs[x].has)
    PROVE  NoneStaleFor(b)'
BY DEF NoneStaleFor, Mine

\* A step of the relay that answers nothing but "no", or signs a login in.
LEMMA RelayStep ==
    ASSUME AccountsInv, NEW r \in Req, NEW at, NEW has, Goes(r, at, has),
           \/ at = "gate" /\ has \in Gated
           \/ at = "hash" /\ has \in Hashing
           \/ /\ at = "answered" /\ has \in Answer /\ has.made = None
              /\ \/ has.sets \in {NoCookie, Clearing}
                 \/ reqs[r].kind = "login" /\ has.sets[1].k = hashes,
           UNCHANGED <<relayVars, now, browserVars, faults>>
    PROVE  AccountsInv'
<1> USE DEF AccountsInv
<1>1. /\ RequestsOK' /\ Kept(reqs') /\ \A x \in Req \ {r} : reqs'[x] = reqs[x]
      /\ reqs'[r].at = at /\ reqs'[r].has = has
  BY GoesOn DEF TypeOK
<1>2. TypeOK' /\ HashesAgree'
  BY <1>1 DEF TypeOK, HashesAgree, InForceIsSaved, relayVars, browserVars
<1>3. AnswersTrue'
  <2>1. \A b \in Browser : told'[b] # None => told'[b] <= hashes'
    BY DEF AnswersTrue, relayVars, browserVars
  <2>2. ASSUME NEW x \in Req \ {r}, reqs'[x].at = "answered"
        PROVE  /\ reqs'[x].has.made # None =>
                    (/\ reqs'[x].kind = "change" /\ reqs'[x].has.made <= hashes'
                     /\ SetsCookie(x)' /\ reqs'[x].has.sets[1].k = reqs'[x].has.made)
               /\ reqs'[x].kind = "logout" => ~SetsCookie(x)'
    BY <1>1, <2>2 DEF AnswersTrue, SetsCookie, relayVars
  <2>3. reqs'[r].at = "answered" =>
           reqs'[r].has.made = None /\ (reqs'[r].kind = "logout" => ~SetsCookie(r)')
    BY <1>1 DEF SetsCookie, Kept
  <2> QED
    BY <2>1, <2>2, <2>3 DEF AnswersTrue
<1>4. OneAtATime'
  BY <1>1, QuietPage DEF OneAtATime, Kept, browserVars
<1>5. NoStaleAnswer'
  <2> SUFFICES ASSUME NEW b \in Browser, told'[b] = hashes' PROVE NoneStaleFor(b)'
    BY DEF NoStaleAnswer, NoneStaleFor
  <2>1. NoneStaleFor(b) /\ told[b] = hashes
    BY DEF NoStaleAnswer, relayVars, browserVars
  <2>2. ASSUME NEW x \in Req, reqs'[x].who = b, SetsCookie(x)' PROVE reqs'[x].has.sets[1].k = hashes
    <3>1. CASE x = r
      BY <1>1, <2>2, <3>1 DEF SetsCookie
    <3>2. CASE x # r
      BY <1>1, <2>1, <2>2, <3>2 DEF NoneStaleFor, SetsCookie, Mine
    <3> QED
      BY <3>1, <3>2
  <2> QED
    BY <2>1, <2>2 DEF NoneStaleFor, Mine, relayVars, browserVars
<1> QED
  BY <1>2, <1>3, <1>4, <1>5

-----------------------------------------------------------------------------
(* The relay's handlers.                                                    *)

LEMMA CookieOfType ==
    AccountsInv => \A k \in Hash : [k |-> k, exp |-> now + SESSION_TTL] \in Cookie
BY AccountsAssumption DEF AccountsInv, TypeOK, Cookie

LEMMA HandlersKeep ==
    ASSUME AccountsInv, NEW r \in Req,
           Arrive(r) \/ GatePasses(r) \/ GateFails(r) \/ WrongPassword(r) \/ SignsIn(r)
    PROVE  AccountsInv'
<1> USE DEF AccountsInv
<1>1. UNCHANGED <<relayVars, now, browserVars, faults>>
  BY DEF Arrive, GatePasses, GateFails, WrongPassword, SignsIn
<1>2. ASSUME NEW ok \in BOOLEAN, NEW sets \in {NoCookie, Clearing}, Answered(r, ok, sets)
      PROVE  AccountsInv'
  <2> DEFINE has == [ok |-> ok, made |-> None, sets |-> sets]
  <2>1. has \in Answer /\ has.made = None /\ has.sets = sets
    BY DEF Answer
  <2> HIDE DEF has
  <2>2. Goes(r, "answered", has)
    BY <1>2 DEF Answered, has
  <2> QED
    BY <1>1, <2>1, <2>2, RelayStep
<1>3. CASE Arrive(r)
  <2>1. reqs[r].has \in Sent
    BY <1>3 DEF Arrive, TypeOK, RequestsOK
  <2>2. verifySession(reqs[r].has.cookie) \in BOOLEAN
    BY DEF verifySession
  <2>3. ASSUME Goes(r, "gate", [pass |-> reqs[r].has.pass, fresh |-> reqs[r].has.fresh])
        PROVE  AccountsInv'
    <3>1. [pass |-> reqs[r].has.pass, fresh |-> reqs[r].has.fresh] \in Gated
      BY <2>1 DEF Sent, Gated
    <3> QED
      BY <1>1, <2>3, <3>1, RelayStep
  <2>4. \/ Answered(r, verifySession(reqs[r].has.cookie), NoCookie) \/ Answered(r, TRUE, Clearing)
        \/ Answered(r, FALSE, NoCookie)
        \/ Goes(r, "gate", [pass |-> reqs[r].has.pass, fresh |-> reqs[r].has.fresh])
    BY <1>3 DEF Arrive, Refused
  <2> QED
    BY <1>2, <2>2, <2>3, <2>4
<1>4. CASE GatePasses(r)
  <2>1. reqs[r].has \in Gated /\ loginPassHash \in Hash
    BY <1>4 DEF GatePasses, TypeOK, RequestsOK
  <2>2. [pass |-> reqs[r].has.pass, checked |-> loginPassHash] \in Hashing
    BY <2>1 DEF Gated, Hashing
  <2> QED
    BY <1>1, <1>4, <2>2, RelayStep DEF GatePasses
<1>5. CASE GateFails(r) \/ WrongPassword(r)
  BY <1>2, <1>5 DEF GateFails, WrongPassword, Refused
<1>6. CASE SignsIn(r)
  <2> DEFINE c == signSession(loginPassHash, reqs[r].has.checked)
             has == [ok |-> TRUE, made |-> None, sets |-> <<c>>]
  <2>1. c \in Cookie /\ c.k = hashes
    BY CookieOfType DEF TypeOK, HashesAgree, signSession
  <2>2. has \in Answer /\ has.made = None /\ has.sets[1].k = hashes
    BY <2>1 DEF Answer
  <2>3. Goes(r, "answered", has) /\ reqs[r].kind = "login"
    BY <1>6 DEF SignsIn, Answered
  <2> HIDE DEF has
  <2> QED
    BY <1>1, <2>2, <2>3, RelayStep
<1> QED
  BY <1>3, <1>4, <1>5, <1>6

LEMMA ChangesKeeps ==
    ASSUME AccountsInv, NEW r \in Req, Changes(r)
    PROVE  AccountsInv'
<1> USE DEF AccountsInv
<1> DEFINE c == signSession(hashes + 1, reqs[r].has.checked)
           has == [ok |-> TRUE, made |-> hashes + 1, sets |-> <<c>>]
           no == [ok |-> FALSE, made |-> None, sets |-> NoCookie]
<1>1. CASE /\ hashes < MaxHash /\ Goes(r, "answered", has) /\ reqs[r].kind = "change"
           /\ loginPassHash' = hashes + 1 /\ passFile' = hashes + 1 /\ hashes' = hashes + 1
           /\ UNCHANGED <<now, browserVars, faults>>
  <2>1. hashes + 1 \in Hash /\ hashes \in Int /\ hashes + 1 # None
    BY <1>1, AccountsAssumption DEF TypeOK, Hash
  <2>2. c \in Cookie /\ c.k = hashes + 1
    BY <2>1, CookieOfType DEF signSession
  <2>3. has \in Answer /\ has.made = hashes + 1 /\ has.sets = <<c>> /\ has.sets \notin {NoCookie, Clearing}
    <3>1. c # None
      BY <2>2, AccountsAssumption
    <3> QED
      BY <2>1, <2>2, <3>1 DEF Answer, NoCookie, Clearing
  <2> HIDE DEF has, c
  <2>4. /\ RequestsOK' /\ Kept(reqs') /\ \A x \in Req \ {r} : reqs'[x] = reqs[x]
        /\ reqs'[r].at = "answered" /\ reqs'[r].has = has
    BY <1>1, <2>3, GoesOn DEF TypeOK
  <2>5. TypeOK' /\ HashesAgree'
    BY <1>1, <2>1, <2>4 DEF TypeOK, HashesAgree, InForceIsSaved, Loaded, browserVars
  <2>6. \A b \in Browser : told'[b] # None => told'[b] <= hashes
    BY <1>1 DEF AnswersTrue, browserVars
  <2>7. AnswersTrue'
    <3>1. ASSUME NEW x \in Req \ {r}, reqs'[x].at = "answered"
          PROVE  /\ reqs'[x].has.made # None =>
                      (/\ reqs'[x].kind = "change" /\ reqs'[x].has.made <= hashes
                       /\ SetsCookie(x)' /\ reqs'[x].has.sets[1].k = reqs'[x].has.made)
                 /\ reqs'[x].kind = "logout" => ~SetsCookie(x)'
      BY <2>4, <3>1 DEF AnswersTrue, SetsCookie
    <3>2. reqs'[r].kind = "change" /\ SetsCookie(r)' /\ reqs'[r].has.sets[1].k = hashes + 1
          /\ reqs'[r].has.made = hashes + 1
      <4>1. reqs'[r].kind = "change" /\ SetsCookie(r)' /\ reqs'[r].has.made = hashes + 1
        BY <1>1, <2>3, <2>4 DEF SetsCookie, Kept
      <4>2. reqs'[r].has.sets[1] = c
        BY <2>3, <2>4
      <4> QED
        BY <2>2, <4>1, <4>2
    <3>3. \A x \in Req \ {r} : (reqs'[x].at = "answered" /\ reqs'[x].has.made # None) =>
             reqs'[x].has.made <= hashes + 1
      <4> SUFFICES ASSUME NEW x \in Req \ {r}, reqs'[x].at = "answered", reqs'[x].has.made # None
                   PROVE  reqs'[x].has.made <= hashes + 1
        OBVIOUS
      <4>1. reqs'[x].has.made \in Int
        BY <2>4 DEF RequestsOK, Answer, Hash
      <4> QED
        BY <2>1, <3>1, <4>1
    <3>4. \A b \in Browser : told'[b] # None => told'[b] <= hashes + 1
      BY <2>1, <2>5, <2>6 DEF TypeOK, Hash
    <3> QED
      BY <1>1, <2>1, <3>1, <3>2, <3>3, <3>4 DEF AnswersTrue
  <2>8. OneAtATime'
    BY <1>1, <2>4, QuietPage DEF OneAtATime, Kept, browserVars
  <2>9. NoStaleAnswer'
    <3>1. \A b \in Browser : told'[b] # hashes'
      BY <1>1, <2>1, <2>6 DEF TypeOK, Hash
    <3> QED
      BY <3>1 DEF NoStaleAnswer, NoneStaleFor
  <2> QED
    BY <2>5, <2>7, <2>8, <2>9
<1>2. CASE Goes(r, "answered", no) /\ UNCHANGED <<relayVars, now, browserVars, faults>>
  <2>1. no \in Answer /\ no.made = None /\ no.sets = NoCookie
    BY DEF Answer
  <2> HIDE DEF no
  <2> QED
    BY <1>2, <2>1, RelayStep
<1>3. PICK saved \in IF hashes < MaxHash THEN BOOLEAN ELSE {FALSE} :
        /\ loginPassHash' = InMemory(hashes + 1, saved)
        /\ IF saved
           THEN passFile' = hashes + 1 /\ hashes' = hashes + 1 /\ Goes(r, "answered", has)
           ELSE UNCHANGED <<passFile, hashes>> /\ Goes(r, "answered", no)
  BY DEF Changes, Refused, Answered
<1> QED
  BY <1>1, <1>2, <1>3 DEF Changes, InMemory, relayVars

LEMMA RestartsKeep ==
    ASSUME AccountsInv, Restart \/ \E r \in Req : DiesAfterRename(r)
    PROVE  AccountsInv'
<1> USE DEF AccountsInv
<1>1. /\ reqs' = Broken /\ UNCHANGED <<now, browserVars>> /\ faults' \in 0..MaxFaults
      /\ hashes' = hashes \/ (hashes < MaxHash /\ hashes' = hashes + 1)
      /\ loginPassHash' = hashes' /\ (passFile' = hashes' \/ (passFile' = passFile /\ hashes' = hashes))
  <2>0. faults < MaxFaults /\ faults' = faults + 1 => faults' \in 0..MaxFaults
    BY AccountsAssumption DEF TypeOK
  <2>1. CASE Restart
    BY <2>0, <2>1 DEF Restart, Restarts, HashesAgree, InForceIsSaved
  <2>2. CASE \E r \in Req : DiesAfterRename(r)
    <3> PICK r \in Req : DiesAfterRename(r)
      BY <2>2
    <3>1. hashes + 1 # None
      BY AccountsAssumption DEF TypeOK, Hash
    <3> QED
      BY <2>0, <3>1 DEF DiesAfterRename, Restarts, Loaded
  <2> QED
    BY <2>1, <2>2
<1>2. \A x \in Req : /\ reqs'[x] = reqs[x] \/ reqs'[x] = [reqs[x] EXCEPT !.at = "lost"]
                     /\ reqs'[x] \in Request
                     /\ reqs'[x].who = reqs[x].who /\ reqs'[x].kind = reqs[x].kind
                     /\ reqs'[x].has = reqs[x].has
                     /\ reqs'[x].at = reqs[x].at \/ reqs'[x].at = "lost"
  <2> SUFFICES ASSUME NEW x \in Req
               PROVE  /\ reqs'[x] = reqs[x] \/ reqs'[x] = [reqs[x] EXCEPT !.at = "lost"]
                      /\ reqs'[x] \in Request
                      /\ reqs'[x].who = reqs[x].who /\ reqs'[x].kind = reqs[x].kind
                      /\ reqs'[x].has = reqs[x].has
                      /\ reqs'[x].at = reqs[x].at \/ reqs'[x].at = "lost"
    OBVIOUS
  <2>1. reqs'[x] = reqs[x] \/ reqs'[x] = [reqs[x] EXCEPT !.at = "lost"]
    BY <1>1 DEF Broken
  <2>2. reqs[x] \in Request
    BY DEF TypeOK, RequestsOK
  <2> QED
    BY <2>1, <2>2 DEF Request
<1>3. RequestsOK'
  <2>1. reqs' \in [Req -> Request]
    BY <1>1, <1>2 DEF Broken
  <2> QED
    BY <1>2, <2>1 DEF TypeOK, RequestsOK
<1>4. TypeOK' /\ HashesAgree'
  BY <1>1, <1>3, AccountsAssumption DEF TypeOK, HashesAgree, InForceIsSaved, Loaded, Hash, browserVars
<1>5. AnswersTrue'
  <2>1. \A n \in Int : n <= hashes => n <= hashes'
    BY <1>1 DEF TypeOK, Hash
  <2>2. \A b \in Browser : told'[b] # None => told'[b] <= hashes'
    BY <1>1, <2>1 DEF AnswersTrue, TypeOK, Hash, browserVars
  <2>3. ASSUME NEW x \in Req, reqs'[x].at = "answered"
        PROVE  /\ reqs'[x].has.made # None =>
                    (/\ reqs'[x].kind = "change" /\ reqs'[x].has.made <= hashes'
                     /\ SetsCookie(x)' /\ reqs'[x].has.sets[1].k = reqs'[x].has.made)
               /\ reqs'[x].kind = "logout" => ~SetsCookie(x)'
    <3>1. reqs[x].at = "answered" /\ reqs[x].has \in Answer
      BY <1>2, <2>3 DEF TypeOK, RequestsOK
    <3>2. reqs[x].has.made # None => reqs[x].has.made \in Int
      BY <3>1 DEF Answer, Hash
    <3>3. reqs'[x].has = reqs[x].has /\ reqs'[x].kind = reqs[x].kind /\ (SetsCookie(x)' <=> SetsCookie(x))
      BY <1>2, <2>3, <3>1 DEF SetsCookie
    <3> QED
      BY <2>1, <3>1, <3>2, <3>3 DEF AnswersTrue
  <2> QED
    BY <2>2, <2>3 DEF AnswersTrue
<1>6. OneAtATime'
  BY <1>1, <1>2, QuietPage DEF OneAtATime, browserVars
<1>7. NoStaleAnswer'
  <2>1. CASE hashes' = hashes
    BY <1>1, <1>2, <2>1, QuietAnswers DEF NoStaleAnswer, SetsCookie, browserVars
  <2>2. CASE hashes' = hashes + 1
    <3>1. \A b \in Browser : told'[b] # hashes'
      BY <1>1, <2>2, AccountsAssumption DEF AnswersTrue, TypeOK, Hash, browserVars
    <3> QED
      BY <3>1 DEF NoStaleAnswer, NoneStaleFor
  <2> QED
    BY <1>1, <2>1, <2>2
<1> QED
  BY <1>4, <1>5, <1>6, <1>7

-----------------------------------------------------------------------------
(* The browser's steps.                                                     *)

LEMMA FetchesKeep ==
    ASSUME AccountsInv, NEW q \in Request, Enters(q),
           \/ q.at = "sent" /\ q.has \in Sent
           \/ q.at = "gate" /\ q.has \in Gated /\ q.who = None,
           UNCHANGED <<relayVars, now, jar, page, told, faults>>,
           form' \in [Browser -> [open : BOOLEAN, sent : BOOLEAN, busy : BOOLEAN, done : BOOLEAN]],
           \A b \in Browser : q.who # b => form'[b] = form[b],
           \A b \in Browser : q.who = b =>
              /\ page[b] = "boot" => q.kind = "me" /\ Mine(b) = {}
              /\ page[b] = "login" => q.kind = "login" /\ Mine(b) = {} /\ form'[b].busy
              /\ page[b] = "app" =>
                    \/ q.kind = "logout" /\ form'[b] = form[b]
                    \/ /\ q.kind = "change" /\ form'[b].busy
                       /\ \A x \in Mine(b) : reqs[x].kind # "change"
    PROVE  AccountsInv'
<1> USE DEF AccountsInv
<1>1. PICK r \in Req : /\ RequestsOK' /\ reqs[r] = Free /\ reqs'[r] = q
                       /\ \A x \in Req \ {r} : reqs'[x] = reqs[x]
  BY EntersAs DEF TypeOK
<1>2. TypeOK' /\ HashesAgree'
  BY <1>1 DEF TypeOK, HashesAgree, InForceIsSaved, relayVars
<1>3. \A x \in Req : SetsCookie(x)' \/ reqs'[x].at = "answered" => x # r
  BY <1>1 DEF SetsCookie
<1>4. AnswersTrue'
  BY <1>1, <1>3 DEF AnswersTrue, SetsCookie, relayVars
<1>5. NoStaleAnswer'
  BY <1>1, <1>3, QuietAnswers DEF NoStaleAnswer, SetsCookie, relayVars
<1>6. OneAtATime'
  <2> SUFFICES ASSUME NEW b \in Browser PROVE OneFor(b)'
    BY DEF OneAtATime
  <2>1. OneFor(b) /\ page' = page
    BY DEF OneAtATime
  <2>2. CASE q.who # b
    BY <1>1, <2>1, <2>2, QuietPage
  <2>3. CASE q.who = b
    <3>1. Mine(b)' = Mine(b) \union {r}
      <4>1. r \notin Mine(b) /\ b # None
        BY <1>1, AccountsAssumption DEF Mine, Free
      <4> QED
        BY <1>1, <2>3, <4>1 DEF Mine
    <3>2. \A x \in Mine(b) : x # r /\ reqs'[x] = reqs[x]
      BY <1>1, AccountsAssumption DEF Mine, Free
    <3>3. CASE page[b] \in {"boot", "login"}
      BY <1>1, <2>1, <2>3, <3>1, <3>3 DEF OneFor
    <3>4. CASE page[b] = "app" /\ q.kind = "logout" /\ form'[b] = form[b]
      BY <1>1, <2>1, <3>1, <3>2, <3>4 DEF OneFor
    <3>5. CASE page[b] = "app" /\ q.kind = "change" /\ form'[b].busy
               /\ \A x \in Mine(b) : reqs[x].kind # "change"
      BY <1>1, <2>1, <3>1, <3>2, <3>5 DEF OneFor
    <3> QED
      BY <2>3, <3>3, <3>4, <3>5 DEF TypeOK
  <2> QED
    BY <2>2, <2>3
<1> QED
  BY <1>2, <1>4, <1>5, <1>6

\* What a page fetches is a request.
LEMMA FetchEnters ==
    ASSUME AccountsInv, NEW b \in Browser, NEW kind \in {"me", "login", "change", "logout"},
           NEW pass \in Hash \union {None}, NEW fresh \in BOOLEAN, Fetch(b, kind, pass, fresh)
    PROVE  \E q \in Request : /\ Enters(q) /\ q.at = "sent" /\ q.has \in Sent
                              /\ q.who = b /\ q.kind = kind
<1> DEFINE has == [cookie |-> jar[b], pass |-> pass, fresh |-> fresh]
           q == [at |-> "sent", who |-> b, shown |-> TRUE, kind |-> kind, has |-> has]
<1>1. has \in Sent
  BY DEF AccountsInv, TypeOK, Sent
<1>2. Enters(q)
  BY DEF Fetch
<1> HIDE DEF has
<1>3. q \in Request /\ q.at = "sent" /\ q.has = has /\ q.who = b /\ q.kind = kind
  BY <1>1 DEF Request
<1> QED
  BY <1>1, <1>2, <1>3

LEMMA BrowserKeeps ==
    ASSUME AccountsInv, OneForm, BrowserNext
    PROVE  AccountsInv'
<1> USE DEF AccountsInv
<1>2. ASSUME NEW b \in Browser, Boot(b) PROVE AccountsInv'
  <2>1. PICK q \in Request : Enters(q) /\ q.at = "sent" /\ q.has \in Sent /\ q.who = b /\ q.kind = "me"
    <3> DEFINE fresh == TRUE
    <3>1. Fetch(b, "me", None, fresh) /\ fresh \in BOOLEAN
          /\ "me" \in {"me", "login", "change", "logout"} /\ None \in Hash \union {None}
      BY <1>2 DEF Boot
    <3> HIDE DEF AccountsInv, fresh
    <3> QED
      BY <3>1, FetchEnters
  <2>2. page[b] = "boot" /\ Mine(b) = {} /\ UNCHANGED <<relayVars, now, jar, page, form, told, faults>>
    BY <1>2 DEF Boot, browserVars
  <2>3. form' \in [Browser -> [open : BOOLEAN, sent : BOOLEAN, busy : BOOLEAN, done : BOOLEAN]]
    BY <2>2 DEF TypeOK
  <2> QED
    BY <2>1, <2>2, <2>3, FetchesKeep
<1>3. ASSUME NEW b \in Browser, Logout(b) PROVE AccountsInv'
  <2>1. PICK q \in Request : Enters(q) /\ q.at = "sent" /\ q.has \in Sent /\ q.who = b /\ q.kind = "logout"
    <3> DEFINE fresh == TRUE
    <3>1. Fetch(b, "logout", None, fresh) /\ fresh \in BOOLEAN
          /\ "logout" \in {"me", "login", "change", "logout"} /\ None \in Hash \union {None}
      BY <1>3 DEF Logout
    <3> HIDE DEF AccountsInv, fresh
    <3> QED
      BY <3>1, FetchEnters
  <2>2. page[b] = "app" /\ UNCHANGED <<relayVars, now, jar, page, form, told, faults>>
    BY <1>3 DEF Logout, browserVars
  <2>3. form' \in [Browser -> [open : BOOLEAN, sent : BOOLEAN, busy : BOOLEAN, done : BOOLEAN]]
    BY <2>2 DEF TypeOK
  <2> QED
    BY <2>1, <2>2, <2>3, FetchesKeep
<1>4. ASSUME NEW b \in Browser, NEW pass \in Hash, SubmitLogin(b, pass) \/ SubmitChange(b, pass)
      PROVE  AccountsInv'
  <2>1. PICK kind \in {"login", "change"} :
           Submit(b, kind, pass) /\ page[b] = (IF kind = "login" THEN "login" ELSE "app")
    BY <1>4 DEF SubmitLogin, SubmitChange
  <2>2. PICK q \in Request : Enters(q) /\ q.at = "sent" /\ q.has \in Sent /\ q.who = b /\ q.kind = kind
    <3> DEFINE fresh == ~form[b].sent
    <3>1. Fetch(b, kind, pass, fresh) /\ fresh \in BOOLEAN
          /\ kind \in {"me", "login", "change", "logout"} /\ pass \in Hash \union {None}
      BY <2>1 DEF Submit
    <3> HIDE DEF AccountsInv, fresh
    <3> QED
      BY <3>1, FetchEnters
  <2>3. /\ form[b].open /\ ~form[b].busy /\ UNCHANGED <<relayVars, now, jar, page, told, faults>>
        /\ form' = [form EXCEPT ![b].busy = TRUE, ![b].sent = TRUE]
    BY <2>1 DEF Submit
  <2>4. /\ form' \in [Browser -> [open : BOOLEAN, sent : BOOLEAN, busy : BOOLEAN, done : BOOLEAN]]
        /\ form'[b].busy /\ \A c \in Browser : c # b => form'[c] = form[c]
    <3>1. form \in [Browser -> [open : BOOLEAN, sent : BOOLEAN, busy : BOOLEAN, done : BOOLEAN]]
      BY DEF TypeOK
    <3>2. form'[b] = [form[b] EXCEPT !.busy = TRUE, !.sent = TRUE]
          /\ form' = [form EXCEPT ![b] = form'[b]]
      BY <2>3, <3>1
    <3>3. form'[b] \in [open : BOOLEAN, sent : BOOLEAN, busy : BOOLEAN, done : BOOLEAN]
      BY <3>1, <3>2
    <3> HIDE DEF AccountsInv
    <3> QED
      BY <3>1, <3>2, <3>3
  <2>5. OneFor(b)
    BY DEF OneAtATime
  <2>6. CASE kind = "login"
    <3>1. Mine(b) = {} /\ page[b] = "login"
      BY <2>1, <2>3, <2>5, <2>6 DEF OneFor
    <3> QED
      BY <2>2, <2>3, <2>4, <2>6, <3>1, FetchesKeep
  <2>7. CASE kind = "change"
    <3>1. page[b] = "app" /\ \A x \in Mine(b) : reqs[x].kind # "change"
      BY <2>1, <2>3, <2>5, <2>7 DEF OneFor
    <3> QED
      BY <2>2, <2>3, <2>4, <2>7, <3>1, FetchesKeep
  <2> QED
    BY <2>1, <2>6, <2>7
<1>5. ASSUME NEW b \in Browser, OpenChange(b) PROVE AccountsInv'
  <2>1. Mine(b) = {} /\ UNCHANGED <<relayVars, now, reqs, jar, page, told, faults>>
        /\ form' = [form EXCEPT ![b] = EmptyForm]
    BY <1>5 DEF OpenChange
  <2>2. TypeOK' /\ HashesAgree' /\ AnswersTrue' /\ NoStaleAnswer'
    <3>1. form' \in [Browser -> [open : BOOLEAN, sent : BOOLEAN, busy : BOOLEAN, done : BOOLEAN]]
      BY <2>1 DEF TypeOK, EmptyForm, NoForm
    <3>2. TypeOK'
      BY <2>1, <3>1 DEF TypeOK, RequestsOK, relayVars
    <3>3. HashesAgree' /\ AnswersTrue'
      BY <2>1 DEF HashesAgree, InForceIsSaved, AnswersTrue, SetsCookie, relayVars
    <3>4. NoStaleAnswer'
      BY <2>1 DEF NoStaleAnswer, NoneStaleFor, SetsCookie, Mine, relayVars
    <3> QED
      BY <3>2, <3>3, <3>4
  <2>3. OneAtATime'
    <3> SUFFICES ASSUME NEW c \in Browser PROVE OneFor(c)'
      BY DEF OneAtATime
    <3>1. CASE c = b
      BY <2>1, <3>1 DEF OneFor, Mine
    <3>2. CASE c # b
      BY <2>1, <3>2, QuietPage DEF OneAtATime, TypeOK
    <3> QED
      BY <3>1, <3>2
  <2> QED
    BY <2>2, <2>3
<1>6. ASSUME NEW b \in Browser, CloseChange(b) PROVE AccountsInv'
  <2>1. /\ page[b] = "app" /\ UNCHANGED <<relayVars, now, jar, page, told, faults>>
        /\ form' = [form EXCEPT ![b] = NoForm]
        /\ reqs' = [r \in Req |-> IF r \in Mine(b) THEN [reqs[r] EXCEPT !.shown = FALSE] ELSE reqs[r]]
    BY <1>6 DEF CloseChange
  <2>2. \A x \in Req : /\ reqs'[x] \in Request
                       /\ reqs'[x].at = reqs[x].at /\ reqs'[x].who = reqs[x].who
                       /\ reqs'[x].kind = reqs[x].kind /\ reqs'[x].has = reqs[x].has
    <3> SUFFICES ASSUME NEW x \in Req
                 PROVE  /\ reqs'[x] \in Request
                        /\ reqs'[x].at = reqs[x].at /\ reqs'[x].who = reqs[x].who
                        /\ reqs'[x].kind = reqs[x].kind /\ reqs'[x].has = reqs[x].has
      OBVIOUS
    <3>1. reqs[x] \in Request /\ reqs'[x] \in {reqs[x], [reqs[x] EXCEPT !.shown = FALSE]}
      BY <2>1 DEF TypeOK, RequestsOK
    <3> QED
      BY <3>1 DEF Request
  <2>3. RequestsOK'
    BY <2>1, <2>2 DEF TypeOK, RequestsOK
  <2>4. TypeOK' /\ HashesAgree'
    BY <2>1, <2>3 DEF TypeOK, HashesAgree, InForceIsSaved, relayVars, NoForm
  <2>5. AnswersTrue'
    BY <2>1, <2>2 DEF AnswersTrue, SetsCookie, relayVars
  <2>6. NoStaleAnswer'
    BY <2>1, <2>2, QuietAnswers DEF NoStaleAnswer, SetsCookie, relayVars
  <2>7. OneAtATime'
    <3> SUFFICES ASSUME NEW c \in Browser PROVE OneFor(c)'
      BY DEF OneAtATime
    <3>1. Mine(c)' = Mine(c) /\ OneFor(c)
      BY <2>2 DEF OneAtATime, Mine
    <3>2. CASE c = b
      <4>1. page'[c] = "app" /\ ~form'[c].open
        BY <2>1, <3>2 DEF TypeOK, NoForm
      <4> QED
        BY <2>1, <2>2, <3>1, <3>2, <4>1 DEF OneFor, Mine
    <3>3. CASE c # b
      BY <2>1, <2>2, <3>1, <3>3, QuietPage DEF TypeOK
    <3> QED
      BY <3>2, <3>3
  <2> QED
    BY <2>4, <2>5, <2>6, <2>7
<1> QED
  BY <1>2, <1>3, <1>4, <1>5, <1>6 DEF BrowserNext

-----------------------------------------------------------------------------
(* The end of a request.                                                    *)

LEMMA WithoutKeeps ==
    ASSUME NEW rs \in [Req -> Request], NEW q
    PROVE  /\ Without(q, rs) \in [Req -> Request]
           /\ \A x \in Req : /\ Without(q, rs)[x].at = rs[x].at /\ Without(q, rs)[x].has = rs[x].has
                             /\ Without(q, rs)[x].kind = rs[x].kind
                             /\ Without(q, rs)[x].who \in {rs[x].who, None}
           /\ (q.kind = "logout" /\ q.who # None) => \A x \in Req : Without(q, rs)[x].who # q.who
<1>1. \A x \in Req : Without(q, rs)[x] = rs[x]
                     \/ (rs[x].who = q.who /\ Without(q, rs)[x] = [rs[x] EXCEPT !.who = None])
  BY DEF Without
<1>2. \A x \in Req : [rs[x] EXCEPT !.who = None] \in Request
                     /\ [rs[x] EXCEPT !.who = None].at = rs[x].at
                     /\ [rs[x] EXCEPT !.who = None].has = rs[x].has
                     /\ [rs[x] EXCEPT !.who = None].kind = rs[x].kind
                     /\ [rs[x] EXCEPT !.who = None].who = None
  BY DEF Request
<1>3. Without(q, rs) \in [Req -> Request]
  BY <1>2 DEF Without
<1>4. ASSUME q.kind = "logout", q.who # None, NEW x \in Req PROVE Without(q, rs)[x].who # q.who
  BY <1>2, <1>4 DEF Without
<1> QED
  BY <1>1, <1>2, <1>3, <1>4

\* The page that handles the end of a request waits for it no more.
LEMMA PageGoesOn ==
    ASSUME AccountsInv, NEW r \in Req, NEW b \in Browser, reqs[r].who = b,
           NEW ok \in BOOLEAN, PageHandles(b, reqs[r], ok),
           \A x \in Req : reqs'[x].who # None =>
              x # r /\ reqs'[x].who = reqs[x].who /\ reqs'[x].kind = reqs[x].kind,
           reqs[r].kind = "logout" => \A x \in Req : reqs'[x].who # b
    PROVE  /\ page' \in [Browser -> {"boot", "login", "app"}]
           /\ form' \in [Browser -> [open : BOOLEAN, sent : BOOLEAN, busy : BOOLEAN, done : BOOLEAN]]
           /\ OneAtATime'
<1> USE DEF AccountsInv
<1>1. OneFor(b) /\ page[b] \in {"boot", "login", "app"} /\ r \in Mine(b)
  BY DEF OneAtATime, TypeOK, Mine
<1>2. reqs[r].kind \in {"me", "login", "change", "logout"}
      /\ (reqs[r].kind = "change" => page[b] = "app")
      /\ (reqs[r].kind = "me" => page[b] = "boot")
      /\ (reqs[r].kind = "login" => page[b] = "login")
  BY <1>1 DEF OneFor
<1> DEFINE F == [open : BOOLEAN, sent : BOOLEAN, busy : BOOLEAN, done : BOOLEAN]
<1>3. /\ page' \in [Browser -> {"boot", "login", "app"}] /\ form' \in [Browser -> F]
      /\ \A c \in Browser : c # b => page'[c] = page[c] /\ form'[c] = form[c]
      /\ reqs[r].kind = "change" => page' = page
  <2>1. form[b] \in F /\ page \in [Browser -> {"boot", "login", "app"}] /\ form \in [Browser -> F]
    BY DEF TypeOK
  <2>2. NoForm \in F /\ EmptyForm \in F
    BY DEF NoForm, EmptyForm
  <2>3. AfterFailure(form[b]) \in F /\ [form[b] EXCEPT !.busy = FALSE, !.done = TRUE] \in F
    BY <2>1 DEF AfterFailure
  <2> HIDE DEF F
  <2>4. CASE reqs[r].kind \in {"me", "login", "logout"}
    <3>1. PICK p \in {"boot", "login", "app"}, f \in F :
             page' = [page EXCEPT ![b] = p] /\ form' = [form EXCEPT ![b] = f]
      BY <2>2, <2>3, <2>4 DEF PageHandles
    <3> QED
      BY <2>1, <2>4, <3>1
  <2>5. CASE reqs[r].kind = "change"
    <3>1. PICK f \in F : page' = page /\ form' = [form EXCEPT ![b] = f]
      BY <2>1, <2>3, <2>5 DEF PageHandles
    <3> QED
      BY <2>1, <3>1
  <2> QED
    BY <1>2, <2>4, <2>5
<1>4. Mine(b)' \subseteq Mine(b) \ {r} /\ \A x \in Mine(b)' : reqs'[x].kind = reqs[x].kind
  BY AccountsAssumption DEF Mine
<1>5. ASSUME NEW c \in Browser, c # b PROVE OneFor(c)'
  <2>1. \A x \in Req : reqs'[x].who = c => reqs[x].who = c /\ reqs'[x].kind = reqs[x].kind
    BY AccountsAssumption
  <2> QED
    BY <1>3, <1>5, <2>1, QuietPage DEF OneAtATime
<1>6. OneFor(b)'
  <2>1. CASE reqs[r].kind = "change"
    <3>1. page'[b] = "app" /\ \A x \in Mine(b)' : reqs'[x].kind = "logout"
      BY <1>1, <1>2, <1>3, <1>4, <2>1 DEF OneFor
    <3> QED
      BY <3>1 DEF OneFor
  <2>2. CASE reqs[r].kind # "change"
    <3>1. Mine(b)' = {}
      BY <1>1, <1>2, <1>4, <2>2 DEF OneFor, Mine
    <3> QED
      BY <3>1 DEF OneFor
  <2> QED
    BY <2>1, <2>2
<1> QED
  BY <1>3, <1>5, <1>6 DEF OneAtATime

LEMMA DeliverKeeps ==
    ASSUME AccountsInv, NEW r \in Req, Deliver(r)
    PROVE  AccountsInv'
<1> USE DEF AccountsInv
<1> DEFINE q == reqs[r]
<1>0. q \in Request /\ q.who \in Browser
  BY DEF Deliver, TypeOK, RequestsOK, Request
<1> PICK b \in Browser : b = q.who
  BY <1>0
<1>1. /\ q \in Request /\ b = q.who /\ q.at = "answered" /\ q.has \in Answer
      /\ UNCHANGED <<loginPassHash, passFile, hashes, now, faults>>
      /\ PageHandles(b, q, q.has.ok) /\ q.has.ok \in BOOLEAN
      /\ reqs' = Without(q, [reqs EXCEPT ![r] = Free])
  BY <1>0 DEF Deliver, TypeOK, RequestsOK, Answer, relayVars
<1>2. /\ reqs' \in [Req -> Request]
      /\ \A x \in Req \ {r} : /\ reqs'[x].at = reqs[x].at /\ reqs'[x].has = reqs[x].has
                              /\ reqs'[x].kind = reqs[x].kind /\ reqs'[x].who \in {reqs[x].who, None}
      /\ reqs'[r].at = "free" /\ reqs'[r].who = None
      /\ q.kind = "logout" => \A x \in Req : reqs'[x].who # b
  <2>1. [reqs EXCEPT ![r] = Free] \in [Req -> Request]
    BY DEF TypeOK, RequestsOK, Free, Request
  <2>2. [reqs EXCEPT ![r] = Free][r] = Free /\ \A x \in Req \ {r} : [reqs EXCEPT ![r] = Free][x] = reqs[x]
    BY DEF TypeOK, RequestsOK
  <2>3. b # None
    BY AccountsAssumption
  <2> DEFINE rs == [reqs EXCEPT ![r] = Free]
  <2>4. reqs' = Without(q, rs) /\ rs \in [Req -> Request] /\ q.who # None
    BY <1>1, <2>1, <2>3
  <2> HIDE DEF rs, q
  <2>5. /\ reqs' \in [Req -> Request]
        /\ \A x \in Req : /\ reqs'[x].at = rs[x].at /\ reqs'[x].has = rs[x].has
                          /\ reqs'[x].kind = rs[x].kind /\ reqs'[x].who \in {rs[x].who, None}
        /\ q.kind = "logout" => \A x \in Req : reqs'[x].who # b
    <3>1. /\ Without(q, rs) \in [Req -> Request]
          /\ \A x \in Req : /\ Without(q, rs)[x].at = rs[x].at /\ Without(q, rs)[x].has = rs[x].has
                            /\ Without(q, rs)[x].kind = rs[x].kind
                            /\ Without(q, rs)[x].who \in {rs[x].who, None}
          /\ (q.kind = "logout" /\ q.who # None) => \A x \in Req : Without(q, rs)[x].who # q.who
      BY <2>4, WithoutKeeps, Zenon
    <3> QED
      BY <1>1, <2>4, <3>1
  <2> QED
    BY <2>2, <2>5 DEF rs, Free
<1>3. RequestsOK'
  <2>1. reqs'[r].at = "free"
    BY <1>2
  <2>2. \A x \in Req \ {r} : reqs'[x].at = reqs[x].at /\ reqs'[x].has = reqs[x].has
    BY <1>2
  <2> QED
    BY <1>2, <2>1, <2>2 DEF TypeOK, RequestsOK
<1>4. /\ page' \in [Browser -> {"boot", "login", "app"}]
      /\ form' \in [Browser -> [open : BOOLEAN, sent : BOOLEAN, busy : BOOLEAN, done : BOOLEAN]]
      /\ OneAtATime'
  BY <1>1, <1>2, PageGoesOn
<1>5. jar' = [jar EXCEPT ![b] = IF q.has.sets = NoCookie THEN @ ELSE q.has.sets[1]]
      /\ told' = [told EXCEPT ![b] = IF q.has.sets = Clearing THEN None
                                     ELSE IF q.has.made # None /\ (@ = None \/ @ < q.has.made)
                                     THEN q.has.made ELSE @]
  BY DEF Deliver
<1>6. q.has.sets \in {NoCookie, Clearing} \/ (SetsCookie(r) /\ q.has.sets[1] \in Cookie)
  BY <1>1 DEF Answer, SetsCookie
<1>7. TypeOK'
  <2>1. q.has.sets # NoCookie => q.has.sets[1] \in Cookie \union {None}
    BY <1>6 DEF Clearing, NoCookie
  <2>2. q.has.made \in Hash \union {None}
    BY <1>1 DEF Answer
  <2>3. jar' \in [Browser -> Cookie \union {None}] /\ told' \in [Browser -> Hash \union {None}]
    BY <1>1, <1>5, <2>1, <2>2 DEF TypeOK
  <2> QED
    BY <1>1, <1>3, <1>4, <2>3 DEF TypeOK
<1>8. \A x \in Req : reqs'[x].at = "answered" =>
        (x # r /\ reqs[x].at = "answered" /\ reqs'[x].has = reqs[x].has
           /\ reqs'[x].kind = reqs[x].kind /\ (SetsCookie(x)' <=> SetsCookie(x)))
  BY <1>2 DEF SetsCookie
<1>9. AnswersTrue'
  <2>1. \A c \in Browser : told'[c] # None => told'[c] <= hashes
    BY <1>1, <1>5 DEF AnswersTrue, TypeOK
  <2> QED
    BY <1>1, <1>8, <2>1 DEF AnswersTrue
<1>10. NoStaleAnswer'
  <2>1. ASSUME NEW c \in Browser, c # b PROVE NoneStaleFor(c)'
    <3>1. jar'[c] = jar[c] /\ told'[c] = told[c] /\ hashes' = hashes
      BY <1>1, <1>5, <2>1 DEF TypeOK
    <3>2. \A x \in Req : (reqs'[x].who = c /\ SetsCookie(x)') =>
             (reqs[x].who = c /\ SetsCookie(x) /\ reqs'[x].has = reqs[x].has)
      BY <1>2, <1>8, AccountsAssumption DEF SetsCookie
    <3> QED
      BY <3>1, <3>2, QuietAnswers DEF NoStaleAnswer
  <2>2. NoneStaleFor(b)'
    <3> SUFFICES ASSUME told'[b] = hashes
                 PROVE  /\ jar'[b] # None /\ jar'[b].k = hashes
                        /\ \A x \in Mine(b)' : SetsCookie(x)' => reqs'[x].has.sets[1].k = hashes
      BY <1>1 DEF NoneStaleFor
    <3>1. hashes # None /\ q.has.sets # Clearing
      <4>1. hashes \in Int /\ hashes # None
        BY AccountsAssumption DEF TypeOK, Hash
      <4>2. told'[b] = IF q.has.sets = Clearing THEN None
                       ELSE IF q.has.made # None /\ (told[b] = None \/ told[b] < q.has.made)
                       THEN q.has.made ELSE told[b]
        <5>1. told \in [Browser -> Hash \union {None}]
          BY DEF TypeOK
        <5> HIDE DEF AccountsInv
        <5> QED
          BY <1>5, <5>1
      <4> HIDE DEF AccountsInv
      <4> QED
        BY <4>1, <4>2
    <3>2. \A x \in Mine(b)' : SetsCookie(x)' => x \in Mine(b) \ {r} /\ SetsCookie(x) /\ reqs'[x].has = reqs[x].has
      <4>1. \A x \in Req : SetsCookie(x)' => x # r /\ SetsCookie(x) /\ reqs'[x].has = reqs[x].has
        BY <1>8 DEF SetsCookie
      <4>2. \A x \in Req \ {r} : reqs'[x].who \in {reqs[x].who, None}
        BY <1>2
      <4>3. b # None
        BY AccountsAssumption
      <4> HIDE DEF AccountsInv
      <4> QED
        BY <4>1, <4>2, <4>3 DEF Mine
    <3>3. CASE told[b] = hashes
      <4>1. NoneStaleFor(b) /\ r \in Mine(b)
        BY <1>1 DEF NoStaleAnswer, Mine
      <4>2. \A x \in Mine(b) : SetsCookie(x) => reqs[x].has.sets[1].k = hashes
        BY <3>3, <4>1 DEF NoneStaleFor
      <4>3. jar'[b] # None /\ jar'[b].k = hashes
        <5>1. CASE q.has.sets = NoCookie
          BY <1>1, <1>5, <3>3, <4>1, <5>1 DEF NoneStaleFor, TypeOK
        <5>2. CASE q.has.sets # NoCookie
          <6>1. SetsCookie(r) /\ q.has.sets[1] \in Cookie /\ jar'[b] = q.has.sets[1]
            BY <1>1, <1>5, <1>6, <3>1, <5>2 DEF TypeOK
          <6> QED
            BY <4>1, <4>2, <6>1, AccountsAssumption
        <5> QED
          BY <5>1, <5>2
      <4> QED
        BY <3>2, <4>2, <4>3
    <3>4. CASE told[b] # hashes
      <4>1. q.has.made = hashes /\ q.has.made # None
        BY <1>1, <1>5, <3>1, <3>4 DEF TypeOK
      <4>2. q.kind = "change" /\ SetsCookie(r) /\ q.has.sets[1].k = hashes
        BY <1>1, <4>1 DEF AnswersTrue
      <4>3. jar'[b] = q.has.sets[1] /\ q.has.sets[1] \in Cookie
        BY <1>1, <1>5, <1>6, <4>2 DEF TypeOK, SetsCookie
      <4>4. \A x \in Mine(b) \ {r} : reqs[x].kind = "logout"
        <5>1. OneFor(b) /\ r \in Mine(b) /\ page[b] \in {"boot", "login", "app"}
          BY <1>1 DEF OneAtATime, TypeOK, Mine
        <5> QED
          BY <4>2, <5>1 DEF OneFor
      <4>5. \A x \in Mine(b) \ {r} : ~SetsCookie(x)
        BY <4>4 DEF AnswersTrue, SetsCookie, Mine
      <4> QED
        BY <3>2, <4>2, <4>3, <4>5, AccountsAssumption
    <3> QED
      BY <3>3, <3>4
  <2> QED
    BY <2>1, <2>2 DEF NoStaleAnswer
<1>11. HashesAgree'
  BY <1>1 DEF HashesAgree, InForceIsSaved
<1> QED
  BY <1>4, <1>7, <1>9, <1>10, <1>11

\* A request that is forgotten, or that nobody waits for any more.
LEMMA RequestsEnd ==
    ASSUME AccountsInv, NEW r \in Req, reqs' \in [Req -> Request],
           \A x \in Req : /\ reqs'[x].at # "free" =>
                                (reqs'[x].at = reqs[x].at /\ reqs'[x].has = reqs[x].has
                                   /\ reqs'[x].kind = reqs[x].kind)
                          /\ reqs'[x].who \in {reqs[x].who, None},
           UNCHANGED <<relayVars, now, jar, told>>
    PROVE  RequestsOK' /\ AnswersTrue' /\ NoStaleAnswer' /\ HashesAgree'
<1> USE DEF AccountsInv
<1>1. RequestsOK'
  BY DEF TypeOK, RequestsOK
<1>2. \A x \in Req : reqs'[x].at = "answered" =>
        (reqs[x].at = "answered" /\ reqs'[x].has = reqs[x].has
           /\ reqs'[x].kind = reqs[x].kind /\ (SetsCookie(x)' <=> SetsCookie(x)))
  BY DEF SetsCookie
<1>3. AnswersTrue'
  BY <1>2 DEF AnswersTrue, relayVars
<1>4. NoStaleAnswer'
  <2> SUFFICES ASSUME NEW b \in Browser PROVE NoneStaleFor(b)'
    BY DEF NoStaleAnswer
  <2>1. \A x \in Req : (reqs'[x].who = b /\ SetsCookie(x)') =>
           (reqs[x].who = b /\ SetsCookie(x) /\ reqs'[x].has = reqs[x].has)
    BY <1>2, AccountsAssumption DEF SetsCookie
  <2> QED
    BY <2>1, QuietAnswers DEF NoStaleAnswer, relayVars
<1>5. HashesAgree'
  BY DEF HashesAgree, InForceIsSaved, relayVars
<1> QED
  BY <1>1, <1>3, <1>4, <1>5

LEMMA ForgottenKeeps ==
    ASSUME AccountsInv, NEW r \in Req, Forgotten(r)
    PROVE  AccountsInv'
<1> USE DEF AccountsInv
<1>1. /\ reqs' \in [Req -> Request] /\ reqs'[r] = Free /\ \A x \in Req \ {r} : reqs'[x] = reqs[x]
      /\ UNCHANGED <<relayVars, now, browserVars, faults>>
  BY DEF Forgotten, TypeOK, RequestsOK, Free, Request
<1>2. RequestsOK' /\ AnswersTrue' /\ NoStaleAnswer' /\ HashesAgree'
  BY <1>1, RequestsEnd DEF Free, browserVars
<1>3. OneAtATime'
  <2>1. \A b \in Browser, x \in Req : reqs'[x].who = b => reqs[x].who = b /\ reqs'[x].kind = reqs[x].kind
    BY <1>1, AccountsAssumption DEF Free
  <2> QED
    BY <1>1, <2>1, QuietPage DEF OneAtATime, browserVars
<1>4. TypeOK'
  BY <1>1, <1>2 DEF TypeOK, relayVars, browserVars
<1> QED
  BY <1>2, <1>3, <1>4

LEMMA FailsKeeps ==
    ASSUME AccountsInv, NEW r \in Req, Fails(r)
    PROVE  AccountsInv'
<1> USE DEF AccountsInv
<1> DEFINE q == reqs[r]
           gone == [reqs EXCEPT ![r] = Free]
           left == [reqs EXCEPT ![r].who = None]
<1>0. q \in Request /\ q.who \in Browser /\ q.who # None
  BY DEF Fails, TypeOK, RequestsOK, Request
<1> PICK b \in Browser : b = q.who
  BY <1>0
<1>1. /\ PageHandles(b, q, FALSE) /\ UNCHANGED <<relayVars, now, jar, told>>
      /\ faults' \in 0..MaxFaults
      /\ reqs' = Without(q, gone) \/ reqs' = Without(q, left)
  <2>1. faults \in 0..MaxFaults /\ (faults < MaxFaults => faults + 1 \in 0..MaxFaults)
    BY AccountsAssumption DEF TypeOK
  <2> QED
    BY <2>1 DEF Fails
<1>2. /\ gone \in [Req -> Request] /\ gone[r] = Free /\ \A x \in Req \ {r} : gone[x] = reqs[x]
      /\ left \in [Req -> Request] /\ \A x \in Req \ {r} : left[x] = reqs[x]
      /\ left[r].who = None /\ left[r].at = q.at /\ left[r].has = q.has /\ left[r].kind = q.kind
  BY DEF TypeOK, RequestsOK, Free, Request
<1>3. ASSUME NEW rs \in {gone, left}, reqs' = Without(q, rs)
      PROVE  /\ reqs' \in [Req -> Request]
             /\ \A x \in Req : /\ reqs'[x].at = rs[x].at /\ reqs'[x].has = rs[x].has
                               /\ reqs'[x].kind = rs[x].kind
                               /\ reqs'[x].who \in {rs[x].who, None}
             /\ q.kind = "logout" => \A x \in Req : reqs'[x].who # b
  <2>1. rs \in [Req -> Request]
    BY <1>2
  <2> HIDE DEF q, gone, left
  <2>2. /\ Without(q, rs) \in [Req -> Request]
        /\ \A x \in Req : /\ Without(q, rs)[x].at = rs[x].at /\ Without(q, rs)[x].has = rs[x].has
                          /\ Without(q, rs)[x].kind = rs[x].kind
                          /\ Without(q, rs)[x].who \in {rs[x].who, None}
        /\ (q.kind = "logout" /\ q.who # None) => \A x \in Req : Without(q, rs)[x].who # q.who
    BY <2>1, WithoutKeeps, Zenon
  <2> QED
    BY <1>0, <1>3, <2>2
<1> HIDE DEF gone, left
<1>4. PICK rs \in {gone, left} : reqs' = Without(q, rs)
  BY <1>1
<1>5. /\ reqs' \in [Req -> Request]
      /\ q.kind = "logout" => \A x \in Req : reqs'[x].who # b
      /\ \A x \in Req : /\ reqs'[x].at # "free" =>
                             (reqs'[x].at = reqs[x].at /\ reqs'[x].has = reqs[x].has
                                /\ reqs'[x].kind = reqs[x].kind)
                        /\ reqs'[x].who # None =>
                             (x # r /\ reqs'[x].who = reqs[x].who /\ reqs'[x].kind = reqs[x].kind)
  BY <1>2, <1>3, <1>4 DEF Free
<1>6. RequestsOK' /\ AnswersTrue' /\ NoStaleAnswer' /\ HashesAgree'
  BY <1>1, <1>5, RequestsEnd
<1>7. /\ page' \in [Browser -> {"boot", "login", "app"}]
      /\ form' \in [Browser -> [open : BOOLEAN, sent : BOOLEAN, busy : BOOLEAN, done : BOOLEAN]]
      /\ OneAtATime'
  <2> DEFINE ok == FALSE
  <2>1. PageHandles(b, reqs[r], ok) /\ ok \in BOOLEAN
    BY <1>1
  <2> HIDE DEF ok, AccountsInv
  <2> QED
    BY <1>5, <2>1, PageGoesOn
<1>8. TypeOK'
  BY <1>1, <1>6, <1>7 DEF TypeOK, relayVars
<1> QED
  BY <1>6, <1>7, <1>8

LEMMA ElsewhereKeeps ==
    ASSUME AccountsInv, NEW pass \in Hash, Elsewhere(pass)
    PROVE  AccountsInv'
<1> USE DEF AccountsInv
<1> DEFINE has == [pass |-> pass, fresh |-> TRUE]
           q == [at |-> "gate", who |-> None, shown |-> FALSE, kind |-> "change", has |-> has]
<1>1. has \in Gated /\ Enters(q)
  BY DEF Gated, Elsewhere
<1> HIDE DEF has
<1>2. q \in Request /\ q.at = "gate" /\ q.has = has /\ q.who = None
  BY <1>1 DEF Request
<1>3. UNCHANGED <<relayVars, now, jar, page, form, told, faults>>
  BY DEF Elsewhere, browserVars
<1>4. form' \in [Browser -> [open : BOOLEAN, sent : BOOLEAN, busy : BOOLEAN, done : BOOLEAN]]
  BY <1>3 DEF TypeOK
<1>5. \A b \in Browser : q.who # b
  BY <1>2, AccountsAssumption
<1> HIDE DEF q
<1> QED
  BY <1>1, <1>2, <1>3, <1>4, <1>5, FetchesKeep

LEMMA TickKeeps ==
    ASSUME AccountsInv, Tick \/ UNCHANGED vars
    PROVE  AccountsInv'
<1> USE DEF AccountsInv
<1>1. UNCHANGED <<relayVars, reqs, browserVars, faults>> /\ now' \in 0..MaxClock
  BY AccountsAssumption DEF Tick, vars, TypeOK
<1>2. TypeOK' /\ HashesAgree' /\ AnswersTrue'
  BY <1>1 DEF TypeOK, RequestsOK, HashesAgree, InForceIsSaved, AnswersTrue, SetsCookie, relayVars, browserVars
<1>3. OneAtATime' /\ NoStaleAnswer'
  BY <1>1 DEF OneAtATime, OneFor, NoStaleAnswer, NoneStaleFor, SetsCookie, Mine, relayVars, browserVars
<1> QED
  BY <1>2, <1>3

-----------------------------------------------------------------------------
LEMMA AccountsInit == Init => AccountsInv
<1> SUFFICES ASSUME Init PROVE AccountsInv
  OBVIOUS
<1>1. reqs = [r \in Req |-> Free] /\ Free \in Request
  BY DEF Init, Free, Request
<1>2. RequestsOK
  BY <1>1 DEF RequestsOK, Free
<1>3. TypeOK
  BY <1>2, AccountsAssumption DEF Init, TypeOK, Hash, Env, NoForm
<1>4. \A b \in Browser : Mine(b) = {} /\ told[b] = None
  <2>1. \A r \in Req : reqs[r].who = None
    BY <1>1 DEF Free
  <2> QED
    BY <2>1, AccountsAssumption DEF Init, Mine
<1>5. HashesAgree /\ AnswersTrue
  BY <1>1, <1>4 DEF Init, HashesAgree, InForceIsSaved, Loaded, Env, AnswersTrue, Free
<1>6. OneAtATime /\ NoStaleAnswer
  BY <1>4, AccountsAssumption DEF Init, OneAtATime, OneFor, NoStaleAnswer, NoneStaleFor
<1> QED
  BY <1>3, <1>5, <1>6 DEF AccountsInv

LEMMA AccountsStep ==
    ASSUME OneForm, AccountsInv, [Next]_vars
    PROVE  AccountsInv'
<1>1. CASE BrowserNext
  BY <1>1, BrowserKeeps
<1>2. CASE RelayNext
  <2>1. CASE \E pass \in Hash : Elsewhere(pass)
    BY <2>1, ElsewhereKeeps
  <2>2. CASE Restart \/ \E r \in Req : DiesAfterRename(r)
    BY <2>2, RestartsKeep
  <2>3. ASSUME NEW r \in Req, Arrive(r) \/ GatePasses(r) \/ GateFails(r) \/ HashDone(r)
        PROVE  AccountsInv'
    BY <2>3, HandlersKeep, ChangesKeeps DEF HashDone
  <2>4. ASSUME NEW r \in Req, Deliver(r) \/ Fails(r) \/ Forgotten(r)
        PROVE  AccountsInv'
    BY <2>4, DeliverKeeps, FailsKeeps, ForgottenKeeps
  <2> QED
    BY <1>2, <2>1, <2>2, <2>3, <2>4 DEF RelayNext
<1>3. CASE Tick \/ UNCHANGED vars
  BY <1>3, TickKeeps
<1> QED
  BY <1>1, <1>2, <1>3 DEF Next

\* Who changed the password stays signed in on that browser, however logins,
\* logouts and changes of any number of browsers overlap, writes fail and the
\* relay restarts (server.js:426-516, useRemote.ts:701-767), if the user of a
\* page waits for an answer before the next form is opened.
THEOREM ChangersStay == OneForm => (Spec => []ChangerStays)
<1> SUFFICES ASSUME OneForm PROVE Spec => []ChangerStays
  OBVIOUS
<1>1. AccountsInv => ChangerStays
  BY DEF AccountsInv, NoStaleAnswer, NoneStaleFor, HashesAgree, ChangerStays
<1> QED
  BY <1>1, AccountsInit, AccountsStep, PTL DEF Spec
=============================================================================
