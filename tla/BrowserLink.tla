---------------------------- MODULE BrowserLink ----------------------------
(***************************************************************************)
(* One browser page and its link to the relay: useRemote's socket with its *)
(* heartbeat, reconnect and stable timers, and the relay's end of the same *)
(* socket with its isAlive flag.  A link can be cut in either direction    *)
(* without either end being told.                                          *)
(*                                                                         *)
(* Time is counted in ticks of the page's 10 s heartbeat.  A link that is  *)
(* not cut answers faster than either heartbeat's period: that is all that *)
(* is assumed of the network.                                              *)
(***************************************************************************)
EXTENDS Integers, Sequences, FiniteSets

CONSTANTS
    Sock,           \* sockets
    None,
    MaxCuts,        \* bound: links cut
    MaxDrops,       \* bound: links closed by the relay or a proxy
    MaxHosts,       \* bound: changes of the host's state
    MaxSignOuts,    \* bound: sessions expired, pages reloaded or signed out
    FirstDelay,     \* reconnectMs of a fresh page, in seconds
    LastDelay,      \* and its cap
    MaxFlaps        \* losses in a row beyond this many are not told apart

ASSUME SockAssumption == IsFiniteSet(Sock) /\ None \notin Sock
ASSUME BoundAssumption ==
    /\ MaxCuts \in Nat /\ MaxDrops \in Nat /\ MaxHosts \in Nat /\ MaxSignOuts \in Nat
ASSUME DelayAssumption ==
    FirstDelay \in Nat \ {0} /\ LastDelay \in Nat /\ FirstDelay <= LastDelay
ASSUME FlapAssumption == MaxFlaps \in Nat \ {0} /\ LastDelay <= FirstDelay * 2^(MaxFlaps - 1)

VARIABLES
    authed,         \* "checking", "in" or "out": Splash, Workspace, Login
    wsRef,          \* the page's socket
    hostOnline,     \* what the page shows of the host
    hbTimer,        \* the heartbeat interval runs
    stableTimer,    \* the 5 s timer of an open socket is pending
    reconnectTimer, \* the delay of the pending reconnect, 0 without one
    reconnectMs,    \* the next delay
    silent,         \* ticks since the open socket received a frame, up to MaxSilent
    sock,           \* the page's end of each socket
    relay,          \* the relay's end: "none", "alive", or "waiting" for the
                    \* answer to its last ping (isAlive is FALSE)
    cut,            \* the directions of the link that carry nothing any more
    down,           \* frames under way to the page, then perhaps the end
    pinged,         \* sockets with a ping under way to the host
    host,           \* "gone", "up", or "hung": listed but not answering
    cookie,         \* the relay accepts the page's session
    flaps,          \* history: connections lost since one was stable
    dozed,          \* history: the host has been hung since the page last heard a frame
    cuts, drops, hosts, signOuts

pageVars == <<authed, wsRef, hostOnline, hbTimer, stableTimer, reconnectTimer,
              reconnectMs, silent>>
linkVars == <<sock, relay, cut, down, pinged>>
history == <<flaps, dozed>>
budget == <<cuts, drops, hosts, signOuts>>
vars == <<pageVars, linkVars, host, cookie, history, budget>>

\* Silence beyond this many ticks is not told apart.
MaxSilent == 4
AtMost(a, b) == IF a <= b THEN a ELSE b
Up(s) == "up" \notin cut[s]
Down(s) == "down" \notin cut[s]
\* Both directions work.
Whole(s) == cut[s] = {}
\* The relay has its end of the socket.
Kept(s) == relay[s] # "none"
\* Both ends are gone.
Gone(s) == sock[s] = "free" /\ ~Kept(s)
\* A new socket has a new link.
Unused(s) == Gone(s) /\ Whole(s)
\* The frame a joining browser is told the host's state with.
HostFrame == IF host = "gone" THEN "offline" ELSE "online"

\* Frames to a page that is gone, or over a link that is cut, are lost.
Sent(s, frame) == IF Down(s) /\ sock[s] # "free" THEN Append(down[s], frame) ELSE down[s]
\* A frame for every browser, of which there is one.
Broadcast(frame) == [s \in Sock |-> IF Kept(s) THEN Sent(s, frame) ELSE down[s]]

-----------------------------------------------------------------------------
Init ==
    /\ authed = "checking" /\ wsRef = None /\ hostOnline = FALSE
    /\ hbTimer = FALSE /\ stableTimer = FALSE /\ reconnectTimer = 0
    /\ reconnectMs = FirstDelay /\ silent = 0
    /\ sock = [s \in Sock |-> "free"] /\ relay = [s \in Sock |-> "none"]
    /\ cut = [s \in Sock |-> {}]
    /\ down = [s \in Sock |-> <<>>] /\ pinged = {}
    /\ host \in {"gone", "up"} /\ cookie \in BOOLEAN
    /\ flaps = 0 /\ dozed = FALSE /\ cuts = 0 /\ drops = 0 /\ hosts = 0 /\ signOuts = 0

\* connect().
Connect(s) ==
    /\ Unused(s) /\ s = CHOOSE t \in Sock : Unused(t)
    /\ sock' = [sock EXCEPT ![s] = "connecting"]
    /\ wsRef' = s

\* The mount effect: /api/me, then connect.
Boot(s) ==
    /\ authed = "checking"
    /\ IF cookie
       THEN authed' = "in" /\ Connect(s)
       ELSE authed' = "out" /\ UNCHANGED <<sock, wsRef>>
    /\ UNCHANGED <<hostOnline, hbTimer, stableTimer, reconnectTimer, reconnectMs, silent,
                   relay, cut, down, pinged, host, cookie, history, budget>>

\* App shows the sign-in form to a page that is signed out, only.
ShowsLogin == authed = "out"

\* login() with the right credentials.
Login(s) ==
    /\ ShowsLogin
    /\ cookie' = TRUE /\ authed' = "in"
    /\ Connect(s)
    /\ UNCHANGED <<hostOnline, hbTimer, stableTimer, reconnectTimer, reconnectMs, silent,
                   relay, cut, down, pinged, host, history, budget>>

\* logout() reloads the page; so may the user.  The browser closes the socket.
Leave ==
    /\ authed # "checking" /\ signOuts < MaxSignOuts
    /\ signOuts' = signOuts + 1
    /\ cookie' \in {FALSE, cookie}
    /\ authed' = "checking" /\ wsRef' = None /\ hostOnline' = FALSE
    /\ hbTimer' = FALSE /\ stableTimer' = FALSE /\ reconnectTimer' = 0
    /\ reconnectMs' = FirstDelay /\ silent' = 0 /\ flaps' = 0
    /\ sock' = [s \in Sock |-> "free"]
    /\ down' = [s \in Sock |-> <<>>] /\ pinged' = {}
    /\ UNCHANGED <<relay, cut, host, dozed, cuts, drops, hosts>>

-----------------------------------------------------------------------------
\* The upgrade: the relay checks the cookie, keeps the socket and greets it
\* with the host's state.
Upgrade(s) ==
    /\ sock[s] = "connecting" /\ ~Kept(s) /\ Whole(s) /\ cookie
    /\ relay' = [relay EXCEPT ![s] = "alive"]
    /\ down' = [down EXCEPT ![s] = <<HostFrame>>]
    /\ UNCHANGED <<pageVars, sock, cut, pinged, host, cookie, history, budget>>

\* onopen: the delay stays as it is until the link has been stable.
Opens(s) ==
    /\ sock[s] = "connecting" /\ Kept(s) /\ Whole(s)
    /\ sock' = [sock EXCEPT ![s] = "open"]
    /\ silent' = 0
    /\ hbTimer' = TRUE /\ stableTimer' = TRUE
    /\ dozed' = (host = "hung")
    /\ UNCHANGED <<authed, wsRef, hostOnline, reconnectTimer, reconnectMs, relay, cut, down,
                   pinged, host, cookie, flaps, budget>>

\* Mutant of ClearedStable: onclose leaves the stable timer running.
KeptStable == stableTimer
\* onclose clears the stable timer.
ClearedStable == FALSE

\* Mutant of Rearmed: a connection lost before it was stable is given up.
RearmedIfStable == IF stableTimer THEN 0 ELSE reconnectMs
\* The delay after which onclose connects again.
Rearmed == reconnectMs

\* The delay after the next loss.
Backoff == AtMost(2 * reconnectMs, LastDelay)

\* Mutant of HostAfterClose: the page goes on showing what it last heard.
HostAsBefore == hostOnline
\* Without a link the host is shown offline.
HostAfterClose == FALSE

\* onclose: no close the relay makes carries one of the codes (1008, 4401)
\* that sign the page out, so it always reconnects.
OnClose(s) ==
    /\ sock' = [sock EXCEPT ![s] = "free"]
    /\ down' = [down EXCEPT ![s] = <<>>]
    /\ pinged' = pinged \ {s}
    /\ hbTimer' = FALSE /\ stableTimer' = ClearedStable
    /\ hostOnline' = HostAfterClose
    /\ reconnectTimer' = Rearmed
    /\ reconnectMs' = Backoff
    /\ flaps' = AtMost(flaps + 1, MaxFlaps)
    /\ silent' = 0
    /\ UNCHANGED <<authed, wsRef, dozed>>

\* The handshake fails: refused by the relay, or lost.
ConnectFails(s) ==
    /\ sock[s] = "connecting" /\ (~Whole(s) \/ (~Kept(s) /\ ~cookie))
    /\ OnClose(s)
    /\ UNCHANGED <<relay, cut, host, cookie, budget>>

StableFires ==
    /\ stableTimer
    /\ stableTimer' = FALSE
    /\ reconnectMs' = FirstDelay /\ flaps' = 0
    /\ UNCHANGED <<authed, wsRef, hostOnline, hbTimer, reconnectTimer, silent, linkVars,
                   host, cookie, dozed, budget>>

ReconnectFires(s) ==
    /\ reconnectTimer > 0
    /\ reconnectTimer' = 0
    /\ Connect(s)
    /\ UNCHANGED <<authed, hostOnline, hbTimer, stableTimer, reconnectMs, silent, relay,
                   cut, down, pinged, host, cookie, history, budget>>

-----------------------------------------------------------------------------
\* Mutant of Received: only an answer to a ping counts as a sign of life.
PongReceived(frame) == IF frame = "pong" THEN 0 ELSE silent
\* onmessage notes the time of every frame.
Received(frame) == 0

\* onmessage.
Deliver(s) ==
    /\ sock[s] \in {"open", "closing"} /\ Down(s)
    /\ down[s] # <<>> /\ Head(down[s]) # "end"
    /\ down' = [down EXCEPT ![s] = Tail(@)]
    /\ silent' = Received(Head(down[s]))
    /\ hostOnline' = CASE Head(down[s]) = "online" -> TRUE
                       [] Head(down[s]) = "offline" -> FALSE
                       [] OTHER -> hostOnline
    /\ dozed' = (host = "hung")
    /\ UNCHANGED <<authed, wsRef, hbTimer, stableTimer, reconnectTimer, reconnectMs, sock,
                   relay, cut, pinged, host, cookie, flaps, budget>>

\* The relay's close arrives, the page's own close completes or times out, or
\* TCP gives up on a link that is cut.
Closes(s) ==
    /\ \/ sock[s] \in {"open", "closing", "connecting"} /\ down[s] # <<>>
          /\ Head(down[s]) = "end"
       \/ sock[s] = "closing"
       \/ sock[s] = "open" /\ ~Whole(s)
    /\ OnClose(s)
    /\ UNCHANGED <<relay, cut, host, cookie, budget>>

\* More than 28 s of silence, when the n-th tick since the last frame comes:
\* certain at the fourth, possible at the third.
Overdue(n) == n >= 4
MaybeOverdue(n) == n >= 3

\* Mutant of AfterPing: sending counts as a sign of life.
AfterPingNow(n) == 0
\* The silence goes on when a ping is sent.
AfterPing(n) == n

\* Mutant of AfterSilence: the heartbeat arms a reconnect of its own.
SilenceRearms == reconnectMs
\* Closing a silent socket leaves the reconnect to its onclose.
AfterSilence == reconnectTimer

\* Whatever is under way on a working link arrives before the next tick.
Settled(s) == Whole(s) => down[s] = <<>> /\ s \notin pinged

\* The heartbeat: it closes a link that is silent although the host is
\* online, and pings the host otherwise.
HeartBeat(s) ==
    /\ hbTimer /\ s = wsRef /\ sock[s] = "open" /\ ~stableTimer /\ Settled(s)
    /\ LET n == AtMost(silent + 1, MaxSilent) IN
       \/ /\ hostOnline /\ MaybeOverdue(n)
          /\ sock' = [sock EXCEPT ![s] = "closing"]
          /\ silent' = n /\ reconnectTimer' = AfterSilence
          /\ UNCHANGED pinged
       \/ /\ ~(hostOnline /\ Overdue(n))
          /\ pinged' = IF Up(s) THEN pinged \union {s} ELSE pinged
          /\ silent' = AfterPing(n)
          /\ UNCHANGED <<sock, reconnectTimer>>
    /\ UNCHANGED <<authed, wsRef, hostOnline, hbTimer, stableTimer, reconnectMs, relay, cut,
                   down, host, cookie, history, budget>>

\* The relay hands the ping to the host, which answers every browser.
PingLands(s) ==
    /\ s \in pinged /\ Up(s)
    /\ pinged' = pinged \ {s}
    /\ down' = IF host = "up" THEN Broadcast("pong") ELSE down
    /\ UNCHANGED <<pageVars, sock, relay, cut, host, cookie, history, budget>>

-----------------------------------------------------------------------------
\* Mutant of Dead: the relay's heartbeat never terminates.
DeadNever(s) == FALSE
\* No answer to the relay's last ping.
Dead(s) == relay[s] = "waiting"

\* The relay's heartbeat for one socket: it terminates it, or pings it.  A
\* browser that the ping reaches answers by itself, before the next beat.
RelayBeat(s) ==
    /\ Kept(s) /\ (sock[s] # "free" => Settled(s))
    /\ IF Dead(s)
       THEN /\ relay' = [relay EXCEPT ![s] = "none"]
            /\ down' = [down EXCEPT ![s] = Sent(s, "end")]
       ELSE /\ relay' = [relay EXCEPT ![s] = IF Whole(s) /\ sock[s] # "free"
                                              THEN "alive" ELSE "waiting"]
            /\ UNCHANGED down
    /\ UNCHANGED <<pageVars, sock, cut, pinged, host, cookie, history, budget>>

\* The relay sees the page's close.
RelaySeesClose(s) ==
    /\ Kept(s) /\ sock[s] \in {"free", "closing"} /\ Up(s)
    /\ relay' = [relay EXCEPT ![s] = "none"]
    /\ down' = [down EXCEPT ![s] = Sent(s, "end")]
    /\ UNCHANGED <<pageVars, sock, cut, pinged, host, cookie, history, budget>>

\* A browser too slow, a restart of the relay, a proxy's idle time-out.
RelayDrops(s) ==
    /\ Kept(s) /\ drops < MaxDrops
    /\ drops' = drops + 1
    /\ relay' = [relay EXCEPT ![s] = "none"]
    /\ down' = [down EXCEPT ![s] = Sent(s, "end")]
    /\ UNCHANGED <<pageVars, sock, cut, pinged, host, cookie, history, cuts, hosts,
                   signOuts>>

\* A network handoff: what is under way in a direction is lost with it.
LinkCut(s, how) ==
    /\ sock[s] # "free" /\ Whole(s) /\ cuts < MaxCuts
    /\ cuts' = cuts + 1
    /\ cut' = [cut EXCEPT ![s] = how]
    /\ down' = IF "down" \in how THEN [down EXCEPT ![s] = <<>>] ELSE down
    /\ pinged' = IF "up" \in how THEN pinged \ {s} ELSE pinged
    /\ UNCHANGED <<pageVars, sock, relay, host, cookie, history, drops, hosts, signOuts>>

\* The two ends of a cut link are gone: the socket is forgotten.
Forgotten(s) ==
    /\ Gone(s) /\ ~Whole(s)
    /\ cut' = [cut EXCEPT ![s] = {}]
    /\ UNCHANGED <<pageVars, sock, relay, down, pinged, host, cookie, history, budget>>

\* The host connects, leaves, hangs or wakes up; the relay reports the first two.
HostChanges(new) ==
    /\ hosts < MaxHosts /\ hosts' = hosts + 1
    /\ host' = new /\ host' # host /\ ~(host = "gone" /\ new = "hung")
    /\ down' = IF "gone" \in {host, new}
               THEN Broadcast(IF new = "gone" THEN "offline" ELSE "online")
               ELSE down
    /\ dozed' = (dozed \/ new = "hung")
    /\ UNCHANGED <<pageVars, sock, relay, cut, pinged, cookie, flaps, cuts, drops,
                   signOuts>>

\* The session expires, or another device changed the password.
SessionEnds ==
    /\ cookie /\ signOuts < MaxSignOuts
    /\ signOuts' = signOuts + 1 /\ cookie' = FALSE
    /\ UNCHANGED <<pageVars, linkVars, host, history, cuts, drops, hosts>>

-----------------------------------------------------------------------------
PageStep(s) ==
    \/ Boot(s) \/ Login(s) \/ Opens(s) \/ ConnectFails(s) \/ ReconnectFires(s)
    \/ Deliver(s) \/ Closes(s) \/ HeartBeat(s)

RelayStep(s) == Upgrade(s) \/ PingLands(s) \/ RelayBeat(s) \/ RelaySeesClose(s)

NetworkStep(s) ==
    \/ RelayDrops(s) \/ Forgotten(s)
    \/ \E how \in {{"up"}, {"down"}, {"up", "down"}} : LinkCut(s, how)

Next ==
    \/ \E s \in Sock : PageStep(s) \/ RelayStep(s) \/ NetworkStep(s)
    \/ Leave \/ StableFires \/ SessionEnds
    \/ \E new \in {"gone", "up", "hung"} : HostChanges(new)

Spec == Init /\ [][Next]_vars

\* Timers fire, frames of a working link arrive, a close completes.  TCP is
\* not counted on to notice a cut link.
Fairness ==
    /\ WF_vars(StableFires)
    /\ WF_vars(\E s \in Sock : Boot(s) \/ ReconnectFires(s))
    /\ \A s \in Sock :
        /\ WF_vars(Upgrade(s)) /\ WF_vars(Opens(s)) /\ WF_vars(ConnectFails(s))
        /\ WF_vars(Deliver(s)) /\ WF_vars(PingLands(s))
        /\ WF_vars((sock[s] = "closing" \/ down[s] # <<>>) /\ Closes(s))
        /\ SF_vars(HeartBeat(s)) /\ SF_vars(RelayBeat(s))
        /\ WF_vars(RelaySeesClose(s)) /\ WF_vars(Forgotten(s))

FairSpec == Spec /\ Fairness
-----------------------------------------------------------------------------
\* The page's and the relay's state is well typed.
TypeOK ==
    /\ authed \in {"checking", "in", "out"} /\ wsRef \in Sock \union {None}
    /\ {hostOnline, hbTimer, stableTimer, cookie, dozed} \subseteq BOOLEAN
    /\ reconnectTimer \in {0} \union FirstDelay..LastDelay
    /\ reconnectMs \in FirstDelay..LastDelay
    /\ silent \in 0..MaxSilent /\ flaps \in 0..MaxFlaps
    /\ sock \in [Sock -> {"free", "connecting", "open", "closing"}]
    /\ relay \in [Sock -> {"none", "alive", "waiting"}]
    /\ cut \in [Sock -> SUBSET {"up", "down"}]
    /\ down \in [Sock -> Seq({"online", "offline", "pong", "end"})]
    /\ pinged \subseteq Sock /\ host \in {"gone", "up", "hung"}
    /\ cuts \in 0..MaxCuts /\ drops \in 0..MaxDrops
    /\ hosts \in 0..MaxHosts /\ signOuts \in 0..MaxSignOuts

\* A page has one link, or one reconnect pending, or it is signed out: two
\* onclose handlers never reconnect side by side.
OneLink ==
    /\ \A s \in Sock : sock[s] # "free" => s = wsRef /\ reconnectTimer = 0
    /\ hbTimer => wsRef # None /\ sock[wsRef] \in {"open", "closing"}
    /\ authed = "in" => (reconnectTimer > 0) # (sock[wsRef] # "free")

\* The host is shown online only through an open link, and when nothing is
\* under way on it the page shows what the relay knows.
HostShown ==
    /\ hostOnline => sock[wsRef] \in {"open", "closing"}
    /\ \A s \in Sock :
        (sock[s] = "open" /\ Kept(s) /\ Whole(s) /\ down[s] = <<>>)
            => (hostOnline <=> host # "gone")

\* "an open-then-instant-drop (proxy idle-kill, LB drain) keeps backing off"
\* (useRemote.ts:637-639): n connections lost in a row are answered by the
\* n-th delay of the back-off, whatever timers were pending.
BacksOff ==
    reconnectTimer > 0 =>
        flaps > 0 /\ reconnectTimer = AtMost(FirstDelay * 2^(flaps - 1), LastDelay)

\* "28s (~3 missed pings) never false-closes" a healthy link
\* (useRemote.ts:646-648): the heartbeat closes only a link that is cut, or
\* whose host has been hung at some time since the page last heard a frame.
HealthyKept ==
    [][\A s \in Sock : sock[s] = "open" /\ sock'[s] = "closing" => ~Whole(s) \/ dozed]_vars

\* A half-open link is noticed (CHANGELOG.md:225-227) and given up by the page:
\* by the page's heartbeat while it shows the host online, and by the relay's
\* whenever the relay can still tell the page.
CutNoticed ==
    \A s \in Sock :
        /\ (sock[s] = "open" /\ (cut[s] = {"up"} \/ (~Whole(s) /\ hostOnline)))
               ~> sock[s] # "open"
        /\ (Kept(s) /\ ~Whole(s)) ~> ~Kept(s)

\* A signed-in page comes back after every loss while its session is good.
PageReturns ==
    (authed = "in" /\ cookie) ~> (~cookie \/ authed # "in" \/ \E s \in Sock : sock[s] = "open")

\* A page whose session ended signs itself out (useRemote.ts:685-688).  It
\* does not: the relay refuses the handshake with an HTTP status the page never
\* sees, and closes no link with the codes the page looks for.
ExpiredSignsOut ==
    (authed = "in" /\ ~cookie /\ reconnectTimer > 0) ~> (authed # "in" \/ cookie)
=============================================================================
