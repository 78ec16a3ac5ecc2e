------------------------------ MODULE JoinReplay ------------------------------
(****************************************************************************)
(* How a browser that joins gets the desktop's tab numbers (tabmeta) and    *)
(* the saved SSH hosts (ssh-conns): the relay's client_join, at most once a *)
(* second (server/server.js 787-821), and the extension's bridge that       *)
(* answers it (src/index.js 394-410, 692-697 and 822-834).  The relay keeps *)
(* neither frame; only the bridge's next broadcast reaches a newcomer, and  *)
(* the bridge does not answer the browser's own hello.  The native agent is *)
(* connected throughout, so the relay always has a source.                  *)
(****************************************************************************)
EXTENDS Naturals, Sequences

CONSTANTS
    Client,         \* browsers
    Nothing,        \* nothing received, nothing broadcast
    Spaced,         \* TRUE: browsers join more than a second apart
    MaxTabs,        \* bound: the desktop's tab layouts are 0..MaxTabs
    MaxArrivals,    \* bound: joins
    MaxLinks,       \* bound: connections of the bridge
    MaxWire         \* bound: frames on their way when the desktop changes

ASSUME SpacedAssumption == Spaced \in BOOLEAN
ASSUME NothingAssumption == Nothing \notin Nat
ASSUME BoundAssumption == MaxTabs \in Nat /\ MaxArrivals \in Nat /\ MaxLinks \in Nat /\ MaxWire \in Nat

VARIABLES
    open,           \* clients: the relay's open browsers
    recent,         \* less than a second has passed since lastClientJoin
    linkUp,         \* the bridge's socket is open
    toBridge,       \* client_join frames on their way to the bridge
    asking,         \* sendSshConns calls that await listConnections
    tabMeta, lastTabMetaStr,
    toRelay,        \* the bridge's frames on their way to the browsers
    tabs, conns,    \* what each browser's page has: a layout, the SSH hosts
    untold,         \* history: those open when the desktop would not list its
                    \* SSH hosts, and not told of them since
    arrivals, links

relayVars == <<open, recent>>
bridgeVars == <<tabMeta, lastTabMetaStr>>
pageVars == <<tabs, conns, untold>>
joinVars == <<relayVars, linkUp, toBridge, asking, bridgeVars, toRelay, pageVars, arrivals, links>>

Layout == 0..MaxTabs
TabMeta(v) == [t |-> "tabmeta", items |-> v]
SshConns == [t |-> "ssh-conns", items |-> 0]

\* sshSend: nothing is kept for later.
SshSend(f) == toRelay' = IF linkUp THEN Append(toRelay, f) ELSE toRelay

-----------------------------------------------------------------------------
JoinInit ==
    /\ open = {} /\ recent = FALSE /\ linkUp = FALSE /\ toBridge = 0 /\ asking = 0
    /\ tabMeta = 0 /\ lastTabMetaStr = Nothing /\ toRelay = <<>>
    /\ tabs = [c \in Client |-> Nothing] /\ conns = [c \in Client |-> FALSE] /\ untold = {}
    /\ arrivals = 0 /\ links = 0

\* A page is loaded, or a page that lost its connection reconnects.
ClientJoins(c, fresh) ==
    /\ c \notin open /\ arrivals < MaxArrivals
    /\ Spaced => ~recent
    /\ arrivals' = arrivals + 1
    /\ open' = open \union {c}
    /\ tabs' = IF fresh THEN [tabs EXCEPT ![c] = Nothing] ELSE tabs
    /\ conns' = IF fresh THEN [conns EXCEPT ![c] = FALSE] ELSE conns
    /\ untold' = untold \ {c}
    /\ recent' = TRUE
    /\ toBridge' = IF ~recent /\ linkUp THEN toBridge + 1 ELSE toBridge
    /\ UNCHANGED <<linkUp, asking, bridgeVars, toRelay, links>>

ClientLeaves(c) ==
    /\ c \in open
    /\ open' = open \ {c}
    /\ UNCHANGED <<recent, linkUp, toBridge, asking, bridgeVars, toRelay, pageVars, arrivals, links>>

SecondPasses ==
    /\ recent
    /\ recent' = FALSE
    /\ UNCHANGED <<open, linkUp, toBridge, asking, bridgeVars, toRelay, pageVars, arrivals, links>>

\* The relay forwards the bridge's frame to every open browser.
Broadcast ==
    /\ toRelay # <<>>
    /\ toRelay' = Tail(toRelay)
    /\ LET f == Head(toRelay) IN
       \/ /\ f.t = "tabmeta"
          /\ tabs' = [c \in Client |-> IF c \in open THEN f.items ELSE tabs[c]]
          /\ UNCHANGED <<conns, untold>>
       \/ /\ f.t = "ssh-conns"
          /\ conns' = [c \in Client |-> c \in open \/ conns[c]]
          /\ untold' = untold \ open
          /\ UNCHANGED tabs
    /\ UNCHANGED <<relayVars, linkUp, toBridge, asking, bridgeVars, arrivals, links>>

-----------------------------------------------------------------------------
\* Mutant of Greeting: the bridge opens without a word.
GreetingNone == toRelay
\* What the bridge sends when its socket opens.
Greeting == <<TabMeta(tabMeta)>>

BridgeOpens ==
    /\ ~linkUp /\ links < MaxLinks
    /\ links' = links + 1
    /\ linkUp' = TRUE
    /\ toRelay' = Greeting
    /\ asking' = asking + 1
    /\ UNCHANGED <<relayVars, toBridge, bridgeVars, pageVars, arrivals>>

\* The socket is lost with what was on its way.
BridgeCloses ==
    /\ linkUp
    /\ linkUp' = FALSE /\ toBridge' = 0 /\ toRelay' = <<>>
    /\ UNCHANGED <<relayVars, asking, bridgeVars, pageVars, arrivals, links>>

\* Mutant of Asked: a join is not answered with the SSH hosts.
AskedNot == asking
\* sendSshConns awaits the host.
Asked == asking + 1

HandleJoin ==
    /\ toBridge > 0
    /\ toBridge' = toBridge - 1
    /\ SshSend(TabMeta(tabMeta))
    /\ asking' = Asked
    /\ UNCHANGED <<relayVars, linkUp, bridgeVars, pageVars, arrivals, links>>

ConnsReturn ==
    /\ asking > 0
    /\ asking' = asking - 1
    /\ SshSend(SshConns)
    /\ UNCHANGED <<relayVars, linkUp, toBridge, bridgeVars, pageVars, arrivals, links>>

\* listConnections rejects: no frame, and no second attempt.
ConnsFail ==
    /\ asking > 0
    /\ asking' = asking - 1
    /\ untold' = untold \union open
    /\ UNCHANGED <<relayVars, linkUp, toBridge, bridgeVars, toRelay, tabs, conns,
                   arrivals, links>>

\* The layout of a context; a context without terminals is the empty one.
Terminals(c) == IF c = Nothing THEN 0 ELSE c

\* The terminals are byte-identical to those last broadcast.
Unchanged(v) == v = lastTabMetaStr

\* A context change of the desktop brings the same layout or another.
ContextChange(c) ==
    /\ tabMeta' = Terminals(c)
    /\ lastTabMetaStr' = Terminals(c)
    /\ IF Unchanged(Terminals(c))
       THEN UNCHANGED toRelay
       ELSE Len(toRelay) < MaxWire /\ SshSend(TabMeta(Terminals(c)))
    /\ UNCHANGED <<relayVars, linkUp, toBridge, asking, pageVars, arrivals, links>>

-----------------------------------------------------------------------------
JoinNext ==
    \/ \E c \in Client : ClientLeaves(c) \/ \E fresh \in BOOLEAN : ClientJoins(c, fresh)
    \/ SecondPasses \/ Broadcast
    \/ BridgeOpens \/ BridgeCloses \/ HandleJoin \/ ConnsReturn \/ ConnsFail
    \/ \E c \in Layout \union {Nothing} : ContextChange(c)

JoinSpec == JoinInit /\ [][JoinNext]_joinVars
-----------------------------------------------------------------------------
\* The state is well typed.
JoinTypeOK ==
    /\ open \subseteq Client /\ {recent, linkUp} \subseteq BOOLEAN
    /\ toBridge \in 0..MaxArrivals /\ asking \in 0..MaxArrivals + MaxLinks
    /\ tabMeta \in Layout /\ lastTabMetaStr \in Layout \union {Nothing}
    /\ toRelay \in Seq([t : {"tabmeta", "ssh-conns"}, items : Layout])
    /\ tabs \in [Client -> Layout \union {Nothing}] /\ conns \in [Client -> BOOLEAN]
    /\ untold \subseteq Client
    /\ arrivals \in 0..MaxArrivals /\ links \in 0..MaxLinks

Settled == linkUp /\ toBridge = 0 /\ asking = 0 /\ toRelay = <<>>

\* "a recent one already covers this newcomer" (server.js:799-802): when all
\* frames have arrived every open browser has the desktop's current layout.
NewcomerHasTabs == Settled => \A c \in open : tabs[c] = tabMeta

\* The same, and every open browser has the saved SSH hosts too, those aside
\* that were open when the desktop would not list them (index.js:407) and that
\* nothing was sent to since: what the source answers to a join reaches whoever
\* joined.
NewcomerIsGreeted ==
    NewcomerHasTabs /\ (Settled => \A c \in open : conns[c] \/ c \in untold)
=============================================================================
