------------------------------ MODULE RelayBroker ------------------------------
(****************************************************************************)
(* The relay's WebSocket broker (server/server.js 618-858): the agent       *)
(* sources, the browsers, the session list merged from every source, and    *)
(* the control frames the broker itself originates (host, sessions,         *)
(* clients).                                                                *)
(*                                                                          *)
(* Node runs one handler at a time, so every action below is one handler    *)
(* (or one timer callback) from its first line to its last.  The order of   *)
(* the handlers, when a socket leaves readyState OPEN, when its 'close'     *)
(* event is delivered and when a drain timer fires are all arbitrary.       *)
(*                                                                          *)
(* A slot of Agent or Client is one ws object; a slot is used again only    *)
(* once the broker has forgotten the previous object.  A session list is    *)
(* the set of its items: the browser keeps an order of its own              *)
(* (useRemote.ts reconcileOrder), so positions are left out.  The frames a  *)
(* browser was sent are kept as the last one of each kind: TCP delivers     *)
(* them in order, so this is what the browser shows once it has drained     *)
(* its socket.                                                              *)
(****************************************************************************)
EXTENDS Naturals, FiniteSets

CONSTANTS
    Agent,              \* ws slots of the agent sources
    Client,             \* ws slots of the browsers
    Id,                 \* session ids
    Meta,               \* everything else of an item: title, alive, size, ...
    ItemLists,          \* the lists a source may send in a `sessions` frame
    Oversized,          \* those whose frame reaches the 65536 bytes that are parsed
    Name,               \* host names an agent may announce
    None,               \* no name announced yet: null
    MAX_AGENT_SOURCES,
    MAX_CLIENTS

Item == Id \X Meta
IdsOf(items) == {it[1] : it \in items}

\* A list names an id once: each source builds it from a map keyed by id.
ASSUME ListsAssumption ==
    /\ ItemLists \subseteq SUBSET Item
    /\ \A L \in ItemLists : \A x, y \in L : x[1] = y[1] => x = y
ASSUME OversizedAssumption == Oversized \subseteq ItemLists
ASSUME NoneAssumption == None \notin Name
ASSUME CapsAssumption == MAX_AGENT_SOURCES \in Nat /\ MAX_CLIENTS \in Nat
ASSUME FiniteAssumption == IsFiniteSet(Agent) /\ IsFiniteSet(Client)

VARIABLES
    agents,             \* the Set `agents`
    clients,            \* the Set `clients`
    aReady, cReady,     \* readyState of each ws object
    sessionsBySource,   \* the Map ws -> items; its keys are Sources
    newer,              \* newer[a]: the sources after a in the Map's order
    drainTimers,        \* dropped sources whose sessions are still listed
    agentName,
    lastSessionsStr,    \* the last fan-out, <<list>>, or NoFrame for null
    host,               \* the last `host` frame sent to each browser
    list,               \* the last `sessions` frame sent to each browser
    told                \* the last `clients` count sent to each source

agentVars  == <<agents, aReady, sessionsBySource, newer, drainTimers, agentName>>
clientVars == <<clients, cReady, host, list>>
vars == <<agentVars, clientVars, lastSessionsStr, told>>

\* A frame that may be missing is a sequence of at most one element.
NoFrame == <<>>

ReadyStates == {"OPEN", "CLOSING", "CLOSED"}

\* The keys of sessionsBySource: a key outlives its socket while it drains.
Sources == agents \union drainTimers

\* mergedSessionItems: per id, the item of the last source in Map order.
MergedOf(src, items, after) ==
    {it \in Item : \E a \in src :
        /\ it \in items[a]
        /\ \A b \in after[a] \intersect src : it[1] \notin IdsOf(items[b])}
Merged == MergedOf(Sources, sessionsBySource, newer)

Online == [status |-> "online", name |-> agentName]
Offline == [status |-> "offline", name |-> None]

OpenClients == {c \in clients : cReady[c] = "OPEN"}
OpenAgents == {a \in agents : aReady[a] = "OPEN"}

-----------------------------------------------------------------------------
\* broadcastClients: `lagging` are the browsers whose bufferedAmount exceeds
\* MAX_CLIENT_BUFFER; they are terminated, every other open one is sent the
\* frame.  ShedLaggards is what it does to readyState, Sent to the frames.
ShedLaggards(lagging) ==
    cReady' = [c \in Client |-> IF c \in lagging THEN "CLOSING" ELSE cReady[c]]

Sent(frames, frame, lagging) ==
    [c \in Client |-> IF c \in OpenClients \ lagging THEN frame ELSE frames[c]]

\* Mutant of BroadcastSessions: an empty list is not worth publishing.
BroadcastUnlessEmpty(merged, cached, lagging) ==
    /\ lastSessionsStr' = <<merged>>
    /\ IF merged = {} \/ <<merged>> = cached
       THEN UNCHANGED <<cReady, list>>
       ELSE ShedLaggards(lagging) /\ list' = Sent(list, <<merged>>, lagging)

\* broadcastSessions, with the merged list the handler has just produced.
BroadcastSessions(merged, cached, lagging) ==
    IF <<merged>> = cached
    THEN /\ lastSessionsStr' = cached
         /\ UNCHANGED <<cReady, list>>
    ELSE /\ lastSessionsStr' = <<merged>>
         /\ ShedLaggards(lagging)
         /\ list' = Sent(list, <<merged>>, lagging)

\* Mutant of CountSent: the host's indicator is lit and never dimmed.
CountNeverDimmed(n) ==
    [a \in Agent |-> IF a \in OpenAgents /\ told[a] < n THEN n ELSE told[a]]

\* sendClientCount(): the count goes to every open source.
CountSent(n) ==
    [a \in Agent |-> IF a \in OpenAgents THEN n ELSE told[a]]

-----------------------------------------------------------------------------
Init ==
    /\ agents = {}
    /\ clients = {}
    /\ aReady = [a \in Agent |-> "CLOSED"]
    /\ cReady = [c \in Client |-> "CLOSED"]
    /\ sessionsBySource = [a \in Agent |-> {}]
    /\ newer = [a \in Agent |-> {}]
    /\ drainTimers = {}
    /\ agentName = None
    /\ lastSessionsStr = NoFrame
    /\ host = [c \in Client |-> NoFrame]
    /\ list = [c \in Client |-> NoFrame]
    /\ told = [a \in Agent |-> 0]

\* What a new source leaves of the dedup cache: the source set has changed, so
\* the next `sessions` frame must fan out.  Mutant: the cache is kept.
CacheKept == lastSessionsStr
ClearedCache == NoFrame

\* The upgrade of /agent and wssAgent's "connection" handler.
AgentConnect(a, lagging) ==
    /\ a \notin Sources /\ aReady[a] = "CLOSED"
    /\ Cardinality(agents) < MAX_AGENT_SOURCES
    /\ agents' = agents \union {a}
    /\ aReady' = [aReady EXCEPT ![a] = "OPEN"]
    /\ sessionsBySource' = [sessionsBySource EXCEPT ![a] = {}]
    /\ newer' = [b \in Agent |-> IF b \in Sources THEN newer[b] \union {a} ELSE {}]
    /\ lastSessionsStr' = ClearedCache
    /\ host' = Sent(host, <<Online>>, lagging)
    /\ ShedLaggards(lagging)
    /\ told' = [told EXCEPT ![a] = Cardinality(clients)]
    /\ UNCHANGED <<drainTimers, agentName, clients, list>>

\* A `sessions` frame: it may still arrive from a socket that is closing.  One
\* that is too long to be parsed is passed on as it is and remembered nowhere.
AgentSessions(a, items, lagging) ==
    /\ a \in agents
    /\ IF items \in Oversized
       THEN /\ list' = Sent(list, <<items>>, lagging)
            /\ ShedLaggards(lagging)
            /\ UNCHANGED <<sessionsBySource, lastSessionsStr>>
       ELSE /\ sessionsBySource' = [sessionsBySource EXCEPT ![a] = items]
            /\ BroadcastSessions(MergedOf(Sources, sessionsBySource', newer),
                                 lastSessionsStr, lagging)
    /\ UNCHANGED <<agents, aReady, newer, drainTimers, agentName, clients, host, told>>

AnnounceName(a, name, lagging) ==
    /\ a \in agents
    /\ agentName' = name
    /\ host' = Sent(host, <<[status |-> "online", name |-> name]>>, lagging)
    /\ ShedLaggards(lagging)
    /\ UNCHANGED <<agents, aReady, sessionsBySource, newer, drainTimers,
                   clients, list, lastSessionsStr, told>>

\* A `host` frame that names the machine; one without a name is ignored.
AgentHost(a, name, lagging) == AnnounceName(a, name, lagging)

\* data, attached, exit, pong: passed to every browser as they are.
AgentOpaque(a, lagging) ==
    /\ a \in agents
    /\ lagging # {}
    /\ ShedLaggards(lagging)
    /\ UNCHANGED <<agentVars, clients, host, list, lastSessionsStr, told>>

\* The socket leaves OPEN: the peer closed it, or the heartbeat terminated it.
AgentClosing(a) ==
    /\ a \in OpenAgents
    /\ aReady' = [aReady EXCEPT ![a] = "CLOSING"]
    /\ UNCHANGED <<agents, sessionsBySource, newer, drainTimers, agentName,
                   clientVars, lastSessionsStr, told>>

\* Whether a lost source keeps its key for the grace window.  Mutant: never.
NeverDrains(a) == FALSE
Drains(a) == sessionsBySource[a] # {}

\* Whether no source is left; the Set has already lost the one that closed.
\* Mutant: the Set is looked at before the delete.
LastSourceTooEarly(a) == agents = {}
LastSource(a) == agents \ {a} = {}

\* The 'close' event of a source.  A source that listed something keeps its
\* key until its drain timer fires; the offline frame goes out at once.
AgentClosed(a, lagging) ==
    /\ a \in agents /\ aReady[a] = "CLOSING"
    /\ agents' = agents \ {a}
    /\ aReady' = [aReady EXCEPT ![a] = "CLOSED"]
    /\ told' = [told EXCEPT ![a] = 0]
    /\ IF Drains(a)
       THEN drainTimers' = drainTimers \union {a} /\ UNCHANGED <<newer, sessionsBySource>>
       ELSE /\ newer' = [b \in Agent |-> IF b = a THEN {} ELSE newer[b] \ {a}]
            /\ sessionsBySource' = [sessionsBySource EXCEPT ![a] = {}]
            /\ UNCHANGED drainTimers
    /\ IF LastSource(a)
       THEN ShedLaggards(lagging) /\ host' = Sent(host, <<Offline>>, lagging)
       ELSE UNCHANGED <<cReady, host>>
    /\ UNCHANGED <<agentName, clients, list, lastSessionsStr>>

\* The drain timer: forget the source and re-publish the smaller list.
DrainExpired(a, lagging) ==
    /\ a \in drainTimers
    /\ drainTimers' = drainTimers \ {a}
    /\ sessionsBySource' = [sessionsBySource EXCEPT ![a] = {}]
    /\ newer' = [b \in Agent |-> IF b = a THEN {} ELSE newer[b] \ {a}]
    /\ BroadcastSessions(MergedOf(agents \union drainTimers', sessionsBySource', newer'),
                         NoFrame, lagging)
    /\ UNCHANGED <<agents, aReady, agentName, clients, host, told>>

\* The upgrade of /client and wssClient's "connection" handler.
ClientConnect(c) ==
    /\ c \notin clients /\ cReady[c] = "CLOSED"
    /\ Cardinality(clients) < MAX_CLIENTS
    /\ clients' = clients \union {c}
    /\ cReady' = [cReady EXCEPT ![c] = "OPEN"]
    /\ told' = CountSent(Cardinality(clients'))
    /\ IF agents # {}
       THEN /\ host' = [host EXCEPT ![c] = <<Online>>]
            /\ list' = [list EXCEPT ![c] = <<Merged>>]
       ELSE /\ host' = [host EXCEPT ![c] = <<Offline>>]
            /\ list' = [list EXCEPT ![c] = NoFrame]
    /\ UNCHANGED <<agentVars, lastSessionsStr>>

ClientClosing(c) ==
    /\ c \in OpenClients
    /\ cReady' = [cReady EXCEPT ![c] = "CLOSING"]
    /\ UNCHANGED <<agentVars, clients, host, list, lastSessionsStr, told>>

\* The 'error' event: out of the Set at once, the count only with 'close'.
ClientError(c) ==
    /\ c \in clients
    /\ clients' = clients \ {c}
    /\ cReady' = [cReady EXCEPT ![c] = "CLOSING"]
    /\ UNCHANGED <<agentVars, host, list, lastSessionsStr, told>>

ClientClosed(c) ==
    /\ cReady[c] = "CLOSING"
    /\ clients' = clients \ {c}
    /\ cReady' = [cReady EXCEPT ![c] = "CLOSED"]
    /\ host' = [host EXCEPT ![c] = NoFrame]
    /\ list' = [list EXCEPT ![c] = NoFrame]
    /\ told' = CountSent(Cardinality(clients'))
    /\ UNCHANGED <<agentVars, lastSessionsStr>>

\* shutdown(): every socket is asked to close; handlers run until the exit.
Shutdown ==
    /\ agents \union clients # {}
    /\ aReady' = [a \in Agent |-> IF a \in agents THEN "CLOSING" ELSE aReady[a]]
    /\ cReady' = [c \in Client |-> IF c \in clients THEN "CLOSING" ELSE cReady[c]]
    /\ UNCHANGED <<agents, sessionsBySource, newer, drainTimers, agentName,
                   clients, host, list, lastSessionsStr, told>>

\* The process exits (or crashes) and its supervisor starts it again: all of
\* the state above lives in memory only.
Restart ==
    /\ agents' = {} /\ clients' = {} /\ drainTimers' = {}
    /\ aReady' = [a \in Agent |-> "CLOSED"]
    /\ cReady' = [c \in Client |-> "CLOSED"]
    /\ sessionsBySource' = [a \in Agent |-> {}]
    /\ newer' = [a \in Agent |-> {}]
    /\ agentName' = None /\ lastSessionsStr' = NoFrame
    /\ host' = [c \in Client |-> NoFrame]
    /\ list' = [c \in Client |-> NoFrame]
    /\ told' = [a \in Agent |-> 0]

AgentNext ==
    \E a \in Agent :
        \/ AgentClosing(a)
        \/ \E lagging \in SUBSET OpenClients :
              \/ AgentConnect(a, lagging)
              \/ \E items \in ItemLists : AgentSessions(a, items, lagging)
              \/ \E name \in Name : AgentHost(a, name, lagging)
              \/ AgentOpaque(a, lagging)
              \/ AgentClosed(a, lagging)
              \/ DrainExpired(a, lagging)

ClientNext ==
    \E c \in Client :
        \/ ClientConnect(c)
        \/ ClientClosing(c)
        \/ ClientError(c)
        \/ ClientClosed(c)

Next == AgentNext \/ ClientNext \/ Shutdown \/ Restart

Spec == Init /\ [][Next]_vars

\* Node delivers the 'close' event of a socket that has left OPEN, and fires
\* a timer that nobody cleared.
Fairness ==
    /\ \A a \in Agent :
          /\ WF_vars(\E lagging \in SUBSET OpenClients : AgentClosed(a, lagging))
          /\ WF_vars(\E lagging \in SUBSET OpenClients : DrainExpired(a, lagging))
    /\ \A c \in Client : WF_vars(ClientClosed(c))

FairSpec == Spec /\ Fairness

-----------------------------------------------------------------------------
\* The state of the broker is well typed.
TypeOK ==
    /\ agents \subseteq Agent
    /\ clients \subseteq Client
    /\ drainTimers \subseteq Agent
    /\ aReady \in [Agent -> ReadyStates]
    /\ cReady \in [Client -> ReadyStates]
    /\ sessionsBySource \in [Agent -> SUBSET Item]
    /\ newer \in [Agent -> SUBSET Agent]
    /\ agentName \in Name \union {None}
    /\ told \in [Agent -> Nat]
    /\ lastSessionsStr = NoFrame \/ lastSessionsStr[1] \in SUBSET Item
    /\ DOMAIN list = Client /\ DOMAIN host = Client
    /\ \A c \in Client :
          /\ list[c] = NoFrame \/ list[c][1] \in SUBSET Item
          /\ host[c] = NoFrame
                \/ host[c][1] \in [status : {"online", "offline"}, name : Name \union {None}]

\* Every browser that is still open holds the current merged list, whatever
\* the dedup cache of broadcastSessions suppressed; the one exception is a
\* browser that joined while no source was connected, and that one will be
\* sent the list by the next `sessions` frame because the cache is empty.
ClientListFresh ==
    \A c \in OpenClients :
        \/ list[c] = <<Merged>>
        \/ list[c] = NoFrame /\ (agents = {} \/ lastSessionsStr = NoFrame)

\* The host status an open browser was last sent is the one that can be
\* derived from the connected sources now, with the name announced last.
HostFresh ==
    \A c \in OpenClients : host[c] = <<IF agents = {} THEN Offline ELSE Online>>

\* Every open source was last told the number of browsers in `clients`,
\* unless a browser failed and its 'close' event, which sends the count, is
\* still to come; until then the count is too high, never too low.
CountFresh ==
    \A a \in OpenAgents :
        /\ told[a] >= Cardinality(clients)
        /\ \/ told[a] = Cardinality(clients)
           \/ \E c \in Client \ clients : cReady[c] = "CLOSING"

\* A step in which an open browser's list loses a tab, and what excuses it.
LosesTab(c) ==
    /\ c \in clients' /\ cReady'[c] = "OPEN" /\ list[c] # NoFrame
    /\ ~(IdsOf(list[c][1]) \subseteq IdsOf(list'[c][1]))
TabsWithdrawn ==
    \/ \E a \in drainTimers : a \notin drainTimers'
    \/ \E a \in agents \intersect agents' : sessionsBySource'[a] # sessionsBySource[a]

\* A tab disappears from an open browser's list only because a connected
\* source said so or a drain window ended: the loss of a source's socket and
\* its reconnection never flap the list.
NoFlap ==
    [][\A c \in OpenClients : LosesTab(c) => TabsWithdrawn]_vars

\* When the host stays away for good, what its sources left listed drains and
\* every open browser ends up with no tab at all.
AbandonedHostEmpties ==
    <>[](agents = {}) => <>[](\A c \in OpenClients : list[c] \in {NoFrame, <<{}>>})

\* What a browser that is still open shows: the last frame of each kind.
Shows == [c \in OpenClients |-> [host |-> host[c], tabs |-> list[c]]]

Board == INSTANCE HostBoard WITH
    Page <- Client, TabLists <- SUBSET Item, online <- agents # {}, name <- agentName,
    tabs <- Merged, shows <- Shows

\* To the browsers the broker is one board that all of them read: the sources,
\* their drain windows, the merge and the dedup cache are not to be seen, and
\* neither the host's state nor its tabs ever reach one browser and not another.
ImplementsBoard == Board!Spec

\* What makes the properties above inductive: a ws object is in a Set exactly
\* while its 'close' event is to come, only listed sources keep items, and the
\* dedup cache of broadcastSessions is either empty or the list as it is now.
SocketsTracked ==
    /\ \A a \in Agent : a \in agents <=> aReady[a] # "CLOSED"
    /\ agents \intersect drainTimers = {}
    /\ \A c \in Client : cReady[c] = "OPEN" => c \in clients
    /\ \A c \in clients : cReady[c] # "CLOSED"

CacheFresh == lastSessionsStr \in {NoFrame, <<Merged>>}

IInv == TypeOK /\ SocketsTracked /\ CacheFresh
           /\ ClientListFresh /\ HostFresh /\ CountFresh
=============================================================================
