--------------------------- MODULE RelayBrokerProofs ---------------------------
(* Proofs about RelayBroker for every number of sources, browsers, sessions. *)
EXTENDS RelayBroker, FiniteSetTheorems, TLAPS

-----------------------------------------------------------------------------
(* The merged list.                                                         *)

\* Adding a source that lists nothing at the end of the Map leaves the merged
\* list as it was (mergedSessionItems after the "connection" handler).
LEMMA MergedOfAdd ==
    ASSUME NEW src, NEW a, a \notin src,
           NEW items, NEW after, NEW items2, NEW after2,
           \A b \in src : items2[b] = items[b] /\ after2[b] = after[b] \union {a},
           items2[a] = {}
    PROVE  MergedOf(src \union {a}, items2, after2) = MergedOf(src, items, after)
<1>1. \A b \in src : items2[b] = items[b] /\ after2[b] = after[b] \union {a}
  OBVIOUS
<1>2. items2[a] = {}
  OBVIOUS
<1>3. \A b \in src : after2[b] \intersect (src \union {a}) = (after[b] \intersect src) \union {a}
  BY <1>1
<1>4. IdsOf(items2[a]) = {}
  BY <1>2 DEF IdsOf
<1>5. ASSUME NEW b \in src, NEW it \in items[b]
      PROVE  (\A x \in after2[b] \intersect (src \union {a}) : it[1] \notin IdsOf(items2[x]))
             <=> (\A x \in after[b] \intersect src : it[1] \notin IdsOf(items[x]))
  BY <1>1, <1>3, <1>4
<1> QED
  BY <1>1, <1>2, <1>5 DEF MergedOf

\* Forgetting a source that lists nothing leaves it as it was too.
LEMMA MergedOfForget ==
    ASSUME NEW src \in SUBSET Agent, NEW a \in src,
           NEW items \in [Agent -> SUBSET Item], items[a] = {},
           NEW after, NEW after2,
           after2 = [b \in Agent |-> IF b = a THEN {} ELSE after[b] \ {a}]
    PROVE  MergedOf(src \ {a}, items, after2) = MergedOf(src, items, after)
<1>1. \A b \in src \ {a} : after2[b] \intersect (src \ {a}) = (after[b] \intersect src) \ {a}
  OBVIOUS
<1>2. IdsOf(items[a]) = {}
  BY DEF IdsOf
<1>3. ASSUME NEW b \in src \ {a}, NEW it \in items[b]
      PROVE  (\A x \in after2[b] \intersect (src \ {a}) : it[1] \notin IdsOf(items[x]))
             <=> (\A x \in after[b] \intersect src : it[1] \notin IdsOf(items[x]))
  BY <1>1, <1>2
<1> QED
  BY <1>3 DEF MergedOf

\* The merged list is a set of items.
LEMMA MergedOfType ==
    ASSUME NEW src \in SUBSET Agent, NEW items \in [Agent -> SUBSET Item], NEW after
    PROVE  MergedOf(src, items, after) \in SUBSET Item
  BY DEF MergedOf

-----------------------------------------------------------------------------
LEMMA InitIInv == Init => IInv
  BY DEF Init, IInv, TypeOK, SocketsTracked, CacheFresh, ClientListFresh, HostFresh,
         CountFresh, OpenClients, OpenAgents, ReadyStates, NoFrame

\* What a fan-out does to the browsers' sockets: the laggards leave OPEN, the
\* others stay as they were.
LEMMA ShedSockets ==
    ASSUME TypeOK, SocketsTracked, NEW lagging \in SUBSET OpenClients,
           ShedLaggards(lagging), UNCHANGED clients
    PROVE  /\ cReady' \in [Client -> ReadyStates]
           /\ OpenClients' = OpenClients \ lagging
           /\ \A c \in Client : cReady'[c] = "OPEN" => c \in clients'
           /\ \A c \in clients' : cReady'[c] # "CLOSED"
           /\ \A c \in Client \ clients : cReady'[c] = cReady[c]
  BY DEF TypeOK, SocketsTracked, OpenClients, ShedLaggards, ReadyStates

\* Each open browser that was not shed has the frame of the fan-out.
LEMMA SentFrame ==
    ASSUME TypeOK, NEW frames, NEW frame, NEW lagging \in SUBSET OpenClients
    PROVE  /\ DOMAIN Sent(frames, frame, lagging) = Client
           /\ \A c \in OpenClients \ lagging : Sent(frames, frame, lagging)[c] = frame
           /\ \A c \in Client : Sent(frames, frame, lagging)[c] \in {frame, frames[c]}
  BY DEF Sent, OpenClients, TypeOK

\* The guarantee of broadcastSessions: whatever the cache suppressed, every
\* browser left open has the list, or has none while no source is connected.
LEMMA BroadcastFresh ==
    ASSUME TypeOK, SocketsTracked, ClientListFresh,
           NEW merged \in SUBSET Item, NEW cached, NEW lagging \in SUBSET OpenClients,
           cached = NoFrame \/ (cached = lastSessionsStr /\ CacheFresh),
           BroadcastSessions(merged, cached, lagging), UNCHANGED <<agents, clients>>,
           merged = Merged'
    PROVE  /\ cReady' \in [Client -> ReadyStates]
           /\ OpenClients' \subseteq OpenClients
           /\ \A c \in Client : cReady'[c] = "OPEN" => c \in clients'
           /\ \A c \in clients' : cReady'[c] # "CLOSED"
           /\ \A c \in Client \ clients : cReady'[c] = cReady[c]
           /\ DOMAIN list' = Client
           /\ \A c \in Client : list'[c] = NoFrame \/ list'[c][1] \in SUBSET Item
           /\ lastSessionsStr' = <<merged>>
           /\ ClientListFresh'
<1>1. CASE <<merged>> = cached
  <2>1. UNCHANGED <<cReady, list>> /\ lastSessionsStr' = cached
    BY <1>1 DEF BroadcastSessions
  <2>2. cached = lastSessionsStr /\ lastSessionsStr = <<Merged>>
    BY <1>1 DEF NoFrame, CacheFresh
  <2>3. merged = Merged /\ lastSessionsStr # NoFrame
    BY <1>1, <2>2 DEF NoFrame
  <2>4. OpenClients' = OpenClients
    BY <2>1 DEF OpenClients
  <2>5. ClientListFresh'
    BY <2>1, <2>2, <2>3, <2>4 DEF ClientListFresh
  <2> QED
    BY <1>1, <2>1, <2>4, <2>5 DEF TypeOK, SocketsTracked
<1>2. CASE <<merged>> # cached
  <2>1. ShedLaggards(lagging) /\ list' = Sent(list, <<merged>>, lagging)
          /\ lastSessionsStr' = <<merged>>
    BY <1>2 DEF BroadcastSessions
  <2>2. OpenClients' = OpenClients \ lagging
    BY <2>1, ShedSockets
  <2>3. \A c \in OpenClients' : list'[c] = <<merged>>
    BY <2>1, <2>2, SentFrame
  <2>4. \A c \in Client : list'[c] \in {<<merged>>, list[c]}
    BY <2>1, SentFrame
  <2>5. \A c \in Client : list'[c] = NoFrame \/ list'[c][1] \in SUBSET Item
    BY <2>4 DEF TypeOK
  <2>6. DOMAIN list' = Client
    BY <2>1, SentFrame
  <2>7. ClientListFresh'
    BY <2>3 DEF ClientListFresh
  <2> QED
    BY <2>1, <2>2, <2>5, <2>6, <2>7, ShedSockets
<1> QED
  BY <1>1, <1>2

\* The same for a fan-out of a `host` frame that states the truth.
LEMMA BroadcastHostFresh ==
    ASSUME TypeOK, SocketsTracked, NEW lagging \in SUBSET OpenClients,
           ShedLaggards(lagging), UNCHANGED clients,
           NEW frame, frame = (IF agents = {} THEN Offline ELSE Online)',
           frame \in [status : {"online", "offline"}, name : Name \union {None}],
           host' = Sent(host, <<frame>>, lagging)
    PROVE  /\ HostFresh'
           /\ DOMAIN host' = Client
           /\ \A c \in Client : host'[c] = NoFrame
                \/ host'[c][1] \in [status : {"online", "offline"}, name : Name \union {None}]
<1>1. OpenClients' = OpenClients \ lagging
  BY ShedSockets
<1>2. \A c \in OpenClients' : host'[c] = <<frame>>
  BY <1>1, SentFrame
<1>3. \A c \in Client : host'[c] \in {<<frame>>, host[c]}
  BY SentFrame
<1>4. DOMAIN host' = Client
  BY SentFrame
<1> QED
  BY <1>2, <1>3, <1>4 DEF HostFresh, TypeOK

-----------------------------------------------------------------------------
(* One lemma per handler.                                                   *)

LEMMA AgentConnectIInv ==
    ASSUME IInv, NEW a \in Agent, NEW lagging \in SUBSET OpenClients,
           AgentConnect(a, lagging)
    PROVE  IInv'
<1> USE DEF IInv
<1>1. /\ a \notin Sources /\ aReady[a] = "CLOSED"
      /\ agents' = agents \union {a}
      /\ aReady' = [aReady EXCEPT ![a] = "OPEN"]
      /\ sessionsBySource' = [sessionsBySource EXCEPT ![a] = {}]
      /\ newer' = [b \in Agent |-> IF b \in Sources THEN newer[b] \union {a} ELSE {}]
      /\ lastSessionsStr' = NoFrame
      /\ host' = Sent(host, <<Online>>, lagging)
      /\ ShedLaggards(lagging)
      /\ told' = [told EXCEPT ![a] = Cardinality(clients)]
      /\ UNCHANGED <<drainTimers, agentName, clients, list>>
  BY DEF AgentConnect, ClearedCache
<1>2. IsFiniteSet(clients)
  BY FiniteAssumption, FS_Subset DEF TypeOK
<1>3. Cardinality(clients) \in Nat
  BY <1>2, FS_CardinalityType
<1>4. Merged' = Merged
  <2>1. Sources \in SUBSET Agent /\ a \in Agent \ Sources
    BY <1>1 DEF TypeOK, Sources
  <2>2. Sources' = Sources \union {a}
    BY <1>1 DEF Sources
  <2>3. sessionsBySource \in [Agent -> SUBSET Item] /\ newer \in [Agent -> SUBSET Agent]
    BY DEF TypeOK
  <2>4. MergedOf(Sources \union {a}, sessionsBySource', newer')
          = MergedOf(Sources, sessionsBySource, newer)
    <3> HIDE DEF IInv
    <3>1. /\ \A b \in Sources : /\ sessionsBySource'[b] = sessionsBySource[b]
                                /\ newer'[b] = newer[b] \union {a}
          /\ sessionsBySource'[a] = {}
      BY <1>1, <2>1, <2>3
    <3> QED
      BY <2>1, <3>1, MergedOfAdd
  <2> QED
    BY <2>2, <2>4 DEF Merged
<1>5. OpenClients' = OpenClients \ lagging
  BY <1>1, ShedSockets
<1>6. HostFresh' /\ DOMAIN host' = Client
      /\ \A c \in Client : host'[c] = NoFrame
           \/ host'[c][1] \in [status : {"online", "offline"}, name : Name \union {None}]
  <2>1. Online = (IF agents = {} THEN Offline ELSE Online)'
    BY <1>1 DEF Online
  <2>2. Online \in [status : {"online", "offline"}, name : Name \union {None}]
    BY DEF Online, TypeOK
  <2> QED
    BY <1>1, <2>1, <2>2, BroadcastHostFresh
<1>7. TypeOK'
  BY <1>1, <1>3, <1>6, ShedSockets DEF TypeOK, ReadyStates
<1>8. SocketsTracked'
  BY <1>1, ShedSockets DEF SocketsTracked, TypeOK, Sources
<1>9. CacheFresh' /\ ClientListFresh'
  BY <1>1, <1>4, <1>5 DEF CacheFresh, ClientListFresh
<1>10. CountFresh'
  BY <1>1, <1>3, ShedSockets DEF CountFresh, OpenAgents, TypeOK
<1> QED
  BY <1>6, <1>7, <1>8, <1>9, <1>10

LEMMA AgentSessionsIInv ==
    ASSUME IInv, NEW a \in Agent, NEW items \in ItemLists, items \notin Oversized,
           NEW lagging \in SUBSET OpenClients, AgentSessions(a, items, lagging)
    PROVE  IInv'
<1> USE DEF IInv
<1>1. /\ a \in agents
      /\ sessionsBySource' = [sessionsBySource EXCEPT ![a] = items]
      /\ BroadcastSessions(MergedOf(Sources, sessionsBySource', newer),
                           lastSessionsStr, lagging)
      /\ UNCHANGED <<agents, aReady, newer, drainTimers, agentName, clients, host, told>>
  BY DEF AgentSessions
<1>2. sessionsBySource' \in [Agent -> SUBSET Item]
  BY <1>1, ListsAssumption DEF TypeOK
<1>3. Merged' = MergedOf(Sources, sessionsBySource', newer)
  BY <1>1 DEF Merged, Sources
<1>4. Merged' \in SUBSET Item
  BY <1>2, <1>3, MergedOfType DEF TypeOK, Sources
<1>5. /\ cReady' \in [Client -> ReadyStates]
      /\ OpenClients' \subseteq OpenClients
      /\ \A c \in Client : cReady'[c] = "OPEN" => c \in clients'
      /\ \A c \in clients' : cReady'[c] # "CLOSED"
      /\ \A c \in Client \ clients : cReady'[c] = cReady[c]
      /\ DOMAIN list' = Client
      /\ \A c \in Client : list'[c] = NoFrame \/ list'[c][1] \in SUBSET Item
      /\ lastSessionsStr' = <<Merged'>>
      /\ ClientListFresh'
  BY <1>1, <1>3, <1>4, BroadcastFresh
<1>6. TypeOK'
  BY <1>1, <1>2, <1>4, <1>5 DEF TypeOK
<1>7. SocketsTracked'
  BY <1>1, <1>5 DEF SocketsTracked
<1>8. CacheFresh'
  BY <1>5 DEF CacheFresh
<1>9. HostFresh'
  BY <1>1, <1>5 DEF HostFresh, Online, Offline
<1>10. CountFresh'
  BY <1>1, <1>5 DEF CountFresh, OpenAgents
<1> QED
  BY <1>5, <1>6, <1>7, <1>8, <1>9, <1>10

LEMMA AgentHostIInv ==
    ASSUME IInv, NEW a \in Agent, NEW name \in Name,
           NEW lagging \in SUBSET OpenClients, AgentHost(a, name, lagging)
    PROVE  IInv'
<1> USE DEF IInv
<1>1. /\ a \in agents
      /\ agentName' = name
      /\ host' = Sent(host, <<[status |-> "online", name |-> name]>>, lagging)
      /\ ShedLaggards(lagging)
      /\ UNCHANGED <<agents, aReady, sessionsBySource, newer, drainTimers,
                     clients, list, lastSessionsStr, told>>
  BY DEF AgentHost, AnnounceName
<1>2. Merged' = Merged
  BY <1>1 DEF Merged, Sources
<1>3. OpenClients' = OpenClients \ lagging
  BY <1>1, ShedSockets
<1>4. HostFresh' /\ DOMAIN host' = Client
      /\ \A c \in Client : host'[c] = NoFrame
           \/ host'[c][1] \in [status : {"online", "offline"}, name : Name \union {None}]
  <2>1. [status |-> "online", name |-> name] = (IF agents = {} THEN Offline ELSE Online)'
    BY <1>1 DEF Online
  <2> QED
    BY <1>1, <2>1, BroadcastHostFresh
<1>5. TypeOK'
  BY <1>1, <1>4, ShedSockets DEF TypeOK
<1>6. SocketsTracked'
  BY <1>1, ShedSockets DEF SocketsTracked
<1>7. CacheFresh' /\ ClientListFresh'
  BY <1>1, <1>2, <1>3 DEF CacheFresh, ClientListFresh
<1>8. CountFresh'
  BY <1>1, ShedSockets DEF CountFresh, OpenAgents
<1> QED
  BY <1>4, <1>5, <1>6, <1>7, <1>8

LEMMA AgentOpaqueIInv ==
    ASSUME IInv, NEW a \in Agent, NEW lagging \in SUBSET OpenClients,
           AgentOpaque(a, lagging)
    PROVE  IInv'
<1> USE DEF IInv
<1>1. /\ ShedLaggards(lagging)
      /\ UNCHANGED <<agents, aReady, sessionsBySource, newer, drainTimers, agentName,
                     clients, host, list, lastSessionsStr, told>>
  BY DEF AgentOpaque, agentVars
<1>2. Merged' = Merged
  BY <1>1 DEF Merged, Sources
<1>3. OpenClients' = OpenClients \ lagging
  BY <1>1, ShedSockets
<1>4. TypeOK' /\ SocketsTracked'
  BY <1>1, ShedSockets DEF TypeOK, SocketsTracked
<1>5. CacheFresh' /\ ClientListFresh' /\ HostFresh'
  BY <1>1, <1>2, <1>3 DEF CacheFresh, ClientListFresh, HostFresh, Online, Offline
<1>6. CountFresh'
  BY <1>1, ShedSockets DEF CountFresh, OpenAgents
<1> QED
  BY <1>4, <1>5, <1>6

LEMMA AgentClosingIInv ==
    ASSUME IInv, NEW a \in Agent, AgentClosing(a)
    PROVE  IInv'
<1> USE DEF IInv
<1>1. /\ a \in agents
      /\ aReady' = [aReady EXCEPT ![a] = "CLOSING"]
      /\ UNCHANGED <<agents, sessionsBySource, newer, drainTimers, agentName,
                     clients, cReady, host, list, lastSessionsStr, told>>
  BY DEF AgentClosing, OpenAgents, clientVars
<1>2. Merged' = Merged /\ OpenClients' = OpenClients
  BY <1>1 DEF Merged, Sources, OpenClients
<1>3. TypeOK' /\ SocketsTracked'
  BY <1>1 DEF TypeOK, SocketsTracked, ReadyStates
<1>4. CacheFresh' /\ ClientListFresh' /\ HostFresh'
  BY <1>1, <1>2 DEF CacheFresh, ClientListFresh, HostFresh, Online, Offline
<1>5. CountFresh'
  BY <1>1 DEF CountFresh, OpenAgents, TypeOK
<1> QED
  BY <1>3, <1>4, <1>5

LEMMA AgentClosedIInv ==
    ASSUME IInv, NEW a \in Agent, NEW lagging \in SUBSET OpenClients,
           AgentClosed(a, lagging)
    PROVE  IInv'
<1> USE DEF IInv
<1>1. /\ a \in agents
      /\ agents' = agents \ {a}
      /\ aReady' = [aReady EXCEPT ![a] = "CLOSED"]
      /\ told' = [told EXCEPT ![a] = 0]
      /\ UNCHANGED <<agentName, clients, list, lastSessionsStr>>
  BY DEF AgentClosed
<1>2. /\ UNCHANGED sessionsBySource
      /\ \/ /\ sessionsBySource[a] # {}
            /\ drainTimers' = drainTimers \union {a} /\ UNCHANGED newer
         \/ /\ sessionsBySource[a] = {}
            /\ UNCHANGED drainTimers
            /\ newer' = [b \in Agent |-> IF b = a THEN {} ELSE newer[b] \ {a}]
  <2>1. sessionsBySource[a] = {} => [sessionsBySource EXCEPT ![a] = {}] = sessionsBySource
    BY DEF TypeOK
  <2> QED
    BY <2>1 DEF AgentClosed, Drains
<1>3. \/ /\ agents' = {}
         /\ ShedLaggards(lagging) /\ host' = Sent(host, <<Offline>>, lagging)
      \/ agents' # {} /\ UNCHANGED <<cReady, host>>
  BY DEF AgentClosed, LastSource
<1>4. Merged' = Merged
  <2>1. CASE sessionsBySource[a] # {}
    <3>1. Sources' = Sources
      BY <1>1, <1>2, <2>1 DEF Sources
    <3> QED
      BY <1>1, <1>2, <2>1, <3>1 DEF Merged
  <2>2. CASE sessionsBySource[a] = {}
    <3>1. Sources' = Sources \ {a} /\ a \in Sources /\ Sources \in SUBSET Agent
      BY <1>1, <1>2, <2>2 DEF Sources, SocketsTracked, TypeOK
    <3>2. sessionsBySource \in [Agent -> SUBSET Item]
      BY DEF TypeOK
    <3>3. MergedOf(Sources \ {a}, sessionsBySource, newer')
            = MergedOf(Sources, sessionsBySource, newer)
      <4> HIDE DEF IInv
      <4> QED
        BY <1>2, <2>2, <3>1, <3>2, MergedOfForget
    <3>4. UNCHANGED sessionsBySource
      BY <1>2
    <3> QED
      BY <3>1, <3>3, <3>4 DEF Merged
  <2> QED
    BY <2>1, <2>2
<1>5. /\ OpenClients' \subseteq OpenClients
      /\ cReady' \in [Client -> ReadyStates]
      /\ \A c \in Client : cReady'[c] = "OPEN" => c \in clients'
      /\ \A c \in clients' : cReady'[c] # "CLOSED"
      /\ \A c \in Client \ clients : cReady'[c] = cReady[c]
  <2>1. CASE UNCHANGED cReady
    BY <1>1, <2>1 DEF OpenClients, TypeOK, SocketsTracked
  <2>2. CASE ShedLaggards(lagging)
    BY <1>1, <2>2, ShedSockets
  <2> QED
    BY <1>3, <2>1, <2>2
<1>6. /\ HostFresh'
      /\ DOMAIN host' = Client
      /\ \A c \in Client : host'[c] = NoFrame
           \/ host'[c][1] \in [status : {"online", "offline"}, name : Name \union {None}]
  <2>1. CASE agents' = {}
    <3>1. Offline = (IF agents = {} THEN Offline ELSE Online)'
      BY <2>1 DEF Offline
    <3>2. Offline \in [status : {"online", "offline"}, name : Name \union {None}]
      BY DEF Offline
    <3> QED
      BY <1>1, <1>3, <2>1, <3>1, <3>2, BroadcastHostFresh
  <2>2. CASE agents' # {}
    <3>1. UNCHANGED <<cReady, host>> /\ agents # {}
      BY <1>1, <1>3, <2>2
    <3>2. OpenClients' = OpenClients /\ Online' = Online
      BY <1>1, <3>1 DEF OpenClients, Online
    <3> QED
      BY <2>2, <3>1, <3>2 DEF HostFresh, TypeOK
  <2> QED
    BY <2>1, <2>2
<1>7. newer' \in [Agent -> SUBSET Agent]
  BY <1>2 DEF TypeOK
<1>8. TypeOK'
  BY <1>1, <1>2, <1>5, <1>6, <1>7 DEF TypeOK, ReadyStates
<1>9. SocketsTracked'
  BY <1>1, <1>2, <1>5 DEF SocketsTracked, TypeOK
<1>10. CacheFresh' /\ ClientListFresh'
  BY <1>1, <1>4, <1>5 DEF CacheFresh, ClientListFresh
<1>11. CountFresh'
  BY <1>1, <1>5 DEF CountFresh, OpenAgents, TypeOK
<1> QED
  BY <1>6, <1>8, <1>9, <1>10, <1>11

LEMMA DrainExpiredIInv ==
    ASSUME IInv, NEW a \in Agent, NEW lagging \in SUBSET OpenClients,
           DrainExpired(a, lagging)
    PROVE  IInv'
<1> USE DEF IInv
<1>1. /\ a \in drainTimers
      /\ drainTimers' = drainTimers \ {a}
      /\ sessionsBySource' = [sessionsBySource EXCEPT ![a] = {}]
      /\ newer' = [b \in Agent |-> IF b = a THEN {} ELSE newer[b] \ {a}]
      /\ BroadcastSessions(MergedOf(agents \union drainTimers', sessionsBySource', newer'),
                           NoFrame, lagging)
      /\ UNCHANGED <<agents, aReady, agentName, clients, host, told>>
  BY DEF DrainExpired
<1>2. sessionsBySource' \in [Agent -> SUBSET Item] /\ newer' \in [Agent -> SUBSET Agent]
  BY <1>1 DEF TypeOK
<1>3. Merged' = MergedOf(agents \union drainTimers', sessionsBySource', newer')
  BY <1>1 DEF Merged, Sources
<1>4. Merged' \in SUBSET Item
  BY <1>1, <1>2, <1>3, MergedOfType DEF TypeOK
<1>5. /\ cReady' \in [Client -> ReadyStates]
      /\ OpenClients' \subseteq OpenClients
      /\ \A c \in Client : cReady'[c] = "OPEN" => c \in clients'
      /\ \A c \in clients' : cReady'[c] # "CLOSED"
      /\ \A c \in Client \ clients : cReady'[c] = cReady[c]
      /\ DOMAIN list' = Client
      /\ \A c \in Client : list'[c] = NoFrame \/ list'[c][1] \in SUBSET Item
      /\ lastSessionsStr' = <<Merged'>>
      /\ ClientListFresh'
  BY <1>1, <1>3, <1>4, BroadcastFresh
<1>6. TypeOK'
  BY <1>1, <1>2, <1>4, <1>5 DEF TypeOK
<1>7. SocketsTracked'
  BY <1>1, <1>5 DEF SocketsTracked
<1>8. CacheFresh'
  BY <1>5 DEF CacheFresh
<1>9. HostFresh'
  BY <1>1, <1>5 DEF HostFresh, Online, Offline
<1>10. CountFresh'
  BY <1>1, <1>5 DEF CountFresh, OpenAgents
<1> QED
  BY <1>5, <1>6, <1>7, <1>8, <1>9, <1>10

LEMMA ClientConnectIInv ==
    ASSUME IInv, NEW c \in Client, ClientConnect(c)
    PROVE  IInv'
<1> USE DEF IInv
<1>1. /\ c \notin clients
      /\ clients' = clients \union {c}
      /\ cReady' = [cReady EXCEPT ![c] = "OPEN"]
      /\ told' = CountSent(Cardinality(clients'))
      /\ UNCHANGED <<agents, aReady, sessionsBySource, newer, drainTimers, agentName,
                     lastSessionsStr>>
  BY DEF ClientConnect, agentVars
<1>2. \/ /\ agents # {}
         /\ host' = [host EXCEPT ![c] = <<Online>>]
         /\ list' = [list EXCEPT ![c] = <<Merged>>]
      \/ /\ agents = {}
         /\ host' = [host EXCEPT ![c] = <<Offline>>]
         /\ list' = [list EXCEPT ![c] = NoFrame]
  BY DEF ClientConnect
<1>3. Cardinality(clients') \in Nat
  BY <1>1, FiniteAssumption, FS_Subset, FS_CardinalityType DEF TypeOK
<1>4. Merged' = Merged /\ Merged \in SUBSET Item
  BY <1>1, MergedOfType DEF Merged, Sources, TypeOK
<1>5. OpenClients' = OpenClients \union {c}
  BY <1>1 DEF OpenClients, TypeOK
<1>6. Online' = Online /\ {Online, Offline} \subseteq
                  [status : {"online", "offline"}, name : Name \union {None}]
  BY <1>1 DEF Online, Offline, TypeOK
<1>7. TypeOK'
  <2>1. told' \in [Agent -> Nat]
    BY <1>1, <1>3 DEF CountSent, TypeOK
  <2>2. \A x \in Client : list'[x] = NoFrame \/ list'[x][1] \in SUBSET Item
    BY <1>2, <1>4 DEF TypeOK
  <2>3. \A x \in Client : host'[x] = NoFrame
          \/ host'[x][1] \in [status : {"online", "offline"}, name : Name \union {None}]
    BY <1>2, <1>6 DEF TypeOK
  <2>4. DOMAIN list' = Client /\ DOMAIN host' = Client
    BY <1>2 DEF TypeOK
  <2> QED
    BY <1>1, <2>1, <2>2, <2>3, <2>4 DEF TypeOK, ReadyStates
<1>8. SocketsTracked'
  BY <1>1 DEF SocketsTracked, TypeOK
<1>9. CacheFresh'
  BY <1>1, <1>4 DEF CacheFresh
<1>10. ClientListFresh'
  BY <1>1, <1>2, <1>4, <1>5 DEF ClientListFresh, SocketsTracked, TypeOK, OpenClients
<1>11. HostFresh'
  BY <1>1, <1>2, <1>5, <1>6 DEF HostFresh, TypeOK, OpenClients
<1>12. CountFresh'
  BY <1>1, <1>3 DEF CountFresh, CountSent, OpenAgents, TypeOK
<1> QED
  BY <1>7, <1>8, <1>9, <1>10, <1>11, <1>12

LEMMA ClientClosingIInv ==
    ASSUME IInv, NEW c \in Client, ClientClosing(c)
    PROVE  IInv'
<1> USE DEF IInv
<1>1. /\ c \in clients
      /\ cReady' = [cReady EXCEPT ![c] = "CLOSING"]
      /\ UNCHANGED <<agents, aReady, sessionsBySource, newer, drainTimers, agentName,
                     clients, host, list, lastSessionsStr, told>>
  BY DEF ClientClosing, OpenClients, agentVars
<1>2. Merged' = Merged /\ Online' = Online
  BY <1>1 DEF Merged, Sources, Online
<1>3. OpenClients' \subseteq OpenClients
  BY <1>1 DEF OpenClients, TypeOK
<1>4. TypeOK' /\ SocketsTracked'
  BY <1>1 DEF TypeOK, SocketsTracked, ReadyStates
<1>5. CacheFresh' /\ ClientListFresh' /\ HostFresh'
  BY <1>1, <1>2, <1>3 DEF CacheFresh, ClientListFresh, HostFresh, Offline
<1>6. CountFresh'
  BY <1>1 DEF CountFresh, OpenAgents, TypeOK
<1> QED
  BY <1>4, <1>5, <1>6

LEMMA ClientErrorIInv ==
    ASSUME IInv, NEW c \in Client, ClientError(c)
    PROVE  IInv'
<1> USE DEF IInv
<1>1. /\ c \in clients
      /\ clients' = clients \ {c}
      /\ cReady' = [cReady EXCEPT ![c] = "CLOSING"]
      /\ UNCHANGED <<agents, aReady, sessionsBySource, newer, drainTimers, agentName,
                     host, list, lastSessionsStr, told>>
  BY DEF ClientError, agentVars
<1>2. Merged' = Merged /\ Online' = Online
  BY <1>1 DEF Merged, Sources, Online
<1>3. OpenClients' \subseteq OpenClients
  BY <1>1 DEF OpenClients, TypeOK
<1>4. TypeOK' /\ SocketsTracked'
  BY <1>1 DEF TypeOK, SocketsTracked, ReadyStates
<1>5. CacheFresh' /\ ClientListFresh' /\ HostFresh'
  BY <1>1, <1>2, <1>3 DEF CacheFresh, ClientListFresh, HostFresh, Offline
<1>6. CountFresh'
  <2>1. IsFiniteSet(clients) /\ IsFiniteSet(clients')
    BY <1>1, FiniteAssumption, FS_Subset DEF TypeOK
  <2>2. Cardinality(clients') <= Cardinality(clients)
    BY <1>1, <2>1, FS_Subset
  <2>3. Cardinality(clients') \in Nat /\ Cardinality(clients) \in Nat
    BY <2>1, FS_CardinalityType
  <2>4. c \in Client \ clients' /\ cReady'[c] = "CLOSING"
    BY <1>1 DEF TypeOK
  <2> QED
    BY <1>1, <2>2, <2>3, <2>4 DEF CountFresh, OpenAgents, TypeOK
<1> QED
  BY <1>4, <1>5, <1>6

LEMMA ClientClosedIInv ==
    ASSUME IInv, NEW c \in Client, ClientClosed(c)
    PROVE  IInv'
<1> USE DEF IInv
<1>1. /\ clients' = clients \ {c}
      /\ cReady' = [cReady EXCEPT ![c] = "CLOSED"]
      /\ host' = [host EXCEPT ![c] = NoFrame]
      /\ list' = [list EXCEPT ![c] = NoFrame]
      /\ told' = CountSent(Cardinality(clients'))
      /\ UNCHANGED <<agents, aReady, sessionsBySource, newer, drainTimers, agentName,
                     lastSessionsStr>>
  BY DEF ClientClosed, agentVars
<1>2. Merged' = Merged /\ Online' = Online
  BY <1>1 DEF Merged, Sources, Online
<1>3. /\ \A x \in OpenClients' : /\ x \in OpenClients
                                 /\ list'[x] = list[x] /\ host'[x] = host[x]
  BY <1>1 DEF OpenClients, TypeOK
<1>4. Cardinality(clients') \in Nat
  BY <1>1, FiniteAssumption, FS_Subset, FS_CardinalityType DEF TypeOK
<1>5. TypeOK'
  <2>1. told' \in [Agent -> Nat]
    BY <1>1, <1>4 DEF CountSent, TypeOK
  <2> QED
    BY <1>1, <2>1 DEF TypeOK, ReadyStates
<1>6. SocketsTracked'
  BY <1>1 DEF SocketsTracked, TypeOK
<1>7. CacheFresh' /\ ClientListFresh' /\ HostFresh'
  BY <1>1, <1>2, <1>3 DEF CacheFresh, ClientListFresh, HostFresh, Offline
<1>8. CountFresh'
  BY <1>1, <1>4 DEF CountFresh, CountSent, OpenAgents, TypeOK
<1> QED
  BY <1>5, <1>6, <1>7, <1>8

LEMMA ShutdownIInv == IInv /\ Shutdown => IInv'
<1> SUFFICES ASSUME IInv, Shutdown PROVE IInv'
  OBVIOUS
<1> USE DEF IInv
<1>1. /\ aReady' = [a \in Agent |-> IF a \in agents THEN "CLOSING" ELSE aReady[a]]
      /\ cReady' = [c \in Client |-> IF c \in clients THEN "CLOSING" ELSE cReady[c]]
      /\ UNCHANGED <<agents, sessionsBySource, newer, drainTimers, agentName,
                     clients, host, list, lastSessionsStr, told>>
  BY DEF Shutdown
<1>2. OpenClients' = {} /\ OpenAgents' = {}
  BY <1>1 DEF OpenClients, OpenAgents, TypeOK
<1>3. Merged' = Merged
  BY <1>1 DEF Merged, Sources
<1>4. TypeOK'
  BY <1>1 DEF TypeOK, ReadyStates
<1>5. SocketsTracked'
  BY <1>1 DEF SocketsTracked, TypeOK
<1> QED
  BY <1>1, <1>2, <1>3, <1>4, <1>5
     DEF CacheFresh, ClientListFresh, HostFresh, CountFresh

LEMMA RestartIInv == Restart => IInv'
  BY DEF Restart, IInv, TypeOK, SocketsTracked, CacheFresh, ClientListFresh, HostFresh,
         CountFresh, OpenClients, OpenAgents, ReadyStates, NoFrame

LEMMA StutterIInv == IInv /\ UNCHANGED vars => IInv'
  BY DEF vars, agentVars, clientVars, IInv, TypeOK, SocketsTracked, CacheFresh,
         ClientListFresh, HostFresh, CountFresh, OpenClients, OpenAgents, Merged,
         Sources, Online, Offline

-----------------------------------------------------------------------------
\* IInv holds in every state of the broker: no order of handlers, closes,
\* drain timers and shed laggards breaks what the handlers rely on.
THEOREM Invariance == Oversized = {} => (Spec => []IInv)
<1> SUFFICES ASSUME Oversized = {} PROVE Spec => []IInv
  OBVIOUS
<1>1. Init => IInv
  BY InitIInv
<1>2. IInv /\ [Next]_vars => IInv'
  <2> SUFFICES ASSUME IInv, [Next]_vars PROVE IInv'
    OBVIOUS
  <2>1. CASE AgentNext
    BY <2>1, AgentClosingIInv, AgentConnectIInv, AgentSessionsIInv, AgentHostIInv,
       AgentOpaqueIInv, AgentClosedIInv, DrainExpiredIInv DEF AgentNext
  <2>2. CASE ClientNext
    BY <2>2, ClientConnectIInv, ClientClosingIInv, ClientErrorIInv, ClientClosedIInv
       DEF ClientNext
  <2>3. CASE Shutdown
    BY <2>3, ShutdownIInv
  <2>4. CASE Restart
    BY <2>4, RestartIInv
  <2>5. CASE UNCHANGED vars
    BY <2>5, StutterIInv
  <2> QED
    BY <2>1, <2>2, <2>3, <2>4, <2>5 DEF Next
<1> QED
  BY <1>1, <1>2, PTL DEF Spec

\* The broker's state is well typed in every reachable state.
THEOREM TypeCorrect == Oversized = {} => (Spec => []TypeOK)
<1> SUFFICES ASSUME Oversized = {} PROVE Spec => []TypeOK
  OBVIOUS
<1>1. IInv => TypeOK
  BY DEF IInv
<1> QED
  BY <1>1, Invariance, PTL

\* Every open browser holds the current merged list (broadcastSessions, its
\* dedup cache, the drain window and the "connection" handlers together).
THEOREM ListFreshness == Oversized = {} => (Spec => []ClientListFresh)
<1> SUFFICES ASSUME Oversized = {} PROVE Spec => []ClientListFresh
  OBVIOUS
<1>1. IInv => ClientListFresh
  BY DEF IInv
<1> QED
  BY <1>1, Invariance, PTL

\* Every open browser was last sent the host status that is true now.
THEOREM HostFreshness == Oversized = {} => (Spec => []HostFresh)
<1> SUFFICES ASSUME Oversized = {} PROVE Spec => []HostFresh
  OBVIOUS
<1>1. IInv => HostFresh
  BY DEF IInv
<1> QED
  BY <1>1, Invariance, PTL

\* The browser count the host shows is exact, or too high while a failed
\* browser's 'close' event is still to come.
THEOREM CountFreshness == Oversized = {} => (Spec => []CountFresh)
<1> SUFFICES ASSUME Oversized = {} PROVE Spec => []CountFresh
  OBVIOUS
<1>1. IInv => CountFresh
  BY DEF IInv
<1> QED
  BY <1>1, Invariance, PTL

\* No source's loss or return makes an open browser lose a tab: only a
\* connected source's new list or the end of a drain window does.
THEOREM NoFlapping == Oversized = {} => (Spec => NoFlap)
<1> SUFFICES ASSUME Oversized = {} PROVE Spec => NoFlap
  OBVIOUS
<1>1. ASSUME IInv, [Next]_vars, NEW c \in OpenClients, LosesTab(c)
      PROVE  TabsWithdrawn
  <2>1. list[c] = <<Merged>> /\ c \in Client
    BY <1>1 DEF LosesTab, IInv, ClientListFresh, OpenClients, TypeOK
  <2>2. list'[c] # list[c]
    BY <1>1 DEF LosesTab
  <2>3. CASE UNCHANGED list
    BY <2>2, <2>3
  <2>4. ASSUME NEW a \in Agent, NEW items \in ItemLists,
               NEW lagging \in SUBSET OpenClients, AgentSessions(a, items, lagging)
        PROVE  TabsWithdrawn
    <3>1. /\ a \in agents /\ UNCHANGED agents
          /\ sessionsBySource' = [sessionsBySource EXCEPT ![a] = items]
          /\ BroadcastSessions(MergedOf(Sources, sessionsBySource', newer),
                               lastSessionsStr, lagging)
      BY <2>4 DEF AgentSessions
    <3>2. SUFFICES ASSUME sessionsBySource'[a] = sessionsBySource[a] PROVE FALSE
      BY <3>1 DEF TabsWithdrawn
    <3>3. sessionsBySource' = sessionsBySource
      BY <1>1, <3>1, <3>2 DEF IInv, TypeOK
    <3>4. UNCHANGED list \/ list' = Sent(list, <<Merged>>, lagging)
      BY <3>1, <3>3 DEF BroadcastSessions, Merged
    <3>5. list'[c] \in {<<Merged>>, list[c]}
      BY <1>1, <2>1, <3>4, SentFrame DEF IInv
    <3> QED
      BY <2>1, <2>2, <3>5
  <2>5. ASSUME NEW a \in Agent, NEW lagging \in SUBSET OpenClients,
               DrainExpired(a, lagging)
        PROVE  TabsWithdrawn
    BY <2>5 DEF DrainExpired, TabsWithdrawn
  <2>6. ASSUME NEW d \in Client, ClientConnect(d)
        PROVE  TabsWithdrawn
    <3>1. d \notin clients /\ d # c
      BY <2>6 DEF ClientConnect, OpenClients
    <3>2. list'[c] = list[c]
      BY <1>1, <2>1, <2>6, <3>1 DEF ClientConnect, IInv, TypeOK
    <3> QED
      BY <2>2, <3>2
  <2>7. ASSUME NEW d \in Client, ClientClosed(d)
        PROVE  TabsWithdrawn
    <3>1. d # c
      BY <1>1, <2>7 DEF ClientClosed, OpenClients, LosesTab
    <3>2. list'[c] = list[c]
      BY <1>1, <2>1, <2>7, <3>1 DEF ClientClosed, IInv, TypeOK
    <3> QED
      BY <2>2, <3>2
  <2>8. CASE Restart
    BY <1>1, <2>8 DEF Restart, LosesTab
  <2>9. CASE UNCHANGED vars
    BY <2>3, <2>9 DEF vars, clientVars
  <2>10. CASE Shutdown
    BY <2>3, <2>10 DEF Shutdown
  <2>11. CASE ClientNext
    <3>1. PICK d \in Client : \/ ClientConnect(d) \/ ClientClosing(d)
                              \/ ClientError(d) \/ ClientClosed(d)
      BY <2>11 DEF ClientNext
    <3>2. ClientClosing(d) \/ ClientError(d) => UNCHANGED list
      BY DEF ClientClosing, ClientError
    <3> QED
      BY <2>3, <2>6, <2>7, <3>1, <3>2
  <2>12. CASE AgentNext
    <3>1. PICK a \in Agent, lagging \in SUBSET OpenClients :
            \/ AgentClosing(a)
            \/ AgentConnect(a, lagging)
            \/ \E items \in ItemLists : AgentSessions(a, items, lagging)
            \/ \E name \in Name : AgentHost(a, name, lagging)
            \/ AgentOpaque(a, lagging)
            \/ AgentClosed(a, lagging)
            \/ DrainExpired(a, lagging)
      BY <2>12 DEF AgentNext
    <3>2. \/ AgentClosing(a) \/ AgentConnect(a, lagging)
          \/ (\E name \in Name : AgentHost(a, name, lagging))
          \/ AgentOpaque(a, lagging) \/ AgentClosed(a, lagging)
          => UNCHANGED list
      BY DEF AgentClosing, AgentConnect, AgentHost, AnnounceName, AgentOpaque,
             AgentClosed, clientVars
    <3> QED
      BY <2>3, <2>4, <2>5, <3>1, <3>2
  <2> QED
    BY <1>1, <2>8, <2>9, <2>10, <2>11, <2>12 DEF Next
<1>2. IInv /\ [Next]_vars =>
        [\A c \in OpenClients : LosesTab(c) => TabsWithdrawn]_vars
  BY <1>1
<1> QED
  BY <1>2, Invariance, PTL DEF Spec, NoFlap

-----------------------------------------------------------------------------
(* RelayBroker implements HostBoard: every handler of the broker is one step *)
(* of the board or none, for every number of sources, browsers and sessions. *)

\* The two shapes a step takes on the board.

\* A step that leaves the merged list and the lists of the browsers alone is a
\* change of the host (or of nothing): the host frames are right afterwards.
LEMMA HostStep ==
    ASSUME IInv, IInv', OpenClients' \subseteq OpenClients, Merged' = Merged,
           \A c \in OpenClients' : list'[c] = list[c]
    PROVE  Board!Next
<1> DEFINE on == agents' # {}
           n == agentName'
<1>1. on \in BOOLEAN /\ n \in Name \union {None}
  BY DEF IInv, TypeOK
<1>2. \A c \in OpenClients' : host'[c] = Board!Host(on, n)
  BY DEF IInv, HostFresh, Online, Offline, Board!Host
<1>3. Shows' = [c \in OpenClients' |-> [host |-> Board!Host(on, n), tabs |-> Shows[c].tabs]]
  BY <1>2 DEF Shows
<1>4. OpenClients' \in SUBSET DOMAIN Shows
  BY DEF Shows
<1>5. Board!HostChanges(on, n)
  BY <1>3, <1>4 DEF Board!HostChanges, Board!Staying
<1> QED
  BY <1>1, <1>5 DEF Board!Next

\* A step that sends every browser it leaves open the new merged list, and no
\* host frame, is a change of the tabs.
LEMMA TabsStep ==
    ASSUME OpenClients' \subseteq OpenClients, Merged' \in SUBSET Item,
           \A c \in OpenClients' : list'[c] = <<Merged'>>,
           UNCHANGED <<agents, agentName, host>>
    PROVE  Board!Next
<1>1. Shows' = [c \in OpenClients' |-> [host |-> Shows[c].host, tabs |-> <<Merged'>>]]
  BY DEF Shows
<1>2. OpenClients' \in SUBSET DOMAIN Shows
  BY DEF Shows
<1>3. Board!TabsChange(Merged')
  BY <1>1, <1>2 DEF Board!TabsChange, Board!Staying
<1> QED
  BY <1>3 DEF Board!Next

\* A fan-out of the merged list is a step of the board: a change of the tabs
\* when it goes out; when the dedup cache suppresses it the list has not changed.
LEMMA BroadcastStep ==
    ASSUME IInv, IInv', NEW cached, NEW lagging \in SUBSET OpenClients,
           cached \in {NoFrame, lastSessionsStr},
           BroadcastSessions(Merged', cached, lagging),
           UNCHANGED <<agents, agentName, clients, host>>
    PROVE  Board!Next
<1>1. Merged' \in SUBSET Item
  BY MergedOfType DEF IInv, TypeOK, Merged, Sources
<1>2. CASE <<Merged'>> = cached
  <2>1. UNCHANGED <<cReady, list>> /\ Merged' = Merged
    BY <1>2 DEF BroadcastSessions, NoFrame, IInv, CacheFresh
  <2>2. OpenClients' = OpenClients
    BY <2>1 DEF OpenClients
  <2> QED
    BY <2>1, <2>2, HostStep
<1>3. CASE <<Merged'>> # cached
  <2>1. ShedLaggards(lagging) /\ list' = Sent(list, <<Merged'>>, lagging)
    BY <1>3 DEF BroadcastSessions
  <2>2. OpenClients' = OpenClients \ lagging
    BY <2>1, ShedSockets DEF IInv
  <2>3. \A c \in OpenClients' : list'[c] = <<Merged'>>
    BY <2>1, <2>2, SentFrame DEF IInv
  <2> QED
    BY <1>1, <2>2, <2>3, TabsStep
<1> QED
  BY <1>2, <1>3

-----------------------------------------------------------------------------
(* The handlers that are not of a shape above by themselves.                *)

LEMMA AgentConnectStep ==
    ASSUME IInv, IInv', NEW a \in Agent, NEW lagging \in SUBSET OpenClients,
           AgentConnect(a, lagging)
    PROVE  Board!Next
<1>1. /\ a \notin Sources
      /\ sessionsBySource' = [sessionsBySource EXCEPT ![a] = {}]
      /\ newer' = [b \in Agent |-> IF b \in Sources THEN newer[b] \union {a} ELSE {}]
      /\ ShedLaggards(lagging) /\ UNCHANGED <<clients, list>>
      /\ Sources' = Sources \union {a}
  BY DEF AgentConnect, Sources
<1>2. /\ \A b \in Sources : /\ sessionsBySource'[b] = sessionsBySource[b]
                            /\ newer'[b] = newer[b] \union {a}
      /\ sessionsBySource'[a] = {}
  BY <1>1 DEF IInv, TypeOK, Sources
<1>3. MergedOf(Sources \union {a}, sessionsBySource', newer')
        = MergedOf(Sources, sessionsBySource, newer)
  <2>1. a \notin Sources
    BY <1>1
  <2> QED
    BY <2>1, <1>2, MergedOfAdd
<1>4. Merged' = Merged
  BY <1>1, <1>3 DEF Merged
<1>5. OpenClients' = OpenClients \ lagging
  BY <1>1, ShedSockets DEF IInv
<1> QED
  BY <1>1, <1>4, <1>5, HostStep

LEMMA AgentClosedStep ==
    ASSUME IInv, IInv', NEW a \in Agent, NEW lagging \in SUBSET OpenClients,
           AgentClosed(a, lagging)
    PROVE  Board!Next
<1>1. a \in agents /\ agents' = agents \ {a} /\ UNCHANGED <<clients, list>>
  BY DEF AgentClosed
<1>2. TypeOK /\ SocketsTracked
  BY DEF IInv
<1>3. Merged' = Merged
  <2>1. CASE Drains(a)
    <3>1. Sources' = Sources /\ UNCHANGED <<newer, sessionsBySource>>
      BY <1>1, <2>1 DEF AgentClosed, Sources
    <3> QED
      BY <3>1 DEF Merged
  <2>2. CASE ~Drains(a)
    <3>1. sessionsBySource[a] = {} /\ sessionsBySource' = sessionsBySource
      <4>1. /\ sessionsBySource[a] = {}
            /\ sessionsBySource' = [sessionsBySource EXCEPT ![a] = {}]
        BY <2>2 DEF AgentClosed, Drains
      <4> QED
        BY <1>2, <4>1 DEF TypeOK
    <3>2. newer' = [b \in Agent |-> IF b = a THEN {} ELSE newer[b] \ {a}]
      BY <2>2 DEF AgentClosed
    <3>3. Sources' = Sources \ {a}
      BY <1>1, <1>2, <2>2 DEF AgentClosed, Sources, SocketsTracked
    <3>4. Sources \in SUBSET Agent /\ a \in Sources
      BY <1>1, <1>2 DEF Sources, TypeOK
    <3>5. MergedOf(Sources \ {a}, sessionsBySource, newer')
            = MergedOf(Sources, sessionsBySource, newer)
      BY <1>2, <3>1, <3>2, <3>4, MergedOfForget DEF TypeOK
    <3> QED
      BY <3>1, <3>3, <3>5 DEF Merged
  <2> QED
    BY <2>1, <2>2
<1>4. OpenClients' \subseteq OpenClients
  <2>1. CASE LastSource(a)
    BY <1>1, <1>2, <2>1, ShedSockets DEF AgentClosed
  <2>2. CASE ~LastSource(a)
    BY <1>1, <2>2 DEF AgentClosed, OpenClients
  <2> QED
    BY <2>1, <2>2
<1> QED
  BY <1>1, <1>3, <1>4, HostStep

\* The browser that has joined shows the board, or no tabs beside an absent host.
LEMMA ClientConnectStep ==
    ASSUME IInv, NEW c \in Client, ClientConnect(c)
    PROVE  Board!Next
<1>1. /\ c \notin clients
      /\ clients' = clients \union {c}
      /\ cReady' = [cReady EXCEPT ![c] = "OPEN"]
      /\ UNCHANGED <<agents, drainTimers, sessionsBySource, newer, agentName>>
  BY DEF ClientConnect, agentVars
<1>2. Merged' = Merged
  BY <1>1 DEF Merged, Sources
<1>3. OpenClients' = OpenClients \union {c} /\ c \notin OpenClients
  BY <1>1 DEF OpenClients, IInv, TypeOK
<1>4. /\ host' = [host EXCEPT ![c] = Board!Host(agents # {}, agentName)]
      /\ list' = [list EXCEPT ![c] = IF agents # {} THEN <<Merged>> ELSE NoFrame]
  BY DEF ClientConnect, Board!Host, Online, Offline
<1>5. DOMAIN host = Client /\ DOMAIN list = Client /\ OpenClients \subseteq Client
  BY DEF IInv, TypeOK, OpenClients
<1>6. Shows' = [q \in DOMAIN Shows \union {c} |->
                  IF q = c THEN [host |-> Board!Host(agents # {}, agentName),
                                 tabs |-> IF agents # {} THEN <<Merged>> ELSE NoFrame]
                  ELSE Shows[q]]
  <2>1. DOMAIN Shows = OpenClients
    BY DEF Shows
  <2>2. /\ host'[c] = Board!Host(agents # {}, agentName)
        /\ list'[c] = IF agents # {} THEN <<Merged>> ELSE NoFrame
        /\ \A q \in OpenClients : host'[q] = host[q] /\ list'[q] = list[q]
    BY <1>3, <1>4, <1>5
  <2> QED
    BY <1>3, <2>1, <2>2 DEF Shows
<1>7. c \notin DOMAIN Shows
  BY <1>3 DEF Shows
<1>8. Board!PageOpens(c)
  BY <1>1, <1>2, <1>6, <1>7 DEF Board!PageOpens, Board!board, Board!Blank, NoFrame
<1> QED
  BY <1>8 DEF Board!Next

LEMMA RestartStep ==
    ASSUME Restart
    PROVE  Board!Next
<1>1. agents' = {} /\ drainTimers' = {} /\ clients' = {} /\ agentName' = None
  BY DEF Restart
<1>2. Merged' = {} /\ OpenClients' = {}
  BY <1>1 DEF Merged, MergedOf, Sources, OpenClients
<1>3. Shows' = [p \in {} |-> Board!Blank]
  BY <1>2 DEF Shows
<1> QED
  BY <1>1, <1>2, <1>3 DEF Board!Next, Board!Restart

-----------------------------------------------------------------------------
\* To the browsers the broker is one board: its sources, drain windows, merge
\* and dedup cache cannot be told from a host with one list of tabs that every
\* page reads at the same time (server.js 618-858).
THEOREM BrokerImplementsBoard == Oversized = {} => (Spec => ImplementsBoard)
<1> SUFFICES ASSUME Oversized = {} PROVE Spec => ImplementsBoard
  OBVIOUS
<1>1. Init => Board!Init
  <2> SUFFICES ASSUME Init PROVE Board!Init
    OBVIOUS
  <2>1. Merged = {} /\ OpenClients = {}
    BY DEF Init, Merged, MergedOf, Sources, OpenClients
  <2>2. Shows = [p \in {} |-> Board!Blank]
    BY <2>1 DEF Shows
  <2> QED
    BY <2>1, <2>2 DEF Init, Board!Init
<1>2. IInv /\ IInv' /\ [Next]_vars => [Board!Next]_(Board!vars)
  <2> SUFFICES ASSUME IInv, IInv', [Next]_vars PROVE Board!Next
    OBVIOUS
  <2>1. CASE AgentNext
    <3>1. PICK a \in Agent, lagging \in SUBSET OpenClients :
            \/ AgentClosing(a)
            \/ AgentConnect(a, lagging)
            \/ \E items \in ItemLists : AgentSessions(a, items, lagging)
            \/ \E name \in Name : AgentHost(a, name, lagging)
            \/ AgentOpaque(a, lagging)
            \/ AgentClosed(a, lagging)
            \/ DrainExpired(a, lagging)
      BY <2>1 DEF AgentNext
    <3>2. CASE AgentClosing(a)
      <4>1. Merged' = Merged /\ OpenClients' = OpenClients /\ UNCHANGED list
        BY <3>2 DEF AgentClosing, clientVars, Merged, Sources, OpenClients
      <4> QED
        BY <4>1, HostStep
    <3>3. CASE AgentConnect(a, lagging)
      BY <3>3, AgentConnectStep
    <3>4. CASE \E items \in ItemLists : AgentSessions(a, items, lagging)
      <4>1. /\ BroadcastSessions(MergedOf(Sources, sessionsBySource', newer),
                                 lastSessionsStr, lagging)
            /\ UNCHANGED <<agents, drainTimers, newer, agentName, clients, host>>
        BY <3>4 DEF AgentSessions
      <4>2. Merged' = MergedOf(Sources, sessionsBySource', newer)
        BY <4>1 DEF Merged, Sources
      <4> QED
        BY <4>1, <4>2, BroadcastStep
    <3>5. CASE (\E name \in Name : AgentHost(a, name, lagging)) \/ AgentOpaque(a, lagging)
      <4>1. /\ ShedLaggards(lagging)
            /\ UNCHANGED <<agents, drainTimers, sessionsBySource, newer, clients, list>>
        BY <3>5 DEF AgentHost, AnnounceName, AgentOpaque, agentVars
      <4>2. Merged' = Merged /\ OpenClients' = OpenClients \ lagging
        BY <4>1, ShedSockets DEF IInv, Merged, Sources
      <4> QED
        BY <4>1, <4>2, HostStep
    <3>6. CASE AgentClosed(a, lagging)
      BY <3>6, AgentClosedStep
    <3>7. CASE DrainExpired(a, lagging)
      <4>1. /\ BroadcastSessions(MergedOf(agents \union drainTimers', sessionsBySource', newer'),
                                 NoFrame, lagging)
            /\ UNCHANGED <<agents, agentName, clients, host>>
        BY <3>7 DEF DrainExpired
      <4>2. Merged' = MergedOf(agents \union drainTimers', sessionsBySource', newer')
        BY <4>1 DEF Merged, Sources
      <4> QED
        BY <4>1, <4>2, BroadcastStep
    <3> QED
      BY <3>1, <3>2, <3>3, <3>4, <3>5, <3>6, <3>7
  <2>2. CASE ClientNext
    <3>1. PICK c \in Client : \/ ClientConnect(c) \/ ClientClosing(c)
                              \/ ClientError(c) \/ ClientClosed(c)
      BY <2>2 DEF ClientNext
    <3>2. CASE ClientConnect(c)
      BY <3>2, ClientConnectStep
    <3>3. CASE ClientClosing(c) \/ ClientError(c) \/ ClientClosed(c)
      <4>1. Merged' = Merged
        BY <3>3 DEF ClientClosing, ClientError, ClientClosed, agentVars, Merged, Sources
      <4>2. \A x \in OpenClients' : x \in OpenClients /\ list'[x] = list[x]
        BY <3>3 DEF ClientClosing, ClientError, ClientClosed, OpenClients, IInv, TypeOK
      <4> QED
        BY <4>1, <4>2, HostStep
    <3> QED
      BY <3>1, <3>2, <3>3
  <2>3. CASE Shutdown
    <3>1. Merged' = Merged /\ OpenClients' = {}
      BY <2>3 DEF Shutdown, Merged, Sources, OpenClients, IInv, TypeOK
    <3> QED
      BY <3>1, HostStep
  <2>4. CASE Restart
    BY <2>4, RestartStep
  <2>5. CASE UNCHANGED vars
    <3>1. Merged' = Merged /\ OpenClients' = OpenClients /\ UNCHANGED list
      BY <2>5 DEF vars, agentVars, clientVars, Merged, Sources, OpenClients
    <3> QED
      BY <3>1, HostStep
  <2> QED
    BY <2>1, <2>2, <2>3, <2>4, <2>5 DEF Next
<1>3. []IInv /\ Init /\ [][Next]_vars => Board!Spec
  BY <1>1, <1>2, PTL DEF Board!Spec
<1> QED
  BY <1>3, Invariance, PTL DEF Spec, ImplementsBoard
=============================================================================
