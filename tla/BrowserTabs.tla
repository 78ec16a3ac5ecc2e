---------------------------- MODULE BrowserTabs ----------------------------
(***************************************************************************)
(* The tabs of one browser page (useRemote.ts): the session list with its  *)
(* own order, the active tab, the terminals, the focus of a tab the page   *)
(* asked for, the sidebar's close dialog and its gate on a workspace's     *)
(* last tab, and the shortcuts.  The host and the relay appear as the      *)
(* frames they send and the requests they take.                            *)
(*                                                                         *)
(* sessions, activeId and wsById are React state with every queued update  *)
(* applied; shown is what the last render and its effects left in the DOM, *)
(* in sessionsRef and in the callbacks' closures.  A click sees shown.     *)
(***************************************************************************)
EXTENDS Integers, Sequences, FiniteSets

CONSTANTS
    NTabs,          \* tabs are numbered 1..NTabs in the order of creation
    NFirst,         \* the first NFirst are open when the page connects
    WsOf,           \* the workspace of each tab
    NoTab,
    PromptRender,   \* TRUE: the page renders before the next click
    OneRequest,     \* TRUE: the user asks for one tab at a time
    Kinds,          \* the rare events that may happen: "close" (of a tab, by
                    \* the page), "end" (of a shell), "repeat" (of a frame),
                    \* "drag", "loss" (of the link); and "refusal" (of a close)
    MaxRare,        \* bound: how many of them happen, refusals aside
    MaxFlight       \* bound: frames under way when the host sends more

Tab == 1..NTabs
Asked == 0

ASSUME TabAssumption == NTabs \in Nat /\ NFirst \in 0..NTabs
ASSUME NoTabAssumption ==
    NoTab \notin {Asked} \cup Tab /\ \A S \in SUBSET Tab : NoTab # S
ASSUME WsAssumption == DOMAIN WsOf = 1..NTabs /\ NoTab \notin {WsOf[t] : t \in 1..NTabs}
ASSUME TurnAssumption == PromptRender \in BOOLEAN /\ OneRequest \in BOOLEAN
ASSUME RareAssumption ==
    /\ Kinds \subseteq {"close", "refusal", "end", "repeat", "drag", "loss"}
    /\ MaxRare \in Nat /\ MaxFlight \in Nat

VARIABLES
    table,          \* the host's tabs: "none" yet, "alive", "dead" or "gone"
    announced,      \* the tabs of the last tabmeta
    frames,         \* frames under way to the page
    opens,          \* requests for a terminal under way to the host
    ssh,            \* the POST /api/open-ssh: "idle", "asked", "opened"
    closing,        \* close frames under way to the host
    sessions,       \* the page's tabs, in its order
    activeId,
    wsById,
    shown,          \* sessions and wsById as last rendered
    terms,          \* tabs with a terminal
    pendingClose,   \* the tab the close dialog asks about, or NoTab
    pendingNewIds,  \* the tabs that were there when one was asked for, or NoTab
    due,            \* history: Asked, or the tab opened for it, or NoTab
    emptied,        \* history: workspaces a close left without a tab
    refused,        \* history: tabs whose close did not take, of which the
                    \* host has sent nothing since
    rare

hostVars == <<table, announced, opens, ssh, closing>>
listVars == <<sessions, activeId, wsById, shown, terms, pendingClose, pendingNewIds>>
tabHistory == <<due, emptied, refused>>
tabsVars == <<hostVars, frames, listVars, tabHistory, rare>>

IdsOf(list) == {list[i].id : i \in DOMAIN list}
Has(list, t) == t \in IdsOf(list)
\* The numbers in S from small to large: tabs by creation time, or places.
InOrder(S) ==
    CHOOSE f \in [1..Cardinality(S) -> S] : \A i, j \in DOMAIN f : i < j => f[i] < f[j]

Listed(tab) == {t \in Tab : tab[t] \in {"alive", "dead"}}
Live(tab) == {t \in Tab : tab[t] = "alive"}
ListFrame(tab) == [t |-> "sessions", ids |-> Listed(tab), live |-> Live(tab)]
AttachedFrame(t, alive) == [t |-> "attached", id |-> t, alive |-> alive]
ExitFrame(t) == [t |-> "exit", id |-> t]
TabmetaFrame(ids) == [t |-> "tabmeta", ids |-> ids]
\* What the relay sends a page that connects.
Greeting(tab, known) == <<ListFrame(tab), TabmetaFrame(known)>>

Rendered == shown = [sessions |-> sessions, wsById |-> wsById]
ClickTurn == PromptRender => Rendered
RequestTurn == OneRequest => opens = 0 /\ ssh = "idle" /\ pendingNewIds = NoTab
Room == Len(frames) < MaxFlight
Rare(kind) == kind \in Kinds /\ rare < MaxRare /\ rare' = rare + 1

-----------------------------------------------------------------------------
TabsInit ==
    /\ table = [t \in Tab |-> IF t <= NFirst THEN "alive" ELSE "none"]
    /\ announced = 1..NFirst
    /\ frames = Greeting(table, announced)
    /\ opens = 0 /\ ssh = "idle" /\ closing = {}
    /\ sessions = <<>> /\ activeId = NoTab /\ wsById = [t \in Tab |-> NoTab]
    /\ shown = [sessions |-> <<>>, wsById |-> wsById]
    /\ terms = {} /\ pendingClose = NoTab /\ pendingNewIds = NoTab
    /\ due = NoTab /\ emptied = {} /\ refused = {}
    /\ rare = 0

-----------------------------------------------------------------------------
\* The host.

\* A tab opens: its source attaches to it and lists it, in either order.  The
\* agent and the bridge poll apart, so an older tab may be listed after a
\* younger one of the other source.
OpensTab(t) ==
    /\ Room
    /\ table[t] = "none"
    /\ table' = [table EXCEPT ![t] = "alive"]
    /\ \/ frames' = frames \o <<AttachedFrame(t, TRUE), ListFrame(table')>>
       \/ frames' = frames \o <<ListFrame(table'), AttachedFrame(t, TRUE)>>
    /\ refused' = {}
    /\ UNCHANGED <<announced, closing, listVars, emptied, rare>>

\* The page's request is served ...
ServesOpen ==
    /\ opens > 0 /\ opens' = opens - 1
    /\ \E t \in Tab : OpensTab(t) /\ due' = IF due = Asked THEN t ELSE due
    /\ UNCHANGED ssh
ServesSsh ==
    /\ ssh = "asked" /\ ssh' = "opened"
    /\ \E t \in Tab : OpensTab(t) /\ due' = IF due = Asked THEN t ELSE due
    /\ UNCHANGED opens
\* ... or the desktop opens a tab of its own, and the page cannot tell.
DesktopOpens ==
    /\ \E t \in Tab : OpensTab(t)
    /\ due' = IF due = Asked THEN NoTab ELSE due
    /\ UNCHANGED <<opens, ssh>>

\* The extension announces which workspace each tab is in.
HostAnnounces ==
    /\ Room /\ announced # Listed(table)
    /\ announced' = Listed(table)
    /\ frames' = Append(frames, TabmetaFrame(announced'))
    /\ UNCHANGED <<table, opens, ssh, closing, listVars, tabHistory, rare>>

\* What the host says again of tabs it has listed before: one is replayed for
\* another page that joins, after an overflow of the agent's channel, or when
\* the bridge attaches once more; the list is fanned out again when a source
\* comes or goes.  The relay drops a list equal to the last one, so no frame
\* follows unless something changed.
HostRepeats ==
    /\ Room /\ Rare("repeat")
    /\ \/ \E t \in Listed(table) :
            /\ frames' = Append(frames, AttachedFrame(t, table[t] = "alive"))
            /\ refused' = refused \ {t}
       \/ frames' = Append(frames, ListFrame(table)) /\ refused' = {}
    /\ UNCHANGED <<table, announced, opens, ssh, closing, listVars, due, emptied>>

\* A shell ends: an exit frame, and later a list without it.
Ends(t) ==
    /\ Room /\ table[t] = "alive"
    /\ table' = [table EXCEPT ![t] = "dead"]
    /\ frames' = Append(frames, ExitFrame(t))
    /\ due' = IF due = t THEN NoTab ELSE due
    /\ UNCHANGED <<announced, opens, ssh, listVars, refused>>
ShellEnds(t) == Rare("end") /\ Ends(t) /\ UNCHANGED <<closing, emptied>>

\* A close frame of the page: the shell ends ...
HostCloses(t) ==
    /\ t \in closing /\ closing' = closing \ {t}
    /\ IF table[t] = "alive"
       THEN /\ Ends(t)
            /\ emptied' = IF \A u \in Live(table') : WsOf[u] # WsOf[t]
                          THEN emptied \cup {WsOf[t]} ELSE emptied
       ELSE UNCHANGED <<table, frames, announced, opens, ssh, listVars, tabHistory>>
    /\ UNCHANGED rare
\* ... or the daemon fails, which the agent only logs: nothing has changed, so
\* nothing is sent.  The bridge sends its exit frame whatever comes of the close.
HostRefuses(t) ==
    /\ Room /\ "refusal" \in Kinds
    /\ t \in closing /\ closing' = closing \ {t} /\ table[t] = "alive"
    /\ refused' = refused \cup {t}
    /\ frames' \in {frames, Append(frames, ExitFrame(t))}
    /\ UNCHANGED <<table, announced, opens, ssh, listVars, due, emptied, rare>>
HostDrops(t) ==
    /\ Room /\ table[t] = "dead"
    /\ table' = [table EXCEPT ![t] = "gone"]
    /\ frames' = Append(frames, ListFrame(table'))
    /\ refused' = {}
    /\ UNCHANGED <<announced, opens, ssh, closing, listVars, due, emptied, rare>>

\* The link breaks and comes back: what was under way is lost, and the relay
\* greets the page anew.  A greeting with two new tabs does not tell which of
\* them was asked for.
LinkLost ==
    /\ Rare("loss")
    /\ frames' = Greeting(table, announced)
    /\ opens' = 0 /\ closing' = {} /\ refused' = {}
    /\ due' = IF pendingNewIds # NoTab /\ Listed(table) \ pendingNewIds # {due}
              THEN NoTab ELSE due
    /\ UNCHANGED <<table, announced, ssh, listVars, emptied>>

-----------------------------------------------------------------------------
\* The page: handleFrame.

\* The entries of prev that are still listed.
StillThere(prev, ids) ==
    LET places == InOrder({i \in DOMAIN prev : prev[i].id \in ids})
    IN [i \in DOMAIN places |-> prev[places[i]]]
Newcomers(prev, f) == InOrder(f.ids \ IdsOf(prev))
Item(t, f) == [id |-> t, alive |-> t \in f.live]

\* Mutants of reconcileOrder: tabs that stay keep what the page thought of
\* them; the list's own order is taken.
reconcileOrderStale(prev, f) ==
    LET new == Newcomers(prev, f) IN StillThere(prev, f.ids) \o [i \in DOMAIN new |-> Item(new[i], f)]
reconcileOrderByAge(prev, f) ==
    LET all == InOrder(f.ids) IN [i \in DOMAIN all |-> Item(all[i], f)]
\* The order of the page survives; newcomers follow by age.
reconcileOrder(prev, f) ==
    LET kept == StillThere(prev, f.ids)   new == Newcomers(prev, f)
    IN [i \in DOMAIN kept |-> Item(kept[i].id, f)] \o [i \in DOMAIN new |-> Item(new[i], f)]

\* Mutant of StillListed: a tab in front stays there, listed or not.
StillListedAny(f) == IF activeId # NoTab THEN {activeId} ELSE f.ids
\* Each source lists its own tabs by age, but which source comes first varies:
\* any tab may head the list.
StillListed(f) ==
    IF activeId \in f.ids THEN {activeId} ELSE IF f.ids = {} THEN {NoTab} ELSE f.ids
\* Mutant of Fresh: only a tab the page does not list yet counts as new.
FreshKnown(f) == IF pendingNewIds = NoTab THEN {} ELSE f.ids \ (pendingNewIds \cup IdsOf(sessions))
\* The listed tabs that were not there when the page asked for one.
Fresh(f) == IF pendingNewIds = NoTab THEN {} ELSE f.ids \ pendingNewIds
disposed(f) == terms \cap f.ids
OnSessions(f) ==
    /\ terms' = disposed(f)
    /\ sessions' = reconcileOrder(sessions, f)
    /\ IF Fresh(f) # {}
       THEN activeId' \in Fresh(f) /\ pendingNewIds' = NoTab
       ELSE activeId' \in StillListed(f) /\ UNCHANGED pendingNewIds
    /\ UNCHANGED <<wsById, shown, pendingClose>>

Marked(list, t, alive) ==
    [i \in DOMAIN list |-> IF list[i].id = t THEN [id |-> t, alive |-> alive] ELSE list[i]]

OnAttached(f) ==
    /\ sessions' = IF Has(sessions, f.id) THEN Marked(sessions, f.id, f.alive)
                   ELSE Append(sessions, [id |-> f.id, alive |-> f.alive])
    /\ activeId' = IF activeId = NoTab THEN f.id ELSE activeId
    /\ UNCHANGED <<wsById, shown, terms, pendingClose, pendingNewIds>>

OnExit(f) ==
    /\ sessions' = Marked(sessions, f.id, FALSE)
    /\ UNCHANGED <<activeId, wsById, shown, terms, pendingClose, pendingNewIds>>

OnTabmeta(f) ==
    /\ wsById' = [t \in Tab |-> IF t \in f.ids THEN WsOf[t] ELSE NoTab]
    /\ UNCHANGED <<sessions, activeId, shown, terms, pendingClose, pendingNewIds>>

handleFrame ==
    /\ frames # <<>> /\ frames' = Tail(frames)
    /\ LET f == Head(frames)
       IN \/ f.t = "sessions" /\ OnSessions(f)
          \/ f.t = "attached" /\ OnAttached(f)
          \/ f.t = "exit" /\ OnExit(f)
          \/ f.t = "tabmeta" /\ OnTabmeta(f)
    /\ UNCHANGED <<hostVars, tabHistory, rare>>

\* React renders; every listed tab gets its terminal, the refs and closures
\* catch up.
Render ==
    /\ ~Rendered
    /\ shown' = [sessions |-> sessions, wsById |-> wsById]
    /\ terms' = terms \cup IdsOf(sessions)
    /\ UNCHANGED <<hostVars, frames, sessions, activeId, wsById, pendingClose, pendingNewIds,
                   tabHistory,
                   rare>>

-----------------------------------------------------------------------------
\* The page: what the user does.

setActiveId(t) ==
    /\ activeId' = t
    /\ due' = IF t = due THEN due ELSE NoTab
    /\ UNCHANGED <<hostVars, frames, sessions, wsById, shown, terms, pendingClose, pendingNewIds,
                   emptied, refused, rare>>

\* A dialog lies over the rest of the page; only the keyboard reaches it.
NoDialog == pendingClose = NoTab

Select(t) ==
    ClickTurn /\ NoDialog /\ Has(shown.sessions, t) /\ t # activeId /\ setActiveId(t)

\* The next tab, the previous one or the n-th: from one tab or another, any.
Shortcut ==
    /\ ClickTurn /\ Len(shown.sessions) >= 2
    /\ \E i \in DOMAIN shown.sessions :
         shown.sessions[i].id # activeId /\ setActiveId(shown.sessions[i].id)

\* The first tab of the workspace, in the page's order.
selectWorkspace(w) ==
    /\ ClickTurn /\ NoDialog
    /\ \E i \in DOMAIN shown.sessions :
         LET ws(j) == shown.wsById[shown.sessions[j].id]
         IN /\ ws(i) = w /\ \A j \in 1..(i - 1) : ws(j) # w
            /\ shown.sessions[i].id # activeId /\ setActiveId(shown.sessions[i].id)

\* Dragging: the tab is taken out, then put where the target is now.  The hook
\* offers it; no component of this version calls it.
Moved(list, from, target) ==
    LET rest == SubSeq(list, 1, from - 1) \o SubSeq(list, from + 1, Len(list))
        to == CHOOSE i \in DOMAIN rest : rest[i].id = target
    IN SubSeq(rest, 1, to - 1) \o <<list[from]>> \o SubSeq(rest, to, Len(rest))
reorderTabs ==
    /\ ClickTurn /\ NoDialog /\ Rare("drag")
    /\ \E from, to \in DOMAIN shown.sessions :
         LET dragged == shown.sessions[from].id   target == shown.sessions[to].id
         IN /\ from # to
            /\ IF Has(sessions, dragged) /\ Has(sessions, target)
               THEN LET i == CHOOSE k \in DOMAIN sessions : sessions[k].id = dragged
                    IN sessions' = Moved(sessions, i, target)
               ELSE UNCHANGED sessions
    /\ UNCHANGED <<hostVars, frames, activeId, wsById, shown, terms, pendingClose, pendingNewIds,
                   tabHistory>>

\* The page remembers which tabs there are.  It can recognise the one it asks
\* for when it knows every other, those in a list under way included.
Underway == UNION {frames[i].ids : i \in {j \in DOMAIN frames : frames[j].t = "sessions"}}
markPendingNew ==
    /\ pendingNewIds' = IdsOf(shown.sessions)
    /\ due' = IF Listed(table) \cup Underway \subseteq pendingNewIds' THEN Asked ELSE NoTab
    /\ UNCHANGED <<sessions, activeId, wsById, shown, terms, pendingClose, emptied,
                   refused>>

newTerminal ==
    /\ ClickTurn /\ NoDialog /\ RequestTurn /\ opens < 2
    /\ markPendingNew /\ opens' = opens + 1
    /\ UNCHANGED <<table, announced, ssh, closing, frames, rare>>

openSshConnection ==
    /\ ClickTurn /\ NoDialog /\ RequestTurn /\ ssh = "idle"
    /\ markPendingNew /\ ssh' = "asked"
    /\ UNCHANGED <<table, announced, opens, closing, frames, rare>>
SshOpened ==
    /\ ssh = "opened" /\ ssh' = "idle"
    /\ UNCHANGED <<table, announced, opens, closing, frames, listVars, tabHistory, rare>>
\* Wrong password, host offline, no answer: the wish is dropped, whosever it is.
SshFails ==
    /\ ssh = "asked" /\ ssh' = "idle"
    /\ pendingNewIds' = NoTab
    /\ due' = IF opens = 0 /\ due = Asked THEN NoTab ELSE due
    /\ UNCHANGED <<table, announced, opens, closing, frames, sessions, activeId, wsById, shown,
                   terms, pendingClose, emptied, refused, rare>>

\* Eight seconds without the new tab.
PendingExpires ==
    /\ pendingNewIds # NoTab /\ pendingNewIds' = NoTab
    /\ due' = NoTab
    /\ UNCHANGED <<hostVars, frames, sessions, activeId, wsById, shown, terms, pendingClose,
                   emptied, refused, rare>>

\* A tab has a close button unless its group in the sidebar, the tabs shown in
\* its workspace or in none, holds it alone.
Group(t) == {u \in IdsOf(shown.sessions) : shown.wsById[u] = shown.wsById[t]}
askClose(t) ==
    /\ ClickTurn /\ NoDialog /\ Rare("close")
    /\ Has(shown.sessions, t) /\ Cardinality(Group(t)) > 1
    /\ pendingClose' = t
    /\ UNCHANGED <<hostVars, frames, sessions, activeId, wsById, shown, terms, pendingNewIds,
                   tabHistory>>
cancelClose ==
    /\ ~NoDialog /\ pendingClose' = NoTab
    /\ UNCHANGED <<hostVars, frames, sessions, activeId, wsById, shown, terms, pendingNewIds,
                   tabHistory,
                   rare>>

\* The dialog is confirmed: the gate is passed once more, then the tab is
\* closed and marked at once.  It may have gone while the dialog was open.
siblings(t) == {u \in IdsOf(shown.sessions) : shown.wsById[u] = shown.wsById[t]}
closeTerminal(t) ==
    /\ ClickTurn /\ pendingClose = t /\ pendingClose' = NoTab
    /\ IF Cardinality(siblings(t)) <= 1
       THEN UNCHANGED <<closing, sessions>>
       ELSE closing' = closing \cup {t} /\ sessions' = Marked(sessions, t, FALSE)
    /\ UNCHANGED <<table, announced, opens, ssh, frames, activeId, wsById, shown, terms,
                   pendingNewIds, tabHistory, rare>>

-----------------------------------------------------------------------------
Host ==
    \/ ServesOpen \/ ServesSsh \/ DesktopOpens \/ HostAnnounces \/ HostRepeats \/ LinkLost
    \/ \E t \in Tab : ShellEnds(t) \/ HostCloses(t) \/ HostRefuses(t) \/ HostDrops(t)
User ==
    \/ \E t \in Tab :
         Select(t) \/ selectWorkspace(WsOf[t]) \/ askClose(t) \/ closeTerminal(t)
    \/ Shortcut \/ cancelClose \/ reorderTabs \/ newTerminal \/ openSshConnection
Page == handleFrame \/ Render \/ SshOpened \/ SshFails \/ PendingExpires
TabsNext == Host \/ User \/ Page

TabsSpec == TabsInit /\ [][TabsNext]_tabsVars

-----------------------------------------------------------------------------
Entry == [id : Tab, alive : BOOLEAN]

\* The page keeps one entry per tab, in some order; the rest has its type.
TabsTypeOK ==
    /\ table \in [Tab -> {"none", "alive", "dead", "gone"}]
    /\ announced \subseteq Tab /\ terms \subseteq Tab /\ closing \subseteq Tab
    /\ refused \subseteq Tab
    /\ \A i \in DOMAIN sessions : sessions[i] \in Entry
    /\ Cardinality(IdsOf(sessions)) = Len(sessions)
    /\ {activeId, pendingClose} \subseteq Tab \cup {NoTab}
    /\ wsById \in [Tab -> {WsOf[t] : t \in Tab} \cup {NoTab}]
    /\ pendingNewIds = NoTab \/ pendingNewIds \subseteq Tab
    /\ opens \in 0..2 /\ ssh \in {"idle", "asked", "opened"}

\* The tab in front is one of the listed ones, and there is one whenever any
\* is listed: whatever closes, ends or is selected (useRemote.ts:526-531, 547).
ActiveListed ==
    IF sessions = <<>> THEN activeId = NoTab ELSE Has(sessions, activeId)

\* With nothing under way in either direction the page lists the host's tabs,
\* shows none as running that has ended, and shows one as ended that runs only
\* if the page itself closed it, the close did not take, and the host has sent
\* nothing of it since: optimistic closes, lost links, early attached frames
\* and replays leave nothing else behind (useRemote.ts:522, 537, 568, 1039;
\* main.rs:345-347).
ListCurrent ==
    frames = <<>> /\ closing = {} =>
        /\ IdsOf(sessions) = Listed(table)
        /\ \A i \in DOMAIN sessions :
             LET t == sessions[i].id
             IN /\ sessions[i].alive => table[t] = "alive"
                /\ table[t] = "alive" => sessions[i].alive \/ t \in refused

\* Not so: a later frame always corrects the mark of a close that did not take
\* (as useRemote.ts:1025-1026 has it).
MarkCorrected == frames = <<>> /\ closing = {} => Live(table) \cap IdsOf(sessions) \subseteq
                     {sessions[i].id : i \in {j \in DOMAIN sessions : sessions[j].alive}}

\* The tab the page asked for comes to the front once its list has arrived, if
\* the page knew every other tab when it asked, nothing else was opened in
\* between, and the user has not chosen another (useRemote.ts:523-529, 772).
NewcomerFocused == frames = <<>> /\ due \in Tab => activeId = due

\* Frames never reorder tabs: two tabs that stay keep their order, dragged or
\* not (useRemote.ts:72-86).
Position(list, t) == CHOOSE i \in DOMAIN list : list[i].id = t
OrderKept ==
    [][frames' # frames =>
         \A t, u \in IdsOf(sessions) \cap IdsOf(sessions') :
             Position(sessions, t) < Position(sessions, u)
                 => Position(sessions', t) < Position(sessions', u)]_sessions

\* A workspace always keeps at least one tab when the page closes tabs
\* (CHANGELOG.md:126-128, useRemote.ts:1023-1030).
LastTabKept == emptied = {}
=============================================================================
