------------------------------ MODULE HostBoard ------------------------------
(****************************************************************************)
(* What the relay promises the browsers: a board that says whether the host *)
(* is there and which tabs it has.  Every page reads the same board at the  *)
(* same time; a page that opens while the host is away sees no tabs until   *)
(* they are next put up.  Nothing here knows of sources, of drain windows   *)
(* or of frames that are suppressed because nothing changed: RelayBroker is *)
(* shown to implement this specification.                                   *)
(****************************************************************************)

CONSTANTS Page, TabLists, Name, None

VARIABLES
    online, name,   \* the host
    tabs,           \* the tabs on the board
    shows           \* open page -> the host and the tabs it shows

board == <<online, name, tabs>>
vars == <<online, name, tabs, shows>>

Blank == <<>>
Host(on, n) ==
    <<[status |-> IF on THEN "online" ELSE "offline", name |-> IF on THEN n ELSE None]>>

\* The pages that stay open: a page may be closed at any time, and one that
\* does not take what it is sent is closed by the relay.
Staying == SUBSET DOMAIN shows

Init ==
    /\ online = FALSE /\ name = None
    /\ tabs = {}
    /\ shows = [p \in {} |-> Blank]

PageOpens(p) ==
    /\ p \notin DOMAIN shows
    /\ shows' = [q \in DOMAIN shows \union {p} |->
                    IF q = p THEN [host |-> Host(online, name),
                                   tabs |-> IF online THEN <<tabs>> ELSE Blank]
                    ELSE shows[q]]
    /\ UNCHANGED board

PagesClose ==
    /\ \E stay \in Staying : shows' = [p \in stay |-> shows[p]]
    /\ UNCHANGED board

\* The host comes, goes or is renamed; the tabs stay as they are.
HostChanges(on, n) ==
    /\ online' = on /\ name' = n
    /\ \E stay \in Staying :
          shows' = [p \in stay |-> [host |-> Host(on, n), tabs |-> shows[p].tabs]]
    /\ UNCHANGED tabs

\* The tabs change; the host's state does not.
TabsChange(new) ==
    /\ tabs' = new
    /\ \E stay \in Staying :
          shows' = [p \in stay |-> [host |-> shows[p].host, tabs |-> <<new>>]]
    /\ UNCHANGED <<online, name>>

\* The relay starts anew, without a page.
Restart ==
    /\ online' = FALSE /\ name' = None /\ tabs' = {}
    /\ shows' = [p \in {} |-> Blank]

Next ==
    \/ \E p \in Page : PageOpens(p)
    \/ PagesClose
    \/ \E on \in BOOLEAN, n \in Name \union {None} : HostChanges(on, n)
    \/ \E new \in TabLists : TabsChange(new)
    \/ Restart

Spec == Init /\ [][Next]_vars
=============================================================================
