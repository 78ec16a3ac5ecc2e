------------------------------ MODULE FontFit ------------------------------
(***************************************************************************)
(* How big a page draws its terminals: fitTerminal and the effects, frames *)
(* and timers that ask for a fit (useRemote.ts, TerminalHost.tsx, fit.ts). *)
(* The host owns a terminal's grid; the page chooses the font size, its    *)
(* own or (Auto) the largest whose cells stay inside the pane.             *)
(*                                                                         *)
(* A step is a frame, a click, a timer, a render with its effects, or one  *)
(* turn of the walk that measures the terminal after each change of size.  *)
(* The walk runs to its end before anything else does.  Font family and    *)
(* line spacing are one face.  Pixels are left out: Room says how large    *)
(* the cells may be.                                                       *)
(***************************************************************************)
EXTENDS Integers

CONSTANTS
    Id, Grid, Face, None,
    Pane, NoPane,               \* sizes of the pane; not laid out yet
    PromptRender,               \* the page renders before the next event
    FIT_MIN_FONT, FIT_MAX_FONT, \* sizes Auto chooses from
    MIN_FONT, MAX_FONT, DEFAULT_FONT,   \* sizes the user chooses from
    Room                        \* <<grid, pane, face>> -> largest size that fits

FitSize == FIT_MIN_FONT..FIT_MAX_FONT
UserSize == MIN_FONT..MAX_FONT
\* A walk that measures a terminal: the size it draws, on its way up or down.
Walk == [id : Id, size : FitSize, grows : BOOLEAN]

ASSUME SizesAssumption ==
    /\ FIT_MIN_FONT \in Nat \ {0} /\ MIN_FONT \in Nat \ {0}
    /\ FIT_MAX_FONT \in Nat /\ MAX_FONT \in Nat
    /\ FIT_MIN_FONT <= FIT_MAX_FONT /\ DEFAULT_FONT \in UserSize
ASSUME RoomAssumption == Room \in [Grid \X Pane \X Face -> Nat]
ASSUME NamesAssumption == None \notin Grid \union Id \union Walk /\ NoPane \notin Pane
ASSUME TurnAssumption == PromptRender \in BOOLEAN

VARIABLES
    sessions,       \* tab -> the grid it is listed with, or None
    activeId,
    fontSize, fontAuto, face,   \* the settings
    refs,           \* settings and active tab as the last effects left them
    rendered,       \* nothing has changed since the last render
    grid, drawn,    \* terminal -> its grid, its font size; None, 0: no terminal
    frames,         \* terminals with a fit requested for the next frame
    refit,          \* the 120 ms timer after a resize
    pane,
    walk            \* the walk in progress, or None

settings == <<fontSize, fontAuto, face>>
terminals == <<grid, drawn>>
vars == <<sessions, activeId, settings, refs, rendered, terminals, frames, refit, pane, walk>>

HasTerm(id) == grid[id] # None
Terms == {id \in Id : HasTerm(id)}
Listed == {id \in Id : sessions[id] # None}

Init ==
    /\ sessions = [id \in Id |-> None] /\ activeId = None
    /\ fontSize \in UserSize /\ fontAuto \in BOOLEAN /\ face \in Face
    /\ refs = [size |-> fontSize, auto |-> fontAuto, face |-> face, active |-> None]
    /\ rendered = TRUE
    /\ grid = [id \in Id |-> None] /\ drawn = [id \in Id |-> 0]
    /\ frames = {} /\ refit = FALSE
    /\ pane \in Pane \union {NoPane}
    /\ walk = None

\* An event finds the page at rest.
Turn == walk = None /\ (PromptRender => rendered)

-----------------------------------------------------------------------------
(* Frames of the relay.                                                     *)

\* fitTerminal: a fit in the next animation frame, if there is a terminal.
\* The requests of one terminal count as one: the last finds nothing to do.
Fit(ids) == frames' = frames \union (ids \intersect Terms)

\* The terminals a list asks to be fitted.
Adopted(items) == {id \in Id : items[id] # None}

\* A list: terminals take the host's grid, those no longer listed go.  The
\* tab in front stays if it is listed; a new one may be brought to the front.
SessionsFrame(items) ==
    /\ Turn
    /\ sessions' = items
    /\ grid' = [id \in Id |-> IF HasTerm(id) THEN items[id] ELSE None]
    /\ drawn' = [id \in Id |-> IF items[id] = None THEN 0 ELSE drawn[id]]
    /\ Fit(Adopted(items))
    /\ \/ activeId' \in {id \in Id : items[id] # None} /\ sessions[activeId'] = None
       \/ activeId # None /\ items[activeId] # None /\ activeId' = activeId
       \/ activeId # None /\ items[activeId] = None
          /\ activeId' \in {id \in Id : items[id] # None}
       \/ (\A id \in Id : items[id] = None) /\ activeId' = None
    /\ rendered' = FALSE
    /\ UNCHANGED <<settings, refs, refit, pane, walk>>

\* attached: the tab's grid; its terminal takes it, or is made with it.
AttachedFrame(id, g) ==
    /\ Turn
    /\ sessions' = [sessions EXCEPT ![id] = g]
    /\ grid' = [grid EXCEPT ![id] = IF HasTerm(id) THEN g ELSE None]
    /\ Fit({id})
    /\ activeId' = IF activeId = None THEN id ELSE activeId
    /\ rendered' = FALSE
    /\ UNCHANGED <<settings, refs, drawn, refit, pane, walk>>

-----------------------------------------------------------------------------
(* The user.                                                                *)

Select(id) ==
    /\ Turn /\ sessions[id] # None /\ id # activeId
    /\ activeId' = id /\ rendered' = FALSE
    /\ UNCHANGED <<sessions, settings, refs, terminals, frames, refit, pane, walk>>

Sets(size, auto, f) ==
    /\ Turn
    /\ fontSize' = size /\ fontAuto' = auto /\ face' = f
    /\ rendered' = FALSE
    /\ UNCHANGED <<sessions, activeId, refs, terminals, frames, refit, pane, walk>>

clampFont(n) == IF n < MIN_FONT THEN MIN_FONT ELSE IF n > MAX_FONT THEN MAX_FONT ELSE n
\* The size on screen, else the stored one.
Shown == IF refs.active # None /\ HasTerm(refs.active) THEN drawn[refs.active] ELSE refs.size

setFontAuto == Sets(fontSize, TRUE, face)
bumpFont(delta) == Sets(clampFont(Shown + delta), FALSE, face)
resetFont == Sets(DEFAULT_FONT, fontAuto, face)
setFace(f) == Sets(fontSize, fontAuto, f)

-----------------------------------------------------------------------------
(* React.                                                                   *)

\* Tabs without a terminal get one, in the grid they are listed with and the
\* stored size; then the effects run.  A change of a setting asks for a fit of
\* every terminal, a change of the active tab for one of its terminal, and
\* starts its observer anew, which reports the pane's size at once.  A fit that
\* was requested for a tab that is gone from the page finds another element.
Render ==
    /\ walk = None /\ ~rendered /\ rendered' = TRUE
    /\ grid' = [id \in Id |-> IF HasTerm(id) THEN grid[id] ELSE sessions[id]]
    /\ drawn' = [id \in Id |-> IF ~HasTerm(id) /\ sessions[id] # None THEN fontSize ELSE drawn[id]]
    /\ refs' = [size |-> fontSize, auto |-> fontAuto, face |-> face, active |-> activeId]
    /\ frames' = (frames \intersect Listed)
                 \union (IF <<refs.size, refs.auto, refs.face>> # settings THEN Listed ELSE {})
                 \union (IF refs.active # activeId THEN Listed \intersect {activeId} ELSE {})
    /\ refit' = IF refs.active # activeId THEN pane # NoPane ELSE refit
    /\ UNCHANGED <<sessions, activeId, settings, pane, walk>>

\* The observer reports a resize, a timer is started anew.
PaneResized(p) ==
    /\ Turn /\ p # pane
    /\ pane' = p /\ refit' = TRUE
    /\ UNCHANGED <<sessions, activeId, settings, refs, rendered, terminals, frames, walk>>

RefitFires ==
    /\ Turn /\ refit /\ refit' = FALSE
    /\ Fit({refs.active})
    /\ UNCHANGED <<sessions, activeId, settings, refs, rendered, terminals, pane, walk>>

-----------------------------------------------------------------------------
(* The fit.                                                                 *)

Cap(id) == Room[<<grid[id], pane, refs.face>>]
Overflows(id, size) == size > Cap(id)

Apply(id, size) == drawn' = [drawn EXCEPT ![id] = size]

\* The animation frame of one terminal.  Auto starts from an estimate, which
\* may be any size; a pane that cannot be measured is left to a later fit.
Animates(id) ==
    /\ Turn /\ id \in frames /\ frames' = frames \ {id}
    /\ IF ~HasTerm(id) \/ (refs.auto /\ pane = NoPane)
       THEN UNCHANGED <<drawn, walk>>
       ELSE IF ~refs.auto
       THEN Apply(id, refs.size) /\ UNCHANGED walk
       ELSE \E estimate \in FitSize :
               /\ Apply(id, estimate)
               /\ walk' = [id |-> id, size |-> estimate, grows |-> FALSE]
    /\ UNCHANGED <<sessions, activeId, settings, refs, rendered, grid, refit, pane>>

\* Mutant: the estimate is trusted, the walk only grows.
ShrinksNever ==
    /\ walk # None /\ ~walk.grows
    /\ walk' = [walk EXCEPT !.grows = TRUE]
    /\ UNCHANGED <<sessions, activeId, settings, refs, rendered, terminals, frames, refit, pane>>
Shrinks ==
    /\ walk # None /\ ~walk.grows
    /\ IF walk.size > FIT_MIN_FONT /\ Overflows(walk.id, walk.size)
       THEN Apply(walk.id, walk.size - 1) /\ walk' = [walk EXCEPT !.size = @ - 1]
       ELSE walk' = [walk EXCEPT !.grows = TRUE] /\ UNCHANGED drawn
    /\ UNCHANGED <<sessions, activeId, settings, refs, rendered, grid, frames, refit, pane>>

\* The next size is drawn, looked at, and taken back when it is too large.
Grows ==
    /\ walk # None /\ walk.grows
    /\ IF walk.size < FIT_MAX_FONT /\ ~Overflows(walk.id, walk.size + 1)
       THEN Apply(walk.id, walk.size + 1) /\ walk' = [walk EXCEPT !.size = @ + 1]
       ELSE walk' = None /\ UNCHANGED drawn
    /\ UNCHANGED <<sessions, activeId, settings, refs, rendered, grid, frames, refit, pane>>

-----------------------------------------------------------------------------
Page ==
    \/ \E items \in [Id -> Grid \union {None}] : SessionsFrame(items)
    \/ \E id \in Id, g \in Grid : AttachedFrame(id, g)
    \/ \E p \in Pane \union {NoPane} : PaneResized(p)
    \/ Render \/ RefitFires
    \/ \E id \in Id : Animates(id)
    \/ Shrinks \/ Grows

User ==
    \/ \E id \in Id : Select(id)
    \/ setFontAuto \/ resetFont
    \/ \E delta \in {-1, 1} : bumpFont(delta)
    \/ \E f \in Face : setFace(f)

Next == Page \/ User

Spec == Init /\ [][Next]_vars

-----------------------------------------------------------------------------
TypeOK ==
    /\ sessions \in [Id -> Grid \union {None}] /\ grid \in [Id -> Grid \union {None}]
    /\ activeId \in Id \union {None}
    /\ fontSize \in UserSize /\ fontAuto \in BOOLEAN /\ face \in Face
    /\ refs \in [size : UserSize, auto : BOOLEAN, face : Face, active : Id \union {None}]
    /\ drawn \in [Id -> Nat]
    /\ frames \subseteq Id
    /\ rendered \in BOOLEAN /\ refit \in BOOLEAN
    /\ pane \in Pane \union {NoPane}
    /\ walk = None \/ walk \in Walk

\* The largest size of Auto's range that does not overflow, or the smallest.
Best(id) ==
    IF Cap(id) < FIT_MIN_FONT THEN FIT_MIN_FONT
    ELSE IF Cap(id) > FIT_MAX_FONT THEN FIT_MAX_FONT
    ELSE Cap(id)

\* As its user wants it: at the chosen size, or under Auto, when it is in front
\* and no resize is waiting to be answered, at its best one.
IsFit(id) ==
    /\ ~refs.auto => drawn[id] = refs.size
    /\ (refs.auto /\ id = refs.active /\ ~refit /\ pane # NoPane) => drawn[id] = Best(id)

\* No change of grid, pane, face, setting or tab goes without its fit: a
\* terminal for which none is due is drawn at the user's size, and under Auto
\* the one in front at the largest size that keeps the prompt's row in the pane
\* (fit.ts:40-53, useRemote.ts:432, 439-444).
Fitted == walk = None => \A id \in Terms \ frames : IsFit(id)

\* A-/A+ never moves the text the other way (useRemote.ts:882-884, the labels
\* "Smaller text" and "Larger text" of SettingsModal.tsx:47, 69).
SmallerIsSmaller ==
    [][bumpFont(-1) => fontSize' <= Shown]_vars
=============================================================================
