--------------------------- MODULE FontFitProofs ---------------------------
(***************************************************************************)
(* No terminal is left at the wrong size, for every set of tabs, grids,    *)
(* panes and faces, every range of sizes and every way the cells grow:     *)
(* Fitted is an invariant of FontFit, provided the page renders before the *)
(* next event (PromptRender).                                              *)
(*                                                                         *)
(* Fitted says nothing of a terminal that the next render will make, nor   *)
(* of the sizes the walk goes through.  FitInv adds both: a tab in front   *)
(* that was in front at the last render has its terminal already, so a     *)
(* render that makes one in front sees the tab change and asks for a fit;  *)
(* and a walk that has begun to grow stands at a size that does not        *)
(* overflow, or at the smallest.                                           *)
(***************************************************************************)
EXTENDS FontFit, TLAPS

\* The tab in front is listed; a terminal has the grid its tab is listed with.
TabsAgree ==
    /\ activeId # None => sessions[activeId] # None
    /\ \A id \in Id : HasTerm(id) => sessions[id] = grid[id]

\* What a render leaves: the effects have seen the state.
RenderedAgrees == rendered => refs.active = activeId

\* A tab that stays in front across a render had its terminal before it.
FrontHasTerm == (activeId # None /\ refs.active = activeId) => HasTerm(activeId)

\* The walk knows the size it draws, and grows only from a size that fits.
WalkHolds ==
    walk # None =>
        /\ HasTerm(walk.id) /\ refs.auto /\ pane # NoPane
        /\ drawn[walk.id] = walk.size
        /\ walk.grows => (walk.size = FIT_MIN_FONT \/ ~Overflows(walk.id, walk.size))

\* Fitted, said of the terminals a walk is not at work on as well.
OthersFit ==
    \A id \in Terms \ frames : (walk # None => id # walk.id) => IsFit(id)

FitInv == TypeOK /\ TabsAgree /\ RenderedAgrees /\ FrontHasTerm /\ WalkHolds /\ OthersFit

-----------------------------------------------------------------------------
(* What the definitions of the sizes say.                                   *)

\* A- and A+ stay in the user's range.
LEMMA ClampInRange == \A n \in Int : clampFont(n) \in UserSize
BY SizesAssumption DEF clampFont, UserSize

LEMMA SizesAreNat == FitSize \subseteq Nat /\ UserSize \subseteq Nat
BY SizesAssumption DEF FitSize, UserSize

LEMMA CapIsNat ==
    ASSUME TypeOK, NEW id \in Id, HasTerm(id), pane # NoPane
    PROVE  Cap(id) \in Nat
<1>1. <<grid[id], pane, refs.face>> \in Grid \X Pane \X Face
  BY DEF TypeOK, HasTerm
<1> QED
  BY <1>1, RoomAssumption DEF Cap

\* Where the walk ends is the best size.
LEMMA WalkEndsAtBest ==
    ASSUME TypeOK, NEW id \in Id, HasTerm(id), pane # NoPane, NEW size \in FitSize,
           size = FIT_MIN_FONT \/ ~Overflows(id, size),
           size = FIT_MAX_FONT \/ Overflows(id, size + 1)
    PROVE  size = Best(id)
BY CapIsNat, SizesAssumption DEF Best, Overflows, FitSize

-----------------------------------------------------------------------------
(* One lemma per action, or per kind of action.                             *)

LEMMA SessionsFrameKeeps ==
    ASSUME FitInv, PromptRender, NEW items \in [Id -> Grid \union {None}], SessionsFrame(items)
    PROVE  FitInv'
<1> USE DEF FitInv, HasTerm
<1>1. rendered /\ walk = None
  BY DEF SessionsFrame, Turn
<1>2. TypeOK'
  BY NamesAssumption DEF SessionsFrame, TypeOK, Fit, settings, Terms
<1>3. TabsAgree'
  <2>1. activeId' # None => items[activeId'] # None
    BY DEF SessionsFrame
  <2> QED
    BY <2>1, NamesAssumption DEF SessionsFrame, TabsAgree, TypeOK
<1>4. RenderedAgrees'
  BY DEF SessionsFrame, RenderedAgrees
<1>5. FrontHasTerm'
  <2> SUFFICES ASSUME activeId' # None, refs'.active = activeId' PROVE grid'[activeId'] # None
    BY DEF FrontHasTerm
  <2>1. activeId' = activeId /\ refs.active = activeId
    BY <1>1 DEF SessionsFrame, RenderedAgrees
  <2>2. activeId \in Id /\ HasTerm(activeId) /\ sessions[activeId] # None
    BY <2>1 DEF FrontHasTerm, TabsAgree, TypeOK
  <2>3. items[activeId] # None
    BY <2>1, <2>2 DEF SessionsFrame
  <2> QED
    BY <2>1, <2>2, <2>3 DEF SessionsFrame
<1>6. WalkHolds' /\ walk' = None
  BY <1>1 DEF SessionsFrame, WalkHolds
<1>7. Terms' \subseteq frames'
  BY DEF SessionsFrame, Terms, Fit, Adopted
<1>8. OthersFit'
  BY <1>7 DEF OthersFit
<1> QED
  BY <1>2, <1>3, <1>4, <1>5, <1>6, <1>8

\* A step that takes no notice of a terminal leaves it as it was.
LEMMA SameFit ==
    ASSUME NEW id, IsFit(id), grid'[id] = grid[id], drawn'[id] = drawn[id],
           refs' = refs, pane' = pane, refit' = refit
    PROVE  IsFit(id)'
BY DEF IsFit, Best, Cap

LEMMA AttachedFrameKeeps ==
    ASSUME FitInv, PromptRender, NEW id \in Id, NEW g \in Grid, AttachedFrame(id, g)
    PROVE  FitInv'
<1> USE DEF FitInv, HasTerm
<1>1. rendered /\ walk = None /\ walk' = None
  BY DEF AttachedFrame, Turn
<1>2. TypeOK'
  BY NamesAssumption DEF AttachedFrame, TypeOK, Fit, settings, Terms
<1>3. TabsAgree'
  BY NamesAssumption DEF AttachedFrame, TabsAgree, TypeOK
<1>4. RenderedAgrees'
  BY DEF AttachedFrame, RenderedAgrees
<1>5. FrontHasTerm'
  <2> SUFFICES ASSUME activeId' # None, refs'.active = activeId' PROVE grid'[activeId'] # None
    BY DEF FrontHasTerm
  <2>1. activeId' = activeId /\ activeId \in Id /\ HasTerm(activeId)
    BY <1>1, NamesAssumption DEF AttachedFrame, RenderedAgrees, FrontHasTerm, TypeOK
  <2> QED
    BY <2>1, NamesAssumption DEF AttachedFrame, TypeOK
<1>6. WalkHolds'
  BY <1>1 DEF WalkHolds
<1>7. OthersFit'
  <2> SUFFICES ASSUME NEW x \in Terms' \ frames' PROVE IsFit(x)'
    BY DEF OthersFit
  <2>1. x \in Terms /\ x \notin frames /\ x # id
    BY DEF AttachedFrame, Terms, Fit, TypeOK
  <2>2. IsFit(x)
    BY <1>1, <2>1 DEF OthersFit
  <2>3. grid'[x] = grid[x] /\ drawn'[x] = drawn[x] /\ refs' = refs /\ pane' = pane /\ refit' = refit
    BY <2>1 DEF AttachedFrame, TypeOK, Terms
  <2> QED
    BY <2>2, <2>3, SameFit
<1> QED
  BY <1>2, <1>3, <1>4, <1>5, <1>6, <1>7

LEMMA SelectKeeps ==
    ASSUME FitInv, PromptRender, NEW id \in Id, Select(id)
    PROVE  FitInv'
<1> USE DEF FitInv, HasTerm
<1>1. rendered /\ walk = None
  BY DEF Select, Turn
<1>2. TypeOK' /\ TabsAgree' /\ RenderedAgrees' /\ WalkHolds'
  BY <1>1 DEF Select, TypeOK, TabsAgree, RenderedAgrees, WalkHolds, settings, terminals
<1>3. FrontHasTerm'
  BY <1>1 DEF Select, FrontHasTerm, RenderedAgrees
<1>4. OthersFit'
  BY DEF Select, OthersFit, Terms, IsFit, Best, Cap, terminals
<1> QED
  BY <1>2, <1>3, <1>4

LEMMA SetsKeeps ==
    ASSUME FitInv, NEW size \in UserSize, NEW auto \in BOOLEAN, NEW f \in Face, Sets(size, auto, f)
    PROVE  FitInv'
<1> USE DEF FitInv, HasTerm
<1>1. TypeOK' /\ TabsAgree' /\ RenderedAgrees' /\ FrontHasTerm' /\ WalkHolds'
  BY DEF Sets, Turn, TypeOK, TabsAgree, RenderedAgrees, FrontHasTerm, WalkHolds, terminals
<1>2. OthersFit'
  BY DEF Sets, OthersFit, Terms, IsFit, Best, Cap, terminals
<1> QED
  BY <1>1, <1>2

LEMMA UserKeeps ==
    ASSUME FitInv, PromptRender, User
    PROVE  FitInv'
<1>1. fontSize \in UserSize /\ fontAuto \in BOOLEAN /\ face \in Face /\ Shown \in Int
  <2>1. refs.size \in Int /\ (refs.active # None => drawn[refs.active] \in Int)
    <3>1. refs.size \in UserSize /\ refs.active \in Id \union {None} /\ drawn \in [Id -> Nat]
      BY DEF FitInv, TypeOK
    <3>2. \A id \in Id : drawn[id] \in Int
      BY <3>1
    <3>3. \A n \in UserSize : n \in Int
      BY SizesAreNat
    <3> QED
      BY <3>1, <3>2, <3>3
  <2> QED
    BY <2>1 DEF FitInv, TypeOK, Shown
<1>2. CASE \E id \in Id : Select(id)
  BY <1>2, SelectKeeps
<1>3. CASE setFontAuto
  BY <1>1, <1>3, SetsKeeps DEF setFontAuto
<1>4. CASE resetFont
  BY <1>1, <1>4, SetsKeeps, SizesAssumption DEF resetFont
<1>5. CASE \E delta \in {-1, 1} : bumpFont(delta)
  <2> PICK delta \in {-1, 1} : bumpFont(delta)
    BY <1>5
  <2>1. clampFont(Shown + delta) \in UserSize
    BY <1>1, ClampInRange
  <2> QED
    BY <1>1, <2>1, SetsKeeps DEF bumpFont
<1>6. CASE \E f \in Face : setFace(f)
  BY <1>1, <1>6, SetsKeeps DEF setFace
<1> QED
  BY <1>2, <1>3, <1>4, <1>5, <1>6 DEF User

LEMMA RenderKeeps ==
    ASSUME FitInv, Render
    PROVE  FitInv'
<1> USE DEF FitInv, HasTerm
<1>1. walk = None /\ walk' = None
  BY DEF Render
<1>2. TypeOK'
  BY SizesAreNat, NamesAssumption DEF Render, TypeOK, settings, Listed
<1>3. TabsAgree'
  BY NamesAssumption DEF Render, TabsAgree, TypeOK
<1>4. RenderedAgrees' /\ WalkHolds'
  BY <1>1 DEF Render, RenderedAgrees, WalkHolds
<1>5. FrontHasTerm'
  BY DEF Render, FrontHasTerm, TabsAgree, TypeOK
<1>6. OthersFit'
  <2> SUFFICES ASSUME NEW x \in Terms' \ frames' PROVE IsFit(x)'
    BY DEF OthersFit
  <2>1. x \in Id /\ sessions[x] # None
    BY <1>3 DEF Terms, TabsAgree, Render
  <2>2. refs.size = fontSize /\ refs.auto = fontAuto /\ refs.face = face
    BY <2>1 DEF Render, Listed, settings
  <2>3. refs'.size = refs.size /\ refs'.auto = refs.auto /\ refs'.face = refs.face
    BY <2>2 DEF Render
  <2>4. refs.active # activeId => x # activeId
    BY <2>1 DEF Render, Listed
  <2>5. CASE HasTerm(x)
    <3>1. x \notin frames
      BY <2>1 DEF Render, Listed
    <3>2. IsFit(x)
      BY <1>1, <2>1, <2>5, <3>1 DEF OthersFit, Terms
    <3>3. grid'[x] = grid[x] /\ drawn'[x] = drawn[x] /\ pane' = pane
      BY <2>1, <2>5 DEF Render
    <3>4. x = refs'.active => x = refs.active /\ refit' = refit
      BY <2>4 DEF Render
    <3> QED
      BY <2>3, <3>2, <3>3, <3>4 DEF IsFit, Best, Cap
  <2>6. CASE ~HasTerm(x)
    <3>1. drawn'[x] = fontSize
      BY <2>1, <2>6 DEF Render
    <3>2. x # refs'.active
      BY <2>1, <2>4, <2>6, NamesAssumption DEF Render, FrontHasTerm
    <3> QED
      BY <2>2, <2>3, <3>1, <3>2 DEF IsFit
  <2> QED
    BY <2>5, <2>6
<1> QED
  BY <1>2, <1>3, <1>4, <1>5, <1>6

LEMMA ResizeKeeps ==
    ASSUME FitInv, (\E p \in Pane \union {NoPane} : PaneResized(p)) \/ RefitFires
    PROVE  FitInv'
<1> USE DEF FitInv, HasTerm
<1>1. CASE \E p \in Pane \union {NoPane} : PaneResized(p)
  <2> PICK p \in Pane \union {NoPane} : PaneResized(p)
    BY <1>1
  <2>1. TypeOK' /\ TabsAgree' /\ RenderedAgrees' /\ FrontHasTerm' /\ WalkHolds'
    BY DEF PaneResized, Turn, TypeOK, TabsAgree, RenderedAgrees, FrontHasTerm, WalkHolds, settings, terminals
  <2>2. OthersFit'
    BY DEF PaneResized, OthersFit, Terms, IsFit, terminals
  <2> QED
    BY <2>1, <2>2
<1>2. CASE RefitFires
  <2>1. TypeOK' /\ TabsAgree' /\ RenderedAgrees' /\ FrontHasTerm' /\ WalkHolds'
    BY <1>2 DEF RefitFires, Turn, Fit, Terms, TypeOK, TabsAgree, RenderedAgrees, FrontHasTerm, WalkHolds, settings, terminals
  <2>2. OthersFit'
    BY <1>2 DEF RefitFires, Fit, OthersFit, Terms, IsFit, Best, Cap, terminals
  <2> QED
    BY <2>1, <2>2
<1> QED
  BY <1>1, <1>2

LEMMA AnimatesKeeps ==
    ASSUME FitInv, NEW id \in Id, Animates(id)
    PROVE  FitInv'
<1> USE DEF FitInv, HasTerm
<1>1. TypeOK'
  <2>1. /\ drawn' \in [Id -> Nat] /\ (walk' = None \/ walk' \in Walk)
        /\ grid' = grid /\ refs' = refs /\ refit' = refit /\ pane' = pane /\ frames' \subseteq frames
    <3>1. CASE drawn' = drawn /\ walk' = walk
      BY <3>1 DEF Animates, TypeOK
    <3>2. CASE Apply(id, refs.size) /\ walk' = walk
      BY <3>2, SizesAreNat DEF Animates, Apply, TypeOK
    <3>3. CASE \E estimate \in FitSize :
                  Apply(id, estimate) /\ walk' = [id |-> id, size |-> estimate, grows |-> FALSE]
      BY <3>3, SizesAreNat DEF Animates, Apply, TypeOK, Walk
    <3> QED
      BY <3>1, <3>2, <3>3 DEF Animates
  <2> QED
    BY <2>1 DEF Animates, TypeOK, settings
<1>2. TabsAgree' /\ RenderedAgrees' /\ FrontHasTerm'
  BY DEF Animates, TabsAgree, RenderedAgrees, FrontHasTerm
<1>3. WalkHolds'
  BY DEF Animates, Apply, Turn, TypeOK, WalkHolds
<1>4. OthersFit'
  <2> SUFFICES ASSUME NEW x \in Terms' \ frames', walk' # None => x # walk'.id PROVE IsFit(x)'
    BY DEF OthersFit
  <2>1. grid' = grid /\ refs' = refs /\ pane' = pane /\ refit' = refit /\ x \in Terms
    BY DEF Animates, Terms
  <2>2. CASE x = id
    <3>1. HasTerm(x) /\ walk' = None
      BY <2>1, <2>2 DEF Animates, Turn, Apply, Terms
    <3>2. refs.auto => pane = NoPane
      <4> SUFFICES ASSUME refs.auto, pane # NoPane PROVE FALSE
        OBVIOUS
      <4>1. PICK estimate \in FitSize : walk' = [id |-> id, size |-> estimate, grows |-> FALSE]
        BY <2>2, <3>1 DEF Animates
      <4> QED
        BY <3>1, <4>1, NamesAssumption DEF Walk
    <3>3. ~refs.auto => drawn'[x] = refs.size
      BY <2>2, <3>1 DEF Animates, Apply, TypeOK
    <3> QED
      BY <2>1, <3>2, <3>3 DEF IsFit
  <2>3. CASE x # id
    <3>1. x \notin frames /\ walk = None /\ drawn'[x] = drawn[x]
      BY <2>3 DEF Animates, Turn, Apply, TypeOK, Terms
    <3>2. IsFit(x)
      BY <2>1, <3>1 DEF OthersFit
    <3> QED
      BY <2>1, <3>1, <3>2, SameFit
  <2> QED
    BY <2>2, <2>3
<1> QED
  BY <1>1, <1>2, <1>3, <1>4

LEMMA WalkKeeps ==
    ASSUME FitInv, Shrinks \/ Grows
    PROVE  FitInv'
<1> USE DEF FitInv, HasTerm
<1> DEFINE id == walk.id
<1>1. /\ walk \in Walk /\ id \in Id /\ HasTerm(id) /\ refs.auto /\ pane # NoPane
      /\ drawn[id] = walk.size
      /\ grid' = grid /\ refs' = refs /\ pane' = pane /\ refit' = refit /\ frames' = frames
  BY DEF Shrinks, Grows, TypeOK, WalkHolds, Walk
<1>2. Cap(id) \in Nat /\ walk.size \in FitSize
  BY <1>1, CapIsNat DEF Walk
<1>3. /\ walk' = None \/ (walk' \in Walk /\ walk'.id = id /\ drawn' = [drawn EXCEPT ![id] = walk'.size])
      /\ walk' = None => drawn' = drawn
  <2>1. [drawn EXCEPT ![id] = walk.size] = drawn
    BY <1>1 DEF TypeOK
  <2>2. walk.size > FIT_MIN_FONT => walk.size - 1 \in FitSize
    BY <1>2, SizesAssumption DEF FitSize
  <2>3. walk.size < FIT_MAX_FONT => walk.size + 1 \in FitSize
    BY <1>2, SizesAssumption DEF FitSize
  <2>4. [walk EXCEPT !.grows = TRUE] \in Walk /\ [walk EXCEPT !.grows = TRUE].size = walk.size
    BY <1>1 DEF Walk
  <2>5. \A n \in FitSize : /\ [walk EXCEPT !.size = n] \in Walk
                           /\ [walk EXCEPT !.size = n].id = id /\ [walk EXCEPT !.size = n].size = n
    BY <1>1 DEF Walk
  <2>6. ASSUME NEW n \in FitSize, Apply(id, n), walk' = [walk EXCEPT !.size = n]
        PROVE  walk' \in Walk /\ walk'.id = id /\ drawn' = [drawn EXCEPT ![id] = walk'.size]
    BY <2>5, <2>6 DEF Apply
  <2>7. CASE Shrinks
    <3>1. CASE walk' = [walk EXCEPT !.grows = TRUE] /\ drawn' = drawn
      BY <1>1, <2>1, <2>4, <3>1, NamesAssumption DEF Walk
    <3>2. CASE walk' = [walk EXCEPT !.size = walk.size - 1] /\ walk.size - 1 \in FitSize
               /\ Apply(id, walk.size - 1)
      BY <2>6, <3>2, NamesAssumption
    <3> QED
      BY <2>2, <2>7, <3>1, <3>2 DEF Shrinks
  <2>8. CASE Grows
    <3>1. CASE walk' = None /\ drawn' = drawn
      BY <3>1
    <3>2. CASE walk' = [walk EXCEPT !.size = walk.size + 1] /\ walk.size + 1 \in FitSize
               /\ Apply(id, walk.size + 1)
      BY <2>6, <3>2, NamesAssumption
    <3> QED
      BY <2>3, <2>8, <3>1, <3>2 DEF Grows
  <2> QED
    BY <2>7, <2>8
<1>4. TypeOK'
  <2>1. drawn' \in [Id -> Nat]
    BY <1>1, <1>3, SizesAreNat DEF TypeOK, Walk
  <2> QED
    BY <1>1, <1>3, <2>1 DEF Shrinks, Grows, TypeOK, settings
<1>5. TabsAgree' /\ RenderedAgrees' /\ FrontHasTerm'
  BY DEF Shrinks, Grows, TabsAgree, RenderedAgrees, FrontHasTerm
<1>6. WalkHolds'
  <2> SUFFICES ASSUME walk' # None, walk'.grows
               PROVE  walk'.size = FIT_MIN_FONT \/ walk'.size <= Cap(id)
    BY <1>1, <1>2, <1>3 DEF WalkHolds, Overflows, Cap, TypeOK, Walk, FitSize
  <2>1. CASE Shrinks
    BY <1>1, <1>2, <2>1, SizesAssumption DEF Shrinks, Overflows, Walk, FitSize
  <2>2. CASE Grows
    BY <1>1, <1>2, <2>2, SizesAssumption DEF Grows, Overflows, Walk, FitSize
  <2> QED
    BY <2>1, <2>2
<1>7. OthersFit'
  <2> SUFFICES ASSUME NEW x \in Terms' \ frames', walk' # None => x # walk'.id PROVE IsFit(x)'
    BY DEF OthersFit
  <2>1. x \in Terms \ frames /\ x \in Id
    BY <1>1 DEF Terms
  <2>2. CASE x # id
    <3>1. IsFit(x) /\ drawn'[x] = drawn[x]
      BY <1>1, <1>3, <2>1, <2>2 DEF OthersFit, TypeOK
    <3> QED
      BY <1>1, <3>1, SameFit
  <2>3. CASE x = id
    <3>1. walk' = None
      BY <1>3, <2>3
    <3>2. Shrinks => walk' \in Walk
      <4>1. walk.size > FIT_MIN_FONT => walk.size - 1 \in FitSize
        BY <1>2, SizesAssumption DEF FitSize
      <4> QED
        BY <1>1, <4>1 DEF Shrinks, Walk
    <3>3. Grows
      BY <3>1, <3>2, NamesAssumption
    <3>4. walk.size = FIT_MIN_FONT \/ ~Overflows(id, walk.size)
      BY <3>3 DEF WalkHolds, Grows
    <3>5. walk.size = FIT_MAX_FONT \/ Overflows(id, walk.size + 1)
      <4>1. walk.size + 1 \in FitSize => [walk EXCEPT !.size = @ + 1] \in Walk
        BY <1>1 DEF Walk
      <4>2. walk.size < FIT_MAX_FONT => walk.size + 1 \in FitSize
        BY <1>2, SizesAssumption DEF FitSize
      <4>3. ~(walk.size < FIT_MAX_FONT /\ ~Overflows(id, walk.size + 1))
        BY <3>1, <3>3, <4>1, <4>2, NamesAssumption DEF Grows
      <4> QED
        BY <1>2, <4>3, SizesAssumption DEF FitSize
    <3>6. walk.size = Best(id)
      BY <1>1, <1>2, <3>4, <3>5, WalkEndsAtBest
    <3> QED
      BY <1>1, <1>3, <2>3, <3>1, <3>6 DEF IsFit, Best, Cap
  <2> QED
    BY <2>2, <2>3
<1> QED
  BY <1>4, <1>5, <1>6, <1>7

-----------------------------------------------------------------------------
LEMMA InitFits == Init => FitInv
<1> SUFFICES ASSUME Init PROVE FitInv
  OBVIOUS
<1>1. Terms = {} /\ activeId = None /\ walk = None
  BY DEF Init, Terms, HasTerm
<1>2. TypeOK
  BY SizesAreNat DEF Init, TypeOK
<1>3. TabsAgree /\ RenderedAgrees /\ FrontHasTerm /\ WalkHolds /\ OthersFit
  BY <1>1 DEF Init, TabsAgree, RenderedAgrees, FrontHasTerm, WalkHolds, OthersFit, HasTerm
<1> QED
  BY <1>2, <1>3 DEF FitInv

LEMMA StepFits ==
    ASSUME PromptRender, FitInv, [Next]_vars
    PROVE  FitInv'
<1>1. CASE Page
  <2>1. CASE \E items \in [Id -> Grid \union {None}] : SessionsFrame(items)
    BY <2>1, SessionsFrameKeeps
  <2>2. CASE \E id \in Id, g \in Grid : AttachedFrame(id, g)
    BY <2>2, AttachedFrameKeeps
  <2>3. CASE (\E p \in Pane \union {NoPane} : PaneResized(p)) \/ RefitFires
    BY <2>3, ResizeKeeps
  <2>4. CASE Render
    BY <2>4, RenderKeeps
  <2>5. CASE \E id \in Id : Animates(id)
    BY <2>5, AnimatesKeeps
  <2>6. CASE Shrinks \/ Grows
    BY <2>6, WalkKeeps
  <2> QED
    BY <1>1, <2>1, <2>2, <2>3, <2>4, <2>5, <2>6 DEF Page
<1>2. CASE User
  BY <1>2, UserKeeps
<1>3. CASE UNCHANGED vars
  BY <1>3 DEF vars, settings, terminals, FitInv, TypeOK, TabsAgree, RenderedAgrees,
     FrontHasTerm, WalkHolds, OthersFit, Terms, HasTerm, IsFit, Best, Cap, Overflows
<1> QED
  BY <1>1, <1>2, <1>3 DEF Next

\* For every set of tabs, grids, panes and faces: when no fit is due a terminal
\* is drawn at the size the user chose, and under Auto the one in front at the
\* largest that keeps its last row in the pane (useRemote.ts:415-457, 506-522,
\* 864-919; TerminalHost.tsx:17-42), if every render comes before the next event.
THEOREM TerminalsFitted == PromptRender => (Spec => []Fitted)
<1> SUFFICES ASSUME PromptRender PROVE Spec => []Fitted
  OBVIOUS
<1>1. FitInv => Fitted
  BY DEF FitInv, OthersFit, Fitted
<1> QED
  BY <1>1, InitFits, StepFits, PTL DEF Spec
=============================================================================
