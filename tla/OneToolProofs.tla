---------------------------- MODULE OneToolProofs ---------------------------
(*****************************************************************************)
(* GuiSafe, that is WidgetsSafe and BridgeSafe, and what symbols, sections   *)
(* and relocations of mlink rest on, for inputs of any number and size:      *)
(* trees of widgets, surfaces, keyboards, descriptors, rectangles, objects,  *)
(* sections, fields and addresses.  The other tools are in                   *)
(* OneToolRunsProofs.                                                        *)
(*                                                                           *)
(* Each part has an invariant that its own steps keep, and that stays true   *)
(* while another tool runs: no step of one changes the variables of another. *)
(* What a part's properties need beyond themselves:                          *)
(*   - widgets: the caret follows the focus unless the focused widget was    *)
(*     freed with what was around it (adrift), and a drag is tied to the     *)
(*     button by the phase of the pass;                                      *)
(*   - frames: the framebuffer has the size of the window or there is none;  *)
(*   - bridge: who has an id has a role or had a toplevel, who could be told *)
(*     was told, and what was told is what swm has; as long as no parent     *)
(*     left children, swm has all that the bridge thinks it has;             *)
(*   - launcher: which children live at each of its steps;                   *)
(*   - seat: its three properties together, with the types;                  *)
(*   - descriptors: every one that is open came from the client once, and    *)
(*     the slots and buffers keep those that are open, each in one place;    *)
(*   - popups: at and extent are what the positioner gives;                  *)
(*   - symbols: what a name is in the table after k of the symbols that are  *)
(*     gone through (Stands), which facts hold from which pass on            *)
(*     (LinkRight), and of the walk over the members that what is selected   *)
(*     was wanted and what it has passed is not (LinkSelects);               *)
(*   - layout: nothing but the types; a kind's sections end where the next   *)
(*     kind begins, or before, so each thing ends before all later ones;     *)
(*   - relocations: no more than the properties, once it is known what is    *)
(*     left when a number is wrapped to a field and back to a word.          *)
(*                                                                           *)
(* What the linker, a layout or a list of rules computes are recursive       *)
(* functions of the model.  That there is one with the values that its       *)
(* equation gives is Unrolled, and what holds of all its values is shown     *)
(* with Climb: of the numbers for which it fails the least one would have a  *)
(* smaller one.                                                              *)
(*****************************************************************************)
EXTENDS OneTool, FiniteSetTheorems, SequenceTheorems, WellFoundedInduction, TLAPS

-----------------------------------------------------------------------------
(* Numbers and recursive functions *)

\* A set of numbers that is not empty has a smallest one.
LEMMA SmallestOfNumbers ==
    ASSUME NEW T \in SUBSET Nat, T # {}
    PROVE \E x \in T : \A y \in T : x <= y
<1> DEFINE Less == OpToRel(<, Nat)
<1>1. IsWellFoundedOn(Less, Nat)
  BY NatLessThanWellFounded, Zenon DEF OpToRel
<1>2. \E x \in T : \A y \in T : <<y, x>> \notin Less
  <2> HIDE DEF Less
  <2> QED BY <1>1, WFMin
<1>3. \A x, y \in Nat : <<y, x>> \notin Less => x <= y
  BY DEF OpToRel
<1> HIDE DEF Less
<1> QED BY <1>2, <1>3

\* What holds of 0 and is carried from each number to the next holds up to n.
LEMMA Climb ==
    ASSUME NEW n \in Nat, NEW Bad, Bad \subseteq 0 .. n, 0 \notin Bad,
           \A m \in 1 .. n : m \in Bad => m - 1 \in Bad
    PROVE  Bad = {}
<1> DEFINE Less == {ss \in Nat \X Nat : ss[1] < ss[2]}
<1> SUFFICES ASSUME Bad # {} PROVE FALSE
  OBVIOUS
<1>1. IsWellFoundedOn(Less, Nat)
  BY NatLessThanWellFounded, Zenon DEF OpToRel
<1>2. Bad \subseteq Nat
  OBVIOUS
<1>3. PICK b \in Bad : \A m \in Bad : <<m, b>> \notin Less
  <2> HIDE DEF Less
  <2> QED BY <1>1, <1>2, WFMin
<1>4. b \in 1 .. n
  OBVIOUS
<1>5. b - 1 \in Bad /\ <<b - 1, b>> \in Less
  BY <1>4
<1> QED BY <1>3, <1>5

\* A function whose values are told by those before them
Courses(N, T) == [0 .. N -> T]
ToNext(N, T) == [(0 .. N) \X Courses(N, T) -> T]
LooksBack(N, T, E) ==
    \A n \in 0 .. N : \A f, g \in Courses(N, T) :
        (\A m \in 0 .. n - 1 : f[m] = g[m]) => E[<<n, f>>] = E[<<n, g>>]
Obeys(f, E, m) == \A n \in 0 .. m : f[n] = E[<<n, f>>]
LEMMA ObeyNext ==
    ASSUME NEW N \in Nat, NEW T, NEW E, E \in ToNext(N, T), LooksBack(N, T, E), NEW m \in 1 .. N,
           NEW f \in Courses(N, T), Obeys(f, E, m - 1)
    PROVE \E g \in Courses(N, T) : Obeys(g, E, m)
<1> DEFINE g == [f EXCEPT ![m] = E[<<m, f>>]]
<1>1. m \in 0 .. N /\ E[<<m, f>>] \in T
  BY DEF ToNext
<1>2. g \in Courses(N, T) /\ g[m] = E[<<m, f>>] /\ \A n \in 0 .. m - 1 : g[n] = f[n]
  BY <1>1 DEF Courses
<1> HIDE DEF g
<1>3. ASSUME NEW n \in 0 .. m PROVE g[n] = E[<<n, g>>]
  <2>1. n \in 0 .. N /\ \A k \in 0 .. n - 1 : f[k] = g[k]
    BY <1>2
  <2>2. E[<<n, f>>] = E[<<n, g>>]
    BY <1>2, <2>1, Zenon DEF LooksBack
  <2>3. CASE n = m
    BY <1>2, <2>2, <2>3
  <2>4. CASE n # m
    <3>1. n \in 0 .. m - 1
      BY <2>4
    <3>2. g[n] = f[n] /\ f[n] = E[<<n, f>>]
      BY <1>2, <3>1 DEF Obeys
    <3> QED BY <2>2, <3>2
  <2> QED BY <2>3, <2>4
<1> QED BY <1>2, <1>3 DEF Obeys

LEMMA ObeyFirst ==
    ASSUME NEW N \in Nat, NEW T, NEW s \in T, NEW E, E \in ToNext(N, T), LooksBack(N, T, E)
    PROVE \E g \in Courses(N, T) : Obeys(g, E, 0)
<1> DEFINE h == [n \in 0 .. N |-> s]
           f == [n \in 0 .. N |-> E[<<0, h>>]]
<1>1. h \in Courses(N, T) /\ 0 \in 0 .. N
  BY DEF Courses
<1> HIDE DEF h
<1>2. E[<<0, h>>] \in T
  BY <1>1 DEF ToNext
<1>3. f \in Courses(N, T) /\ f[0] = E[<<0, h>>]
  BY <1>2 DEF Courses
<1> HIDE DEF f
<1>4. \A m \in 0 .. 0 - 1 : h[m] = f[m]
  OBVIOUS
<1>5. E[<<0, h>>] = E[<<0, f>>]
  BY <1>1, <1>3, <1>4, Zenon DEF LooksBack
<1> QED BY <1>3, <1>5 DEF Obeys

LEMMA Recursion ==
    ASSUME NEW N \in Nat, NEW T, NEW s \in T, NEW E, E \in ToNext(N, T), LooksBack(N, T, E)
    PROVE \E f \in Courses(N, T) : Obeys(f, E, N)
<1> DEFINE Bad == {m \in 0 .. N : ~ \E f \in Courses(N, T) : Obeys(f, E, m)}
<1>1. 0 \notin Bad
  BY ObeyFirst
<1>2. ASSUME NEW m \in 1 .. N, m - 1 \notin Bad PROVE m \notin Bad
  <2>1. m - 1 \in 0 .. N
    OBVIOUS
  <2>2. PICK f \in Courses(N, T) : Obeys(f, E, m - 1)
    BY <1>2, <2>1
  <2> QED BY <2>2, ObeyNext
<1>3. Bad = {}
  <2>1. Bad \subseteq 0 .. N
    OBVIOUS
  <2> HIDE DEF Bad
  <2> QED BY <1>1, <1>2, <2>1, Climb
<1>4. N \in 0 .. N
  OBVIOUS
<1> QED BY <1>3, <1>4

\* Each value told by the one before
Onward(N, T) == [(1 .. N) \X T -> T]
Recurs(f, s, E, N) == f[0] = s /\ \A n \in 1 .. N : f[n] = E[<<n, f[n - 1]>>]
LEMMA Recurrence ==
    ASSUME NEW N \in Nat, NEW T, NEW s \in T, NEW E \in Onward(N, T)
    PROVE \E f \in Courses(N, T) : Recurs(f, s, E, N)
<1> DEFINE G == [q \in (0 .. N) \X Courses(N, T) |-> IF q[1] = 0 THEN s ELSE E[<<q[1], q[2][q[1] - 1]>>]]
<1>1. ASSUME NEW n \in 0 .. N, NEW f \in Courses(N, T), n # 0 PROVE E[<<n, f[n - 1]>>] \in T
  <2>1. n - 1 \in 0 .. N /\ n \in 1 .. N
    BY <1>1
  <2> QED BY <2>1 DEF Courses, Onward
<1>2. G \in ToNext(N, T)
  BY <1>1 DEF ToNext
<1>3. ASSUME NEW n \in 0 .. N, NEW f \in Courses(N, T) PROVE G[<<n, f>>] = IF n = 0 THEN s ELSE E[<<n, f[n - 1]>>]
  OBVIOUS
<1> HIDE DEF G
<1>4. ASSUME NEW n \in 0 .. N, NEW f \in Courses(N, T), NEW g \in Courses(N, T), \A m \in 0 .. n - 1 : f[m] = g[m]
      PROVE G[<<n, f>>] = G[<<n, g>>]
  <2>1. n # 0 => n - 1 \in 0 .. n - 1
    OBVIOUS
  <2> QED BY <1>3, <1>4, <2>1
<1>5. LooksBack(N, T, G)
  BY <1>4, Zenon DEF LooksBack
<1>6. PICK f \in Courses(N, T) : Obeys(f, G, N)
  BY <1>2, <1>5, Recursion
<1>7. f[0] = s
  <2>1. 0 \in 0 .. N
    OBVIOUS
  <2>2. f[0] = G[<<0, f>>] /\ G[<<0, f>>] = s
    BY <1>3, <1>6, <2>1 DEF Obeys
  <2> QED BY <2>2
<1>8. ASSUME NEW n \in 1 .. N PROVE f[n] = E[<<n, f[n - 1]>>]
  <2>1. n \in 0 .. N /\ n # 0
    OBVIOUS
  <2> QED BY <1>3, <1>6, <2>1 DEF Obeys
<1> QED BY <1>7, <1>8 DEF Recurs

LEMMA Unrolled ==
    ASSUME NEW N \in Nat, NEW T, NEW s \in T, NEW E \in Onward(N, T)
    PROVE \E f \in Courses(N, T) : f = [k \in 0 .. N |-> IF k = 0 THEN s ELSE E[<<k, f[k - 1]>>]]
<1>1. PICK f \in Courses(N, T) : Recurs(f, s, E, N)
  BY Recurrence
<1>2. f \in [0 .. N -> T] /\ f[0] = s /\ \A n \in 1 .. N : f[n] = E[<<n, f[n - 1]>>]
  BY <1>1 DEF Courses, Recurs
<1>3. \A k \in 0 .. N : k = 0 \/ k \in 1 .. N
  OBVIOUS
<1> QED BY <1>2, <1>3

-----------------------------------------------------------------------------
(* Widgets *)

RanalInv ==
    /\ phase \in {"app", "pump", "callback", "drags"}
    /\ adrift \in BOOLEAN
    /\ under \in live \cup {R!None}
    /\ R!None \notin live
    /\ R!FocusExists
    \* The caret is where the keys go, and on nothing when that was freed.
    /\ caret = IF adrift THEN {} ELSE {focused} \cap live
    \* While a slider is dragged the button is held, or its release is still to be read.
    /\ phase = "app" /\ dragging # {} => curr
    /\ phase = "pump" /\ dragging # {} => prev
    /\ phase \in {"callback", "drags"} /\ dragging # {} => prev \/ curr

LEMMA RanalInit == R!Init => RanalInv
BY RanalAssumption DEF R!Init, RanalInv, R!FocusExists, R!None

\* What is freed loses its caret, and the pointer goes elsewhere.
LEMMA RanalFreed ==
    ASSUME NEW W, RanalInv, R!Freed(W), R!AppKeeps
    PROVE /\ under' \in live' \cup {R!None} /\ R!None \notin live'
          /\ live' = live \ W /\ caret' = caret \ W /\ dragging' \subseteq dragging
          /\ phase' = phase /\ prev' = prev /\ curr' = curr
BY DEF RanalInv, R!Freed, R!AppKeeps, R!Hittable

LEMMA RanalStep == ASSUME RanalInv, R!Next PROVE RanalInv'
<1> USE DEF R!FocusExists
<1>1. ASSUME NEW w \in R!Widgets, R!CreateWidget(w) PROVE RanalInv'
  BY <1>1, RanalAssumption DEF RanalInv, R!CreateWidget, R!AppKeeps, R!focusVars
<1>2. ASSUME NEW w \in R!Widgets, R!DestroyWidget(w) PROVE RanalInv'
  <2> DEFINE W == R!Below(w)
  <2>1. /\ R!Freed(W) /\ R!AppKeeps
        /\ focused' = IF focused = w THEN R!None ELSE focused
        /\ adrift' = (focused # w /\ (adrift \/ focused \in W))
    BY <1>2 DEF R!DestroyWidget
  <2>2. w \in W /\ w # R!None
    BY RanalAssumption DEF R!Below
  <2> HIDE DEF W
  <2>3. /\ under' \in live' \cup {R!None} /\ R!None \notin live'
        /\ live' = live \ W /\ caret' = caret \ W /\ dragging' \subseteq dragging
        /\ phase' = phase /\ prev' = prev /\ curr' = curr
    BY <2>1, RanalFreed
  <2>4. adrift' \in BOOLEAN
    BY <2>1, Zenon
  <2>5. CASE focused = w
    <3>1. focused' = R!None /\ ~ adrift' /\ caret' = {}
      BY <2>1, <2>2, <2>3, <2>5 DEF RanalInv
    <3> QED BY <2>3, <2>4, <3>1 DEF RanalInv
  <2>6. CASE focused # w
    <3>1. focused' = focused /\ (adrift' <=> adrift \/ focused \in W)
      BY <2>1, <2>6
    <3> QED BY <2>3, <2>4, <3>1 DEF RanalInv
  <2> QED BY <2>5, <2>6
<1>3. ASSUME NEW m \in Popups, R!PopupClose(m) PROVE RanalInv'
  <2> DEFINE W == R!Below(m)
  <2>1. /\ R!Freed(W) /\ R!AppKeeps /\ focused' = focused
        /\ adrift' = (adrift \/ focused \in W)
    BY <1>3 DEF R!PopupClose
  <2> HIDE DEF W
  <2>2. /\ under' \in live' \cup {R!None} /\ R!None \notin live'
        /\ live' = live \ W /\ caret' = caret \ W /\ dragging' \subseteq dragging
        /\ phase' = phase /\ prev' = prev /\ curr' = curr
    BY <2>1, RanalFreed
  <2>3. adrift' \in BOOLEAN
    BY <2>1, Zenon
  <2>4. adrift' <=> adrift \/ focused \in W
    BY <2>1
  <2> QED BY <2>1, <2>2, <2>3, <2>4 DEF RanalInv
<1>4. ASSUME NEW w \in R!Widgets, R!SetVisible(w) PROVE RanalInv'
  BY <1>4 DEF RanalInv, R!SetVisible, R!AppKeeps, R!focusVars, R!Hittable
<1>5. ASSUME NEW w \in R!Widgets, R!SetEnabled(w) \/ R!CheckboxSet(w) PROVE RanalInv'
  BY <1>5 DEF RanalInv, R!SetEnabled, R!CheckboxSet, R!AppKeeps, R!focusVars
<1>6. CASE R!PassBegin
  BY <1>6 DEF RanalInv, R!PassBegin, R!treeVars, R!focusVars
<1>7. ASSUME NEW w \in R!Hittable(live, hidden), R!PointerMotion(w) PROVE RanalInv'
  BY <1>7 DEF RanalInv, R!PointerMotion, R!PumpKeeps, R!treeVars, R!focusVars, R!Hittable
<1>8. CASE R!PointerButton
  BY <1>8 DEF RanalInv, R!PointerButton, R!PumpKeeps, R!treeVars, R!focusVars
<1>9. CASE R!KeyReturn
  BY <1>9 DEF RanalInv, R!KeyReturn, R!PumpKeeps, R!treeVars
<1>10. CASE R!Pass
  <2>1. /\ phase = "pump" /\ phase' \in {"callback", "drags"}
        /\ UNCHANGED <<live, prev, curr, under>>
    BY <1>10 DEF R!Pass
  <2>2. dragging' # {} => prev \/ curr
    BY <1>10 DEF R!Pass, R!Pressed, RanalInv
  <2>3. CASE R!Pressed /\ under \in Textboxes \ disabled
    <3>1. focused' = under /\ caret' = {under} /\ adrift' = FALSE
      <4>1. R!Focus(under)
        BY <1>10, <2>3 DEF R!Pass
      <4>2. under # R!None
        BY <2>3, RanalAssumption DEF R!Widgets
      <4> QED BY <4>1, <4>2, <2>3 DEF R!Focus
    <3>2. under \in live
      BY <2>3, RanalAssumption DEF RanalInv, R!Widgets
    <3> QED BY <2>1, <2>2, <3>1, <3>2 DEF RanalInv
  <2>4. CASE R!Pressed /\ under \notin Textboxes \ disabled /\ under = R!None
    <3>1. /\ focused' \in IF adrift THEN {R!None, focused} ELSE {R!None}
          /\ caret' = {} /\ adrift' = (focused' # R!None)
      <4>1. R!Focus(under)
        BY <1>10, <2>4 DEF R!Pass
      <4> QED BY <4>1, <2>4, Zenon DEF R!Focus
    <3>2. adrift' \in BOOLEAN /\ (focused' # R!None <=> adrift')
      BY <3>1, Zenon
    <3>3. caret' = IF adrift' THEN {} ELSE {focused'} \cap live'
      BY <2>1, <3>1, <3>2 DEF RanalInv
    <3> QED BY <2>1, <2>2, <3>2, <3>3 DEF RanalInv
  <2>5. CASE ~ R!Pressed \/ (under \notin Textboxes \ disabled /\ under # R!None)
    <3>1. UNCHANGED <<focused, caret, adrift>>
      BY <1>10, <2>5 DEF R!Pass, R!Focus, R!focusVars
    <3> QED BY <2>1, <2>2, <3>1 DEF RanalInv
  <2> QED BY <2>3, <2>4, <2>5
<1>11. CASE R!CallbackReturns
  BY <1>11 DEF RanalInv, R!CallbackReturns, R!treeVars, R!focusVars
<1>12. CASE R!PassEnd
  BY <1>12 DEF RanalInv, R!PassEnd, R!Drags, R!Released, R!treeVars, R!focusVars, R!Hittable
<1> QED BY <1>1, <1>2, <1>3, <1>4, <1>5, <1>6, <1>7, <1>8, <1>9, <1>10, <1>11, <1>12
     DEF R!Next, R!AppStep, R!EventStep, R!PassStep

LEMMA RanalStays == ASSUME RanalInv, UNCHANGED ranalVars PROVE RanalInv'
BY DEF RanalInv, ranalVars, R!FocusExists

LEMMA RanalIsSafe == ASSUME RanalInv PROVE R!FocusExists /\ R!CaretIsFocus /\ R!DragsHeld
BY DEF RanalInv, R!CaretIsFocus, R!DragsHeld

FrameInv ==
    /\ stage = "new" => presented = 0
    /\ presented \in 0 .. 2 /\ win \in 0 .. MaxSize
    /\ fb \in {win, F!NoFb} /\ F!WholeCopy
    /\ ~ dirty /\ presented = 2 /\ ~ silent => shown \/ away \/ paused \/ resume
    /\ F!PopupSurfaces

LEMMA FrameInit == F!Init => FrameInv
BY FrameAssumption DEF F!Init, FrameInv, F!WholeCopy, F!PopupSurfaces

LEMMA FrameStep == ASSUME FrameInv, F!Next PROVE FrameInv'
<1> USE FrameAssumption DEF F!WholeCopy, F!PopupSurfaces, F!frameVars, F!vt, F!VtKeeps, F!NoFb
<1>1. CASE F!Start
  BY <1>1 DEF FrameInv, F!Start
<1>2. CASE F!SetWidget \/ F!CreateOrDestroy \/ F!Close \/ F!Event
  BY <1>2 DEF FrameInv, F!SetWidget, F!CreateOrDestroy, F!Close, F!Event, F!AppKeeps, F!Changed
<1>3. ASSUME NEW m \in Bubbles, F!Popup(m) \/ F!PopupClose(m) PROVE FrameInv'
  BY <1>3 DEF FrameInv, F!Popup, F!PopupClose, F!AppKeeps, F!Changed
<1>4. ASSUME NEW s \in 0 .. MaxSize, F!Configure(s) PROVE FrameInv'
  BY <1>4 DEF FrameInv, F!Configure, F!Changed
<1>5. CASE F!FrameBegin \/ F!Rest \/ F!DrawFails
  BY <1>5 DEF FrameInv, F!FrameBegin, F!Rest, F!DrawFails
<1>6. CASE F!Draw
  <2>1. mode = "swm" => fb = win
    BY <1>6 DEF FrameInv, F!Draw
  <2>2. psurf' \subseteq popups
    BY <1>6 DEF FrameInv, F!Draw, F!Presented
  <2>3. /\ stage' # "new" /\ presented' \in 0 .. 2
        /\ UNCHANGED <<mode, win, fb, popups>>
    BY <1>6 DEF FrameInv, F!Draw, F!Drawn, F!Presented
  <2>4. (shown \/ away \/ paused \/ resume)'
    <3>1. shown' = TRUE \/ F!Flipped
      BY <1>6 DEF F!Draw, F!Presented
    <3>2. CASE F!Flipped
      <4>1. shown' = (~ paused' /\ ~ away) /\ away' = away
        BY <3>2 DEF F!Flipped
      <4> QED BY <4>1, Zenon
    <3> QED BY <3>1, <3>2
  <2> QED BY <2>1, <2>2, <2>3, <2>4 DEF FrameInv
<1>7. CASE F!Shutdown
  BY <1>7 DEF FrameInv, F!Shutdown
<1>8. CASE F!SwitchAway \/ F!SwitchBack
  BY <1>8 DEF FrameInv, F!SwitchAway, F!SwitchBack
<1> QED BY <1>1, <1>2, <1>3, <1>4, <1>5, <1>6, <1>7, <1>8 DEF F!Next, F!FrameStep

LEMMA FrameStays == ASSUME FrameInv, UNCHANGED frameVars PROVE FrameInv'
BY DEF FrameInv, frameVars, F!WholeCopy, F!PopupSurfaces

LEMMA FrameIsSafe == ASSUME FrameInv PROVE F!ShownWhenIdle /\ F!PopupSurfaces /\ F!WholeCopy
BY DEF FrameInv, F!ShownWhenIdle

-----------------------------------------------------------------------------
(* The bridge *)

BridgeTypes ==
    /\ role \subseteq exists /\ exists \subseteq B!Surfaces
    /\ parent \in [B!Surfaces -> B!Surfaces \cup {B!None}]
    /\ sprot \in [B!Surfaces -> {"none", "asked", "made"}]
    /\ told \subseteq B!Surfaces /\ freq \subseteq exists /\ put \subseteq exists /\ unanswered \subseteq exists
    /\ visible \subseteq has /\ has \subseteq B!Surfaces
    /\ placed \in [B!Surfaces -> B!Surfaces \cup {"top", B!None}]
    /\ error \in BOOLEAN /\ orphaned \in BOOLEAN

\* A toplevel has no parent; what has a surface of swm has a role, or had a toplevel.
RolesInv ==
    /\ \A s \in Tops : parent[s] = B!None
    /\ \A s \in B!Surfaces : sprot[s] # "none" => s \in role \cup Tops

\* A surface is told of once it and its parent have ids, and what was told is what swm has.
ToldInv ==
    /\ \A s \in told : sprot[s] = "made"
    /\ \A s \in B!Surfaces : sprot[s] = "made" /\ B!Ready(s, sprot) => s \in told
    /\ \A s \in told \cap has : placed[s] = IF s \in Tops THEN "top" ELSE parent[s]

DeferredInv == \A s \in put : sprot[s] = "made" => ~ B!Ready(s, sprot)

FramesInv ==
    /\ B!FramesOwed
    /\ \A s \in freq : sprot[s] = "none" => s \in again

OrphansInv ==
    /\ ~ orphaned => \A s \in B!Surfaces : sprot[s] # "none" => s \in has
    /\ B!KilledAfterOrphans

BridgeInv == BridgeTypes /\ RolesInv /\ ToldInv /\ DeferredInv /\ FramesInv /\ OrphansInv /\ B!InitialCommitAnswered

LEMMA BridgeInit == B!Init => BridgeInv
BY DEF B!Init, BridgeInv, BridgeTypes, RolesInv, ToldInv, DeferredInv, FramesInv, OrphansInv, B!InitialCommitAnswered,
       B!FramesOwed, B!KilledAfterOrphans, B!Surfaces

\* The part that needs only the roles, the ids and what was told.
RoleParts == RolesInv /\ ToldInv /\ DeferredInv

\* A request that touches neither roles nor ids.
LEMMA SameRoles ==
    ASSUME RoleParts, UNCHANGED <<role, parent, sprot, told, has, placed>>, put' \subseteq put
    PROVE RoleParts'
BY DEF RoleParts, RolesInv, ToldInv, DeferredInv, B!Ready, B!Child

LEMMA SameBridge ==
    ASSUME BridgeInv, UNCHANGED <<exists, role, parent, sprot, told, put, freq, unanswered, has, visible, owed,
                                  placed, error, again, orphaned>>
    PROVE BridgeInv'
BY DEF BridgeInv, BridgeTypes, RolesInv, ToldInv, DeferredInv, FramesInv, OrphansInv, B!InitialCommitAnswered,
       B!FramesOwed, B!KilledAfterOrphans, B!Ready, B!Child

\* What is left in swm is as it was; nothing else is gone when nothing is orphaned.
LEMMA Loses ==
    ASSUME BridgeTypes, NEW s \in B!Surfaces, B!SwmLoses(s)
    PROVE /\ has' \subseteq has \ {s} /\ visible' \subseteq has' /\ orphaned' \in BOOLEAN /\ error' = error
          /\ placed' \in [B!Surfaces -> B!Surfaces \cup {"top", B!None}]
          /\ \A x \in has' : placed'[x] = placed[x] /\ (x \in owed => x \in owed')
          /\ ~ orphaned' => ~ orphaned /\ has' = has \ {s}
<1> DEFINE gone == IF sprot[s] = "made" THEN B!Tree({s} \cap has) ELSE {}
<1>1. /\ has' = has \ (gone \cup {s}) /\ visible' = visible \ (gone \cup {s}) /\ owed' = owed \ (gone \cup {s})
      /\ placed' = [x \in B!Surfaces |-> IF x \in gone \cup {s} THEN B!None ELSE placed[x]]
      /\ orphaned' = (orphaned \/ gone \ {s} # {}) /\ error' = error
  BY DEF B!SwmLoses
<1> HIDE DEF gone
<1>2. orphaned' \in BOOLEAN
  BY <1>1, Zenon
<1> QED BY <1>1, <1>2 DEF BridgeTypes

LEMMA BridgeStep == ASSUME BridgeInv, B!Next PROVE BridgeInv'
<1> USE DEF BridgeInv
<1>1. RoleParts
  BY DEF RoleParts
<1>2. CASE B!Join
  BY <1>2, SameBridge DEF B!Join, B!requestVars, B!frameVars, B!swmVars, B!ghosts
<1>3. CASE B!Leave
  BY <1>3 DEF B!Leave, BridgeTypes, RolesInv, ToldInv, DeferredInv, FramesInv, OrphansInv, B!InitialCommitAnswered,
       B!FramesOwed, B!KilledAfterOrphans, B!Surfaces
<1>4. ASSUME NEW s \in B!Surfaces, B!CreateSurface(s) PROVE BridgeInv'
  <2>1. /\ s \notin exists /\ exists' = exists \cup {s} /\ again' = again \ {s}
        /\ UNCHANGED <<role, parent, sprot, told, put, freq, unanswered, has, visible, owed, placed, error, orphaned>>
    BY <1>4 DEF B!CreateSurface, B!frameVars, B!swmVars
  <2>2. BridgeTypes'
    BY <2>1 DEF BridgeTypes
  <2>3. FramesInv' /\ B!InitialCommitAnswered'
    BY <2>1 DEF FramesInv, B!FramesOwed, B!InitialCommitAnswered, BridgeTypes
  <2>4. OrphansInv'
    BY <2>1 DEF OrphansInv, B!KilledAfterOrphans
  <2> QED BY <1>1, <2>1, <2>2, <2>3, <2>4, SameRoles DEF RoleParts
<1>5. ASSUME NEW s \in B!Surfaces, B!DestroySurface(s) PROVE BridgeInv'
  <2>1. /\ ~ error /\ exists' = exists \ {s} /\ role' = role \ {s}
        /\ parent' = [x \in B!Surfaces |-> IF x = s \/ parent[x] = s THEN B!None ELSE parent[x]]
        /\ sprot' = [sprot EXCEPT ![s] = "none"] /\ told' = told \ B!Around(s) /\ put' = put \ {s}
        /\ freq' = freq \ {s} /\ unanswered' = unanswered \ {s} /\ again' = again
    BY <1>5 DEF B!DestroySurface, B!Quiet
  <2>2. B!SwmLoses(s)
    BY <1>5 DEF B!DestroySurface
  <2>3. BridgeTypes'
    BY <2>1, <2>2, Loses DEF BridgeTypes
  <2>4. \A x \in B!Surfaces : sprot'[x] = IF x = s THEN "none" ELSE sprot[x]
    BY <2>1 DEF BridgeTypes
  <2>5. RolesInv'
    BY <2>1, <2>4 DEF RolesInv, B!Surfaces
  <2>6. ASSUME NEW x \in B!Surfaces, sprot'[x] = "made", (B!Ready(x, sprot))'
        PROVE x # s /\ sprot[x] = "made" /\ B!Ready(x, sprot) /\ parent[x] # s
    <3>1. x # s /\ sprot[x] = "made"
      BY <2>4, <2>6
    <3>2. parent[x] # s
      <4>1. CASE x \in Tops
        BY <4>1, SurfacesAssumption DEF RolesInv
      <4>2. CASE x \notin Tops
        BY <2>1, <2>6, <3>1, <4>2 DEF RolesInv, B!Ready, B!Child
      <4> QED BY <4>1, <4>2
    <3> QED BY <2>1, <2>4, <2>6, <3>1, <3>2 DEF B!Ready, B!Child, BridgeTypes
  <2>7. ToldInv'
    <3>1. \A x \in told' : x \in told /\ x # s /\ parent[x] # s /\ x \in B!Surfaces
      BY <2>1 DEF B!Around, BridgeTypes
    <3>2. \A x \in B!Surfaces : x # s /\ parent[x] # s => parent'[x] = parent[x]
      BY <2>1
    <3>3. \A x \in told' : sprot'[x] = "made"
      BY <2>4, <3>1 DEF ToldInv
    <3>4. \A x \in B!Surfaces : sprot'[x] = "made" /\ (B!Ready(x, sprot))' => x \in told'
      BY <2>1, <2>6 DEF ToldInv, B!Around
    <3>5. \A x \in told' \cap has' : placed'[x] = IF x \in Tops THEN "top" ELSE parent'[x]
      BY <2>2, <3>1, <3>2, Loses DEF ToldInv
    <3> QED BY <3>3, <3>4, <3>5 DEF ToldInv
  <2>8. DeferredInv'
    BY <2>1, <2>6 DEF DeferredInv, BridgeTypes
  <2>9. FramesInv' /\ B!InitialCommitAnswered'
    BY <2>1, <2>2, <2>4, Loses DEF FramesInv, B!FramesOwed, B!InitialCommitAnswered, BridgeTypes
  <2>10. OrphansInv'
    BY <2>1, <2>2, <2>4, Loses DEF OrphansInv, B!KilledAfterOrphans
  <2> QED BY <2>3, <2>5, <2>7, <2>8, <2>9, <2>10
<1>6. ASSUME NEW s \in B!Surfaces, NEW p \in B!Surfaces \cup {B!None}, B!GetRole(s, p) PROVE BridgeInv'
  <2>1. /\ s \in exists \ role /\ role' = role \cup {s} /\ parent' = [parent EXCEPT ![s] = p]
        /\ s \in Tops => p = B!None
        /\ UNCHANGED <<exists, sprot, told, put, freq, unanswered, has, visible, owed, placed, error, again, orphaned>>
    BY <1>6 DEF B!GetRole, B!frameVars, B!swmVars, B!ghosts
  <2>2. BridgeTypes'
    BY <2>1 DEF BridgeTypes
  <2>3. \A x \in B!Surfaces : parent'[x] = IF x = s THEN p ELSE parent[x]
    BY <2>1 DEF BridgeTypes
  <2>4. RolesInv'
    BY <2>1, <2>3 DEF RolesInv, B!Surfaces
  <2>5. ASSUME NEW x \in B!Surfaces, sprot[x] = "made"
        PROVE /\ (B!Ready(x, sprot))' <=> B!Ready(x, sprot)
              /\ x \notin Tops => parent'[x] = parent[x]
    <3>1. x # s \/ s \in Tops
      BY <2>1, <2>5 DEF RolesInv
    <3> QED BY <2>1, <2>3, <3>1 DEF B!Ready, B!Child
  <2>6. ToldInv' /\ DeferredInv'
    BY <2>1, <2>5 DEF ToldInv, DeferredInv, BridgeTypes
  <2>7. FramesInv' /\ B!InitialCommitAnswered' /\ OrphansInv'
    BY <2>1 DEF FramesInv, B!FramesOwed, B!InitialCommitAnswered, OrphansInv, B!KilledAfterOrphans
  <2> QED BY <2>2, <2>4, <2>6, <2>7
<1>7. ASSUME NEW s \in B!Surfaces, B!DropRole(s) PROVE BridgeInv'
  <2>1. /\ ~ error /\ s \in role \ Tops /\ role' = role \ {s} /\ parent' = [parent EXCEPT ![s] = B!None]
        /\ again' = again \cup {s} /\ sprot' = [sprot EXCEPT ![s] = "none"] /\ told' = told \ B!Around(s)
        /\ UNCHANGED <<exists, put, freq, unanswered>>
    BY <1>7 DEF B!DropRole, B!Quiet, B!frameVars
  <2>2. B!SwmLoses(s)
    BY <1>7 DEF B!DropRole
  <2>3. BridgeTypes'
    BY <2>1, <2>2, Loses DEF BridgeTypes
  <2>4. \A x \in B!Surfaces : /\ sprot'[x] = (IF x = s THEN "none" ELSE sprot[x])
                              /\ parent'[x] = IF x = s THEN B!None ELSE parent[x]
    BY <2>1 DEF BridgeTypes
  <2>5. RolesInv'
    BY <2>1, <2>4 DEF RolesInv, B!Surfaces
  <2>6. ASSUME NEW x \in B!Surfaces, sprot'[x] = "made", (B!Ready(x, sprot))'
        PROVE x # s /\ sprot[x] = "made" /\ B!Ready(x, sprot) /\ parent[x] # s
    <3>1. x # s /\ sprot[x] = "made"
      BY <2>4, <2>6
    <3>2. parent[x] # s
      <4>1. CASE x \in Tops
        BY <4>1, SurfacesAssumption DEF RolesInv
      <4>2. CASE x \notin Tops
        BY <2>1, <2>4, <2>6, <3>1, <4>2 DEF RolesInv, B!Ready, B!Child
      <4> QED BY <4>1, <4>2
    <3> QED BY <2>1, <2>4, <2>6, <3>1, <3>2 DEF B!Ready, B!Child, BridgeTypes
  <2>7. ToldInv'
    <3>1. \A x \in told' : x \in told /\ x # s /\ x \in B!Surfaces
      BY <2>1 DEF B!Around, BridgeTypes
    <3>2. \A x \in told' : sprot'[x] = "made"
      BY <2>4, <3>1 DEF ToldInv
    <3>3. \A x \in B!Surfaces : sprot'[x] = "made" /\ (B!Ready(x, sprot))' => x \in told'
      BY <2>1, <2>6 DEF ToldInv, B!Around
    <3>4. \A x \in told' \cap has' : placed'[x] = IF x \in Tops THEN "top" ELSE parent'[x]
      BY <2>2, <2>4, <3>1, Loses DEF ToldInv
    <3> QED BY <3>2, <3>3, <3>4 DEF ToldInv
  <2>8. DeferredInv'
    BY <2>1, <2>6 DEF DeferredInv, BridgeTypes
  <2>9. FramesInv' /\ B!InitialCommitAnswered'
    BY <2>1, <2>2, <2>4, Loses DEF FramesInv, B!FramesOwed, B!InitialCommitAnswered, BridgeTypes
  <2>10. OrphansInv'
    BY <2>1, <2>2, <2>4, Loses DEF OrphansInv, B!KilledAfterOrphans
  <2> QED BY <2>3, <2>5, <2>7, <2>8, <2>9, <2>10
<1>8. ASSUME NEW s \in B!Surfaces, B!DropToplevel(s) PROVE BridgeInv'
  <2>1. /\ s \in role \cap Tops /\ role' = role \ {s} /\ again' = again \cup {s} /\ unanswered' = unanswered \ {s}
        /\ UNCHANGED <<exists, parent, sprot, told, put, freq, has, visible, owed, placed, error, orphaned>>
    BY <1>8 DEF B!DropToplevel, B!frameVars, B!swmVars
  <2>2. BridgeTypes'
    BY <2>1 DEF BridgeTypes
  <2>3. \A x \in B!Surfaces : (B!Ready(x, sprot))' <=> B!Ready(x, sprot)
    BY <2>1 DEF B!Ready, B!Child
  <2>4. RolesInv' /\ ToldInv' /\ DeferredInv'
    BY <2>1, <2>3 DEF RolesInv, ToldInv, DeferredInv, BridgeTypes
  <2>5. FramesInv' /\ B!InitialCommitAnswered' /\ OrphansInv'
    BY <2>1 DEF FramesInv, B!FramesOwed, B!InitialCommitAnswered, OrphansInv, B!KilledAfterOrphans
  <2> QED BY <2>2, <2>4, <2>5
<1>9. ASSUME NEW s \in B!Surfaces, B!AskFrame(s) PROVE BridgeInv'
  BY <1>9, SameBridge DEF B!AskFrame, B!requestVars, B!frameVars, B!swmVars, B!ghosts
<1>10. ASSUME NEW s \in B!Surfaces, B!CommitUnroled(s) PROVE BridgeInv'
  <2>1. /\ freq' = freq \ {s}
        /\ UNCHANGED <<exists, role, parent, sprot, told, put, unanswered, has, visible, owed, placed, error, again, orphaned>>
    BY <1>10 DEF B!CommitUnroled, B!CommitKeeps, B!requestVars, B!ghosts
  <2>2. BridgeTypes' /\ FramesInv' /\ B!InitialCommitAnswered' /\ OrphansInv'
    BY <2>1 DEF BridgeTypes, FramesInv, B!FramesOwed, B!InitialCommitAnswered, OrphansInv, B!KilledAfterOrphans
  <2> QED BY <1>1, <2>1, <2>2, SameRoles DEF RoleParts
<1>11. ASSUME NEW s \in B!Surfaces, B!CommitEmpty(s) PROVE BridgeInv'
  <2>1. /\ s \in role /\ freq' \subseteq freq
        /\ unanswered' = unanswered \/ (s \in again /\ unanswered' = unanswered \cup {s})
        /\ UNCHANGED <<exists, role, parent, sprot, told, put, has, visible, owed, placed, error, again, orphaned>>
    BY <1>11 DEF B!CommitEmpty, B!CommitKeeps, B!requestVars, B!frameVars, B!ghosts
  <2>2. BridgeTypes' /\ FramesInv' /\ B!InitialCommitAnswered' /\ OrphansInv'
    BY <2>1 DEF BridgeTypes, FramesInv, B!FramesOwed, B!InitialCommitAnswered, OrphansInv, B!KilledAfterOrphans
  <2> QED BY <1>1, <2>1, <2>2, SameRoles DEF RoleParts
<1>12. ASSUME NEW s \in B!Surfaces, B!CommitBuffer(s) PROVE BridgeInv'
  <2>1. /\ ~ error /\ s \in role
        /\ sprot' = [sprot EXCEPT ![s] = IF @ = "none" THEN "asked" ELSE @]
        /\ has' = has \cup IF sprot[s] = "none" THEN {s} ELSE {}
        /\ placed' = [placed EXCEPT ![s] = IF sprot[s] = "none" THEN B!None ELSE @]
        /\ UNCHANGED <<exists, role, parent, told, unanswered, again, orphaned>>
    BY <1>12 DEF B!CommitBuffer, B!Quiet, B!requestVars, B!ghosts
  <2>2. \/ sprot[s] = "made" /\ B!Ready(s, sprot) /\ B!Passed({s}, FALSE) /\ put' = put
        \/ /\ ~ (sprot[s] = "made" /\ B!Ready(s, sprot)) /\ put' = put \cup {s}
           /\ UNCHANGED <<visible, error, freq, owed>>
    BY <1>12 DEF B!CommitBuffer
  <2>3. \A x \in B!Surfaces : /\ sprot'[x] = "made" <=> sprot[x] = "made"
                              /\ sprot'[x] = "none" => sprot[x] = "none" /\ x # s
                              /\ sprot[x] = "none" => sprot'[x] = "none" \/ x = s
    BY <2>1 DEF BridgeTypes
  <2>4. \A x \in B!Surfaces : (B!Ready(x, sprot))' <=> B!Ready(x, sprot)
    BY <2>1, <2>3 DEF B!Ready, B!Child, BridgeTypes
  <2>5. error' \in BOOLEAN /\ (error' => ~ {s} \subseteq has /\ sprot[s] = "made")
    <3>1. CASE error' = error
      BY <2>1, <3>1 DEF BridgeTypes
    <3>2. CASE sprot[s] = "made" /\ B!Passed({s}, FALSE)
      <4>1. error' = (error \/ FALSE \/ ~ {s} \subseteq has)
        BY <3>2 DEF B!Passed
      <4>2. error' \in BOOLEAN
        BY <4>1, Zenon
      <4> QED BY <2>1, <3>2, <4>1, <4>2
    <3> QED BY <2>2, <3>1, <3>2
  <2>6. /\ visible' \subseteq visible \cup ({s} \cap has) /\ freq' \subseteq freq \cup {s} /\ put' \subseteq put \cup {s}
        /\ \A x \in has : x \in owed => x \in owed'
        /\ s \in freq' \ freq => sprot[s] = "made" /\ (s \in has => s \in owed')
        /\ s \in put' \ put => ~ (sprot[s] = "made" /\ B!Ready(s, sprot))
    BY <2>2 DEF B!Passed
  <2>7. BridgeTypes'
    BY <2>1, <2>5, <2>6 DEF BridgeTypes
  <2>8. RolesInv'
    BY <2>1, <2>3 DEF RolesInv, B!Surfaces
  <2>9. ToldInv'
    <3>1. \A x \in told : sprot[x] = "made" /\ placed'[x] = placed[x] /\ (x \in has' => x \in has)
      BY <2>1 DEF ToldInv, BridgeTypes
    <3> QED BY <2>1, <2>3, <2>4, <3>1 DEF ToldInv, BridgeTypes
  <2>10. DeferredInv'
    <3>1. ASSUME NEW x \in put', sprot'[x] = "made", (B!Ready(x, sprot))' PROVE FALSE
      <4>1. x \in B!Surfaces
        BY <2>1, <2>6, <3>1 DEF BridgeTypes, RolesInv
      <4>2. sprot[x] = "made" /\ B!Ready(x, sprot)
        BY <2>1, <2>3, <3>1, <4>1 DEF B!Ready, B!Child, BridgeTypes
      <4>3. x \notin put
        BY <4>2 DEF DeferredInv
      <4>4. x = s /\ s \in put' \ put
        BY <2>6, <3>1, <4>3
      <4> QED BY <2>6, <4>2, <4>4
    <3> QED BY <3>1 DEF DeferredInv
  <2>11. FramesInv' /\ B!InitialCommitAnswered'
    <3>1. \A x \in has' : x \in has \/ (x = s /\ sprot[s] = "none")
      BY <2>1
    <3> QED BY <2>1, <2>3, <2>6, <3>1 DEF FramesInv, B!FramesOwed, B!InitialCommitAnswered, BridgeTypes
  <2>12. OrphansInv'
    <3>1. error' => orphaned
      BY <2>1, <2>5 DEF OrphansInv
    <3>2. ~ orphaned => \A x \in B!Surfaces : sprot'[x] # "none" => x \in has'
      BY <2>1, <2>3 DEF OrphansInv
    <3> QED BY <2>1, <3>1, <3>2 DEF OrphansInv, B!KilledAfterOrphans
  <2> QED BY <2>7, <2>8, <2>9, <2>10, <2>11, <2>12
<1>13. ASSUME NEW s \in B!Surfaces, B!Reposition(s) PROVE BridgeInv'
  <2>1. /\ B!Child(s) /\ sprot[s] = "made" /\ B!Ready(s, sprot) /\ s \notin told /\ told' = told \cup {s}
        /\ placed' = [placed EXCEPT ![s] = IF s \in has THEN parent[s] ELSE @]
        /\ error' = (s \in has /\ parent[s] \notin has)
        /\ UNCHANGED <<exists, role, parent, sprot, put, freq, unanswered, has, visible, owed, again, orphaned>>
    BY <1>13 DEF B!Reposition, B!requestVars, B!frameVars, B!ghosts
  <2>2. error' \in BOOLEAN
    BY <2>1, Zenon
  <2>3. BridgeTypes'
    BY <2>1, <2>2 DEF BridgeTypes
  <2>4. \A x \in B!Surfaces : (B!Ready(x, sprot))' <=> B!Ready(x, sprot)
    BY <2>1 DEF B!Ready, B!Child
  <2>5. RolesInv' /\ DeferredInv'
    BY <2>1, <2>4 DEF RolesInv, DeferredInv, BridgeTypes
  <2>6. ToldInv'
    BY <2>1, <2>4 DEF ToldInv, BridgeTypes, B!Child
  <2>7. FramesInv' /\ B!InitialCommitAnswered'
    BY <2>1 DEF FramesInv, B!FramesOwed, B!InitialCommitAnswered
  <2>8. error' => orphaned
    <3>1. parent[s] \in B!Surfaces /\ sprot[parent[s]] = "made"
      BY <2>1 DEF B!Ready, BridgeTypes
    <3> QED BY <2>1, <3>1 DEF OrphansInv
  <2>9. OrphansInv'
    BY <2>1, <2>8 DEF OrphansInv, B!KilledAfterOrphans
  <2> QED BY <2>3, <2>5, <2>6, <2>7, <2>9
<1>14. ASSUME NEW s \in B!Surfaces, B!Created(s) PROVE BridgeInv'
  <2> DEFINE W == B!Waiting(s)
             go == {x \in W : B!Ready(x, sprot')}
             wrong == \E x \in (go \ told) \cap has : B!Child(x) /\ parent[x] \notin has
             ask == ((go \cap put) \cap calls) \ freq
  <2>1. /\ ~ error /\ sprot[s] = "asked" /\ sprot' = [sprot EXCEPT ![s] = "made"]
        /\ UNCHANGED <<exists, role, parent, unanswered, has, again, orphaned>>
    BY <1>14 DEF B!Created, B!Quiet, B!requestVars, B!ghosts
  <2>2. /\ told' = told \cup go /\ put' = put \ go
        /\ placed' = [x \in B!Surfaces |-> IF x \in (go \ told) \cap has THEN B!Place(x) ELSE placed[x]]
    BY <1>14 DEF B!Created, B!Flush
  <2>3. /\ visible' = visible \cup ((go \cap put) \cap has) /\ freq' = freq \cup ask /\ owed' = owed \cup (ask \cap has)
        /\ error' = (error \/ wrong \/ ~ (go \cap put) \subseteq has)
    BY <1>14 DEF B!Created, B!Flush, B!Passed
  <2>4. \A x \in B!Surfaces : B!Ready(x, sprot') <=> (B!Ready(x, sprot))'
    BY <2>1 DEF B!Ready, B!Child
  <2>5. \A x \in B!Surfaces : sprot'[x] = IF x = s THEN "made" ELSE sprot[x]
    BY <2>1 DEF BridgeTypes
  <2>6. \A x \in go : x \in B!Surfaces /\ sprot'[x] = "made" /\ x \in role \cup Tops /\ sprot[x] # "none"
    BY <2>1, <2>5 DEF B!Waiting, RolesInv, BridgeTypes
  <2>7. ASSUME NEW x \in B!Surfaces, sprot'[x] = "made", (B!Ready(x, sprot))', x \notin go
        PROVE sprot[x] = "made" /\ B!Ready(x, sprot)
    <3>1. B!Ready(x, sprot') /\ x \notin W
      BY <2>4, <2>7
    <3>2. x # s
      BY <3>1 DEF B!Waiting
    <3>3. sprot[x] = "made"
      BY <2>5, <2>7, <3>2
    <3>4. ~ (B!Child(x) /\ parent[x] = s)
      BY <3>1, <3>3 DEF B!Waiting, B!Child
    <3> QED BY <2>5, <3>1, <3>3, <3>4 DEF B!Ready, BridgeTypes
  <2>8. ASSUME NEW x \in go, B!Child(x)
        PROVE parent[x] \in B!Surfaces /\ sprot[parent[x]] # "none"
    BY <2>1, <2>5, <2>6, <2>8 DEF B!Ready, BridgeTypes
  <2> HIDE DEF W, go
  <2>9. error' \in BOOLEAN
    BY <2>3, Zenon
  <2>10. \A x \in B!Surfaces : B!Place(x) \in B!Surfaces \cup {"top", B!None}
    BY DEF B!Place, BridgeTypes
  <2>11. placed' \in [B!Surfaces -> B!Surfaces \cup {"top", B!None}]
    BY <2>2, <2>10 DEF BridgeTypes
  <2>12. BridgeTypes'
    BY <2>1, <2>2, <2>3, <2>6, <2>9, <2>11 DEF BridgeTypes
  <2>13. RolesInv'
    BY <2>1, <2>5 DEF RolesInv, B!Surfaces
  <2>14. ToldInv'
    <3>1. \A x \in told' : sprot'[x] = "made"
      BY <2>2, <2>5, <2>6 DEF ToldInv, BridgeTypes
    <3>2. \A x \in B!Surfaces : sprot'[x] = "made" /\ (B!Ready(x, sprot))' => x \in told'
      BY <2>2, <2>7 DEF ToldInv
    <3>3. ASSUME NEW x \in told' \cap has' PROVE placed'[x] = IF x \in Tops THEN "top" ELSE parent'[x]
      <4>1. x \in B!Surfaces /\ x \in has
        BY <2>1, <2>2, <2>6, <3>3 DEF BridgeTypes
      <4>2. CASE x \in told
        BY <2>1, <2>2, <4>1, <4>2 DEF ToldInv
      <4>3. CASE x \notin told
        <5>1. x \in go /\ placed'[x] = B!Place(x)
          BY <2>2, <3>3, <4>1, <4>3
        <5>2. x \in Tops \/ x \in role
          BY <2>6, <5>1
        <5> QED BY <2>1, <5>1, <5>2 DEF B!Place, B!Child
      <4> QED BY <4>2, <4>3
    <3> QED BY <3>1, <3>2, <3>3 DEF ToldInv
  <2>15. DeferredInv'
    BY <2>2, <2>7 DEF DeferredInv, BridgeTypes
  <2>16. FramesInv' /\ B!InitialCommitAnswered'
    BY <2>1, <2>3, <2>5, <2>6 DEF FramesInv, B!FramesOwed, B!InitialCommitAnswered, BridgeTypes
  <2>17. OrphansInv'
    <3>1. ASSUME ~ orphaned PROVE ~ error'
      <4>1. go \subseteq has
        BY <2>6, <3>1 DEF OrphansInv
      <4>2. ~ wrong
        BY <2>8, <3>1 DEF OrphansInv
      <4> QED BY <2>1, <2>3, <4>1, <4>2
    <3>2. ~ orphaned => \A x \in B!Surfaces : sprot'[x] # "none" => x \in has'
      BY <2>1, <2>5 DEF OrphansInv
    <3> QED BY <2>1, <3>1, <3>2 DEF OrphansInv, B!KilledAfterOrphans
  <2> QED BY <2>12, <2>13, <2>14, <2>15, <2>16, <2>17
<1>15. ASSUME NEW s \in B!Surfaces, B!Frame(s) PROVE BridgeInv'
  <2>1. /\ owed' = owed \ {s} /\ freq' = freq \ {s}
        /\ UNCHANGED <<exists, role, parent, sprot, told, put, unanswered, has, visible, placed, error, again, orphaned>>
    BY <1>15 DEF B!Frame, B!requestVars, B!ghosts
  <2>2. BridgeTypes' /\ FramesInv' /\ B!InitialCommitAnswered' /\ OrphansInv'
    BY <2>1 DEF BridgeTypes, FramesInv, B!FramesOwed, B!InitialCommitAnswered, OrphansInv, B!KilledAfterOrphans
  <2> QED BY <1>1, <2>1, <2>2, SameRoles DEF RoleParts
<1>16. ASSUME NEW s \in B!Surfaces, B!Configure(s) PROVE BridgeInv'
  <2>1. /\ unanswered' = unanswered \ {s}
        /\ UNCHANGED <<exists, role, parent, sprot, told, put, freq, has, visible, owed, placed, error, again, orphaned>>
    BY <1>16 DEF B!Configure, B!requestVars, B!frameVars, B!swmVars, B!ghosts
  <2>2. BridgeTypes' /\ FramesInv' /\ B!InitialCommitAnswered' /\ OrphansInv'
    BY <2>1 DEF BridgeTypes, FramesInv, B!FramesOwed, B!InitialCommitAnswered, OrphansInv, B!KilledAfterOrphans
  <2> QED BY <1>1, <2>1, <2>2, SameRoles DEF RoleParts
<1> QED BY <1>2, <1>3, <1>4, <1>5, <1>6, <1>7, <1>8, <1>9, <1>10, <1>11, <1>12, <1>13, <1>14, <1>15, <1>16
     DEF B!Next, B!BridgeStep

LEMMA BridgeStays == ASSUME BridgeInv, UNCHANGED wlbridgeVars PROVE BridgeInv'
BY SameBridge DEF wlbridgeVars

LEMMA BridgeIsSafe ==
    ASSUME BridgeInv
    PROVE /\ B!DeferredMeansWaiting /\ B!ShownInPlace /\ B!FramesOwed
          /\ B!KilledAfterOrphans /\ B!InitialCommitAnswered
<1> USE DEF BridgeInv
<1>1. B!DeferredMeansWaiting
  BY DEF DeferredInv, B!DeferredMeansWaiting
<1>2. ASSUME NEW s \in visible \cap role, sprot[s] = "made", B!Ready(s, sprot) PROVE placed[s] = B!Place(s)
  <2>1. s \in told \cap has
    BY <1>2 DEF BridgeTypes, ToldInv
  <2> QED BY <1>2, <2>1 DEF ToldInv, B!Place, B!Child
<1> QED BY <1>1, <1>2 DEF B!ShownInPlace, FramesInv, OrphansInv

-----------------------------------------------------------------------------
(* The launcher *)

Alive == {"runs", "zombie"}
\* Where each of the two children can be at each step.
LauncherInv ==
    /\ step \in {"start", "startup", "launch", "poll_app", "poll_bridge", "end_bridge", "end_app", "wait", "done"}
    /\ step = "start" => bridge = "none" /\ app = "none"
    /\ step \in {"startup", "launch", "wait"} => bridge \in Alive /\ app = "none"
    /\ step \in {"poll_app", "poll_bridge"} => bridge \in Alive /\ app \in Alive
    /\ step = "end_bridge" => bridge \in Alive /\ app \in {"none", "reaped"}
    /\ step = "end_app" => bridge = "reaped" /\ app \in Alive
    /\ step = "done" => {bridge, app} \subseteq {"none", "reaped"}

LEMMA LauncherInit == L!Init => LauncherInv
BY DEF L!Init, LauncherInv

LEMMA LauncherStep == ASSUME LauncherInv, L!Next PROVE LauncherInv'
<1> USE DEF LauncherInv, Alive
<1>1. CASE L!ForkBridge
  BY <1>1 DEF L!ForkBridge
<1>2. CASE L!AfterStartup
  BY <1>2 DEF L!AfterStartup
<1>3. CASE L!ForkApp
  BY <1>3 DEF L!ForkApp
<1>4. CASE L!PollApp
  BY <1>4 DEF L!PollApp
<1>5. CASE L!PollBridge
  BY <1>5 DEF L!PollBridge
<1>6. CASE L!TakeBridge \/ L!TakeApp
  BY <1>6 DEF L!TakeBridge, L!TakeApp
<1>7. CASE L!BridgeEnds \/ L!AppEnds
  BY <1>7 DEF L!BridgeEnds, L!AppEnds
<1> QED BY <1>1, <1>2, <1>3, <1>4, <1>5, <1>6, <1>7 DEF L!Next, L!LauncherStep

LEMMA LauncherStays == ASSUME LauncherInv, UNCHANGED launcherVars PROVE LauncherInv'
BY DEF LauncherInv, launcherVars

LEMMA LauncherIsSafe == ASSUME LauncherInv PROVE L!NoChildLeft
BY DEF LauncherInv, L!NoChildLeft

-----------------------------------------------------------------------------
(* The seat *)

KnowsIt == (SUBSET S!Bits) \X BOOLEAN
SeatTypes ==
    /\ boards \subseteq Keyboards
    /\ entered \in [Keyboards -> Focusable \cup {S!None}] /\ known \in [Keyboards -> KnowsIt]
    /\ there \subseteq alive /\ alive \subseteq Focusable
    /\ focus \in alive \cup {S!None} /\ mods \subseteq S!Bits /\ locked \in BOOLEAN
SeatInv == SeatTypes /\ S!KeyboardsAgree /\ S!KeysOfFocus /\ S!ModifiersKnown

LEMMA SeatInit == S!Init => SeatInv
<1>1. <<{}, FALSE>> \in KnowsIt
  BY DEF KnowsIt
<1> QED BY <1>1 DEF S!Init, SeatInv, SeatTypes, S!KeyboardsAgree, S!KeysOfFocus, S!ModifiersKnown

LEMMA KeyStep == ASSUME SeatInv, NEW k \in Keys, NEW down \in BOOLEAN, S!Key(k, down) PROVE SeatInv'
<1>1. locked' \in BOOLEAN
  BY Zenon DEF S!Key
<1>2. mods' \subseteq S!Bits
  BY DEF S!Key, S!Bits, SeatInv, SeatTypes
<1>3. known' \in [Keyboards -> KnowsIt] /\ \A b \in boards : known'[b] = <<mods', locked'>>
  <2>1. <<mods', locked'>> \in KnowsIt
    BY <1>1, <1>2 DEF KnowsIt
  <2>2. known' = [b \in Keyboards |-> IF b \in boards THEN <<mods', locked'>> ELSE known[b]]
    BY DEF S!Key, S!Sent
  <2> QED BY <2>1, <2>2 DEF SeatInv, SeatTypes
<1>4. UNCHANGED <<alive, there, focus, boards, entered>>
  BY DEF S!Key
<1>5. SeatTypes' /\ S!KeyboardsAgree' /\ S!ModifiersKnown'
  BY <1>1, <1>2, <1>3, <1>4 DEF SeatInv, SeatTypes, S!KeyboardsAgree, S!ModifiersKnown
<1>6. S!KeysOfFocus
  BY DEF SeatInv
<1>7. S!KeysOfFocus'
  <2>1. focus # S!None /\ focus' # S!None
    BY <1>4 DEF S!Key
  <2>2. pressed' \subseteq since'
    BY <1>6, <2>1 DEF S!Key, S!KeysOfFocus
  <2>3. \A m \in mods' : \E j \in since' \cap S!Modifiers : j # CapsLock /\ Bit[j] = m
    BY <1>6, <2>1 DEF S!Key, S!KeysOfFocus
  <2>4. ASSUME NEW j \in since' \cap S!Modifiers, j # CapsLock, \A i \in S!Modifiers : i = j \/ Bit[i] # Bit[j]
        PROVE  Bit[j] \in mods'
    BY <1>6, <2>1, <2>4 DEF S!Key, S!KeysOfFocus
  <2> QED BY <2>2, <2>3, <2>4 DEF S!KeysOfFocus
<1> QED BY <1>5, <1>7 DEF SeatInv

LEMMA FocusStep ==
    ASSUME SeatInv, NEW s \in alive \cup {S!None}, S!SetFocus(s), UNCHANGED <<alive, there, boards>>
    PROVE  SeatInv'
<1>1. locked' \in BOOLEAN /\ locked' = locked /\ mods' = {} /\ {} \in SUBSET S!Bits
  BY DEF SeatInv, SeatTypes, S!SetFocus
<1>2. known' \in [Keyboards -> KnowsIt] /\ (s # S!None => \A b \in boards : known'[b] = <<mods', locked'>>)
  <2>1. <<{}, locked>> \in KnowsIt
    BY <1>1 DEF KnowsIt
  <2>2. known' = IF s = S!None THEN known ELSE [b \in Keyboards |-> IF b \in boards THEN <<{}, locked>> ELSE known[b]]
    BY DEF S!SetFocus, S!Sent
  <2> QED BY <1>1, <2>1, <2>2 DEF SeatInv, SeatTypes
<1>3. entered' \in [Keyboards -> Focusable \cup {S!None}] /\ \A b \in boards : entered'[b] = s
  BY DEF S!SetFocus, SeatInv, SeatTypes
<1> QED BY <1>1, <1>2, <1>3 DEF SeatInv, SeatTypes, S!SetFocus, S!KeyboardsAgree, S!KeysOfFocus, S!ModifiersKnown

LEMMA SeatStep == ASSUME SeatInv, S!Next PROVE SeatInv'
<1> USE DEF SeatInv, SeatTypes, S!KeyboardsAgree, S!KeysOfFocus, S!ModifiersKnown
<1>1. S!None \notin Focusable
  BY SurfacesAssumption
<1>2. ASSUME NEW s \in Focusable, S!Create(s) \/ S!Appear(s) \/ S!LoseRole(s) PROVE SeatInv'
  BY <1>2 DEF S!Create, S!Appear, S!LoseRole
<1>3. ASSUME NEW s \in Focusable, S!Vanish(s) PROVE SeatInv'
  BY <1>1, <1>3 DEF S!Vanish
<1>4. ASSUME NEW s \in Focusable, S!Enter(s) PROVE SeatInv'
  BY <1>1, <1>4, FocusStep DEF S!Enter
<1>5. CASE S!LeaveSurface
  BY <1>5, FocusStep DEF S!LeaveSurface
<1>6. ASSUME NEW b \in Keyboards, S!GetKeyboard(b) PROVE SeatInv'
  <2>1. boards' \in SUBSET Keyboards /\ mods \in SUBSET S!Bits /\ locked \in BOOLEAN
    BY <1>6 DEF S!GetKeyboard
  <2>2. known' \in [Keyboards -> KnowsIt] /\ \A c \in boards' : known'[c] = <<mods, locked>>
    <3>1. <<mods, locked>> \in KnowsIt
      BY <2>1 DEF KnowsIt
    <3>2. known' = [c \in Keyboards |-> IF c \in boards' THEN <<mods, locked>> ELSE known[c]]
      BY <1>6 DEF S!GetKeyboard, S!Sent
    <3> QED BY <2>1, <3>1, <3>2
  <2> QED BY <1>6, <2>1, <2>2 DEF S!GetKeyboard
<1>7. ASSUME NEW b \in Keyboards, S!ReleaseKeyboard(b) PROVE SeatInv'
  <2>1. <<{}, FALSE>> \in KnowsIt
    BY DEF KnowsIt
  <2> QED BY <1>7, <2>1 DEF S!ReleaseKeyboard
<1>8. ASSUME NEW k \in Keys, NEW down \in BOOLEAN, S!Key(k, down) PROVE SeatInv'
  BY <1>8, KeyStep
<1> QED BY <1>2, <1>3, <1>4, <1>5, <1>6, <1>7, <1>8 DEF S!Next

LEMMA SeatStays == ASSUME SeatInv, UNCHANGED wlseatVars PROVE SeatInv'
BY DEF SeatInv, SeatTypes, wlseatVars, S!KeyboardsAgree, S!KeysOfFocus, S!ModifiersKnown

-----------------------------------------------------------------------------
(* Descriptors *)

\* Descriptors that came for plane i of p.
Came(p, i) == {<<p, i, n>> : n \in 1 .. sent[p]}
DmabufTypes ==
    /\ objects \subseteq Params /\ sent \in [Params -> 0 .. MaxFds]
    /\ slot \in [Params -> [Planes -> D!Fds \cup {D!NoFd}]] /\ buffer \in [Params -> D!Fds \cup {D!NoFd, D!NoBuffer}]
    /\ open \subseteq D!Fds

\* What is open of p has one owner.  What the buffer has the params object has no more, and
\* that object takes nothing new.
Kept(p) ==
    /\ \A i \in Planes : slot[p][i] \in Came(p, i) \cup {D!NoFd}
    /\ buffer[p] \in Came(p, 0) \cup {D!NoFd, D!NoBuffer}
    /\ buffer[p] # D!NoBuffer => slot[p][0] = D!NoFd /\ (p \in objects => p \in used)
    /\ p \notin objects => slot[p] = D!Empty
    /\ \A i \in Planes, n \in 1 .. MaxFds :
            <<p, i, n>> \in open <=> slot[p][i] = <<p, i, n>> \/ buffer[p] = <<p, i, n>>

DmabufInv == DmabufTypes /\ \A p \in Params : Kept(p)

\* The three kinds of what a slot or a buffer may hold are different things.
LEMMA FdsApart ==
    /\ D!NoFd \notin D!Fds /\ D!NoBuffer \notin D!Fds /\ D!NoFd # D!NoBuffer
    /\ \A p, i : D!NoFd \notin Came(p, i) /\ D!NoBuffer \notin Came(p, i)
BY DEF D!NoFd, D!NoBuffer, D!Fds, Came

\* What a slot and a buffer of p hold, each by itself.
LEMMA Holders ==
    ASSUME DmabufInv, NEW p \in Params, NEW i \in Planes, NEW n
    PROVE /\ \A q \in Params, j \in Planes : slot[q][j] = <<p, i, n>> => q = p /\ j = i
          /\ \A q \in Params : buffer[q] = <<p, i, n>> => q = p /\ i = 0
          /\ slot[p][i] = <<p, i, n>> => buffer[p] # <<p, i, n>> /\ n \in 1 .. sent[p]
          /\ buffer[p] = <<p, i, n>> => n \in 1 .. sent[p]
<1>1. \A q, j : <<p, i, n>> \in Came(q, j) => q = p /\ j = i /\ n \in 1 .. sent[q]
  BY DEF Came
<1>2. <<p, i, n>> # D!NoFd /\ <<p, i, n>> # D!NoBuffer
  BY DEF D!NoFd, D!NoBuffer
<1>3. \A q \in Params, j \in Planes : slot[q][j] \in Came(q, j) \cup {D!NoFd}
  BY DEF DmabufInv, Kept
<1>4. \A q \in Params : buffer[q] \in Came(q, 0) \cup {D!NoFd, D!NoBuffer}
  BY DEF DmabufInv, Kept
<1>5. buffer[p] = <<p, i, n>> => slot[p][0] = D!NoFd /\ i = 0
  BY <1>1, <1>2, <1>4 DEF DmabufInv, Kept
<1> QED BY <1>1, <1>2, <1>3, <1>4, <1>5

LEMMA DmabufInit == D!Init => DmabufInv
<1> SUFFICES ASSUME D!Init PROVE DmabufInv
  OBVIOUS
<1>1. \A p \in Params, i \in Planes : slot[p][i] = D!NoFd
  BY DEF D!Init, D!Empty
<1>2. \A p \in Params : buffer[p] = D!NoBuffer /\ slot[p] = D!Empty
  BY DEF D!Init
<1>3. objects = {} /\ open = {}
  BY DEF D!Init
<1>4. DmabufTypes
  BY <1>3, DmabufAssumption DEF D!Init, D!Empty, DmabufTypes
<1>5. ASSUME NEW p \in Params PROVE Kept(p)
  <2>1. \A i, n : <<p, i, n>> # D!NoFd /\ <<p, i, n>> # D!NoBuffer
    BY DEF D!NoFd, D!NoBuffer
  <2> QED BY <1>1, <1>2, <1>3, <2>1 DEF Kept
<1> QED BY <1>4, <1>5 DEF DmabufInv

LEMMA Untouched ==
    ASSUME NEW p \in Params, Kept(p),
           slot'[p] = slot[p], buffer'[p] = buffer[p], sent'[p] = sent[p],
           p \in objects' <=> p \in objects, p \in used' <=> p \in used,
           \A i \in Planes, n \in 1 .. MaxFds : <<p, i, n>> \in open' <=> <<p, i, n>> \in open
    PROVE Kept(p)'
BY DEF Kept, Came

LEMMA DmabufStep == ASSUME DmabufInv, D!Next PROVE DmabufInv'
<1> USE DEF DmabufInv
<1>1. CASE D!GetFeedback
  <2>1. UNCHANGED <<objects, used, slot, buffer, open, sent>>
    BY <1>1 DEF D!GetFeedback
  <2> QED BY <2>1 DEF DmabufTypes, Kept, Came
<1>2. CASE D!NextClient
  <2>1. /\ objects = {} /\ \A p \in Params : buffer[p] = D!NoBuffer
        /\ sent' = [p \in Params |-> 0] /\ UNCHANGED <<objects, used, slot, buffer, open>>
    BY <1>2 DEF D!NextClient
  <2>2. \A p \in Params, i \in Planes : slot[p][i] = D!NoFd
    BY <2>1 DEF Kept, D!Empty
  <2>3. DmabufTypes'
    BY <2>1, DmabufAssumption DEF DmabufTypes
  <2>4. ASSUME NEW p \in Params PROVE Kept(p)'
    BY <2>1, <2>2 DEF Kept
  <2> QED BY <2>3, <2>4
<1>3. ASSUME NEW p \in Params, D!CreateParams(p) PROVE DmabufInv'
  <2>1. /\ buffer[p] = D!NoBuffer /\ objects' = objects \cup {p}
        /\ slot' = [slot EXCEPT ![p] = D!Empty] /\ sent' = [sent EXCEPT ![p] = 0]
        /\ UNCHANGED <<used, buffer, open>> /\ p \notin objects
    BY <1>3 DEF D!CreateParams
  <2>2. slot[p] = D!Empty /\ slot' = slot
    BY <2>1 DEF Kept, DmabufTypes
  <2>3. \A i \in Planes : slot[p][i] = D!NoFd
    BY <2>2 DEF D!Empty
  <2>4. DmabufTypes'
    BY <2>1, <2>2, DmabufAssumption DEF DmabufTypes
  <2>5. Kept(p)'
    BY <2>1, <2>2, <2>3 DEF Kept
  <2>6. ASSUME NEW q \in Params, q # p PROVE Kept(q)'
    BY <2>1, <2>2, <2>6, Untouched DEF DmabufTypes
  <2> QED BY <2>4, <2>5, <2>6
<1>4. ASSUME NEW p \in Params, D!DestroyParams(p) PROVE DmabufInv'
  <2>1. /\ objects' = objects \ {p} /\ used' = used \ {p} /\ open' = open \ {slot[p][i] : i \in Planes}
        /\ slot' = [slot EXCEPT ![p] = D!Empty] /\ UNCHANGED <<buffer, sent>>
    BY <1>4 DEF D!DestroyParams
  <2>2. DmabufTypes'
    BY <2>1 DEF DmabufTypes, D!Empty
  <2>3. slot'[p] = D!Empty /\ \A i \in Planes : slot'[p][i] = D!NoFd
    BY <2>1 DEF DmabufTypes, D!Empty
  <2>4. Kept(p)'
    <3>1. \A i \in Planes : Came(p, i)' = Came(p, i)
      BY <2>1 DEF Came
    <3>2. ASSUME NEW i \in Planes, NEW n \in 1 .. MaxFds
          PROVE <<p, i, n>> \in open' <=> slot'[p][i] = <<p, i, n>> \/ buffer'[p] = <<p, i, n>>
      <4>1. slot'[p][i] # <<p, i, n>>
        <5>1. <<p, i, n>> # D!NoFd
          BY DEF D!NoFd
        <5> QED BY <2>3, <5>1
      <4>2. <<p, i, n>> \in {slot[p][j] : j \in Planes} <=> slot[p][i] = <<p, i, n>>
        BY Holders
      <4>3. slot[p][i] = <<p, i, n>> => buffer[p] # <<p, i, n>>
        BY Holders
      <4> QED BY <2>1, <4>1, <4>2, <4>3 DEF Kept
    <3> QED BY <2>1, <2>3, <3>1, <3>2, DmabufAssumption DEF Kept
  <2>5. ASSUME NEW q \in Params, q # p PROVE Kept(q)'
    <3>1. \A i \in Planes, n \in 1 .. MaxFds : <<q, i, n>> \notin {slot[p][j] : j \in Planes}
      BY <2>5, Holders
    <3> QED BY <2>1, <2>5, <3>1, Untouched DEF DmabufTypes
  <2> QED BY <2>2, <2>4, <2>5
<1>5. ASSUME NEW p \in Params, D!DestroyBuffer(p) PROVE DmabufInv'
  <2>1. /\ buffer[p] # D!NoBuffer /\ buffer' = [buffer EXCEPT ![p] = D!NoBuffer] /\ open' = open \ {buffer[p]}
        /\ UNCHANGED <<objects, used, slot, sent>>
    BY <1>5 DEF D!DestroyBuffer
  <2>2. DmabufTypes'
    BY <2>1 DEF DmabufTypes
  <2>3. Kept(p)'
    <3>1. \A i, n : <<p, i, n>> # D!NoBuffer
      BY DEF D!NoBuffer
    <3>2. \A i \in Planes : Came(p, i)' = Came(p, i)
      BY <2>1 DEF Came
    <3>3. buffer'[p] = D!NoBuffer
      BY <2>1 DEF DmabufTypes
    <3> QED BY <2>1, <3>1, <3>2, <3>3, Holders DEF Kept
  <2>4. ASSUME NEW q \in Params, q # p PROVE Kept(q)'
    <3>1. \A i \in Planes, n \in 1 .. MaxFds : <<q, i, n>> # buffer[p]
      BY <2>4, Holders
    <3> QED BY <2>1, <2>4, <3>1, Untouched DEF DmabufTypes
  <2> QED BY <2>2, <2>3, <2>4
<1>6. ASSUME NEW p \in Params, NEW i \in Planes, NEW lin \in BOOLEAN, D!Add(p, i, lin) PROVE DmabufInv'
  <2> DEFINE m == sent[p] + 1
             fd == <<p, i, m>>
  <2>1. /\ p \in objects /\ sent[p] < MaxFds /\ sent' = [sent EXCEPT ![p] = m]
        /\ UNCHANGED <<objects, used, buffer>>
    BY <1>6 DEF D!Add
  <2>2. sent[p] \in 0 .. MaxFds /\ m \in 1 .. MaxFds /\ sent'[p] = m /\ fd \in D!Fds
    BY <2>1, DmabufAssumption DEF DmabufTypes, D!Fds
  <2>3. \A j \in Planes : Came(p, j) \subseteq Came(p, j)' /\ fd \in Came(p, i)'
    BY <2>2 DEF Came
  <2>4. CASE open' = open /\ slot' = slot
    <3>1. DmabufTypes'
      BY <2>1, <2>2, <2>4 DEF DmabufTypes
    <3>2. Kept(p)'
      BY <2>1, <2>3, <2>4, DmabufAssumption DEF Kept
    <3>3. ASSUME NEW q \in Params, q # p PROVE Kept(q)'
      BY <2>1, <2>4, <3>3, Untouched DEF DmabufTypes
    <3> QED BY <3>1, <3>2, <3>3
  <2>5. CASE p \notin used /\ slot[p][i] = D!NoFd /\ slot' = [slot EXCEPT ![p][i] = fd] /\ open' = open \cup {fd}
    <3>1. DmabufTypes'
      <4>1. slot[p] \in [Planes -> D!Fds \cup {D!NoFd}]
        BY DEF DmabufTypes
      <4>2. [slot[p] EXCEPT ![i] = fd] \in [Planes -> D!Fds \cup {D!NoFd}]
        BY <2>2, <4>1
      <4>3. slot' = [slot EXCEPT ![p] = [slot[p] EXCEPT ![i] = fd]]
        BY <2>5
      <4> HIDE DEF fd, m
      <4>4. slot' \in [Params -> [Planes -> D!Fds \cup {D!NoFd}]]
        BY <4>2, <4>3 DEF DmabufTypes
      <4>5. open' \subseteq D!Fds
        BY <2>2, <2>5 DEF DmabufTypes
      <4>6. sent' \in [Params -> 0 .. MaxFds]
        <5>1. m \in 0 .. MaxFds
          BY <2>2, DmabufAssumption
        <5> QED BY <2>1, <5>1 DEF DmabufTypes
      <4> QED BY <2>1, <4>4, <4>5, <4>6 DEF DmabufTypes
    <3>2. slot'[p][i] = fd /\ \A j \in Planes : j # i => slot'[p][j] = slot[p][j]
      BY <2>5 DEF DmabufTypes
    <3>3. buffer'[p] = D!NoBuffer
      BY <2>1, <2>5 DEF Kept
    <3>4. ASSUME NEW j \in Planes, NEW n \in 1 .. MaxFds
          PROVE <<p, j, n>> \in open' <=> slot'[p][j] = <<p, j, n>> \/ buffer'[p] = <<p, j, n>>
      <4>1. buffer'[p] # <<p, j, n>> /\ buffer[p] # <<p, j, n>>
        BY <2>1, <3>3 DEF D!NoBuffer
      <4>2. <<p, j, n>> \in open <=> slot[p][j] = <<p, j, n>>
        BY <4>1 DEF Kept
      <4>3. CASE j = i
        <5>1. slot[p][j] # <<p, j, n>>
          BY <2>5, <4>3 DEF D!NoFd
        <5> QED BY <2>5, <3>2, <4>1, <4>2, <4>3, <5>1
      <4>4. CASE j # i
        BY <2>5, <3>2, <4>1, <4>2, <4>4
      <4> QED BY <4>3, <4>4
    <3>5. Kept(p)'
      BY <2>1, <2>3, <3>2, <3>3, <3>4 DEF Kept
    <3>6. ASSUME NEW q \in Params, q # p PROVE Kept(q)'
      BY <2>1, <2>5, <3>6, Untouched DEF DmabufTypes
    <3> QED BY <3>1, <3>5, <3>6
  <2> QED BY <1>6, <2>4, <2>5 DEF D!Add, D!Refused, D!Taken
<1>7. ASSUME NEW p \in Params, NEW immed \in BOOLEAN, D!CreateBuffer(p, immed) PROVE DmabufInv'
  <2>1. /\ used' = used \cup {p} /\ UNCHANGED <<objects, sent>> /\ p \in objects
    BY <1>7 DEF D!CreateBuffer
  <2>2. \A i \in Planes : Came(p, i)' = Came(p, i)
    BY <2>1 DEF Came
  <2>3. CASE UNCHANGED <<slot, buffer, open>>
    <3>1. Kept(p)'
      BY <2>1, <2>2, <2>3, DmabufAssumption DEF Kept
    <3>2. ASSUME NEW q \in Params, q # p PROVE Kept(q)'
      BY <2>1, <2>3, <3>2, Untouched
    <3> QED BY <2>1, <2>3, <3>1, <3>2 DEF DmabufTypes
  <2>4. ASSUME slot' = D!TakeFrom(p)
        PROVE /\ slot' \in [Params -> [Planes -> D!Fds \cup {D!NoFd}]]
              /\ slot'[p][0] = D!NoFd /\ \A i \in Planes : i # 0 => slot'[p][i] = slot[p][i]
              /\ \A q \in Params : q # p => slot'[q] = slot[q]
    <3>1. slot[p] \in [Planes -> D!Fds \cup {D!NoFd}]
      BY DEF DmabufTypes
    <3>2. slot' = [slot EXCEPT ![p] = [slot[p] EXCEPT ![0] = D!NoFd]]
      BY <2>4 DEF D!TakeFrom
    <3>3. [slot[p] EXCEPT ![0] = D!NoFd] \in [Planes -> D!Fds \cup {D!NoFd}]
      BY <3>1, DmabufAssumption
    <3> QED BY <3>1, <3>2, <3>3, DmabufAssumption DEF DmabufTypes
  <2>5. slot[p][0] \in D!Fds \cup {D!NoFd}
    BY DmabufAssumption DEF DmabufTypes
  <2>6. \A i, n : <<p, i, n>> # D!NoFd /\ <<p, i, n>> # D!NoBuffer
    BY DEF D!NoFd, D!NoBuffer
  <2>7. CASE p \notin used /\ buffer' = [buffer EXCEPT ![p] = slot[p][0]] /\ slot' = D!TakeFrom(p) /\ open' = open
    <3>1. buffer[p] = D!NoBuffer /\ buffer'[p] = slot[p][0]
      BY <2>1, <2>7 DEF Kept, DmabufTypes
    <3>2. DmabufTypes'
      BY <2>1, <2>4, <2>5, <2>7 DEF DmabufTypes
    <3>3. ASSUME NEW i \in Planes, NEW n \in 1 .. MaxFds
          PROVE <<p, i, n>> \in open' <=> slot'[p][i] = <<p, i, n>> \/ buffer'[p] = <<p, i, n>>
      <4>1. <<p, i, n>> \in open' <=> slot[p][i] = <<p, i, n>>
        BY <2>6, <2>7, <3>1 DEF Kept
      <4>2. CASE i = 0
        BY <2>4, <2>6, <2>7, <3>1, <4>1, <4>2
      <4>3. CASE i # 0
        <5>1. slot[p][0] # <<p, i, n>>
          BY <4>3, Holders, DmabufAssumption
        <5> QED BY <2>4, <2>7, <3>1, <4>1, <4>3, <5>1
      <4> QED BY <4>2, <4>3
    <3>4. Kept(p)'
      BY <2>1, <2>2, <2>4, <2>7, <3>1, <3>3, DmabufAssumption DEF Kept
    <3>5. ASSUME NEW q \in Params, q # p PROVE Kept(q)'
      BY <2>1, <2>4, <2>7, <3>5, Untouched DEF DmabufTypes
    <3> QED BY <3>2, <3>4, <3>5
  <2>8. CASE p \notin used /\ open' = open \ {slot[p][0]} /\ slot' = D!TakeFrom(p) /\ buffer' = buffer
    <3>1. DmabufTypes'
      BY <2>1, <2>4, <2>8 DEF DmabufTypes
    <3>2. ASSUME NEW i \in Planes, NEW n \in 1 .. MaxFds
          PROVE <<p, i, n>> \in open' <=> slot'[p][i] = <<p, i, n>> \/ buffer'[p] = <<p, i, n>>
      <4>1. <<p, i, n>> \in open <=> slot[p][i] = <<p, i, n>> \/ buffer[p] = <<p, i, n>>
        BY DEF Kept
      <4>2. CASE i = 0
        <5>1. slot[p][0] = <<p, i, n>> => buffer[p] # <<p, i, n>>
          BY <4>2, Holders
        <5> QED BY <2>4, <2>6, <2>8, <4>1, <4>2, <5>1
      <4>3. CASE i # 0
        <5>1. slot[p][0] # <<p, i, n>>
          BY <4>3, Holders, DmabufAssumption
        <5> QED BY <2>4, <2>8, <4>1, <4>3, <5>1
      <4> QED BY <4>2, <4>3
    <3>3. Kept(p)'
      BY <2>1, <2>2, <2>4, <2>8, <3>2, DmabufAssumption DEF Kept
    <3>4. ASSUME NEW q \in Params, q # p PROVE Kept(q)'
      <4>1. \A i \in Planes, n \in 1 .. MaxFds : <<q, i, n>> # slot[p][0]
        BY <3>4, Holders, DmabufAssumption
      <4> QED BY <2>1, <2>4, <2>8, <3>4, <4>1, Untouched DEF DmabufTypes
    <3> QED BY <3>1, <3>3, <3>4
  <2> QED BY <1>7, <2>3, <2>7, <2>8 DEF D!CreateBuffer
<1> QED BY <1>1, <1>2, <1>3, <1>4, <1>5, <1>6, <1>7 DEF D!Next

LEMMA DmabufStays == ASSUME DmabufInv, UNCHANGED dmabufVars PROVE DmabufInv'
BY DEF DmabufInv, dmabufVars, DmabufTypes, Kept, Came

LEMMA SameCardinality == \A T : D!Cardinality(T) = Cardinality(T)
BY DEF D!Cardinality, Cardinality

LEMMA DmabufIsSafe == ASSUME DmabufInv PROVE D!FdsOwnedOnce
<1> SUFFICES ASSUME NEW fd \in D!Fds
             PROVE Cardinality({pi \in Params \X Planes : slot[pi[1]][pi[2]] = fd}
                        \cup {q \in Params : buffer[q] = fd}) = IF fd \in open THEN 1 ELSE 0
  BY SameCardinality DEF D!FdsOwnedOnce
<1> PICK p \in Params, i \in Planes, n \in 1 .. MaxFds : fd = <<p, i, n>>
  BY DEF D!Fds
<1> DEFINE slots == {pi \in Params \X Planes : slot[pi[1]][pi[2]] = <<p, i, n>>}
           buffers == {q \in Params : buffer[q] = <<p, i, n>>}
<1>1. slots = IF slot[p][i] = <<p, i, n>> THEN {<<p, i>>} ELSE {}
  <2>1. ASSUME NEW pi \in slots PROVE pi = <<p, i>> /\ slot[p][i] = <<p, i, n>>
    <3>1. pi[1] \in Params /\ pi[2] \in Planes /\ pi = <<pi[1], pi[2]>> /\ slot[pi[1]][pi[2]] = <<p, i, n>>
      OBVIOUS
    <3>2. pi[1] = p /\ pi[2] = i
      BY <3>1, Holders
    <3> QED BY <3>1, <3>2
  <2>2. slot[p][i] = <<p, i, n>> => <<p, i>> \in slots
    OBVIOUS
  <2> HIDE DEF slots
  <2> QED BY <2>1, <2>2
<1>2. buffers = IF buffer[p] = <<p, i, n>> THEN {p} ELSE {}
  BY Holders
<1>3. slot[p][i] = <<p, i, n>> => buffer[p] # <<p, i, n>>
  BY Holders
<1>4. <<p, i, n>> \in open <=> slot[p][i] = <<p, i, n>> \/ buffer[p] = <<p, i, n>>
  BY DEF DmabufInv, Kept
<1>5. Cardinality({}) = 0 /\ Cardinality({<<p, i>>}) = 1 /\ Cardinality({p}) = 1
  BY FS_EmptySet, FS_Singleton
<1> HIDE DEF slots, buffers
<1>6. Cardinality(slots \cup buffers) = IF <<p, i, n>> \in open THEN 1 ELSE 0
  <2>1. CASE slot[p][i] = <<p, i, n>>
    <3>1. slots \cup buffers = {<<p, i>>}
      BY <1>1, <1>2, <1>3, <2>1
    <3> QED BY <1>4, <1>5, <2>1, <3>1
  <2>2. CASE slot[p][i] # <<p, i, n>> /\ buffer[p] = <<p, i, n>>
    <3>1. slots \cup buffers = {p}
      BY <1>1, <1>2, <2>2
    <3> QED BY <1>4, <1>5, <2>2, <3>1
  <2>3. CASE slot[p][i] # <<p, i, n>> /\ buffer[p] # <<p, i, n>>
    <3>1. slots \cup buffers = {}
      BY <1>1, <1>2, <2>3
    <3> QED BY <1>4, <1>5, <2>3, <3>1
  <2> QED BY <2>1, <2>2, <2>3
<1> QED BY <1>6 DEF slots, buffers

-----------------------------------------------------------------------------
(* Popups *)

PositionerInv ==
    pos # <<>> => pos \in P!Positioners /\ at = P!Adjusted(pos)[1] /\ extent = P!Adjusted(pos)[2]

LEMMA PositionerInit == P!Init => PositionerInv
BY DEF P!Init, PositionerInv

LEMMA PositionerStep == ASSUME PositionerInv, P!Next PROVE PositionerInv'
BY DEF PositionerInv, P!Next, P!Place

LEMMA PositionerStays == ASSUME PositionerInv, UNCHANGED positionerVars PROVE PositionerInv'
BY DEF PositionerInv, positionerVars

LEMMA PlaceIsNumber ==
    ASSUME NEW p \in P!Positioners, NEW a \in P!Sides, NEW g \in P!Sides
    PROVE P!Calc(p, a, g) \in Int
<1>1. p.start \in Starts /\ p.length \in Lengths /\ p.size \in Sizes /\ p.offset \in Offsets
  BY DEF P!Positioners
<1>2. p.start \in Int /\ p.length \in Nat /\ p.size \in Nat /\ p.offset \in Int
  BY <1>1, PositionerAssumption
<1>3. \A n \in Int : n \div 2 \in Int
  OBVIOUS
<1>4. p.length \div 2 \in Int /\ p.size \div 2 \in Int
  BY <1>2, <1>3
<1> QED BY <1>2, <1>4 DEF P!Calc, P!Sides

LEMMA PositionerIsSafe == ASSUME PositionerInv PROVE P!PlacedByRules
<1> SUFFICES ASSUME pos # <<>> PROVE P!PlacedByRules
  BY DEF P!PlacedByRules
<1> DEFINE wanted == P!Calc(pos, pos.anchor, pos.gravity)
           other == P!Calc(pos, P!Opposite(pos.anchor), P!Opposite(pos.gravity))
           fits(x) == P!Fits(x, pos.size, pos.bounds)
           x1 == IF "flip" \in pos.adjust /\ ~ fits(wanted) THEN P!Flipped(pos, wanted) ELSE wanted
           x2 == IF "slide" \in pos.adjust /\ ~ fits(x1) THEN P!Slid(pos, x1) ELSE x1
<1>1. /\ pos \in P!Positioners /\ pos.anchor \in P!Sides /\ pos.gravity \in P!Sides
      /\ at = P!Adjusted(pos)[1] /\ extent = P!Adjusted(pos)[2]
  BY DEF PositionerInv, P!Positioners
<1>2. pos.size \in Nat \ {0} /\ pos.bounds \in Int
  BY <1>1, PositionerAssumption DEF P!Positioners
<1>3. P!Opposite(pos.anchor) \in P!Sides /\ P!Opposite(pos.gravity) \in P!Sides
  BY <1>1 DEF P!Opposite, P!Sides
<1>4. wanted \in Int /\ other \in Int
  BY <1>1, <1>3, PlaceIsNumber
<1>5. P!Flipped(pos, wanted) = IF fits(other) THEN other ELSE wanted
  BY DEF P!Flipped
<1>6. P!Adjusted(pos) = IF "resize" \in pos.adjust /\ ~ fits(x2) THEN P!Cut(pos, x2) ELSE <<x2, pos.size>>
  BY DEF P!Adjusted
<1> HIDE DEF wanted, other
<1>7. x1 \in Int /\ (fits(wanted) \/ "flip" \notin pos.adjust => x1 = wanted) /\ (x1 # wanted => fits(x1))
  BY <1>4, <1>5
<1> HIDE DEF x1
<1>8. /\ x2 \in Int /\ (fits(x1) \/ "slide" \notin pos.adjust => x2 = x1)
      /\ pos.bounds > 0 /\ "slide" \in pos.adjust /\ pos.size <= pos.bounds => fits(x2)
  BY <1>2, <1>7 DEF P!Slid, P!Fits
<1> HIDE DEF x2
<1>9. fits(x2) \/ "resize" \notin pos.adjust => at = x2 /\ extent = pos.size
  BY <1>1, <1>6
<1>10. ASSUME pos.bounds > 0, ~ fits(x2), "resize" \in pos.adjust
       PROVE P!Fits(at, extent, pos.bounds) /\ extent >= 1
  BY <1>1, <1>2, <1>6, <1>8, <1>10 DEF P!Cut, P!Fits
<1>11. pos.bounds > 0 /\ "resize" \in pos.adjust => P!Fits(at, extent, pos.bounds) /\ extent >= 1
  BY <1>2, <1>9, <1>10
<1>12. pos.bounds > 0 /\ "slide" \in pos.adjust /\ pos.size <= pos.bounds =>
            P!Fits(at, extent, pos.bounds) /\ extent = pos.size
  BY <1>8, <1>9
<1>13. pos.adjust = {} \/ fits(wanted) => at = wanted /\ extent = pos.size
  BY <1>7, <1>8, <1>9
<1>14. pos.adjust = {"flip"} /\ at # wanted => P!Fits(at, extent, pos.bounds)
  BY <1>7, <1>8, <1>9
<1> QED BY <1>11, <1>12, <1>13, <1>14 DEF P!PlacedByRules, wanted

-----------------------------------------------------------------------------
(* The types of the desktop *)

\* What is linked is marked only while it is, and the pointer is on something that can be hit.
RanalTree ==
    /\ live \subseteq R!Widgets /\ hidden \subseteq live /\ disabled \subseteq live
    /\ dragging \subseteq Sliders \cap live /\ checked \subseteq Checks \cap live
    /\ under \in R!Hittable(live, hidden)

LEMMA RanalTreeStep == ASSUME RanalTree, R!Next PROVE RanalTree'
<1> USE DEF R!treeVars, R!focusVars, R!AppKeeps, R!PumpKeeps, R!Flip
<1>1. ASSUME NEW W, R!Freed(W) PROVE RanalTree'
  BY <1>1 DEF RanalTree, R!Freed
<1>2. ASSUME NEW w \in R!Widgets, R!CreateWidget(w) PROVE RanalTree'
  BY <1>2 DEF RanalTree, R!CreateWidget, R!Hittable
<1>3. ASSUME NEW w \in R!Widgets, R!DestroyWidget(w) PROVE RanalTree'
  BY <1>1, <1>3 DEF R!DestroyWidget
<1>4. ASSUME NEW m \in Popups, R!PopupClose(m) PROVE RanalTree'
  BY <1>1, <1>4 DEF R!PopupClose
<1>5. ASSUME NEW w \in R!Widgets, R!SetVisible(w) \/ R!SetEnabled(w) \/ R!CheckboxSet(w) PROVE RanalTree'
  BY <1>5 DEF RanalTree, R!SetVisible, R!SetEnabled, R!CheckboxSet
<1>6. CASE R!PassBegin \/ R!PointerButton \/ R!KeyReturn \/ R!CallbackReturns
  BY <1>6 DEF RanalTree, R!PassBegin, R!PointerButton, R!KeyReturn, R!CallbackReturns
<1>7. ASSUME NEW w \in R!Hittable(live, hidden), R!PointerMotion(w) PROVE RanalTree'
  BY <1>7 DEF RanalTree, R!PointerMotion
<1>8. CASE R!Pass
  <2>1. /\ UNCHANGED <<live, hidden, disabled, under>>
        /\ dragging' \subseteq dragging \cup ({under} \cap Sliders)
        /\ checked' \subseteq checked \cup ({under} \cap Checks)
    BY <1>8 DEF R!Pass
  <2>2. under \in R!Widgets => under \in live
    BY RanalAssumption DEF RanalTree, R!Hittable
  <2> QED BY <2>1, <2>2 DEF RanalTree, R!Widgets
<1>9. CASE R!PassEnd
  BY <1>9 DEF RanalTree, R!PassEnd, R!Drags
<1> QED BY <1>2, <1>3, <1>4, <1>5, <1>6, <1>7, <1>8, <1>9 DEF R!Next, R!AppStep, R!EventStep, R!PassStep

RanalRest ==
    /\ focused \in Textboxes \cup {R!None} /\ prev \in BOOLEAN /\ curr \in BOOLEAN
    /\ hot \in R!Widgets \cup {R!None} /\ cursor \in 0 .. 2 /\ dwell \in 0 .. Dwell

LEMMA RanalRestStep == ASSUME RanalTree, RanalRest, R!Next PROVE RanalRest'
<1> USE DEF R!treeVars, R!focusVars, R!AppKeeps, R!PumpKeeps
<1>1. ASSUME NEW w \in R!Widgets,
             R!CreateWidget(w) \/ R!DestroyWidget(w) \/ R!SetVisible(w) \/ R!SetEnabled(w) \/ R!CheckboxSet(w)
      PROVE  RanalRest'
  BY <1>1 DEF RanalRest, R!CreateWidget, R!DestroyWidget, R!SetVisible, R!SetEnabled, R!CheckboxSet
<1>2. ASSUME NEW m \in Popups, R!PopupClose(m) PROVE RanalRest'
  BY <1>2 DEF RanalRest, R!PopupClose
<1>3. CASE R!PassBegin \/ R!PointerButton \/ R!KeyReturn \/ R!CallbackReturns
  BY <1>3 DEF RanalRest, R!PassBegin, R!PointerButton, R!KeyReturn, R!CallbackReturns
<1>4. ASSUME NEW w \in R!Hittable(live, hidden), R!PointerMotion(w) PROVE RanalRest'
  BY <1>4 DEF RanalRest, R!PointerMotion
<1>5. CASE R!Pass
  <2>1. UNCHANGED <<prev, curr, cursor, dwell>> /\ hot' = under
    BY <1>5 DEF R!Pass
  <2>2. under \in R!Widgets \cup {R!None}
    BY DEF RanalTree, R!Hittable
  <2>3. focused' \in Textboxes \cup {R!None}
    BY <1>5 DEF R!Pass, R!Focus, RanalRest
  <2> QED BY <2>1, <2>2, <2>3 DEF RanalRest
<1>6. CASE R!PassEnd
  <2>1. UNCHANGED <<focused, prev, curr>> /\ hot' = R!None
    BY <1>6 DEF R!PassEnd
  <2>2. PICK c \in R!CursorFor(hot) : R!Held(c)
    BY <1>6 DEF R!PassEnd
  <2>3. c \in 0 .. 2
    BY <2>2 DEF R!CursorFor
  <2>4. cursor' \in 0 .. 2 /\ dwell' \in 0 .. Dwell
    BY <2>2, <2>3, RanalAssumption DEF RanalRest, R!Held
  <2> QED BY <2>1, <2>4 DEF RanalRest
<1> QED BY <1>1, <1>2, <1>3, <1>4, <1>5, <1>6 DEF R!Next, R!AppStep, R!EventStep, R!PassStep

LEMMA RanalIsTyped == ASSUME RanalInv, RanalTree, RanalRest PROVE R!TypeOK
<1>1. caret \subseteq Textboxes \cap live
  BY DEF RanalInv, RanalRest
<1>2. {prev, curr, adrift} \subseteq BOOLEAN
  BY Zenon DEF RanalInv, RanalRest
<1> QED BY <1>1, <1>2, Zenon DEF RanalInv, RanalTree, RanalRest, R!TypeOK

FrameTypes ==
    /\ stage \in {"new", "app", "pump", "ended"} /\ mode \in Modes \cup {"none"}
    /\ render \in BOOLEAN /\ dirty \in BOOLEAN /\ closing \in BOOLEAN /\ shown \in BOOLEAN /\ silent \in BOOLEAN
    /\ away \in BOOLEAN /\ paused \in BOOLEAN /\ resume \in BOOLEAN
    /\ popups \subseteq Bubbles /\ psurf \subseteq Bubbles

LEMMA FrameTypesStep == ASSUME FrameTypes, F!Next PROVE FrameTypes'
<1> USE DEF F!frameVars, F!vt, F!VtKeeps, F!AppKeeps, F!Changed
<1>1. CASE F!SetWidget \/ F!Event
  BY <1>1 DEF FrameTypes, F!SetWidget, F!Event
<1>9. CASE F!CreateOrDestroy
  BY <1>9 DEF FrameTypes, F!CreateOrDestroy
<1>10. CASE F!Close
  BY <1>10 DEF FrameTypes, F!Close
<1>8. CASE F!Start \/ F!Shutdown
  BY <1>8 DEF FrameTypes, F!Start, F!Shutdown
<1>2. ASSUME NEW m \in Bubbles, F!Popup(m) \/ F!PopupClose(m) PROVE FrameTypes'
  BY <1>2 DEF FrameTypes, F!Popup, F!PopupClose
<1>3. ASSUME NEW s \in 0 .. MaxSize, F!Configure(s) PROVE FrameTypes'
  BY <1>3 DEF FrameTypes, F!Configure
<1>4. CASE F!FrameBegin
  <2>1. render' \in BOOLEAN
    BY <1>4, Zenon DEF F!FrameBegin
  <2>2. stage' = "pump" /\ UNCHANGED <<mode, dirty, closing, popups, psurf, shown, silent, away, paused, resume>>
    BY <1>4 DEF F!FrameBegin
  <2> QED BY <2>1, <2>2 DEF FrameTypes
<1>5. CASE F!Rest \/ F!DrawFails
  BY <1>5 DEF FrameTypes, F!Rest, F!DrawFails
<1>6. CASE F!Draw
  <2>1. shown' \in BOOLEAN /\ away' \in BOOLEAN /\ paused' \in BOOLEAN /\ resume' \in BOOLEAN
    BY <1>6, Zenon DEF FrameTypes, F!Draw, F!Presented, F!Flipped
  <2>2. stage' \in {"app", "ended"} /\ dirty' = FALSE /\ silent' = FALSE /\ UNCHANGED <<mode, render, closing, popups>>
    BY <1>6 DEF F!Draw, F!Drawn, F!Presented
  <2>3. psurf' \subseteq Bubbles
    BY <1>6 DEF FrameTypes, F!Draw, F!Presented
  <2> QED BY <2>1, <2>2, <2>3 DEF FrameTypes
<1>7. CASE F!SwitchAway \/ F!SwitchBack
  BY <1>7 DEF FrameTypes, F!SwitchAway, F!SwitchBack
<1> QED BY <1>1, <1>2, <1>3, <1>4, <1>5, <1>6, <1>7, <1>8, <1>9, <1>10 DEF F!Next, F!FrameStep

LEMMA FrameIsTyped == ASSUME FrameInv, FrameTypes PROVE F!TypeOK
<1>1. {render, dirty, closing, shown, silent, away, paused, resume} \subseteq BOOLEAN
  BY Zenon DEF FrameTypes
<1>2. win \in 0 .. MaxSize /\ fb \in 0 .. F!NoFb /\ presented \in 0 .. 2
  BY FrameAssumption DEF FrameInv, F!NoFb
<1> QED BY <1>1, <1>2, Zenon DEF FrameTypes, F!TypeOK

\* What is answered by a configure is a toplevel.
BridgeRest ==
    /\ joined \in BOOLEAN /\ calls \subseteq exists /\ configured \subseteq exists
    /\ unanswered \subseteq role \cap Tops /\ owed \subseteq has /\ again \subseteq B!Surfaces

LEMMA BridgeRestStep == ASSUME BridgeTypes, BridgeRest, B!Next PROVE BridgeRest'
<1> USE DEF B!requestVars, B!frameVars, B!swmVars, B!ghosts, B!CommitKeeps
<1>1. CASE B!Join \/ B!Leave
  BY <1>1 DEF BridgeRest, B!Join, B!Leave
<1>2. ASSUME NEW s \in B!Surfaces, B!SwmLoses(s) PROVE owed' \subseteq has'
  BY <1>2 DEF BridgeRest, B!SwmLoses
<1>3. ASSUME NEW s \in B!Surfaces, B!DestroySurface(s) PROVE BridgeRest'
  <2>1. owed' \subseteq has'
    BY <1>2, <1>3 DEF B!DestroySurface
  <2> QED BY <1>3, <2>1 DEF BridgeRest, B!DestroySurface
<1>4. ASSUME NEW s \in B!Surfaces, B!DropRole(s) PROVE BridgeRest'
  <2>1. owed' \subseteq has'
    BY <1>2, <1>4 DEF B!DropRole
  <2> QED BY <1>4, <2>1 DEF BridgeRest, B!DropRole
<1>5. ASSUME NEW s \in B!Surfaces,
             \/ B!CreateSurface(s) \/ B!DropToplevel(s) \/ B!AskFrame(s) \/ B!CommitUnroled(s)
             \/ B!Reposition(s) \/ B!Frame(s) \/ B!Configure(s)
      PROVE  BridgeRest'
  BY <1>5 DEF BridgeRest, BridgeTypes, B!CreateSurface, B!DropToplevel, B!AskFrame, B!CommitUnroled, B!Reposition,
              B!Frame, B!Configure
<1>6. ASSUME NEW s \in B!Surfaces, NEW p \in B!Surfaces \cup {B!None}, B!GetRole(s, p) PROVE BridgeRest'
  BY <1>6 DEF BridgeRest, B!GetRole
<1>7. ASSUME NEW s \in B!Surfaces, B!CommitEmpty(s) PROVE BridgeRest'
  BY <1>7 DEF BridgeRest, BridgeTypes, B!CommitEmpty
<1>8. ASSUME NEW s \in B!Surfaces, B!CommitBuffer(s) PROVE BridgeRest'
  BY <1>8 DEF BridgeRest, B!CommitBuffer, B!Passed
<1>9. ASSUME NEW s \in B!Surfaces, B!Created(s) PROVE BridgeRest'
  <2>1. UNCHANGED <<joined, exists, role, calls, configured, unanswered, has, again>>
    BY <1>9 DEF B!Created
  <2>2. B!Flush(B!Waiting(s), sprot')
    BY <1>9 DEF B!Created
  <2>3. owed' \subseteq has'
    BY <2>1, <2>2 DEF BridgeRest, B!Flush, B!Passed
  <2> QED BY <2>1, <2>3 DEF BridgeRest
<1> QED BY <1>1, <1>3, <1>4, <1>5, <1>6, <1>7, <1>8, <1>9 DEF B!Next, B!BridgeStep

LEMMA BridgeIsTyped == ASSUME BridgeInv, BridgeRest PROVE B!TypeOK
BY DEF BridgeInv, BridgeTypes, BridgeRest, B!TypeOK

LEMMA LauncherIsTyped == ASSUME LauncherInv, termed \subseteq {"bridge", "app"} PROVE L!TypeOK
BY DEF LauncherInv, Alive, L!TypeOK, L!States

LEMMA TermedStep == ASSUME termed \subseteq {"bridge", "app"}, L!Next PROVE termed' \subseteq {"bridge", "app"}
BY DEF L!Next, L!LauncherStep, L!ForkBridge, L!AfterStartup, L!ForkApp, L!PollApp, L!PollBridge, L!TakeBridge, L!TakeApp,
       L!BridgeEnds, L!AppEnds

\* The keys that are held fit the table.
SeatKeys == pressed \subseteq Keys /\ since \subseteq Keys /\ IsFiniteSet(pressed) /\ Cardinality(pressed) <= MaxPressed

LEMMA SeatCardinality == \A T : S!Cardinality(T) = Cardinality(T) /\ (S!IsFiniteSet(T) <=> IsFiniteSet(T))
BY DEF S!Cardinality, Cardinality, S!IsFiniteSet, IsFiniteSet

LEMMA SeatKeysStep == ASSUME SeatKeys, S!Next PROVE SeatKeys'
<1> USE SurfacesAssumption
<1>1. ASSUME NEW s \in Focusable \cup {S!None}, S!SetFocus(s) PROVE SeatKeys'
  BY <1>1, FS_EmptySet DEF SeatKeys, S!SetFocus
<1>2. CASE S!LeaveSurface
  BY <1>1, <1>2 DEF S!LeaveSurface
<1>3. ASSUME NEW s \in Focusable, S!Enter(s) PROVE SeatKeys'
  BY <1>1, <1>3 DEF S!Enter
<1>4. ASSUME NEW s \in Focusable, S!Create(s) \/ S!Appear(s) \/ S!LoseRole(s) \/ S!Vanish(s) PROVE SeatKeys'
  BY <1>4 DEF SeatKeys, S!Create, S!Appear, S!LoseRole, S!Vanish
<1>5. ASSUME NEW b \in Keyboards, S!GetKeyboard(b) \/ S!ReleaseKeyboard(b) PROVE SeatKeys'
  BY <1>5 DEF SeatKeys, S!GetKeyboard, S!ReleaseKeyboard
<1>6. ASSUME NEW k \in Keys, NEW down \in BOOLEAN, S!Key(k, down) PROVE SeatKeys'
  <2>1. since' \subseteq Keys
    BY <1>6 DEF SeatKeys, S!Key
  <2>2. IsFiniteSet(pressed \ {k}) /\ Cardinality(pressed \ {k}) <= MaxPressed
    <3>1. CASE k \in pressed
      <4>1. IsFiniteSet(pressed \ {k}) /\ Cardinality(pressed \ {k}) = Cardinality(pressed) - 1
        BY <3>1, FS_RemoveElement DEF SeatKeys
      <4>2. Cardinality(pressed) \in Nat /\ Cardinality(pressed) <= MaxPressed
        BY FS_CardinalityType DEF SeatKeys
      <4> QED BY <4>1, <4>2
    <3>2. CASE k \notin pressed
      <4>1. pressed \ {k} = pressed
        BY <3>2
      <4> QED BY <4>1 DEF SeatKeys
    <3> QED BY <3>1, <3>2
  <2>3. /\ IsFiniteSet(pressed \cup {k})
        /\ Cardinality(pressed \cup {k}) = IF k \in pressed THEN Cardinality(pressed) ELSE Cardinality(pressed) + 1
    BY FS_AddElement DEF SeatKeys
  <2>4. pressed' = pressed \ {k} \/ pressed' = pressed \/ (pressed' = pressed \cup {k} /\ S!Room(k))
    BY <1>6 DEF S!Key
  <2>5. pressed' \subseteq Keys
    BY <2>4 DEF SeatKeys
  <2>6. IsFiniteSet(pressed') /\ Cardinality(pressed') <= MaxPressed
    <3>1. CASE pressed' = pressed \ {k}
      BY <2>2, <3>1 DEF SeatKeys
    <3>2. CASE pressed' = pressed
      BY <3>2 DEF SeatKeys
    <3>3. CASE pressed' = pressed \cup {k} /\ S!Room(k)
      <4>1. k \in pressed \/ Cardinality(pressed) < MaxPressed
        BY <3>3, SeatCardinality DEF S!Room
      <4>2. Cardinality(pressed) \in Nat
        BY FS_CardinalityType DEF SeatKeys
      <4> QED BY <2>3, <3>3, <4>1, <4>2 DEF SeatKeys
    <3> QED BY <2>4, <3>1, <3>2, <3>3
  <2> QED BY <2>1, <2>5, <2>6 DEF SeatKeys
<1> QED BY <1>2, <1>3, <1>4, <1>5, <1>6 DEF S!Next

LEMMA SeatIsTyped == ASSUME SeatInv, SeatKeys PROVE S!TypeOK
BY SeatCardinality DEF SeatInv, SeatTypes, KnowsIt, SeatKeys, S!TypeOK

\* Each of these holds at the beginning, and while another tool runs.
LEMMA RanalTypesHold ==
    /\ R!Init => RanalTree /\ RanalRest
    /\ RanalTree /\ RanalRest /\ UNCHANGED ranalVars => (RanalTree /\ RanalRest)'
<1>1. R!Init => RanalTree
  BY DEF R!Init, RanalTree, R!Hittable
<1>4. R!Init => RanalRest
  <2>1. 0 \in 0 .. 2 /\ 0 \in 0 .. Dwell
    BY RanalAssumption
  <2> QED BY <2>1, Zenon DEF R!Init, RanalRest
<1>2. RanalTree /\ UNCHANGED ranalVars => RanalTree'
  BY DEF ranalVars, RanalTree, R!Hittable
<1>3. RanalRest /\ UNCHANGED ranalVars => RanalRest'
  BY DEF ranalVars, RanalRest
<1> QED BY <1>1, <1>2, <1>3, <1>4

LEMMA FrameTypesHold == (F!Init => FrameTypes) /\ (FrameTypes /\ UNCHANGED frameVars => FrameTypes')
BY DEF F!Init, FrameTypes, frameVars

LEMMA BridgeRestHolds == (B!Init => BridgeRest) /\ (BridgeRest /\ UNCHANGED wlbridgeVars => BridgeRest')
BY DEF B!Init, BridgeRest, wlbridgeVars

LEMMA SeatKeysHold == (S!Init => SeatKeys) /\ (SeatKeys /\ UNCHANGED wlseatVars => SeatKeys')
<1>1. S!Init => SeatKeys
  BY FS_EmptySet, SurfacesAssumption DEF S!Init, SeatKeys
<1> QED BY <1>1 DEF SeatKeys, wlseatVars

\* What made a buffer, or tried to, is there.
DmabufRest ==
    /\ used \subseteq objects /\ linear \subseteq Params /\ dead \in BOOLEAN
    /\ node \in {"unknown", "no", "yes"}

LEMMA DmabufRestStep == ASSUME DmabufInv, DmabufRest, D!Next PROVE DmabufRest'
<1>1. CASE D!GetFeedback \/ D!NextClient
  BY <1>1 DEF DmabufRest, D!GetFeedback, D!NextClient
<1>2. ASSUME NEW p \in Params, D!CreateParams(p) \/ D!DestroyParams(p) \/ D!DestroyBuffer(p) PROVE DmabufRest'
  BY <1>2 DEF DmabufRest, D!CreateParams, D!DestroyParams, D!DestroyBuffer
<1>3. ASSUME NEW p \in Params, NEW i \in Planes, NEW lin \in BOOLEAN, D!Add(p, i, lin) PROVE DmabufRest'
  BY <1>3 DEF DmabufRest, D!Add
<1>4. ASSUME NEW p \in Params, NEW immed \in BOOLEAN, D!CreateBuffer(p, immed) PROVE DmabufRest'
  BY <1>4 DEF DmabufRest, D!CreateBuffer
<1> QED BY <1>1, <1>2, <1>3, <1>4 DEF D!Next

LEMMA DmabufIsTyped == ASSUME DmabufInv, DmabufRest PROVE D!TypeOK
BY DEF DmabufInv, DmabufTypes, DmabufRest, D!TypeOK, D!NoBuffer

PositionerRest == pos = <<>> => at = 0 /\ extent = 0

\* A rectangle that was cut or moved is one still.
LEMMA AdjustedIsTyped ==
    ASSUME NEW p \in P!Positioners PROVE P!Adjusted(p)[1] \in Int /\ P!Adjusted(p)[2] \in Nat
<1>1. p.size \in Nat /\ p.bounds \in Int /\ p.anchor \in P!Sides /\ p.gravity \in P!Sides
  BY PositionerAssumption DEF P!Positioners
<1>2. P!Opposite(p.anchor) \in P!Sides /\ P!Opposite(p.gravity) \in P!Sides
  BY <1>1 DEF P!Opposite, P!Sides
<1>3. P!Calc(p, p.anchor, p.gravity) \in Int /\ P!Calc(p, P!Opposite(p.anchor), P!Opposite(p.gravity)) \in Int
  BY <1>1, <1>2, PlaceIsNumber
<1>4. \A x \in Int : P!Flipped(p, x) \in Int /\ P!Slid(p, x) \in Int
  BY <1>1, <1>3 DEF P!Flipped, P!Slid
<1>5. ASSUME NEW x \in Int, ~ P!Fits(x, p.size, p.bounds) PROVE P!Cut(p, x)[1] \in Int /\ P!Cut(p, x)[2] \in Nat
  BY <1>1, <1>5 DEF P!Fits, P!Cut
<1> DEFINE x0 == P!Calc(p, p.anchor, p.gravity)
           x1 == IF "flip" \in p.adjust /\ ~ P!Fits(x0, p.size, p.bounds) THEN P!Flipped(p, x0) ELSE x0
           x2 == IF "slide" \in p.adjust /\ ~ P!Fits(x1, p.size, p.bounds) THEN P!Slid(p, x1) ELSE x1
<1>6. x2 \in Int
  BY <1>3, <1>4
<1>7. P!Adjusted(p) = IF "resize" \in p.adjust /\ ~ P!Fits(x2, p.size, p.bounds) THEN P!Cut(p, x2) ELSE <<x2, p.size>>
  BY DEF P!Adjusted
<1> HIDE DEF x2
<1> QED BY <1>1, <1>5, <1>6, <1>7

LEMMA PositionerIsTyped == ASSUME PositionerInv, PositionerRest PROVE P!TypeOK
BY AdjustedIsTyped DEF PositionerInv, PositionerRest, P!TypeOK

LEMMA DmabufRestHolds == (D!Init => DmabufRest) /\ (DmabufRest /\ UNCHANGED dmabufVars => DmabufRest')
BY DEF D!Init, DmabufRest, dmabufVars

LEMMA PositionerRestHolds ==
    /\ P!Init => PositionerRest
    /\ PositionerRest /\ P!Next => PositionerRest'
    /\ PositionerRest /\ UNCHANGED positionerVars => PositionerRest'
<1>1. P!Next => pos' # <<>>
  BY DEF P!Next, P!Place, P!Positioners
<1> QED BY <1>1 DEF P!Init, PositionerRest, positionerVars

-----------------------------------------------------------------------------
(* mlink: the passes *)

LinkSymbols == {s \in STRING \X {"strong", "weak"} \X {"undef", "common", "kept", "skipped"} : s[1] \in ML!Names}
LinkMacros == {m \in STRING \X STRING : m[2] \in ML!Names}
Globals == [defined : BOOLEAN, common : BOOLEAN, weak : BOOLEAN, object : Nat, size : Nat, wanted : BOOLEAN]
Tables == UNION {[d -> Globals] : d \in SUBSET ML!Names}

\* The lists of an object name what can be named.
LEMMA FileIs ==
    ASSUME NEW f \in LinkFiles
    PROVE f.member \in BOOLEAN /\ f.size \in Nat /\ f.macros \in Seq(LinkMacros) /\ f.syms \in Seq(LinkSymbols)
<1>1. /\ f.member \in BOOLEAN /\ f.size \in Nat /\ f.macros \in Seq(STRING \X STRING)
      /\ f.syms \in Seq(STRING \X {"strong", "weak"} \X {"undef", "common", "kept", "skipped"})
  BY LinkAssumption
<1>6. ML!NamesIn(f) \subseteq ML!Names
  BY Zenon DEF ML!Names
<1>2. \A k \in 1 .. Len(f.syms) : f.syms[k][1] \in ML!Names
  BY <1>6 DEF ML!NamesIn
<1>3. \A k \in 1 .. Len(f.macros) : f.macros[k][2] \in ML!Names
  BY <1>6 DEF ML!NamesIn
<1>4. f.syms \in Seq(LinkSymbols)
  <2>1. \A k \in 1 .. Len(f.syms) : f.syms[k] \in LinkSymbols
    BY <1>1, <1>2 DEF LinkSymbols
  <2> QED BY <1>1, <2>1
<1>5. f.macros \in Seq(LinkMacros)
  <2>1. \A k \in 1 .. Len(f.macros) : f.macros[k] \in LinkMacros
    BY <1>1, <1>3 DEF LinkMacros
  <2> QED BY <1>1, <2>1
<1> QED BY <1>1, <1>4, <1>5

LEMMA LineNames ==
    ASSUME NEW l \in LinkLines
    PROVE l.defsyms \subseteq ML!Names /\ l.entry \subseteq ML!Names
<1> DEFINE Of(o) == o.defsyms \cup o.entry
<1>1. UNION {Of(o) : o \in LinkLines} \subseteq ML!Names
  BY DEF ML!Names
<1>2. Of(l) \subseteq ML!Names
  <2> HIDE DEF Of
  <2> QED BY <1>1
<1> QED BY <1>2

LinkInv ==
    /\ pass \in ML!Passes /\ failed \in BOOLEAN /\ image \in {"none", "written"}
    /\ inputs \in Seq(LinkFiles) /\ Len(inputs) <= MaxFiles /\ chosen \subseteq 1 .. Len(inputs)
    /\ walk \in 1 .. Len(inputs) + 1 /\ changed \in BOOLEAN
    /\ globals \in Tables /\ storage \subseteq ML!Names
    /\ defsyms \subseteq ML!Names /\ entry \in ML!Names /\ fromCli \in BOOLEAN

LEMMA MacrosAre ==
    ASSUME inputs \in Seq(LinkFiles)
    PROVE ML!Macros \in Seq(LinkMacros)
<1> DEFINE N == Len(inputs)
           T == Seq(LinkMacros)
           E == [q \in (1 .. N) \X T |-> q[2] \o inputs[q[1]].macros]
           f0 == ML!MacrosTo
<1>1. N \in Nat /\ <<>> \in T
  OBVIOUS
<1>2. \A n \in 1 .. N : inputs[n].macros \in T
  BY FileIs
<1>3. E \in Onward(N, T)
  BY <1>2 DEF Onward
<1>4. \A n \in 1 .. N, t \in T : E[<<n, t>>] = t \o inputs[n].macros
  OBVIOUS
<1>5. PICK f \in Courses(N, T) : f = [k \in 0 .. N |-> IF k = 0 THEN <<>> ELSE E[<<k, f[k - 1]>>]]
  <2> HIDE DEF N, T, E
  <2> QED BY <1>1, <1>3, Unrolled
<1> HIDE DEF E
<1>6. f = [k \in 0 .. N |-> IF k = 0 THEN <<>> ELSE f[k - 1] \o inputs[k].macros]
  <2>1. ASSUME NEW k \in 0 .. N, k # 0 PROVE E[<<k, f[k - 1]>>] = f[k - 1] \o inputs[k].macros
    <3>1. k - 1 \in 0 .. N /\ k \in 1 .. N
      BY <2>1
    <3> HIDE DEF T, N
    <3> QED BY <1>4, <1>5, <3>1 DEF Courses
  <2> HIDE DEF T, N
  <2> QED BY <1>5, <2>1
<1>7. f0 = CHOOSE h : h = [k \in 0 .. N |-> IF k = 0 THEN <<>> ELSE h[k - 1] \o inputs[k].macros]
  BY DEF ML!MacrosTo
<1>8. f0 = [k \in 0 .. N |-> IF k = 0 THEN <<>> ELSE f0[k - 1] \o inputs[k].macros]
  BY <1>6, <1>7
<1> HIDE DEF f0
<1> DEFINE Wrong == {k \in 0 .. N : f0[k] \notin T}
<1>9. 0 \notin Wrong
  BY <1>1, <1>8
<1>10. ASSUME NEW m \in 1 .. N, m - 1 \notin Wrong PROVE m \notin Wrong
  <2>1. m - 1 \in 0 .. N
    BY <1>1
  <2>2. f0[m - 1] \in T
    BY <1>10, <2>1
  <2>3. m \in 0 .. N /\ m # 0
    BY <1>1
  <2>4. f0[m] = f0[m - 1] \o inputs[m].macros
    <3> HIDE DEF N, T
    <3> QED BY <1>8, <2>3
  <2>5. f0[m] \in T
    <3>1. inputs[m].macros \in T
      BY <1>2
    <3> QED BY <2>2, <2>4, <3>1
  <2> QED BY <2>5
<1>11. Wrong \subseteq 0 .. N
  OBVIOUS
<1>12. Wrong = {}
  <2> HIDE DEF Wrong, N
  <2> QED BY <1>1, <1>9, <1>10, <1>11, Climb
<1>13. N \in 0 .. N
  OBVIOUS
<1> QED BY <1>12, <1>13 DEF ML!Macros, f0

\* The symbols of the selected objects among the first i, and nothing else, by their objects
Jobs == (1 .. Len(inputs)) \X LinkSymbols
Covers(i, c) ==
    /\ \A p \in 1 .. Len(c) : c[p][1] \in chosen /\ c[p][1] <= i /\ c[p][2] \in ML!Syms(c[p][1])
    /\ \A j \in chosen : j <= i => \A s \in ML!Syms(j) : \E p \in 1 .. Len(c) : c[p] = <<j, s>>
    /\ \A p, q \in 1 .. Len(c) : p <= q => c[p][1] <= c[q][1]
Turn(i) == IF i \in chosen THEN [k \in 1 .. Len(inputs[i].syms) |-> <<i, inputs[i].syms[k]>>] ELSE <<>>

LEMMA SymsAre ==
    ASSUME inputs \in Seq(LinkFiles), NEW i \in 1 .. Len(inputs)
    PROVE  /\ inputs[i] \in LinkFiles /\ inputs[i].syms \in Seq(LinkSymbols) /\ ML!Syms(i) \subseteq LinkSymbols
           /\ \A k \in 1 .. Len(inputs[i].syms) : inputs[i].syms[k] \in ML!Syms(i)
           /\ \A s \in ML!Syms(i) : \E k \in 1 .. Len(inputs[i].syms) : inputs[i].syms[k] = s
<1>1. inputs[i] \in LinkFiles
  OBVIOUS
<1>2. inputs[i].syms \in Seq(LinkSymbols)
  BY <1>1, FileIs
<1> QED BY <1>1, <1>2 DEF ML!Syms

LEMMA TurnIs ==
    ASSUME inputs \in Seq(LinkFiles), NEW i \in 1 .. Len(inputs)
    PROVE  /\ Turn(i) \in Seq(Jobs)
           /\ i \notin chosen => Len(Turn(i)) = 0
           /\ i \in chosen => Len(Turn(i)) = Len(inputs[i].syms)
           /\ \A k \in 1 .. Len(Turn(i)) : Turn(i)[k] = <<i, inputs[i].syms[k]>> /\ i \in chosen
<1>1. inputs[i].syms \in Seq(LinkSymbols)
  BY SymsAre
<1>2. CASE i \in chosen
  <2> DEFINE t == [k \in 1 .. Len(inputs[i].syms) |-> <<i, inputs[i].syms[k]>>]
  <2>1. Turn(i) = t
    BY <1>2 DEF Turn
  <2>2. \A k \in 1 .. Len(inputs[i].syms) : <<i, inputs[i].syms[k]>> \in Jobs
    BY <1>1 DEF Jobs
  <2>3. t \in Seq(Jobs) /\ Len(t) = Len(inputs[i].syms)
    BY <1>1, <2>2
  <2> QED BY <1>2, <2>1, <2>3
<1>3. CASE i \notin chosen
  BY <1>3 DEF Turn
<1> QED BY <1>2, <1>3

LEMMA CoversNext ==
    ASSUME inputs \in Seq(LinkFiles), chosen \subseteq 1 .. Len(inputs),
           NEW i \in 1 .. Len(inputs), NEW m \in Nat, m + 1 = i, NEW c \in Seq(Jobs), Covers(m, c)
    PROVE  c \o Turn(i) \in Seq(Jobs) /\ Covers(i, c \o Turn(i))
<1> DEFINE t == Turn(i)
           d == c \o t
           J == Len(c)
           K == Len(t)
<1>1. /\ t \in Seq(Jobs) /\ (i \notin chosen => K = 0) /\ (i \in chosen => K = Len(inputs[i].syms))
      /\ \A k \in 1 .. K : t[k] = <<i, inputs[i].syms[k]>> /\ i \in chosen
  BY TurnIs
<1> HIDE DEF t
<1>2. d \in Seq(Jobs) /\ Len(d) = J + K /\ J \in Nat /\ K \in Nat
  BY <1>1
<1>3. \A p \in 1 .. J : d[p] = c[p]
  BY <1>1
<1>4. \A k \in 1 .. K : d[J + k] = t[k]
  BY <1>1
<1> HIDE DEF d, J, K
<1>5. ASSUME NEW p \in 1 .. J + K, p \notin 1 .. J PROVE \E k \in 1 .. K : p = J + k
  <2>1. p - J \in 1 .. K /\ p = J + (p - J)
    BY <1>2, <1>5
  <2> QED BY <2>1
<1>6. \A p \in 1 .. J : c[p][1] \in chosen /\ c[p][1] <= m /\ c[p][2] \in ML!Syms(c[p][1]) /\ c[p][1] \in Nat
  <2>1. \A p \in 1 .. J : c[p][1] \in chosen /\ c[p][1] <= m /\ c[p][2] \in ML!Syms(c[p][1])
    BY DEF Covers, J
  <2>2. chosen \subseteq Nat
    OBVIOUS
  <2> QED BY <2>1, <2>2
<1>7. ASSUME NEW p \in 1 .. J + K, p \notin 1 .. J PROVE d[p][1] = i /\ i \in chosen /\ d[p][2] \in ML!Syms(i)
  <2>1. PICK k \in 1 .. K : p = J + k
    BY <1>5, <1>7
  <2>2. d[p] = <<i, inputs[i].syms[k]>> /\ i \in chosen
    BY <1>1, <1>4, <2>1
  <2>3. k \in 1 .. Len(inputs[i].syms)
    BY <1>1, <2>2
  <2> QED BY <2>2, <2>3, SymsAre
<1>8. \A p \in 1 .. J + K : d[p][1] \in chosen /\ d[p][1] <= i /\ d[p][2] \in ML!Syms(d[p][1])
  BY <1>3, <1>6, <1>7
<1>9. ASSUME NEW j \in chosen, j <= i, NEW s \in ML!Syms(j) PROVE \E p \in 1 .. J + K : d[p] = <<j, s>>
  <2>1. CASE j = i
    <3>1. PICK k \in 1 .. Len(inputs[i].syms) : inputs[i].syms[k] = s
      BY <2>1, <1>9, SymsAre
    <3>2. k \in 1 .. K /\ d[J + k] = <<j, s>>
      BY <1>1, <1>4, <2>1, <3>1, <1>9
    <3>3. J + k \in 1 .. J + K
      BY <1>2, <3>2
    <3> QED BY <3>2, <3>3
  <2>2. CASE j # i
    <3>1. j <= m
      BY <1>9, <2>2
    <3>2. PICK p \in 1 .. J : c[p] = <<j, s>>
      BY <1>9, <3>1 DEF Covers, J
    <3>3. p \in 1 .. J + K
      BY <1>2
    <3> QED BY <1>3, <3>2, <3>3
  <2> QED BY <2>1, <2>2
<1>10. ASSUME NEW p \in 1 .. J + K, NEW q \in 1 .. J + K, p <= q PROVE d[p][1] <= d[q][1]
  <2>1. CASE q \in 1 .. J
    <3>1. p \in 1 .. J
      BY <1>2, <1>10, <2>1
    <3> QED BY <1>3, <1>10, <2>1, <3>1 DEF Covers, J
  <2>2. CASE q \notin 1 .. J
    <3>1. d[q][1] = i
      BY <1>7, <2>2
    <3> QED BY <1>8, <3>1
  <2> QED BY <2>1, <2>2
<1>11. Covers(i, d)
  BY <1>2, <1>8, <1>9, <1>10 DEF Covers
<1> QED BY <1>2, <1>11 DEF d, t

LEMMA WorkIs ==
    ASSUME inputs \in Seq(LinkFiles), chosen \subseteq 1 .. Len(inputs)
    PROVE ML!Work \in Seq(Jobs) /\ Covers(Len(inputs), ML!Work)
<1> DEFINE N == Len(inputs)
           T == Seq(Jobs)
           E == [q \in (1 .. N) \X T |-> q[2] \o Turn(q[1])]
           f0 == ML!WorkTo
<1>1. N \in Nat /\ <<>> \in T
  OBVIOUS
<1>2. \A n \in 1 .. N : Turn(n) \in T
  BY TurnIs
<1>3. E \in Onward(N, T)
  BY <1>2 DEF Onward
<1>4. \A n \in 1 .. N, t \in T : E[<<n, t>>] = t \o Turn(n)
  OBVIOUS
<1>5. PICK f \in Courses(N, T) : f = [k \in 0 .. N |-> IF k = 0 THEN <<>> ELSE E[<<k, f[k - 1]>>]]
  <2> HIDE DEF N, T, E
  <2> QED BY <1>1, <1>3, Unrolled
<1> HIDE DEF E
<1>6. f = [k \in 0 .. N |-> IF k = 0 THEN <<>> ELSE f[k - 1] \o Turn(k)]
  <2>1. ASSUME NEW k \in 0 .. N, k # 0 PROVE E[<<k, f[k - 1]>>] = f[k - 1] \o Turn(k)
    <3>1. k - 1 \in 0 .. N /\ k \in 1 .. N
      BY <2>1
    <3> HIDE DEF T, N
    <3> QED BY <1>4, <1>5, <3>1 DEF Courses
  <2> HIDE DEF T, N
  <2> QED BY <1>5, <2>1
<1>7. f0 = CHOOSE h : h = [k \in 0 .. N |-> IF k = 0 THEN <<>> ELSE h[k - 1] \o Turn(k)]
  BY DEF ML!WorkTo, Turn
<1>8. f0 = [k \in 0 .. N |-> IF k = 0 THEN <<>> ELSE f0[k - 1] \o Turn(k)]
  BY <1>6, <1>7
<1> HIDE DEF f0
<1> DEFINE Wrong == {k \in 0 .. N : ~ (f0[k] \in T /\ Covers(k, f0[k]))}
<1>9. 0 \notin Wrong
  <2>1. f0[0] = <<>>
    BY <1>1, <1>8
  <2>2. \A j \in chosen : ~ (j <= 0)
    OBVIOUS
  <2>3. Covers(0, <<>>)
    BY <2>2 DEF Covers
  <2> QED BY <1>1, <2>1, <2>3
<1>10. ASSUME NEW m \in 1 .. N, m - 1 \notin Wrong PROVE m \notin Wrong
  <2>1. PICK k \in Nat : k + 1 = m /\ k = m - 1 /\ k \in 0 .. N
    BY <1>1
  <2>2. f0[k] \in T /\ Covers(k, f0[k])
    BY <1>10, <2>1
  <2>3. m \in 0 .. N /\ m # 0
    BY <1>1
  <2>4. f0[m] = f0[k] \o Turn(m)
    <3> HIDE DEF N, T
    <3> QED BY <1>8, <2>1, <2>3
  <2>5. f0[k] \o Turn(m) \in T /\ Covers(m, f0[k] \o Turn(m))
    BY <2>1, <2>2, CoversNext
  <2> QED BY <2>4, <2>5
<1>11. Wrong \subseteq 0 .. N
  OBVIOUS
<1>12. Wrong = {}
  <2> HIDE DEF Wrong, N
  <2> QED BY <1>1, <1>9, <1>10, <1>11, Climb
<1>13. N \in 0 .. N
  OBVIOUS
<1> QED BY <1>12, <1>13 DEF ML!Work, f0

\* The symbol table
LEMMA TableIs ==
    ASSUME NEW g
    PROVE g \in Tables <=> DOMAIN g \subseteq ML!Names /\ g \in [DOMAIN g -> Globals]
BY DEF Tables

LEMMA FindIs ==
    ASSUME NEW g \in Tables, NEW n
    PROVE ML!Find(g, n) \in Globals
<1>1. g \in [DOMAIN g -> Globals]
  BY TableIs
<1>2. ML!Blank \in Globals
  BY DEF ML!Blank, Globals
<1> QED BY <1>1, <1>2 DEF ML!Find

LEMMA PutIs ==
    ASSUME NEW g \in Tables, NEW n \in ML!Names, NEW r \in Globals
    PROVE  /\ ML!Put(g, n, r) \in Tables
           /\ ML!Find(ML!Put(g, n, r), n) = r
           /\ \A m : m # n => ML!Find(ML!Put(g, n, r), m) = ML!Find(g, m)
<1> DEFINE h == ML!Put(g, n, r)
<1>1. DOMAIN g \subseteq ML!Names /\ g \in [DOMAIN g -> Globals]
  BY TableIs
<1>2. DOMAIN h = DOMAIN g \cup {n} /\ \A m \in DOMAIN g \cup {n} : h[m] = IF m = n THEN r ELSE g[m]
  BY DEF ML!Put
<1>3. h \in [DOMAIN h -> Globals]
  BY <1>1 DEF ML!Put
<1> HIDE DEF h
<1>4. h \in Tables
  <2>1. DOMAIN h \subseteq ML!Names
    BY <1>1, <1>2
  <2> QED BY <1>3, <2>1, TableIs
<1>5. ML!Find(h, n) = r
  BY <1>2 DEF ML!Find
<1>6. ASSUME NEW m, m # n PROVE ML!Find(h, m) = ML!Find(g, m)
  BY <1>2, <1>6 DEF ML!Find
<1> QED BY <1>4, <1>5, <1>6 DEF h

\* The symbols that are gone through
By(j) == ML!Work[j][1]
Called(j) == ML!Work[j][2][1]
Bound(j) == ML!Work[j][2][2]
Lies(j) == ML!Work[j][2][3]
Defines(j, n) == Called(j) = n /\ Lies(j) \in {"kept", "skipped"}
Shares(j, n) == Called(j) = n /\ Lies(j) = "common"
Asks(j, n) == Called(j) = n /\ Lies(j) = "undef" /\ Bound(j) = "strong"

LEMMA JobIs ==
    ASSUME ML!Work \in Seq(Jobs), inputs \in Seq(LinkFiles), NEW j \in 1 .. Len(ML!Work)
    PROVE  /\ ML!Work[j] = <<By(j), <<Called(j), Bound(j), Lies(j)>>>> /\ By(j) \in 1 .. Len(inputs)
           /\ Called(j) \in ML!Names /\ Bound(j) \in {"strong", "weak"} /\ Lies(j) \in {"undef", "common", "kept", "skipped"}
           /\ inputs[By(j)].size \in Nat
           /\ ML!Located(ML!Work[j][2]) <=> Lies(j) \in {"kept", "skipped"}
<1>1. ML!Work[j] \in Jobs
  OBVIOUS
<1>2. By(j) \in 1 .. Len(inputs) /\ ML!Work[j][2] \in LinkSymbols /\ ML!Work[j] = <<By(j), ML!Work[j][2]>>
  BY <1>1 DEF Jobs, By
<1>3. inputs[By(j)] \in LinkFiles
  BY <1>2
<1>4. /\ ML!Work[j][2] = <<Called(j), Bound(j), Lies(j)>> /\ Called(j) \in ML!Names
      /\ Bound(j) \in {"strong", "weak"} /\ Lies(j) \in {"undef", "common", "kept", "skipped"}
  BY <1>2 DEF LinkSymbols, Called, Bound, Lies
<1>5. inputs[By(j)].size \in Nat
  BY <1>3, FileIs
<1>6. ML!Located(ML!Work[j][2]) <=> Lies(j) \in {"kept", "skipped"}
  BY <1>4 DEF ML!Located, Lies
<1> QED BY <1>2, <1>4, <1>5, <1>6

\* What stands for a name after the first k symbols
Stands(k, n, H) ==
    /\ H.defined <=> \E j \in 1 .. k : Defines(j, n)
    /\ H.defined => ~ H.common
    /\ ~ H.defined => (H.common <=> \E j \in 1 .. k : Shares(j, n))
    /\ H.defined => \E j \in 1 .. k : Defines(j, n) /\ H.object = By(j) /\ (Bound(j) = "weak" <=> H.weak)
    /\ \A j \in 1 .. k : Defines(j, n) /\ Bound(j) = "strong" => ~ H.weak /\ H.object = By(j)
    /\ \A j \in 1 .. k : Defines(j, n) /\ H.weak => H.object <= By(j)
    /\ \A j \in 1 .. k : Defines(j, n) /\ ~ H.weak => By(j) <= H.object
    /\ H.common => \E j \in 1 .. k : Shares(j, n) /\ H.size = inputs[By(j)].size
    /\ H.common => \A j \in 1 .. k : Shares(j, n) => inputs[By(j)].size <= H.size
    /\ \A j \in 1 .. k : Asks(j, n) => H.wanted

\* A symbol of another name changes nothing.
LEMMA StandsOther ==
    ASSUME NEW k \in Nat, NEW j \in Nat, j \in 1 .. j, \A i : i \in 1 .. j <=> i \in 1 .. k \/ i = j,
           NEW n, NEW H, Stands(k, n, H), Called(j) # n
    PROVE Stands(j, n, H)
<1>1. ~ Defines(j, n) /\ ~ Shares(j, n) /\ ~ Asks(j, n)
  BY DEF Defines, Shares, Asks
<1>2. \A i : i \in 1 .. k => i \in 1 .. j
  OBVIOUS
<1>3. \A i \in 1 .. j : i \in 1 .. k \/ i = j
  OBVIOUS
<1> QED BY <1>1, <1>2, <1>3 DEF Stands

\* One behind the first k
Behind(j, k) == j = k + 1 /\ j \in 1 .. j /\ \A i : i \in 1 .. j <=> i \in 1 .. k \/ i = j

LEMMA StandsAsked ==
    ASSUME NEW k \in Nat, NEW j \in Nat, Behind(j, k), NEW n, NEW H \in Globals, NEW G \in Globals, Stands(k, n, H),
           Called(j) = n, Lies(j) = "undef", Bound(j) \in {"strong", "weak"},
           G.defined = H.defined, G.common = H.common, G.weak = H.weak, G.object = H.object, G.size = H.size,
           G.wanted = (H.wanted \/ Bound(j) = "strong")
    PROVE Stands(j, n, G)
<1>1. ~ Defines(j, n) /\ ~ Shares(j, n) /\ (Asks(j, n) => Bound(j) = "strong")
  BY DEF Defines, Shares, Asks
<1>2. \A i : i \in 1 .. j <=> i \in 1 .. k \/ i = j
  BY DEF Behind
<1>3. G.wanted \in BOOLEAN /\ H.wanted \in BOOLEAN
  BY DEF Globals
<1>4. \A i \in 1 .. j : Asks(i, n) => G.wanted
  <2>1. \A i \in 1 .. k : Asks(i, n) => H.wanted
    BY DEF Stands
  <2> QED BY <1>1, <1>2, <2>1
<1>5. /\ G.defined <=> \E i \in 1 .. j : Defines(i, n)
      /\ G.defined => ~ G.common
      /\ ~ G.defined => (G.common <=> \E i \in 1 .. j : Shares(i, n))
  BY <1>1, <1>2 DEF Stands
<1>6. /\ G.defined => \E i \in 1 .. j : Defines(i, n) /\ G.object = By(i) /\ (Bound(i) = "weak" <=> G.weak)
      /\ \A i \in 1 .. j : Defines(i, n) /\ Bound(i) = "strong" => ~ G.weak /\ G.object = By(i)
      /\ \A i \in 1 .. j : Defines(i, n) /\ G.weak => G.object <= By(i)
      /\ \A i \in 1 .. j : Defines(i, n) /\ ~ G.weak => By(i) <= G.object
  BY <1>1, <1>2 DEF Stands
<1>7. /\ G.common => \E i \in 1 .. j : Shares(i, n) /\ G.size = inputs[By(i)].size
      /\ G.common => \A i \in 1 .. j : Shares(i, n) => inputs[By(i)].size <= G.size
  BY <1>1, <1>2 DEF Stands
<1> QED BY <1>4, <1>5, <1>6, <1>7 DEF Stands

\* A definition where there was none, or a weak one
LEMMA StandsDefined ==
    ASSUME NEW k \in Nat, NEW j \in Nat, Behind(j, k), NEW n, NEW H \in Globals, NEW G \in Globals, Stands(k, n, H),
           Called(j) = n, Lies(j) \in {"kept", "skipped"}, Bound(j) \in {"strong", "weak"}, By(j) \in Nat,
           ~ H.defined \/ (H.weak /\ Bound(j) = "strong"),
           G.defined, ~ G.common, G.weak = (Bound(j) = "weak"), G.object = By(j), G.wanted = H.wanted,
           \A i \in 1 .. k : By(i) <= By(j)
    PROVE Stands(j, n, G)
<1>1. Defines(j, n) /\ ~ Shares(j, n) /\ ~ Asks(j, n)
  BY DEF Defines, Shares, Asks
<1>2. j \in 1 .. j /\ \A i : i \in 1 .. j <=> i \in 1 .. k \/ i = j
  BY DEF Behind
<1>3. G.weak \in BOOLEAN /\ H.weak \in BOOLEAN /\ H.defined \in BOOLEAN
  BY DEF Globals
<1>4. \A i \in 1 .. j : Asks(i, n) => G.wanted
  BY <1>1, <1>2 DEF Stands
<1>5. \A i \in 1 .. k : Defines(i, n) => Bound(j) = "strong" /\ Bound(i) # "strong"
  <2>1. \A i \in 1 .. k : Defines(i, n) => H.defined
    BY DEF Stands
  <2>2. \A i \in 1 .. k : Defines(i, n) /\ Bound(i) = "strong" => ~ H.weak
    BY DEF Stands
  <2> QED BY <2>1, <2>2
<1>6. \A i \in 1 .. j : Defines(i, n) /\ Bound(i) = "strong" => ~ G.weak /\ G.object = By(i)
  BY <1>2, <1>5
<1>7. \A i \in 1 .. j : Defines(i, n) /\ G.weak => G.object <= By(i)
  <2>1. ASSUME NEW i \in 1 .. j, Defines(i, n), G.weak PROVE G.object <= By(i)
    <3>1. i = j
      BY <1>2, <1>5, <2>1
    <3> QED BY <3>1
  <2> QED BY <2>1
<1>8. \A i \in 1 .. j : By(i) <= G.object
  <2>1. By(j) <= G.object
    OBVIOUS
  <2> QED BY <1>2, <2>1
<1> QED BY <1>1, <1>2, <1>3, <1>4, <1>6, <1>7, <1>8 DEF Stands

\* A weak definition after a weak one
LEMMA StandsWeak ==
    ASSUME NEW k \in Nat, NEW j \in Nat, Behind(j, k), NEW n, NEW H \in Globals, Stands(k, n, H),
           Called(j) = n, Lies(j) \in {"kept", "skipped"}, Bound(j) = "weak", H.defined, H.weak,
           \A i \in 1 .. k : By(i) <= By(j)
    PROVE Stands(j, n, H)
<1>1. Defines(j, n) /\ ~ Shares(j, n) /\ ~ Asks(j, n) /\ Bound(j) # "strong"
  BY DEF Defines, Shares, Asks
<1>2. j \in 1 .. j /\ \A i : i \in 1 .. j <=> i \in 1 .. k \/ i = j
  BY DEF Behind
<1>3. \A i \in 1 .. j : Asks(i, n) => H.wanted
  BY <1>1, <1>2 DEF Stands
<1>4. PICK i \in 1 .. k : Defines(i, n) /\ H.object = By(i) /\ (Bound(i) = "weak" <=> H.weak)
  BY DEF Stands
<1>5. ~ H.common
  BY DEF Stands
<1>6. \A i0 \in 1 .. j : Defines(i0, n) /\ Bound(i0) = "strong" => ~ H.weak /\ H.object = By(i0)
  BY <1>1, <1>2 DEF Stands
<1>7. \A i0 \in 1 .. j : Defines(i0, n) /\ H.weak => H.object <= By(i0)
  <2>1. H.object <= By(j)
    BY <1>4
  <2> QED BY <1>2, <2>1 DEF Stands
<1>8. i \in 1 .. j
  BY <1>2
<1> QED BY <1>1, <1>2, <1>3, <1>4, <1>5, <1>6, <1>7, <1>8 DEF Stands

\* A common symbol that is larger than the largest, or the first
LEMMA StandsShared ==
    ASSUME NEW k \in Nat, NEW j \in Nat, Behind(j, k), NEW n, NEW H \in Globals, NEW G \in Globals, Stands(k, n, H),
           Called(j) = n, Lies(j) = "common", inputs[By(j)].size \in Nat, ~ H.defined,
           \A i \in 1 .. k : inputs[By(i)].size \in Nat,
           ~ H.common \/ inputs[By(j)].size > H.size,
           ~ G.defined, G.common, G.size = inputs[By(j)].size, G.wanted = H.wanted
    PROVE Stands(j, n, G)
<1>1. ~ Defines(j, n) /\ Shares(j, n) /\ ~ Asks(j, n)
  BY DEF Defines, Shares, Asks
<1>2. j \in 1 .. j /\ \A i : i \in 1 .. j <=> i \in 1 .. k \/ i = j
  BY DEF Behind
<1>3. \A i \in 1 .. j : Asks(i, n) => G.wanted
  BY <1>1, <1>2 DEF Stands
<1>4. \A i \in 1 .. k : ~ Defines(i, n)
  BY DEF Stands
<1>5. \A i \in 1 .. k : Shares(i, n) => inputs[By(i)].size <= G.size
  <2>1. CASE ~ H.common
    BY <2>1 DEF Stands
  <2>2. CASE H.common
    <3>1. \A i \in 1 .. k : Shares(i, n) => inputs[By(i)].size <= H.size
      BY <2>2 DEF Stands
    <3>2. H.size \in Nat /\ H.size < G.size
      BY <2>2 DEF Globals
    <3> QED BY <3>1, <3>2
  <2> QED BY <2>1, <2>2
<1>6. \A i \in 1 .. j : Shares(i, n) => inputs[By(i)].size <= G.size
  <2>1. inputs[By(j)].size <= G.size
    OBVIOUS
  <2> QED BY <1>2, <1>5, <2>1
<1> QED BY <1>1, <1>2, <1>3, <1>4, <1>6 DEF Stands

\* A common symbol that is not larger, or after a definition
LEMMA StandsSmall ==
    ASSUME NEW k \in Nat, NEW j \in Nat, Behind(j, k), NEW n, NEW H \in Globals, Stands(k, n, H),
           Called(j) = n, Lies(j) = "common", inputs[By(j)].size \in Nat,
           H.defined \/ (H.common /\ ~ (inputs[By(j)].size > H.size))
    PROVE Stands(j, n, H)
<1>1. ~ Defines(j, n) /\ Shares(j, n) /\ ~ Asks(j, n)
  BY DEF Defines, Shares, Asks
<1>2. j \in 1 .. j /\ \A i : i \in 1 .. j <=> i \in 1 .. k \/ i = j
  BY DEF Behind
<1>3. H.size \in Nat
  BY DEF Globals
<1>4. H.common => inputs[By(j)].size <= H.size
  BY <1>3 DEF Stands
<1>5. /\ \A i \in 1 .. j : Asks(i, n) => H.wanted
      /\ H.defined <=> \E i \in 1 .. j : Defines(i, n)
      /\ H.defined => ~ H.common
      /\ ~ H.defined => (H.common <=> \E i \in 1 .. j : Shares(i, n))
  BY <1>1, <1>2 DEF Stands
<1>6. /\ H.defined => \E i \in 1 .. j : Defines(i, n) /\ H.object = By(i) /\ (Bound(i) = "weak" <=> H.weak)
      /\ \A i \in 1 .. j : Defines(i, n) /\ Bound(i) = "strong" => ~ H.weak /\ H.object = By(i)
      /\ \A i \in 1 .. j : Defines(i, n) /\ H.weak => H.object <= By(i)
      /\ \A i \in 1 .. j : Defines(i, n) /\ ~ H.weak => By(i) <= H.object
  BY <1>1, <1>2 DEF Stands
<1>7. /\ H.common => \E i \in 1 .. j : Shares(i, n) /\ H.size = inputs[By(i)].size
      /\ H.common => \A i \in 1 .. j : Shares(i, n) => inputs[By(i)].size <= H.size
  BY <1>1, <1>2, <1>4 DEF Stands
<1> QED BY <1>5, <1>6, <1>7 DEF Stands

Accounts == [g : Tables, bad : BOOLEAN]
Resolves(k, acc) == ~ acc.bad => \A n \in ML!Names : Stands(k, n, ML!Find(acc.g, n))

LEMMA OwnedIs ==
    ASSUME NEW H \in Globals, NEW j, ML!Located(ML!Work[j][2]) \in BOOLEAN, By(j) \in Nat, inputs[By(j)].size \in Nat
    PROVE  LET G == ML!Owned(H, By(j), ML!Work[j][2])
           IN  /\ G \in Globals /\ G.defined = ML!Located(ML!Work[j][2]) /\ G.common = ~ ML!Located(ML!Work[j][2])
               /\ G.weak = (Bound(j) = "weak") /\ G.object = By(j) /\ G.size = inputs[By(j)].size /\ G.wanted = H.wanted
BY DEF ML!Owned, Globals, Bound

\* A symbol whose name stands for H gives this.
Becomes(H, j) ==
    IF Lies(j) = "undef" THEN [H EXCEPT !.wanted = @ \/ Bound(j) = "strong"]
    ELSE IF ML!Takes(H, By(j), ML!Work[j][2]) THEN ML!Owned(H, By(j), ML!Work[j][2]) ELSE H

LEMMA ResolvingIs ==
    ASSUME NEW acc \in Accounts, NEW j \in 1 .. Len(ML!Work), ML!Work \in Seq(Jobs), inputs \in Seq(LinkFiles)
    PROVE  LET H == ML!Find(acc.g, Called(j))
               G == Becomes(H, j)
               new == ML!Resolving(acc, ML!Work[j])
           IN  /\ new \in Accounts /\ H \in Globals /\ G \in Globals
               /\ ~ new.bad =>
                   /\ ~ acc.bad
                   /\ ~ (Lies(j) \in {"kept", "skipped"} /\ H.defined /\ ~ H.weak)
                   /\ ML!Find(new.g, Called(j)) = G
                   /\ \A m : m # Called(j) => ML!Find(new.g, m) = ML!Find(acc.g, m)
<1> DEFINE w == ML!Work[j]
           n == Called(j)
           H == ML!Find(acc.g, n)
           G == Becomes(H, j)
           new == ML!Resolving(acc, w)
<1>1. /\ w = <<By(j), <<n, Bound(j), Lies(j)>>>> /\ By(j) \in 1 .. Len(inputs)
      /\ n \in ML!Names /\ Bound(j) \in {"strong", "weak"} /\ Lies(j) \in {"undef", "common", "kept", "skipped"}
      /\ inputs[By(j)].size \in Nat
      /\ ML!Located(w[2]) <=> Lies(j) \in {"kept", "skipped"}
  BY JobIs
<1>2. acc.g \in Tables /\ acc.bad \in BOOLEAN
  BY DEF Accounts
<1>3. H \in Globals
  BY <1>2, FindIs
<1>4. G \in Globals
  <2>1. CASE Lies(j) = "undef"
    <3>1. G = [H EXCEPT !.wanted = @ \/ Bound(j) = "strong"]
      BY <2>1 DEF Becomes
    <3>2. (H.wanted \/ Bound(j) = "strong") \in BOOLEAN
      OBVIOUS
    <3> HIDE DEF H, G
    <3> QED BY <1>3, <3>1, <3>2 DEF Globals
  <2>2. CASE Lies(j) # "undef"
    <3>1. G = ML!Owned(H, By(j), w[2]) \/ G = H
      BY <2>2 DEF Becomes
    <3>2. ML!Located(w[2]) \in BOOLEAN
      BY DEF ML!Located
    <3>3. By(j) \in Nat
      BY <1>1
    <3>4. ML!Owned(H, By(j), w[2]) \in Globals
      <4>1. inputs[By(j)].size \in Nat
        BY <1>1
      <4> HIDE DEF H
      <4> QED BY <1>3, <3>2, <3>3, <4>1, OwnedIs
    <3> QED BY <1>3, <3>1, <3>4
  <2> QED BY <2>1, <2>2
<1>5. w[1] = By(j) /\ w[2][1] = n /\ w[2][2] = Bound(j) /\ w[2][3] = Lies(j)
  BY DEF By, Called, Bound, Lies
<1>6. /\ ML!Put(acc.g, n, G) \in Tables /\ ML!Find(ML!Put(acc.g, n, G), n) = G
      /\ \A m : m # n => ML!Find(ML!Put(acc.g, n, G), m) = ML!Find(acc.g, m)
  <2> HIDE DEF G, H, n
  <2> QED BY <1>1, <1>2, <1>4, PutIs
<1> DEFINE Twice == Lies(j) \in {"kept", "skipped"} /\ H.defined /\ ~ H.weak
<1>7. CASE acc.bad
  <2>1. new = acc
    BY <1>7 DEF ML!Resolving
  <2> QED BY <1>3, <1>4, <1>7, <2>1
<1>8. CASE ~ acc.bad /\ Twice
  <2>1. ML!Duplicate(acc.g, w[2])
    BY <1>1, <1>5, <1>8 DEF ML!Duplicate
  <2>2. new = [acc EXCEPT !.bad = TRUE]
    BY <1>5, <1>8, <2>1 DEF ML!Resolving
  <2>3. new \in Accounts /\ new.bad
    BY <2>2 DEF Accounts
  <2> QED BY <1>3, <1>4, <2>3
<1>9. CASE ~ acc.bad /\ ~ Twice
  <2>1. ~ ML!Duplicate(acc.g, w[2]) \/ Lies(j) = "undef"
    BY <1>1, <1>5, <1>9 DEF ML!Duplicate
  <2>2. new = [acc EXCEPT !.g = ML!Put(acc.g, n, G)]
    <3>1. CASE Lies(j) = "undef"
      <4>1. ML!RecordUndefined(acc.g, w[2]) = ML!Put(acc.g, n, G)
        BY <1>5, <3>1 DEF ML!RecordUndefined, Becomes
      <4>2. new = [acc EXCEPT !.g = ML!RecordUndefined(acc.g, w[2])]
        BY <1>5, <1>9, <3>1 DEF ML!Resolving
      <4> QED BY <4>1, <4>2
    <3>2. CASE Lies(j) # "undef"
      <4>1. ML!DefineGlobal(acc.g, w[1], w[2]) = ML!Put(acc.g, n, G)
        BY <1>5, <3>2 DEF ML!DefineGlobal, Becomes
      <4>2. new = [acc EXCEPT !.g = ML!DefineGlobal(acc.g, w[1], w[2])]
        BY <1>5, <1>9, <2>1, <3>2 DEF ML!Resolving
      <4> QED BY <4>1, <4>2
    <3> QED BY <3>1, <3>2
  <2> HIDE DEF new, G, H, n, w, Twice
  <2>3. new \in Accounts /\ new.g = ML!Put(acc.g, n, G)
    BY <1>6, <2>2 DEF Accounts
  <2> QED BY <1>3, <1>4, <1>6, <1>9, <2>3 DEF G, H, n, w, Twice, new
<1> QED BY <1>7, <1>8, <1>9

LEMMA ResolvesNext ==
    ASSUME NEW acc \in Accounts, NEW k \in Nat, NEW j \in 1 .. Len(ML!Work), Behind(j, k), Resolves(k, acc),
           ML!Work \in Seq(Jobs), Covers(Len(inputs), ML!Work), inputs \in Seq(LinkFiles)
    PROVE  Resolves(j, ML!Resolving(acc, ML!Work[j]))
<1> DEFINE n == Called(j)
           H == ML!Find(acc.g, n)
           G == Becomes(H, j)
           new == ML!Resolving(acc, ML!Work[j])
<1> SUFFICES ASSUME ~ new.bad PROVE \A m \in ML!Names : Stands(j, m, ML!Find(new.g, m))
  BY DEF Resolves
<1>1. /\ H \in Globals /\ G \in Globals /\ ~ acc.bad
      /\ ~ (Lies(j) \in {"kept", "skipped"} /\ H.defined /\ ~ H.weak)
      /\ ML!Find(new.g, n) = G
      /\ \A m : m # n => ML!Find(new.g, m) = ML!Find(acc.g, m)
  BY ResolvingIs
<1>2. /\ By(j) \in Nat /\ n \in ML!Names /\ Bound(j) \in {"strong", "weak"}
      /\ Lies(j) \in {"undef", "common", "kept", "skipped"} /\ inputs[By(j)].size \in Nat
      /\ ML!Located(ML!Work[j][2]) <=> Lies(j) \in {"kept", "skipped"}
  BY JobIs
<1>3. j \in Nat /\ \A i \in 1 .. k : i \in 1 .. Len(ML!Work) /\ i <= j
  BY DEF Behind
<1>4. \A i \in 1 .. k : By(i) <= By(j) /\ inputs[By(i)].size \in Nat
  <2>1. \A i \in 1 .. k : By(i) <= By(j)
    BY <1>3 DEF Covers, By
  <2>2. \A i \in 1 .. k : inputs[By(i)].size \in Nat
    BY <1>3, JobIs
  <2> QED BY <2>1, <2>2
<1>5. Stands(k, n, H)
  BY <1>1, <1>2 DEF Resolves
<1>6. Stands(j, n, G)
  <2>1. CASE Lies(j) = "undef"
    <3>1. G = [H EXCEPT !.wanted = H.wanted \/ Bound(j) = "strong"]
      BY <2>1 DEF Becomes
    <3> HIDE DEF H, G, n
    <3>2. /\ G.defined = H.defined /\ G.common = H.common /\ G.weak = H.weak /\ G.object = H.object /\ G.size = H.size
          /\ G.wanted = (H.wanted \/ Bound(j) = "strong")
      BY <1>1, <3>1 DEF Globals
    <3> QED BY <1>1, <1>2, <1>3, <1>5, <2>1, <3>2, StandsAsked DEF n
  <2>2. CASE Lies(j) # "undef" /\ ML!Takes(H, By(j), ML!Work[j][2])
    <3>1. G = ML!Owned(H, By(j), ML!Work[j][2])
      BY <2>2 DEF Becomes
    <3>2. ML!Located(ML!Work[j][2]) \in BOOLEAN
      BY DEF ML!Located
    <3>3. /\ G.defined = ML!Located(ML!Work[j][2]) /\ G.common = ~ ML!Located(ML!Work[j][2])
          /\ G.weak = (Bound(j) = "weak") /\ G.object = By(j) /\ G.size = inputs[By(j)].size /\ G.wanted = H.wanted
      BY <1>1, <1>2, <3>1, <3>2, OwnedIs
    <3>4. CASE Lies(j) \in {"kept", "skipped"}
      <4>1. ~ H.defined \/ (H.weak /\ Bound(j) = "strong")
        BY <1>2, <2>2, <3>4 DEF ML!Takes, Bound
      <4>2. G.defined /\ ~ G.common
        BY <1>2, <3>3, <3>4
      <4> HIDE DEF H, G, n
      <4> QED BY <1>1, <1>2, <1>3, <1>4, <1>5, <3>3, <3>4, <4>1, <4>2, StandsDefined DEF n
    <3>5. CASE Lies(j) = "common"
      <4>1. ~ H.defined /\ (~ H.common \/ inputs[By(j)].size > H.size)
        BY <1>2, <2>2, <3>5 DEF ML!Takes
      <4>2. ~ G.defined /\ G.common
        BY <1>2, <3>3, <3>5
      <4> HIDE DEF H, G, n
      <4> QED BY <1>1, <1>2, <1>3, <1>4, <1>5, <3>3, <3>5, <4>1, <4>2, StandsShared DEF n
    <3> QED BY <1>2, <2>2, <3>4, <3>5
  <2>3. CASE Lies(j) # "undef" /\ ~ ML!Takes(H, By(j), ML!Work[j][2])
    <3>1. G = H
      BY <2>3 DEF Becomes
    <3>2. CASE Lies(j) \in {"kept", "skipped"}
      <4>1. H.defined /\ ~ (H.weak /\ Bound(j) = "strong")
        BY <1>2, <2>3, <3>2 DEF ML!Takes, Bound
      <4>2. H.weak /\ Bound(j) = "weak"
        BY <1>1, <1>2, <3>2, <4>1
      <4> HIDE DEF H, G, n
      <4> QED BY <1>1, <1>3, <1>4, <1>5, <3>1, <3>2, <4>1, <4>2, StandsWeak DEF n
    <3>3. CASE Lies(j) = "common"
      <4>1. H.defined \/ (H.common /\ ~ (inputs[By(j)].size > H.size))
        BY <1>2, <2>3, <3>3 DEF ML!Takes
      <4> HIDE DEF H, G, n
      <4> QED BY <1>1, <1>2, <1>3, <1>5, <3>1, <3>3, <4>1, StandsSmall DEF n
    <3> QED BY <1>2, <2>3, <3>2, <3>3
  <2> QED BY <2>1, <2>2, <2>3
<1>7. ASSUME NEW m \in ML!Names, m # n PROVE Stands(j, m, ML!Find(acc.g, m))
  <2>1. Stands(k, m, ML!Find(acc.g, m))
    BY <1>1, <1>7 DEF Resolves
  <2>2. j \in 1 .. j /\ \A i : i \in 1 .. j <=> i \in 1 .. k \/ i = j
    BY DEF Behind
  <2>3. Called(j) # m
    BY <1>7
  <2> QED BY <1>3, <2>1, <2>2, <2>3, StandsOther
<1> QED BY <1>1, <1>6, <1>7

LEMMA BehindIs ==
    ASSUME NEW N \in Nat, NEW j \in 1 .. N
    PROVE  j - 1 \in 0 .. N /\ j - 1 \in Nat /\ Behind(j, j - 1) /\ j \in 0 .. N /\ j # 0
BY DEF Behind

LEMMA ResolvedIs ==
    ASSUME inputs \in Seq(LinkFiles), chosen \subseteq 1 .. Len(inputs), globals \in Tables
    PROVE  /\ ML!Resolved \in Accounts
           /\ DOMAIN globals = {} => Resolves(Len(ML!Work), ML!Resolved)
<1> DEFINE N == Len(ML!Work)
           T == Accounts
           start == [g |-> globals, bad |-> FALSE]
           E == [q \in (1 .. N) \X T |-> ML!Resolving(q[2], ML!Work[q[1]])]
           f0 == ML!ResolvedTo
<1>1. ML!Work \in Seq(Jobs) /\ Covers(Len(inputs), ML!Work)
  BY WorkIs
<1>2. N \in Nat
  BY <1>1
<1>3. start \in T
  BY DEF Accounts
<1>4. \A n \in 1 .. N, t \in T : ML!Resolving(t, ML!Work[n]) \in T
  BY <1>1, ResolvingIs
<1>5. E \in Onward(N, T)
  BY <1>4 DEF Onward
<1>6. \A n \in 1 .. N, t \in T : E[<<n, t>>] = ML!Resolving(t, ML!Work[n])
  OBVIOUS
<1> HIDE DEF E, start, T
<1>7. PICK f \in Courses(N, T) : f = [k \in 0 .. N |-> IF k = 0 THEN start ELSE E[<<k, f[k - 1]>>]]
  <2> HIDE DEF N
  <2> QED BY <1>2, <1>3, <1>5, Unrolled
<1>8. f = [k \in 0 .. N |-> IF k = 0 THEN start ELSE ML!Resolving(f[k - 1], ML!Work[k])]
  <2>1. ASSUME NEW k \in 0 .. N, k # 0 PROVE E[<<k, f[k - 1]>>] = ML!Resolving(f[k - 1], ML!Work[k])
    <3>1. k - 1 \in 0 .. N /\ k \in 1 .. N
      BY <1>2, <2>1
    <3> HIDE DEF N
    <3> QED BY <1>6, <1>7, <3>1 DEF Courses
  <2> HIDE DEF N
  <2> QED BY <1>7, <2>1
<1>9. f0 = CHOOSE h : h = [k \in 0 .. N |-> IF k = 0 THEN start ELSE ML!Resolving(h[k - 1], ML!Work[k])]
  BY DEF ML!ResolvedTo, start
<1>10. f0 = [k \in 0 .. N |-> IF k = 0 THEN start ELSE ML!Resolving(f0[k - 1], ML!Work[k])]
  BY <1>8, <1>9
<1> HIDE DEF f0
<1> DEFINE Right(k) == f0[k] \in T /\ (DOMAIN globals = {} => Resolves(k, f0[k]))
           Wrong == {k \in 0 .. N : ~ Right(k)}
<1>11. 0 \notin Wrong
  <2>1. f0[0] = start
    BY <1>2, <1>10
  <2>2. ASSUME DOMAIN globals = {} PROVE Resolves(0, start)
    <3>1. \A n : ML!Find(start.g, n) = ML!Blank
      BY <2>2 DEF ML!Find, start
    <3>2. \A n : Stands(0, n, ML!Blank)
      BY DEF Stands, ML!Blank
    <3> QED BY <3>1, <3>2 DEF Resolves
  <2> QED BY <1>3, <2>1, <2>2
<1>12. ASSUME NEW m \in 1 .. N, m - 1 \notin Wrong PROVE m \notin Wrong
  <2>1. m - 1 \in 0 .. N /\ m - 1 \in Nat /\ Behind(m, m - 1) /\ m \in 0 .. N /\ m # 0
    BY <1>2, BehindIs
  <2>2. PICK k \in Nat : k = m - 1
    BY <2>1
  <2>3. Right(k)
    BY <1>12, <2>1, <2>2
  <2>4. f0[m] = ML!Resolving(f0[k], ML!Work[m])
    <3> HIDE DEF N
    <3> QED BY <1>10, <2>1, <2>2
  <2>5. f0[k] \in Accounts /\ Behind(m, k)
    BY <2>1, <2>2, <2>3 DEF T
  <2>6. f0[m] \in T
    BY <1>4, <2>3, <2>4
  <2>7. DOMAIN globals = {} => Resolves(m, f0[m])
    BY <1>1, <2>3, <2>4, <2>5, ResolvesNext
  <2> QED BY <2>6, <2>7
<1>13. Wrong \subseteq 0 .. N
  OBVIOUS
<1>14. Wrong = {}
  <2> HIDE DEF Wrong, N
  <2> QED BY <1>2, <1>11, <1>12, <1>13, Climb
<1>15. N \in 0 .. N
  BY <1>2
<1>16. Right(N)
  <2> HIDE DEF N, Right
  <2> QED BY <1>14, <1>15
<1> QED BY <1>16 DEF ML!Resolved, f0, T

\* What comes later takes no definition away, nor the wish for one.
Keeps(g, h) ==
    \A n \in ML!Names :
        /\ ML!Find(g, n).defined => ML!Find(h, n) = ML!Find(g, n)
        /\ ML!Find(g, n).common => ML!Find(h, n).common \/ ML!Find(h, n).defined
        /\ ML!Find(g, n).wanted => ML!Find(h, n).wanted

LEMMA AbsoluteIs ==
    ASSUME NEW H \in Globals, NEW weak \in BOOLEAN
    PROVE  /\ ML!Absolute(H, weak) \in Globals /\ ML!Absolute(H, weak).defined /\ ~ ML!Absolute(H, weak).common
           /\ ML!Absolute(H, weak).wanted = H.wanted /\ ML!Absolute(H, weak).object = 0
BY DEF ML!Absolute, Globals

LEMMA InjectingIs ==
    ASSUME NEW acc \in Accounts, NEW m \in LinkMacros, NEW g, Keeps(g, acc.g)
    PROVE  ML!Injecting(acc, m) \in Accounts /\ Keeps(g, ML!Injecting(acc, m).g)
<1> DEFINE new == ML!Injecting(acc, m)
           H == ML!Find(acc.g, m[2])
<1>1. acc.g \in Tables /\ acc.bad \in BOOLEAN /\ m[2] \in ML!Names
  BY DEF Accounts, LinkMacros
<1>2. H \in Globals
  BY <1>1, FindIs
<1>3. CASE acc.bad \/ m[1] \notin {"DEFINE", "PROVIDE"}
  <2>1. new = acc
    BY <1>3 DEF ML!Injecting
  <2> QED BY <2>1
<1>4. CASE ~ (acc.bad \/ m[1] \notin {"DEFINE", "PROVIDE"}) /\ H.defined
  <2>1. new = [acc EXCEPT !.bad = (m[1] = "DEFINE")]
    BY <1>4 DEF ML!Injecting
  <2>2. new \in Accounts /\ new.g = acc.g
    BY <1>1, <2>1 DEF Accounts
  <2> QED BY <2>2
<1>5. CASE ~ (acc.bad \/ m[1] \notin {"DEFINE", "PROVIDE"}) /\ ~ H.defined
  <2> DEFINE G == ML!Absolute(H, m[1] = "PROVIDE")
             h == ML!Put(acc.g, m[2], G)
  <2>1. new = [acc EXCEPT !.g = h]
    BY <1>5 DEF ML!Injecting
  <2>2. (m[1] = "PROVIDE") \in BOOLEAN
    OBVIOUS
  <2>3. G \in Globals /\ G.defined /\ G.wanted = H.wanted
    <3> HIDE DEF H
    <3> QED BY <1>2, <2>2, AbsoluteIs
  <2>4. h \in Tables /\ ML!Find(h, m[2]) = G /\ \A n : n # m[2] => ML!Find(h, n) = ML!Find(acc.g, n)
    <3> HIDE DEF G, H
    <3> QED BY <1>1, <2>3, PutIs
  <2> HIDE DEF new, h, G
  <2>5. new \in Accounts /\ new.g = h
    BY <1>1, <2>1, <2>4 DEF Accounts
  <2>6. Keeps(g, h)
    <3>1. ASSUME NEW n \in ML!Names
          PROVE  /\ ML!Find(g, n).defined => ML!Find(h, n) = ML!Find(g, n)
                 /\ ML!Find(g, n).common => ML!Find(h, n).common \/ ML!Find(h, n).defined
                 /\ ML!Find(g, n).wanted => ML!Find(h, n).wanted
      <4>1. CASE n = m[2]
        BY <1>5, <2>3, <2>4, <4>1 DEF Keeps
      <4>2. CASE n # m[2]
        BY <2>4, <4>2 DEF Keeps
      <4> QED BY <4>1, <4>2
    <3> QED BY <3>1 DEF Keeps
  <2> QED BY <2>5, <2>6 DEF new
<1> QED BY <1>3, <1>4, <1>5

LEMMA InjectedIs ==
    ASSUME inputs \in Seq(LinkFiles), globals \in Tables
    PROVE  ML!Injected \in Accounts /\ Keeps(globals, ML!Injected.g)
<1> DEFINE N == Len(ML!Macros)
           T == {acc \in Accounts : Keeps(globals, acc.g)}
           start == [g |-> globals, bad |-> FALSE]
           E == [q \in (1 .. N) \X T |-> ML!Injecting(q[2], ML!Macros[q[1]])]
           f0 == ML!InjectedTo
<1>1. ML!Macros \in Seq(LinkMacros)
  BY MacrosAre
<1>2. N \in Nat /\ \A n \in 1 .. N : ML!Macros[n] \in LinkMacros
  BY <1>1
<1>3. start \in T
  BY DEF Accounts, Keeps
<1>4. \A n \in 1 .. N, t \in T : ML!Injecting(t, ML!Macros[n]) \in T
  BY <1>2, InjectingIs
<1>5. E \in Onward(N, T)
  BY <1>4 DEF Onward
<1>6. \A n \in 1 .. N, t \in T : E[<<n, t>>] = ML!Injecting(t, ML!Macros[n])
  OBVIOUS
<1> HIDE DEF E, start, T
<1>7. PICK f \in Courses(N, T) : f = [k \in 0 .. N |-> IF k = 0 THEN start ELSE E[<<k, f[k - 1]>>]]
  <2> HIDE DEF N
  <2> QED BY <1>2, <1>3, <1>5, Unrolled
<1>8. f = [k \in 0 .. N |-> IF k = 0 THEN start ELSE ML!Injecting(f[k - 1], ML!Macros[k])]
  <2>1. ASSUME NEW k \in 0 .. N, k # 0 PROVE E[<<k, f[k - 1]>>] = ML!Injecting(f[k - 1], ML!Macros[k])
    <3>1. k - 1 \in 0 .. N /\ k \in 1 .. N
      BY <1>2, <2>1
    <3> HIDE DEF N
    <3> QED BY <1>6, <1>7, <3>1 DEF Courses
  <2> HIDE DEF N
  <2> QED BY <1>7, <2>1
<1>9. f0 = CHOOSE h : h = [k \in 0 .. N |-> IF k = 0 THEN start ELSE ML!Injecting(h[k - 1], ML!Macros[k])]
  BY DEF ML!InjectedTo, start
<1>10. f0 = [k \in 0 .. N |-> IF k = 0 THEN start ELSE ML!Injecting(f0[k - 1], ML!Macros[k])]
  BY <1>8, <1>9
<1> HIDE DEF f0
<1> DEFINE Wrong == {k \in 0 .. N : f0[k] \notin T}
<1>11. 0 \notin Wrong
  <2>1. f0[0] = start
    BY <1>2, <1>10
  <2> QED BY <1>3, <2>1
<1>12. ASSUME NEW m \in 1 .. N, m - 1 \notin Wrong PROVE m \notin Wrong
  <2>1. m - 1 \in 0 .. N /\ m \in 0 .. N /\ m # 0
    BY <1>2
  <2>2. f0[m - 1] \in T
    BY <1>12, <2>1
  <2>3. f0[m] = ML!Injecting(f0[m - 1], ML!Macros[m])
    <3> HIDE DEF N
    <3> QED BY <1>10, <2>1
  <2> QED BY <1>4, <2>2, <2>3
<1>13. Wrong \subseteq 0 .. N
  OBVIOUS
<1>14. Wrong = {}
  <2> HIDE DEF Wrong, N
  <2> QED BY <1>2, <1>11, <1>12, <1>13, Climb
<1>15. f0[N] \in T
  <2>1. N \in 0 .. N
    BY <1>2
  <2> HIDE DEF N
  <2> QED BY <1>14, <2>1
<1> QED BY <1>15 DEF ML!Injected, f0, T

\* The names of the command line
LEMMA DefsymsAre ==
    ASSUME globals \in Tables, globals' \in Tables, defsyms \subseteq ML!Names, \A n \in defsyms : ~ ML!Find(globals, n).defined,
           DOMAIN globals' = DOMAIN globals \cup defsyms,
           \A n \in DOMAIN globals' : globals'[n] = IF n \in defsyms THEN ML!Absolute(ML!Find(globals, n), FALSE) ELSE globals[n]
    PROVE  Keeps(globals, globals')
<1>1. ASSUME NEW n \in ML!Names, n \in defsyms
      PROVE  ML!Find(globals', n).defined /\ ML!Find(globals', n).wanted = ML!Find(globals, n).wanted
  <2>1. ML!Find(globals', n) = ML!Absolute(ML!Find(globals, n), FALSE)
    BY <1>1 DEF ML!Find
  <2> QED BY <2>1, FindIs, AbsoluteIs
<1>2. ASSUME NEW n \in ML!Names, n \notin defsyms PROVE ML!Find(globals', n) = ML!Find(globals, n)
  BY <1>2 DEF ML!Find
<1> QED BY <1>1, <1>2 DEF Keeps

\* The names of the linker
LEMMA LinkerIs ==
    ASSUME NEW g \in Tables
    PROVE  /\ ML!LinkerSymbols(g) \in Tables /\ Keeps(g, ML!LinkerSymbols(g))
           /\ \A n \in LinkerNames : ML!Find(ML!LinkerSymbols(g), n).defined
           /\ \A n \in DOMAIN ML!LinkerSymbols(g) : ML!LinkerSymbols(g)[n].common => n \in DOMAIN g /\ g[n].common
<1> DEFINE h == ML!LinkerSymbols(g)
<1>1. DOMAIN g \subseteq ML!Names /\ g \in [DOMAIN g -> Globals]
  BY TableIs
<1>2. DOMAIN h = DOMAIN g \cup LinkerNames /\ LinkerNames \subseteq ML!Names
  BY DEF ML!LinkerSymbols, ML!Names
<1>3. \A n \in DOMAIN h : h[n] = IF n \in LinkerNames /\ ~ ML!Find(g, n).defined THEN ML!Absolute(ML!Find(g, n), TRUE) ELSE g[n]
  BY DEF ML!LinkerSymbols
<1>4. h = [n \in DOMAIN h |-> h[n]]
  BY <1>2 DEF ML!LinkerSymbols
<1> HIDE DEF h
<1>5. \A n : /\ ML!Find(g, n) \in Globals /\ ML!Absolute(ML!Find(g, n), TRUE) \in Globals
             /\ ML!Absolute(ML!Find(g, n), TRUE).defined /\ ~ ML!Absolute(ML!Find(g, n), TRUE).common
             /\ ML!Absolute(ML!Find(g, n), TRUE).wanted = ML!Find(g, n).wanted
  BY FindIs, AbsoluteIs
<1>6. ASSUME NEW n \in DOMAIN h PROVE h[n] \in Globals /\ (h[n].common => n \in DOMAIN g /\ g[n].common)
  <2>1. CASE n \in LinkerNames /\ ~ ML!Find(g, n).defined
    BY <1>3, <1>5, <2>1
  <2>2. CASE ~ (n \in LinkerNames /\ ~ ML!Find(g, n).defined)
    <3>1. n \in DOMAIN g
      BY <1>2, <2>2 DEF ML!Find, ML!Blank
    <3> QED BY <1>1, <1>3, <2>2, <3>1
  <2> QED BY <2>1, <2>2
<1>7. h \in Tables
  <2>1. h \in [DOMAIN h -> Globals]
    BY <1>4, <1>6
  <2>2. DOMAIN h \subseteq ML!Names
    BY <1>1, <1>2
  <2> QED BY <2>1, <2>2, TableIs
<1>8. ASSUME NEW n \in ML!Names
      PROVE  /\ ML!Find(g, n).defined => ML!Find(h, n) = ML!Find(g, n)
             /\ ML!Find(g, n).common => ML!Find(h, n).common \/ ML!Find(h, n).defined
             /\ ML!Find(g, n).wanted => ML!Find(h, n).wanted
             /\ n \in LinkerNames => ML!Find(h, n).defined
  <2>1. CASE n \in LinkerNames /\ ~ ML!Find(g, n).defined
    <3>1. ML!Find(h, n) = ML!Absolute(ML!Find(g, n), TRUE)
      BY <1>2, <1>3, <2>1 DEF ML!Find
    <3> QED BY <1>5, <2>1, <3>1
  <2>2. CASE ~ (n \in LinkerNames /\ ~ ML!Find(g, n).defined)
    <3>1. ML!Find(h, n) = ML!Find(g, n)
      BY <1>2, <1>3, <2>2 DEF ML!Find, ML!Blank
    <3> QED BY <2>2, <3>1
  <2> QED BY <2>1, <2>2
<1> QED BY <1>2, <1>6, <1>7, <1>8 DEF h, Keeps

LEMMA LinkInit == ML!Init => LinkInv
<1> SUFFICES ASSUME ML!Init PROVE LinkInv
  OBVIOUS
<1>1. /\ pass = "args" /\ failed = FALSE /\ inputs = <<>> /\ chosen = {} /\ walk = 1 /\ changed = TRUE
      /\ globals = [n \in {} |-> ML!Blank] /\ storage = {} /\ defsyms = {} /\ entry = DefaultEntry
      /\ fromCli = FALSE /\ image = "none"
  BY DEF ML!Init
<1>2. globals \in Tables
  <2>1. DOMAIN globals = {} /\ globals \in [DOMAIN globals -> Globals]
    BY <1>1
  <2> QED BY <2>1, TableIs
<1>3. DefaultEntry \in ML!Names
  BY DEF ML!Names
<1>4. inputs \in Seq(LinkFiles) /\ Len(inputs) = 0 /\ MaxFiles \in Nat
  BY <1>1, LinkAssumption
<1>5. walk \in 1 .. Len(inputs) + 1 /\ Len(inputs) <= MaxFiles /\ chosen \subseteq 1 .. Len(inputs)
  BY <1>1, <1>4
<1>6. pass \in ML!Passes
  BY <1>1 DEF ML!Passes
<1> QED BY <1>1, <1>2, <1>3, <1>4, <1>5, <1>6 DEF LinkInv

LEMMA LinkStays == ASSUME LinkInv, UNCHANGED mlinkVars PROVE LinkInv'
BY DEF LinkInv, mlinkVars

LEMMA ThenIs ==
    ASSUME NEW p \in ML!Passes, NEW bad \in BOOLEAN, ML!Then(p, bad)
    PROVE  pass' \in ML!Passes /\ failed' \in BOOLEAN /\ (~ failed' => pass' = p)
           /\ (failed' <=> bad) /\ (failed' => pass' = "done")
BY DEF ML!Then, ML!Passes

LEMMA LoadIs ==
    ASSUME LinkInv, NEW f \in LinkFiles, ML!Load(f)
    PROVE  LinkInv'
<1>1. /\ inputs \in Seq(LinkFiles) /\ Len(inputs) \in Nat /\ chosen \subseteq 1 .. Len(inputs)
      /\ walk \in 1 .. Len(inputs) + 1 /\ Len(inputs) < MaxFiles /\ MaxFiles \in Nat
  BY LinkAssumption DEF LinkInv, ML!Load
<1>2. /\ UNCHANGED <<pass, walk, changed, globals, storage, defsyms, entry, fromCli, image>>
      /\ \/ inputs' = Append(inputs, f) /\ failed' = failed /\ (chosen' = chosen \/ chosen' = chosen \cup {Len(inputs) + 1})
         \/ inputs' = inputs /\ failed' = TRUE /\ chosen' = chosen
  BY DEF ML!Load, ML!LoadMember, ML!LoadObject, ML!Add
<1>3. CASE inputs' = Append(inputs, f)
  <2>1. inputs' \in Seq(LinkFiles) /\ Len(inputs') = Len(inputs) + 1
    BY <1>1, <1>3
  <2>2. Len(inputs') <= MaxFiles /\ walk' \in 1 .. Len(inputs') + 1
    BY <1>1, <1>2, <2>1
  <2>3. chosen' \subseteq 1 .. Len(inputs')
    <3>1. \A i \in 1 .. Len(inputs) : i \in 1 .. Len(inputs) + 1
      BY <1>1
    <3>2. Len(inputs) + 1 \in 1 .. Len(inputs) + 1
      BY <1>1
    <3>3. chosen' \subseteq chosen \cup {Len(inputs) + 1}
      BY <1>2
    <3> QED BY <1>1, <2>1, <3>1, <3>2, <3>3
  <2>4. failed' \in BOOLEAN
    BY <1>2 DEF LinkInv
  <2> QED BY <1>2, <2>1, <2>2, <2>3, <2>4 DEF LinkInv
<1>4. CASE inputs' = inputs
  <2>1. failed' \in BOOLEAN /\ chosen' = chosen
    <3>1. Append(inputs, f) # inputs
      <4>1. Len(Append(inputs, f)) = Len(inputs) + 1
        BY <1>1
      <4> QED BY <1>1, <4>1
    <3> QED BY <1>2, <1>4, <3>1
  <2> QED BY <1>2, <1>4, <2>1 DEF LinkInv
<1> QED BY <1>2, <1>3, <1>4

LEMMA SelectIs ==
    ASSUME LinkInv, ML!Select
    PROVE  LinkInv'
<1>1. /\ Len(inputs) \in Nat /\ chosen \subseteq 1 .. Len(inputs) /\ walk \in 1 .. Len(inputs) + 1
      /\ changed \in BOOLEAN
  BY DEF LinkInv
<1>2. UNCHANGED <<failed, inputs, globals, storage, defsyms, entry, fromCli, image>> /\ pass = "select"
  BY DEF ML!Select
<1>3. CASE walk <= Len(inputs)
  <2>1. walk' = walk + 1 /\ pass' = pass /\ changed' \in BOOLEAN /\ chosen' \subseteq chosen \cup {walk}
    BY <1>1, <1>3 DEF ML!Select
  <2>2. walk' \in 1 .. Len(inputs) + 1 /\ walk \in 1 .. Len(inputs)
    BY <1>1, <1>3, <2>1
  <2> QED BY <1>1, <1>2, <2>1, <2>2 DEF LinkInv
<1>4. CASE ~ (walk <= Len(inputs))
  <2>1. chosen' = chosen /\ changed' = changed /\ (walk' = 1 \/ walk' = walk) /\ (pass' = pass \/ pass' = "resolve")
    BY <1>4 DEF ML!Select
  <2>2. walk' \in 1 .. Len(inputs) + 1
    BY <1>1, <2>1
  <2>3. pass' \in ML!Passes
    BY <2>1 DEF ML!Passes, LinkInv
  <2> QED BY <1>1, <1>2, <2>1, <2>2, <2>3 DEF LinkInv
<1> QED BY <1>3, <1>4

LEMMA LinkStepped ==
    ASSUME LinkInv, ML!Next
    PROVE  LinkInv'
<1>1. \A p \in ML!Passes : \A bad \in BOOLEAN : ML!Then(p, bad) => pass' \in ML!Passes /\ failed' \in BOOLEAN
  BY ThenIs
<1>2. {"args", "load", "pre", "select", "resolve", "defsym", "inject", "layout", "report", "post", "relocate", "emit", "done"}
      \subseteq ML!Passes
  BY DEF ML!Passes
<1>3. inputs \in Seq(LinkFiles) /\ chosen \subseteq 1 .. Len(inputs) /\ globals \in Tables /\ defsyms \subseteq ML!Names
  BY DEF LinkInv
<1>4. ASSUME NEW l \in LinkLines, NEW b \in BOOLEAN, ML!Args(l, b) PROVE LinkInv'
  <2>1. /\ defsyms' = l.defsyms /\ entry' \in (IF l.entry = {} THEN {DefaultEntry} ELSE l.entry) /\ fromCli' = (l.entry # {})
        /\ UNCHANGED <<inputs, chosen, walk, changed, globals, storage, image>> /\ ML!Then("load", b)
    BY <1>4 DEF ML!Args
  <2>2. l.defsyms \subseteq ML!Names /\ l.entry \subseteq ML!Names /\ DefaultEntry \in ML!Names
    BY LineNames DEF ML!Names
  <2>3. pass' \in ML!Passes /\ failed' \in BOOLEAN
    BY <1>1, <1>2, <2>1
  <2>4. entry' \in ML!Names /\ fromCli' \in BOOLEAN
    BY <2>1, <2>2
  <2> QED BY <2>1, <2>2, <2>3, <2>4 DEF LinkInv
<1>5. ASSUME NEW f \in LinkFiles, ML!Load(f) PROVE LinkInv'
  BY <1>5, LoadIs
<1>6. CASE ML!Loaded
  <2>1. pass' \in ML!Passes /\ failed' \in BOOLEAN
    BY <1>1, <1>2, <1>6 DEF ML!Loaded, LinkInv
  <2> QED BY <1>6, <2>1 DEF ML!Loaded, LinkInv
<1>7. CASE ML!PreLayout
  <2>1. pass' \in ML!Passes /\ failed' \in BOOLEAN
    <3>1. (~ fromCli /\ \E k \in ML!Entries : ML!Macros[k][2] # entry') \in BOOLEAN
      OBVIOUS
    <3> QED BY <1>1, <1>2, <1>7, <3>1 DEF ML!PreLayout
  <2>2. entry' \in ML!Names
    <3>1. \A k \in ML!Entries : ML!Macros[k][2] \in ML!Names
      <4>1. ML!Macros \in Seq(LinkMacros)
        BY <1>3, MacrosAre
      <4> QED BY <4>1 DEF ML!Entries, LinkMacros
    <3>2. entry' = (IF ML!Entries = {} \/ fromCli THEN entry
                    ELSE ML!Macros[CHOOSE k \in ML!Entries : \A m \in ML!Entries : k <= m][2])
      BY <1>7 DEF ML!PreLayout
    <3>3. ML!Entries # {} => \E k \in ML!Entries : \A m \in ML!Entries : k <= m
      <4>1. ML!Entries \in SUBSET Nat
        BY DEF ML!Entries
      <4> QED BY <4>1, SmallestOfNumbers
    <3>4. entry \in ML!Names
      BY DEF LinkInv
    <3> QED BY <3>1, <3>2, <3>3, <3>4
  <2> QED BY <1>7, <2>1, <2>2 DEF ML!PreLayout, LinkInv
<1>8. CASE ML!Select
  BY <1>8, SelectIs
<1>9. CASE ML!Resolve
  <2>1. ML!Resolved \in Accounts
    BY <1>3, ResolvedIs
  <2>2. globals' = ML!Resolved.g /\ ML!Then("defsym", ML!Resolved.bad)
    BY <1>9 DEF ML!Resolve
  <2>3. globals' \in Tables /\ ML!Resolved.bad \in BOOLEAN
    BY <2>1, <2>2 DEF Accounts
  <2>4. pass' \in ML!Passes /\ failed' \in BOOLEAN
    BY <1>1, <1>2, <2>2, <2>3
  <2> QED BY <1>9, <2>3, <2>4 DEF ML!Resolve, LinkInv
<1>10. CASE ML!InjectDefsyms
  <2>1. globals' = [n \in DOMAIN globals \cup defsyms |-> IF n \in defsyms THEN ML!Absolute(ML!Find(globals, n), FALSE) ELSE globals[n]]
    BY <1>10 DEF ML!InjectDefsyms
  <2>2. DOMAIN globals \subseteq ML!Names /\ globals \in [DOMAIN globals -> Globals]
    BY <1>3, TableIs
  <2>3. \A n : ML!Absolute(ML!Find(globals, n), FALSE) \in Globals
    BY <1>3, FindIs, AbsoluteIs
  <2>4. globals' \in Tables
    <3>1. DOMAIN globals' = DOMAIN globals \cup defsyms /\ globals' \in [DOMAIN globals' -> Globals]
      BY <2>1, <2>2, <2>3
    <3> QED BY <1>3, <2>2, <3>1, TableIs
  <2>5. pass' \in ML!Passes /\ failed' \in BOOLEAN
    <3>1. (\E n \in defsyms : ML!Find(globals, n).defined) \in BOOLEAN
      OBVIOUS
    <3> QED BY <1>1, <1>2, <1>10, <3>1 DEF ML!InjectDefsyms
  <2> QED BY <1>10, <2>4, <2>5 DEF ML!InjectDefsyms, LinkInv
<1>11. CASE ML!InjectMacros
  <2>1. ML!Injected \in Accounts
    BY <1>3, InjectedIs
  <2>2. globals' = ML!Injected.g /\ ML!Then("layout", ML!Injected.bad)
    BY <1>11 DEF ML!InjectMacros
  <2>3. globals' \in Tables /\ ML!Injected.bad \in BOOLEAN
    BY <2>1, <2>2 DEF Accounts
  <2>4. pass' \in ML!Passes /\ failed' \in BOOLEAN
    BY <1>1, <1>2, <2>2, <2>3
  <2> QED BY <1>11, <2>3, <2>4 DEF ML!InjectMacros, LinkInv
<1>12. CASE ML!Layout
  <2>1. globals' = globals \/ globals' = ML!LinkerSymbols(globals)
    BY <1>12 DEF ML!Layout
  <2>2. globals' \in Tables
    BY <1>3, <2>1, LinkerIs
  <2>3. storage' \subseteq ML!Names
    <3>1. DOMAIN globals \subseteq ML!Names
      BY <1>3, TableIs
    <3> QED BY <1>12, <3>1 DEF ML!Layout
  <2>4. pass' \in ML!Passes /\ failed' \in BOOLEAN
    <3>1. ((\E n \in DOMAIN globals : ML!Unsupported(n)) \/ ~(ML!Given(entry) \/ entry \in LinkerNames)) \in BOOLEAN
      OBVIOUS
    <3> QED BY <1>1, <1>2, <1>12, <3>1 DEF ML!Layout
  <2> QED BY <1>12, <2>2, <2>3, <2>4 DEF ML!Layout, LinkInv
<1>13. CASE ML!ReportUndefined
  <2>1. (\E n \in DOMAIN globals : globals[n].wanted /\ ~ ML!Given(n)) \in BOOLEAN
    OBVIOUS
  <2>2. pass' \in ML!Passes /\ failed' \in BOOLEAN
    BY <1>1, <1>2, <1>13, <2>1 DEF ML!ReportUndefined
  <2> QED BY <1>13, <2>2 DEF ML!ReportUndefined, LinkInv
<1>14. ASSUME NEW b \in BOOLEAN, ML!PostLayout(b) PROVE LinkInv'
  <2>1. (\E k \in 1 .. Len(ML!Macros) : ML!Macros[k][1] = "ASSERT" /\ (~ ML!Given(ML!Macros[k][2]) \/ ~ b)) \in BOOLEAN
    OBVIOUS
  <2>2. pass' \in ML!Passes /\ failed' \in BOOLEAN
    BY <1>1, <1>2, <1>14, <2>1 DEF ML!PostLayout
  <2> QED BY <1>14, <2>2 DEF ML!PostLayout, LinkInv
<1>15. ASSUME NEW b \in BOOLEAN, NEW c \in BOOLEAN, ML!ApplyRelocations(b, c) PROVE LinkInv'
  <2>1. (~ c \/ (b /\ \E i \in chosen : \E s \in ML!Syms(i) : ML!SymbolValue(i, s)[1] = "none")) \in BOOLEAN
    OBVIOUS
  <2>2. pass' \in ML!Passes /\ failed' \in BOOLEAN
    BY <1>1, <1>2, <1>15, <2>1 DEF ML!ApplyRelocations
  <2> QED BY <1>15, <2>2 DEF ML!ApplyRelocations, LinkInv
<1>16. ASSUME NEW b \in BOOLEAN, NEW c \in BOOLEAN, ML!Emit(b, c) PROVE LinkInv'
  <2>1. pass' = "done" /\ failed' = c /\ image' \in {"none", "written"}
    BY <1>16 DEF ML!Emit
  <2> QED BY <1>2, <1>16, <2>1 DEF ML!Emit, LinkInv
<1> QED BY <1>4, <1>5, <1>6, <1>7, <1>8, <1>9, <1>10, <1>11, <1>12, <1>13, <1>14, <1>15, <1>16 DEF ML!Next, ML!LinkStep

LEMMA LinkIsTyped == ASSUME LinkInv PROVE ML!TypeOK
<1>1. DOMAIN globals \subseteq ML!Names
  BY TableIs DEF LinkInv
<1>2. chosen \subseteq 1 .. MaxFiles /\ walk \in 1 .. MaxFiles + 1
  <2>1. Len(inputs) \in Nat /\ MaxFiles \in Nat /\ Len(inputs) <= MaxFiles /\ chosen \subseteq 1 .. Len(inputs)
        /\ walk \in 1 .. Len(inputs) + 1
    BY LinkAssumption DEF LinkInv
  <2> QED BY <2>1
<1> QED BY <1>1, <1>2 DEF LinkInv, ML!TypeOK

\* What is left of a selected object's wishes after each pass
DefinedHere ==
    \A i \in chosen : \A s \in ML!Syms(i) : s[2] = "strong" /\ s[3] \in {"kept", "skipped"} =>
        ML!Find(globals, s[1]).defined /\ ML!Find(globals, s[1]).object = i
Wanted ==
    \A i \in chosen : \A s \in ML!Syms(i) : s[2] = "strong" /\ s[3] = "undef" => ML!Find(globals, s[1]).wanted
SharedHere ==
    \A i \in chosen : \A s \in ML!Syms(i) : s[3] = "common" => ML!Given(s[1])
NoneSkipped == \A i \in chosen : \A s \in ML!Syms(i) : s[2] = "strong" => s[3] # "skipped"
CommonsIn == \A n \in DOMAIN globals : globals[n].common => n \in storage
Answered ==
    \A i \in chosen : \A s \in ML!Syms(i) : s[2] = "strong" /\ s[3] = "undef" => ML!Given(s[1])
Asserted == \A k \in 1 .. Len(ML!Macros) : ML!Macros[k][1] = "ASSERT" => ML!Given(ML!Macros[k][2])

Unresolved == {"args", "load", "pre", "select", "resolve"}
Ended == {"relocate", "emit", "done"}
LinkRight ==
    /\ failed => pass \in {"load", "done"}
    /\ pass \in Unresolved => DOMAIN globals = {}
    /\ pass = "defsym" /\ ~ failed => \A n \in ML!Names : Stands(Len(ML!Work), n, ML!Find(globals, n))
    /\ pass \in {"defsym", "inject", "layout"} /\ ~ failed => DefinedHere
    /\ pass \in {"defsym", "inject", "layout", "report", "post"} \cup Ended /\ ~ failed => Wanted /\ SharedHere
    /\ pass \in {"report", "post"} \cup Ended /\ ~ failed => NoneSkipped /\ ML!Given(entry) /\ CommonsIn
    /\ pass \in {"post"} \cup Ended /\ ~ failed => Answered
    /\ pass \in Ended /\ ~ failed => Asserted
    /\ image = "written" => pass = "done" /\ ~ failed

LEMMA SymIs ==
    ASSUME LinkInv, NEW i \in chosen, NEW s \in ML!Syms(i)
    PROVE  /\ i \in 1 .. Len(inputs) /\ s \in LinkSymbols /\ s[1] \in ML!Names /\ s[2] \in {"strong", "weak"}
           /\ s[3] \in {"undef", "common", "kept", "skipped"} /\ s = <<s[1], s[2], s[3]>>
           /\ ML!Located(s) <=> s[3] \in {"kept", "skipped"}
<1>1. i \in 1 .. Len(inputs) /\ inputs \in Seq(LinkFiles)
  BY DEF LinkInv
<1>2. s \in LinkSymbols
  BY <1>1, SymsAre
<1>3. /\ s[1] \in ML!Names /\ s[2] \in {"strong", "weak"}
      /\ s[3] \in {"undef", "common", "kept", "skipped"} /\ s = <<s[1], s[2], s[3]>>
  BY <1>2 DEF LinkSymbols
<1> QED BY <1>1, <1>2, <1>3 DEF ML!Located

\* Each symbol of a selected object is gone through.
LEMMA Reached ==
    ASSUME LinkInv, NEW i \in chosen, NEW s \in ML!Syms(i)
    PROVE  \E j \in 1 .. Len(ML!Work) : By(j) = i /\ Called(j) = s[1] /\ Bound(j) = s[2] /\ Lies(j) = s[3]
<1>1. i \in 1 .. Len(inputs)
  BY SymIs
<1>2. inputs \in Seq(LinkFiles) /\ chosen \subseteq 1 .. Len(inputs) /\ i <= Len(inputs)
  BY <1>1 DEF LinkInv
<1>3. Covers(Len(inputs), ML!Work)
  BY <1>2, WorkIs
<1>4. PICK j \in 1 .. Len(ML!Work) : ML!Work[j] = <<i, s>>
  BY <1>2, <1>3 DEF Covers
<1> QED BY <1>4 DEF By, Called, Bound, Lies

\* And nothing else is.
LEMMA Met ==
    ASSUME LinkInv, NEW j \in 1 .. Len(ML!Work)
    PROVE  By(j) \in chosen /\ \E s \in ML!Syms(By(j)) : Called(j) = s[1] /\ Bound(j) = s[2] /\ Lies(j) = s[3]
<1>1. inputs \in Seq(LinkFiles) /\ chosen \subseteq 1 .. Len(inputs)
  BY DEF LinkInv
<1>2. Covers(Len(inputs), ML!Work)
  BY <1>1, WorkIs
<1>3. ML!Work[j][1] \in chosen /\ ML!Work[j][2] \in ML!Syms(ML!Work[j][1])
  BY <1>2 DEF Covers
<1> QED BY <1>3 DEF By, Called, Bound, Lies

\* What a table says of the selected objects' symbols once it is made
LEMMA StandsForAll ==
    ASSUME LinkInv, NEW g, \A n \in ML!Names : Stands(Len(ML!Work), n, ML!Find(g, n)),
           NEW i \in chosen, NEW s \in ML!Syms(i)
    PROVE  /\ s[2] = "strong" /\ s[3] \in {"kept", "skipped"} => ML!Find(g, s[1]).defined /\ ML!Find(g, s[1]).object = i
           /\ s[2] = "strong" /\ s[3] = "undef" => ML!Find(g, s[1]).wanted
           /\ s[3] = "common" => ML!Find(g, s[1]).defined \/ ML!Find(g, s[1]).common
<1> DEFINE K == Len(ML!Work)
           H == ML!Find(g, s[1])
<1>1. Stands(K, s[1], H)
  BY SymIs
<1>2. PICK j \in 1 .. K : By(j) = i /\ Called(j) = s[1] /\ Bound(j) = s[2] /\ Lies(j) = s[3]
  BY Reached
<1>3. ASSUME s[2] = "strong", s[3] \in {"kept", "skipped"} PROVE H.defined /\ H.object = i
  <2>1. Defines(j, s[1]) /\ Bound(j) = "strong"
    BY <1>2, <1>3 DEF Defines
  <2> HIDE DEF K, H
  <2> QED BY <1>1, <1>2, <2>1 DEF Stands
<1>4. ASSUME s[2] = "strong", s[3] = "undef" PROVE H.wanted
  <2>1. Asks(j, s[1])
    BY <1>2, <1>4 DEF Asks
  <2> HIDE DEF K, H
  <2> QED BY <1>1, <1>2, <2>1 DEF Stands
<1>5. ASSUME s[3] = "common" PROVE H.defined \/ H.common
  <2>1. Shares(j, s[1])
    BY <1>2, <1>5 DEF Shares
  <2> HIDE DEF K, H
  <2> QED BY <1>1, <1>2, <2>1 DEF Stands
<1> QED BY <1>3, <1>4, <1>5

LEMMA SameObjects ==
    ASSUME UNCHANGED <<inputs, chosen>>
    PROVE  /\ \A i : ML!Syms(i)' = ML!Syms(i)
           /\ ML!Macros' = ML!Macros /\ ML!Work' = ML!Work /\ ML!Entries' = ML!Entries
<1>1. \A i : ML!Syms(i)' = ML!Syms(i)
  BY DEF ML!Syms
<1>2. ML!Macros' = ML!Macros
  BY DEF ML!Macros, ML!MacrosTo
<1>3. ML!Work' = ML!Work
  BY DEF ML!Work, ML!WorkTo
<1>4. ML!Entries' = ML!Entries
  BY <1>2 DEF ML!Entries
<1> QED BY <1>1, <1>2, <1>3, <1>4

LEMMA KeptFacts ==
    ASSUME LinkInv, UNCHANGED <<inputs, chosen>>, Keeps(globals, globals')
    PROVE  /\ DefinedHere => DefinedHere'
           /\ Wanted => Wanted'
           /\ SharedHere => SharedHere'
           /\ \A n \in ML!Names : ML!Given(n) => ML!Find(globals', n).defined \/ ML!Find(globals', n).common
<1>1. chosen' = chosen /\ \A i : ML!Syms(i)' = ML!Syms(i)
  BY SameObjects
<1>2. \A n \in ML!Names :
        /\ ML!Find(globals, n).defined => ML!Find(globals', n) = ML!Find(globals, n)
        /\ ML!Find(globals, n).common => ML!Find(globals', n).common \/ ML!Find(globals', n).defined
        /\ ML!Find(globals, n).wanted => ML!Find(globals', n).wanted
  BY Zenon DEF Keeps
<1>3. \A i \in chosen : \A s \in ML!Syms(i) : s[1] \in ML!Names
  BY SymIs
<1>4. \A n \in ML!Names : ML!Given(n) => ML!Find(globals', n).defined \/ ML!Find(globals', n).common
  BY <1>2 DEF ML!Given
<1>5. DefinedHere => DefinedHere'
  BY <1>1, <1>2, <1>3 DEF DefinedHere
<1>6. Wanted => Wanted'
  BY <1>1, <1>2, <1>3 DEF Wanted
<1>7. SharedHere => SharedHere'
  BY <1>1, <1>3, <1>4 DEF SharedHere, ML!Given
<1> QED BY <1>4, <1>5, <1>6, <1>7

\* While the table stays, so does what it says.
LEMMA SameFacts ==
    ASSUME UNCHANGED <<inputs, chosen, globals, storage, entry>>
    PROVE  /\ DefinedHere' = DefinedHere /\ Wanted' = Wanted /\ SharedHere' = SharedHere /\ NoneSkipped' = NoneSkipped
           /\ ML!Given(entry)' = ML!Given(entry) /\ CommonsIn' = CommonsIn /\ Answered' = Answered /\ Asserted' = Asserted
           /\ ML!Work' = ML!Work
<1>1. chosen' = chosen /\ (\A i : ML!Syms(i)' = ML!Syms(i)) /\ ML!Macros' = ML!Macros /\ ML!Work' = ML!Work
  BY SameObjects
<1>2. \A n : ML!Given(n)' = ML!Given(n)
  BY DEF ML!Given, ML!Find
<1>3. DefinedHere' = DefinedHere /\ Wanted' = Wanted
  BY <1>1 DEF DefinedHere, Wanted, ML!Find
<1>4. SharedHere' = SharedHere /\ Answered' = Answered
  BY <1>1, <1>2 DEF SharedHere, Answered
<1>5. NoneSkipped' = NoneSkipped /\ CommonsIn' = CommonsIn
  BY <1>1 DEF NoneSkipped, CommonsIn
<1>6. ML!Given(entry)' = ML!Given(entry)
  BY DEF ML!Given, ML!Find
<1>7. Asserted' = Asserted
  BY <1>1, <1>2 DEF Asserted
<1> QED BY <1>1, <1>3, <1>4, <1>5, <1>6, <1>7

LEMMA LinkRightStays == ASSUME LinkRight, UNCHANGED mlinkVars PROVE LinkRight'
<1>1. /\ UNCHANGED <<inputs, chosen, globals, storage, entry>>
      /\ UNCHANGED <<pass, failed, image>>
  BY DEF mlinkVars
<1>2. /\ DefinedHere' = DefinedHere /\ Wanted' = Wanted /\ SharedHere' = SharedHere /\ NoneSkipped' = NoneSkipped
      /\ ML!Given(entry)' = ML!Given(entry) /\ CommonsIn' = CommonsIn /\ Answered' = Answered /\ Asserted' = Asserted
      /\ ML!Work' = ML!Work
  BY <1>1, SameFacts
<1>3. (\A n \in ML!Names : Stands(Len(ML!Work), n, ML!Find(globals, n))) =>
      (\A n \in ML!Names : Stands(Len(ML!Work), n, ML!Find(globals, n)))'
  BY <1>1, <1>2 DEF Stands, Defines, Shares, Asks, By, Called, Bound, Lies, ML!Find
<1> QED BY <1>1, <1>2, <1>3 DEF LinkRight

LEMMA LinkRightInit == ML!Init => LinkRight
BY DEF ML!Init, LinkRight, Unresolved, Ended

\* Before the symbols are resolved there is no table.
LEMMA EarlyStep ==
    ASSUME LinkRight, UNCHANGED <<globals, image>>, pass \in Unresolved,
           pass' \in Unresolved \cup {"done"}, failed' => pass' \in {"load", "done"}, pass' = "done" => failed'
    PROVE  LinkRight'
<1>1. image # "written"
  BY DEF LinkRight, Unresolved
<1>2. DOMAIN globals' = {}
  BY DEF LinkRight
<1> QED BY <1>1, <1>2 DEF LinkRight, Unresolved, Ended

LEMMA ResolveRight == ASSUME LinkInv, LinkRight, ML!Resolve PROVE LinkRight'
<1>1. /\ pass = "resolve" /\ globals' = ML!Resolved.g /\ ML!Then("defsym", ML!Resolved.bad)
      /\ UNCHANGED <<inputs, chosen, walk, changed, storage, defsyms, entry, fromCli, image>>
  BY DEF ML!Resolve
<1>2. inputs \in Seq(LinkFiles) /\ chosen \subseteq 1 .. Len(inputs) /\ globals \in Tables
  BY DEF LinkInv
<1>3. DOMAIN globals = {} /\ image # "written"
  BY <1>1 DEF LinkRight, Unresolved
<1>4. ML!Resolved \in Accounts /\ Resolves(Len(ML!Work), ML!Resolved)
  BY <1>2, <1>3, ResolvedIs
<1>5. (failed' => pass' = "done") /\ (~ failed' => pass' = "defsym" /\ ~ ML!Resolved.bad)
  BY <1>1 DEF ML!Then
<1>6. CASE failed'
  BY <1>1, <1>3, <1>5, <1>6 DEF LinkRight, Unresolved, Ended
<1>7. CASE ~ failed'
  <2>1. \A n \in ML!Names : Stands(Len(ML!Work), n, ML!Find(globals', n))
    BY <1>1, <1>4, <1>5, <1>7 DEF Resolves
  <2>2. chosen' = chosen /\ (\A i : ML!Syms(i)' = ML!Syms(i)) /\ ML!Work' = ML!Work /\ inputs' = inputs
    BY <1>1, SameObjects
  <2>3. \A i \in chosen : \A s \in ML!Syms(i) :
          /\ s[2] = "strong" /\ s[3] \in {"kept", "skipped"} => ML!Find(globals', s[1]).defined /\ ML!Find(globals', s[1]).object = i
          /\ s[2] = "strong" /\ s[3] = "undef" => ML!Find(globals', s[1]).wanted
          /\ s[3] = "common" => ML!Find(globals', s[1]).defined \/ ML!Find(globals', s[1]).common
    BY <2>1, StandsForAll
  <2>4. DefinedHere' /\ Wanted' /\ SharedHere'
    BY <2>2, <2>3 DEF DefinedHere, Wanted, SharedHere, ML!Given
  <2>5. (\A n \in ML!Names : Stands(Len(ML!Work), n, ML!Find(globals, n)))'
    BY <2>1, <2>2 DEF Stands, Defines, Shares, Asks, By, Called, Bound, Lies, ML!Find
  <2> QED BY <1>1, <1>3, <1>5, <1>7, <2>4, <2>5 DEF LinkRight, Unresolved, Ended
<1> QED BY <1>6, <1>7

LEMMA DefsymRight == ASSUME LinkInv, LinkRight, ML!InjectDefsyms, LinkInv' PROVE LinkRight'
<1>1. /\ pass = "defsym" /\ ML!Then("inject", \E n \in defsyms : ML!Find(globals, n).defined)
      /\ UNCHANGED <<inputs, chosen, walk, changed, storage, defsyms, entry, fromCli, image>>
      /\ globals' = [n \in DOMAIN globals \cup defsyms |-> IF n \in defsyms THEN ML!Absolute(ML!Find(globals, n), FALSE) ELSE globals[n]]
  BY DEF ML!InjectDefsyms
<1>2. DefinedHere /\ Wanted /\ SharedHere /\ image # "written" /\ ~ failed
  BY <1>1 DEF LinkRight
<1>3. (failed' => pass' = "done") /\ (~ failed' => pass' = "inject" /\ \A n \in defsyms : ~ ML!Find(globals, n).defined)
  BY <1>1 DEF ML!Then
<1>4. CASE failed'
  BY <1>1, <1>2, <1>3, <1>4 DEF LinkRight, Unresolved, Ended
<1>5. CASE ~ failed'
  <2>1. globals \in Tables /\ globals' \in Tables /\ defsyms \subseteq ML!Names
    BY DEF LinkInv
  <2>2. Keeps(globals, globals')
    BY <1>1, <1>3, <1>5, <2>1, DefsymsAre
  <2>3. DefinedHere' /\ Wanted' /\ SharedHere'
    BY <1>1, <1>2, <2>2, KeptFacts
  <2> QED BY <1>1, <1>2, <1>3, <1>5, <2>3 DEF LinkRight, Unresolved, Ended
<1> QED BY <1>4, <1>5

LEMMA MacrosRight == ASSUME LinkInv, LinkRight, ML!InjectMacros PROVE LinkRight'
<1>1. /\ pass = "inject" /\ globals' = ML!Injected.g /\ ML!Then("layout", ML!Injected.bad)
      /\ UNCHANGED <<inputs, chosen, walk, changed, storage, defsyms, entry, fromCli, image>>
  BY DEF ML!InjectMacros
<1>2. DefinedHere /\ Wanted /\ SharedHere /\ image # "written" /\ ~ failed
  BY <1>1 DEF LinkRight
<1>3. (failed' => pass' = "done") /\ (~ failed' => pass' = "layout")
  BY <1>1 DEF ML!Then
<1>4. Keeps(globals, globals')
  <2>1. inputs \in Seq(LinkFiles) /\ globals \in Tables
    BY DEF LinkInv
  <2> QED BY <1>1, <2>1, InjectedIs
<1>5. DefinedHere' /\ Wanted' /\ SharedHere'
  BY <1>1, <1>2, <1>4, KeptFacts
<1> QED BY <1>1, <1>2, <1>3, <1>5 DEF LinkRight, Unresolved, Ended

LEMMA LayoutRight == ASSUME LinkInv, LinkRight, ML!Layout PROVE LinkRight'
<1>1. /\ pass = "layout" /\ storage' = {n \in DOMAIN globals : globals[n].common}
      /\ IF \E n \in DOMAIN globals : ML!Unsupported(n) THEN globals' = globals ELSE globals' = ML!LinkerSymbols(globals)
      /\ ML!Then("report", (\E n \in DOMAIN globals : ML!Unsupported(n)) \/ ~(ML!Given(entry) \/ entry \in LinkerNames))
      /\ UNCHANGED <<inputs, chosen, walk, changed, defsyms, entry, fromCli, image>>
  BY DEF ML!Layout
<1>2. DefinedHere /\ Wanted /\ SharedHere /\ image # "written" /\ ~ failed
  BY <1>1 DEF LinkRight
<1>3. /\ failed' => pass' = "done"
      /\ ~ failed' => pass' = "report" /\ (\A n \in DOMAIN globals : ~ ML!Unsupported(n)) /\ (ML!Given(entry) \/ entry \in LinkerNames)
  BY <1>1 DEF ML!Then
<1>4. CASE failed'
  BY <1>1, <1>2, <1>3, <1>4 DEF LinkRight, Unresolved, Ended
<1>5. CASE ~ failed'
  <2>1. globals \in Tables /\ entry \in ML!Names
    BY DEF LinkInv
  <2>2. globals' = ML!LinkerSymbols(globals)
    BY <1>1, <1>3, <1>5
  <2>3. /\ Keeps(globals, globals') /\ \A n \in LinkerNames : ML!Find(globals', n).defined
        /\ \A n \in DOMAIN globals' : globals'[n].common => n \in DOMAIN globals /\ globals[n].common
    BY <2>1, <2>2, LinkerIs
  <2>4. /\ DefinedHere' /\ Wanted' /\ SharedHere'
        /\ \A n \in ML!Names : ML!Given(n) => ML!Find(globals', n).defined \/ ML!Find(globals', n).common
    BY <1>1, <1>2, <2>3, KeptFacts
  <2>5. CommonsIn'
    BY <1>1, <2>3 DEF CommonsIn
  <2>6. ML!Given(entry)'
    <3>1. ML!Find(globals', entry).defined \/ ML!Find(globals', entry).common
      BY <1>3, <1>5, <2>1, <2>3, <2>4
    <3> QED BY <1>1, <3>1 DEF ML!Given
  <2>7. NoneSkipped'
    <3>1. ASSUME NEW i \in chosen, NEW s \in ML!Syms(i), s[2] = "strong", s[3] = "skipped" PROVE FALSE
      <4>1. ML!Find(globals, s[1]).defined /\ ML!Find(globals, s[1]).object = i
        BY <1>2, <3>1 DEF DefinedHere
      <4>2. s[1] \in DOMAIN globals
        BY <4>1 DEF ML!Find, ML!Blank
      <4>3. i # 0
        <5>1. i \in 1 .. Len(inputs)
          BY SymIs
        <5> QED BY <5>1
      <4>4. ML!Unsupported(s[1])
        BY <3>1, <4>1, <4>3 DEF ML!Unsupported
      <4> QED BY <1>3, <1>5, <4>2, <4>4
    <3>2. chosen' = chosen /\ \A i : ML!Syms(i)' = ML!Syms(i)
      BY <1>1, SameObjects
    <3> QED BY <3>1, <3>2 DEF NoneSkipped
  <2> QED BY <1>1, <1>2, <1>3, <1>5, <2>4, <2>5, <2>6, <2>7 DEF LinkRight, Unresolved, Ended
<1> QED BY <1>4, <1>5

LEMMA ReportRight == ASSUME LinkInv, LinkRight, ML!ReportUndefined PROVE LinkRight'
<1>1. /\ pass = "report" /\ ML!Then("post", \E n \in DOMAIN globals : globals[n].wanted /\ ~ ML!Given(n))
      /\ UNCHANGED <<inputs, chosen, globals, storage, entry, image>>
  BY DEF ML!ReportUndefined
<1>2. /\ DefinedHere' = DefinedHere /\ Wanted' = Wanted /\ SharedHere' = SharedHere /\ NoneSkipped' = NoneSkipped
      /\ ML!Given(entry)' = ML!Given(entry) /\ CommonsIn' = CommonsIn /\ Answered' = Answered /\ Asserted' = Asserted
  BY <1>1, SameFacts
<1>3. Wanted /\ SharedHere /\ NoneSkipped /\ ML!Given(entry) /\ CommonsIn /\ image # "written"
  BY <1>1 DEF LinkRight
<1>4. /\ failed' => pass' = "done"
      /\ ~ failed' => pass' = "post" /\ \A n \in DOMAIN globals : globals[n].wanted => ML!Given(n)
  BY <1>1 DEF ML!Then
<1>5. ~ failed' => Answered
  <2>1. ASSUME ~ failed', NEW i \in chosen, NEW s \in ML!Syms(i), s[2] = "strong", s[3] = "undef" PROVE ML!Given(s[1])
    <3>1. ML!Find(globals, s[1]).wanted
      BY <1>3, <2>1 DEF Wanted
    <3>2. s[1] \in DOMAIN globals /\ globals[s[1]].wanted
      BY <3>1 DEF ML!Find, ML!Blank
    <3> QED BY <1>4, <2>1, <3>2
  <2> QED BY <2>1 DEF Answered
<1> QED BY <1>1, <1>2, <1>3, <1>4, <1>5 DEF LinkRight, Unresolved, Ended

LEMMA PostRight == ASSUME LinkInv, LinkRight, NEW b \in BOOLEAN, ML!PostLayout(b) PROVE LinkRight'
<1>1. /\ pass = "post"
      /\ ML!Then("relocate", \E k \in 1 .. Len(ML!Macros) : ML!Macros[k][1] = "ASSERT" /\ (~ ML!Given(ML!Macros[k][2]) \/ ~ b))
      /\ UNCHANGED <<inputs, chosen, globals, storage, entry, image>>
  BY DEF ML!PostLayout
<1>2. /\ Wanted' = Wanted /\ SharedHere' = SharedHere /\ NoneSkipped' = NoneSkipped
      /\ ML!Given(entry)' = ML!Given(entry) /\ CommonsIn' = CommonsIn /\ Answered' = Answered /\ Asserted' = Asserted
  BY <1>1, SameFacts
<1>3. Wanted /\ SharedHere /\ NoneSkipped /\ ML!Given(entry) /\ CommonsIn /\ Answered /\ image # "written"
  BY <1>1 DEF LinkRight
<1>4. (failed' => pass' = "done") /\ (~ failed' => pass' = "relocate" /\ Asserted)
  BY <1>1 DEF ML!Then, Asserted
<1> QED BY <1>1, <1>2, <1>3, <1>4 DEF LinkRight, Unresolved, Ended

LEMMA EndRight ==
    ASSUME LinkInv, LinkRight, NEW b \in BOOLEAN, NEW c \in BOOLEAN, ML!ApplyRelocations(b, c) \/ ML!Emit(b, c)
    PROVE  LinkRight'
<1>1. /\ pass \in {"relocate", "emit"} /\ pass' \in {"emit", "done"} /\ (failed' => pass' = "done")
      /\ UNCHANGED <<inputs, chosen, globals, storage, entry>>
  BY DEF ML!ApplyRelocations, ML!Emit, ML!Then
<1>2. /\ Wanted' = Wanted /\ SharedHere' = SharedHere /\ NoneSkipped' = NoneSkipped
      /\ ML!Given(entry)' = ML!Given(entry) /\ CommonsIn' = CommonsIn /\ Answered' = Answered /\ Asserted' = Asserted
  BY <1>1, SameFacts
<1>3. Wanted /\ SharedHere /\ NoneSkipped /\ ML!Given(entry) /\ CommonsIn /\ Answered /\ Asserted /\ image # "written"
  BY <1>1 DEF LinkRight, Ended
<1>4. image' = "written" => pass' = "done" /\ ~ failed'
  BY <1>3 DEF ML!ApplyRelocations, ML!Emit
<1> QED BY <1>1, <1>2, <1>3, <1>4 DEF LinkRight, Unresolved, Ended

LEMMA LinkRightStep == ASSUME LinkInv, LinkRight, LinkInv', ML!Next PROVE LinkRight'
<1>1. ASSUME NEW l \in LinkLines, NEW b \in BOOLEAN, ML!Args(l, b) PROVE LinkRight'
  <2>1. UNCHANGED <<globals, image>> /\ pass = "args" /\ pass' \in {"load", "done"} /\ (failed' <=> pass' = "done")
    BY <1>1 DEF ML!Args, ML!Then
  <2> QED BY <2>1, EarlyStep DEF Unresolved
<1>2. ASSUME NEW f \in LinkFiles, ML!Load(f) PROVE LinkRight'
  <2>1. UNCHANGED <<globals, image>> /\ pass = "load" /\ pass' = "load"
    BY <1>2 DEF ML!Load
  <2> QED BY <2>1, EarlyStep DEF Unresolved
<1>3. CASE ML!Loaded
  <2>1. UNCHANGED <<globals, image>> /\ pass = "load" /\ pass' \in {"pre", "done"} /\ (failed' <=> pass' = "done")
    BY <1>3 DEF ML!Loaded, ML!Then, LinkInv
  <2> QED BY <2>1, EarlyStep DEF Unresolved
<1>4. CASE ML!PreLayout
  <2>1. UNCHANGED <<globals, image>> /\ pass = "pre" /\ pass' \in {"select", "done"} /\ (failed' <=> pass' = "done")
    BY <1>4 DEF ML!PreLayout, ML!Then
  <2> QED BY <2>1, EarlyStep DEF Unresolved
<1>5. CASE ML!Select
  <2>1. UNCHANGED <<globals, image, failed>> /\ pass = "select" /\ pass' \in {"select", "resolve"}
    BY <1>5 DEF ML!Select
  <2>2. ~ failed
    BY <2>1 DEF LinkRight
  <2> QED BY <2>1, <2>2, EarlyStep DEF Unresolved
<1> QED BY <1>1, <1>2, <1>3, <1>4, <1>5, ResolveRight, DefsymRight, MacrosRight, LayoutRight, ReportRight, PostRight, EndRight
        DEF ML!Next, ML!LinkStep

\* A member is there because it was wanted; of those that the walk has passed without
\* selecting any, none is.
Earned ==
    \A i \in chosen : inputs[i].member =>
        \E s \in ML!Syms(i) : ML!Located(s) /\ \E j \in chosen : <<s[1], "strong", "undef">> \in ML!Syms(j)
Unneeded(m) == \A i \in 1 .. m : i \notin chosen => ~ ML!MemberNeeded(i)
Agreed == \A k \in ML!Entries : fromCli \/ ML!Macros[k][2] = entry
LinkSelects ==
    /\ \A i \in 1 .. Len(inputs) : inputs[i].member \/ i \in chosen
    /\ pass \in {"args", "load", "pre"} => walk = 1 /\ changed /\ \A i \in chosen : ~ inputs[i].member
    /\ pass = "select" => Agreed /\ Earned /\ (~ changed => Unneeded(walk - 1))
    /\ pass \in {"resolve", "defsym", "inject", "layout", "report", "post", "relocate", "emit"} =>
        Earned /\ Unneeded(Len(inputs))

LEMMA SelectsInit == ML!Init => LinkSelects
<1> SUFFICES ASSUME ML!Init PROVE LinkSelects
  OBVIOUS
<1>1. pass = "args" /\ inputs = <<>> /\ chosen = {} /\ walk = 1 /\ changed = TRUE
  BY DEF ML!Init
<1>2. 1 .. Len(inputs) = {}
  BY <1>1
<1> QED BY <1>1, <1>2 DEF LinkSelects

LEMMA SelectedSame ==
    ASSUME UNCHANGED <<inputs, chosen>>
    PROVE  /\ Earned' = Earned
           /\ \A m : Unneeded(m)' = Unneeded(m)
           /\ \A i : ML!MemberNeeded(i)' = ML!MemberNeeded(i)
<1>1. chosen' = chosen /\ inputs' = inputs /\ \A i : ML!Syms(i)' = ML!Syms(i)
  BY SameObjects
<1>2. Earned' = Earned
  BY <1>1 DEF Earned, ML!Located
<1>3. \A i : ML!MemberNeeded(i)' = ML!MemberNeeded(i)
  BY <1>1 DEF ML!MemberNeeded, ML!SelectedReference, ML!SelectedDefine, ML!Located
<1> QED BY <1>1, <1>2, <1>3 DEF Unneeded

LEMMA SelectsStay == ASSUME LinkSelects, UNCHANGED mlinkVars PROVE LinkSelects'
<1>1. UNCHANGED <<inputs, chosen>> /\ UNCHANGED <<pass, walk, changed, entry, fromCli>>
  BY DEF mlinkVars
<1>2. (Earned' = Earned) /\ (\A m : Unneeded(m)' = Unneeded(m)) /\ ML!Entries' = ML!Entries /\ ML!Macros' = ML!Macros
  BY <1>1, SelectedSame, SameObjects
<1>3. Agreed' = Agreed
  BY <1>1, <1>2 DEF Agreed
<1> QED BY <1>1, <1>2, <1>3 DEF LinkSelects

\* Once the members are selected they stay.
LEMMA LateStays ==
    ASSUME LinkSelects, UNCHANGED <<inputs, chosen>>,
           pass \in {"resolve", "defsym", "inject", "layout", "report", "post", "relocate", "emit"},
           pass' \in {"resolve", "defsym", "inject", "layout", "report", "post", "relocate", "emit", "done"}
    PROVE  LinkSelects'
<1>1. (Earned' = Earned) /\ (\A m : Unneeded(m)' = Unneeded(m))
  BY SelectedSame
<1> QED BY <1>1 DEF LinkSelects

LEMMA SelectLoads == ASSUME LinkInv, LinkSelects, NEW f \in LinkFiles, ML!Load(f) PROVE LinkSelects'
<1>1. /\ pass = "load" /\ UNCHANGED <<pass, walk, changed>>
      /\ \/ inputs' = Append(inputs, f) /\ f.member /\ chosen' = chosen
         \/ inputs' = Append(inputs, f) /\ ~ f.member /\ chosen' = chosen \cup {Len(inputs) + 1}
         \/ inputs' = inputs /\ chosen' = chosen
  BY DEF ML!Load, ML!LoadMember, ML!LoadObject, ML!Add
<1>2. inputs \in Seq(LinkFiles) /\ Len(inputs) \in Nat /\ chosen \subseteq 1 .. Len(inputs) /\ f.member \in BOOLEAN
  BY FileIs DEF LinkInv
<1>3. walk = 1 /\ changed /\ (\A i \in chosen : ~ inputs[i].member) /\ \A i \in 1 .. Len(inputs) : inputs[i].member \/ i \in chosen
  BY <1>1 DEF LinkSelects
<1>4. CASE inputs' = inputs /\ chosen' = chosen
  BY <1>1, <1>3, <1>4 DEF LinkSelects
<1>5. CASE inputs' = Append(inputs, f)
  <2>1. /\ Len(inputs') = Len(inputs) + 1 /\ inputs'[Len(inputs) + 1] = f
        /\ \A i \in 1 .. Len(inputs) : inputs'[i] = inputs[i]
    BY <1>2, <1>5
  <2>2. Len(inputs) + 1 \notin chosen /\ inputs' # inputs
    BY <1>2, <2>1
  <2>3. \A i \in 1 .. Len(inputs) + 1 : i \in 1 .. Len(inputs) \/ i = Len(inputs) + 1
    BY <1>2
  <2>4. \A i \in 1 .. Len(inputs') : inputs'[i].member \/ i \in chosen'
    BY <1>1, <1>3, <2>1, <2>2, <2>3
  <2>5. \A i \in chosen' : ~ inputs'[i].member
    BY <1>1, <1>2, <1>3, <2>1, <2>2
  <2> QED BY <1>1, <1>3, <2>4, <2>5 DEF LinkSelects
<1> QED BY <1>1, <1>4, <1>5

LEMMA SelectSelects == ASSUME LinkInv, LinkSelects, ML!Select PROVE LinkSelects'
<1>1. /\ pass = "select" /\ UNCHANGED <<failed, inputs, entry, fromCli>>
      /\ Agreed /\ Earned /\ (~ changed => Unneeded(walk - 1)) /\ \A i \in 1 .. Len(inputs) : inputs[i].member \/ i \in chosen
  BY DEF ML!Select, LinkSelects
<1>2. /\ Len(inputs) \in Nat /\ walk \in 1 .. Len(inputs) + 1 /\ changed \in BOOLEAN /\ chosen \subseteq 1 .. Len(inputs)
      /\ inputs \in Seq(LinkFiles)
  BY DEF LinkInv
<1>3. Agreed'
  <2>1. ML!Macros' = ML!Macros
    BY <1>1 DEF ML!Macros, ML!MacrosTo
  <2>2. ML!Entries' = ML!Entries
    BY <2>1 DEF ML!Entries
  <2> QED BY <1>1, <2>1, <2>2 DEF Agreed
<1>4. CASE walk <= Len(inputs) /\ walk \notin chosen /\ inputs[walk].member /\ ML!MemberNeeded(walk)
  <2>1. chosen' = chosen \cup {walk} /\ changed' = TRUE /\ pass' = pass
    BY <1>4 DEF ML!Select
  <2>2. \A i : ML!Syms(i)' = ML!Syms(i)
    BY <1>1 DEF ML!Syms
  <2>3. PICK s \in ML!Syms(walk) : ML!Located(s) /\ \E j \in chosen : <<s[1], "strong", "undef">> \in ML!Syms(j)
    BY <1>4 DEF ML!MemberNeeded, ML!SelectedReference
  <2>4. Earned'
    BY <1>1, <2>1, <2>2, <2>3 DEF Earned, ML!Located
  <2>5. \A i \in 1 .. Len(inputs') : inputs'[i].member \/ i \in chosen'
    BY <1>1, <2>1
  <2> QED BY <1>1, <1>3, <2>1, <2>4, <2>5 DEF LinkSelects
<1>5. CASE walk <= Len(inputs) /\ ~ (walk \notin chosen /\ inputs[walk].member /\ ML!MemberNeeded(walk))
  <2>1. chosen' = chosen /\ changed' = (changed /\ walk # 1) /\ walk' = walk + 1 /\ pass' = pass
    BY <1>5 DEF ML!Select
  <2>2. (Earned' = Earned) /\ (\A m : Unneeded(m)' = Unneeded(m))
    BY <1>1, <2>1, SelectedSame
  <2>3. walk \in 1 .. Len(inputs) /\ walk' - 1 = walk
    BY <1>2, <1>5, <2>1
  <2>4. walk \notin chosen => ~ ML!MemberNeeded(walk)
    BY <1>1, <1>5, <2>3
  <2>5. ~ changed' => Unneeded(walk)
    <3>1. ASSUME ~ changed' PROVE Unneeded(walk)
      <4>1. CASE walk = 1
        BY <2>4, <4>1 DEF Unneeded
      <4>2. CASE walk # 1
        <5>1. Unneeded(walk - 1)
          BY <1>1, <2>1, <3>1, <4>2
        <5>2. \A i \in 1 .. walk : i \in 1 .. walk - 1 \/ i = walk
          BY <2>3
        <5> QED BY <2>4, <5>1, <5>2 DEF Unneeded
      <4> QED BY <4>1, <4>2
    <3> QED BY <3>1
  <2>6. (changed \/ Unneeded(walk - 1))'
    <3>1. \A i : ML!MemberNeeded(i)' = ML!MemberNeeded(i)
      BY <1>1, <2>1, SelectedSame
    <3> QED BY <2>1, <2>3, <2>5, <3>1 DEF Unneeded
  <2> QED BY <1>1, <1>3, <2>1, <2>2, <2>6 DEF LinkSelects
<1>6. CASE ~ (walk <= Len(inputs))
  <2>1. /\ chosen' = chosen /\ changed' = changed
        /\ IF changed THEN walk' = 1 /\ pass' = pass ELSE pass' = "resolve" /\ walk' = walk
    BY <1>6 DEF ML!Select
  <2>2. (Earned' = Earned) /\ (\A m : Unneeded(m)' = Unneeded(m))
    BY <1>1, <2>1, SelectedSame
  <2>3. walk - 1 = Len(inputs)
    BY <1>2, <1>6
  <2> QED BY <1>1, <1>3, <2>1, <2>2, <2>3 DEF LinkSelects
<1> QED BY <1>2, <1>4, <1>5, <1>6

LEMMA SelectsStep == ASSUME LinkInv, LinkSelects, ML!Next PROVE LinkSelects'
<1>1. ASSUME NEW l \in LinkLines, NEW b \in BOOLEAN, ML!Args(l, b) PROVE LinkSelects'
  <2>1. UNCHANGED <<inputs, chosen, walk, changed>> /\ pass = "args" /\ pass' \in {"load", "done"}
    BY <1>1 DEF ML!Args, ML!Then
  <2> QED BY <2>1 DEF LinkSelects
<1>2. ASSUME NEW f \in LinkFiles, ML!Load(f) PROVE LinkSelects'
  BY <1>2, SelectLoads
<1>3. CASE ML!Loaded
  <2>1. UNCHANGED <<inputs, chosen, walk, changed>> /\ pass = "load" /\ pass' \in {"pre", "done"}
    BY <1>3 DEF ML!Loaded, ML!Then
  <2> QED BY <2>1 DEF LinkSelects
<1>4. CASE ML!PreLayout
  <2>1. /\ UNCHANGED <<inputs, chosen, walk, changed, fromCli>> /\ pass = "pre" /\ pass' \in {"select", "done"}
        /\ pass' = "select" => fromCli \/ \A k \in ML!Entries : ML!Macros[k][2] = entry'
    BY <1>4 DEF ML!PreLayout, ML!Then
  <2>2. ML!Macros' = ML!Macros /\ ML!Entries' = ML!Entries /\ Earned' = Earned
    BY <2>1, SameObjects, SelectedSame
  <2>3. pass' = "select" => Agreed'
    BY <2>1, <2>2 DEF Agreed
  <2>4. Earned /\ changed /\ \A i \in 1 .. Len(inputs) : inputs[i].member \/ i \in chosen
    BY <2>1 DEF LinkSelects, Earned
  <2> QED BY <2>1, <2>2, <2>3, <2>4 DEF LinkSelects
<1>5. CASE ML!Select
  BY <1>5, SelectSelects
<1>6. CASE ML!Resolve
  <2>1. UNCHANGED <<inputs, chosen>> /\ pass = "resolve" /\ pass' \in {"defsym", "done"}
    BY <1>6 DEF ML!Resolve, ML!Then
  <2> QED BY <2>1, LateStays
<1>7. CASE ML!InjectDefsyms
  <2>1. UNCHANGED <<inputs, chosen>> /\ pass = "defsym" /\ pass' \in {"inject", "done"}
    BY <1>7 DEF ML!InjectDefsyms, ML!Then
  <2> QED BY <2>1, LateStays
<1>8. CASE ML!InjectMacros
  <2>1. UNCHANGED <<inputs, chosen>> /\ pass = "inject" /\ pass' \in {"layout", "done"}
    BY <1>8 DEF ML!InjectMacros, ML!Then
  <2> QED BY <2>1, LateStays
<1>9. CASE ML!Layout
  <2>1. UNCHANGED <<inputs, chosen>> /\ pass = "layout" /\ pass' \in {"report", "done"}
    BY <1>9 DEF ML!Layout, ML!Then
  <2> QED BY <2>1, LateStays
<1>10. CASE ML!ReportUndefined
  <2>1. UNCHANGED <<inputs, chosen>> /\ pass = "report" /\ pass' \in {"post", "done"}
    BY <1>10 DEF ML!ReportUndefined, ML!Then
  <2> QED BY <2>1, LateStays
<1>11. ASSUME NEW b \in BOOLEAN, ML!PostLayout(b) PROVE LinkSelects'
  <2>1. UNCHANGED <<inputs, chosen>> /\ pass = "post" /\ pass' \in {"relocate", "done"}
    BY <1>11 DEF ML!PostLayout, ML!Then
  <2> QED BY <2>1, LateStays
<1>12. ASSUME NEW b \in BOOLEAN, NEW c \in BOOLEAN, ML!ApplyRelocations(b, c) \/ ML!Emit(b, c) PROVE LinkSelects'
  <2>1. UNCHANGED <<inputs, chosen>> /\ pass \in {"relocate", "emit"} /\ pass' \in {"emit", "done"}
    BY <1>12 DEF ML!ApplyRelocations, ML!Emit, ML!Then
  <2> QED BY <2>1, LateStays
<1> QED BY <1>1, <1>2, <1>3, <1>4, <1>5, <1>6, <1>7, <1>8, <1>9, <1>10, <1>11, <1>12 DEF ML!Next, ML!LinkStep

\* The objects that define a name in one way are those of the symbols that were gone through.
Owners(n, Q(_)) == {i \in chosen : \E j \in 1 .. Len(ML!Work) : By(j) = i /\ Called(j) = n /\ Q(j)}
Firm(j) == Lies(j) \in {"kept", "skipped"} /\ Bound(j) = "strong"
Soft(j) == Lies(j) \in {"kept", "skipped"} /\ Bound(j) = "weak"
Common(j) == Lies(j) = "common"

LEMMA OwnersAre ==
    ASSUME LinkInv, NEW n
    PROVE  /\ ML!Having(n, {"strong"}, ML!IsKept) = Owners(n, Firm)
           /\ ML!Having(n, {"weak"}, ML!IsKept) = Owners(n, Soft)
           /\ ML!Having(n, {"strong", "weak"}, ML!IsCommon) = Owners(n, Common)
<1>1. \A i \in chosen : \A s \in ML!Syms(i) :
        \E j \in 1 .. Len(ML!Work) : By(j) = i /\ Called(j) = s[1] /\ Bound(j) = s[2] /\ Lies(j) = s[3]
  BY Reached
<1>2. \A j \in 1 .. Len(ML!Work) :
        \E s \in ML!Syms(By(j)) : Called(j) = s[1] /\ Bound(j) = s[2] /\ Lies(j) = s[3]
  BY Met
<1>3. \A i \in chosen : \A s \in ML!Syms(i) : s[2] \in {"strong", "weak"}
  BY SymIs
<1>4. ML!Having(n, {"strong"}, ML!IsKept) = {i \in chosen : \E s \in ML!Syms(i) : s[1] = n /\ s[2] \in {"strong"} /\ s[3] \in {"kept", "skipped"}}
  BY DEF ML!Having, ML!IsKept
<1>5. ML!Having(n, {"weak"}, ML!IsKept) = {i \in chosen : \E s \in ML!Syms(i) : s[1] = n /\ s[2] \in {"weak"} /\ s[3] \in {"kept", "skipped"}}
  BY DEF ML!Having, ML!IsKept
<1>6. ML!Having(n, {"strong", "weak"}, ML!IsCommon) = {i \in chosen : \E s \in ML!Syms(i) : s[1] = n /\ s[2] \in {"strong", "weak"} /\ s[3] = "common"}
  BY DEF ML!Having, ML!IsCommon
<1>7. ML!Having(n, {"strong"}, ML!IsKept) = Owners(n, Firm)
  BY <1>1, <1>2, <1>4 DEF Owners, Firm
<1>8. ML!Having(n, {"weak"}, ML!IsKept) = Owners(n, Soft)
  BY <1>1, <1>2, <1>5 DEF Owners, Soft
<1>9. ML!Having(n, {"strong", "weak"}, ML!IsCommon) = Owners(n, Common)
  BY <1>1, <1>2, <1>3, <1>6 DEF Owners, Common
<1> QED BY <1>7, <1>8, <1>9

LEMMA OneTaken ==
    ASSUME LinkInv, NEW n, NEW H \in Globals, Stands(Len(ML!Work), n, H)
    PROVE  LET strong == Owners(n, Firm)
               weak == Owners(n, Soft)
               common == Owners(n, Common)
           IN  /\ H.defined = (strong \cup weak # {})
               /\ strong # {} => strong = {H.object} /\ \A i \in weak : i <= H.object
               /\ strong = {} /\ weak # {} => H.object = CHOOSE i \in weak : \A j \in weak : i <= j
               /\ strong \cup weak = {} /\ common # {} =>
                    H.common /\ H.size \in {inputs[i].size : i \in common} /\ \A i \in common : inputs[i].size <= H.size
<1> DEFINE K == Len(ML!Work)
           strong == Owners(n, Firm)
           weak == Owners(n, Soft)
           common == Owners(n, Common)
<1>1. inputs \in Seq(LinkFiles) /\ chosen \subseteq 1 .. Len(inputs)
  BY DEF LinkInv
<1>2. ML!Work \in Seq(Jobs)
  BY <1>1, WorkIs
<1>3. \A j \in 1 .. K : By(j) \in chosen /\ Bound(j) \in {"strong", "weak"}
  BY <1>1, <1>2, JobIs, Met
<1>4. /\ \A i \in strong : \E j \in 1 .. K : Defines(j, n) /\ Bound(j) = "strong" /\ By(j) = i
      /\ \A j \in 1 .. K : Defines(j, n) /\ Bound(j) = "strong" => By(j) \in strong
  BY <1>3 DEF Owners, Firm, Defines
<1>11. /\ \A i \in weak : \E j \in 1 .. K : Defines(j, n) /\ Bound(j) = "weak" /\ By(j) = i
       /\ \A j \in 1 .. K : Defines(j, n) /\ Bound(j) = "weak" => By(j) \in weak
  BY <1>3 DEF Owners, Soft, Defines
<1>12. /\ \A i \in common : \E j \in 1 .. K : Shares(j, n) /\ By(j) = i
       /\ \A j \in 1 .. K : Shares(j, n) => By(j) \in common
  BY <1>3 DEF Owners, Common, Shares
<1>5. weak \subseteq Nat
  <2>1. chosen \subseteq Nat
    BY <1>1
  <2>2. weak \subseteq chosen
    BY DEF Owners, Soft
  <2> QED BY <2>1, <2>2
<1> HIDE DEF strong, weak, common, K
<1>6. Stands(K, n, H)
  BY DEF K
<1>7. H.defined = (strong \cup weak # {})
  <2>1. H.defined \in BOOLEAN
    BY DEF Globals
  <2>2. H.defined <=> \E j \in 1 .. K : Defines(j, n)
    BY <1>6 DEF Stands
  <2>3. (\E j \in 1 .. K : Defines(j, n)) <=> strong \cup weak # {}
    BY <1>3, <1>4, <1>11, <1>12
  <2> QED BY <2>1, <2>2, <2>3
<1>8. ASSUME strong # {} PROVE strong = {H.object} /\ \A i \in weak : i <= H.object
  <2>1. \A i \in strong : i = H.object /\ ~ H.weak
    BY <1>4, <1>6 DEF Stands
  <2>2. \A i \in weak : i <= H.object
    BY <1>8, <1>11, <1>6, <2>1 DEF Stands
  <2> QED BY <1>8, <2>1, <2>2
<1>9. ASSUME strong = {}, weak # {} PROVE H.object = CHOOSE i \in weak : \A j \in weak : i <= j
  <2>1. H.defined
    BY <1>7, <1>9
  <2>2. PICK j \in 1 .. K : Defines(j, n) /\ H.object = By(j) /\ (Bound(j) = "weak" <=> H.weak)
    BY <1>6, <2>1 DEF Stands
  <2>3. Bound(j) = "weak"
    BY <1>3, <1>4, <1>11, <1>12, <1>9, <2>2
  <2>4. H.object \in weak /\ H.weak
    BY <1>4, <1>11, <1>12, <2>2, <2>3
  <2>5. \A i \in weak : H.object <= i
    <3>1. \A k \in 1 .. K : Defines(k, n) /\ H.weak => H.object <= By(k)
      BY <1>6 DEF Stands
    <3> QED BY <1>4, <1>11, <1>12, <2>4, <3>1
  <2>6. \A i \in weak : (\A k \in weak : i <= k) => i = H.object
    <3>1. ASSUME NEW i \in weak, \A k \in weak : i <= k PROVE i = H.object
      <4>1. i <= H.object /\ H.object <= i /\ i \in Nat /\ H.object \in Nat
        BY <1>5, <2>4, <2>5, <3>1
      <4> QED BY <4>1
    <3> QED BY <3>1
  <2> QED BY <2>4, <2>5, <2>6
<1>10. ASSUME strong \cup weak = {}, common # {}
       PROVE  H.common /\ H.size \in {inputs[i].size : i \in common} /\ \A i \in common : inputs[i].size <= H.size
  <2>1. ~ H.defined
    BY <1>7, <1>10
  <2>2. H.common
    <3>1. \E j \in 1 .. K : Shares(j, n)
      BY <1>4, <1>11, <1>12, <1>10
    <3> QED BY <1>6, <2>1, <3>1 DEF Stands
  <2>3. PICK j \in 1 .. K : Shares(j, n) /\ H.size = inputs[By(j)].size
    BY <1>6, <2>2 DEF Stands
  <2>4. H.size \in {inputs[i].size : i \in common}
    BY <1>4, <1>11, <1>12, <2>3
  <2>5. \A i \in common : inputs[i].size <= H.size
    <3>1. \A k \in 1 .. K : Shares(k, n) => inputs[By(k)].size <= H.size
      BY <1>6, <2>2 DEF Stands
    <3> QED BY <1>4, <1>11, <1>12, <3>1
  <2> QED BY <2>2, <2>4, <2>5
<1> QED BY <1>7, <1>8, <1>9, <1>10 DEF strong, weak, common

\* A link that is given up has no image; of one that is not, all that was asked for is there.
LEMMA LinkIsRight ==
    ASSUME LinkInv, LinkRight, LinkSelects
    PROVE  ML!ArchivesSettled /\ ML!ResolvedRight /\ ML!ImageComplete /\ ML!CommonsPlaced /\ ML!EntryAgreed
<1>1. ML!ArchivesSettled
  BY DEF LinkSelects, Earned, Unneeded, ML!ArchivesSettled
<1>2. ML!EntryAgreed
  BY DEF LinkSelects, Agreed, ML!EntryAgreed, ML!Later
<1>3. ML!CommonsPlaced
  BY DEF LinkRight, Ended, CommonsIn, ML!CommonsPlaced
<1>4. ML!ImageComplete
  <2> SUFFICES ASSUME image = "written"
               PROVE  /\ ~ failed /\ ML!Given(entry)
                      /\ \A i \in chosen : \A s \in ML!Syms(i) : s[2] = "strong" => ML!SymbolValue(i, s)[1] = "object"
                      /\ \A k \in 1 .. Len(ML!Macros) : ML!Macros[k][1] = "ASSERT" => ML!Given(ML!Macros[k][2])
    BY DEF ML!ImageComplete
  <2>1. ~ failed /\ ML!Given(entry) /\ SharedHere /\ NoneSkipped /\ Answered /\ Asserted
    BY DEF LinkRight, Ended
  <2>2. ASSUME NEW i \in chosen, NEW s \in ML!Syms(i), s[2] = "strong" PROVE ML!SymbolValue(i, s)[1] = "object"
    <3>1. s[3] \in {"undef", "common", "kept"}
      BY <2>1, <2>2, SymIs DEF NoneSkipped
    <3>2. CASE s[3] = "kept"
      BY <3>2 DEF ML!SymbolValue
    <3>3. CASE s[3] \in {"undef", "common"}
      <4>1. ML!Given(s[1])
        BY <2>1, <2>2, <3>3 DEF SharedHere, Answered
      <4> QED BY <3>3, <4>1 DEF ML!SymbolValue
    <3> QED BY <3>1, <3>2, <3>3
  <2> QED BY <2>1, <2>2 DEF Asserted
<1>5. ML!ResolvedRight
  <2>1. ASSUME pass = "defsym", ~ failed, NEW n \in DOMAIN globals
        PROVE  /\ Stands(Len(ML!Work), n, globals[n]) /\ globals[n] \in Globals
    <3>1. globals \in [DOMAIN globals -> Globals] /\ DOMAIN globals \subseteq ML!Names
      BY TableIs DEF LinkInv
    <3>2. ML!Find(globals, n) = globals[n]
      BY <2>1 DEF ML!Find
    <3>3. Stands(Len(ML!Work), n, ML!Find(globals, n))
      BY <2>1, <3>1 DEF LinkRight
    <3> QED BY <2>1, <3>1, <3>2, <3>3
  <2>2. ASSUME pass = "defsym", ~ failed, NEW n \in DOMAIN globals
        PROVE  LET strong == ML!Having(n, {"strong"}, ML!IsKept)
                   weak == ML!Having(n, {"weak"}, ML!IsKept)
                   common == ML!Having(n, {"strong", "weak"}, ML!IsCommon)
               IN  /\ globals[n].defined = (strong \cup weak # {})
                   /\ strong # {} => strong = {globals[n].object} /\ \A i \in weak : i <= globals[n].object
                   /\ strong = {} /\ weak # {} => globals[n].object = CHOOSE i \in weak : \A j \in weak : i <= j
                   /\ strong \cup weak = {} /\ common # {} =>
                        globals[n].common /\ globals[n].size \in {inputs[i].size : i \in common}
                        /\ \A i \in common : inputs[i].size <= globals[n].size
    <3>1. Stands(Len(ML!Work), n, globals[n]) /\ globals[n] \in Globals
      BY <2>1, <2>2
    <3>2. /\ ML!Having(n, {"strong"}, ML!IsKept) = Owners(n, Firm)
          /\ ML!Having(n, {"weak"}, ML!IsKept) = Owners(n, Soft)
          /\ ML!Having(n, {"strong", "weak"}, ML!IsCommon) = Owners(n, Common)
      BY OwnersAre
    <3> QED BY <3>1, <3>2, OneTaken
  <2> QED BY <2>2 DEF ML!ResolvedRight, ML!Later
<1> QED BY <1>1, <1>2, <1>3, <1>4, <1>5

-----------------------------------------------------------------------------
(* mlink: the layout *)

LayoutInv == MO!TypeOK

LEMMA LayoutInit == MO!Init => LayoutInv
<1> SUFFICES ASSUME MO!Init PROVE LayoutInv
  OBVIOUS
<1>1. sections = <<>> /\ commons = <<>> /\ laid = FALSE
  BY DEF MO!Init
<1>2. sections \in Seq(RawSections) /\ commons \in Seq(RawCommons) /\ Len(sections) = 0 /\ Len(commons) = 0
  BY <1>1
<1>3. 0 <= MaxSections /\ 0 <= MaxCommons
  BY LayoutAssumption
<1> QED BY <1>1, <1>2, <1>3 DEF LayoutInv, MO!TypeOK

LEMMA LayoutStep == ASSUME LayoutInv, MO!Next PROVE LayoutInv'
<1>1. /\ sections \in Seq(RawSections) /\ Len(sections) <= MaxSections /\ Len(sections) \in Nat
      /\ commons \in Seq(RawCommons) /\ Len(commons) <= MaxCommons /\ Len(commons) \in Nat /\ laid \in BOOLEAN
  BY DEF LayoutInv, MO!TypeOK
<1>2. ASSUME NEW s \in RawSections, MO!AddSection(s) PROVE LayoutInv'
  <2>1. sections' \in Seq(RawSections) /\ Len(sections') = Len(sections) + 1
    BY <1>1, <1>2 DEF MO!AddSection
  <2> QED BY <1>1, <1>2, <2>1, LayoutAssumption DEF MO!AddSection, LayoutInv, MO!TypeOK
<1>3. ASSUME NEW c \in RawCommons, MO!AddCommon(c) PROVE LayoutInv'
  <2>1. commons' \in Seq(RawCommons) /\ Len(commons') = Len(commons) + 1
    BY <1>1, <1>3 DEF MO!AddCommon
  <2> QED BY <1>1, <1>3, <2>1, LayoutAssumption DEF MO!AddCommon, LayoutInv, MO!TypeOK
<1>4. CASE MO!Place
  BY <1>1, <1>4 DEF MO!Place, LayoutInv, MO!TypeOK
<1> QED BY <1>2, <1>3, <1>4 DEF MO!Next

LEMMA LayoutStays == ASSUME LayoutInv, UNCHANGED layoutVars PROVE LayoutInv'
BY DEF LayoutInv, MO!TypeOK, layoutVars

LEMMA TimesIs ==
    ASSUME NEW q \in Int, NEW a \in Nat \ {0}
    PROVE  (q * a) % a = 0 /\ q * a \in Int
<1> DEFINE v == q * a
<1>1. v \in Int
  OBVIOUS
<1>2. v = (a * (v \div a)) + (v % a) /\ v % a \in 0 .. a - 1 /\ v \div a \in Int
  BY <1>1
<1>3. a * (v \div a) = (v \div a) * a
  BY <1>2
<1>4. v \div a = q
  BY <1>1
<1> QED BY <1>1, <1>2, <1>3, <1>4

\* A value is moved up to the next multiple, or stays.
LEMMA AlignUpIs ==
    ASSUME NEW v \in Nat, NEW a \in Nat
    PROVE  MO!AlignUp(v, a) \in Nat /\ MO!AlignUp(v, a) >= v /\ (a > 0 => MO!AlignUp(v, a) % a = 0)
<1>1. CASE a <= 1
  <2>1. MO!AlignUp(v, a) = v
    BY <1>1 DEF MO!AlignUp
  <2>2. v % 1 = 0
    OBVIOUS
  <2> QED BY <1>1, <2>1, <2>2
<1>2. CASE a > 1
  <2> DEFINE w == v + a - 1
             q == w \div a
  <2>1. MO!AlignUp(v, a) = q * a
    BY <1>2 DEF MO!AlignUp
  <2>2. w \in Nat /\ a \in Nat \ {0}
    BY <1>2
  <2>3. q \in Int /\ w % a \in 0 .. a - 1 /\ w = (a * q) + (w % a)
    <3> HIDE DEF w
    <3> QED BY <2>2
  <2>4. a * q = q * a /\ q * a \in Int /\ (q * a) % a = 0
    <3> HIDE DEF q
    <3> QED BY <2>2, <2>3, TimesIs
  <2>5. q * a >= v
    <3> DEFINE p == q * a
               r == w % a
    <3>1. p \in Int /\ r \in 0 .. a - 1 /\ v + a - 1 = p + r
      BY <2>3, <2>4
    <3> HIDE DEF p, r
    <3>2. p >= v
      BY <2>2, <3>1
    <3> QED BY <3>2 DEF p
  <2> HIDE DEF q
  <2> QED BY <2>1, <2>4, <2>5
<1> QED BY <1>1, <1>2

\* A function that grows from each number to the next
Rises(f, n) == f \in [0 .. n -> Nat] /\ \A i, j \in 0 .. n : i <= j => f[i] <= f[j]
LEMMA StepsRise ==
    ASSUME NEW n \in Nat, NEW f, f = [k \in 0 .. n |-> f[k]], f[0] \in Nat,
           \A m \in 1 .. n : f[m - 1] \in Nat => f[m] \in Nat /\ f[m - 1] <= f[m]
    PROVE  Rises(f, n)
<1> DEFINE Odd == {k \in 0 .. n : f[k] \notin Nat}
           Bad == {j \in 0 .. n : \E i \in 0 .. n : i <= j /\ ~ (f[i] <= f[j])}
<1>1. Odd = {}
  <2>1. Odd \subseteq 0 .. n /\ 0 \notin Odd
    OBVIOUS
  <2>2. ASSUME NEW m \in 1 .. n, m \in Odd PROVE m - 1 \in Odd
    <3>1. m - 1 \in 0 .. n
      OBVIOUS
    <3> QED BY <2>2, <3>1
  <2> HIDE DEF Odd
  <2> QED BY <2>1, <2>2, Climb
<1>2. \A k \in 0 .. n : f[k] \in Nat
  BY <1>1
<1>3. f \in [0 .. n -> Nat]
  BY <1>2
<1>4. Bad = {}
  <2>1. Bad \subseteq 0 .. n
    OBVIOUS
  <2>2. 0 \notin Bad
    <3>1. \A i \in 0 .. n : i <= 0 => i = 0
      OBVIOUS
    <3> QED BY <3>1, <1>2
  <2>3. ASSUME NEW m \in 1 .. n, m \in Bad PROVE m - 1 \in Bad
    <3>1. m - 1 \in 0 .. n /\ m \in 0 .. n
      OBVIOUS
    <3>2. f[m] \in Nat /\ f[m - 1] \in Nat /\ f[m - 1] <= f[m]
      BY <1>2, <3>1
    <3>3. PICK i \in 0 .. n : i <= m /\ ~ (f[i] <= f[m])
      BY <2>3
    <3>4. f[i] \in Nat
      BY <1>2
    <3>5. i # m
      BY <3>2, <3>3
    <3>6. i <= m - 1
      BY <3>3, <3>5
    <3>7. ~ (f[i] <= f[m - 1])
      BY <3>2, <3>3, <3>4
    <3> QED BY <3>1, <3>6, <3>7
  <2> HIDE DEF Bad
  <2> QED BY <2>1, <2>2, <2>3, Climb
<1> QED BY <1>2, <1>3, <1>4 DEF Rises

LEMMA SectionIs ==
    ASSUME LayoutInv
    PROVE  /\ Len(sections) \in Nat /\ Len(commons) \in Nat
           /\ \A i \in 1 .. Len(sections) : sections[i] \in RawSections /\ sections[i].size \in Nat /\ sections[i].align \in Nat
           /\ \A k \in 1 .. Len(commons) : commons[k].size \in Nat /\ commons[k].align \in Nat
<1>1. sections \in Seq(RawSections) /\ commons \in Seq(RawCommons)
  BY DEF LayoutInv, MO!TypeOK
<1>2. Len(sections) \in Nat /\ Len(commons) \in Nat
  BY <1>1
<1>3. \A i \in 1 .. Len(sections) : sections[i] \in RawSections
  BY <1>1
<1>4. \A k \in 1 .. Len(commons) : commons[k] \in RawCommons
  BY <1>1
<1> QED BY <1>2, <1>3, <1>4, LayoutAssumption

\* Where the sections of a kind end that are among the first i, from a cursor on
Carry(kind, i, v) == IF i \in MO!Of(kind) THEN MO!AlignUp(v, sections[i].align) + sections[i].size ELSE v
LEMMA CarryOn ==
    ASSUME LayoutInv, NEW kind, NEW i \in 1 .. Len(sections), NEW v \in Nat
    PROVE  Carry(kind, i, v) \in Nat /\ v <= Carry(kind, i, v)
<1>1. sections[i].size \in Nat /\ sections[i].align \in Nat
  BY SectionIs
<1>2. MO!AlignUp(v, sections[i].align) \in Nat /\ v <= MO!AlignUp(v, sections[i].align)
  BY <1>1, AlignUpIs
<1>3. MO!AlignUp(v, sections[i].align) + sections[i].size \in Nat
      /\ v <= MO!AlignUp(v, sections[i].align) + sections[i].size
  BY <1>1, <1>2
<1> QED BY <1>3 DEF Carry

LEMMA EndsAre ==
    ASSUME LayoutInv, NEW kind, NEW start \in Nat
    PROVE  LET e == MO!Ends(kind, start)
           IN  /\ Rises(e, Len(sections)) /\ e[0] = start
               /\ \A i \in 1 .. Len(sections) : e[i] = Carry(kind, i, e[i - 1])
<1> DEFINE N == Len(sections)
           T == Nat
           E == [q \in (1 .. N) \X T |-> Carry(kind, q[1], q[2])]
           e == MO!Ends(kind, start)
<1>1. N \in Nat /\ start \in T
  BY SectionIs
<1>2. \A n \in 1 .. N, v \in Nat : Carry(kind, n, v) \in Nat /\ v <= Carry(kind, n, v)
  BY CarryOn
<1>3. E \in Onward(N, T)
  BY <1>2 DEF Onward
<1>4. \A n \in 1 .. N, v \in T : E[<<n, v>>] = Carry(kind, n, v)
  OBVIOUS
<1>5. PICK f \in Courses(N, T) : f = [k \in 0 .. N |-> IF k = 0 THEN start ELSE E[<<k, f[k - 1]>>]]
  <2> HIDE DEF N, T, E
  <2> QED BY <1>1, <1>3, Unrolled
<1> HIDE DEF E
<1>6. f = [k \in 0 .. N |-> IF k = 0 THEN start ELSE Carry(kind, k, f[k - 1])]
  <2>1. ASSUME NEW k \in 0 .. N, k # 0 PROVE E[<<k, f[k - 1]>>] = Carry(kind, k, f[k - 1])
    <3>1. k - 1 \in 0 .. N /\ k \in 1 .. N
      BY <2>1, <1>1
    <3> HIDE DEF N
    <3> QED BY <1>4, <1>5, <3>1 DEF Courses
  <2> HIDE DEF N
  <2> QED BY <1>5, <2>1
<1>7. e = CHOOSE h : h = [k \in 0 .. N |-> IF k = 0 THEN start ELSE Carry(kind, k, h[k - 1])]
  BY DEF MO!Ends, Carry
<1>8. e = [k \in 0 .. N |-> IF k = 0 THEN start ELSE Carry(kind, k, e[k - 1])]
  BY <1>6, <1>7
<1> HIDE DEF e
<1>9. e[0] = start
  BY <1>1, <1>8
<1>10. \A i \in 1 .. N : e[i] = Carry(kind, i, e[i - 1])
  <2>1. \A i \in 1 .. N : i \in 0 .. N /\ i # 0
    BY <1>1
  <2> HIDE DEF N
  <2> QED BY <1>8, <2>1
<1>11. Rises(e, N)
  <2>1. e = [k \in 0 .. N |-> e[k]]
    BY <1>8
  <2>2. \A m \in 1 .. N : e[m - 1] \in Nat => e[m] \in Nat /\ e[m - 1] <= e[m]
    BY <1>2, <1>10
  <2> HIDE DEF N
  <2> QED BY <1>1, <1>9, <2>1, <2>2, StepsRise
<1> QED BY <1>9, <1>10, <1>11 DEF e

\* The same of the common symbols
LEMMA CommonEndsAre ==
    ASSUME LayoutInv, MO!CommonsStart \in Nat
    PROVE  LET e == MO!CommonEnds
           IN  /\ Rises(e, Len(commons)) /\ e[0] = MO!CommonsStart
               /\ \A k \in 1 .. Len(commons) :
                    e[k] = MO!AlignUp(e[k - 1], MO!Capped(commons[k].align)) + commons[k].size
<1> DEFINE N == Len(commons)
           Onto(k, v) == MO!AlignUp(v, MO!Capped(commons[k].align)) + commons[k].size
           T == Nat
           E == [q \in (1 .. N) \X T |-> Onto(q[1], q[2])]
           start == MO!CommonsStart
           e == MO!CommonEnds
<1>1. N \in Nat /\ start \in T
  BY SectionIs
<1>2. ASSUME NEW n \in 1 .. N, NEW v \in Nat PROVE Onto(n, v) \in Nat /\ v <= Onto(n, v)
  <2>1. commons[n].size \in Nat /\ commons[n].align \in Nat
    BY SectionIs
  <2>2. MO!Capped(commons[n].align) \in Nat
    BY <2>1, LayoutAssumption DEF MO!Capped
  <2>3. MO!AlignUp(v, MO!Capped(commons[n].align)) \in Nat /\ v <= MO!AlignUp(v, MO!Capped(commons[n].align))
    BY <2>2, AlignUpIs
  <2> QED BY <2>1, <2>3
<1>3. E \in Onward(N, T)
  BY <1>2 DEF Onward
<1>4. \A n \in 1 .. N, v \in T : E[<<n, v>>] = Onto(n, v)
  OBVIOUS
<1>5. PICK f \in Courses(N, T) : f = [k \in 0 .. N |-> IF k = 0 THEN start ELSE E[<<k, f[k - 1]>>]]
  <2> HIDE DEF N, T, E, start
  <2> QED BY <1>1, <1>3, Unrolled
<1> HIDE DEF E
<1>6. f = [k \in 0 .. N |-> IF k = 0 THEN start ELSE Onto(k, f[k - 1])]
  <2>1. ASSUME NEW k \in 0 .. N, k # 0 PROVE E[<<k, f[k - 1]>>] = Onto(k, f[k - 1])
    <3>1. k - 1 \in 0 .. N /\ k \in 1 .. N
      BY <2>1, <1>1
    <3> HIDE DEF N, Onto
    <3> QED BY <1>4, <1>5, <3>1 DEF Courses
  <2> HIDE DEF N, Onto
  <2> QED BY <1>5, <2>1
<1>7. e = CHOOSE h : h = [k \in 0 .. N |-> IF k = 0 THEN start ELSE Onto(k, h[k - 1])]
  BY DEF MO!CommonEnds
<1>8. e = [k \in 0 .. N |-> IF k = 0 THEN start ELSE Onto(k, e[k - 1])]
  BY <1>6, <1>7
<1> HIDE DEF e
<1>9. e[0] = start
  BY <1>1, <1>8
<1>10. \A i \in 1 .. N : e[i] = Onto(i, e[i - 1])
  <2>1. \A i \in 1 .. N : i \in 0 .. N /\ i # 0
    BY <1>1
  <2> HIDE DEF N, Onto
  <2> QED BY <1>8, <2>1
<1>11. Rises(e, N)
  <2>1. e = [k \in 0 .. N |-> e[k]]
    BY <1>8
  <2>2. \A m \in 1 .. N : e[m - 1] \in Nat => e[m] \in Nat /\ e[m - 1] <= e[m]
    BY <1>2, <1>10
  <2> HIDE DEF N
  <2> QED BY <1>1, <1>9, <2>1, <2>2, StepsRise
<1> QED BY <1>9, <1>10, <1>11 DEF e

\* The parts of the image, one behind the other
HeadersEnd == Header + MO!Phnum * PhdrSize
LEMMA HeadersAre ==
    ASSUME LayoutInv
    PROVE  HeadersEnd \in Nat
<1>1. MO!Phnum \in Nat
  BY DEF MO!Phnum
<1>2. MO!Phnum * PhdrSize \in Nat
  <2> DEFINE p == MO!Phnum
  <2> HIDE DEF p
  <2>1. p \in Nat /\ PhdrSize \in Nat
    BY <1>1, LayoutAssumption DEF p
  <2>2. p * PhdrSize \in Nat
    BY <2>1
  <2> QED BY <2>2 DEF p
<1> DEFINE m == MO!Phnum * PhdrSize
<1> HIDE DEF m
<1>3. m \in Nat /\ Header \in Nat
  BY <1>2, LayoutAssumption DEF m
<1>4. Header + m \in Nat
  BY <1>3
<1> QED BY <1>4 DEF m, HeadersEnd

Runs(kind, e, start) ==
    /\ Rises(e, Len(sections)) /\ start \in Nat /\ e[0] = start /\ e[Len(sections)] \in Nat
    /\ start <= e[Len(sections)]
    /\ \A i \in 1 .. Len(sections) : e[i] = Carry(kind, i, e[i - 1])
LEMMA EndsRun ==
    ASSUME LayoutInv, NEW kind, NEW start \in Nat
    PROVE  Runs(kind, MO!Ends(kind, start), start)
<1> DEFINE e == MO!Ends(kind, start)
           N == Len(sections)
<1>1. Rises(e, N) /\ e[0] = start /\ \A i \in 1 .. N : e[i] = Carry(kind, i, e[i - 1])
  BY EndsAre
<1>2. N \in Nat
  BY SectionIs
<1> HIDE DEF e, N
<1>3. 0 \in 0 .. N /\ N \in 0 .. N /\ 0 <= N
  BY <1>2
<1>4. e[N] \in Nat /\ e[0] <= e[N]
  BY <1>1, <1>3 DEF Rises
<1> QED BY <1>1, <1>4 DEF Runs, e, N

\* The start of a kind that begins a page when there is any of it
Paged(start, low, some) == start \in Nat /\ low <= start /\ (some => start % PageSize = 0)
LEMMA IsPaged ==
    ASSUME NEW low \in Nat, NEW some
    PROVE  Paged(IF some THEN MO!AlignUp(low, PageSize) ELSE low, low, some)
<1>1. PageSize \in Nat /\ PageSize > 0
  BY LayoutAssumption
<1>2. MO!AlignUp(low, PageSize) \in Nat /\ low <= MO!AlignUp(low, PageSize)
      /\ MO!AlignUp(low, PageSize) % PageSize = 0
  BY <1>1, AlignUpIs
<1> QED BY <1>2 DEF Paged

LEMMA PartsAre ==
    ASSUME LayoutInv
    PROVE  /\ Runs("text", MO!Text, MO!Text[0]) /\ HeadersEnd <= MO!Text[0]
           /\ Runs("rodata", MO!Rodata, MO!RoStart) /\ Paged(MO!RoStart, MO!Text[MO!All], MO!HasRodata)
           /\ Runs("data", MO!Data, MO!DataStart) /\ Paged(MO!DataStart, MO!Rodata[MO!All], MO!HasRw)
           /\ Runs("bss", MO!Bss, MO!Data[MO!All])
           /\ MO!CommonsStart \in Nat /\ MO!Bss[MO!All] <= MO!CommonsStart
<1>1. MO!AlignUp(HeadersEnd, CommonAlign) \in Nat /\ HeadersEnd <= MO!AlignUp(HeadersEnd, CommonAlign)
  BY HeadersAre, AlignUpIs, LayoutAssumption
<1>2. MO!Text = MO!Ends("text", MO!AlignUp(HeadersEnd, CommonAlign))
  BY DEF MO!Text, HeadersEnd
<1>3. Runs("text", MO!Text, MO!AlignUp(HeadersEnd, CommonAlign))
  BY <1>1, <1>2, EndsRun
<1>4. MO!Text[0] = MO!AlignUp(HeadersEnd, CommonAlign) /\ MO!Text[MO!All] \in Nat
  BY <1>3 DEF Runs, MO!All
<1>5. Paged(MO!RoStart, MO!Text[MO!All], MO!HasRodata)
  <2>1. Paged(IF MO!HasRodata THEN MO!AlignUp(MO!Text[MO!All], PageSize) ELSE MO!Text[MO!All],
              MO!Text[MO!All], MO!HasRodata)
    BY <1>4, IsPaged
  <2> QED BY <2>1 DEF MO!RoStart
<1>6. Runs("rodata", MO!Rodata, MO!RoStart)
  BY <1>5, EndsRun DEF Paged, MO!Rodata
<1>7. MO!Rodata[MO!All] \in Nat
  BY <1>6 DEF Runs, MO!All
<1>8. Paged(MO!DataStart, MO!Rodata[MO!All], MO!HasRw)
  <2>1. Paged(IF MO!HasRw THEN MO!AlignUp(MO!Rodata[MO!All], PageSize) ELSE MO!Rodata[MO!All],
              MO!Rodata[MO!All], MO!HasRw)
    BY <1>7, IsPaged
  <2> QED BY <2>1 DEF MO!DataStart
<1>9. Runs("data", MO!Data, MO!DataStart)
  BY <1>8, EndsRun DEF Paged, MO!Data
<1>10. MO!Data[MO!All] \in Nat
  BY <1>9 DEF Runs, MO!All
<1>11. Runs("bss", MO!Bss, MO!Data[MO!All])
  BY <1>10, EndsRun DEF MO!Bss
<1>12. MO!Bss[MO!All] \in Nat
  BY <1>11 DEF Runs, MO!All
<1>13. MO!CommonsStart \in Nat /\ MO!Bss[MO!All] <= MO!CommonsStart
  BY <1>12, AlignUpIs, LayoutAssumption DEF MO!CommonsStart
<1> QED BY <1>1, <1>3, <1>4, <1>5, <1>6, <1>8, <1>9, <1>11, <1>13

\* Where the parts begin and end
Edges ==
    /\ HeadersEnd \in Nat /\ MO!Text[0] \in Nat /\ MO!Text[MO!All] \in Nat
    /\ MO!RoStart \in Nat /\ MO!Rodata[MO!All] \in Nat /\ MO!DataStart \in Nat /\ MO!Data[MO!All] \in Nat
    /\ MO!Bss[MO!All] \in Nat /\ MO!CommonsStart \in Nat
    /\ HeadersEnd <= MO!Text[0] /\ MO!Text[0] <= MO!Text[MO!All] /\ MO!Text[MO!All] <= MO!RoStart
    /\ MO!RoStart <= MO!Rodata[MO!All] /\ MO!Rodata[MO!All] <= MO!DataStart
    /\ MO!DataStart <= MO!Data[MO!All] /\ MO!Data[MO!All] <= MO!Bss[MO!All]
    /\ MO!Bss[MO!All] <= MO!CommonsStart
LEMMA EdgesAre == ASSUME LayoutInv PROVE Edges
BY PartsAre, HeadersAre DEF Edges, Runs, Paged, MO!All

\* A section lies in the part of its kind, behind the sections of its kind that precede it.
Within(i, low, high) == low <= MO!Offset(i) /\ MO!Offset(i) + sections[i].size <= high
Sits(i, kind, e) ==
    /\ MO!Kind(sections[i]) = kind /\ MO!Offset(i) \in Nat
    /\ e[i - 1] <= MO!Offset(i) /\ MO!Offset(i) + sections[i].size = e[i]
LEMMA SectionSits ==
    ASSUME LayoutInv, NEW kind, NEW e, NEW start, Runs(kind, e, start), NEW i \in MO!Of(kind),
           MO!Placed[kind] = e
    PROVE  /\ i \in 1 .. Len(sections) /\ Sits(i, kind, e) /\ Within(i, start, e[MO!All])
           /\ sections[i].align > 1 => MO!Offset(i) % sections[i].align = 0
<1> DEFINE N == Len(sections)
<1>1. i \in 1 .. N /\ MO!Kind(sections[i]) = kind
  BY DEF MO!Of
<1>2. N \in Nat /\ sections[i].size \in Nat /\ sections[i].align \in Nat
  BY <1>1, SectionIs
<1>3. i - 1 \in 0 .. N /\ i \in 0 .. N /\ 0 \in 0 .. N /\ N \in 0 .. N /\ 0 <= i - 1 /\ i <= N
  BY <1>1, <1>2
<1>4. /\ e[i - 1] \in Nat /\ e[i] \in Nat /\ e[N] \in Nat /\ e[0] = start /\ e[0] \in Nat
      /\ e[0] <= e[i - 1] /\ e[i] <= e[N] /\ e[i] = Carry(kind, i, e[i - 1])
  <2> HIDE DEF N
  <2>1. Rises(e, N) /\ e[0] = start /\ e[i] = Carry(kind, i, e[i - 1])
    BY <1>1 DEF Runs, N
  <2> QED BY <1>3, <2>1 DEF Rises
<1>5. MO!Offset(i) = MO!AlignUp(e[i - 1], sections[i].align)
  BY <1>1 DEF MO!Offset
<1>6. /\ MO!Offset(i) \in Nat /\ e[i - 1] <= MO!Offset(i)
      /\ sections[i].align > 0 => MO!Offset(i) % sections[i].align = 0
  <2> DEFINE v == e[i - 1]
             a == sections[i].align
  <2>1. v \in Nat /\ a \in Nat /\ MO!Offset(i) = MO!AlignUp(v, a)
    BY <1>2, <1>4, <1>5
  <2> HIDE DEF v, a
  <2>2. MO!Offset(i) \in Nat /\ v <= MO!Offset(i) /\ (a > 0 => MO!Offset(i) % a = 0)
    BY <2>1, AlignUpIs
  <2> QED BY <2>2 DEF v, a
<1>7. e[i] = MO!Offset(i) + sections[i].size
  BY <1>4, <1>5 DEF Carry
<1>8. sections[i].align > 1 => MO!Offset(i) % sections[i].align = 0
  <2>1. sections[i].align > 1 => sections[i].align > 0
    BY <1>2
  <2> QED BY <1>6, <2>1
<1>9. Sits(i, kind, e)
  BY <1>1, <1>6, <1>7 DEF Sits
<1>10. Within(i, start, e[MO!All])
  BY <1>2, <1>4, <1>6, <1>7 DEF Within, MO!All
<1> QED BY <1>1, <1>8, <1>9, <1>10

Settles(i) ==
    \/ i \in MO!Of("text") /\ Sits(i, "text", MO!Text) /\ Within(i, MO!Text[0], MO!Text[MO!All])
    \/ i \in MO!Of("rodata") /\ Sits(i, "rodata", MO!Rodata) /\ Within(i, MO!RoStart, MO!Rodata[MO!All])
    \/ i \in MO!Of("data") /\ Sits(i, "data", MO!Data) /\ Within(i, MO!DataStart, MO!Data[MO!All])
    \/ i \in MO!Of("bss") /\ Sits(i, "bss", MO!Bss) /\ Within(i, MO!Data[MO!All], MO!Bss[MO!All])
LEMMA SectionStands ==
    ASSUME LayoutInv, NEW i \in MO!Present
    PROVE  /\ i \in 1 .. Len(sections) /\ sections[i].size \in Nat /\ MO!Offset(i) \in Nat /\ Settles(i)
           /\ sections[i].align > 1 => MO!Offset(i) % sections[i].align = 0
<1>1. /\ MO!Placed["text"] = MO!Text /\ MO!Placed["rodata"] = MO!Rodata
      /\ MO!Placed["data"] = MO!Data /\ MO!Placed["bss"] = MO!Bss
  BY DEF MO!Placed
<1>2. CASE i \in MO!Of("text")
  <2>1. /\ i \in 1 .. Len(sections) /\ Sits(i, "text", MO!Text) /\ Within(i, MO!Text[0], MO!Text[MO!All])
        /\ sections[i].align > 1 => MO!Offset(i) % sections[i].align = 0
    BY <1>1, <1>2, PartsAre, SectionSits
  <2> QED BY <1>2, <2>1, SectionIs DEF Settles, Sits
<1>3. CASE i \in MO!Of("rodata")
  <2>1. /\ i \in 1 .. Len(sections) /\ Sits(i, "rodata", MO!Rodata) /\ Within(i, MO!RoStart, MO!Rodata[MO!All])
        /\ sections[i].align > 1 => MO!Offset(i) % sections[i].align = 0
    BY <1>1, <1>3, PartsAre, SectionSits
  <2> QED BY <1>3, <2>1, SectionIs DEF Settles, Sits
<1>4. CASE i \in MO!Of("data")
  <2>1. /\ i \in 1 .. Len(sections) /\ Sits(i, "data", MO!Data) /\ Within(i, MO!DataStart, MO!Data[MO!All])
        /\ sections[i].align > 1 => MO!Offset(i) % sections[i].align = 0
    BY <1>1, <1>4, PartsAre, SectionSits
  <2> QED BY <1>4, <2>1, SectionIs DEF Settles, Sits
<1>5. CASE i \in MO!Of("bss")
  <2>1. /\ i \in 1 .. Len(sections) /\ Sits(i, "bss", MO!Bss) /\ Within(i, MO!Data[MO!All], MO!Bss[MO!All])
        /\ sections[i].align > 1 => MO!Offset(i) % sections[i].align = 0
    BY <1>1, <1>5, PartsAre, SectionSits
  <2> QED BY <1>5, <2>1, SectionIs DEF Settles, Sits
<1> QED BY <1>2, <1>3, <1>4, <1>5 DEF MO!Present

\* Two stretches of memory that share no byte
Apart(a, m, b, n) == a + m <= b \/ b + n <= a

LEMMA SameKindApart ==
    ASSUME LayoutInv, NEW kind, NEW e, Rises(e, Len(sections)),
           NEW i \in 1 .. Len(sections), NEW j \in 1 .. Len(sections), i # j,
           Sits(i, kind, e), Sits(j, kind, e)
    PROVE  Apart(MO!Offset(i), sections[i].size, MO!Offset(j), sections[j].size)
<1> DEFINE N == Len(sections)
<1>1. N \in Nat
  BY SectionIs
<1>2. i - 1 \in 0 .. N /\ i \in 0 .. N /\ j - 1 \in 0 .. N /\ j \in 0 .. N
  BY <1>1
<1>3. \A p, q \in 0 .. N : p <= q => e[p] <= e[q]
  BY DEF Rises
<1>4. \A p \in 0 .. N : e[p] \in Nat
  BY DEF Rises
<1>5. CASE i <= j - 1
  <2>1. e[i] <= e[j - 1]
    BY <1>2, <1>3, <1>5
  <2> QED BY <1>2, <1>4, <2>1 DEF Sits, Apart
<1>6. CASE j <= i - 1
  <2>1. e[j] <= e[i - 1]
    BY <1>2, <1>3, <1>6
  <2> QED BY <1>2, <1>4, <2>1 DEF Sits, Apart
<1>7. i <= j - 1 \/ j <= i - 1
  BY <1>1
<1> QED BY <1>5, <1>6, <1>7

LEMMA SectionsApart ==
    ASSUME LayoutInv, NEW i \in MO!Present, NEW j \in MO!Present, i # j
    PROVE  Apart(MO!Offset(i), sections[i].size, MO!Offset(j), sections[j].size)
<1>1. /\ i \in 1 .. Len(sections) /\ sections[i].size \in Nat /\ MO!Offset(i) \in Nat /\ Settles(i)
      /\ j \in 1 .. Len(sections) /\ sections[j].size \in Nat /\ MO!Offset(j) \in Nat /\ Settles(j)
  BY SectionStands
<1>2. /\ Rises(MO!Text, Len(sections)) /\ Rises(MO!Rodata, Len(sections))
      /\ Rises(MO!Data, Len(sections)) /\ Rises(MO!Bss, Len(sections))
  BY PartsAre DEF Runs
<1>3. ASSUME NEW kind, NEW e, Rises(e, Len(sections)), Sits(i, kind, e), Sits(j, kind, e)
      PROVE Apart(MO!Offset(i), sections[i].size, MO!Offset(j), sections[j].size)
  BY <1>1, <1>3, SameKindApart
<1>4. /\ MO!Text[0] \in Nat /\ MO!Text[MO!All] \in Nat /\ MO!RoStart \in Nat /\ MO!Rodata[MO!All] \in Nat
      /\ MO!DataStart \in Nat /\ MO!Data[MO!All] \in Nat /\ MO!Bss[MO!All] \in Nat
      /\ MO!Text[MO!All] <= MO!RoStart /\ MO!Text[MO!All] <= MO!DataStart /\ MO!Text[MO!All] <= MO!Data[MO!All]
      /\ MO!Rodata[MO!All] <= MO!DataStart /\ MO!Rodata[MO!All] <= MO!Data[MO!All]
      /\ MO!Data[MO!All] <= MO!Data[MO!All]
  BY EdgesAre DEF Edges
<1>5. ASSUME NEW a \in Nat, NEW b \in Nat, NEW c \in Nat, NEW d \in Nat, b <= c,
             (Within(i, a, b) /\ Within(j, c, d)) \/ (Within(j, a, b) /\ Within(i, c, d))
      PROVE Apart(MO!Offset(i), sections[i].size, MO!Offset(j), sections[j].size)
  BY <1>1, <1>5 DEF Within, Apart
<1>6. CASE i \in MO!Of("text") /\ Sits(i, "text", MO!Text) /\ Within(i, MO!Text[0], MO!Text[MO!All])
  <2>1. CASE Sits(j, "text", MO!Text)
    BY <1>2, <1>3, <1>6, <2>1
  <2>2. CASE Within(j, MO!RoStart, MO!Rodata[MO!All])
    BY <1>4, <1>5, <1>6, <2>2
  <2>3. CASE Within(j, MO!DataStart, MO!Data[MO!All])
    BY <1>4, <1>5, <1>6, <2>3
  <2>4. CASE Within(j, MO!Data[MO!All], MO!Bss[MO!All])
    BY <1>4, <1>5, <1>6, <2>4
  <2> QED BY <1>1, <2>1, <2>2, <2>3, <2>4 DEF Settles
<1>7. CASE i \in MO!Of("rodata") /\ Sits(i, "rodata", MO!Rodata) /\ Within(i, MO!RoStart, MO!Rodata[MO!All])
  <2>1. CASE Sits(j, "rodata", MO!Rodata)
    BY <1>2, <1>3, <1>7, <2>1
  <2>2. CASE Within(j, MO!Text[0], MO!Text[MO!All])
    BY <1>4, <1>5, <1>7, <2>2
  <2>3. CASE Within(j, MO!DataStart, MO!Data[MO!All])
    BY <1>4, <1>5, <1>7, <2>3
  <2>4. CASE Within(j, MO!Data[MO!All], MO!Bss[MO!All])
    BY <1>4, <1>5, <1>7, <2>4
  <2> QED BY <1>1, <2>1, <2>2, <2>3, <2>4 DEF Settles
<1>8. CASE i \in MO!Of("data") /\ Sits(i, "data", MO!Data) /\ Within(i, MO!DataStart, MO!Data[MO!All])
  <2>1. CASE Sits(j, "data", MO!Data)
    BY <1>2, <1>3, <1>8, <2>1
  <2>2. CASE Within(j, MO!Text[0], MO!Text[MO!All])
    BY <1>4, <1>5, <1>8, <2>2
  <2>3. CASE Within(j, MO!RoStart, MO!Rodata[MO!All])
    BY <1>4, <1>5, <1>8, <2>3
  <2>4. CASE Within(j, MO!Data[MO!All], MO!Bss[MO!All])
    BY <1>4, <1>5, <1>8, <2>4
  <2> QED BY <1>1, <2>1, <2>2, <2>3, <2>4 DEF Settles
<1>9. CASE i \in MO!Of("bss") /\ Sits(i, "bss", MO!Bss) /\ Within(i, MO!Data[MO!All], MO!Bss[MO!All])
  <2>1. CASE Sits(j, "bss", MO!Bss)
    BY <1>2, <1>3, <1>9, <2>1
  <2>2. CASE Within(j, MO!Text[0], MO!Text[MO!All])
    BY <1>4, <1>5, <1>9, <2>2
  <2>3. CASE Within(j, MO!RoStart, MO!Rodata[MO!All])
    BY <1>4, <1>5, <1>9, <2>3
  <2>4. CASE Within(j, MO!DataStart, MO!Data[MO!All])
    BY <1>4, <1>5, <1>9, <2>4
  <2> QED BY <1>1, <2>1, <2>2, <2>3, <2>4 DEF Settles
<1> QED BY <1>1, <1>6, <1>7, <1>8, <1>9 DEF Settles

\* A common symbol lies behind all sections and behind the common symbols that precede it.
LEMMA CommonsRise ==
    ASSUME LayoutInv
    PROVE  Rises(MO!CommonEnds, Len(commons)) /\ MO!CommonEnds[0] = MO!CommonsStart
BY PartsAre, CommonEndsAre

CommonSits(k) ==
    /\ commons[k].size \in Nat /\ MO!CommonOffset(k) \in Nat
    /\ MO!CommonEnds[k - 1] <= MO!CommonOffset(k) /\ MO!CommonOffset(k) + commons[k].size = MO!CommonEnds[k]
    /\ MO!CommonsStart <= MO!CommonOffset(k) /\ MO!CommonEnds[k] <= MO!CommonEnds[Len(commons)]
    /\ MO!CommonEnds[Len(commons)] \in Nat
LEMMA CommonStands ==
    ASSUME LayoutInv, NEW k \in 1 .. Len(commons)
    PROVE  /\ CommonSits(k)
           /\ MO!Capped(commons[k].align) > 1 => MO!CommonOffset(k) % MO!Capped(commons[k].align) = 0
<1> DEFINE N == Len(commons)
           a == MO!Capped(commons[k].align)
           v == MO!CommonEnds[k - 1]
<1>1. N \in Nat /\ commons[k].size \in Nat /\ commons[k].align \in Nat
  BY SectionIs
<1>2. a \in Nat
  BY <1>1, LayoutAssumption DEF MO!Capped
<1>3. k - 1 \in 0 .. N /\ k \in 0 .. N /\ 0 \in 0 .. N /\ N \in 0 .. N /\ 0 <= k - 1 /\ k <= N
  BY <1>1
<1>4. MO!CommonsStart \in Nat
  BY PartsAre
<1>5. Rises(MO!CommonEnds, N) /\ MO!CommonEnds[0] = MO!CommonsStart
      /\ MO!CommonEnds[k] = MO!AlignUp(v, a) + commons[k].size
  BY <1>4, CommonEndsAre
<1>6. v \in Nat /\ MO!CommonEnds[k] \in Nat /\ MO!CommonEnds[N] \in Nat /\ MO!CommonEnds[0] <= v
      /\ MO!CommonEnds[k] <= MO!CommonEnds[N]
  BY <1>3, <1>5 DEF Rises
<1>7. MO!CommonOffset(k) = MO!AlignUp(v, a)
  BY DEF MO!CommonOffset
<1>8. MO!CommonOffset(k) \in Nat /\ v <= MO!CommonOffset(k) /\ (a > 0 => MO!CommonOffset(k) % a = 0)
  <2> HIDE DEF a, v
  <2> QED BY <1>2, <1>6, <1>7, AlignUpIs
<1>9. MO!CommonsStart <= MO!CommonOffset(k)
  BY <1>4, <1>5, <1>6, <1>8
<1>10. MO!CommonOffset(k) + commons[k].size = MO!CommonEnds[k]
  BY <1>5, <1>7
<1>11. a > 1 => MO!CommonOffset(k) % a = 0
  BY <1>2, <1>8
<1>12. CommonSits(k)
  BY <1>1, <1>6, <1>8, <1>9, <1>10 DEF CommonSits
<1> QED BY <1>11, <1>12

LEMMA CommonsApart ==
    ASSUME LayoutInv, NEW i \in 1 .. Len(commons), NEW j \in 1 .. Len(commons), i # j
    PROVE  Apart(MO!CommonOffset(i), commons[i].size, MO!CommonOffset(j), commons[j].size)
<1> DEFINE N == Len(commons)
           e == MO!CommonEnds
<1>1. N \in Nat
  BY SectionIs
<1>2. i - 1 \in 0 .. N /\ i \in 0 .. N /\ j - 1 \in 0 .. N /\ j \in 0 .. N
  BY <1>1
<1>3. (\A p, q \in 0 .. N : p <= q => e[p] <= e[q]) /\ \A p \in 0 .. N : e[p] \in Nat
  BY CommonsRise DEF Rises
<1>4. CommonSits(i) /\ CommonSits(j)
  BY CommonStands
<1>5. CASE i <= j - 1
  <2>1. e[i] <= e[j - 1] /\ e[i] \in Nat /\ e[j - 1] \in Nat
    BY <1>2, <1>3, <1>5
  <2>2. MO!CommonOffset(i) + commons[i].size = e[i] /\ e[j - 1] <= MO!CommonOffset(j) /\ MO!CommonOffset(j) \in Nat
    BY <1>4 DEF CommonSits
  <2>3. MO!CommonOffset(i) + commons[i].size <= MO!CommonOffset(j)
    BY <2>1, <2>2
  <2> QED BY <2>3 DEF Apart
<1>6. CASE j <= i - 1
  <2>1. e[j] <= e[i - 1] /\ e[j] \in Nat /\ e[i - 1] \in Nat
    BY <1>2, <1>3, <1>6
  <2>2. MO!CommonOffset(j) + commons[j].size = e[j] /\ e[i - 1] <= MO!CommonOffset(i) /\ MO!CommonOffset(i) \in Nat
    BY <1>4 DEF CommonSits
  <2>3. MO!CommonOffset(j) + commons[j].size <= MO!CommonOffset(i)
    BY <2>1, <2>2
  <2> QED BY <2>3 DEF Apart
<1>7. i <= j - 1 \/ j <= i - 1
  BY <1>1
<1> QED BY <1>5, <1>6, <1>7

\* No section reaches the common symbols, and none lies over the headers.
LEMMA SectionBetween ==
    ASSUME LayoutInv, NEW i \in MO!Present
    PROVE  HeadersEnd <= MO!Offset(i) /\ MO!Offset(i) + sections[i].size <= MO!Bss[MO!All]
           /\ MO!Offset(i) + sections[i].size <= MO!CommonsStart
<1>1. sections[i].size \in Nat /\ MO!Offset(i) \in Nat /\ Settles(i)
  BY SectionStands
<1>2. ASSUME NEW a \in Nat, NEW b \in Nat, Within(i, a, b), HeadersEnd <= a, b <= MO!Bss[MO!All]
      PROVE HeadersEnd <= MO!Offset(i) /\ MO!Offset(i) + sections[i].size <= MO!Bss[MO!All]
  BY <1>1, <1>2, EdgesAre DEF Within, Edges
<1>3. /\ MO!Text[0] \in Nat /\ MO!Text[MO!All] \in Nat /\ MO!RoStart \in Nat /\ MO!Rodata[MO!All] \in Nat
      /\ MO!DataStart \in Nat /\ MO!Data[MO!All] \in Nat /\ MO!Bss[MO!All] \in Nat /\ HeadersEnd \in Nat
      /\ MO!CommonsStart \in Nat /\ MO!Bss[MO!All] <= MO!CommonsStart
      /\ HeadersEnd <= MO!Text[0] /\ HeadersEnd <= MO!RoStart /\ HeadersEnd <= MO!DataStart /\ HeadersEnd <= MO!Data[MO!All]
      /\ MO!Text[MO!All] <= MO!Bss[MO!All] /\ MO!Rodata[MO!All] <= MO!Bss[MO!All] /\ MO!Data[MO!All] <= MO!Bss[MO!All]
      /\ MO!Bss[MO!All] <= MO!Bss[MO!All]
  BY EdgesAre DEF Edges
<1>4. HeadersEnd <= MO!Offset(i) /\ MO!Offset(i) + sections[i].size <= MO!Bss[MO!All]
  BY <1>1, <1>2, <1>3 DEF Settles
<1> QED BY <1>1, <1>3, <1>4

IsSection(e, i) == i \in MO!Present /\ e = <<"section", i, MO!Offset(i), sections[i].size, sections[i].align>>
IsCommon(e, k) ==
    k \in 1 .. Len(commons)
    /\ e = <<"common", k, MO!CommonOffset(k), commons[k].size, MO!Capped(commons[k].align)>>
AreHeaders(e) == e = <<"headers", 0, 0, HeadersEnd, 1>>
LEMMA ExtentIs ==
    ASSUME NEW e \in MO!Extents
    PROVE  (\E i : IsSection(e, i)) \/ (\E k : IsCommon(e, k)) \/ AreHeaders(e)
BY DEF MO!Extents, IsSection, IsCommon, AreHeaders, HeadersEnd

LEMMA SectionExtent ==
    ASSUME LayoutInv, NEW e, NEW i, IsSection(e, i)
    PROVE  /\ e[3] \in Nat /\ e[4] \in Nat /\ HeadersEnd <= e[3] /\ e[3] + e[4] <= MO!Bss[MO!All]
           /\ e[3] + e[4] <= MO!CommonsStart /\ (e[5] > 1 => e[3] % e[5] = 0)
<1>1. i \in MO!Present
  BY DEF IsSection
<1>2. e[3] = MO!Offset(i) /\ e[4] = sections[i].size /\ e[5] = sections[i].align
  BY DEF IsSection
<1>3. MO!Offset(i) \in Nat /\ sections[i].size \in Nat
      /\ (sections[i].align > 1 => MO!Offset(i) % sections[i].align = 0)
  BY <1>1, SectionStands
<1>4. HeadersEnd <= MO!Offset(i) /\ MO!Offset(i) + sections[i].size <= MO!Bss[MO!All]
      /\ MO!Offset(i) + sections[i].size <= MO!CommonsStart
  BY <1>1, SectionBetween
<1> QED BY <1>2, <1>3, <1>4

LEMMA CommonExtent ==
    ASSUME LayoutInv, NEW e, NEW k, IsCommon(e, k)
    PROVE  /\ e[3] \in Nat /\ e[4] \in Nat /\ HeadersEnd <= e[3] /\ MO!CommonsStart <= e[3]
           /\ (e[5] > 1 => e[3] % e[5] = 0)
           /\ e[3] + e[4] <= MO!CommonEnds[Len(commons)]
<1>1. k \in 1 .. Len(commons)
  BY DEF IsCommon
<1>2. e[3] = MO!CommonOffset(k) /\ e[4] = commons[k].size /\ e[5] = MO!Capped(commons[k].align)
  BY DEF IsCommon
<1>3. CommonSits(k) /\ (MO!Capped(commons[k].align) > 1 => MO!CommonOffset(k) % MO!Capped(commons[k].align) = 0)
  BY <1>1, CommonStands
<1>4. HeadersEnd <= MO!CommonsStart /\ HeadersEnd \in Nat /\ MO!CommonsStart \in Nat
  BY EdgesAre DEF Edges
<1>5. MO!CommonOffset(k) \in Nat /\ commons[k].size \in Nat /\ MO!CommonsStart <= MO!CommonOffset(k)
      /\ MO!CommonOffset(k) + commons[k].size <= MO!CommonEnds[Len(commons)]
  BY <1>3 DEF CommonSits
<1>6. HeadersEnd <= MO!CommonOffset(k)
  BY <1>4, <1>5
<1> QED BY <1>2, <1>3, <1>5, <1>6

LEMMA OverlapsNot == LayoutInv => MO!NothingOverlaps
<1> SUFFICES ASSUME LayoutInv PROVE MO!NothingOverlaps
  OBVIOUS
<1>1. HeadersEnd \in Nat /\ MO!CommonsStart \in Nat
  BY EdgesAre DEF Edges
<1>2. ASSUME NEW e \in MO!Extents, NEW f \in MO!Extents, e # f
      PROVE e[3] + e[4] <= f[3] \/ f[3] + f[4] <= e[3]
  <2>1. ASSUME NEW i, NEW j, IsSection(e, i), IsSection(f, j) PROVE Apart(e[3], e[4], f[3], f[4])
    <3>1. i \in MO!Present /\ j \in MO!Present /\ i # j
      BY <1>2, <2>1 DEF IsSection
    <3>2. e[3] = MO!Offset(i) /\ e[4] = sections[i].size /\ f[3] = MO!Offset(j) /\ f[4] = sections[j].size
      BY <2>1 DEF IsSection
    <3> QED BY <3>1, <3>2, SectionsApart
  <2>2. ASSUME NEW k, NEW l, IsCommon(e, k), IsCommon(f, l) PROVE Apart(e[3], e[4], f[3], f[4])
    <3>1. k \in 1 .. Len(commons) /\ l \in 1 .. Len(commons) /\ k # l
      BY <1>2, <2>2 DEF IsCommon
    <3>2. e[3] = MO!CommonOffset(k) /\ e[4] = commons[k].size /\ f[3] = MO!CommonOffset(l) /\ f[4] = commons[l].size
      BY <2>2 DEF IsCommon
    <3> QED BY <3>1, <3>2, CommonsApart
  <2>3. ASSUME NEW i, NEW k, IsSection(e, i), IsCommon(f, k) PROVE Apart(e[3], e[4], f[3], f[4])
    BY <1>1, <2>3, SectionExtent, CommonExtent DEF Apart
  <2>4. ASSUME NEW i, NEW k, IsSection(f, i), IsCommon(e, k) PROVE Apart(e[3], e[4], f[3], f[4])
    BY <1>1, <2>4, SectionExtent, CommonExtent DEF Apart
  <2>5. ASSUME AreHeaders(e), NEW i, IsSection(f, i) PROVE Apart(e[3], e[4], f[3], f[4])
    BY <1>1, <2>5, SectionExtent DEF Apart, AreHeaders
  <2>6. ASSUME AreHeaders(e), NEW k, IsCommon(f, k) PROVE Apart(e[3], e[4], f[3], f[4])
    BY <1>1, <2>6, CommonExtent DEF Apart, AreHeaders
  <2>7. ASSUME AreHeaders(f), NEW i, IsSection(e, i) PROVE Apart(e[3], e[4], f[3], f[4])
    BY <1>1, <2>7, SectionExtent DEF Apart, AreHeaders
  <2>8. ASSUME AreHeaders(f), NEW k, IsCommon(e, k) PROVE Apart(e[3], e[4], f[3], f[4])
    BY <1>1, <2>8, CommonExtent DEF Apart, AreHeaders
  <2>9. ~ (AreHeaders(e) /\ AreHeaders(f))
    BY <1>2 DEF AreHeaders
  <2>10. /\ (\E i : IsSection(e, i)) \/ (\E k : IsCommon(e, k)) \/ AreHeaders(e)
         /\ (\E i : IsSection(f, i)) \/ (\E k : IsCommon(f, k)) \/ AreHeaders(f)
    BY ExtentIs
  <2>11. Apart(e[3], e[4], f[3], f[4])
    BY <2>1, <2>2, <2>3, <2>4, <2>5, <2>6, <2>7, <2>8, <2>9, <2>10, Zenon
  <2> QED BY <2>11 DEF Apart
<1>3. ASSUME NEW e \in MO!Extents, e[5] > 1 PROVE e[3] % e[5] = 0
  <2>1. ASSUME NEW i, IsSection(e, i) PROVE e[3] % e[5] = 0
    BY <1>3, <2>1, SectionExtent
  <2>2. ASSUME NEW k, IsCommon(e, k) PROVE e[3] % e[5] = 0
    BY <1>3, <2>2, CommonExtent
  <2>3. ~ AreHeaders(e)
    BY <1>3 DEF AreHeaders
  <2> QED BY <2>1, <2>2, <2>3, ExtentIs
<1> QED BY <1>2, <1>3 DEF MO!NothingOverlaps

\* The page of a byte that comes before a page's first byte is an earlier one.
LEMMA PageBefore ==
    ASSUME NEW x \in Int, NEW y \in Int, NEW p \in Nat \ {0}, x < y, y % p = 0
    PROVE  x \div p < y \div p /\ x \div p \in Int /\ y \div p \in Int
<1> DEFINE a == x \div p
           b == y \div p
           r == x % p
<1>1. a \in Int /\ b \in Int /\ r \in 0 .. p - 1 /\ x = (p * a) + r /\ y = (p * b) + (y % p)
  OBVIOUS
<1>2. y = p * b
  <2> DEFINE q == p * b
  <2>1. q \in Int
    BY <1>1
  <2> HIDE DEF b, q
  <2>2. y = q + 0
    BY <1>1 DEF q
  <2> QED BY <2>1, <2>2 DEF q
<1> HIDE DEF a, b, r
<1>3. CASE a >= b
  <2> DEFINE d == a - b
             u == p * b
             w == p * d
             v == p * a
  <2>1. d \in Nat
    BY <1>1, <1>3
  <2>2. a = b + d
    BY <1>1
  <2> HIDE DEF d
  <2>3. u \in Int /\ w \in Nat /\ v = u + w
    BY <1>1, <2>1, <2>2
  <2>4. x = v + r /\ y = u
    BY <1>1, <1>2
  <2> HIDE DEF u, v, w
  <2> QED BY <1>1, <2>3, <2>4
<1>4. a < b
  BY <1>1, <1>3
<1> QED BY <1>1, <1>4 DEF a, b

PagesOf(low, mem) == low \div PageSize .. (low + mem - 1) \div PageSize
LEMMA PagesApart ==
    ASSUME NEW a \in Nat, NEW m \in Nat, NEW b \in Nat, NEW n \in Nat, a + m <= b, b % PageSize = 0
    PROVE  PagesOf(a, m) \cap PagesOf(b, n) = {}
<1>1. PageSize \in Nat \ {0}
  BY LayoutAssumption
<1>2. a + m - 1 \in Int /\ a + m - 1 < b /\ b + n - 1 \in Int
  OBVIOUS
<1>3. (a + m - 1) \div PageSize < b \div PageSize /\ (a + m - 1) \div PageSize \in Int /\ b \div PageSize \in Int
  BY <1>1, <1>2, PageBefore
<1>4. a \div PageSize \in Int /\ (b + n - 1) \div PageSize \in Int
  BY <1>1, <1>2
<1> DEFINE s == a \div PageSize
           t == (a + m - 1) \div PageSize
           u == b \div PageSize
           v == (b + n - 1) \div PageSize
<1>5. s \in Int /\ t \in Int /\ u \in Int /\ v \in Int /\ t < u
  BY <1>3, <1>4
<1> HIDE DEF s, t, u, v
<1>6. (s .. t) \cap (u .. v) = {}
  BY <1>5
<1> QED BY <1>6 DEF s, t, u, v, PagesOf

\* Where the memory of the image ends
LEMMA MemEndIs ==
    ASSUME LayoutInv
    PROVE  /\ MO!MemEnd \in Nat /\ MO!Bss[MO!All] <= MO!MemEnd /\ MO!Data[MO!All] <= MO!MemEnd
           /\ \A k \in 1 .. Len(commons) : commons[k].size > 0 => MO!CommonEnds[Len(commons)] <= MO!MemEnd
<1> DEFINE last == MO!CommonEnds[Len(commons)]
<1>1. /\ MO!Bss[MO!All] \in Nat /\ MO!CommonsStart \in Nat /\ MO!Bss[MO!All] <= MO!CommonsStart
      /\ MO!Data[MO!All] \in Nat /\ MO!Data[MO!All] <= MO!Bss[MO!All]
  BY EdgesAre DEF Edges
<1>2. last \in Nat
  <2>1. Len(commons) \in 0 .. Len(commons)
    BY SectionIs
  <2> QED BY <2>1, CommonsRise DEF Rises
<1> HIDE DEF last
<1>3. MO!MemEnd = IF last > MO!CommonsStart THEN last ELSE MO!Bss[MO!All]
  BY DEF MO!MemEnd, last
<1>4. MO!MemEnd \in Nat /\ MO!Bss[MO!All] <= MO!MemEnd
  BY <1>1, <1>2, <1>3
<1>5. ASSUME NEW k \in 1 .. Len(commons), commons[k].size > 0 PROVE last <= MO!MemEnd
  <2>1. commons[k].size \in Nat /\ MO!CommonOffset(k) \in Nat /\ MO!CommonsStart <= MO!CommonOffset(k)
        /\ MO!CommonOffset(k) + commons[k].size <= last
    BY CommonStands DEF CommonSits, last
  <2>2. last > MO!CommonsStart
    BY <1>1, <1>2, <1>5, <2>1
  <2> QED BY <1>2, <1>3, <2>2
<1> QED BY <1>1, <1>4, <1>5 DEF last

\* A segment and where it lies
IsText(g) == g = [at |-> 0, file |-> MO!Text[MO!All], mem |-> MO!Text[MO!All], kinds |-> {"text"}]
IsRodata(g) ==
    MO!HasRodata /\ g = [at |-> MO!RoStart, file |-> MO!Rodata[MO!All] - MO!RoStart,
                         mem |-> MO!Rodata[MO!All] - MO!RoStart, kinds |-> {"rodata"}]
IsRw(g) ==
    MO!HasRw /\ g = [at |-> MO!DataStart, file |-> MO!Data[MO!All] - MO!DataStart,
                     mem |-> MO!MemEnd - MO!DataStart, kinds |-> {"data", "bss"}]
LEMMA SegmentIs ==
    ASSUME NEW g \in MO!Segments
    PROVE  IsText(g) \/ IsRodata(g) \/ IsRw(g)
BY DEF MO!Segments, IsText, IsRodata, IsRw

\* A segment begins a page, and begins and ends in its place.
Spans(g, low, high) == g.at \in Nat /\ g.mem \in Nat /\ g.at % PageSize = 0 /\ g.at = low /\ g.at + g.mem = high
LEMMA SegmentSpans ==
    ASSUME LayoutInv, NEW g
    PROVE  /\ IsText(g) => Spans(g, 0, MO!Text[MO!All])
           /\ IsRodata(g) => Spans(g, MO!RoStart, MO!Rodata[MO!All])
           /\ IsRw(g) => Spans(g, MO!DataStart, MO!MemEnd)
<1>1. /\ MO!Text[MO!All] \in Nat /\ MO!RoStart \in Nat /\ MO!Rodata[MO!All] \in Nat /\ MO!DataStart \in Nat
      /\ MO!Data[MO!All] \in Nat /\ MO!RoStart <= MO!Rodata[MO!All] /\ MO!DataStart <= MO!Data[MO!All]
  BY EdgesAre DEF Edges
<1>2. MO!MemEnd \in Nat /\ MO!Data[MO!All] <= MO!MemEnd
  BY MemEndIs
<1>3. 0 % PageSize = 0
  BY LayoutAssumption
<1>4. (MO!HasRodata => MO!RoStart % PageSize = 0) /\ (MO!HasRw => MO!DataStart % PageSize = 0)
  BY PartsAre DEF Paged
<1>5. ASSUME IsText(g) PROVE Spans(g, 0, MO!Text[MO!All])
  <2>1. g.at = 0 /\ g.mem = MO!Text[MO!All]
    BY <1>5 DEF IsText
  <2> QED BY <1>1, <1>3, <2>1 DEF Spans
<1>6. ASSUME IsRodata(g) PROVE Spans(g, MO!RoStart, MO!Rodata[MO!All])
  <2>1. g.at = MO!RoStart /\ g.mem = MO!Rodata[MO!All] - MO!RoStart /\ MO!HasRodata
    BY <1>6 DEF IsRodata
  <2> QED BY <1>1, <1>4, <2>1 DEF Spans
<1>7. ASSUME IsRw(g) PROVE Spans(g, MO!DataStart, MO!MemEnd)
  <2>1. g.at = MO!DataStart /\ g.mem = MO!MemEnd - MO!DataStart /\ MO!HasRw
    BY <1>7 DEF IsRw
  <2>2. MO!DataStart <= MO!MemEnd
    BY <1>1, <1>2
  <2> QED BY <1>1, <1>2, <1>4, <2>1, <2>2 DEF Spans
<1> QED BY <1>5, <1>6, <1>7

LEMMA SpansApart ==
    ASSUME NEW g, NEW h, NEW a, NEW b \in Nat, NEW c \in Nat, NEW d, Spans(g, a, b), Spans(h, c, d), b <= c
    PROVE  PagesOf(g.at, g.mem) \cap PagesOf(h.at, h.mem) = {}
<1>1. g.at \in Nat /\ g.mem \in Nat /\ h.at \in Nat /\ h.mem \in Nat /\ h.at % PageSize = 0
  BY DEF Spans
<1>2. g.at + g.mem <= h.at
  BY DEF Spans
<1> QED BY <1>1, <1>2, PagesApart

LEMMA SegmentsApart ==
    ASSUME LayoutInv, NEW g \in MO!Segments, NEW h \in MO!Segments, g # h
    PROVE  g.at % PageSize = 0 /\ PagesOf(g.at, g.mem) \cap PagesOf(h.at, h.mem) = {}
<1>1. /\ MO!Text[MO!All] \in Nat /\ MO!RoStart \in Nat /\ MO!Rodata[MO!All] \in Nat /\ MO!DataStart \in Nat
      /\ MO!Text[MO!All] <= MO!RoStart /\ MO!Text[MO!All] <= MO!DataStart /\ MO!Rodata[MO!All] <= MO!DataStart
  BY EdgesAre DEF Edges
<1>2. ASSUME NEW x, NEW y, (IsText(x) /\ (IsRodata(y) \/ IsRw(y))) \/ (IsRodata(x) /\ IsRw(y))
      PROVE PagesOf(x.at, x.mem) \cap PagesOf(y.at, y.mem) = {}
  <2>1. CASE IsText(x) /\ IsRodata(y)
    <3>1. Spans(x, 0, MO!Text[MO!All]) /\ Spans(y, MO!RoStart, MO!Rodata[MO!All])
      BY <2>1, SegmentSpans
    <3> QED BY <1>1, <3>1, SpansApart
  <2>2. CASE IsText(x) /\ IsRw(y)
    <3>1. Spans(x, 0, MO!Text[MO!All]) /\ Spans(y, MO!DataStart, MO!MemEnd)
      BY <2>2, SegmentSpans
    <3> QED BY <1>1, <3>1, SpansApart
  <2>3. CASE IsRodata(x) /\ IsRw(y)
    <3>1. Spans(x, MO!RoStart, MO!Rodata[MO!All]) /\ Spans(y, MO!DataStart, MO!MemEnd)
      BY <2>3, SegmentSpans
    <3> QED BY <1>1, <3>1, SpansApart
  <2> QED BY <1>2, <2>1, <2>2, <2>3
<1>3. ~ (IsText(g) /\ IsText(h)) /\ ~ (IsRodata(g) /\ IsRodata(h)) /\ ~ (IsRw(g) /\ IsRw(h))
  BY DEF IsText, IsRodata, IsRw
<1>4. (IsText(g) \/ IsRodata(g) \/ IsRw(g)) /\ (IsText(h) \/ IsRodata(h) \/ IsRw(h))
  BY SegmentIs
<1>5. g.at % PageSize = 0
  BY <1>4, SegmentSpans DEF Spans
<1>6. PagesOf(g.at, g.mem) \cap PagesOf(h.at, h.mem) = {} \/ PagesOf(h.at, h.mem) \cap PagesOf(g.at, g.mem) = {}
  BY <1>2, <1>3, <1>4, Zenon
<1> QED BY <1>5, <1>6

\* The section is in the file's part of the segment of its kind, and the bss behind that.
LEMMA SectionInSegment ==
    ASSUME LayoutInv, NEW g \in MO!Segments, NEW i \in 1 .. Len(sections),
           MO!Kind(sections[i]) \in g.kinds, sections[i].size > 0
    PROVE  /\ MO!Offset(i) >= g.at /\ MO!Offset(i) + sections[i].size <= g.at + g.mem
           /\ MO!Kind(sections[i]) # "bss" => MO!Offset(i) + sections[i].size <= g.at + g.file
           /\ MO!Kind(sections[i]) = "bss" => MO!Offset(i) >= g.at + g.file
<1>1. /\ MO!Text[0] \in Nat /\ MO!Text[MO!All] \in Nat /\ MO!RoStart \in Nat /\ MO!Rodata[MO!All] \in Nat
      /\ MO!DataStart \in Nat /\ MO!Data[MO!All] \in Nat /\ MO!Bss[MO!All] \in Nat
      /\ MO!DataStart <= MO!Data[MO!All] /\ MO!Data[MO!All] <= MO!Bss[MO!All]
  BY EdgesAre DEF Edges
<1>2. MO!MemEnd \in Nat /\ MO!Bss[MO!All] <= MO!MemEnd
  BY MemEndIs
<1>3. ASSUME NEW kind, kind \in {"text", "rodata", "data", "bss"}, MO!Kind(sections[i]) = kind
      PROVE i \in MO!Of(kind) /\ i \in MO!Present
  BY <1>3 DEF MO!Of, MO!Present
<1>4. CASE IsText(g)
  <2>1. g.at = 0 /\ g.mem = MO!Text[MO!All] /\ g.file = MO!Text[MO!All] /\ MO!Kind(sections[i]) = "text"
    BY <1>4 DEF IsText
  <2>2. i \in MO!Of("text") /\ i \in MO!Present
    BY <1>3, <2>1
  <2>3. Within(i, MO!Text[0], MO!Text[MO!All]) /\ MO!Offset(i) \in Nat /\ sections[i].size \in Nat
    BY <2>1, <2>2, SectionStands DEF Settles, MO!Of
  <2>4. MO!Offset(i) + sections[i].size <= MO!Text[MO!All]
    BY <2>3 DEF Within
  <2> QED BY <1>1, <2>1, <2>3, <2>4
<1>5. CASE IsRodata(g)
  <2>1. g.at = MO!RoStart /\ g.mem = MO!Rodata[MO!All] - MO!RoStart /\ g.file = MO!Rodata[MO!All] - MO!RoStart
        /\ MO!Kind(sections[i]) = "rodata"
    BY <1>5 DEF IsRodata
  <2>2. i \in MO!Of("rodata") /\ i \in MO!Present
    BY <1>3, <2>1
  <2>3. Within(i, MO!RoStart, MO!Rodata[MO!All]) /\ MO!Offset(i) \in Nat /\ sections[i].size \in Nat
    BY <2>1, <2>2, SectionStands DEF Settles, MO!Of
  <2>4. MO!RoStart <= MO!Offset(i) /\ MO!Offset(i) + sections[i].size <= MO!Rodata[MO!All]
    BY <2>3 DEF Within
  <2>5. g.at + g.mem = MO!Rodata[MO!All] /\ g.at + g.file = MO!Rodata[MO!All]
    BY <1>1, <2>1
  <2> QED BY <2>1, <2>3, <2>4, <2>5
<1>6. CASE IsRw(g)
  <2>1. g.at = MO!DataStart /\ g.mem = MO!MemEnd - MO!DataStart /\ g.file = MO!Data[MO!All] - MO!DataStart
        /\ MO!Kind(sections[i]) \in {"data", "bss"}
    BY <1>6 DEF IsRw
  <2>2. g.at + g.mem = MO!MemEnd /\ g.at + g.file = MO!Data[MO!All]
    BY <1>1, <1>2, <2>1
  <2>3. CASE MO!Kind(sections[i]) = "data"
    <3>1. i \in MO!Of("data") /\ i \in MO!Present
      BY <1>3, <2>3
    <3>2. Within(i, MO!DataStart, MO!Data[MO!All]) /\ MO!Offset(i) \in Nat /\ sections[i].size \in Nat
      BY <2>3, <3>1, SectionStands DEF Settles, MO!Of
    <3>3. MO!DataStart <= MO!Offset(i) /\ MO!Offset(i) + sections[i].size <= MO!Data[MO!All]
      BY <3>2 DEF Within
    <3>4. MO!Offset(i) + sections[i].size <= MO!MemEnd
      BY <1>1, <1>2, <3>2, <3>3
    <3> QED BY <2>1, <2>2, <2>3, <3>2, <3>3, <3>4
  <2>4. CASE MO!Kind(sections[i]) = "bss"
    <3>1. i \in MO!Of("bss") /\ i \in MO!Present
      BY <1>3, <2>4
    <3>2. Within(i, MO!Data[MO!All], MO!Bss[MO!All]) /\ MO!Offset(i) \in Nat /\ sections[i].size \in Nat
      BY <2>4, <3>1, SectionStands DEF Settles, MO!Of
    <3>3. MO!Data[MO!All] <= MO!Offset(i) /\ MO!Offset(i) + sections[i].size <= MO!Bss[MO!All]
      BY <3>2 DEF Within
    <3>4. MO!DataStart <= MO!Offset(i) /\ MO!Offset(i) + sections[i].size <= MO!MemEnd
      BY <1>1, <1>2, <3>2, <3>3
    <3> QED BY <2>1, <2>2, <2>4, <3>2, <3>3, <3>4
  <2> QED BY <2>1, <2>3, <2>4
<1> QED BY <1>4, <1>5, <1>6, SegmentIs

\* What is copied is in the file.
LEMMA FileHolds ==
    ASSUME LayoutInv, NEW i \in MO!Copied
    PROVE  /\ i \in MO!Present /\ MO!Kind(sections[i]) # "bss" /\ MO!Offset(i) + sections[i].size <= MO!FileSize
<1>1. i \in 1 .. Len(sections) /\ MO!Kind(sections[i]) # "skip" /\ ~sections[i].nobits /\ sections[i].size > 0
  BY DEF MO!Copied
<1>2. MO!Kind(sections[i]) \in {"skip", "text", "rodata", "data", "bss"} /\ MO!Kind(sections[i]) # "bss"
  BY <1>1 DEF MO!Kind
<1>3. i \in MO!Of(MO!Kind(sections[i])) /\ i \in MO!Present
  BY <1>1, <1>2 DEF MO!Of, MO!Present
<1>4. /\ MO!Text[0] \in Nat /\ MO!Text[MO!All] \in Nat /\ MO!RoStart \in Nat /\ MO!Rodata[MO!All] \in Nat
      /\ MO!DataStart \in Nat /\ MO!Data[MO!All] \in Nat
      /\ MO!Text[MO!All] <= MO!Rodata[MO!All] /\ MO!Text[MO!All] <= MO!Data[MO!All]
      /\ MO!Rodata[MO!All] <= MO!Data[MO!All]
  BY EdgesAre DEF Edges
<1>5. Settles(i) /\ MO!Offset(i) \in Nat /\ sections[i].size \in Nat
  BY <1>3, SectionStands
<1>6. CASE MO!Kind(sections[i]) = "text"
  <2>1. MO!Offset(i) + sections[i].size <= MO!Text[MO!All]
    BY <1>5, <1>6 DEF Settles, Sits, Within
  <2> QED BY <1>2, <1>3, <1>4, <1>5, <2>1 DEF MO!FileSize
<1>7. CASE MO!Kind(sections[i]) = "rodata"
  <2>1. MO!Offset(i) + sections[i].size <= MO!Rodata[MO!All]
    BY <1>5, <1>7 DEF Settles, Sits, Within
  <2>2. MO!HasRodata
    BY <1>3, <1>7 DEF MO!HasRodata
  <2> QED BY <1>2, <1>3, <1>4, <1>5, <2>1, <2>2 DEF MO!FileSize
<1>8. CASE MO!Kind(sections[i]) = "data"
  <2>1. MO!Offset(i) + sections[i].size <= MO!Data[MO!All]
    BY <1>5, <1>8 DEF Settles, Sits, Within
  <2>2. MO!HasRw
    BY <1>3, <1>8 DEF MO!HasRw
  <2> QED BY <1>2, <1>3, <1>4, <1>5, <2>1, <2>2 DEF MO!FileSize
<1> QED BY <1>1, <1>2, <1>6, <1>7, <1>8

LEMMA SegmentsDoHold == LayoutInv => MO!SegmentsHold
<1> SUFFICES ASSUME LayoutInv PROVE MO!SegmentsHold
  OBVIOUS
<1>1. ASSUME NEW g \in MO!Segments, NEW h \in MO!Segments, g # h
      PROVE g.at % PageSize = 0 /\ PagesOf(g.at, g.mem) \cap PagesOf(h.at, h.mem) = {}
  BY <1>1, SegmentsApart
<1>2. ASSUME NEW g \in MO!Segments, NEW i \in 1 .. Len(sections),
             MO!Kind(sections[i]) \in g.kinds, sections[i].size > 0
      PROVE /\ MO!Offset(i) >= g.at /\ MO!Offset(i) + sections[i].size <= g.at + g.mem
            /\ i \in MO!Copied => MO!Offset(i) + sections[i].size <= g.at + g.file
            /\ MO!Kind(sections[i]) = "bss" => MO!Offset(i) >= g.at + g.file
  BY <1>2, SectionInSegment, FileHolds
<1>3. \A i \in MO!Copied : MO!Offset(i) + sections[i].size <= MO!FileSize
  BY FileHolds
<1>4. \A g \in MO!Segments, h \in MO!Segments : g # h =>
        g.at % PageSize = 0 /\ PagesOf(g.at, g.mem) \cap PagesOf(h.at, h.mem) = {}
  BY <1>1
<1> QED BY <1>2, <1>3, <1>4 DEF MO!SegmentsHold, PagesOf

LEMMA EndsAreRight == LayoutInv => MO!EndsRight
<1> SUFFICES ASSUME LayoutInv PROVE MO!EndsRight
  OBVIOUS
<1> DEFINE mark == MO!LinkerValues.edata
           stop == MO!LinkerValues.end
<1>1. mark = MO!FileSize /\ stop = IF MO!HasRw THEN MO!MemEnd ELSE MO!FileSize
  BY DEF MO!LinkerValues
<1> HIDE DEF mark, stop
<1>2. /\ HeadersEnd \in Nat /\ MO!Text[0] \in Nat /\ MO!Text[MO!All] \in Nat /\ MO!RoStart \in Nat
      /\ MO!Rodata[MO!All] \in Nat /\ MO!DataStart \in Nat /\ MO!Data[MO!All] \in Nat /\ MO!Bss[MO!All] \in Nat
      /\ MO!CommonsStart \in Nat
      /\ HeadersEnd <= MO!Text[MO!All] /\ MO!Text[MO!All] <= MO!Rodata[MO!All] /\ MO!Rodata[MO!All] <= MO!Data[MO!All]
      /\ MO!Data[MO!All] <= MO!Bss[MO!All] /\ MO!Bss[MO!All] <= MO!CommonsStart
  BY EdgesAre DEF Edges
<1>3. MO!FileSize \in Nat /\ HeadersEnd <= MO!FileSize /\ MO!FileSize <= MO!Data[MO!All]
  BY <1>2 DEF MO!FileSize
<1>4. MO!MemEnd \in Nat /\ MO!Bss[MO!All] <= MO!MemEnd
  BY MemEndIs
<1>5. stop \in Nat /\ MO!FileSize <= stop /\ (MO!HasRw => MO!MemEnd <= stop)
  BY <1>1, <1>2, <1>3, <1>4
<1>6. ASSUME NEW i \in MO!Present PROVE MO!Offset(i) + sections[i].size <= stop
  <2>1. i \in 1 .. Len(sections) /\ Settles(i) /\ MO!Offset(i) \in Nat /\ sections[i].size \in Nat
        /\ MO!Offset(i) + sections[i].size <= MO!Bss[MO!All]
    BY SectionStands, SectionBetween
  <2>2. CASE MO!HasRw
    BY <1>2, <1>4, <1>5, <2>1, <2>2
  <2>3. CASE ~MO!HasRw
    <3>1. i \notin MO!Of("data") /\ i \notin MO!Of("bss")
      BY <2>3 DEF MO!HasRw
    <3>2. CASE i \in MO!Of("text") /\ Within(i, MO!Text[0], MO!Text[MO!All])
      <4>1. MO!Text[MO!All] <= MO!FileSize
        BY <1>2 DEF MO!FileSize
      <4>2. MO!Offset(i) + sections[i].size <= MO!Text[MO!All]
        BY <3>2 DEF Within
      <4> QED BY <1>2, <1>3, <1>5, <2>1, <4>1, <4>2
    <3>3. CASE i \in MO!Of("rodata") /\ Within(i, MO!RoStart, MO!Rodata[MO!All])
      <4>1. MO!FileSize = MO!Rodata[MO!All]
        BY <2>3, <3>3 DEF MO!FileSize, MO!HasRodata
      <4>2. MO!Offset(i) + sections[i].size <= MO!Rodata[MO!All]
        BY <3>3 DEF Within
      <4> QED BY <1>2, <1>3, <1>5, <2>1, <4>1, <4>2
    <3> QED BY <2>1, <3>1, <3>2, <3>3 DEF Settles
  <2> QED BY <2>2, <2>3
<1>7. ASSUME NEW e \in MO!Extents, e[4] > 0 PROVE e[3] + e[4] <= stop
  <2>1. ASSUME NEW i, IsSection(e, i) PROVE e[3] + e[4] <= stop
    <3>1. i \in MO!Present /\ e[3] = MO!Offset(i) /\ e[4] = sections[i].size
      BY <2>1 DEF IsSection
    <3> QED BY <1>6, <3>1
  <2>2. ASSUME NEW k, IsCommon(e, k) PROVE e[3] + e[4] <= stop
    <3>1. k \in 1 .. Len(commons) /\ e[3] = MO!CommonOffset(k) /\ e[4] = commons[k].size
      BY <2>2 DEF IsCommon
    <3>2. e[3] \in Nat /\ e[4] \in Nat /\ e[3] + e[4] <= MO!CommonEnds[Len(commons)]
      BY <2>2, CommonExtent
    <3>3. MO!CommonEnds[Len(commons)] <= MO!MemEnd
      BY <1>7, <3>1, MemEndIs
    <3>4. MO!CommonEnds[Len(commons)] \in Nat
      BY <3>1, CommonStands DEF CommonSits
    <3>5. commons # <<>>
      BY <3>1
    <3>6. MO!HasRw
      BY <3>5 DEF MO!HasRw
    <3> QED BY <1>4, <1>5, <3>2, <3>3, <3>4, <3>6
  <2>3. AreHeaders(e) => e[3] + e[4] <= stop
    BY <1>2, <1>3, <1>5 DEF AreHeaders
  <2> QED BY <2>1, <2>2, <2>3, ExtentIs
<1>8. ASSUME NEW i \in MO!Of("bss") PROVE MO!Offset(i) >= mark
  <2>1. i \in MO!Present /\ MO!Kind(sections[i]) = "bss"
    BY DEF MO!Present, MO!Of
  <2>2. MO!Offset(i) \in Nat /\ MO!Data[MO!All] <= MO!Offset(i)
    BY <2>1, SectionStands DEF Settles, Sits, Within
  <2> QED BY <1>1, <1>2, <1>3, <2>2
<1>9. ASSUME NEW k \in 1 .. Len(commons) PROVE MO!CommonOffset(k) >= mark
  <2>1. MO!CommonOffset(k) \in Nat /\ MO!CommonsStart <= MO!CommonOffset(k)
    BY CommonStands DEF CommonSits
  <2> QED BY <1>1, <1>2, <1>3, <2>1
<1>10. \A i \in MO!Copied : MO!Offset(i) + sections[i].size <= mark
  BY <1>1, FileHolds
<1> QED BY <1>7, <1>8, <1>9, <1>10 DEF MO!EndsRight, mark, stop

LEMMA LayoutIsRight == LayoutInv => MO!NothingOverlaps /\ MO!SegmentsHold /\ MO!EndsRight
BY OverlapsNot, SegmentsDoHold, EndsAreRight

-----------------------------------------------------------------------------
(* Relocations *)

RelocInv == MR!RelocationsExact /\ MR!RelaxedRight

\* Remainders of what is less than a modulus away from 0
LEMMA SmallRemainders ==
    ASSUME NEW w \in Nat \ {0}, NEW v \in Int
    PROVE /\ v % w \in 0 .. w - 1
          /\ v >= 0 /\ v < w => v % w = v
          /\ v < 0 /\ v >= -w => v % w = v + w
<1>1. v % w \in 0 .. w - 1
  OBVIOUS
<1>2. v >= 0 /\ v < w => v % w = v
  OBVIOUS
<1>3. v < 0 /\ v >= -w => v % w = v + w
  OBVIOUS
<1> QED BY <1>1, <1>2, <1>3

\* A value that is stored in a field and read with its sign is the value again.
LEMMA SignedRoundTrip ==
    ASSUME NEW x \in Int, MR!FitsSigned(MR!Signed(x))
    PROVE MR!SignExtended(MR!Signed(x) % Field) = MR!Unsigned(x)
<1> DEFINE v == MR!Signed(x)
<1> USE RelocAssumption
<1>1. x % Word \in 0 .. Word - 1
  BY SmallRemainders
<1>2. v \in Int /\ (v = x % Word \/ (v = (x % Word) - Word /\ v < 0))
  BY <1>1 DEF MR!Signed
<1>3. v >= -(Field \div 2) /\ v < Field \div 2
  BY DEF MR!FitsSigned
<1>4. Field \div 2 \in Nat /\ 2 * (Field \div 2) <= Field /\ Field \div 2 < Field
  OBVIOUS
<1> HIDE DEF v
<1>5. CASE v >= 0
  <2>1. v % Field = v
    BY <1>2, <1>3, <1>4, <1>5, SmallRemainders
  <2> QED BY <1>1, <1>2, <1>3, <1>4, <1>5, <2>1 DEF MR!SignExtended, MR!Unsigned, v
<1>6. CASE v < 0
  <2>1. v = (x % Word) - Word
    BY <1>1, <1>2, <1>6
  <2>2. v % Field = v + Field
    <3>1. v >= -Field
      BY <1>2, <1>3, <1>4
    <3> QED BY <1>2, <1>6, <3>1, SmallRemainders
  <2>3. v + Field >= Field \div 2 /\ (v + Field) - Field = v
    BY <1>2, <1>3, <1>4
  <2>4. MR!SignExtended(v % Field) = v % Word
    BY <2>2, <2>3 DEF MR!SignExtended, MR!Unsigned
  <2>5. v >= -Word
    BY <1>1, <2>1
  <2>6. v % Word = v + Word
    BY <1>2, <1>6, <2>5, SmallRemainders
  <2> QED BY <1>1, <2>1, <2>4, <2>6 DEF MR!Unsigned, v
<1> QED BY <1>2, <1>5, <1>6

LEMMA UnsignedRoundTrip ==
    ASSUME NEW x \in Int, MR!FitsUnsigned(MR!Signed(x))
    PROVE MR!Signed(x) % Field = MR!Unsigned(x)
<1> DEFINE v == MR!Signed(x)
<1> USE RelocAssumption
<1>1. x % Word \in 0 .. Word - 1
  BY SmallRemainders
<1>2. v \in Int /\ (v = x % Word \/ (v = (x % Word) - Word /\ v < 0))
  BY <1>1 DEF MR!Signed
<1>3. v >= 0 /\ v < Field
  BY DEF MR!FitsUnsigned
<1> HIDE DEF v
<1>4. v % Field = v /\ v = x % Word
  BY <1>2, <1>3, SmallRemainders
<1> QED BY <1>4 DEF MR!Unsigned, v

LEMMA RelocInit == MR!Init => RelocInv
BY DEF MR!Init, RelocInv, MR!RelocationsExact, MR!RelaxedRight, MR!None

LEMMA RelocStep == ASSUME MR!Next PROVE RelocInv'
<1> PICK t \in MR!Types, s \in Addresses, a \in Addends, p \in Addresses, c \in MR!Codes :
        MR!Patch([type |-> t, s |-> s, a |-> a, p |-> p, code |-> c])
  BY DEF MR!Next
<1> DEFINE r == [type |-> t, s |-> s, a |-> a, p |-> p, code |-> c]
           bad == (t = "GOTPCREL" /\ ~ MR!Relaxable(c)) \/ ~ MR!Fits(r)
<1>1. /\ relocation' = r /\ (refused' <=> bad)
      /\ field' = IF bad THEN -1 ELSE IF t \in {"64", "PC64", "SIZE64"} THEN MR!Value(r) ELSE MR!Value(r) % Field
      /\ opcode' = IF t = "GOTPCREL" THEN MR!Relaxed(c) ELSE c
  BY DEF MR!Patch
<1>2. r.type = t /\ r.s = s /\ r.a = a /\ r.p = p /\ r.code = c
  OBVIOUS
<1>3. s + a \in Int /\ s + a - p \in Int /\ s + a - 0 = s + a
  BY RelocAssumption
<1> HIDE DEF r
<1>4. MR!RelaxedRight'
  <2> SUFFICES ASSUME relocation'.type = "GOTPCREL", ~ refused'
               PROVE <<relocation'.code, opcode'>> \in {<<"mov", "lea">>, <<"call", "call direct">>, <<"jmp", "jmp direct">>}
    BY DEF MR!RelaxedRight
  <2>1. t = "GOTPCREL" /\ c \in {"mov", "call", "jmp"} /\ opcode' = MR!Relaxed(c) /\ relocation'.code = c
    BY <1>1, <1>2 DEF MR!Relaxable
  <2> QED BY <2>1 DEF MR!Relaxed
<1>5. MR!RelocationsExact'
  <2> SUFFICES ASSUME field' >= 0 PROVE MR!RelocationsExact'
    BY DEF MR!RelocationsExact
  <2>1. ~ bad /\ MR!Fits(r)
    BY <1>1
  <2>2. CASE t \in {"64", "SIZE64"}
    <3>1. field' = MR!Unsigned(s + a)
      BY <1>1, <1>2, <2>1, <2>2 DEF MR!Value
    <3> QED BY <1>1, <1>2, <1>3, <2>2, <3>1 DEF MR!RelocationsExact
  <2>3. CASE t = "PC64"
    <3>1. field' = MR!Unsigned(s + a - p)
      BY <1>1, <1>2, <2>1, <2>3 DEF MR!Value
    <3> QED BY <1>1, <1>2, <2>3, <3>1 DEF MR!RelocationsExact
  <2>4. CASE t \in {"PC", "GOTPCREL"}
    <3>1. MR!Value(r) = MR!Signed(s + a - p) /\ MR!FitsSigned(MR!Value(r))
      BY <1>2, <2>1, <2>4 DEF MR!Value, MR!Fits
    <3>2. MR!SignExtended(field') = MR!Unsigned(s + a - p)
      BY <1>1, <1>3, <2>1, <2>4, <3>1, SignedRoundTrip
    <3> QED BY <1>1, <1>2, <2>4, <3>2 DEF MR!RelocationsExact
  <2>5. CASE t = "ABSS"
    <3>1. MR!Value(r) = MR!Signed(s + a) /\ MR!FitsSigned(MR!Value(r))
      BY <1>2, <2>1, <2>5 DEF MR!Value, MR!Fits
    <3>2. MR!SignExtended(field') = MR!Unsigned(s + a)
      BY <1>1, <1>3, <2>1, <2>5, <3>1, SignedRoundTrip
    <3> QED BY <1>1, <1>2, <1>3, <2>5, <3>2 DEF MR!RelocationsExact
  <2>6. CASE t \in {"ABS", "SIZE"}
    <3>1. MR!Value(r) = MR!Signed(s + a) /\ MR!FitsUnsigned(MR!Value(r))
      BY <1>2, <2>1, <2>6 DEF MR!Value, MR!Fits
    <3>2. field' = MR!Unsigned(s + a)
      BY <1>1, <1>3, <2>1, <2>6, <3>1, UnsignedRoundTrip
    <3> QED BY <1>1, <1>2, <1>3, <2>6, <3>2 DEF MR!RelocationsExact
  <2>7. CASE t = "OTHER"
    BY <1>2, <2>1, <2>7 DEF MR!Fits
  <2> QED BY <2>2, <2>3, <2>4, <2>5, <2>6, <2>7 DEF MR!Types
<1> QED BY <1>4, <1>5 DEF RelocInv

LEMMA RelocStays == ASSUME RelocInv, UNCHANGED relocVars PROVE RelocInv'
BY DEF RelocInv, relocVars, MR!RelocationsExact, MR!RelaxedRight

-----------------------------------------------------------------------------
(* Any of these tools *)

GuiInv == RanalInv /\ FrameInv /\ BridgeInv /\ LauncherInv /\ SeatInv /\ DmabufInv /\ PositionerInv

guiVars == <<ranalVars, frameVars, wlbridgeVars, launcherVars, wlseatVars, dmabufVars, positionerVars>>

\* A part that does not run keeps its invariant.
LEMMA GuiStays == ASSUME GuiInv, UNCHANGED guiVars PROVE GuiInv'
BY RanalStays, FrameStays, BridgeStays, LauncherStays, SeatStays, DmabufStays, PositionerStays DEF GuiInv, guiVars

LEMMA GuiInit == Init => GuiInv
BY RanalInit, FrameInit, BridgeInit, LauncherInit, SeatInit, DmabufInit, PositionerInit DEF Init, GuiInv

LEMMA GuiStep == ASSUME GuiInv, [Next]_vars PROVE GuiInv'
<1>1. CASE R!Next /\ UNCHANGED <<frameVars, wlbridgeVars, launcherVars, wlseatVars, dmabufVars, positionerVars>>
  BY <1>1, RanalStep, FrameStays, BridgeStays, LauncherStays, SeatStays, DmabufStays, PositionerStays DEF GuiInv
<1>2. CASE F!Next /\ UNCHANGED <<ranalVars, wlbridgeVars, launcherVars, wlseatVars, dmabufVars, positionerVars>>
  BY <1>2, FrameStep, RanalStays, BridgeStays, LauncherStays, SeatStays, DmabufStays, PositionerStays DEF GuiInv
<1>3. CASE B!Next /\ UNCHANGED <<ranalVars, frameVars, launcherVars, wlseatVars, dmabufVars, positionerVars>>
  BY <1>3, BridgeStep, RanalStays, FrameStays, LauncherStays, SeatStays, DmabufStays, PositionerStays DEF GuiInv
<1>4. CASE L!Next /\ UNCHANGED <<ranalVars, frameVars, wlbridgeVars, wlseatVars, dmabufVars, positionerVars>>
  BY <1>4, LauncherStep, RanalStays, FrameStays, BridgeStays, SeatStays, DmabufStays, PositionerStays DEF GuiInv
<1>5. CASE S!Next /\ UNCHANGED <<ranalVars, frameVars, wlbridgeVars, launcherVars, dmabufVars, positionerVars>>
  BY <1>5, SeatStep, RanalStays, FrameStays, BridgeStays, LauncherStays, DmabufStays, PositionerStays DEF GuiInv
<1>6. CASE D!Next /\ UNCHANGED <<ranalVars, frameVars, wlbridgeVars, launcherVars, wlseatVars, positionerVars>>
  BY <1>6, DmabufStep, RanalStays, FrameStays, BridgeStays, LauncherStays, SeatStays, PositionerStays DEF GuiInv
<1>7. CASE P!Next /\ UNCHANGED <<ranalVars, frameVars, wlbridgeVars, launcherVars, wlseatVars, dmabufVars>>
  BY <1>7, PositionerStep, RanalStays, FrameStays, BridgeStays, LauncherStays, SeatStays, DmabufStays DEF GuiInv
<1>8. CASE UNCHANGED guiVars
  BY <1>8, GuiStays
<1>9. Next \/ UNCHANGED vars
  OBVIOUS
<1> QED BY <1>1, <1>2, <1>3, <1>4, <1>5, <1>6, <1>7, <1>8, <1>9 DEF Next, vars, guiVars

GuiTypes ==
    /\ RanalTree /\ RanalRest /\ FrameTypes /\ BridgeRest /\ SeatKeys /\ DmabufRest /\ PositionerRest
    /\ termed \subseteq {"bridge", "app"}

LEMMA GuiTypesStay == ASSUME GuiTypes, UNCHANGED guiVars PROVE GuiTypes'
<1>1. termed' = termed
  BY DEF guiVars, launcherVars
<1> QED BY <1>1, RanalTypesHold, FrameTypesHold, BridgeRestHolds, SeatKeysHold, DmabufRestHolds, PositionerRestHolds
        DEF GuiTypes, guiVars

LEMMA GuiTypesInit == Init => GuiTypes
<1>1. L!Init => termed = {}
  BY DEF L!Init
<1> QED BY <1>1, RanalTypesHold, FrameTypesHold, BridgeRestHolds, SeatKeysHold, DmabufRestHolds, PositionerRestHolds
        DEF Init, GuiTypes

LEMMA GuiTypesStep == ASSUME GuiInv, GuiTypes, [Next]_vars PROVE GuiTypes'
<1>0. UNCHANGED launcherVars => UNCHANGED termed
  BY DEF launcherVars
<1>1. CASE R!Next /\ UNCHANGED <<frameVars, wlbridgeVars, launcherVars, wlseatVars, dmabufVars, positionerVars>>
  <2>1. RanalTree' /\ RanalRest'
    BY <1>1, RanalTreeStep, RanalRestStep DEF GuiTypes
  <2> QED BY <1>0, <1>1, <2>1, FrameTypesHold, BridgeRestHolds, SeatKeysHold, DmabufRestHolds, PositionerRestHolds
          DEF GuiTypes
<1>2. CASE F!Next /\ UNCHANGED <<ranalVars, wlbridgeVars, launcherVars, wlseatVars, dmabufVars, positionerVars>>
  <2>1. FrameTypes'
    BY <1>2, FrameTypesStep DEF GuiTypes
  <2> QED BY <1>0, <1>2, <2>1, RanalTypesHold, BridgeRestHolds, SeatKeysHold, DmabufRestHolds, PositionerRestHolds
          DEF GuiTypes
<1>3. CASE B!Next /\ UNCHANGED <<ranalVars, frameVars, launcherVars, wlseatVars, dmabufVars, positionerVars>>
  <2>1. BridgeRest'
    BY <1>3, BridgeRestStep DEF GuiInv, BridgeInv, GuiTypes
  <2> QED BY <1>0, <1>3, <2>1, RanalTypesHold, FrameTypesHold, SeatKeysHold, DmabufRestHolds, PositionerRestHolds
          DEF GuiTypes
<1>4. CASE L!Next /\ UNCHANGED <<ranalVars, frameVars, wlbridgeVars, wlseatVars, dmabufVars, positionerVars>>
  <2>1. termed' \subseteq {"bridge", "app"}
    BY <1>4, TermedStep DEF GuiTypes
  <2> QED BY <1>4, <2>1, RanalTypesHold, FrameTypesHold, BridgeRestHolds, SeatKeysHold, DmabufRestHolds,
             PositionerRestHolds DEF GuiTypes
<1>5. CASE S!Next /\ UNCHANGED <<ranalVars, frameVars, wlbridgeVars, launcherVars, dmabufVars, positionerVars>>
  <2>1. SeatKeys'
    BY <1>5, SeatKeysStep DEF GuiTypes
  <2> QED BY <1>0, <1>5, <2>1, RanalTypesHold, FrameTypesHold, BridgeRestHolds, DmabufRestHolds, PositionerRestHolds
          DEF GuiTypes
<1>6. CASE D!Next /\ UNCHANGED <<ranalVars, frameVars, wlbridgeVars, launcherVars, wlseatVars, positionerVars>>
  <2>1. DmabufRest'
    BY <1>6, DmabufRestStep DEF GuiInv, GuiTypes
  <2> QED BY <1>0, <1>6, <2>1, RanalTypesHold, FrameTypesHold, BridgeRestHolds, SeatKeysHold, PositionerRestHolds
          DEF GuiTypes
<1>7. CASE P!Next /\ UNCHANGED <<ranalVars, frameVars, wlbridgeVars, launcherVars, wlseatVars, dmabufVars>>
  <2>1. PositionerRest'
    BY <1>7, PositionerRestHolds DEF GuiTypes
  <2> QED BY <1>0, <1>7, <2>1, RanalTypesHold, FrameTypesHold, BridgeRestHolds, SeatKeysHold, DmabufRestHolds
          DEF GuiTypes
<1>8. CASE UNCHANGED guiVars
  BY <1>8, GuiTypesStay
<1>9. Next \/ UNCHANGED vars
  OBVIOUS
<1> QED BY <1>1, <1>2, <1>3, <1>4, <1>5, <1>6, <1>7, <1>8, <1>9 DEF Next, vars, guiVars

\* What the symbols and sections of mlink rest on
LinkerInv == LinkInv /\ LinkRight /\ LinkSelects /\ LayoutInv
linkerVars == <<mlinkVars, layoutVars>>

LEMMA LinkerStays == ASSUME LinkerInv, UNCHANGED linkerVars PROVE LinkerInv'
BY LinkStays, LinkRightStays, SelectsStay, LayoutStays DEF LinkerInv, linkerVars

LEMMA LinkerInit == Init => LinkerInv
BY LinkInit, LinkRightInit, SelectsInit, LayoutInit DEF Init, LinkerInv

LEMMA LinkerStep == ASSUME LinkerInv, [Next]_vars PROVE LinkerInv'
<1>1. CASE ML!Next /\ UNCHANGED layoutVars
  <2>1. LinkInv'
    BY <1>1, LinkStepped DEF LinkerInv
  <2>2. LinkRight' /\ LinkSelects'
    BY <1>1, <2>1, LinkRightStep, SelectsStep DEF LinkerInv
  <2> QED BY <1>1, <2>1, <2>2, LayoutStays DEF LinkerInv
<1>2. CASE MO!Next /\ UNCHANGED mlinkVars
  BY <1>2, LayoutStep, LinkStays, LinkRightStays, SelectsStay DEF LinkerInv
<1>3. CASE UNCHANGED linkerVars
  BY <1>3, LinkerStays
<1>4. Next \/ UNCHANGED vars
  OBVIOUS
<1> QED BY <1>1, <1>2, <1>3, <1>4 DEF Next, vars, linkerVars

\* WidgetsSafe: the toolkit keeps hold of nothing that is gone and shows what is.
\* There is one caret at most and it is where the keys go (widget.c, app.c), a
\* slider is dragged only while the button is held (app.c), and an idle application
\* shows its present state, unless its terminal was left since it drew, from a buffer
\* of the window's size (app.c, swm_client.c, drm.c), for any tree of widgets, any number of popups and frames of any size.
THEOREM WidgetsAreSafe == Spec => []WidgetsSafe
<1>1. GuiInv => WidgetsSafe
  BY RanalIsSafe, FrameIsSafe DEF GuiInv, WidgetsSafe
<1> QED BY <1>1, GuiInit, GuiStep, PTL DEF Spec

\* BridgeSafe: what the bridge holds back it holds back for a reason, what swm shows
\* is where the client put it, and only orphans end a client (wlbridge/surface.c,
\* xdg.c); keyboards agree on a focus that is alive, keys are not carried over to the
\* next and modifiers stand for keys of their bit (input.c); every descriptor
\* has one owner (dmabuf.c); a popup is placed by the rules (xdg.c); and the
\* launcher leaves no child (wayland_bridge.c), for surfaces, keyboards,
\* descriptors and rectangles of any number and size.
THEOREM BridgeStaysSafe == Spec => []BridgeSafe
<1>1. GuiInv => BridgeSafe
  <2> SUFFICES ASSUME GuiInv PROVE BridgeSafe
    OBVIOUS
  <2>1. S!KeyboardsAgree /\ S!KeysOfFocus /\ S!ModifiersKnown
    BY DEF GuiInv, SeatInv
  <2> QED BY <2>1, BridgeIsSafe, LauncherIsSafe, DmabufIsSafe, PositionerIsSafe DEF GuiInv, BridgeSafe
<1> QED BY <1>1, GuiInit, GuiStep, PTL DEF Spec

\* GuiSafe: both of these
THEOREM GuiIsSafe == Spec => []GuiSafe
BY WidgetsAreSafe, BridgeStaysSafe, PTL DEF GuiSafe
=============================================================================
