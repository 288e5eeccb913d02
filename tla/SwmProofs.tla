----------------------------- MODULE SwmProofs -----------------------------
(***************************************************************************)
(* Proofs about the compositor for every number of clients, slots and      *)
(* surfaces.  The invariants are proved together: that a freed tree takes  *)
(* nothing of another client with it needs TreesOwned, that a dead         *)
(* client's surfaces all go needs OwnersAgree, and that the tables are     *)
(* indexed inside their bounds needs the types.  From them follow what the *)
(* taskbar shows and, step by step, that the tables implement the forests  *)
(* of SurfaceForest.                                                       *)
(***************************************************************************)
EXTENDS Swm, FiniteSetTheorems, TLAPS

\* Ids not yet given out are on no cursor.
CursorOld == cursor <= nextId

Inv == TypeOK /\ OwnersAgree /\ PointersAlive /\ TreesOwned /\ CursorFollowsPointer /\ CursorOld

\* A set of surfaces that holds the children of its members.
Down(F) == \A u \in F : \A v \in Slots : ChildOf(v, u) => v \in F

\* The parts of the invariant that the requests can disturb, and the rest.
Core ==
    /\ clients \in [Clients -> {"free", "connected", "ready"}]
    /\ lists \in [Clients -> SUBSET Slots]
    /\ \A c \in Clients : Cardinality(lists[c]) <= PerClient
    /\ surf \in [Slots -> Surfaces] /\ z \in [Slots -> Int] /\ nextId \in 0 .. MaxId
    /\ hovered \in 0 .. NumSlots /\ grab \in 0 .. NumSlots
    /\ interaction \in {"none", "move"} /\ cursor \in 0 .. MaxId
    /\ phase \in {"running", "quitting", "stopped", "overflow"}
    /\ OwnersAgree /\ PointersAlive /\ TreesOwned /\ CursorFollowsPointer /\ CursorOld

DesktopOK ==
    /\ items \subseteq 1 .. MaxId /\ focusedItem \in 0 .. MaxId
    /\ menuOpen \in BOOLEAN /\ launcherPressed \in BOOLEAN /\ pressedItem \in 0 .. MaxId
    /\ needsRepaint \in BOOLEAN

\* A step that neither makes nor frees surfaces, and one that does not arrange
\* them either.
SameTable ==
    /\ UNCHANGED <<lists, nextId>>
    /\ \A t \in Slots : surf'[t].id = surf[t].id /\ surf'[t].owner = surf[t].owner
SameTrees ==
    /\ SameTable
    /\ \A t \in Slots : surf'[t].role = surf[t].role /\ surf'[t].parent = surf[t].parent

\* The clients that are served stay so.
Served == \A c \in Clients : clients[c] = "ready" => clients'[c] = "ready"

\* What a step of client c must leave to the others.
Isolated(c) ==
    \A d \in Clients \ {c} :
        /\ lists'[d] = lists[d]
        /\ \A s \in lists[d] : /\ surf'[s] = surf[s]
                               /\ hovered = s => hovered' = s
                               /\ grab = s => grab' = s

-----------------------------------------------------------------------------
(* Sets of slots *)

\* A set of slots is finite, and its size is a number within the table.
LEMMA SlotSets ==
    ASSUME NEW S \in SUBSET Slots
    PROVE  IsFiniteSet(S) /\ Cardinality(S) \in Nat /\ Cardinality(S) <= NumSlots
<1>1. IsFiniteSet(Slots) /\ Cardinality(Slots) = NumSlots
  <2>1. 1 \in Int /\ NumSlots \in Int /\ 1 <= NumSlots
    BY SizesAssumption
  <2>2. IsFiniteSet(1 .. NumSlots)
              /\ Cardinality(1 .. NumSlots) = IF 1 > NumSlots THEN 0 ELSE NumSlots - 1 + 1
    BY <2>1, FS_Interval
  <2> QED BY <2>1, <2>2 DEF Slots
<1>2. IsFiniteSet(S) /\ Cardinality(S) <= Cardinality(Slots)
  BY <1>1, FS_Subset
<1>3. Cardinality(S) \in Nat
  BY <1>2, FS_CardinalityType
<1> QED BY <1>1, <1>2, <1>3

\* Raising surfaces gives every slot a rank (swm_surface_raise_tree).
LEMMA RaisedType ==
    ASSUME z \in [Slots -> Int], NEW S \in SUBSET Slots
    PROVE  RaisedAll(S) \in [Slots -> Int]
<1>1. ASSUME NEW s \in Slots
      PROVE  /\ Cardinality(Used \ S) \in Nat
             /\ Cardinality({t \in S : t # s /\ Precedes(t, s)}) \in Nat
             /\ Cardinality({t \in S : z[t] < z[s]}) \in Nat
  <2>1. /\ Used \ S \in SUBSET Slots /\ {t \in S : t # s /\ Precedes(t, s)} \in SUBSET Slots
        /\ {t \in S : z[t] < z[s]} \in SUBSET Slots
    BY DEF Used
  <2> QED BY <2>1, SlotSets
<1>2. ASSUME NEW s \in Slots
      PROVE  (IF s \in S THEN Cardinality(Used \ S) + 1
                                + Cardinality({t \in S : t # s /\ Precedes(t, s)})
              ELSE IF InUse(s) THEN z[s] - Cardinality({t \in S : z[t] < z[s]})
              ELSE 0) \in Int
  BY <1>1
<1> QED BY <1>2 DEF RaisedAll

\* Raising one surface.
LEMMA RaisedOneType ==
    ASSUME z \in [Slots -> Int], NEW s \in Slots
    PROVE  Raised(s) \in [Slots -> Int]
<1>1. {s} \in SUBSET Slots
  OBVIOUS
<1> QED BY <1>1, RaisedType DEF Raised

-----------------------------------------------------------------------------
(* Surface trees *)

\* The subtree of a surface holds it and, with each member, its children.
LEMMA SubtreeClosed ==
    ASSUME NEW s \in Slots
    PROVE  Subtree(s) \in SUBSET Slots /\ s \in Subtree(s) /\ Down(Subtree(s))
BY DEF Subtree, Down

\* It is the least such set.
LEMMA SubtreeLeast ==
    ASSUME NEW s \in Slots, NEW S \in SUBSET Slots, s \in S, Down(S)
    PROVE  Subtree(s) \subseteq S
BY DEF Subtree, Down

\* A tree belongs to one client (what SET_ROLE checks of a parent).
LEMMA SubtreeOwner ==
    ASSUME TreesOwned, NEW s \in Used
    PROVE  \A t \in Subtree(s) : t \in Used /\ surf[t].owner = surf[s].owner
<1> DEFINE S == {t \in Used : surf[t].owner = surf[s].owner}
<1>1. s \in S /\ S \in SUBSET Slots /\ s \in Slots
  BY DEF Used
<1>2. ASSUME NEW u \in S, NEW v \in Slots, ChildOf(v, u)
      PROVE  v \in S
  <2>1. v \in Used /\ surf[v].parent = surf[u].id /\ surf[u].id # 0 /\ u \in Used
    BY <1>2 DEF ChildOf, Used, InUse
  <2>2. PICK p \in Used : surf[p].id = surf[v].parent /\ surf[p].owner = surf[v].owner
    BY <2>1 DEF TreesOwned
  <2>3. p = u
    BY <2>1, <2>2 DEF TreesOwned
  <2> QED BY <2>1, <2>2, <2>3
<1>3. Down(S)
  BY <1>2 DEF Down
<1> HIDE DEF S
<1>4. Subtree(s) \subseteq S
  BY <1>1, <1>3, SubtreeLeast
<1> QED BY <1>4 DEF S

\* The trees of a set of surfaces hold it and the children of their members.
LEMMA ForestClosed ==
    ASSUME NEW R \in SUBSET Slots
    PROVE  /\ UNION {Subtree(s) : s \in R} \in SUBSET Slots
           /\ R \subseteq UNION {Subtree(s) : s \in R}
           /\ Down(UNION {Subtree(s) : s \in R})
<1>1. \A s \in R : Subtree(s) \in SUBSET Slots /\ s \in Subtree(s) /\ Down(Subtree(s))
  BY SubtreeClosed
<1>2. UNION {Subtree(s) : s \in R} \in SUBSET Slots /\ R \subseteq UNION {Subtree(s) : s \in R}
  BY <1>1
<1>3. ASSUME NEW u \in UNION {Subtree(s) : s \in R}, NEW v \in Slots, ChildOf(v, u)
      PROVE  v \in UNION {Subtree(s) : s \in R}
  <2>1. PICK s \in R : u \in Subtree(s)
    OBVIOUS
  <2>2. v \in Subtree(s)
    BY <1>1, <1>3, <2>1 DEF Down
  <2> QED BY <2>2
<1> QED BY <1>2, <1>3 DEF Down

-----------------------------------------------------------------------------
(* Freeing *)

\* Freeing a set of surfaces with their children leaves well-typed tables.
LEMMA FreeAllType ==
    ASSUME TypeOK, NEW F \in SUBSET Slots, FreeAll(F)
    PROVE  /\ surf' \in [Slots -> Surfaces] /\ z' \in [Slots -> Int]
           /\ lists' \in [Clients -> SUBSET Slots]
           /\ \A c \in Clients : Cardinality(lists'[c]) <= PerClient
           /\ hovered' \in 0 .. NumSlots /\ grab' \in 0 .. NumSlots
           /\ interaction' \in {"none", "move"}
<1>1. NoSurface \in Surfaces
  <2>1. 0 \in 0 .. MaxId /\ 0 \in 0 .. NumClients
    BY SizesAssumption
  <2> QED BY <2>1 DEF NoSurface, NewSurface, Surfaces, Roles
<1>2. surf' \in [Slots -> Surfaces]
  BY <1>1 DEF FreeAll, TypeOK
<1>3. z' \in [Slots -> Int]
  <2>1. ASSUME NEW s \in Slots
        PROVE  Cardinality({t \in F : z[t] < z[s]}) \in Nat
    <3>1. {t \in F : z[t] < z[s]} \in SUBSET Slots
      OBVIOUS
    <3> QED BY <3>1, SlotSets
  <2>2. ASSUME NEW s \in Slots
        PROVE  (IF s \in F THEN 0 ELSE z[s] - Cardinality({t \in F : z[t] < z[s]})) \in Int
    BY <2>1 DEF TypeOK
  <2> QED BY <2>2 DEF FreeAll
<1>4. lists' \in [Clients -> SUBSET Slots] /\ \A c \in Clients : lists'[c] \subseteq lists[c]
  BY DEF FreeAll, Unlisted, TypeOK
<1>5. ASSUME NEW c \in Clients
      PROVE  Cardinality(lists'[c]) <= PerClient
  <2>1. lists[c] \in SUBSET Slots /\ lists'[c] \in SUBSET Slots /\ lists'[c] \subseteq lists[c]
    BY <1>4 DEF TypeOK
  <2>2. IsFiniteSet(lists[c])
    BY <2>1, SlotSets
  <2>3. Cardinality(lists'[c]) <= Cardinality(lists[c])
    BY <2>1, <2>2, FS_Subset
  <2>4. Cardinality(lists'[c]) \in Nat /\ Cardinality(lists[c]) \in Nat
    BY <2>1, SlotSets
  <2>5. Cardinality(lists[c]) <= PerClient
    BY DEF TypeOK
  <2> QED BY <2>3, <2>4, <2>5, SizesAssumption
<1>6. hovered' \in 0 .. NumSlots /\ grab' \in 0 .. NumSlots /\ interaction' \in {"none", "move"}
  BY SizesAssumption DEF FreeAll, PointersCleared, TypeOK
<1> QED BY <1>2, <1>3, <1>4, <1>5, <1>6

\* What is freed is gone and the rest is untouched.
LEMMA FreeAllSlots ==
    ASSUME TypeOK, NEW F \in SUBSET Slots, FreeAll(F)
    PROVE  /\ \A s \in Slots \ F : surf'[s] = surf[s]
           /\ \A s \in F : surf'[s] = NoSurface /\ surf'[s].id = 0
           /\ Used' = Used \ F
<1>1. /\ \A s \in Slots \ F : surf'[s] = surf[s]
      /\ \A s \in F : surf'[s] = NoSurface /\ surf'[s].id = 0
  BY DEF FreeAll, NoSurface, NewSurface
<1>2. ASSUME NEW s \in Slots
      PROVE  surf'[s].id # 0 <=> surf[s].id # 0 /\ s \notin F
  BY <1>1
<1>3. Used' = {s \in Slots : surf'[s].id # 0} /\ Used = {s \in Slots : surf[s].id # 0}
  BY DEF Used, InUse, Slots
<1> QED BY <1>1, <1>2, <1>3

\* The lists, the pointers and the trees still agree with the table.
LEMMA FreeAllKeeps ==
    ASSUME Inv, NEW F \in SUBSET Slots, Down(F), FreeAll(F), nextId' = nextId, cursor' = cursor
    PROVE  /\ \A c \in Clients : lists'[c] = {s \in Slots : Owned(c, s)'}
           /\ PointersAlive' /\ TreesOwned' /\ CursorFollowsPointer' /\ CursorOld'
<1>1. /\ \A s \in Slots \ F : surf'[s] = surf[s]
      /\ \A s \in F : surf'[s] = NoSurface /\ surf'[s].id = 0
      /\ Used' = Used \ F
  BY FreeAllSlots DEF Inv
<1>2. ASSUME NEW c \in Clients
      PROVE  lists'[c] = {s \in Slots : Owned(c, s)'}
  <2>1. lists'[c] = lists[c] \ {s \in F : surf[s].owner = c}
    BY DEF FreeAll, Unlisted
  <2>2. lists[c] = {s \in Slots : surf[s].id # 0 /\ surf[s].owner = c}
    BY DEF Inv, OwnersAgree, Owned, InUse
  <2>3. ASSUME NEW s \in Slots
        PROVE  Owned(c, s)' <=> surf'[s].id # 0 /\ surf'[s].owner = c
    BY DEF Owned, InUse
  <2>4. ASSUME NEW s \in Slots
        PROVE  s \in lists'[c] <=> surf'[s].id # 0 /\ surf'[s].owner = c
    BY <1>1, <2>1, <2>2
  <2>5. lists'[c] \subseteq Slots
    BY <2>1, <2>2
  <2> QED BY <2>3, <2>4, <2>5
<1>3. PointersAlive'
  <2>1. /\ grab # 0 => grab \in Slots /\ surf[grab].id # 0
        /\ hovered # 0 => hovered \in Slots /\ surf[hovered].id # 0
        /\ (interaction = "move") <=> (grab # 0)
    BY SizesAssumption DEF Inv, PointersAlive, TypeOK, InUse, Slots
  <2>2. /\ grab' # 0 => grab' = grab /\ grab \notin F
        /\ hovered' # 0 => hovered' = hovered /\ hovered \notin F
        /\ (interaction' = "move") <=> (grab' # 0)
    BY <2>1 DEF FreeAll, PointersCleared
  <2>3. /\ grab' # 0 => surf'[grab'].id # 0
        /\ hovered' # 0 => surf'[hovered'].id # 0
    BY <1>1, <2>1, <2>2
  <2> QED BY <2>2, <2>3 DEF PointersAlive, InUse
<1>4. TreesOwned'
  <2>1. \A s \in Used' : s \in Used /\ s \notin F /\ s \in Slots /\ surf'[s] = surf[s]
    BY <1>1 DEF Used
  <2>2. \A s, t \in Used' : surf'[s].id = surf'[t].id => s = t
    BY <2>1 DEF Inv, TreesOwned
  <2>3. \A s \in Used' : surf'[s].id <= nextId'
    BY <2>1 DEF Inv, TreesOwned
  <2>4. ASSUME NEW s \in Used', surf'[s].parent # 0
        PROVE  /\ surf'[s].role \in {"popup", "subsurface"}
               /\ \E p \in Used' : surf'[p].id = surf'[s].parent
                                      /\ surf'[p].owner = surf'[s].owner
    <3>1. s \in Used /\ s \notin F /\ s \in Slots /\ surf'[s] = surf[s] /\ surf[s].parent # 0
      BY <2>1, <2>4
    <3>2. PICK p \in Used : surf[p].id = surf[s].parent /\ surf[p].owner = surf[s].owner
      BY <3>1 DEF Inv, TreesOwned
    <3>3. IsChild(s) /\ p \in Slots
      BY <3>1 DEF Inv, TreesOwned, Used
    <3>4. ChildOf(s, p)
      BY <3>1, <3>2, <3>3 DEF ChildOf, Used
    <3>5. p \notin F
      BY <3>1, <3>4 DEF Down
    <3>6. p \in Used' /\ surf'[p] = surf[p]
      BY <1>1, <3>2, <3>3, <3>5
    <3> QED BY <3>1, <3>2, <3>3, <3>6 DEF IsChild
  <2> QED BY <2>2, <2>3, <2>4 DEF TreesOwned, IsChild
<1>5. CursorFollowsPointer'
  <2> SUFFICES ASSUME cursor # 0, ~ (hovered' # 0 /\ surf'[hovered'].id = cursor),
                      NEW s \in Slots, surf'[s].id # 0, surf'[s].id = cursor
               PROVE  FALSE
    BY DEF CursorFollowsPointer, Named, InUse, Slots
  <2>1. s \notin F /\ surf'[s] = surf[s] /\ s \in Used /\ s \in Named(cursor)
    BY <1>1 DEF Used, InUse, Named
  <2>2. hovered # 0 /\ surf[hovered].id = cursor
    BY <2>1 DEF Inv, CursorFollowsPointer
  <2>3. hovered \in Used
    BY <2>2, SizesAssumption DEF Inv, PointersAlive, TypeOK, Used, Slots
  <2>4. hovered = s
    BY <2>1, <2>2, <2>3 DEF Inv, TreesOwned
  <2>5. hovered' = hovered
    BY <2>1, <2>4 DEF FreeAll, PointersCleared
  <2> QED BY <2>1, <2>2, <2>4, <2>5
<1>6. CursorOld'
  BY DEF Inv, CursorOld
<1> QED BY <1>2, <1>3, <1>4, <1>5, <1>6

-----------------------------------------------------------------------------
(* Steps that keep the table *)

LEMMA InvParts == Inv <=> Core /\ DesktopOK
BY DEF Inv, Core, DesktopOK, TypeOK

\* Pointers and cursor stay right when the table keeps its surfaces.
LEMMA SamePointers ==
    ASSUME Inv, SameTable, UNCHANGED <<pointerVars, cursor>>
    PROVE  PointersAlive' /\ CursorFollowsPointer' /\ CursorOld'
<1>1. /\ grab # 0 => grab \in Slots
      /\ hovered # 0 => hovered \in Slots
  BY SizesAssumption DEF Inv, TypeOK, Slots
<1>2. PointersAlive'
  BY <1>1 DEF Inv, PointersAlive, InUse, SameTable, pointerVars
<1>3. Named(cursor)' = Named(cursor)
  BY DEF Named, InUse, SameTable, Slots
<1>4. CursorFollowsPointer'
  BY <1>1, <1>3 DEF Inv, CursorFollowsPointer, SameTable, pointerVars
<1>5. CursorOld'
  BY DEF Inv, CursorOld, SameTable
<1> QED BY <1>2, <1>4, <1>5

\* Lists and owners agree when the table keeps its surfaces.
LEMMA SameOwners ==
    ASSUME Inv, SameTable, Served
    PROVE  OwnersAgree' /\ Used' = Used
<1>1. \A s \in Slots : (InUse(s)' <=> InUse(s)) /\ surf'[s].owner = surf[s].owner
  BY DEF SameTable, InUse
<1>2. \A c \in Clients : \A s \in Slots : Owned(c, s)' <=> Owned(c, s)
  BY <1>1 DEF Owned
<1>3. Used' = Used
  BY <1>1 DEF Used, Slots
<1>4. ASSUME NEW c \in Clients
      PROVE  lists'[c] = {s \in Slots : Owned(c, s)'}
  <2>1. lists'[c] = {s \in Slots : Owned(c, s)}
    BY DEF Inv, OwnersAgree, SameTable
  <2> QED BY <1>2, <2>1
<1>5. ASSUME NEW s \in Used
      PROVE  surf'[s].owner \in Clients /\ clients'[surf'[s].owner] = "ready"
  BY <1>1 DEF Inv, OwnersAgree, Served, Used
<1>6. \A s \in Used' : surf'[s].owner \in Clients /\ clients'[surf'[s].owner] = "ready"
  BY <1>3, <1>5
<1> QED BY <1>3, <1>4, <1>6 DEF OwnersAgree, Clients, Slots

\* The trees are right when each surface hangs where it hung, or has a parent
\* of its own client.
LEMMA ArrangedTrees ==
    ASSUME Inv, SameTable, Served,
           \A s \in Used : surf'[s].parent # 0 =>
               /\ surf'[s].role \in {"popup", "subsurface"}
               /\ \E p \in Used : surf[p].id = surf'[s].parent /\ surf[p].owner = surf[s].owner
    PROVE  TreesOwned'
<1>1. Used' = Used /\ \A s \in Used : surf'[s].id = surf[s].id /\ surf'[s].owner = surf[s].owner
  BY SameOwners DEF SameTable, Used
<1>2. \A s, t \in Used' : surf'[s].id = surf'[t].id => s = t
  BY <1>1 DEF Inv, TreesOwned
<1>3. \A s \in Used' : surf'[s].id <= nextId'
  BY <1>1 DEF Inv, TreesOwned, SameTable
<1>4. \A s \in Used' : surf'[s].parent # 0 =>
          /\ IsChild(s)'
          /\ \E p \in Used' : surf'[p].id = surf'[s].parent /\ surf'[p].owner = surf'[s].owner
  BY <1>1 DEF IsChild
<1> QED BY <1>2, <1>3, <1>4 DEF TreesOwned

LEMMA SameTreesKept ==
    ASSUME Inv, SameTrees, Served
    PROVE  OwnersAgree' /\ TreesOwned'
<1>1. SameTable
  BY DEF SameTrees
<1>2. ASSUME NEW s \in Used, surf'[s].parent # 0
      PROVE  /\ surf'[s].role \in {"popup", "subsurface"}
             /\ \E p \in Used : surf[p].id = surf'[s].parent /\ surf[p].owner = surf[s].owner
  BY <1>2 DEF Inv, TreesOwned, IsChild, SameTrees, Used
<1> QED BY <1>1, <1>2, ArrangedTrees, SameOwners

-----------------------------------------------------------------------------
(* The requests *)

\* Requests and events that only set fields outside the trees (attach, commit,
\* frame, painting, minimizing) keep everything.
LEMMA FieldsKeep ==
    ASSUME Inv, SameTrees, UNCHANGED <<clients, pointerVars, cursor>>,
           surf' \in [Slots -> Surfaces], z' \in [Slots -> Int],
           phase' \in {"running", "quitting", "stopped", "overflow"}
    PROVE  Core'
<1>1. SameTable /\ Served
  BY DEF SameTrees, Served
<1>2. OwnersAgree' /\ TreesOwned' /\ PointersAlive' /\ CursorFollowsPointer' /\ CursorOld'
  BY <1>1, SameTreesKept, SamePointers
<1>3. /\ UNCHANGED <<clients, lists, nextId, hovered, grab, interaction, cursor>>
  BY DEF SameTrees, SameTable, pointerVars
<1>4. TypeOK
  BY DEF Inv
<1> QED BY <1>2, <1>3, <1>4 DEF TypeOK, Core

LEMMA AcceptKeeps == ASSUME Inv, Accept PROVE Core'
<1>1. UNCHANGED <<lists, surf, z, hovered, grab, interaction, nextId, cursor, phase>>
  BY DEF Accept, surfaceVars, pointerVars
<1>2. clients' \in [Clients -> {"free", "connected", "ready"}] /\ Served
  BY DEF Accept, Served, FreeClients, Inv, TypeOK
<1>3. SameTrees /\ SameTable /\ UNCHANGED <<pointerVars, cursor>>
  BY <1>1 DEF SameTrees, SameTable, pointerVars
<1>4. OwnersAgree' /\ TreesOwned' /\ PointersAlive' /\ CursorFollowsPointer' /\ CursorOld'
  BY <1>2, <1>3, SameTreesKept, SamePointers
<1>5. TypeOK
  BY DEF Inv
<1> QED BY <1>1, <1>2, <1>4, <1>5 DEF TypeOK, Core

LEMMA HelloKeeps == ASSUME Inv, NEW c \in Clients, Hello(c) PROVE Core'
<1>1. UNCHANGED <<lists, surf, z, hovered, grab, interaction, nextId, cursor, phase>>
  BY DEF Hello, surfaceVars, pointerVars
<1>2. clients' \in [Clients -> {"free", "connected", "ready"}] /\ Served
  BY DEF Hello, Served, Inv, TypeOK
<1>3. SameTrees /\ SameTable /\ UNCHANGED <<pointerVars, cursor>>
  BY <1>1 DEF SameTrees, SameTable, pointerVars
<1>4. OwnersAgree' /\ TreesOwned' /\ PointersAlive' /\ CursorFollowsPointer' /\ CursorOld'
  BY <1>2, <1>3, SameTreesKept, SamePointers
<1>5. TypeOK
  BY DEF Inv
<1> QED BY <1>1, <1>2, <1>4, <1>5 DEF TypeOK, Core

\* Freeing surfaces of one client, with their trees, frees only surfaces of that
\* client; those that stay, stay as they are.
LEMMA FreeTreesKeeps ==
    ASSUME Inv, NEW c \in Clients, NEW R \in SUBSET lists[c], FreeTrees(R),
           UNCHANGED <<nextId, cursor>>, ~ \E s \in R : OnCycle(s)
    PROVE  /\ phase' = phase
           /\ surf' \in [Slots -> Surfaces] /\ z' \in [Slots -> Int]
           /\ lists' \in [Clients -> SUBSET Slots]
           /\ \A d \in Clients : Cardinality(lists'[d]) <= PerClient
           /\ hovered' \in 0 .. NumSlots /\ grab' \in 0 .. NumSlots
           /\ interaction' \in {"none", "move"}
           /\ \A d \in Clients : lists'[d] = {s \in Slots : Owned(d, s)'}
           /\ PointersAlive' /\ TreesOwned' /\ CursorFollowsPointer' /\ CursorOld'
           /\ \A s \in Used' : s \in Used /\ s \notin R /\ surf'[s] = surf[s]
           /\ Isolated(c)
<1> DEFINE F == UNION {Subtree(s) : s \in R}
<1>1. FreeAll(F) /\ phase' = phase
  BY DEF FreeTrees
<1>2. /\ lists[c] = {s \in Slots : Owned(c, s)} /\ R \in SUBSET Slots
      /\ \A s \in R : s \in Used /\ surf[s].owner = c
  BY DEF Inv, TypeOK, OwnersAgree, Owned, Used
<1>3. F \in SUBSET Slots /\ R \subseteq F /\ Down(F)
  BY <1>2, ForestClosed
<1>4. \A t \in F : surf[t].owner = c
  <2>1. ASSUME NEW s \in R, NEW t \in Subtree(s)
        PROVE  surf[t].owner = c
    BY <1>2, SubtreeOwner DEF Inv
  <2> QED BY <2>1
<1> HIDE DEF F
<1>5. /\ \A s \in Slots \ F : surf'[s] = surf[s]
      /\ Used' = Used \ F
  BY <1>1, <1>3, FreeAllSlots DEF Inv
<1>6. ASSUME NEW d \in Clients \ {c}
      PROVE  /\ lists'[d] = lists[d]
             /\ \A s \in lists[d] : /\ surf'[s] = surf[s]
                                    /\ hovered = s => hovered' = s
                                    /\ grab = s => grab' = s
  <2>1. lists'[d] = lists[d] \ {s \in F : surf[s].owner = d}
    BY <1>1 DEF FreeAll, Unlisted
  <2>2. {s \in F : surf[s].owner = d} = {}
    BY <1>4
  <2>3. \A s \in lists[d] : s \in Slots /\ surf[s].owner = d
    BY DEF Inv, OwnersAgree, Owned
  <2>4. \A s \in lists[d] : s \notin F
    BY <1>4, <2>3
  <2>5. \A s \in lists[d] : surf'[s] = surf[s]
    BY <1>5, <2>3, <2>4
  <2>6. \A s \in lists[d] : (hovered = s => hovered' = s) /\ (grab = s => grab' = s)
    BY <1>1, <2>4 DEF FreeAll, PointersCleared
  <2> QED BY <2>1, <2>2, <2>5, <2>6
<1>7. Isolated(c)
  BY <1>6 DEF Isolated
<1>8. \A s \in Used' : s \in Used /\ s \notin R /\ surf'[s] = surf[s]
  BY <1>3, <1>5 DEF Used
<1>9. /\ surf' \in [Slots -> Surfaces] /\ z' \in [Slots -> Int]
      /\ lists' \in [Clients -> SUBSET Slots]
      /\ \A d \in Clients : Cardinality(lists'[d]) <= PerClient
      /\ hovered' \in 0 .. NumSlots /\ grab' \in 0 .. NumSlots
      /\ interaction' \in {"none", "move"}
  BY <1>1, <1>3, FreeAllType DEF Inv
<1>10. /\ \A d \in Clients : lists'[d] = {s \in Slots : Owned(d, s)'}
       /\ PointersAlive' /\ TreesOwned' /\ CursorFollowsPointer' /\ CursorOld'
  BY <1>1, <1>3, FreeAllKeeps
<1> QED BY <1>1, <1>7, <1>8, <1>9, <1>10

\* A recursion that has no end changes nothing that is modelled.
LEMMA OverflowKeeps ==
    ASSUME Inv, NEW R, FreeTrees(R), \E s \in R : OnCycle(s),
           UNCHANGED <<clients, nextId, cursor>>
    PROVE  Core' /\ UNCHANGED <<lists, surf, hovered, grab>>
<1>1. phase' = "overflow" /\ UNCHANGED <<lists, surf, z, hovered, grab, interaction>>
  BY DEF FreeTrees, surfaceVars, pointerVars
<1>2. SameTrees /\ UNCHANGED <<clients, pointerVars, cursor>>
  BY <1>1 DEF SameTrees, SameTable, pointerVars
<1>3. surf' \in [Slots -> Surfaces] /\ z' \in [Slots -> Int]
  BY <1>1 DEF Inv, TypeOK
<1> QED BY <1>1, <1>2, <1>3, FieldsKeep

\* Dropping a client takes its surfaces with it, and no others: those it owns
\* are in its list, and a tree has one owner.
LEMMA DropClientKeeps ==
    ASSUME Inv, NEW c \in Clients, DropClient(c), phase = "running"
    PROVE  Core' /\ Isolated(c)
<1> DEFINE R == lists[c]
<1>1. R \in SUBSET lists[c] /\ FreeTrees(R) /\ UNCHANGED <<nextId, cursor>>
  BY DEF DropClient
<1>2. CASE \E s \in R : OnCycle(s)
  <2>1. phase' = "overflow"
    BY <1>1, <1>2 DEF FreeTrees
  <2>2. UNCHANGED clients
    BY <2>1 DEF DropClient
  <2> QED BY <1>1, <1>2, <2>2, OverflowKeeps DEF Isolated
<1>3. CASE ~ \E s \in R : OnCycle(s)
  <2>1. /\ phase' = phase
        /\ surf' \in [Slots -> Surfaces] /\ z' \in [Slots -> Int]
        /\ lists' \in [Clients -> SUBSET Slots]
        /\ \A d \in Clients : Cardinality(lists'[d]) <= PerClient
        /\ hovered' \in 0 .. NumSlots /\ grab' \in 0 .. NumSlots
        /\ interaction' \in {"none", "move"}
        /\ \A d \in Clients : lists'[d] = {s \in Slots : Owned(d, s)'}
        /\ PointersAlive' /\ TreesOwned' /\ CursorFollowsPointer' /\ CursorOld'
        /\ \A s \in Used' : s \in Used /\ s \notin R /\ surf'[s] = surf[s]
        /\ Isolated(c)
    BY <1>1, <1>3, FreeTreesKeeps
  <2>2. clients' = [clients EXCEPT ![c] = "free"]
    BY <2>1 DEF DropClient
  <2>3. ASSUME NEW s \in Used'
        PROVE  surf'[s].owner \in Clients /\ clients'[surf'[s].owner] = "ready"
    <3>1. s \in Used /\ s \notin lists[c] /\ surf'[s] = surf[s]
      BY <2>1
    <3>2. surf[s].owner # c
      BY <3>1 DEF Owned, Used, Inv, OwnersAgree
    <3> QED BY <2>2, <3>1, <3>2 DEF Inv, OwnersAgree, TypeOK
  <2>4. OwnersAgree'
    BY <2>1, <2>3 DEF OwnersAgree, Clients, Slots
  <2>5. clients' \in [Clients -> {"free", "connected", "ready"}]
    BY <2>2 DEF Inv, TypeOK
  <2>6. nextId' \in 0 .. MaxId /\ cursor' \in 0 .. MaxId
        /\ phase' \in {"running", "quitting", "stopped", "overflow"}
    BY <1>1, <2>1 DEF Inv, TypeOK
  <2> QED BY <2>1, <2>4, <2>5, <2>6 DEF Core
<1> QED BY <1>2, <1>3

\* SURFACE_DESTROY frees one tree.
LEMMA SurfaceDestroyKeeps ==
    ASSUME Inv, NEW c \in Clients, SurfaceDestroy(c)
    PROVE  Core' /\ Isolated(c)
<1>1. PICK s \in Slots : Owned(c, s) /\ FreeTrees({s})
  BY DEF SurfaceDestroy
<1> DEFINE R == {s}
<1>2. R \in SUBSET lists[c] /\ FreeTrees(R) /\ UNCHANGED <<clients, nextId, cursor>>
  BY <1>1 DEF SurfaceDestroy, Inv, OwnersAgree
<1> HIDE DEF R
<1>3. CASE \E t \in R : OnCycle(t)
  BY <1>2, <1>3, OverflowKeeps DEF Isolated
<1>4. CASE ~ \E t \in R : OnCycle(t)
  <2>1. /\ phase' = phase
        /\ surf' \in [Slots -> Surfaces] /\ z' \in [Slots -> Int]
        /\ lists' \in [Clients -> SUBSET Slots]
        /\ \A d \in Clients : Cardinality(lists'[d]) <= PerClient
        /\ hovered' \in 0 .. NumSlots /\ grab' \in 0 .. NumSlots
        /\ interaction' \in {"none", "move"}
        /\ \A d \in Clients : lists'[d] = {t \in Slots : Owned(d, t)'}
        /\ PointersAlive' /\ TreesOwned' /\ CursorFollowsPointer' /\ CursorOld'
        /\ \A t \in Used' : t \in Used /\ t \notin R /\ surf'[t] = surf[t]
        /\ Isolated(c)
    BY <1>2, <1>4, FreeTreesKeeps
  <2>2. \A t \in Used' : surf'[t].owner \in Clients /\ clients'[surf'[t].owner] = "ready"
    BY <1>2, <2>1 DEF Inv, OwnersAgree
  <2>3. OwnersAgree'
    BY <2>1, <2>2 DEF OwnersAgree, Clients, Slots
  <2>4. /\ nextId' \in 0 .. MaxId /\ cursor' \in 0 .. MaxId
        /\ phase' \in {"running", "quitting", "stopped", "overflow"}
        /\ clients' \in [Clients -> {"free", "connected", "ready"}]
    BY <1>2, <2>1 DEF Inv, TypeOK
  <2> QED BY <2>1, <2>3, <2>4 DEF Core
<1> QED BY <1>3, <1>4

\* SURFACE_CREATE takes a free slot and a fresh id.
LEMMA SurfaceCreateKeeps ==
    ASSUME Inv, NEW c \in Clients, SurfaceCreate(c)
    PROVE  Core' /\ Isolated(c)
<1> DEFINE new == NewSurface(nextId + 1, c)
<1>1. PICK s \in Slots :
          /\ FirstFree(s) /\ surf' = [surf EXCEPT ![s] = new]
          /\ z' = [z EXCEPT ![s] = Cardinality(Used) + 1]
          /\ lists' = [lists EXCEPT ![c] = @ \cup {s}]
  BY DEF SurfaceCreate
<1>2. s \in Slots /\ s \notin Used /\ surf[s].id = 0
  BY <1>1 DEF FirstFree, Used, InUse
<1>3. /\ clients[c] = "ready" /\ nextId < MaxId /\ nextId' = nextId + 1
      /\ UNCHANGED <<clients, hovered, grab, interaction, cursor, phase>>
      /\ Cardinality(lists[c]) < PerClient
  BY DEF SurfaceCreate, pointerVars
<1>4. nextId \in 0 .. MaxId /\ nextId + 1 \in 1 .. MaxId /\ MaxId \in Nat
  BY <1>3, SizesAssumption DEF Inv, TypeOK
<1>5. /\ new \in Surfaces /\ new.id = nextId + 1 /\ new.owner = c /\ new.parent = 0
      /\ new.id # 0
  <2>1. c \in 0 .. NumClients /\ 0 \in 0 .. MaxId /\ nextId + 1 \in 0 .. MaxId
    BY <1>4, SizesAssumption DEF Clients
  <2>3. new.id = nextId + 1 /\ new.owner = c /\ new.parent = 0
    BY DEF NewSurface
  <2>4. new \in Surfaces
    BY <2>1 DEF NewSurface, Surfaces, Roles
  <2>5. nextId + 1 # 0
    BY <1>4
  <2> QED BY <2>3, <2>4, <2>5
<1> HIDE DEF new
<1>6. surf' \in [Slots -> Surfaces] /\ surf'[s] = new /\ \A t \in Slots \ {s} : surf'[t] = surf[t]
  BY <1>1, <1>5 DEF Inv, TypeOK
<1>7. Used' = Used \cup {s}
  <2>1. \A t \in Slots : surf'[t].id # 0 <=> surf[t].id # 0 \/ t = s
    BY <1>5, <1>6
  <2>2. Used' = {t \in Slots : surf'[t].id # 0} /\ Used = {t \in Slots : surf[t].id # 0}
    BY DEF Used, InUse, Slots
  <2> QED BY <2>1, <2>2
<1>8. \A t \in Used : t \in Slots /\ surf'[t] = surf[t] /\ surf[t].id <= nextId /\ surf[t].id # 0
  BY <1>2, <1>6 DEF Used, InUse, Inv, TreesOwned
<1>9. ASSUME NEW t \in Used
      PROVE  surf[t].id # nextId + 1
  BY <1>4, <1>8
<1>10. /\ lists' \in [Clients -> SUBSET Slots] /\ lists'[c] = lists[c] \cup {s}
       /\ \A d \in Clients \ {c} : lists'[d] = lists[d]
  BY <1>1 DEF Inv, TypeOK
<1>11. ASSUME NEW d \in Clients
       PROVE  Cardinality(lists'[d]) <= PerClient
  <2>1. CASE d = c
    <3>1. lists[c] \in SUBSET Slots /\ s \notin lists[c]
      BY <1>2 DEF Inv, TypeOK, OwnersAgree, Owned, InUse
    <3>2. IsFiniteSet(lists[c]) /\ Cardinality(lists[c]) \in Nat
      BY <3>1, SlotSets
    <3>3. Cardinality(lists[c] \cup {s}) = Cardinality(lists[c]) + 1
      BY <3>1, <3>2, FS_AddElement
    <3> QED BY <1>3, <1>10, <2>1, <3>2, <3>3, SizesAssumption
  <2>2. CASE d # c
    BY <1>10, <2>2 DEF Inv, TypeOK
  <2> QED BY <2>1, <2>2
<1>12. z' \in [Slots -> Int]
  <2>1. Cardinality(Used) \in Nat
    <3>1. Used \in SUBSET Slots
      BY DEF Used
    <3> QED BY <3>1, SlotSets
  <2> QED BY <1>1, <2>1 DEF Inv, TypeOK
<1>13. ASSUME NEW d \in Clients
       PROVE  lists'[d] = {t \in Slots : surf'[t].id # 0 /\ surf'[t].owner = d}
  <2>1. lists[d] = {t \in Slots : surf[t].id # 0 /\ surf[t].owner = d}
    BY DEF Inv, OwnersAgree, Owned, InUse
  <2> QED BY <1>2, <1>5, <1>6, <1>10, <2>1
<1>14. \A t \in Used' : surf'[t].owner \in Clients /\ clients'[surf'[t].owner] = "ready"
  BY <1>3, <1>5, <1>6, <1>7, <1>8 DEF Inv, OwnersAgree
<1>15. OwnersAgree'
  BY <1>13, <1>14 DEF OwnersAgree, Owned, InUse, Clients, Slots
<1>16. PointersAlive'
  <2>1. /\ grab # 0 => grab \in Used
        /\ hovered # 0 => hovered \in Used
    BY SizesAssumption DEF Inv, PointersAlive, TypeOK, Used, Slots
  <2> QED BY <1>3, <1>8, <2>1 DEF Inv, PointersAlive, InUse
<1>17. TreesOwned'
  <2>1. \A t, u \in Used' : surf'[t].id = surf'[u].id => t = u
    BY <1>5, <1>6, <1>7, <1>8, <1>9 DEF Inv, TreesOwned
  <2>2. \A t \in Used' : surf'[t].id <= nextId'
    <3>1. \A t \in Used : surf[t].id \in Nat
      BY SizesAssumption DEF Inv, TypeOK, Surfaces, Used
    <3> QED BY <1>3, <1>4, <1>5, <1>6, <1>7, <1>8, <3>1
  <2>3. ASSUME NEW t \in Used', surf'[t].parent # 0
        PROVE  IsChild(t)' /\ \E p \in Used' : surf'[p].id = surf'[t].parent
                                                 /\ surf'[p].owner = surf'[t].owner
    <3>1. t \in Used /\ surf'[t] = surf[t]
      BY <1>5, <1>6, <1>7, <1>8, <2>3
    <3>2. IsChild(t) /\ \E p \in Used : surf[p].id = surf[t].parent
                                           /\ surf[p].owner = surf[t].owner
      BY <2>3, <3>1 DEF Inv, TreesOwned
    <3> QED BY <1>7, <1>8, <3>1, <3>2 DEF IsChild
  <2> QED BY <2>1, <2>2, <2>3 DEF TreesOwned
<1>18. CursorOld'
  BY <1>3, <1>4, SizesAssumption DEF Inv, TypeOK, CursorOld
<1>19. CursorFollowsPointer'
  <2> SUFFICES ASSUME cursor # 0, ~ (hovered # 0 /\ surf'[hovered].id = cursor),
                      NEW t \in Slots, surf'[t].id # 0, surf'[t].id = cursor
               PROVE  FALSE
    BY <1>3 DEF CursorFollowsPointer, Named, InUse, Slots
  <2>1. cursor \in Nat /\ cursor <= nextId
    BY SizesAssumption DEF Inv, TypeOK, CursorOld
  <2>2. t # s
    BY <1>4, <1>5, <1>6, <2>1
  <2>3. surf[t].id = cursor /\ t \in Named(cursor)
    BY <1>6, <2>2 DEF Named, InUse
  <2>4. hovered # 0 /\ surf[hovered].id = cursor
    BY <2>3 DEF Inv, CursorFollowsPointer
  <2>5. hovered \in Used
    BY <2>4, SizesAssumption DEF Inv, PointersAlive, TypeOK, Used, Slots
  <2> QED BY <1>8, <2>4, <2>5
<1>20. clients' \in [Clients -> {"free", "connected", "ready"}]
  BY <1>3 DEF Inv, TypeOK
<1>21. nextId' \in 0 .. MaxId
  BY <1>3, <1>4
<1>22. Core'
  BY <1>3, <1>6, <1>10, <1>11, <1>12, <1>15, <1>16, <1>17, <1>18, <1>19, <1>20, <1>21
  DEF Core, Inv, TypeOK
<1>23. Isolated(c)
  <2>1. \A d \in Clients : \A t \in lists[d] : t \in Used
    BY DEF Inv, OwnersAgree, Owned, Used
  <2> QED BY <1>3, <1>8, <1>10, <2>1 DEF Isolated
<1> QED BY <1>22, <1>23

\* Setting a field of a surface of c that is not part of the trees.
LEMMA OwnFieldKeeps ==
    ASSUME Inv, NEW c \in Clients, NEW s \in Slots, Owned(c, s),
           SameTable, UNCHANGED <<clients, hovered, grab, interaction, cursor, phase>>,
           surf' \in [Slots -> Surfaces], z' \in [Slots -> Int],
           \A t \in Slots \ {s} : surf'[t] = surf[t],
           surf'[s].parent # 0 =>
               /\ surf'[s].role \in {"popup", "subsurface"}
               /\ \E p \in Used : surf[p].id = surf'[s].parent /\ surf[p].owner = surf[s].owner
    PROVE  Core' /\ Isolated(c)
<1>1. Served /\ UNCHANGED <<pointerVars, cursor>> /\ UNCHANGED <<lists, nextId>>
  BY DEF Served, pointerVars, SameTable
<1>2. ASSUME NEW t \in Used, surf'[t].parent # 0
      PROVE  /\ surf'[t].role \in {"popup", "subsurface"}
             /\ \E p \in Used : surf[p].id = surf'[t].parent /\ surf[p].owner = surf[t].owner
  BY <1>2 DEF Inv, TreesOwned, IsChild, Used
<1>3. TreesOwned' /\ OwnersAgree' /\ PointersAlive' /\ CursorFollowsPointer' /\ CursorOld'
  BY <1>1, <1>2, ArrangedTrees, SameOwners, SamePointers
<1>4. Core'
  BY <1>1, <1>3 DEF Core, Inv, TypeOK
<1>5. \A d \in Clients \ {c} : s \notin lists[d] /\ lists[d] \subseteq Slots
  BY DEF Inv, OwnersAgree, Owned
<1>6. Isolated(c)
  BY <1>1, <1>5 DEF Isolated
<1> QED BY <1>4, <1>6

\* The fields of a surface take values of their types.
LEMMA FieldTypes ==
    ASSUME TypeOK, NEW s \in Slots, NEW b \in BOOLEAN, NEW r \in Roles
    PROVE  /\ [surf EXCEPT ![s].buffer = b] \in [Slots -> Surfaces]
           /\ [surf EXCEPT ![s].committed = b] \in [Slots -> Surfaces]
           /\ [surf EXCEPT ![s].role = r] \in [Slots -> Surfaces]
           /\ [surf EXCEPT ![s].minimized = b] \in [Slots -> Surfaces]
           /\ [surf EXCEPT ![s].maximized = b] \in [Slots -> Surfaces]
           /\ [surf EXCEPT ![s].wantsFrame = b, ![s].waiting = b] \in [Slots -> Surfaces]
<1>1. surf \in [Slots -> Surfaces]
  BY DEF TypeOK
<1>2. [surf EXCEPT ![s].buffer = b] \in [Slots -> Surfaces]
  BY <1>1 DEF Surfaces
<1>3. [surf EXCEPT ![s].committed = b] \in [Slots -> Surfaces]
  BY <1>1 DEF Surfaces
<1>4. [surf EXCEPT ![s].role = r] \in [Slots -> Surfaces]
  BY <1>1 DEF Surfaces
<1>5. [surf EXCEPT ![s].minimized = b] \in [Slots -> Surfaces]
  BY <1>1 DEF Surfaces
<1>6. [surf EXCEPT ![s].maximized = b] \in [Slots -> Surfaces]
  BY <1>1 DEF Surfaces
<1>7. [surf EXCEPT ![s].wantsFrame = b, ![s].waiting = b] \in [Slots -> Surfaces]
  BY <1>1 DEF Surfaces
<1> QED BY <1>2, <1>3, <1>4, <1>5, <1>6, <1>7

\* A surface in use hangs properly.
LEMMA HangsRight ==
    ASSUME Inv, NEW s \in Slots, InUse(s), surf[s].parent # 0
    PROVE  /\ surf[s].role \in {"popup", "subsurface"}
           /\ \E p \in Used : surf[p].id = surf[s].parent /\ surf[p].owner = surf[s].owner
BY DEF Inv, TreesOwned, IsChild, Used

LEMMA SurfaceAttachKeeps ==
    ASSUME Inv, NEW c \in Clients, SurfaceAttach(c)
    PROVE  Core' /\ Isolated(c)
<1>1. PICK s \in Slots, b \in BOOLEAN : Owned(c, s) /\ surf' = [surf EXCEPT ![s].buffer = b]
  BY DEF SurfaceAttach, Set
<1>2. UNCHANGED <<clients, lists, z, nextId, hovered, grab, interaction, cursor, phase>>
  BY DEF SurfaceAttach, pointerVars
<1>3. surf' \in [Slots -> Surfaces] /\ z' \in [Slots -> Int]
  BY <1>1, <1>2, FieldTypes DEF Inv, TypeOK, Roles
<1>4. /\ \A t \in Slots \ {s} : surf'[t] = surf[t]
      /\ surf'[s].id = surf[s].id /\ surf'[s].owner = surf[s].owner
      /\ surf'[s].role = surf[s].role /\ surf'[s].parent = surf[s].parent
  BY <1>1 DEF Inv, TypeOK, Surfaces
<1>5. SameTable
  BY <1>2, <1>4 DEF SameTable
<1>6. surf'[s].parent # 0 =>
          /\ surf'[s].role \in {"popup", "subsurface"}
          /\ \E p \in Used : surf[p].id = surf'[s].parent /\ surf[p].owner = surf[s].owner
  BY <1>1, <1>4, HangsRight DEF Owned
<1> QED BY <1>1, <1>2, <1>3, <1>4, <1>5, <1>6, OwnFieldKeeps

LEMMA SurfaceCommitKeeps ==
    ASSUME Inv, NEW c \in Clients, SurfaceCommit(c)
    PROVE  Core' /\ Isolated(c)
<1>1. PICK s \in Slots : Owned(c, s) /\ surf' = [surf EXCEPT ![s].committed = TRUE]
  BY DEF SurfaceCommit, Set
<1>2. UNCHANGED <<clients, lists, z, nextId, hovered, grab, interaction, cursor, phase>>
  BY DEF SurfaceCommit, pointerVars
<1>3. surf' \in [Slots -> Surfaces] /\ z' \in [Slots -> Int]
  BY <1>1, <1>2, FieldTypes DEF Inv, TypeOK, Roles
<1>4. /\ \A t \in Slots \ {s} : surf'[t] = surf[t]
      /\ surf'[s].id = surf[s].id /\ surf'[s].owner = surf[s].owner
      /\ surf'[s].role = surf[s].role /\ surf'[s].parent = surf[s].parent
  BY <1>1 DEF Inv, TypeOK, Surfaces
<1>5. SameTable
  BY <1>2, <1>4 DEF SameTable
<1>6. surf'[s].parent # 0 =>
          /\ surf'[s].role \in {"popup", "subsurface"}
          /\ \E p \in Used : surf[p].id = surf'[s].parent /\ surf[p].owner = surf[s].owner
  BY <1>1, <1>4, HangsRight DEF Owned
<1> QED BY <1>1, <1>2, <1>3, <1>4, <1>5, <1>6, OwnFieldKeeps

LEMMA SurfaceFrameKeeps ==
    ASSUME Inv, NEW c \in Clients, SurfaceFrame(c)
    PROVE  Core' /\ Isolated(c)
<1>1. PICK s \in Slots : /\ Owned(c, s)
                         /\ surf' = [surf EXCEPT ![s].wantsFrame = TRUE, ![s].waiting = TRUE]
  BY DEF SurfaceFrame
<1>2. UNCHANGED <<clients, lists, z, nextId, hovered, grab, interaction, cursor, phase>>
  BY DEF SurfaceFrame, pointerVars
<1>3. surf' \in [Slots -> Surfaces] /\ z' \in [Slots -> Int]
  BY <1>1, <1>2, FieldTypes DEF Inv, TypeOK, Roles
<1>4. /\ \A t \in Slots \ {s} : surf'[t] = surf[t]
      /\ surf'[s].id = surf[s].id /\ surf'[s].owner = surf[s].owner
      /\ surf'[s].role = surf[s].role /\ surf'[s].parent = surf[s].parent
  BY <1>1 DEF Inv, TypeOK, Surfaces
<1>5. SameTable
  BY <1>2, <1>4 DEF SameTable
<1>6. surf'[s].parent # 0 =>
          /\ surf'[s].role \in {"popup", "subsurface"}
          /\ \E p \in Used : surf[p].id = surf'[s].parent /\ surf[p].owner = surf[s].owner
  BY <1>1, <1>4, HangsRight DEF Owned
<1> QED BY <1>1, <1>2, <1>3, <1>4, <1>5, <1>6, OwnFieldKeeps

LEMMA SetRoleTopKeeps ==
    ASSUME Inv, NEW c \in Clients, SetRoleTop(c)
    PROVE  Core' /\ Isolated(c)
<1>1. PICK s \in Slots : /\ Owned(c, s)
                         /\ surf' = [surf EXCEPT ![s].role = "toplevel", ![s].parent = 0]
  BY DEF SetRoleTop
<1>2. UNCHANGED <<clients, lists, z, nextId, hovered, grab, interaction, cursor, phase>>
  BY DEF SetRoleTop, pointerVars
<1>3. surf' \in [Slots -> Surfaces] /\ z' \in [Slots -> Int]
  <2>1. 0 \in 0 .. MaxId /\ surf[s] \in Surfaces
    BY SizesAssumption DEF Inv, TypeOK
  <2>2. [surf[s] EXCEPT !.role = "toplevel", !.parent = 0] \in Surfaces
    BY <2>1 DEF Surfaces, Roles
  <2>3. surf' = [surf EXCEPT ![s] = [surf[s] EXCEPT !.role = "toplevel", !.parent = 0]]
    BY <1>1 DEF Inv, TypeOK
  <2> QED BY <1>2, <2>2, <2>3 DEF Inv, TypeOK
<1>4. /\ \A t \in Slots \ {s} : surf'[t] = surf[t]
      /\ surf'[s].id = surf[s].id /\ surf'[s].owner = surf[s].owner
      /\ surf'[s].parent = 0
  BY <1>1 DEF Inv, TypeOK, Surfaces
<1>5. SameTable
  BY <1>2, <1>4 DEF SameTable
<1> QED BY <1>1, <1>2, <1>3, <1>4, <1>5, OwnFieldKeeps

\* A parent is a living surface of the same client.
LEMMA SetRoleChildKeeps ==
    ASSUME Inv, NEW c \in Clients, SetRoleChild(c)
    PROVE  Core' /\ Isolated(c)
<1>1. PICK s \in Slots, p \in Slots, r \in Roles \ {"toplevel"} :
          /\ Owned(c, s) /\ Owned(c, p)
          /\ surf' = [surf EXCEPT ![s].role = r, ![s].parent = surf[p].id,
                                  ![s].maximized = FALSE, ![s].minimized = FALSE]
          /\ z' = IF surf[s].role = r /\ surf[s].parent = surf[p].id THEN z ELSE Raised(s)
  BY DEF SetRoleChild
<1>2. UNCHANGED <<clients, lists, nextId, hovered, grab, interaction, cursor, phase>>
  BY DEF SetRoleChild, pointerVars
<1>3. z' \in [Slots -> Int]
  BY <1>1, RaisedOneType DEF Inv, TypeOK
<1>4. surf' \in [Slots -> Surfaces]
  <2> DEFINE new == [surf[s] EXCEPT !.role = r, !.parent = surf[p].id,
                                    !.maximized = FALSE, !.minimized = FALSE]
  <2>1. surf[p].id \in 0 .. MaxId /\ r \in Roles /\ surf[s] \in Surfaces
    BY <1>1 DEF Inv, TypeOK, Surfaces
  <2>2. new \in Surfaces
    BY <2>1 DEF Surfaces
  <2>3. surf' = [surf EXCEPT ![s] = new]
    BY <1>1 DEF Inv, TypeOK
  <2> HIDE DEF new
  <2> QED BY <2>2, <2>3 DEF Inv, TypeOK
<1>5. /\ \A t \in Slots \ {s} : surf'[t] = surf[t]
      /\ surf'[s].id = surf[s].id /\ surf'[s].owner = surf[s].owner
      /\ surf'[s].parent = surf[p].id /\ surf'[s].role = r
  BY <1>1 DEF Inv, TypeOK, Surfaces
<1>6. r \in {"popup", "subsurface"} /\ p \in Used /\ surf[p].owner = surf[s].owner
  BY <1>1 DEF Roles, Owned, Used
<1>7. SameTable
  BY <1>2, <1>5 DEF SameTable
<1> QED BY <1>1, <1>2, <1>3, <1>4, <1>5, <1>6, <1>7, OwnFieldKeeps

LEMMA SetRoleBadParentKeeps ==
    ASSUME Inv, NEW c \in Clients, SetRoleBadParent(c)
    PROVE  Core' /\ Isolated(c)
<1>1. PICK s \in Slots, r \in Roles \ {"toplevel"} :
          Owned(c, s) /\ surf' = [surf EXCEPT ![s].role = r]
  BY DEF SetRoleBadParent, Set
<1>2. UNCHANGED <<clients, lists, z, nextId, hovered, grab, interaction, cursor, phase>>
  BY DEF SetRoleBadParent, pointerVars
<1>3. surf' \in [Slots -> Surfaces] /\ z' \in [Slots -> Int]
  BY <1>1, <1>2, FieldTypes DEF Inv, TypeOK
<1>4. /\ \A t \in Slots \ {s} : surf'[t] = surf[t]
      /\ surf'[s].id = surf[s].id /\ surf'[s].owner = surf[s].owner
      /\ surf'[s].parent = surf[s].parent /\ surf'[s].role = r
  BY <1>1 DEF Inv, TypeOK, Surfaces
<1>5. SameTable
  BY <1>2, <1>4 DEF SameTable
<1>6. r \in {"popup", "subsurface"}
  BY <1>1 DEF Roles
<1> QED BY <1>1, <1>2, <1>3, <1>4, <1>5, <1>6, HangsRight, OwnFieldKeeps DEF Owned

\* A cursor is set for the surface under the pointer.
LEMMA SetCursorKeeps ==
    ASSUME Inv, NEW c \in Clients, SetCursor(c)
    PROVE  Core' /\ Isolated(c)
<1>1. /\ hovered # 0 /\ cursor' \in {surf[hovered].id, 0}
      /\ UNCHANGED <<clients, lists, surf, z, nextId, hovered, grab, interaction, phase>>
  BY DEF SetCursor, pointerVars, surfaceVars
<1>2. hovered \in Slots /\ hovered \in Used /\ surf[hovered].id \in 0 .. MaxId
  BY <1>1, SizesAssumption DEF Inv, TypeOK, PointersAlive, Slots, Used, Surfaces
<1>3. cursor' \in 0 .. MaxId
  BY <1>1, <1>2, SizesAssumption
<1>4. CursorOld'
  BY <1>1, <1>2, SizesAssumption DEF CursorOld, Inv, TreesOwned, TypeOK
<1>5. CursorFollowsPointer'
  BY <1>1 DEF CursorFollowsPointer
<1>6. SameTrees /\ SameTable /\ Served
  BY <1>1 DEF SameTrees, SameTable, Served
<1>7. OwnersAgree' /\ TreesOwned'
  BY <1>6, SameTreesKept
<1>8. PointersAlive'
  BY <1>1 DEF Inv, PointersAlive, InUse
<1>9. Core'
  BY <1>1, <1>3, <1>4, <1>5, <1>7, <1>8 DEF Core, Inv, TypeOK
<1> QED BY <1>1, <1>9 DEF Isolated

LEMMA RejectedKeeps ==
    ASSUME Inv, NEW c \in Clients, Rejected(c)
    PROVE  Core' /\ Isolated(c)
<1>1. UNCHANGED <<clients, lists, surf, z, nextId, hovered, grab, interaction, cursor, phase>>
  BY DEF Rejected, pointerVars, surfaceVars
<1>2. SameTrees /\ UNCHANGED <<pointerVars, cursor, clients>>
  BY <1>1 DEF SameTrees, SameTable, pointerVars
<1>3. Core'
  BY <1>1, <1>2, FieldsKeep DEF Inv, TypeOK
<1> QED BY <1>1, <1>3 DEF Isolated

\* Every request, and the loss of a client.
LEMMA RequestKeeps ==
    ASSUME Inv, NEW c \in Clients, Request(c)
    PROVE  Core' /\ Isolated(c)
<1>1. CASE Hello(c)
  BY <1>1, HelloKeeps DEF Hello, Isolated, surfaceVars, pointerVars
<1> QED BY <1>1, RejectedKeeps, SurfaceCreateKeeps, SurfaceAttachKeeps, SurfaceCommitKeeps,
           SurfaceDestroyKeeps, SurfaceFrameKeeps, SetRoleTopKeeps, SetRoleChildKeeps,
           SetRoleBadParentKeeps, SetCursorKeeps DEF Request

-----------------------------------------------------------------------------
(* The input and the loop *)

LEMMA VisibleInUse == Visible \subseteq Used
<1> DEFINE S == {u \in Slots : Painted(u)}
<1>1. S \in SUBSET Slots /\ S \subseteq Used
  BY DEF Painted, Used
<1>2. /\ \A u \in Slots : Painted(u) /\ ~ IsChild(u) => u \in S
      /\ \A u \in S : \A v \in Slots : Painted(v) /\ ChildOf(v, u) => v \in S
  OBVIOUS
<1> HIDE DEF S
<1>3. Visible \subseteq S
  BY <1>1, <1>2 DEF Visible
<1> QED BY <1>1, <1>3

\* A hit finds a surface in use, or none.
LEMMA HitFacts ==
    ASSUME NEW hit \in Hits
    PROVE  /\ hit[2] # 0 => hit[2] \in Used /\ hit[2] \in Slots
           /\ hit[1] # "none" => hit[2] \in Used /\ hit[2] \in Slots
           /\ Content(hit) # 0 => Content(hit) \in Used /\ Content(hit) \in Slots
<1>1. Visible \subseteq Used /\ Used \subseteq Slots
  BY VisibleInUse DEF Used
<1>2. \/ hit = <<"none", 0>>
      \/ \E s \in Visible : hit = <<"content", s>>
      \/ \E s \in Visible, r \in {"titlebar", "min", "max", "close"} : hit = <<r, s>>
  BY DEF Hits
<1> QED BY <1>1, <1>2 DEF Content

\* What an event may do to the table and the pointers.
EventOK ==
    /\ SameTrees /\ UNCHANGED clients
    /\ surf' \in [Slots -> Surfaces] /\ z' \in [Slots -> Int]
    /\ hovered' # 0 => hovered' \in Slots /\ hovered' \in Used
    /\ grab' # 0 => grab' \in Slots /\ grab' \in Used
    /\ interaction' \in {"none", "move"} /\ ((interaction' = "move") <=> (grab' # 0))
    /\ cursor' = 0 \/ (cursor' = cursor /\ hovered' = hovered)
    /\ phase' \in {"running", "quitting", "stopped", "overflow"}

LEMMA EventKeeps == ASSUME Inv, EventOK PROVE Core'
<1>1. SameTable /\ Served /\ SameTrees /\ UNCHANGED <<lists, nextId>>
  BY DEF EventOK, SameTrees, SameTable, Served
<1>2. OwnersAgree' /\ TreesOwned' /\ Used' = Used
  BY <1>1, SameTreesKept, SameOwners
<1>3. PointersAlive'
  BY <1>1 DEF EventOK, PointersAlive, Used, InUse, SameTable
<1>4. Named(cursor)' = {s \in Slots : surf'[s].id # 0 /\ surf'[s].id = cursor'}
  BY DEF Named, InUse, Slots
<1>5. CursorFollowsPointer'
  <2>1. CASE cursor' = 0
    BY <2>1 DEF CursorFollowsPointer
  <2>2. CASE cursor' = cursor /\ hovered' = hovered
    <3>1. \A s \in Slots : surf'[s].id = surf[s].id
      BY <1>1 DEF SameTable
    <3>2. hovered # 0 => hovered \in Slots
      BY SizesAssumption DEF Inv, TypeOK, Slots
    <3>3. Named(cursor)' = Named(cursor)
      BY <1>4, <2>2, <3>1 DEF Named, InUse
    <3> QED BY <2>2, <3>1, <3>2, <3>3 DEF Inv, CursorFollowsPointer
  <2> QED BY <2>1, <2>2 DEF EventOK
<1>6. CursorOld' /\ cursor' \in 0 .. MaxId
  BY <1>1, SizesAssumption DEF EventOK, CursorOld, Inv, TypeOK
<1>7. hovered' \in 0 .. NumSlots /\ grab' \in 0 .. NumSlots
  BY SizesAssumption DEF EventOK, Slots
<1> QED BY <1>1, <1>2, <1>3, <1>5, <1>6, <1>7 DEF EventOK, Core, Inv, TypeOK

\* The pointers as they stand.
LEMMA PointersStand ==
    ASSUME Inv
    PROVE  /\ hovered # 0 => hovered \in Slots /\ hovered \in Used
           /\ grab # 0 => grab \in Slots /\ grab \in Used
           /\ interaction \in {"none", "move"} /\ ((interaction = "move") <=> (grab # 0))
           /\ surf \in [Slots -> Surfaces] /\ z \in [Slots -> Int]
           /\ phase \in {"running", "quitting", "stopped", "overflow"}
BY SizesAssumption DEF Inv, TypeOK, PointersAlive, Used, Slots

LEMMA MouseMotionKeeps ==
    ASSUME Inv, MouseMotion
    PROVE  EventOK /\ UNCHANGED desktopVars
<1>1. /\ UNCHANGED <<clients, nextId, surf, lists, z, grab, interaction, phase>>
      /\ UNCHANGED desktopVars
  BY DEF MouseMotion, PointerMoves, GrabMoves, inputVars, surfaceVars, pointerVars
<1>2. SameTrees
  BY <1>1 DEF SameTrees, SameTable
<1>3. CASE PointerMoves
  <2>1. CASE hovered' = 0 /\ cursor' = 0
    BY <1>1, <1>2, <2>1, PointersStand DEF EventOK
  <2>2. CASE \E hit \in Hits :
               /\ hovered' = Content(hit)
               /\ cursor' = IF hovered # Content(hit) \/ hit[1] # "content" THEN 0 ELSE cursor
    <3>1. PICK hit \in Hits :
               /\ hovered' = Content(hit)
               /\ cursor' = IF hovered # Content(hit) \/ hit[1] # "content" THEN 0 ELSE cursor
      BY <2>2
    <3>2. hovered' # 0 => hovered' \in Slots /\ hovered' \in Used
      BY <3>1, HitFacts
    <3>3. cursor' = 0 \/ (cursor' = cursor /\ hovered' = hovered)
      BY <3>1
    <3> QED BY <1>1, <1>2, <3>2, <3>3, PointersStand DEF EventOK
  <2> QED BY <1>3, <2>1, <2>2 DEF PointerMoves
<1>4. CASE GrabMoves
  <2>1. UNCHANGED <<hovered, cursor>>
    BY <1>4 DEF GrabMoves, pointerVars
  <2> QED BY <1>1, <1>2, <2>1, PointersStand DEF EventOK
<1> QED BY <1>1, <1>3, <1>4 DEF MouseMotion

\* A press may minimize, maximize, raise or grab what it hit.
LEMMA PressedKeeps ==
    ASSUME Inv, NEW hit \in Hits, NEW left \in BOOLEAN, NEW alt \in BOOLEAN,
           Pressed(hit, left, alt), UNCHANGED <<clients, nextId, hovered, cursor, phase>>
    PROVE  EventOK
<1>1. /\ hit[2] # 0 => hit[2] \in Used /\ hit[2] \in Slots
      /\ hit[1] # "none" => hit[2] \in Used /\ hit[2] \in Slots
  BY HitFacts
<1>2. z' \in [Slots -> Int]
  <2>1. CASE hit[2] # 0
    <3>1. Subtree(hit[2]) \in SUBSET Slots
      BY <1>1, <2>1, SubtreeClosed
    <3>2. RaisedAll(Subtree(hit[2])) \in [Slots -> Int]
      BY <3>1, RaisedType DEF Inv, TypeOK
    <3> QED BY <2>1, <3>2 DEF Pressed
  <2>2. CASE hit[2] = 0
    BY <2>2 DEF Pressed, Inv, TypeOK
  <2> QED BY <2>1, <2>2
<1>3. surf' = IF hit[1] = "min" THEN [surf EXCEPT ![hit[2]].minimized = TRUE]
              ELSE IF hit[1] = "max" THEN [surf EXCEPT ![hit[2]].maximized = ~ @]
              ELSE surf
  BY DEF Pressed
<1>4. /\ surf' \in [Slots -> Surfaces]
      /\ \A t \in Slots : /\ surf'[t].id = surf[t].id /\ surf'[t].owner = surf[t].owner
                          /\ surf'[t].role = surf[t].role /\ surf'[t].parent = surf[t].parent
  <2>1. CASE hit[1] = "min"
    <3>1. hit[2] \in Slots /\ surf' = [surf EXCEPT ![hit[2]].minimized = TRUE]
      BY <1>1, <1>3, <2>1
    <3>2. TRUE \in BOOLEAN /\ "toplevel" \in Roles
      BY DEF Roles
    <3>3. [surf EXCEPT ![hit[2]].minimized = TRUE] \in [Slots -> Surfaces]
      BY <3>1, <3>2, FieldTypes DEF Inv
    <3>4. \A t \in Slots : /\ surf'[t].id = surf[t].id /\ surf'[t].owner = surf[t].owner
                           /\ surf'[t].role = surf[t].role
                           /\ surf'[t].parent = surf[t].parent
      BY <3>1 DEF Inv, TypeOK, Surfaces
    <3> QED BY <3>1, <3>3, <3>4
  <2>2. CASE hit[1] = "max"
    <3>1. hit[2] \in Slots /\ surf[hit[2]].maximized \in BOOLEAN
      BY <1>1, <2>2 DEF Inv, TypeOK, Surfaces
    <3>2. PICK b \in BOOLEAN : surf' = [surf EXCEPT ![hit[2]].maximized = b]
      BY <1>3, <2>2, <3>1
    <3>3. [surf EXCEPT ![hit[2]].maximized = b] \in [Slots -> Surfaces]
      BY <3>1, FieldTypes DEF Inv, Roles
    <3>4. \A t \in Slots : /\ surf'[t].id = surf[t].id /\ surf'[t].owner = surf[t].owner
                           /\ surf'[t].role = surf[t].role
                           /\ surf'[t].parent = surf[t].parent
      BY <3>1, <3>2 DEF Inv, TypeOK, Surfaces
    <3> QED BY <3>2, <3>3, <3>4
  <2>3. CASE hit[1] # "min" /\ hit[1] # "max"
    BY <1>3, <2>3 DEF Inv, TypeOK
  <2> QED BY <2>1, <2>2, <2>3
<1>5. \/ interaction' = "move" /\ grab' = hit[2] /\ hit[1] # "none"
      \/ UNCHANGED <<interaction, grab>>
  BY DEF Pressed
<1>6. /\ grab' # 0 => grab' \in Slots /\ grab' \in Used
      /\ interaction' \in {"none", "move"} /\ ((interaction' = "move") <=> (grab' # 0))
  BY <1>1, <1>5, PointersStand DEF Slots
<1>7. SameTrees
  BY <1>4 DEF Pressed, SameTrees, SameTable
<1> QED BY <1>2, <1>4, <1>6, <1>7, PointersStand DEF EventOK

\* What the desktop may do to the surfaces.
Rearranged ==
    /\ surf' \in [Slots -> Surfaces] /\ z' \in [Slots -> Int] /\ UNCHANGED lists
    /\ phase' \in {"running", "quitting", "stopped", "overflow"}
    /\ \A t \in Slots : /\ surf'[t].id = surf[t].id /\ surf'[t].owner = surf[t].owner
                        /\ surf'[t].role = surf[t].role /\ surf'[t].parent = surf[t].parent

LEMMA NotRearranged ==
    ASSUME Inv, UNCHANGED <<surfaceVars, phase>>
    PROVE  Rearranged
<1>1. UNCHANGED <<lists, surf, z, phase>>
  BY DEF surfaceVars
<1> QED BY <1>1 DEF Rearranged, Inv, TypeOK

\* An entry of the menu minimizes, restores and maximizes windows.
LEMMA RunEntryKeeps ==
    ASSUME Inv, NEW e, RunEntry(e)
    PROVE  Rearranged
<1>1. ASSUME NEW s \in Slots
      PROVE  /\ AfterEntry(e, s) \in Surfaces
             /\ AfterEntry(e, s).id = surf[s].id /\ AfterEntry(e, s).owner = surf[s].owner
             /\ AfterEntry(e, s).role = surf[s].role
             /\ AfterEntry(e, s).parent = surf[s].parent
  <2>1. surf[s] \in Surfaces
    BY DEF Inv, TypeOK
  <2>2. CASE AfterEntry(e, s) = [surf[s] EXCEPT !.maximized = FALSE]
    BY <2>1, <2>2 DEF Surfaces
  <2>3. CASE AfterEntry(e, s) = [surf[s] EXCEPT !.maximized = FALSE, !.minimized = FALSE]
    BY <2>1, <2>3 DEF Surfaces
  <2>4. CASE AfterEntry(e, s) = [surf[s] EXCEPT !.minimized = TRUE]
    BY <2>1, <2>4 DEF Surfaces
  <2>5. CASE AfterEntry(e, s) = surf[s]
    BY <2>1, <2>5
  <2> QED BY <2>2, <2>3, <2>4, <2>5 DEF AfterEntry
<1>2. surf' = [s \in Slots |-> IF s \in Windows THEN AfterEntry(e, s) ELSE surf[s]]
  BY DEF RunEntry
<1>3. \A s \in Slots : surf[s] \in Surfaces
  BY DEF Inv, TypeOK
<1>4. surf' \in [Slots -> Surfaces]
  BY <1>1, <1>2, <1>3
<1>5. \A t \in Slots : /\ surf'[t].id = surf[t].id /\ surf'[t].owner = surf[t].owner
                       /\ surf'[t].role = surf[t].role /\ surf'[t].parent = surf[t].parent
  BY <1>1, <1>2
<1>6. UNCHANGED <<lists, z>> /\ phase' \in {"running", "quitting", "stopped", "overflow"}
  BY DEF RunEntry, Inv, TypeOK
<1> QED BY <1>4, <1>5, <1>6 DEF Rearranged, Inv, TypeOK

\* A click on an item minimizes, restores or raises one window.
LEMMA ItemClickedKeeps ==
    ASSUME Inv, NEW i, ItemClicked(i)
    PROVE  Rearranged
<1>1. UNCHANGED <<lists, phase>>
  BY DEF ItemClicked
<1>2. CASE UNCHANGED <<surf, z>>
  BY <1>1, <1>2, NotRearranged DEF surfaceVars
<1>3. CASE \E s \in Windows :
             \/ surf' = [surf EXCEPT ![s].minimized = FALSE] /\ z' = Raised(s)
             \/ surf' = [surf EXCEPT ![s].minimized = TRUE] /\ UNCHANGED z
             \/ UNCHANGED surf /\ z' = Raised(s)
  <2>1. PICK s \in Windows :
             \/ surf' = [surf EXCEPT ![s].minimized = FALSE] /\ z' = Raised(s)
             \/ surf' = [surf EXCEPT ![s].minimized = TRUE] /\ UNCHANGED z
             \/ UNCHANGED surf /\ z' = Raised(s)
    BY <1>3
  <2>2. s \in Slots
    BY DEF Windows
  <2>3. z' \in [Slots -> Int]
    BY <2>1, <2>2, RaisedOneType DEF Inv, TypeOK
  <2>4. CASE UNCHANGED surf
    BY <1>1, <2>3, <2>4 DEF Rearranged, Inv, TypeOK
  <2>5. CASE \E b \in BOOLEAN : surf' = [surf EXCEPT ![s].minimized = b]
    <3>1. PICK b \in BOOLEAN : surf' = [surf EXCEPT ![s].minimized = b]
      BY <2>5
    <3>2. [surf EXCEPT ![s].minimized = b] \in [Slots -> Surfaces]
      BY <2>2, FieldTypes DEF Inv, Roles
    <3>3. \A t \in Slots : /\ surf'[t].id = surf[t].id /\ surf'[t].owner = surf[t].owner
                           /\ surf'[t].role = surf[t].role
                           /\ surf'[t].parent = surf[t].parent
      BY <2>2, <3>1 DEF Inv, TypeOK, Surfaces
    <3> QED BY <1>1, <2>3, <3>1, <3>2, <3>3 DEF Rearranged, Inv, TypeOK
  <2> QED BY <2>1, <2>4, <2>5
<1>4. UNCHANGED <<surf, z>> \/
      \E s \in Windows :
             \/ surf' = [surf EXCEPT ![s].minimized = FALSE] /\ z' = Raised(s)
             \/ surf' = [surf EXCEPT ![s].minimized = TRUE] /\ UNCHANGED z
             \/ UNCHANGED surf /\ z' = Raised(s)
  BY DEF ItemClicked
<1> QED BY <1>2, <1>3, <1>4

\* The number of an item is one of the ids' numbers.
LEMMA PlaceFacts ==
    ASSUME Inv, NEW p \in Places, p[1] = "item"
    PROVE  p[2] \in 0 .. MaxId
<1>1. p[2] \in 1 .. Cardinality(items)
  BY DEF Places, Entries
<1>2. Cardinality(items) \in Nat /\ Cardinality(items) <= MaxId
  <2>1. 1 \in Int /\ MaxId \in Int
    BY SizesAssumption
  <2>2. IsFiniteSet(1 .. MaxId)
              /\ Cardinality(1 .. MaxId) = IF 1 > MaxId THEN 0 ELSE MaxId - 1 + 1
    BY <2>1, FS_Interval
  <2>3. items \subseteq 1 .. MaxId
    BY DEF Inv, TypeOK
  <2>4. IsFiniteSet(items) /\ Cardinality(items) <= Cardinality(1 .. MaxId)
    BY <2>2, <2>3, FS_Subset
  <2>5. Cardinality(items) \in Nat
    BY <2>4, FS_CardinalityType
  <2> QED BY <2>2, <2>4, <2>5, SizesAssumption
<1> QED BY <1>1, <1>2, SizesAssumption

\* The state of the panel that a button can change.
PanelOK == /\ menuOpen \in BOOLEAN /\ launcherPressed \in BOOLEAN
           /\ pressedItem \in 0 .. MaxId /\ items \subseteq 1 .. MaxId
           /\ focusedItem \in 0 .. MaxId

LEMMA DesktopPressKeeps ==
    ASSUME Inv, NEW p \in Places, NEW left \in BOOLEAN, DesktopPress(p, left)
    PROVE  Rearranged /\ PanelOK'
<1>1. RunEntry(p[1]) \/ UNCHANGED <<surfaceVars, phase>>
  BY DEF DesktopPress
<1>2. Rearranged
  BY <1>1, RunEntryKeeps, NotRearranged
<1>3. pressedItem' \in 0 .. MaxId
  BY PlaceFacts DEF DesktopPress, Inv, TypeOK
<1>4. menuOpen' \in BOOLEAN /\ launcherPressed' \in BOOLEAN /\ UNCHANGED <<items, focusedItem>>
  BY DEF DesktopPress
<1> QED BY <1>2, <1>3, <1>4 DEF PanelOK, Inv, TypeOK

LEMMA DesktopReleaseKeeps ==
    ASSUME Inv, NEW p \in Places, NEW left \in BOOLEAN, DesktopRelease(p, left)
    PROVE  Rearranged /\ PanelOK'
<1>1. ItemClicked(pressedItem) \/ UNCHANGED <<surfaceVars, phase>>
  BY DEF DesktopRelease
<1>2. Rearranged
  BY <1>1, ItemClickedKeeps, NotRearranged
<1>3. pressedItem' \in 0 .. MaxId
  BY SizesAssumption DEF DesktopRelease, Inv, TypeOK
<1>4. menuOpen' \in BOOLEAN /\ launcherPressed' \in BOOLEAN /\ UNCHANGED <<items, focusedItem>>
  BY DEF DesktopRelease, Inv, TypeOK
<1> QED BY <1>2, <1>3, <1>4 DEF PanelOK, Inv, TypeOK

LEMMA RearrangedEvent ==
    ASSUME Inv, Rearranged, UNCHANGED <<clients, nextId, pointerVars, cursor>>
    PROVE  EventOK
<1>1. UNCHANGED <<clients, nextId, hovered, grab, interaction, cursor>>
  BY DEF pointerVars
<1>2. SameTrees
  BY <1>1 DEF Rearranged, SameTrees, SameTable
<1>3. UNCHANGED Used
  BY <1>2, SameOwners DEF SameTrees, Served, EventOK
<1> QED BY <1>1, <1>2, PointersStand DEF EventOK, Rearranged

LEMMA SamePanel ==
    ASSUME Inv, UNCHANGED desktopVars
    PROVE  PanelOK'
<1>1. UNCHANGED <<items, focusedItem, menuOpen, launcherPressed, pressedItem>>
  BY DEF desktopVars
<1> QED BY <1>1 DEF PanelOK, Inv, TypeOK

LEMMA ButtonDownKeeps ==
    ASSUME Inv, NEW left \in BOOLEAN, ButtonDown(left)
    PROVE  EventOK /\ PanelOK'
<1>1. UNCHANGED <<clients, nextId, hovered, cursor>>
  BY DEF ButtonDown, inputVars
<1>2. PICK p \in Places, hit \in Hits, alt \in BOOLEAN :
          \/ Pressed(hit, left, alt) /\ UNCHANGED <<desktopVars, phase>>
          \/ UNCHANGED <<surfaceVars, interaction, grab>> /\ UNCHANGED <<desktopVars, phase>>
          \/ DesktopPress(p, left) /\ UNCHANGED <<interaction, grab>>
          \/ /\ Pressed(hit, left, alt)
             /\ menuOpen' = (menuOpen /\ ~ left)
             /\ UNCHANGED <<items, focusedItem, launcherPressed, pressedItem, phase>>
  BY DEF ButtonDown
<1>3. CASE Pressed(hit, left, alt) /\ UNCHANGED <<desktopVars, phase>>
  BY <1>1, <1>3, PressedKeeps, SamePanel
<1>4. CASE UNCHANGED <<surfaceVars, interaction, grab>> /\ UNCHANGED <<desktopVars, phase>>
  <2>1. Rearranged /\ PanelOK'
    BY <1>4, NotRearranged, SamePanel
  <2>2. UNCHANGED <<clients, nextId, pointerVars, cursor>>
    BY <1>1, <1>4 DEF pointerVars
  <2> QED BY <2>1, <2>2, RearrangedEvent
<1>5. CASE DesktopPress(p, left) /\ UNCHANGED <<interaction, grab>>
  <2>1. Rearranged /\ PanelOK'
    BY <1>5, DesktopPressKeeps
  <2>2. UNCHANGED <<clients, nextId, pointerVars, cursor>>
    BY <1>1, <1>5 DEF pointerVars
  <2> QED BY <2>1, <2>2, RearrangedEvent
<1>6. CASE /\ Pressed(hit, left, alt)
           /\ menuOpen' = (menuOpen /\ ~ left)
           /\ UNCHANGED <<items, focusedItem, launcherPressed, pressedItem, phase>>
  <2>1. EventOK
    BY <1>1, <1>6, PressedKeeps
  <2>2. PanelOK'
    BY <1>6 DEF PanelOK, Inv, TypeOK
  <2> QED BY <2>1, <2>2
<1> QED BY <1>2, <1>3, <1>4, <1>5, <1>6

LEMMA ButtonUpKeeps ==
    ASSUME Inv, NEW left \in BOOLEAN, ButtonUp(left)
    PROVE  EventOK /\ PanelOK'
<1>1. UNCHANGED <<clients, nextId, hovered, cursor>>
  BY DEF ButtonUp, inputVars
<1>2. CASE /\ interaction' = "none" /\ grab' = 0
           /\ UNCHANGED <<surfaceVars, desktopVars, phase>>
  <2>1. UNCHANGED <<lists, surf, z, phase>> /\ PanelOK'
    BY <1>2, SamePanel DEF surfaceVars
  <2>2. SameTrees
    BY <1>1, <2>1 DEF SameTrees, SameTable
  <2> QED BY <1>1, <1>2, <2>1, <2>2, PointersStand DEF EventOK
<1>3. CASE /\ \/ \E p \in Places : DesktopRelease(p, left)
              \/ UNCHANGED <<surfaceVars, desktopVars, phase>>
           /\ UNCHANGED <<interaction, grab>>
  <2>1. Rearranged /\ PanelOK'
    <3>1. CASE \E p \in Places : DesktopRelease(p, left)
      BY <3>1, DesktopReleaseKeeps
    <3>2. CASE UNCHANGED <<surfaceVars, desktopVars, phase>>
      BY <3>2, NotRearranged, SamePanel
    <3> QED BY <1>3, <3>1, <3>2
  <2>2. UNCHANGED <<clients, nextId, pointerVars, cursor>>
    BY <1>1, <1>3 DEF pointerVars
  <2> QED BY <2>1, <2>2, RearrangedEvent
<1> QED BY <1>2, <1>3 DEF ButtonUp

\* Every input event.
LEMMA InputKeeps == ASSUME Inv, Input PROVE EventOK /\ PanelOK'
<1>1. CASE MouseMotion
  <2>1. EventOK /\ UNCHANGED desktopVars
    BY <1>1, MouseMotionKeeps
  <2> QED BY <2>1, SamePanel
<1>2. CASE MouseButton
  <2>1. \E left \in BOOLEAN : ButtonDown(left) \/ ButtonUp(left)
    BY <1>2 DEF MouseButton
  <2> QED BY <2>1, ButtonDownKeeps, ButtonUpKeeps
<1>3. CASE Escape
  <2>1. /\ UNCHANGED <<clients, nextId, lists, surf, z, pointerVars, cursor, desktopVars>>
        /\ phase' \in {"running", "quitting", "stopped", "overflow"}
    BY <1>3 DEF Escape, inputVars, surfaceVars, Inv, TypeOK
  <2>2. Rearranged
    BY <2>1 DEF Rearranged, Inv, TypeOK
  <2> QED BY <2>1, <2>2, RearrangedEvent, SamePanel
<1>4. CASE MenuKey
  <2>1. /\ UNCHANGED <<clients, nextId, pointerVars, cursor>>
        /\ UNCHANGED <<surfaceVars, phase>>
    BY <1>4 DEF MenuKey, inputVars
  <2>2. PanelOK'
    <3>1. CASE ToggleMenu
      BY <3>1 DEF ToggleMenu, PanelOK, Inv, TypeOK
    <3>2. CASE UNCHANGED desktopVars
      BY <3>2, SamePanel
    <3> QED BY <1>4, <3>1, <3>2 DEF MenuKey
  <2>3. Rearranged
    BY <2>1, NotRearranged
  <2> QED BY <2>1, <2>2, <2>3, RearrangedEvent
<1> QED BY <1>1, <1>2, <1>3, <1>4 DEF Input

\* A painted frame changes the panel's picture and the frames asked for.
LEMMA RepaintKeeps == ASSUME Inv, Repaint PROVE Inv'
<1>1. UNCHANGED <<clients, lists, z, nextId, pointerVars, cursor, phase>>
  BY DEF Repaint
<1> DEFINE got(s) == [surf[s] EXCEPT !.wantsFrame = FALSE, !.waiting = FALSE]
<1>2. PICK D \in SUBSET Armed : surf' = [s \in Slots |-> IF s \in D THEN got(s) ELSE surf[s]]
  BY Zenon DEF Repaint, Deliver
<1>3. ASSUME NEW s \in Slots
      PROVE  /\ surf[s] \in Surfaces /\ got(s) \in Surfaces
             /\ got(s).id = surf[s].id /\ got(s).owner = surf[s].owner
             /\ got(s).role = surf[s].role /\ got(s).parent = surf[s].parent
  <2>1. surf[s] \in Surfaces
    BY DEF Inv, TypeOK
  <2> QED BY <2>1 DEF Surfaces
<1> HIDE DEF got
<1>4. /\ surf' \in [Slots -> Surfaces]
      /\ \A s \in Slots : /\ surf'[s].id = surf[s].id /\ surf'[s].owner = surf[s].owner
                          /\ surf'[s].role = surf[s].role /\ surf'[s].parent = surf[s].parent
  BY <1>2, <1>3
<1>5. SameTrees
  BY <1>1, <1>4 DEF SameTrees, SameTable
<1>6. Core'
  BY <1>1, <1>4, <1>5, FieldsKeep DEF Inv, TypeOK
<1>7. PanelOK'
  <2>1. CASE Tick
    <3>1. items' \subseteq 1 .. MaxId
      <4>1. ASSUME NEW s \in Windows
            PROVE  surf[s].id \in 1 .. MaxId
        <5>1. s \in Slots /\ surf[s].id # 0
          BY DEF Windows, InUse
        <5>2. surf[s].id \in 0 .. MaxId
          BY <5>1 DEF Inv, TypeOK, Surfaces
        <5> QED BY <5>1, <5>2, SizesAssumption
      <4> QED BY <2>1, <4>1 DEF Tick, Smallest, Ids
    <3>2. focusedItem' \in 0 .. MaxId
      BY <2>1, <3>1, SizesAssumption DEF Tick
    <3>3. UNCHANGED <<menuOpen, launcherPressed, pressedItem>>
      BY <2>1 DEF Tick
    <3> QED BY <3>1, <3>2, <3>3 DEF PanelOK, Inv, TypeOK
  <2>2. CASE UNCHANGED desktopVars
    BY <2>2, SamePanel
  <2> QED BY <2>1, <2>2 DEF Repaint
<1>8. needsRepaint' \in BOOLEAN
  BY <1>1 DEF Repaint, Inv, TypeOK
<1>9. DesktopOK'
  BY <1>7, <1>8 DEF DesktopOK, PanelOK
<1> QED BY <1>6, <1>9, InvParts DEF Inv, Core, DesktopOK, TypeOK

\* Shutdown frees every surface: each is in the list of its owner.
LEMMA ShutdownKeeps == ASSUME Inv, Shutdown PROVE Inv'
<1>1. UNCHANGED <<nextId, cursor, desktopVars, needsRepaint>>
  BY DEF Shutdown
<1>2. DesktopOK'
  BY <1>1 DEF DesktopOK, desktopVars, Inv, TypeOK
<1>3. CASE \E s \in Used : OnCycle(s)
  <2>1. phase' = "overflow" /\ UNCHANGED <<clients, lists, surf, z, pointerVars, cursor>>
    BY <1>1, <1>3 DEF Shutdown, surfaceVars
  <2>2. SameTrees /\ UNCHANGED <<clients, pointerVars, cursor>>
    BY <1>1, <2>1 DEF SameTrees, SameTable
  <2>3. surf' \in [Slots -> Surfaces] /\ z' \in [Slots -> Int]
    BY <2>1 DEF Inv, TypeOK
  <2>4. Core'
    BY <2>1, <2>2, <2>3, FieldsKeep
  <2> QED BY <1>2, <2>4 DEF Inv, Core, DesktopOK, TypeOK
<1>4. CASE ~ \E s \in Used : OnCycle(s)
  <2> DEFINE F == UNION {UNION {Subtree(s) : s \in lists[c]} : c \in Clients}
  <2>1. FreeAll(F) /\ clients' = [c \in Clients |-> "free"] /\ phase' = "stopped"
    BY <1>4 DEF Shutdown
  <2>2. ASSUME NEW c \in Clients
        PROVE  /\ UNION {Subtree(s) : s \in lists[c]} \in SUBSET Slots
               /\ lists[c] \subseteq UNION {Subtree(s) : s \in lists[c]}
               /\ Down(UNION {Subtree(s) : s \in lists[c]})
    <3>1. lists[c] \in SUBSET Slots
      BY DEF Inv, TypeOK
    <3> QED BY <3>1, ForestClosed
  <2>3. F \in SUBSET Slots
    BY <2>2
  <2>4. ASSUME NEW u \in F, NEW v \in Slots, ChildOf(v, u)
        PROVE  v \in F
    <3>1. PICK c \in Clients : u \in UNION {Subtree(s) : s \in lists[c]}
      OBVIOUS
    <3>2. v \in UNION {Subtree(s) : s \in lists[c]}
      BY <2>2, <2>4, <3>1 DEF Down
    <3> QED BY <3>2
  <2>5. ASSUME NEW s \in Used
        PROVE  s \in F
    <3>1. s \in Slots /\ surf[s].owner \in Clients /\ s \in lists[surf[s].owner]
      BY DEF Inv, OwnersAgree, Owned, Used
    <3> QED BY <2>2, <3>1
  <2> HIDE DEF F
  <2>6. Down(F)
    BY <2>4 DEF Down
  <2>7. Used' = {}
    BY <2>1, <2>3, <2>5, FreeAllSlots DEF Inv
  <2>8. /\ surf' \in [Slots -> Surfaces] /\ z' \in [Slots -> Int]
        /\ lists' \in [Clients -> SUBSET Slots]
        /\ \A c \in Clients : Cardinality(lists'[c]) <= PerClient
        /\ hovered' \in 0 .. NumSlots /\ grab' \in 0 .. NumSlots
        /\ interaction' \in {"none", "move"}
    BY <2>1, <2>3, FreeAllType DEF Inv
  <2>9. /\ \A c \in Clients : lists'[c] = {s \in Slots : Owned(c, s)'}
        /\ PointersAlive' /\ TreesOwned' /\ CursorFollowsPointer' /\ CursorOld'
    BY <1>1, <2>1, <2>3, <2>6, FreeAllKeeps
  <2>10. OwnersAgree'
    BY <2>7, <2>9 DEF OwnersAgree, Clients, Slots
  <2>11. /\ clients' \in [Clients -> {"free", "connected", "ready"}]
         /\ nextId' \in 0 .. MaxId /\ cursor' \in 0 .. MaxId
    BY <1>1, <2>1 DEF Inv, TypeOK
  <2>12. Core'
    BY <2>1, <2>8, <2>9, <2>10, <2>11 DEF Core
  <2> QED BY <1>2, <2>12 DEF Inv, Core, DesktopOK, TypeOK
<1> QED BY <1>3, <1>4

-----------------------------------------------------------------------------
(* The theorems *)

LEMMA InitInv == Init => Inv
<1> SUFFICES ASSUME Init
             PROVE  Inv
  OBVIOUS
<1>1. /\ clients = [c \in Clients |-> "free"] /\ lists = [c \in Clients |-> {}]
      /\ surf = [s \in Slots |-> NoSurface] /\ z = [s \in Slots |-> 0]
      /\ nextId = 0 /\ hovered = 0 /\ interaction = "none" /\ grab = 0 /\ cursor = 0
  BY DEF Init
<1>2. NoSurface \in Surfaces /\ NoSurface.id = 0
  <2>1. 0 \in 0 .. MaxId /\ 0 \in 0 .. NumClients
    BY SizesAssumption
  <2> QED BY <2>1 DEF NoSurface, NewSurface, Surfaces, Roles
<1>3. Used = {} /\ \A c \in Clients, s \in Slots : ~ Owned(c, s)
  BY <1>1, <1>2 DEF Used, InUse, Owned
<1>4. \A c \in Clients : Cardinality(lists[c]) <= PerClient
  <2>1. Cardinality({}) = 0
    BY FS_EmptySet
  <2> QED BY <1>1, <2>1, SizesAssumption
<1>5. surf \in [Slots -> Surfaces] /\ z \in [Slots -> Int]
  BY <1>1, <1>2
<1>6. TypeOK
  <2>1. clients \in [Clients -> {"free", "connected", "ready"}]
        /\ lists \in [Clients -> SUBSET Slots]
    BY <1>1
  <2>2. /\ nextId \in 0 .. MaxId /\ cursor \in 0 .. MaxId /\ focusedItem \in 0 .. MaxId
        /\ pressedItem \in 0 .. MaxId /\ hovered \in 0 .. NumSlots /\ grab \in 0 .. NumSlots
    BY SizesAssumption DEF Init
  <2>3. /\ items \subseteq 1 .. MaxId /\ menuOpen \in BOOLEAN /\ launcherPressed \in BOOLEAN
        /\ needsRepaint \in BOOLEAN
        /\ phase \in {"running", "quitting", "stopped", "overflow"}
    BY DEF Init
  <2> QED BY <1>1, <1>4, <1>5, <2>1, <2>2, <2>3 DEF TypeOK
<1>7. OwnersAgree /\ TreesOwned
  BY <1>1, <1>3 DEF OwnersAgree, TreesOwned
<1>8. PointersAlive /\ CursorFollowsPointer /\ CursorOld
  BY <1>1 DEF PointersAlive, CursorFollowsPointer, CursorOld
<1> QED BY <1>6, <1>7, <1>8 DEF Inv

LEMMA SameInv == ASSUME Inv, UNCHANGED vars PROVE Inv'
<1>1. /\ UNCHANGED <<clients, lists, surf, z, nextId, hovered, interaction, grab, cursor,
                     phase, items, focusedItem, menuOpen, launcherPressed, pressedItem,
                     needsRepaint>>
  BY DEF vars, surfaceVars, pointerVars, desktopVars
<1>2. SameTrees /\ UNCHANGED <<clients, pointerVars, cursor>>
  BY <1>1 DEF SameTrees, SameTable, pointerVars
<1>3. Core'
  BY <1>1, <1>2, FieldsKeep DEF Inv, TypeOK
<1>4. DesktopOK'
  BY <1>1 DEF DesktopOK, Inv, TypeOK
<1> QED BY <1>3, <1>4 DEF Inv, Core, DesktopOK, TypeOK

\* One step, action by action.
LEMMA NextInv == ASSUME Inv, Next PROVE Inv'
<1>1. CASE phase = "running" /\ Serve
  <2>1. /\ Accept \/ \E c \in Clients : Dropped(c) \/ Request(c)
        /\ needsRepaint' = TRUE /\ UNCHANGED desktopVars
    BY <1>1 DEF Serve
  <2>2. Core'
    <3>1. CASE Accept
      BY <3>1, AcceptKeeps
    <3>2. CASE \E c \in Clients : Dropped(c)
      BY <1>1, <3>2, DropClientKeeps DEF Dropped
    <3>3. CASE \E c \in Clients : Request(c)
      BY <3>3, RequestKeeps
    <3> QED BY <2>1, <3>1, <3>2, <3>3
  <2>3. DesktopOK'
    BY <2>1 DEF DesktopOK, desktopVars, Inv, TypeOK
  <2> QED BY <2>2, <2>3 DEF Inv, Core, DesktopOK, TypeOK
<1>2. CASE ReadInput
  <2>1. EventOK /\ PanelOK' /\ needsRepaint' = TRUE
    BY <1>2, InputKeeps DEF ReadInput
  <2>2. Core'
    BY <2>1, EventKeeps
  <2>3. DesktopOK'
    BY <2>1 DEF PanelOK, DesktopOK
  <2> QED BY <2>2, <2>3 DEF Inv, Core, DesktopOK, TypeOK
<1>3. CASE Repaint
  BY <1>3, RepaintKeeps
<1>4. CASE Signal
  <2>1. /\ UNCHANGED <<clients, lists, surf, z, nextId, hovered, interaction, grab, cursor,
                       items, focusedItem, menuOpen, launcherPressed, pressedItem,
                       needsRepaint>>
        /\ phase' \in {"running", "quitting", "stopped", "overflow"}
    BY <1>4 DEF Signal, surfaceVars, pointerVars, desktopVars
  <2>2. SameTrees /\ UNCHANGED <<clients, pointerVars, cursor>>
    BY <2>1 DEF SameTrees, SameTable, pointerVars
  <2>3. Core'
    BY <2>1, <2>2, FieldsKeep DEF Inv, TypeOK
  <2>4. DesktopOK'
    BY <2>1 DEF DesktopOK, Inv, TypeOK
  <2> QED BY <2>3, <2>4 DEF Inv, Core, DesktopOK, TypeOK
<1>5. CASE Shutdown
  BY <1>5, ShutdownKeeps
<1> QED BY <1>1, <1>2, <1>3, <1>4, <1>5 DEF Next

\* All parts of the invariant, in every behaviour.
THEOREM InvHolds == Spec => []Inv
<1>1. Init => Inv
  BY InitInv
<1>2. Inv /\ [Next]_vars => Inv'
  BY NextInv, SameInv
<1> QED BY <1>1, <1>2, PTL DEF Spec

\* The tables keep their types, and no client exceeds its surfaces[8], for every
\* size of the tables (swm.h, SURFACE_CREATE).
THEOREM TypeCorrect == Spec => []TypeOK
<1>1. Inv => TypeOK
  BY DEF Inv
<1> QED BY <1>1, InvHolds, PTL

\* A client's list and the owner pointers of the table agree, and dropping a
\* client leaves no surface behind that points to it.
THEOREM OwnersAlwaysAgree == Spec => []OwnersAgree
<1>1. Inv => OwnersAgree
  BY DEF Inv
<1> QED BY <1>1, InvHolds, PTL

\* grab_surface and hovered_surface never dangle.
THEOREM PointersAlwaysAlive == Spec => []PointersAlive
<1>1. Inv => PointersAlive
  BY DEF Inv
<1> QED BY <1>1, InvHolds, PTL

\* Ids are unique and a tree of surfaces belongs to one client.
THEOREM TreesAlwaysOwned == Spec => []TreesOwned
<1>1. Inv => TreesOwned
  BY DEF Inv
<1> QED BY <1>1, InvHolds, PTL

\* The cursor shown belongs to the surface under the pointer or to none.
THEOREM CursorFollows == Spec => []CursorFollowsPointer
<1>1. Inv => CursorFollowsPointer
  BY DEF Inv
<1> QED BY <1>1, InvHolds, PTL

\* Dropping a client, whatever the loop does, leaves the others alone.
LEMMA DroppedIsolated ==
    ASSUME Inv, NEW c \in Clients, Dropped(c)
    PROVE  Isolated(c)
<1> DEFINE R == lists[c]
<1>1. R \in SUBSET lists[c] /\ FreeTrees(R) /\ UNCHANGED <<nextId, cursor>>
  BY DEF Dropped, DropClient
<1>2. CASE \E s \in R : OnCycle(s)
  <2>1. phase' = "overflow"
    BY <1>1, <1>2 DEF FreeTrees
  <2>2. UNCHANGED clients
    BY <2>1 DEF Dropped, DropClient
  <2> QED BY <1>1, <1>2, <2>2, OverflowKeeps DEF Isolated
<1>3. CASE ~ \E s \in R : OnCycle(s)
  BY <1>1, <1>3, FreeTreesKeeps
<1> QED BY <1>2, <1>3

\* A step of one client, or its death, changes nothing of another's.
THEOREM ClientsIsolated == Spec => ClientIsolation
<1>1. ASSUME Inv, NEW c \in Clients, \E d \in Clients \ {c} : Request(d) \/ Dropped(d)
      PROVE  /\ lists'[c] = lists[c]
             /\ \A s \in lists[c] : /\ surf'[s] = surf[s]
                                    /\ hovered = s => hovered' = s
                                    /\ grab = s => grab' = s
  <2>1. PICK d \in Clients \ {c} : Request(d) \/ Dropped(d)
    BY <1>1
  <2>2. Isolated(d)
    BY <1>1, <2>1, RequestKeeps, DroppedIsolated
  <2> QED BY <2>1, <2>2 DEF Isolated
<1>2. Inv => [\A c \in Clients :
                 (\E d \in Clients \ {c} : Request(d) \/ Dropped(d)) =>
                     /\ lists'[c] = lists[c]
                     /\ \A s \in lists[c] : /\ surf'[s] = surf[s]
                                            /\ hovered = s => hovered' = s
                                            /\ grab = s => grab' = s]_vars
  BY <1>1
<1> QED BY <1>2, InvHolds, PTL DEF ClientIsolation

-----------------------------------------------------------------------------
(* Pointers and the reuse of slots *)

\* A surface in use keeps its id, or no pointer is left on its slot.
Steady == \A s \in Used : surf'[s].id = surf[s].id \/ (hovered' # s /\ grab' # s)

LEMMA SameTableSteady == ASSUME SameTable PROVE Steady
BY DEF SameTable, Steady, Used

LEMMA FreeAllSteady ==
    ASSUME TypeOK, NEW F \in SUBSET Slots, FreeAll(F)
    PROVE  Steady
<1>1. ASSUME NEW s \in Used
      PROVE  surf'[s].id = surf[s].id \/ (hovered' # s /\ grab' # s)
  <2>1. CASE s \in F
    BY <2>1, SizesAssumption DEF FreeAll, PointersCleared, Slots
  <2>2. CASE s \notin F
    BY <2>2, FreeAllSlots DEF Used
  <2> QED BY <2>1, <2>2
<1> QED BY <1>1 DEF Steady

LEMMA FreeTreesSteady ==
    ASSUME TypeOK, NEW R \in SUBSET Slots, FreeTrees(R)
    PROVE  Steady
<1>1. CASE \E s \in R : OnCycle(s)
  <2>1. UNCHANGED surf
    BY <1>1 DEF FreeTrees, surfaceVars
  <2> QED BY <2>1 DEF Steady
<1>2. CASE ~ \E s \in R : OnCycle(s)
  <2>1. FreeAll(UNION {Subtree(s) : s \in R})
    BY <1>2 DEF FreeTrees
  <2>2. UNION {Subtree(s) : s \in R} \in SUBSET Slots
    BY ForestClosed
  <2> QED BY <2>1, <2>2, FreeAllSteady
<1> QED BY <1>1, <1>2

\* Only freeing takes a surface from its slot, and a new one takes a free slot.
LEMMA RequestSteady ==
    ASSUME Inv, NEW c \in Clients, Request(c)
    PROVE  Steady
<1> USE DEF Used
<1>1. CASE Hello(c) \/ Rejected(c) \/ SetCursor(c)
  <2>1. UNCHANGED surf
    BY <1>1 DEF Hello, Rejected, SetCursor, surfaceVars
  <2> QED BY <2>1 DEF Steady
<1>2. CASE SurfaceCreate(c)
  <2>1. PICK s \in Slots : FirstFree(s) /\ surf' = [surf EXCEPT ![s] = NewSurface(nextId + 1, c)]
    BY <1>2 DEF SurfaceCreate
  <2>2. \A t \in Used : t # s /\ surf'[t] = surf[t]
    BY <2>1 DEF FirstFree, Inv, TypeOK
  <2> QED BY <2>2 DEF Steady
<1>3. CASE SurfaceDestroy(c)
  <2>1. PICK s \in Slots : FreeTrees({s})
    BY <1>3 DEF SurfaceDestroy
  <2>2. {s} \in SUBSET Slots
    OBVIOUS
  <2> QED BY <2>1, <2>2, FreeTreesSteady DEF Inv
<1>4. CASE SurfaceAttach(c) \/ SurfaceCommit(c) \/ SetRoleBadParent(c)
  <2>1. PICK s \in Slots : \E b :
            \/ surf' = [surf EXCEPT ![s].buffer = b]
            \/ surf' = [surf EXCEPT ![s].committed = b]
            \/ surf' = [surf EXCEPT ![s].role = b]
    <3>1. CASE SurfaceAttach(c)
      BY <3>1 DEF SurfaceAttach, Set
    <3>2. CASE SurfaceCommit(c)
      BY <3>2 DEF SurfaceCommit, Set
    <3>3. CASE SetRoleBadParent(c)
      BY <3>3 DEF SetRoleBadParent, Set
    <3> QED BY <1>4, <3>1, <3>2, <3>3
  <2> QED BY <2>1 DEF Steady, Inv, TypeOK, Surfaces
<1>5. CASE SurfaceFrame(c)
  <2>1. PICK s \in Slots : surf' = [surf EXCEPT ![s].wantsFrame = TRUE, ![s].waiting = TRUE]
    BY <1>5 DEF SurfaceFrame
  <2> QED BY <2>1 DEF Steady, Inv, TypeOK, Surfaces
<1>6. CASE SetRoleTop(c)
  <2>1. PICK s \in Slots : surf' = [surf EXCEPT ![s].role = "toplevel", ![s].parent = 0]
    BY <1>6 DEF SetRoleTop
  <2> QED BY <2>1 DEF Steady, Inv, TypeOK, Surfaces
<1>7. CASE SetRoleChild(c)
  <2>1. PICK s \in Slots, p \in Slots, r \in Roles \ {"toplevel"} :
            surf' = [surf EXCEPT ![s].role = r, ![s].parent = surf[p].id,
                                 ![s].maximized = FALSE, ![s].minimized = FALSE]
    BY <1>7, Zenon DEF SetRoleChild
  <2> QED BY <2>1 DEF Steady, Inv, TypeOK, Surfaces
<1> QED BY <1>1, <1>2, <1>3, <1>4, <1>5, <1>6, <1>7 DEF Request

LEMMA NextSteady == ASSUME Inv, Next PROVE Steady
<1>1. CASE Serve
  <2>1. CASE Accept
    BY <2>1 DEF Accept, surfaceVars, Steady
  <2>2. CASE \E c \in Clients : Dropped(c)
    <3>1. PICK c \in Clients : FreeTrees(lists[c])
      BY <2>2 DEF Dropped, DropClient
    <3>2. lists[c] \in SUBSET Slots
      BY DEF Inv, TypeOK
    <3> QED BY <3>1, <3>2, FreeTreesSteady DEF Inv
  <2>3. CASE \E c \in Clients : Request(c)
    BY <2>3, RequestSteady
  <2> QED BY <1>1, <2>1, <2>2, <2>3 DEF Serve
<1>2. CASE ReadInput
  BY <1>2, InputKeeps, SameTableSteady DEF ReadInput, EventOK, SameTrees
<1>3. CASE Repaint
  <2> DEFINE got(s) == [surf[s] EXCEPT !.wantsFrame = FALSE, !.waiting = FALSE]
  <2>1. PICK D \in SUBSET Armed : surf' = [s \in Slots |-> IF s \in D THEN got(s) ELSE surf[s]]
    BY <1>3, Zenon DEF Repaint, Deliver
  <2>2. \A s \in Slots : surf[s] \in Surfaces
    BY DEF Inv, TypeOK
  <2>3. \A s \in Slots : got(s).id = surf[s].id
    BY <2>2 DEF Surfaces
  <2> HIDE DEF got
  <2> QED BY <2>1, <2>3 DEF Steady, Used
<1>4. CASE Signal
  BY <1>4 DEF Signal, surfaceVars, Steady
<1>5. CASE Shutdown
  <2>1. CASE UNCHANGED surf
    BY <2>1 DEF Steady
  <2>2. CASE FreeAll(UNION {UNION {Subtree(s) : s \in lists[c]} : c \in Clients})
    <3>1. ASSUME NEW c \in Clients
          PROVE  UNION {Subtree(s) : s \in lists[c]} \in SUBSET Slots
      <4>1. lists[c] \in SUBSET Slots
        BY DEF Inv, TypeOK
      <4> QED BY <4>1, ForestClosed
    <3>2. UNION {UNION {Subtree(s) : s \in lists[c]} : c \in Clients} \in SUBSET Slots
      BY <3>1
    <3> QED BY <2>2, <3>2, FreeAllSteady DEF Inv
  <2> QED BY <1>5, <2>1, <2>2 DEF Shutdown, surfaceVars
<1> QED BY <1>1, <1>2, <1>3, <1>4, <1>5 DEF Next

\* The slot a pointer names is not given to another surface while it stands.
THEOREM NoHandoff == Spec => NoSilentHandoff
<1>1. ASSUME Inv, Next
      PROVE  /\ hovered # 0 /\ hovered' = hovered => surf'[hovered].id = surf[hovered].id
             /\ grab # 0 /\ grab' = grab => surf'[grab].id = surf[grab].id
  BY <1>1, NextSteady, PointersStand DEF Steady
<1>2. Inv /\ [Next]_vars =>
        [/\ hovered # 0 /\ hovered' = hovered => surf'[hovered].id = surf[hovered].id
         /\ grab # 0 /\ grab' = grab => surf'[grab].id = surf[grab].id]_vars
  BY <1>1
<1> QED BY <1>2, InvHolds, PTL DEF Spec, NoSilentHandoff

-----------------------------------------------------------------------------
(* The taskbar and the keyboard *)

\* A set of surfaces has a topmost one.  The sets of those above a surface get
\* smaller on the way up, and finite sets do not get smaller for ever.
LEMMA TopmostIsHighest ==
    ASSUME z \in [Slots -> Int], NEW S \in SUBSET Slots, S # {}
    PROVE  Topmost(S) \in S
<1> DEFINE Above(s) == {t \in S : z[t] > z[s]}
           T == {Above(s) : s \in S}
           R == StrictSubsetOrdering(S)
<1>1. IsFiniteSet(S)
    BY SlotSets
<1>2. IsWellFoundedOn(R, SUBSET S)
    BY <1>1, FS_StrictSubsetOrderingWellFounded, FS_FiniteSubsetsOfFinite
<1>3. T \subseteq SUBSET S /\ T # {}
    OBVIOUS
<1>4. \E x \in T : \A y \in T : ~ (<<y, x>> \in R)
  <2> HIDE DEF T, R
  <2> QED BY <1>2, <1>3, WFMin
<1>5. PICK s \in S : \A y \in T : ~ (<<y, Above(s)>> \in R)
    BY <1>4
<1>6. \A t \in S : z[t] <= z[s]
  <2> SUFFICES ASSUME NEW t \in S, z[t] > z[s]
               PROVE  FALSE
      OBVIOUS
  <2>1. Above(t) \subseteq Above(s) /\ t \in Above(s) /\ t \notin Above(t)
      OBVIOUS
  <2>2. <<Above(t), Above(s)>> \in R
      BY <2>1 DEF StrictSubsetOrdering
  <2> QED BY <1>5, <2>2
<1> QED BY <1>6 DEF Topmost

\* A position in a set is within it, so the first so many of a small set are all.
LEMMA SmallestOfFew ==
    ASSUME NEW S, IsFiniteSet(S), S \subseteq Int, NEW n \in Nat, Cardinality(S) <= n
    PROVE  Smallest(n, S) = S
<1>1. ASSUME NEW i \in S
      PROVE  Position(S, i) <= n
  <2>1. {j \in S : j <= i} \in SUBSET S
      OBVIOUS
  <2>2. IsFiniteSet({j \in S : j <= i}) /\ Cardinality({j \in S : j <= i}) <= Cardinality(S)
      BY <2>1, FS_Subset
  <2>3. Cardinality({j \in S : j <= i}) \in Nat /\ Cardinality(S) \in Nat
      BY <2>2, FS_CardinalityType
  <2> QED BY <2>2, <2>3 DEF Position
<1> QED BY <1>1 DEF Smallest

\* There are no more ids than surfaces.
LEMMA FewIds ==
    ASSUME Inv, NEW S \in SUBSET Slots
    PROVE  /\ Ids(S) \subseteq Int /\ IsFiniteSet(Ids(S))
           /\ Cardinality(Ids(S)) \in Nat /\ Cardinality(Ids(S)) <= Cardinality(S)
<1> DEFINE f == [s \in S |-> surf[s].id]
<1>1. IsFiniteSet(S)
    BY SlotSets
<1>2. f \in Surjection(S, Ids(S))
    BY DEF Surjection, Ids
<1>3. IsFiniteSet(Ids(S)) /\ Cardinality(Ids(S)) <= Cardinality(S)
  <2> HIDE DEF f
  <2> QED BY <1>1, <1>2, FS_Surjection
<1>4. Cardinality(Ids(S)) \in Nat
    BY <1>3, FS_CardinalityType
<1>5. \A s \in S : surf[s].id \in Int
    BY SizesAssumption DEF Inv, TypeOK, Surfaces
<1> QED BY <1>3, <1>4, <1>5 DEF Ids

\* The windows that de.c shows are the toplevels that are painted.
LEMMA ShownAreVisible == {s \in Visible : surf[s].role = "toplevel"} = Shown
<1>1. ASSUME NEW s \in Visible
      PROVE  Painted(s)
  <2> DEFINE S == {t \in Slots : Painted(t)}
  <2>1. S \in SUBSET Slots
      OBVIOUS
  <2> QED BY <2>1 DEF Visible
<1>2. ASSUME NEW s \in Shown
      PROVE  s \in Visible
  <2>1. Painted(s) /\ ~ IsChild(s) /\ s \in Slots
      BY DEF Shown, Windows, Painted, IsChild
  <2> QED BY <2>1 DEF Visible
<1>3. Visible \subseteq Slots
    BY DEF Visible
<1> QED BY <1>1, <1>2, <1>3 DEF Shown, Windows, Painted

\* Painting a frame draws the taskbar for the windows that are there (de_tick).
LEMMA RepaintShows == ASSUME Inv, Repaint PROVE TaskbarAgrees'
<1> SUFFICES ASSUME HasDE PROVE TaskbarAgrees'
    BY DEF TaskbarAgrees
<1>1. Tick /\ UNCHANGED z
    BY DEF Repaint
<1>2. \A s \in Slots : /\ surf'[s].id = surf[s].id /\ surf'[s].role = surf[s].role
                       /\ surf'[s].committed = surf[s].committed
                       /\ surf'[s].minimized = surf[s].minimized
  <2>1. PICK D \in SUBSET Armed : Deliver(D)
      BY DEF Repaint
  <2>2. \A s \in Slots : surf[s] \in Surfaces
      BY DEF Inv, TypeOK
  <2> QED BY <2>1, <2>2 DEF Deliver, Surfaces
<1>3. Windows' = Windows /\ Shown' = Shown
    BY <1>2 DEF Windows, Shown, InUse, Slots
<1>4. Ids(Windows)' = Ids(Windows)
    BY <1>2, <1>3 DEF Ids, Windows
<1>5. PICK top : top = Topmost(Shown)
    OBVIOUS
<1>6. TopmostWindow' = top
  <2>1. TopmostWindow = Topmost(Shown)
      BY ShownAreVisible DEF TopmostWindow
  <2>2. (TopmostWindow = Topmost(Shown))'
    <3>1. ({s \in Visible : surf[s].role = "toplevel"} = Shown)'
        BY ShownAreVisible, PTL
    <3> QED BY <3>1 DEF TopmostWindow
  <2> QED BY <1>1, <1>3, <1>5, <2>2 DEF Topmost
<1>7. Shown \in SUBSET Slots /\ Windows \in SUBSET Slots /\ Shown \subseteq Windows
    BY DEF Shown, Windows
<1>8. Shown # {} => top \in Shown /\ surf[top].id # 0 /\ surf'[top].id = surf[top].id /\ top # 0
  <2>1. Shown # {} => top \in Shown
      BY <1>5, <1>7, TopmostIsHighest DEF Inv, TypeOK
  <2>2. ASSUME NEW s \in Shown
        PROVE  s \in Slots /\ surf[s].id # 0 /\ surf'[s].id = surf[s].id /\ s # 0
      BY <1>2, <1>7 DEF Shown, Windows, InUse, Slots
  <2> QED BY <2>1, <2>2
<1>9. Shown = {} => top = 0
    BY <1>5 DEF Topmost
<1>10. items' = Smallest(MaxItems, Ids(Windows)) /\ focusedItem' = IF Shown # {} /\ surf[top].id \in items'
                                                  THEN surf[top].id ELSE 0
    BY <1>1, <1>5 DEF Tick
<1>11. items' = Smallest(MaxItems, Ids(Windows)')
    BY <1>4, <1>10
<1>12. ASSUME Cardinality(Windows) <= MaxItems, Shown # {}
       PROVE  surf[top].id \in items'
  <2>1. /\ Ids(Windows) \subseteq Int /\ IsFiniteSet(Ids(Windows))
        /\ Cardinality(Ids(Windows)) \in Nat /\ Cardinality(Ids(Windows)) <= Cardinality(Windows)
      BY <1>7, FewIds
  <2>2. Cardinality(Windows) \in Nat
      BY <1>7, SlotSets
  <2>3. Cardinality(Ids(Windows)) <= MaxItems
      BY <1>12, <2>1, <2>2, DesktopAssumption
  <2>4. items' = Ids(Windows)
      BY <1>10, <2>1, <2>3, SmallestOfFew, DesktopAssumption
  <2> QED BY <1>7, <1>8, <1>12, <2>4 DEF Ids
<1> QED BY <1>3, <1>6, <1>8, <1>9, <1>10, <1>11, <1>12 DEF TaskbarAgrees

\* What is painted agrees with what the keyboard does, for any number of windows
\* and items: after a frame the item drawn as focused is that of the window that
\* gets the keys (de_tick, rebuild_items_from_swm, topmost_window).
THEOREM TaskbarRight == Spec => []TaskbarAgrees
<1>1. Init => TaskbarAgrees
    BY DEF Init, TaskbarAgrees
<1>2. ASSUME Inv, TaskbarAgrees, [Next]_vars
      PROVE  TaskbarAgrees'
  <2>1. CASE Serve \/ ReadInput
    <3>1. needsRepaint' = TRUE
        BY <2>1 DEF Serve, ReadInput
    <3> QED BY <3>1 DEF TaskbarAgrees
  <2>2. CASE Repaint
      BY <1>2, <2>2, RepaintShows
  <2>3. CASE Signal \/ Shutdown
    <3>1. phase' # "running"
        BY <2>3 DEF Signal, Shutdown
    <3> QED BY <3>1 DEF TaskbarAgrees
  <2>4. CASE UNCHANGED vars
    <3>1. UNCHANGED <<surf, z, items, focusedItem, phase, needsRepaint>>
        BY <2>4 DEF vars, surfaceVars, desktopVars
    <3>2. UNCHANGED <<Windows, TopmostWindow, Ids(Windows)>>
        BY <3>1 DEF Windows, TopmostWindow, Topmost, Visible, Painted, IsChild, ChildOf, InUse,
                    Ids, Slots
    <3> QED BY <1>2, <3>1, <3>2 DEF TaskbarAgrees
  <2> QED BY <1>2, <2>1, <2>2, <2>3, <2>4 DEF Next
<1> QED BY <1>1, <1>2, InvHolds, PTL DEF Spec

-----------------------------------------------------------------------------
(* The table implements the forest *)

\* The forest shows each surface in use, and no other.
Mapped ==
    /\ \A s \in Used : /\ surf[s].id \in 1 .. MaxId
                       /\ owners[surf[s].id] = surf[s].owner
                       /\ parents[surf[s].id] = surf[s].parent
    /\ \A i \in 1 .. MaxId : (\A s \in Used : surf[s].id # i) => owners[i] = 0 /\ parents[i] = 0

LEMMA InvMapped == Inv => Mapped
<1> SUFFICES ASSUME Inv PROVE Mapped
    OBVIOUS
<1>1. ASSUME NEW s \in Used
      PROVE  /\ surf[s].id \in 1 .. MaxId /\ owners[surf[s].id] = surf[s].owner
             /\ parents[surf[s].id] = surf[s].parent
  <2>1. surf[s].id \in 1 .. MaxId
      BY SizesAssumption DEF Inv, TypeOK, Surfaces, Used, InUse
  <2>2. \A t \in Named(surf[s].id) : t \in Used /\ t = s
      BY DEF Inv, TreesOwned, Named, Used
  <2>3. s \in Named(surf[s].id)
      BY DEF Used, Named
  <2>4. Holder(surf[s].id) = s
      BY <2>2, <2>3 DEF Holder
  <2> QED BY <2>1, <2>3, <2>4 DEF owners, parents
<1>2. ASSUME NEW i \in 1 .. MaxId, \A s \in Used : surf[s].id # i
      PROVE  owners[i] = 0 /\ parents[i] = 0
  <2>1. Named(i) = {}
      BY <1>2 DEF Named, Used
  <2> QED BY <2>1 DEF owners, parents
<1> QED BY <1>1, <1>2 DEF Mapped

\* The forest is a function of what its surfaces are.
LEMMA SameForest ==
    ASSUME Mapped, Mapped', SameTable,
           \A s \in Slots : surf'[s].parent = surf[s].parent
    PROVE  UNCHANGED <<owners, parents, nextId>>
<1>1. Used' = Used /\ \A s \in Used : /\ surf'[s].id = surf[s].id
                                      /\ surf'[s].owner = surf[s].owner
                                      /\ surf'[s].parent = surf[s].parent
    BY DEF SameTable, Used, InUse, Slots
<1>2. ASSUME NEW i \in 1 .. MaxId
      PROVE  owners'[i] = owners[i] /\ parents'[i] = parents[i]
  <2>1. CASE \E s \in Used : surf[s].id = i
      BY <1>1, <2>1 DEF Mapped
  <2>2. CASE \A s \in Used : surf[s].id # i
      BY <1>1, <2>2 DEF Mapped
  <2> QED BY <2>1, <2>2
<1>3. /\ owners = [i \in 1 .. MaxId |-> owners[i]] /\ owners' = [i \in 1 .. MaxId |-> owners'[i]]
      /\ parents = [i \in 1 .. MaxId |-> parents[i]] /\ parents' = [i \in 1 .. MaxId |-> parents'[i]]
    BY DEF owners, parents
<1> QED BY <1>2, <1>3 DEF SameTable

\* The ids of the surfaces of F.
Gone(F) == {surf[s].id : s \in F \cap Used}

\* Freeing surfaces with all that hangs below them takes them out of the forest.
LEMMA FreeAllRemoves ==
    ASSUME TypeOK, Mapped, Mapped', NEW F \in SUBSET Slots, FreeAll(F), nextId' = nextId,
           TreesOwned
    PROVE  Gone(F) \in SUBSET (1 .. MaxId) /\ Forest!Remove(Gone(F))
<1>1. Used' = Used \ F /\ \A s \in Used \ F : surf'[s] = surf[s]
    BY FreeAllSlots DEF Used
<1>2. ASSUME NEW i \in 1 .. MaxId
      PROVE  /\ owners'[i] = IF i \in Gone(F) THEN 0 ELSE owners[i]
             /\ parents'[i] = IF i \in Gone(F) THEN 0 ELSE parents[i]
  <2>1. CASE i \in Gone(F)
    <3>1. PICK s \in F \cap Used : surf[s].id = i
        BY <2>1 DEF Gone
    <3>2. \A t \in Used' : surf'[t].id # i
        BY <1>1, <3>1 DEF TreesOwned
    <3> QED BY <2>1, <3>2 DEF Mapped
  <2>2. ASSUME i \notin Gone(F), NEW s \in Used, surf[s].id = i
        PROVE  owners'[i] = owners[i] /\ parents'[i] = parents[i]
    <3>1. s \notin F
        BY <2>2 DEF Gone
    <3> QED BY <1>1, <2>2, <3>1 DEF Mapped
  <2>3. CASE \A s \in Used : surf[s].id # i
    <3>1. \A t \in Used' : surf'[t].id # i
        BY <1>1, <2>3
    <3> QED BY <2>3, <3>1 DEF Mapped
  <2> QED BY <2>1, <2>2, <2>3
<1>3. /\ owners' = [i \in 1 .. MaxId |-> owners'[i]]
      /\ parents' = [i \in 1 .. MaxId |-> parents'[i]]
    BY DEF owners, parents
<1>4. Gone(F) \in SUBSET (1 .. MaxId)
    BY DEF Gone, Mapped
<1> QED BY <1>2, <1>3, <1>4 DEF Forest!Remove, Forest!Ids

\* What a client owns in the forest are the surfaces of its list.
LEMMA ListShown ==
    ASSUME Inv, Mapped, NEW C \in SUBSET Clients, NEW F \in SUBSET Slots,
           \A s \in Used : s \in F <=> surf[s].owner \in C
    PROVE  Gone(F) = {i \in 1 .. MaxId : owners[i] \in C}
<1>1. ASSUME NEW i \in 1 .. MaxId
      PROVE  i \in Gone(F) <=> owners[i] \in C
  <2>1. ASSUME NEW s \in Used, surf[s].id = i
        PROVE  i \in Gone(F) <=> owners[i] \in C
    <3>1. owners[i] = surf[s].owner
        BY <2>1 DEF Mapped
    <3>2. i \in Gone(F) <=> s \in F
        BY <2>1 DEF Gone, Inv, TreesOwned
    <3> QED BY <3>1, <3>2
  <2>2. CASE \A s \in Used : surf[s].id # i
    <3>1. 0 \notin C
        BY DEF Clients
    <3> QED BY <2>2, <3>1 DEF Mapped, Gone
  <2> QED BY <2>1, <2>2
<1>2. Gone(F) \subseteq 1 .. MaxId
    BY DEF Gone, Mapped
<1> QED BY <1>1, <1>2

\* SURFACE_DESTROY takes the surface with its tree out of the forest, and no more.
LEMMA SubtreeDestroyed ==
    ASSUME Inv, Mapped, Mapped', NEW s \in Used, FreeAll(Subtree(s)), nextId' = nextId
    PROVE  Forest!Destroy(surf[s].id)
<1> DEFINE R == Gone(Subtree(s))
<1>1. /\ s \in Slots /\ Subtree(s) \in SUBSET Slots /\ s \in Subtree(s) /\ Down(Subtree(s))
      /\ Subtree(s) \subseteq Used
    BY SubtreeClosed, SubtreeOwner DEF Inv, Used
<1>2. R \in SUBSET (1 .. MaxId) /\ Forest!Remove(R)
    BY <1>1, FreeAllRemoves DEF Inv
<1>3. surf[s].id \in R /\ owners[surf[s].id] # 0
    BY <1>1 DEF Gone, Mapped, Inv, OwnersAgree, Clients
<1>4. ASSUME NEW i \in 1 .. MaxId, owners[i] # 0, parents[i] \in R
      PROVE  i \in R
  <2>1. PICK v \in Used : surf[v].id = i
      BY <1>4 DEF Mapped
  <2>2. PICK u \in Subtree(s) \cap Used : surf[u].id = surf[v].parent
      BY <1>4, <2>1 DEF Mapped, Gone
  <2>3. surf[v].parent # 0 /\ v \in Slots /\ u \in Slots
      BY <2>2 DEF Used, InUse
  <2>4. ChildOf(v, u)
      BY <2>1, <2>2, <2>3 DEF ChildOf, Used, Inv, TreesOwned
  <2>5. v \in Subtree(s)
      BY <1>1, <2>2, <2>3, <2>4 DEF Down
  <2> QED BY <2>1, <2>5 DEF Gone
<1>5. ASSUME NEW S \in SUBSET (1 .. MaxId), surf[s].id \in S, Forest!Closed(S)
      PROVE  R \subseteq S
  <2> DEFINE A == {t \in Used : surf[t].id \in S}
  <2>1. s \in A /\ A \in SUBSET Slots
      BY <1>1, <1>5 DEF Used
  <2>2. ASSUME NEW u \in A, NEW v \in Slots, ChildOf(v, u)
        PROVE  v \in A
    <3>1. v \in Used /\ surf[v].parent = surf[u].id /\ surf[u].id \in S
        BY <2>2 DEF ChildOf, Used
    <3>2. surf[v].id \in 1 .. MaxId /\ owners[surf[v].id] # 0 /\ parents[surf[v].id] = surf[v].parent
        BY <3>1 DEF Mapped, Inv, OwnersAgree, Clients
    <3> QED BY <1>5, <3>1, <3>2 DEF Forest!Closed, Forest!Ids
  <2>3. Down(A)
      BY <2>2 DEF Down
  <2> HIDE DEF A
  <2>4. Subtree(s) \subseteq A
      BY <1>1, <2>1, <2>3, SubtreeLeast
  <2> QED BY <2>4 DEF A, Gone
<1>6. Forest!Closed(R)
    BY <1>4 DEF Forest!Closed, Forest!Ids
<1> HIDE DEF R
<1> QED BY <1>2, <1>3, <1>5, <1>6 DEF Forest!Destroy, Forest!Ids

\* What a step does to the forest.
ForestStep == [Forest!ForestNext]_<<owners, parents, nextId>>

\* The trees of the surfaces of a client are the surfaces it owns.
LEMMA TreesOfClient ==
    ASSUME Inv, NEW c \in Clients
    PROVE  /\ UNION {Subtree(s) : s \in lists[c]} \in SUBSET Slots
           /\ \A s \in Used : s \in UNION {Subtree(t) : t \in lists[c]} <=> surf[s].owner = c
<1>1. lists[c] \in SUBSET Slots /\ lists[c] = {s \in Slots : Owned(c, s)}
    BY DEF Inv, TypeOK, OwnersAgree
<1>2. \A t \in lists[c] : \A s \in Subtree(t) : surf[s].owner = c
    BY <1>1, SubtreeOwner DEF Inv, Owned, Used
<1>3. UNION {Subtree(s) : s \in lists[c]} \in SUBSET Slots /\ lists[c] \subseteq UNION {Subtree(s) : s \in lists[c]}
    BY <1>1, ForestClosed
<1>4. \A s \in Used : surf[s].owner = c => s \in lists[c]
    BY <1>1 DEF Owned, Used
<1> QED BY <1>2, <1>3, <1>4

\* A client that goes leaves the forest with all it owns.
LEMMA DroppedLeaves ==
    ASSUME Inv, Mapped, Mapped', NEW c \in Clients, Dropped(c)
    PROVE  ForestStep
<1>1. FreeTrees(lists[c]) /\ nextId' = nextId
    BY DEF Dropped, DropClient
<1>2. CASE \E s \in lists[c] : OnCycle(s)
  <2>1. SameTable /\ \A s \in Slots : surf'[s].parent = surf[s].parent
      BY <1>1, <1>2 DEF FreeTrees, surfaceVars, SameTable
  <2> QED BY <2>1, SameForest DEF ForestStep
<1>3. CASE ~ \E s \in lists[c] : OnCycle(s)
  <2> DEFINE F == UNION {Subtree(s) : s \in lists[c]}
  <2>1. FreeAll(F)
      BY <1>1, <1>3 DEF FreeTrees
  <2>2. F \in SUBSET Slots /\ \A s \in Used : s \in F <=> surf[s].owner \in {c}
      BY TreesOfClient
  <2> HIDE DEF F
  <2>3. Forest!Remove(Gone(F))
      BY <1>1, <2>1, <2>2, FreeAllRemoves DEF Inv
  <2>4. Gone(F) = {i \in 1 .. MaxId : owners[i] \in {c}}
      BY <2>2, ListShown
  <2>5. Forest!Leave({c})
      BY <2>3, <2>4 DEF Forest!Leave, Forest!Ids
  <2> QED BY <2>5 DEF ForestStep, Forest!ForestNext
<1> QED BY <1>2, <1>3

\* At the end every client leaves.
LEMMA ShutdownLeaves ==
    ASSUME Inv, Mapped, Mapped', Shutdown
    PROVE  ForestStep
<1>1. nextId' = nextId
    BY DEF Shutdown
<1>2. CASE \E s \in Used : OnCycle(s)
  <2>1. SameTable /\ \A s \in Slots : surf'[s].parent = surf[s].parent
      BY <1>1, <1>2 DEF Shutdown, surfaceVars, SameTable
  <2> QED BY <2>1, SameForest DEF ForestStep
<1>3. CASE ~ \E s \in Used : OnCycle(s)
  <2> DEFINE F == UNION {UNION {Subtree(s) : s \in lists[c]} : c \in Clients}
  <2>1. FreeAll(F)
      BY <1>3 DEF Shutdown
  <2>2. F \in SUBSET Slots /\ \A s \in Used : s \in F <=> surf[s].owner \in Clients
    <3>1. \A c \in Clients : UNION {Subtree(s) : s \in lists[c]} \in SUBSET Slots
        BY TreesOfClient
    <3>2. ASSUME NEW s \in Used
          PROVE  surf[s].owner \in Clients /\ s \in UNION {Subtree(t) : t \in lists[surf[s].owner]}
        BY TreesOfClient DEF Inv, OwnersAgree
    <3> QED BY <3>1, <3>2
  <2> HIDE DEF F
  <2>3. Forest!Remove(Gone(F))
      BY <1>1, <2>1, <2>2, FreeAllRemoves DEF Inv
  <2>4. Gone(F) = {i \in 1 .. MaxId : owners[i] \in Clients}
      BY <2>2, ListShown
  <2>5. Forest!Leave(Clients)
      BY <2>3, <2>4 DEF Forest!Leave, Forest!Ids
  <2> QED BY <2>5 DEF ForestStep, Forest!ForestNext
<1> QED BY <1>2, <1>3

\* A new surface is a tree of its own; one that is hung below another is hung there
\* in the forest too; the other requests leave the forest alone.
LEMMA CreateShown ==
    ASSUME Inv, Mapped, Mapped', NEW c \in Clients, SurfaceCreate(c)
    PROVE  Forest!Create(c)
<1>1. PICK s \in Slots : FirstFree(s) /\ surf' = [surf EXCEPT ![s] = NewSurface(nextId + 1, c)]
    BY DEF SurfaceCreate
<1>2. nextId < MaxId /\ nextId' = nextId + 1 /\ nextId \in Nat /\ MaxId \in Nat
    BY SizesAssumption DEF SurfaceCreate, Inv, TypeOK
<1>3. /\ surf'[s].id = nextId + 1 /\ surf'[s].owner = c /\ surf'[s].parent = 0
      /\ \A t \in Slots \ {s} : surf'[t] = surf[t]
    BY <1>1 DEF NewSurface, Inv, TypeOK
<1>4. s \notin Used
    BY <1>1 DEF FirstFree
<1>5. Used' = Used \cup {s}
  <2>1. \A t \in Slots : surf'[t].id # 0 <=> surf[t].id # 0 \/ t = s
      BY <1>2, <1>3
  <2>2. Used' = {t \in Slots : surf'[t].id # 0} /\ Used = {t \in Slots : surf[t].id # 0}
      BY DEF Used, InUse, Slots
  <2> QED BY <2>1, <2>2
<1>6. \A t \in Used : t \in Slots \ {s} /\ surf[t].id <= nextId /\ surf[t].id \in 1 .. MaxId
    BY <1>4 DEF Used, Inv, TreesOwned, Mapped
<1>7. \A t \in Used : surf[t].id # nextId + 1
    BY <1>2, <1>6
<1>8. ASSUME NEW i \in 1 .. MaxId
      PROVE  /\ owners'[i] = IF i = nextId + 1 THEN c ELSE owners[i]
             /\ parents'[i] = parents[i]
  <2>1. CASE i = nextId + 1
      BY <1>3, <1>5, <1>7, <2>1 DEF Mapped
  <2>2. ASSUME i # nextId + 1, NEW t \in Used, surf[t].id = i
        PROVE  owners'[i] = owners[i] /\ parents'[i] = parents[i]
      BY <1>3, <1>5, <1>6, <2>2 DEF Mapped
  <2>3. CASE i # nextId + 1 /\ \A t \in Used : surf[t].id # i
      BY <1>3, <1>5, <1>6, <2>3 DEF Mapped
  <2> QED BY <2>1, <2>2, <2>3
<1>9. /\ owners = [i \in 1 .. MaxId |-> owners[i]] /\ owners' = [i \in 1 .. MaxId |-> owners'[i]]
      /\ parents = [i \in 1 .. MaxId |-> parents[i]] /\ parents' = [i \in 1 .. MaxId |-> parents'[i]]
    BY DEF owners, parents
<1>10. owners' = [owners EXCEPT ![nextId + 1] = c] /\ UNCHANGED parents
    BY <1>8, <1>9
<1> QED BY <1>2, <1>10 DEF Forest!Create

\* Setting the parent of one surface sets it in the forest.
LEMMA ParentShown ==
    ASSUME Inv, Mapped, Mapped', NEW s \in Used, SameTable,
           \A t \in Slots \ {s} : surf'[t] = surf[t]
    PROVE  /\ parents' = [parents EXCEPT ![surf[s].id] = surf'[s].parent]
           /\ UNCHANGED <<owners, nextId>>
<1>1. Used' = Used /\ \A t \in Used : t \in Slots /\ surf'[t].id = surf[t].id /\ surf'[t].owner = surf[t].owner
    BY DEF SameTable, Used, InUse, Slots
<1>2. ASSUME NEW i \in 1 .. MaxId
      PROVE  /\ owners'[i] = owners[i]
             /\ parents'[i] = IF i = surf[s].id THEN surf'[s].parent ELSE parents[i]
  <2>1. CASE i = surf[s].id
      BY <1>1, <2>1 DEF Mapped
  <2>2. ASSUME i # surf[s].id, NEW t \in Used, surf[t].id = i
        PROVE  owners'[i] = owners[i] /\ parents'[i] = parents[i]
      BY <1>1, <2>2 DEF Mapped
  <2>3. CASE i # surf[s].id /\ \A t \in Used : surf[t].id # i
      BY <1>1, <2>3 DEF Mapped
  <2> QED BY <2>1, <2>2, <2>3
<1>3. /\ owners = [i \in 1 .. MaxId |-> owners[i]] /\ owners' = [i \in 1 .. MaxId |-> owners'[i]]
      /\ parents = [i \in 1 .. MaxId |-> parents[i]] /\ parents' = [i \in 1 .. MaxId |-> parents'[i]]
    BY DEF owners, parents
<1> QED BY <1>2, <1>3 DEF SameTable

LEMMA RequestShown ==
    ASSUME Inv, Mapped, Mapped', NEW c \in Clients, Request(c)
    PROVE  ForestStep
<1> USE DEF ForestStep, Forest!ForestNext, Forest!Ids
<1>1. CASE Hello(c) \/ Rejected(c) \/ SetCursor(c)
  <2>1. SameTable /\ \A s \in Slots : surf'[s].parent = surf[s].parent
      BY <1>1 DEF Hello, Rejected, SetCursor, surfaceVars, SameTable
  <2> QED BY <2>1, SameForest
<1>2. CASE SurfaceCreate(c)
    BY <1>2, CreateShown
<1>3. CASE SurfaceDestroy(c)
  <2>1. PICK s \in Slots : Owned(c, s) /\ FreeTrees({s})
      BY <1>3 DEF SurfaceDestroy
  <2>2. nextId' = nextId /\ s \in Used
      BY <1>3, <2>1 DEF SurfaceDestroy, Owned, Used
  <2>3. CASE OnCycle(s)
    <3>1. SameTable /\ \A t \in Slots : surf'[t].parent = surf[t].parent
        BY <2>1, <2>2, <2>3 DEF FreeTrees, surfaceVars, SameTable
    <3> QED BY <3>1, SameForest
  <2>4. CASE ~ OnCycle(s)
    <3>1. UNION {Subtree(t) : t \in {s}} = Subtree(s)
        OBVIOUS
    <3>2. FreeAll(Subtree(s))
        BY <2>1, <2>4, <3>1 DEF FreeTrees
    <3>3. Forest!Destroy(surf[s].id)
        BY <2>2, <3>2, SubtreeDestroyed
    <3> QED BY <2>2, <3>3 DEF Mapped
  <2> QED BY <2>3, <2>4
<1>4. CASE SurfaceAttach(c) \/ SurfaceCommit(c) \/ SetRoleBadParent(c) \/ SurfaceFrame(c)
  <2>1. PICK s \in Slots : \E b :
            \/ surf' = [surf EXCEPT ![s].buffer = b]
            \/ surf' = [surf EXCEPT ![s].committed = b]
            \/ surf' = [surf EXCEPT ![s].role = b]
            \/ surf' = [surf EXCEPT ![s].wantsFrame = b, ![s].waiting = b]
    <3>1. CASE SurfaceAttach(c)
      BY <3>1 DEF SurfaceAttach, Set
    <3>2. CASE SurfaceCommit(c)
      BY <3>2 DEF SurfaceCommit, Set
    <3>3. CASE SetRoleBadParent(c)
      BY <3>3 DEF SetRoleBadParent, Set
    <3>4. CASE SurfaceFrame(c)
      BY <3>4 DEF SurfaceFrame
    <3> QED BY <1>4, <3>1, <3>2, <3>3, <3>4
  <2>2. UNCHANGED <<lists, nextId>>
      BY <1>4 DEF SurfaceAttach, SurfaceCommit, SetRoleBadParent, SurfaceFrame
  <2>3. SameTable /\ \A t \in Slots : surf'[t].parent = surf[t].parent
      BY <2>1, <2>2 DEF SameTable, Inv, TypeOK, Surfaces
  <2> QED BY <2>3, SameForest
<1>5. CASE SetRoleTop(c)
  <2>1. PICK s \in Slots : /\ Owned(c, s)
                           /\ surf' = [surf EXCEPT ![s].role = "toplevel", ![s].parent = 0]
      BY <1>5 DEF SetRoleTop
  <2>2. s \in Used /\ UNCHANGED <<lists, nextId>>
      BY <1>5, <2>1 DEF SetRoleTop, Owned, Used
  <2>3. /\ surf'[s].parent = 0 /\ \A t \in Slots \ {s} : surf'[t] = surf[t]
        /\ surf'[s].id = surf[s].id /\ surf'[s].owner = surf[s].owner
      BY <2>1 DEF Inv, TypeOK, Surfaces
  <2>4. SameTable
      BY <2>2, <2>3 DEF SameTable
  <2>5. Forest!Detach(surf[s].id)
      BY <2>2, <2>3, <2>4, ParentShown DEF Forest!Detach
  <2> QED BY <2>2, <2>5 DEF Mapped
<1>6. CASE SetRoleChild(c)
  <2>1. PICK s \in Slots, p \in Slots, r \in Roles \ {"toplevel"} :
            /\ Owned(c, s) /\ Owned(c, p) /\ p # s
            /\ surf' = [surf EXCEPT ![s].role = r, ![s].parent = surf[p].id,
                                    ![s].maximized = FALSE, ![s].minimized = FALSE]
      BY <1>6, Zenon DEF SetRoleChild
  <2>2. s \in Used /\ p \in Used /\ UNCHANGED <<lists, nextId>>
      BY <1>6, <2>1 DEF SetRoleChild, Owned, Used
  <2>3. /\ surf'[s].parent = surf[p].id /\ \A t \in Slots \ {s} : surf'[t] = surf[t]
        /\ surf'[s].id = surf[s].id /\ surf'[s].owner = surf[s].owner
      BY <2>1 DEF Inv, TypeOK, Surfaces
  <2>4. SameTable
      BY <2>2, <2>3 DEF SameTable
  <2>5. /\ surf[s].id \in 1 .. MaxId /\ surf[p].id \in 1 .. MaxId /\ surf[s].id # surf[p].id
        /\ owners[surf[s].id] = c /\ owners[surf[p].id] = c /\ c # 0
      BY <2>1, <2>2 DEF Mapped, Inv, TreesOwned, Owned, Clients
  <2>6. Forest!Hang(surf[s].id, surf[p].id)
      BY <2>2, <2>3, <2>4, <2>5, ParentShown DEF Forest!Hang
  <2> QED BY <2>5, <2>6
<1> QED BY <1>1, <1>2, <1>3, <1>4, <1>5, <1>6 DEF Request

\* Every step of the compositor is a step of the forest, or none.
LEMMA StepShown ==
    ASSUME Inv, Mapped, Mapped', [Next]_vars
    PROVE  ForestStep
<1>1. CASE Serve
  <2>1. CASE Accept
    <3>1. SameTable /\ \A s \in Slots : surf'[s].parent = surf[s].parent
        BY <2>1 DEF Accept, surfaceVars, SameTable
    <3> QED BY <3>1, SameForest DEF ForestStep
  <2> QED BY <1>1, <2>1, DroppedLeaves, RequestShown DEF Serve
<1>2. CASE ReadInput
  <2>1. SameTrees
      BY <1>2, InputKeeps DEF ReadInput, EventOK
  <2> QED BY <2>1, SameForest DEF SameTrees, ForestStep
<1>3. CASE Repaint
  <2>1. PICK D \in SUBSET Armed : Deliver(D)
      BY <1>3 DEF Repaint
  <2>2. \A s \in Slots : surf[s] \in Surfaces
      BY DEF Inv, TypeOK
  <2>3. SameTable /\ \A s \in Slots : surf'[s].parent = surf[s].parent
      BY <1>3, <2>1, <2>2 DEF Repaint, Deliver, Surfaces, SameTable
  <2> QED BY <2>3, SameForest DEF ForestStep
<1>4. CASE Signal \/ UNCHANGED vars
  <2>1. SameTable /\ \A s \in Slots : surf'[s].parent = surf[s].parent
      BY <1>4 DEF Signal, vars, surfaceVars, SameTable
  <2> QED BY <2>1, SameForest DEF ForestStep
<1>5. CASE Shutdown
    BY <1>5, ShutdownLeaves
<1> QED BY <1>1, <1>2, <1>3, <1>4, <1>5 DEF Next

\* The slots, lists and pointers of the compositor implement the clients' view of
\* their surfaces (surface.c, protocol.c): forests of fresh ids, which only their
\* owner arranges, and from which a surface goes with all that hangs below it.
THEOREM ForestImplemented == Spec => ImplementsForest
<1>1. Init => Forest!ForestInit
  <2> SUFFICES ASSUME Init PROVE Forest!ForestInit
      OBVIOUS
  <2>1. \A i : Named(i) = {}
      BY DEF Init, Named, InUse, NoSurface, NewSurface
  <2> QED BY <2>1 DEF Init, owners, parents, Forest!ForestInit, Forest!Ids
<1>2. Inv => Mapped
    BY InvMapped
<1>3. Mapped /\ Mapped' /\ Inv /\ [Next]_vars => [Forest!ForestNext]_<<owners, parents, nextId>>
    BY StepShown DEF ForestStep
<1> QED BY <1>1, <1>2, <1>3, InvHolds, PTL DEF Spec, ImplementsForest, Forest!ForestSpec
=============================================================================
