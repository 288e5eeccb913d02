---------------------------- MODULE SwmSurfaces ----------------------------
(***************************************************************************)
(* The state of the compositor swm (struct swm_state_t) and the operations *)
(* of libs/gui/swm/src/surface/surface.c on its surface table.             *)
(*                                                                         *)
(* A surface is known by its slot in the table; the fields that point to a *)
(* surface (hovered_surface, grab_surface, a client's list) hold slots, as *)
(* the pointers of the code do, while parent_id and the taskbar's items    *)
(* hold ids.  Slot 0 is NULL, id 0 no surface.  The field z is abstracted  *)
(* to the surface's rank among the surfaces in use.  The field waiting is  *)
(* a ghost: the client asked for a frame event and has not got one.        *)
(***************************************************************************)
EXTENDS Integers, FiniteSets

CONSTANTS NumClients,     \* SWM_MAX_CLIENTS, 16 in the code
          NumSlots,       \* SWM_MAX_SURFACES, 32 in the code
          PerClient,      \* surfaces of one client, 8 in the code
          MaxId           \* bound: SURFACE_CREATE requests that succeed

ASSUME SizesAssumption == /\ NumClients \in Nat \ {0} /\ NumSlots \in Nat \ {0}
                          /\ PerClient \in Nat /\ MaxId \in Nat

VARIABLES
    clients,       \* each client slot: free, connected, or ready after HELLO
    lists,         \* the slots in each client's surfaces[]
    surf,          \* the surface table
    z,             \* rank of each surface, 1 at the bottom, 0 for a free slot
    nextId,        \* next_surface_id
    hovered,       \* hovered_surface
    interaction,   \* interaction
    grab,          \* grab_surface
    cursor,        \* id of the surface whose cursor is shown, 0 for the arrow
    phase          \* ghost: the process runs, has quit, or overflowed its stack

surfaceVars == <<lists, surf, z>>
pointerVars == <<hovered, interaction, grab>>

Clients == 1 .. NumClients
Slots == 1 .. NumSlots
Roles == {"toplevel", "popup", "subsurface"}

\* A new surface with id i of client c, and a free slot.
NewSurface(i, c) == [id |-> i, owner |-> c, role |-> "toplevel", parent |-> 0,
                     buffer |-> FALSE, committed |-> FALSE, minimized |-> FALSE,
                     maximized |-> FALSE, wantsFrame |-> FALSE, waiting |-> FALSE]
NoSurface == NewSurface(0, 0)

InUse(s) == surf[s].id # 0
Used == {s \in Slots : InUse(s)}
Owned(c, s) == InUse(s) /\ surf[s].owner = c
IsChild(s) == surf[s].role \in {"popup", "subsurface"}
ChildOf(t, s) == InUse(s) /\ InUse(t) /\ IsChild(t) /\ surf[t].parent = surf[s].id

\* swm_surface_find
Named(i) == {s \in Slots : InUse(s) /\ surf[s].id = i}

\* A surface, its children, their children, and so on.
Subtree(s) ==
    {t \in Slots : \A S \in SUBSET Slots :
        s \in S /\ (\A u \in S : \A v \in Slots : ChildOf(v, u) => v \in S) => t \in S}

\* s is its own ancestor: the recursion over its children has no end.
OnCycle(s) == \E t \in Slots : ChildOf(t, s) /\ s \in Subtree(t)

\* surface_tree_is_visible: the surface and all above it are painted, up to one
\* that is no child; only a cycle reaches the depth at which the code gives up.
Painted(s) == InUse(s) /\ surf[s].committed /\ ~ surf[s].minimized
Visible ==
    {s \in Slots : \A S \in SUBSET Slots :
        /\ \A u \in Slots : Painted(u) /\ ~ IsChild(u) => u \in S
        /\ \A u \in S : \A v \in Slots : Painted(v) /\ ChildOf(v, u) => v \in S
        => s \in S}

\* The topmost of a set of surfaces, 0 if there is none.
Topmost(S) == IF S = {} THEN 0
              ELSE CHOOSE s \in S : \A t \in S : z[t] <= z[s]

TopmostWindow == Topmost({s \in Visible : surf[s].role = "toplevel"})
TopmostPopup == Topmost({s \in Visible : surf[s].role = "popup"})

\* raise_tree numbers a surface before its children, the children by slot.
Precedes(s, t) ==
    \/ t \in Subtree(s)
    \/ \E u, v \in Slots : /\ u < v /\ IsChild(u) /\ IsChild(v) /\ surf[u].parent = surf[v].parent
                           /\ s \in Subtree(u) /\ t \in Subtree(v)

\* The ranks once the surfaces of S have been given new values of ++next_z.
RaisedAll(S) ==
    [s \in Slots |->
        IF s \in S THEN Cardinality(Used \ S) + 1
                          + Cardinality({t \in S : t # s /\ Precedes(t, s)})
        ELSE IF InUse(s) THEN z[s] - Cardinality({t \in S : z[t] < z[s]})
        ELSE 0]
Raised(s) == RaisedAll({s})

\* swm_surface_alloc: s is the first free slot.
FirstFree(s) == s \in Slots \ Used /\ \A t \in Slots \ Used : s <= t

\* Mutant: only hovered_surface is cleared.
GrabSurvives(F) == /\ hovered' = IF hovered \in F THEN 0 ELSE hovered
                   /\ UNCHANGED <<grab, interaction>>

\* Mutant: only grab_surface is cleared.
HoverSurvives(F) == /\ grab' = IF grab \in F THEN 0 ELSE grab
                    /\ interaction' = IF grab \in F THEN "none" ELSE interaction
                    /\ UNCHANGED hovered

PointersCleared(F) == /\ grab' = IF grab \in F THEN 0 ELSE grab
                      /\ interaction' = IF grab \in F THEN "none" ELSE interaction
                      /\ hovered' = IF hovered \in F THEN 0 ELSE hovered

\* Mutant: the freed surfaces stay in their owner's list.
StillListed(F) == lists

Unlisted(F) == [c \in Clients |-> lists[c] \ {s \in F : surf[s].owner = c}]

\* swm_surface_free applied to the surfaces of F, which holds the subtree of
\* each of its members.
FreeAll(F) ==
    /\ surf' = [s \in Slots |-> IF s \in F THEN NoSurface ELSE surf[s]]
    /\ z' = [s \in Slots |-> IF s \in F THEN 0
                             ELSE z[s] - Cardinality({t \in F : z[t] < z[s]})]
    /\ lists' = Unlisted(F)
    /\ PointersCleared(F)

\* Mutant: the children are left behind.
FreeAlone(R) == FreeAll(R) /\ UNCHANGED phase

\* Freeing the surfaces of R one after the other, each with its subtree.
FreeTrees(R) ==
    IF \E s \in R : OnCycle(s)
    THEN phase' = "overflow" /\ UNCHANGED <<surfaceVars, pointerVars>>
    ELSE FreeAll(UNION {Subtree(s) : s \in R}) /\ UNCHANGED phase
=============================================================================
