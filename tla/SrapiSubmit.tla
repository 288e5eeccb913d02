---------------------------- MODULE SrapiSubmit ----------------------------
(***************************************************************************)
(* Recording and submitting commands (core/command.c, core/buffer.c, the   *)
(* second half of core/context.c, the state of backend/cpu/renderer.c).    *)
(* A list is recorded once and may be submitted many times; the indices of *)
(* its draws lie in a buffer that buffer_write may change in between.      *)
(***************************************************************************)
EXTENDS Integers, Sequences, SequencesExt, FiniteSets

CONSTANTS
    Width,       \* the picture has the pixels 0 .. Width - 1
    Vertices,    \* the vertex buffer holds that many, vertex v at pixel v
    IndexValues, \* what buffer_write may put into the index buffer
    Indices,     \* how many indices it holds
    Colours,
    Areas,       \* of the picture, which commands cover
    MaxList

VARIABLES
    list,        \* cmd->items
    slots,       \* cmd->capacity, in units of the first allocation of 16
    index,       \* the data of the index buffer
    scissor,     \* render_state, which outlives a submit
    picture,     \* the pixels of the framebuffer
    read         \* the vertices that the last submit has read

submitVars == <<list, slots, index, scissor, picture, read>>

Pixels == 0 .. Width - 1
Fill(area, c) == [kind |-> "fill", area |-> area, colour |-> c]
Shade(area) == [kind |-> "shade", area |-> area, colour |-> "shaded"]
Scissor(area) == [kind |-> "scissor", area |-> area]
Draw(from, count, indexed, first, many) == [kind |-> "draw", from |-> from, count |-> count,
    indexed |-> indexed, first |-> first, many |-> many]

RangeOk(size, offset, count) == offset <= size /\ count <= size - offset

\* A draw is recorded if its ranges lie inside the two buffers; a group is a single point.
Recordable(d) ==
    /\ d.count > 0 /\ RangeOk(Vertices, d.from, d.count)
    /\ d.indexed => d.many > 0 /\ RangeOk(Indices, d.first, d.many)
Draws == {d \in {Draw(f, n, ix, g, k) : f \in 0 .. Vertices, n \in 0 .. Vertices,
                                        ix \in BOOLEAN, g \in {0}, k \in 0 .. Indices} :
            d.indexed \/ d.many = 0}
Commands == {Fill(a, c) : a \in Areas, c \in Colours} \cup {Shade(a) : a \in Areas}
            \cup {Scissor(a) : a \in Areas} \cup {d \in Draws : Recordable(d)}

Init ==
    /\ list = <<>> /\ slots = 0
    /\ index = [i \in 1 .. Indices |-> 0]
    /\ scissor = Pixels /\ picture = [p \in Pixels |-> "blank"] /\ read = {}

\* A bug: the array grows one command too late.
RecordLate(op) ==
    /\ Len(list) < MaxList
    /\ list' = Append(list, op)
    /\ slots' = IF Len(list) > slots THEN (IF slots = 0 THEN 1 ELSE 2 * slots) ELSE slots
    /\ UNCHANGED <<index, scissor, picture, read>>

\* A full array grows to twice its size and keeps what it holds.
Record(op) ==
    /\ Len(list) < MaxList
    /\ list' = Append(list, op)
    /\ slots' = IF Len(list) = slots THEN (IF slots = 0 THEN 1 ELSE 2 * slots) ELSE slots
    /\ UNCHANGED <<index, scissor, picture, read>>

\* The count goes back to zero, the capacity and what was painted stay.
Reset == list' = <<>> /\ UNCHANGED <<slots, index, scissor, picture, read>>

BufferWrite(i, v) == index' = [index EXCEPT ![i] = v] /\ UNCHANGED <<list, slots, scissor, picture, read>>

\* The vertices that a draw goes through, relative to where it starts.
Used(d) == IF d.indexed THEN {index[i] : i \in d.first + 1 .. d.first + d.many} ELSE 0 .. d.count - 1

\* A bug: what was recorded is not looked at again.
AcceptedAsRecorded(d) == RangeOk(Vertices, d.from, d.count)

\* The submit looks at every index again, before a vertex is read.
Accepted(d) ==
    /\ RangeOk(Vertices, d.from, d.count)
    /\ d.indexed => RangeOk(Indices, d.first, d.many) /\ \A u \in Used(d) : u < d.count

\* put_pixel, which leaves out what is outside the scissor; a shaded rectangle does not use it.
Put(pic, area, c, limit) == [p \in Pixels |-> IF p \in area \cap limit THEN c ELSE pic[p]]

Execute(s, op) ==
    IF ~s.ok THEN s ELSE
    CASE op.kind = "fill" -> [s EXCEPT !.picture = Put(s.picture, op.area, op.colour, s.scissor)]
      [] op.kind = "shade" -> [s EXCEPT !.picture = Put(s.picture, op.area, op.colour, Pixels)]
      [] op.kind = "scissor" -> [s EXCEPT !.scissor = op.area]
      [] op.kind = "draw" ->
            IF Accepted(op)
            THEN LET at == {op.from + u : u \in Used(op)}
                 IN  [s EXCEPT !.picture = Put(s.picture, at, "vertex", s.scissor), !.read = s.read \cup at]
            ELSE [s EXCEPT !.ok = FALSE]

\* A bug: the scissor of the submit before is kept.
DefaultStateKept == [picture |-> picture, scissor |-> scissor, read |-> {}, ok |-> TRUE]

\* The state that every submit starts from.
DefaultState == [picture |-> picture, scissor |-> Pixels, read |-> {}, ok |-> TRUE]

\* The states after each of the commands.
Run ==
    LET s[n \in 0 .. Len(list)] == IF n = 0 THEN DefaultState ELSE Execute(s[n - 1], list[n])
    IN  s

\* The first draw that is refused ends the submit: what is before it stays painted.
Submit ==
    LET end == Run[Len(list)]
    IN  /\ picture' = end.picture /\ scissor' = end.scissor /\ read' = end.read
        /\ UNCHANGED <<list, slots, index>>

Next ==
    \/ \E op \in Commands : Record(op)
    \/ \E i \in 1 .. Indices, v \in IndexValues : BufferWrite(i, v)
    \/ Reset
    \/ Submit

Spec == Init /\ [][Next]_submitVars

(***************************************************************************)
(* Properties                                                              *)
(***************************************************************************)
\* What the commands and the renderer keep has its type, and the list fits its array.
TypeOK ==
    /\ Range(list) \subseteq Commands /\ Len(list) \in 0 .. MaxList /\ slots \in Nat
    /\ index \in [1 .. Indices -> IndexValues \cup {0}] /\ scissor \in SUBSET Pixels
    /\ picture \in [Pixels -> Colours \cup {"blank", "shaded", "vertex"}] /\ read \subseteq Nat

\* Commands that are recorded are kept when the array grows and never lie past its end.
ListFits == Len(list) <= slots

\* No submit reads a vertex outside the buffer, whatever has been written into the index
\* buffer after the draw was recorded (the loop of submit_draw_vertices over the indices).
ReadsInside == read \subseteq 0 .. Vertices - 1

\* Which commands of the list paint, and what they cover.
Refused == {i \in 1 .. Len(list) : list[i].kind = "draw" /\ ~Accepted(list[i])}
Done(i) == \A j \in Refused : i < j
Within(i) ==
    LET set == {j \in 1 .. i - 1 : list[j].kind = "scissor"}
    IN  IF set = {} THEN Pixels ELSE list[CHOOSE j \in set : \A k \in set : k <= j].area
Covered(i) ==
    CASE list[i].kind = "fill" -> list[i].area \cap Within(i)
      [] list[i].kind = "shade" -> list[i].area
      [] list[i].kind = "scissor" -> {}
      [] OTHER -> {list[i].from + u : u \in Used(list[i])} \cap Within(i)
Colour(i) == IF list[i].kind = "draw" THEN "vertex" ELSE list[i].colour
Over(p) == {i \in 1 .. Len(list) : Done(i) /\ p \in Covered(i)}

\* What a list paints is its own: each pixel has the colour of the last command that covers
\* it inside the scissor that this list has set before, whatever was submitted earlier, and
\* nothing after a refused draw is painted.
ListPaintsItsOwn ==
    \A p \in Pixels : Run[Len(list)].picture[p] =
        IF Over(p) = {} THEN picture[p] ELSE Colour(CHOOSE i \in Over(p) : \A j \in Over(p) : j <= i)
=============================================================================
