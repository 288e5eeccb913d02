------------------------------- MODULE Raster -------------------------------
(***************************************************************************)
(* The pixels of srapi's lines and triangles: the cpu renderer             *)
(* (renderer.c) and what the i915 backend draws through the mapping        *)
(* (render3d.c), which use the same arithmetic.  A line is walked pixel by *)
(* pixel with an error term, until it stands exactly on its end: one step  *)
(* past it, and the loop goes on for ever.                                 *)
(*                                                                         *)
(* Vertices are at whole pixels here, and no product leaves 32 bits.       *)
(***************************************************************************)
EXTENDS Integers, FiniteSets

CONSTANTS Reach,           \* vertices lie in -1 .. Reach on both axes
          Width, Height    \* of the target

VARIABLES
    shape,        \* what is drawn: "none", "line", "vertices" or "quad"
    ends,         \* its points
    pen,          \* of a line: where it is, and its error term
    dots          \* the pixels painted

raster == <<shape, ends, pen, dots>>

Points == (-1 .. Reach) \X (-1 .. Reach)
Target == (0 .. Width - 1) \X (0 .. Height - 1)
Abs(a) == IF a < 0 THEN -a ELSE a
Least(S) == CHOOSE a \in S : \A b \in S : a <= b
Most(S) == CHOOSE a \in S : \A b \in S : a >= b

Dx == Abs(ends[2][1] - ends[1][1])
Dy == Abs(ends[2][2] - ends[1][2])
Toward(i) == IF ends[1][i] < ends[2][i] THEN 1 ELSE -1

\* Mutant: the error term is compared without doubling it.
GoesUndoubled == <<pen.err >= -Dy, pen.err <= Dx>>

\* Whether the walk goes on in x and in y: srapi_render_draw_line and
\* srapi_i915_render3d_line_framebuffer, and draw_vertex_line.
Goes ==
    IF shape = "line" THEN <<2 * pen.err >= -Dy, 2 * pen.err <= Dx>>
    ELSE <<2 * pen.err > -Dy, 2 * pen.err < Dx>>

-----------------------------------------------------------------------------
(* Triangles *)

Edge(a, b, p) == (p[1] - a[1]) * (b[2] - a[2]) - (p[2] - a[2]) * (b[1] - a[1])
Twice(a) == <<2 * a[1], 2 * a[2]>>
Centre(p) == <<2 * p[1] + 1, 2 * p[2] + 1>>

\* Mutant: a pixel whose centre lies on an edge belongs to neither side.
InsideStrictly(t, p) ==
    LET w == {Edge(Twice(t[1]), Twice(t[2]), Centre(p)), Edge(Twice(t[2]), Twice(t[3]), Centre(p)),
              Edge(Twice(t[3]), Twice(t[1]), Centre(p))}
    IN  (\A v \in w : v > 0) \/ (\A v \in w : v < 0)

\* The centre is on the same side of all three edges, or on some of them.
Inside(t, p) ==
    LET w == {Edge(Twice(t[1]), Twice(t[2]), Centre(p)), Edge(Twice(t[2]), Twice(t[3]), Centre(p)),
              Edge(Twice(t[3]), Twice(t[1]), Centre(p))}
    IN  (\A v \in w : v >= 0) \/ (\A v \in w : v <= 0)

\* draw_vertex_triangle, srapi_i915_render3d_triangle_framebuffer: only the
\* pixels of the bounding box are asked, and nothing is drawn without an area.
Triangle(t) ==
    LET xs == {t[i][1] : i \in 1 .. 3}  ys == {t[i][2] : i \in 1 .. 3}
        Box == (Least(xs) .. Most(xs)) \X (Least(ys) .. Most(ys))
    IN  IF Edge(t[1], t[2], t[3]) = 0 THEN {} ELSE {p \in Box \cap Target : Inside(t, p)}

\* Of a convex quadrangle, every corner is to the same side of the edge before it.
Convex(q) ==
    LET turn(i) == Edge(q[i], q[(i % 4) + 1], q[((i + 1) % 4) + 1])
    IN  \/ \A i \in 1 .. 4 : turn(i) > 0
        \/ \A i \in 1 .. 4 : turn(i) < 0

-----------------------------------------------------------------------------
Init ==
    /\ shape = "none" /\ ends = << >> /\ dots = {} /\ pen = [at |-> <<0, 0>>, err |-> 0]

BeginLine(kind, a, b) ==
    /\ shape = "none" /\ shape' = kind /\ ends' = <<a, b>>
    /\ pen' = [at |-> a, err |-> Abs(b[1] - a[1]) - Abs(b[2] - a[2])]
    /\ dots' = {a}

\* One turn of the loop, which ends on the last point.
Walk ==
    /\ shape \in {"line", "vertices"} /\ pen.at # ends[2]
    /\ LET go == Goes
           at == <<pen.at[1] + IF go[1] THEN Toward(1) ELSE 0,
                   pen.at[2] + IF go[2] THEN Toward(2) ELSE 0>>
       IN  /\ pen' = [at |-> at,
                      err |-> pen.err - (IF go[1] THEN Dy ELSE 0) + (IF go[2] THEN Dx ELSE 0)]
           /\ dots' = dots \cup {at}
    /\ UNCHANGED <<shape, ends>>

\* A quadrangle is two triangles with an edge between them.
Quad(a, b, c, d) ==
    /\ Convex(<<a, b, c, d>>)
    /\ shape' = "quad" /\ ends' = <<a, b, c, d>>
    /\ dots' = Triangle(<<a, b, c>>) \cup Triangle(<<a, c, d>>)
    /\ UNCHANGED pen

Next ==
    \/ \E kind \in {"line", "vertices"}, a, b \in Points : BeginLine(kind, a, b)
    \/ Walk
    \/ /\ shape = "none"
       /\ \E a, b, c \in Points : Edge(a, b, c) # 0 /\ \E d \in Points : Quad(a, b, c, d)

RasterStep == Walk
Spec == Init /\ [][Next]_raster /\ WF_raster(RasterStep)

-----------------------------------------------------------------------------
TypeOK ==
    /\ shape \in {"none", "line", "vertices", "quad"}
    /\ pen.err \in Int /\ Cardinality(dots) \in Nat

\* A line never leaves the box of its ends, so it cannot pass the last point
\* and goes on until it is there; and each of its pixels is the nearest
\* to the straight line in its column or row.
LineOnCourse ==
    shape \in {"line", "vertices"} =>
        LET far == IF Dx > Dy THEN Dx ELSE Dy
        IN  \A p \in dots :
            /\ \A i \in 1 .. 2 : p[i] \in Least({ends[1][i], ends[2][i]}) .. Most({ends[1][i], ends[2][i]})
            /\ 2 * Abs(Edge(ends[1], ends[2], p)) <= far

\* Two triangles that share an edge leave no gap along it: they paint what
\* lies within the four sides of the quadrangle.
QuadHasNoGap ==
    shape = "quad" =>
        dots = {p \in Target :
            LET w == {Edge(Twice(ends[i]), Twice(ends[(i % 4) + 1]), Centre(p)) : i \in 1 .. 4}
            IN (\A v \in w : v >= 0) \/ (\A v \in w : v <= 0)}

\* Every line comes to its last point.
Waits == shape \in {"line", "vertices"}
Settled == Waits /\ pen.at = ends[2]
=============================================================================
