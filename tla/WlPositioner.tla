---------------------------- MODULE WlPositioner ----------------------------
(***************************************************************************)
(* Where wlbridge puts a popup (xdg.c): the positioner of the client gives *)
(* a rectangle in the parent, an edge of it, the direction the popup grows *)
(* to, and what may be done when it does not fit.  The two axes are        *)
(* independent and treated alike; the module has one of them.              *)
(***************************************************************************)
EXTENDS Integers

CONSTANTS Starts, Lengths, Sizes, Offsets, Bounds    \* numbers a client may give

Sides == {"low", "middle", "high"}
Adjustments == SUBSET {"flip", "slide", "resize"}
Positioners == [start : Starts, length : Lengths, size : Sizes, offset : Offsets, bounds : Bounds,
                anchor : Sides, gravity : Sides, adjust : Adjustments]

VARIABLES
    pos,          \* the positioner, or <<>>
    at, extent    \* popup_x and popup_width, or popup_y and popup_height
vars == <<pos, at, extent>>

TypeOK == pos \in Positioners \cup {<<>>} /\ at \in Int /\ extent \in Nat

\* positioner_flip_anchor_x, _y, positioner_flip_gravity_x, _y
Opposite(side) == CASE side = "low" -> "high" [] side = "high" -> "low" [] OTHER -> side

\* positioner_calc_xy
Calc(p, anchor, gravity) ==
    LET edge == p.start + CASE anchor = "low" -> 0 [] anchor = "high" -> p.length [] OTHER -> p.length \div 2
    IN  edge - (CASE gravity = "low" -> p.size [] gravity = "high" -> 0 [] OTHER -> p.size \div 2) + p.offset

\* positioner_axis_fits
Fits(x, size, bounds) == bounds <= 0 \/ (x >= 0 /\ x + size <= bounds)

\* Mutant: the flipped place is taken without a look at it.
FlippedAlways(p, x) == Calc(p, Opposite(p.anchor), Opposite(p.gravity))
\* A flip is kept only when the popup fits then.
Flipped(p, x) ==
    LET other == Calc(p, Opposite(p.anchor), Opposite(p.gravity))
    IN  IF Fits(other, p.size, p.bounds) THEN other ELSE x

Slid(p, x) ==
    IF p.size > p.bounds THEN x
    ELSE IF x < 0 THEN 0
    ELSE p.bounds - p.size

\* The place and the size that are left when the popup is cut to the parent.
Cut(p, x) ==
    LET y == IF x < 0 THEN 0 ELSE IF x >= p.bounds THEN p.bounds - 1 ELSE x
    IN  <<y, IF y + p.size > p.bounds THEN p.bounds - y ELSE p.size>>

\* positioner_apply_constraints: each adjustment only if it still does not fit.
Adjusted(p) ==
    LET x0 == Calc(p, p.anchor, p.gravity)
        fits(x) == Fits(x, p.size, p.bounds)
        x1 == IF "flip" \in p.adjust /\ ~ fits(x0) THEN Flipped(p, x0) ELSE x0
        x2 == IF "slide" \in p.adjust /\ ~ fits(x1) THEN Slid(p, x1) ELSE x1
    IN  IF "resize" \in p.adjust /\ ~ fits(x2) THEN Cut(p, x2) ELSE <<x2, p.size>>

Init == pos = <<>> /\ at = 0 /\ extent = 0

\* The setters of the positioner, and get_popup or reposition: compute_popup_geometry.
Place ==
    /\ pos = <<>> /\ pos' \in Positioners
    /\ at' = Adjusted(pos')[1] /\ extent' = Adjusted(pos')[2]
Next == Place
Spec == Init /\ [][Next]_vars

\* A popup that may be cut is inside the parent, one that may slide and is not too large
\* is inside with its full size, and one that fits where it was asked for, or may not be
\* adjusted, is exactly there; it is flipped only to fit (xdg.c:151).
PlacedByRules ==
    pos # <<>> =>
        LET asked == Calc(pos, pos.anchor, pos.gravity)
        IN  /\ pos.bounds > 0 /\ "resize" \in pos.adjust => Fits(at, extent, pos.bounds) /\ extent >= 1
            /\ pos.bounds > 0 /\ "slide" \in pos.adjust /\ pos.size <= pos.bounds =>
                    Fits(at, extent, pos.bounds) /\ extent = pos.size
            /\ pos.adjust = {} \/ Fits(asked, pos.size, pos.bounds) => at = asked /\ extent = pos.size
            /\ pos.adjust = {"flip"} /\ at # asked => Fits(at, extent, pos.bounds)
=============================================================================
