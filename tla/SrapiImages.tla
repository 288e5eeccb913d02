---------------------------- MODULE SrapiImages ----------------------------
(***************************************************************************)
(* Images, their views and the copies of a queue (core/image.c,            *)
(* core/image_view.c, core/queue.c).  Coordinates are unsigned words of    *)
(* Words values, so a subtraction wraps around.  An image is one row after *)
(* another in memory, a buffer is a row of pixels.                         *)
(***************************************************************************)
EXTENDS Integers, FiniteSets

CONSTANTS
    Width, Height,  \* of the image
    Size,           \* of the buffer, in pixels
    Words,          \* 2^32 in the code
    MaxMaps

VARIABLES
    touched,     \* the pixels of the image's memory that the last copy went through
    reached,     \* and those of the buffer's, in the same order
    view,        \* of the view: its rectangle and its mappings, or none
    mapped,      \* image->mapped
    hostMaps     \* the mappings that callers hold on the image itself

imageVars == <<touched, reached, view, mapped, hostMaps>>

Word == 0 .. Words - 1
Minus(a, b) == (a - b) % Words
NoView == [x |-> 0, y |-> 0, w |-> 0, h |-> 0, maps |-> 0]
Region(x, y, w, h, offset) == [x |-> x, y |-> y, w |-> w, h |-> h, offset |-> offset]

Init ==
    /\ touched = {} /\ reached = {} /\ view = NoView /\ mapped = 0 /\ hostMaps = 0

\* A bug: the origin is not checked before the subtraction.
InsideUnguarded(r) == r.w # 0 /\ r.h # 0 /\ r.w <= Minus(Width, r.x) /\ r.h <= Minus(Height, r.y)

Inside(r) ==
    /\ r.w # 0 /\ r.h # 0
    /\ r.x <= Width /\ r.y <= Height
    /\ r.w <= Minus(Width, r.x) /\ r.h <= Minus(Height, r.y)

\* The area of the buffer is computed in size_t, with a check before each step: no wrap.
RegionOk(r) == Inside(r) /\ r.offset + r.w * r.h <= Size

ImageArea(r) == {(r.y + n) * Width + r.x + k : n \in 0 .. r.h - 1, k \in 0 .. r.w - 1}

\* A bug: the buffer is taken to have the rows of the image.
PairedByPitch(r, a) == r.offset + ((a \div Width) - r.y) * Width + (a % Width) - r.x

\* The pixel of the buffer for a pixel of the image: the buffer has rows without gaps.
Paired(r, a) == r.offset + ((a \div Width) - r.y) * r.w + (a % Width) - r.x

\* From the buffer to the image or back: the same pairs, read or written.
Copy(r) ==
    /\ RegionOk(r)
    /\ touched' = ImageArea(r) /\ reached' = {Paired(r, a) : a \in ImageArea(r)}
    /\ UNCHANGED <<view, mapped, hostMaps>>

FillImage ==
    /\ touched' = 0 .. Width * Height - 1 /\ reached' = {}
    /\ UNCHANGED <<view, mapped, hostMaps>>

\* A size of 0 stands for all that is left; the origin is checked before the subtraction.
CreateView(x, y, w, h) ==
    LET width == IF w # 0 THEN w ELSE Minus(Width, x)
        height == IF h # 0 THEN h ELSE Minus(Height, y)
    IN  /\ view = NoView
        /\ x < Width /\ y < Height
        /\ width # 0 /\ height # 0 /\ width <= Minus(Width, x) /\ height <= Minus(Height, y)
        /\ view' = [x |-> x, y |-> y, w |-> width, h |-> height, maps |-> 0]
        /\ UNCHANGED <<touched, reached, mapped, hostMaps>>

\* The callers that the repository has give a mapping back before they destroy a view.
DestroyView ==
    /\ view # NoView /\ view.maps = 0 /\ view' = NoView
    /\ UNCHANGED <<touched, reached, mapped, hostMaps>>

\* A bug: the image is not told.
ViewMapAlone ==
    /\ view # NoView /\ view.maps < MaxMaps /\ view' = [view EXCEPT !.maps = @ + 1]
    /\ UNCHANGED <<touched, reached, mapped, hostMaps>>

\* A mapped view counts for its image too.
ViewMap ==
    /\ view # NoView /\ view.maps < MaxMaps
    /\ view' = [view EXCEPT !.maps = @ + 1] /\ mapped' = mapped + 1
    /\ UNCHANGED <<touched, reached, hostMaps>>
ViewUnmap ==
    /\ view.maps > 0
    /\ view' = [view EXCEPT !.maps = @ - 1]
    /\ mapped' = IF mapped > 0 THEN mapped - 1 ELSE mapped
    /\ UNCHANGED <<touched, reached, hostMaps>>

ImageMap ==
    /\ hostMaps < MaxMaps /\ hostMaps' = hostMaps + 1 /\ mapped' = mapped + 1
    /\ UNCHANGED <<touched, reached, view>>
ImageUnmap ==
    /\ hostMaps > 0 /\ hostMaps' = hostMaps - 1
    /\ mapped' = IF mapped > 0 THEN mapped - 1 ELSE mapped
    /\ UNCHANGED <<touched, reached, view>>

Regions == {Region(x, y, w, h, o) : x \in Word, y \in Word, w \in Word, h \in Word, o \in 0 .. Size}
Next ==
    \/ \E r \in Regions : Copy(r)
    \/ FillImage
    \/ \E x, y, w, h \in Word : CreateView(x, y, w, h)
    \/ DestroyView \/ ViewMap \/ ViewUnmap \/ ImageMap \/ ImageUnmap

Spec == Init /\ [][Next]_imageVars

(***************************************************************************)
(* Properties                                                              *)
(***************************************************************************)
\* The counts are counts and the pixels are addresses.
TypeOK ==
    /\ touched \in SUBSET Nat /\ reached \in SUBSET Int
    /\ mapped \in Nat /\ hostMaps \in 0 .. MaxMaps /\ view.maps \in 0 .. MaxMaps

\* No copy goes outside the memory of the image or of the buffer, not even with coordinates
\* for which the unsigned differences of copy_region_ok wrap around, nor does a view; and no
\* two pixels of the image share one of the buffer.
CopiesInside ==
    /\ reached # {} => Cardinality(reached) = Cardinality(touched)
    /\ touched \subseteq 0 .. Width * Height - 1 /\ reached \subseteq 0 .. Size - 1
    /\ view.x + view.w <= Width /\ view.y + view.h <= Height

\* As long as callers pair their calls, an image counts its own mappings and those of its
\* views: it is never taken for unmapped while somebody writes through a view.
MapsCounted == mapped = hostMaps + view.maps
=============================================================================
