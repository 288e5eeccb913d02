----------------------------- MODULE I915Render -----------------------------
(***************************************************************************)
(* A command list on an i915 image or framebuffer (srapi's i915.c,         *)
(* render3d.c and vm.c, tile cache off).  Clears and filled rectangles are *)
(* batches for the blitter, which works by itself; lines, triangles and    *)
(* shaded rectangles are written through the mapping by the CPU.           *)
(*                                                                         *)
(* The target is one row of pixels: the code treats y as it treats x.  A   *)
(* line or a triangle is the run of pixels it covers.                      *)
(***************************************************************************)
EXTENDS Integers, Sequences, FiniteSetsExt

CONSTANTS Width,      \* of the target
          Spans,      \* <<first, how many>>: where things are drawn, and scissors
          Colours,
          MaxBlit,    \* 32767 in the code: the blitter's coordinates
          MaxList,    \* bound: commands in a list
          MaxRing     \* bound: fills overdue when a submit begins

VARIABLES
    pixels,       \* of the target, as they are in memory
    ring,         \* the fills that the blitter has still to do
    batches,      \* batch objects that the process holds
    at,           \* where the submit is: "no", "list", "batch", "exec" or "wait"
    left,         \* commands the list may still have
    clipping,     \* the scissor; "whole" before the first of the list
    blit,         \* the area and colour of the fill under way
    answer,       \* of the last submit
    overdue,      \* ghost: a wait has timed out with fills still in the ring
    meant,        \* ghost: the picture that the cpu renderer would paint
    apart         \* ghost: where only the cpu renderer has shaded last, behind the scissor

submit == <<at, left, clipping, blit, answer>>
i915 == <<pixels, ring, batches, submit, overdue, meant, apart>>

Target == 0 .. Width - 1
Cells(s) == s[1] .. s[1] + s[2] - 1
NoBlit == [area |-> {}, colour |-> "none"]
Paint(picture, area, c) == [p \in Target |-> IF p \in area THEN c ELSE picture[p]]

Init ==
    /\ pixels = [p \in Target |-> "black"] /\ meant = pixels
    /\ ring = <<>> /\ batches = 0 /\ at = "no" /\ left = 0
    /\ clipping = Target /\ blit = NoBlit /\ answer = "none" /\ overdue = FALSE /\ apart = {}

Submit ==
    /\ at = "no" /\ Len(ring) <= MaxRing
    /\ at' = "list" /\ left' = MaxList /\ clipping' = Target /\ answer' = "running"
    /\ meant' = pixels /\ overdue' = (ring # <<>>) /\ apart' = {}
    /\ UNCHANGED <<pixels, ring, batches, blit>>

Ends(a) == at' = "no" /\ answer' = a /\ UNCHANGED <<left, clipping, blit>>
Taken == at = "list" /\ left > 0
Skip == left' = left - 1 /\ UNCHANGED <<at, clipping, blit, answer>>

\* The list may be over at any place.
End == at = "list" /\ Ends("ok") /\ UNCHANGED <<pixels, ring, batches, overdue, meant, apart>>

\* Alpha blending and vertices are refused; what was drawn before them stays.
Unsupported == Taken /\ Ends("error") /\ UNCHANGED <<pixels, ring, batches, overdue, meant, apart>>

\* Mutant: only the scissor clips a fill, and nothing refuses it.
NeverOutside(area) == FALSE

\* srapi_i915_fill_rect_image, fill_framebuffer_rect: the rectangle is clipped
\* by the scissor alone and refused when that leaves the target.
Outside(area) == ~ area \subseteq Target \/ Max(area) + 1 > MaxBlit

Fill(area, c) ==
    /\ Taken
    /\ IF area = {} THEN Skip
       ELSE IF Outside(area) THEN Ends("error")
       ELSE /\ at' = "batch" /\ left' = left - 1
            /\ blit' = [area |-> area, colour |-> c]
            /\ UNCHANGED <<clipping, answer>>
    /\ meant' = (IF area = {} THEN meant ELSE Paint(meant, area, c)) /\ apart' = apart \ area
    /\ UNCHANGED <<pixels, ring, batches, overdue>>

Clear(c) == Fill(Target \cap clipping, c)
FillRect(s, c) == Fill(Cells(s) \cap clipping, c)

SetScissor(s) ==
    /\ Taken /\ clipping' = Cells(s) /\ left' = left - 1
    /\ UNCHANGED <<pixels, ring, batches, at, blit, answer, overdue, meant, apart>>

\* put_pixel_mapped and fill_span_mapped look at the target as well.
Mapped(s, c) ==
    /\ Taken /\ Skip
    /\ LET area == Cells(s) \cap clipping \cap Target
       IN pixels' = Paint(pixels, area, c) /\ meant' = Paint(meant, area, c) /\ apart' = apart \ area
    /\ UNCHANGED <<ring, batches, overdue>>

\* The shader waits for the blitter, for a second at most, and goes on whatever
\* comes of it: the wait is not seen.  Its rectangle is clipped by the scissor alone: a
\* scissor that leaves the target is left out here.  The cpu renderer clips it by the target
\* alone, and no scissor keeps it back.
Shade(s, c) ==
    /\ Taken /\ Skip
    /\ clipping \subseteq Target
    /\ LET area == Cells(s) \cap clipping
           full == Cells(s) \cap Target
       IN /\ pixels' = Paint(pixels, area, c) /\ meant' = Paint(meant, full, c)
          /\ apart' = (apart \ area) \cup (full \ area)
    /\ UNCHANGED <<ring, batches, overdue>>

-----------------------------------------------------------------------------
(* One fill: i915_fill_handle_fd, srapi_i915_fill_buffer *)

\* The batch object, its contents and its domain; undone when one of them fails.
MakeBatch ==
    /\ at = "batch"
    /\ \/ at' = "exec" /\ batches' = batches + 1 /\ UNCHANGED <<left, clipping, blit, answer>>
       \/ Ends("error") /\ UNCHANGED batches
    /\ UNCHANGED <<pixels, ring, overdue, meant, apart>>

\* Mutant: the batch of a refused EXECBUFFER2 is kept.
ExecKeeping ==
    /\ at = "exec"
    /\ \/ /\ ring' = Append(ring, blit)
          /\ at' = "wait" /\ UNCHANGED <<left, clipping, blit, answer>>
       \/ Ends("error") /\ UNCHANGED ring
    /\ UNCHANGED <<pixels, batches, overdue, meant, apart>>

Exec ==
    /\ at = "exec"
    /\ \/ /\ ring' = Append(ring, blit) /\ UNCHANGED batches
          /\ at' = "wait" /\ UNCHANGED <<left, clipping, blit, answer>>
       \/ Ends("error") /\ batches' = batches - 1 /\ UNCHANGED ring
    /\ UNCHANGED <<pixels, overdue, meant, apart>>

\* Mutant: the domain is changed without a wait.
WaitNot ==
    /\ at = "wait" /\ batches' = batches - 1
    /\ \/ at' = "list" /\ UNCHANGED <<left, clipping, blit, answer, overdue>>
       \/ Ends("error") /\ UNCHANGED overdue
       \/ Ends("error") /\ ring # <<>> /\ overdue' = TRUE
    /\ UNCHANGED <<pixels, ring, meant, apart>>

\* GEM_WAIT ends with the fill done or after a second; SET_DOMAIN may fail too.
\* The batch goes in each case: the kernel keeps its own reference.
Wait ==
    /\ at = "wait" /\ batches' = batches - 1
    /\ \/ /\ ring = <<>> /\ at' = "list"
          /\ UNCHANGED <<left, clipping, blit, answer, overdue>>
       \/ ring = <<>> /\ Ends("error") /\ UNCHANGED overdue
       \/ ring # <<>> /\ Ends("error") /\ overdue' = TRUE
    /\ UNCHANGED <<pixels, ring, meant, apart>>

\* The blitter
Blit ==
    /\ ring # <<>> /\ ring' = Tail(ring)
    /\ pixels' = Paint(pixels, Head(ring).area, Head(ring).colour)
    /\ UNCHANGED <<batches, submit, overdue, meant, apart>>

Next ==
    \/ Submit \/ End \/ Unsupported
    \/ \E c \in Colours : Clear(c)
    \/ \E s \in Spans, c \in Colours : FillRect(s, c) \/ Mapped(s, c) \/ Shade(s, c)
    \/ \E s \in Spans : SetScissor(s)
    \/ MakeBatch \/ Exec \/ Wait \/ Blit

FillStep == MakeBatch \/ Exec \/ Wait \/ Blit
Spec == Init /\ [][Next]_i915 /\ WF_i915(FillStep)

-----------------------------------------------------------------------------
TypeOK ==
    /\ pixels \in [Target -> Colours \cup {"black"}] /\ meant \in [Target -> Colours \cup {"black"}]
    /\ apart \subseteq Target /\ batches \in Nat /\ left \in 0 .. MaxList
    /\ at \in {"no", "list", "batch", "exec", "wait"}
    /\ answer \in {"none", "running", "ok", "error"}

\* A submit that answers OK has painted what the cpu renderer paints, with the
\* blitter and the CPU in the order of the list, as long as no wait timed out; but
\* for pixels behind a scissor that a shaded rectangle covers and nothing drawn later.
PaintsAsCpu == answer = "ok" /\ ~ overdue => \A p \in Target \ apart : pixels[p] = meant[p]

\* The CPU never works on a target that the blitter still writes, but for one
\* that is overdue.
CpuAlone == at \in {"no", "list"} /\ ~ overdue => ring = <<>>

\* The blitter never writes outside the target.
BlitsInside == \A i \in 1 .. Len(ring) : ring[i].area \subseteq Target

\* No batch object outlives the fill it was made for, whichever of its calls fails.
NoBatchLeft == at \in {"no", "list", "batch"} => batches = 0

\* A fill ends, with the blitter's work done or after the second it is given.
Waits == at \in {"batch", "exec", "wait"}
Settled == at \in {"no", "list"}
=============================================================================
