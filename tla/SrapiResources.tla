--------------------------- MODULE SrapiResources ---------------------------
(***************************************************************************)
(* What srapi's backends take from the kernel for an object, one call      *)
(* after the other, and give back: buffers and images on a plain DRM node  *)
(* (gpu.c) and on i915 (i915.c), the framebuffers of the drm display       *)
(* (drm/buffer.c), the fbdev display (fbdev.c) and the devices under them  *)
(* (gpu.c).  Every call may fail; what was taken before is given back then *)
(* by a list that each place in the code writes out for itself.  The       *)
(* display itself (drm.c) has a terminal, which it can do without, and two *)
(* screens, which a change of mode replaces.                               *)
(*                                                                         *)
(* The objects of a device are made and destroyed while it is open: the    *)
(* code keeps a pointer to it in each of them and checks nothing.          *)
(***************************************************************************)
EXTENDS Naturals, Sequences, FiniteSets, SequencesExt

CONSTANTS Kinds        \* the kinds of objects of this instance

VARIABLES
    driver,       \* gpu_driver of the open device: "dumb" or "i915"
    held,         \* what each object holds
    progress,     \* of its creation: "no", the calls done, "made" or "undoing"
    calls,        \* how many calls of its creation have succeeded
    undoing       \* what is still to be given back, in order

resources == <<driver, held, progress, calls, undoing>>

\* The calls of each creation.
ProbeCalls  == <<"fd", "handle", "offset">>
OpenCalls   == <<"fd", "struct", "hashes">>
DumbCalls   == <<"handle", "offset", "struct", "map">>
GemBufferCalls == <<"handle", "struct", "map", "domain">>
GemImageCalls  == <<"handle", "map", "struct", "domain">>
ScreenCalls == <<"handle", "fb", "offset", "map">>
DisplayCalls == <<"fd", "struct", "output", "screen0", "screen1", "crtc">>
TerminalCalls == <<"tty", "state", "handlers", "mode">>
ModeCalls == <<"output", "screen0", "screen1", "crtc">>
FbdevCalls  == <<"fd", "info", "struct", "map", "device", "hashes">>
Ladder == [
    probe |-> ProbeCalls, device |-> OpenCalls, dumbBuffer |-> DumbCalls, dumbImage |-> DumbCalls,
    gemBuffer |-> GemBufferCalls, gemImage |-> GemImageCalls, screen |-> ScreenCalls, fbdev |-> FbdevCalls,
    display |-> DisplayCalls, terminal |-> TerminalCalls, newMode |-> ModeCalls]

\* Calls that answer a question and give nothing that would have to go back
Question == {"offset", "info", "domain", "output", "crtc", "state"}

\* Mutant: an error path gives back only what the first call gave.
UndoneFirst(k, n) == IF n = 0 THEN <<>> ELSE <<Ladder[k][1]>>

\* Mutant: an error path gives back what the failed call would have given.
UndoneToo(k, n) ==
    SelectSeq(Reverse(SubSeq(Ladder[k], 1, n + 1)), LAMBDA r : r \notin Question)

\* What the error path after n successful calls gives back, in its order; the first of each
\* list is for none.  vt_install and create_gem_object undo their own calls.
UndoneProbe  == <<<<>>, <<"fd">>, <<"handle", "fd">>>>
UndoneDevice == <<<<>>, <<"fd">>, <<"fd", "struct">>>>
UndoneDumb   == <<<<>>, <<"handle">>, <<"handle">>, <<"struct", "handle">>>>
UndoneGemBuffer == <<<<>>, <<"handle">>, <<"struct", "handle">>, <<"map", "handle", "struct">>>>
UndoneGemImage  == <<<<>>, <<"handle">>, <<"map", "handle">>, <<"map", "handle", "struct">>>>
UndoneScreen == <<<<>>, <<"handle">>, <<"fb", "handle">>, <<"fb", "handle">>>>
\* srapi_drm_close of what there is, the screens first
UndoneDisplay == <<<<>>, <<"fd">>, <<"fd", "struct">>, <<"fd", "struct">>,
    <<"screen0", "fd", "struct">>, <<"screen0", "screen1", "fd", "struct">>>>
UndoneTerminal == <<<<>>, <<"tty">>, <<"tty">>, <<"handlers", "tty">>>>
UndoneMode  == <<<<>>, <<>>, <<"screen0">>, <<"screen0", "screen1">>>>
UndoneFbdev == <<<<>>, <<"fd">>, <<"fd">>, <<"struct", "fd">>, <<"map", "struct", "fd">>,
    <<"device", "map", "struct", "fd">>>>
ErrorPaths == [
    probe |-> UndoneProbe, device |-> UndoneDevice, dumbBuffer |-> UndoneDumb, dumbImage |-> UndoneDumb,
    gemBuffer |-> UndoneGemBuffer, gemImage |-> UndoneGemImage, screen |-> UndoneScreen, fbdev |-> UndoneFbdev,
    display |-> UndoneDisplay, terminal |-> UndoneTerminal, newMode |-> UndoneMode]
Undone(k, n) == ErrorPaths[k][n + 1]

\* Mutant: the handle goes first.
DestroyedAsMade(k) == SelectSeq(Ladder[k], LAMBDA r : r \notin Question)

DestroyedScreen == <<"map", "fb", "handle">>
DestroyedFbdev == <<"map", "fd", "hashes", "device", "struct">>
DestroyedDisplay == <<"screen0", "screen1", "fd", "struct">>
DestroyedTerminal == <<"mode", "handlers", "tty">>

\* The destroy or close of the object gives back all of it.
Mapping == <<"map", "handle", "struct">>
Destroyers == [
    probe |-> <<"handle", "fd">>, device |-> <<"fd", "hashes", "struct">>,
    dumbBuffer |-> Mapping, dumbImage |-> Mapping, gemBuffer |-> Mapping, gemImage |-> Mapping,
    screen |-> DestroyedScreen, fbdev |-> DestroyedFbdev, display |-> DestroyedDisplay,
    terminal |-> DestroyedTerminal, newMode |-> <<"screen0", "screen1">>]
Destroyed(k) == Destroyers[k]

OfDriver(k) ==
    CASE k \in {"dumbBuffer", "dumbImage"} -> driver = "dumb"
      [] k \in {"gemBuffer", "gemImage"} -> driver = "i915"
      [] OTHER -> TRUE

Resources == (UNION {ToSet(Ladder[k]) : k \in DOMAIN Ladder}) \ Question
Idle == \A k \in Kinds : progress[k] \in {"no", "made"}

-----------------------------------------------------------------------------
Init ==
    /\ driver = "none" /\ held = [k \in Kinds |-> {}]
    /\ progress = [k \in Kinds |-> "no"] /\ calls = [k \in Kinds |-> 0]
    /\ undoing = [k \in Kinds |-> <<>>]

NeedsDevice(k) == k \in {"dumbBuffer", "dumbImage", "gemBuffer", "gemImage"}
NeedsDisplay(k) == k \in {"terminal", "newMode"}

\* One object at a time: srapi makes them in one thread.
Create(k) ==
    /\ Idle /\ progress[k] = "no"
    /\ NeedsDevice(k) => progress["device"] = "made" /\ OfDriver(k)
    /\ NeedsDisplay(k) => progress["display"] = "made"
    /\ progress' = [progress EXCEPT ![k] = "making"]
    /\ UNCHANGED <<driver, held, calls, undoing>>

\* After the last call; open_device then asks whether it is i915, probe is done, and the
\* screens of the old mode are given back.
Complete(k) ==
    /\ progress[k] = "making" /\ calls[k] = Len(Ladder[k])
    /\ IF k \in {"probe", "newMode"}
       THEN /\ progress' = [progress EXCEPT ![k] = "undoing"]
            /\ undoing' = [undoing EXCEPT ![k] = Destroyed(k)]
       ELSE progress' = [progress EXCEPT ![k] = "made"] /\ UNCHANGED undoing
    /\ IF k = "device" THEN driver' \in {"dumb", "i915"} ELSE UNCHANGED driver
    /\ UNCHANGED <<held, calls>>

CallWorks(k) ==
    /\ progress[k] = "making" /\ calls[k] < Len(Ladder[k])
    /\ held' = [held EXCEPT ![k] = @ \cup ({Ladder[k][calls[k] + 1]} \ Question)]
    /\ calls' = [calls EXCEPT ![k] = @ + 1]
    /\ UNCHANGED <<driver, progress, undoing>>

CallFails(k) ==
    /\ progress[k] = "making" /\ calls[k] < Len(Ladder[k])
    /\ progress' = [progress EXCEPT ![k] = "undoing"]
    /\ undoing' = [undoing EXCEPT ![k] = Undone(k, calls[k])]
    /\ UNCHANGED <<driver, held, calls>>

Destroy(k) ==
    /\ Idle /\ progress[k] = "made"
    /\ k = "device" => \A o \in Kinds : NeedsDevice(o) => progress[o] = "no"
    /\ k = "display" => \A o \in Kinds : NeedsDisplay(o) => progress[o] = "no"
    /\ progress' = [progress EXCEPT ![k] = "undoing"]
    /\ undoing' = [undoing EXCEPT ![k] = Destroyed(k)]
    /\ UNCHANGED <<driver, held, calls>>

GiveBack(k) ==
    /\ progress[k] = "undoing" /\ undoing[k] # <<>>
    /\ held' = [held EXCEPT ![k] = @ \ {Head(undoing[k])}]
    /\ undoing' = [undoing EXCEPT ![k] = Tail(@)]
    /\ UNCHANGED <<driver, progress, calls>>

Gone(k) ==
    /\ progress[k] = "undoing" /\ undoing[k] = <<>>
    /\ progress' = [progress EXCEPT ![k] = "no"] /\ calls' = [calls EXCEPT ![k] = 0]
    /\ driver' = IF k = "device" THEN "none" ELSE driver
    /\ UNCHANGED <<held, undoing>>

Next == \E k \in Kinds :
    \/ Create(k) \/ Complete(k) \/ CallWorks(k) \/ CallFails(k)
    \/ Destroy(k) \/ GiveBack(k) \/ Gone(k)

Working(k) == CallWorks(k) \/ CallFails(k) \/ Complete(k) \/ GiveBack(k) \/ Gone(k)
ResourceStep == \E k \in Kinds : Working(k)

Spec == Init /\ [][Next]_resources /\ WF_resources(ResourceStep)

-----------------------------------------------------------------------------
TypeOK ==
    /\ driver \in {"none", "dumb", "i915"}
    /\ held \in [Kinds -> SUBSET Resources]
    /\ progress \in [Kinds -> {"no", "making", "made", "undoing"}]
    /\ calls \in [Kinds -> 0 .. 6]

\* A creation that fails at any of its calls, and a destroy, leave nothing
\* behind: no handle, no framebuffer id, no mapping, no descriptor.
NothingLeft == \A k \in Kinds : progress[k] = "no" => held[k] = {}

\* Nothing is given back twice, and nothing that was never taken.
GivenBackOnce == \A k \in Kinds :
    /\ ToSet(undoing[k]) \subseteq held[k]
    /\ Len(undoing[k]) = Cardinality(ToSet(undoing[k]))

\* What rests on a handle goes before it: the framebuffer id and the mapping
\* of a DRM object never outlive its handle, nor does the handle outlive the
\* descriptor it was made on; a terminal that sends signals has handlers for them.
InOrder == \A k \in Kinds :
    /\ "fb" \in held[k] => "handle" \in held[k]
    /\ k # "fbdev" /\ "map" \in held[k] => "handle" \in held[k]
    /\ k = "probe" /\ "handle" \in held[k] => "fd" \in held[k]
    /\ NeedsDevice(k) /\ held[k] # {} => "fd" \in held["device"]
    /\ NeedsDisplay(k) /\ held[k] # {} => "fd" \in held["display"]
    /\ "screen1" \in held[k] /\ k = "display" => "fd" \in held[k]
    /\ {"handlers", "mode"} \cap held[k] # {} => "tty" \in held[k]
    /\ "mode" \in held[k] => "handlers" \in held[k]

\* A creation or a destroy ends, whatever fails on the way.
Waits == ~ Idle
Settled == Idle
=============================================================================
