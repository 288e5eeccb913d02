---------------------------- MODULE SrapiProofs ----------------------------
(***************************************************************************)
(* What holds of Srapi, for every value of its constants: DevicesSafe, of  *)
(* the objects that take something from the kernel, of the probe of the    *)
(* cards and of the input context; DrawingSafe, of what draws; and TypeOK. *)
(*                                                                         *)
(* Objects: ObjectsInv says of each that it holds what its calls have      *)
(* taken so far (Taken) and, on its way out, that what it still has to     *)
(* give back is exactly what it holds, each once and what rests on another *)
(* first (Undoes). That the error paths and the destroys of the code are   *)
(* such lists is Balanced, shown for each kind of object from its tables.  *)
(* Nested says that what lives on the device or the display holds nothing  *)
(* when that is not open.                                                  *)
(*                                                                         *)
(* The probe: ProbeInv keeps, of every card so far, that it has no more    *)
(* points than the best, and those before the best have fewer.             *)
(*                                                                         *)
(* Input: RingInv is the arithmetic of the ring; Account is what makes     *)
(* EventsTellAll inductive: a function f, from the number of queued events *)
(* that have been taken to what is known then, that ends in the state. It  *)
(* is unique (KnowingIs), so it is what Knowing computes. An event that is *)
(* queued makes it longer by one (FollowsOn), one that is taken shorter    *)
(* (FollowsLess), and a growth of the ring leaves it as it is              *)
(* (PushQueues).                                                           *)
(*                                                                         *)
(* What a recursive function of the model computes - a submit over its     *)
(* list, a shader over its instructions, the decoder over its words - is   *)
(* shown to exist and to keep a property by Climb: the least number for    *)
(* which it fails would have a smaller one.                                *)
(*                                                                         *)
(* Lists: Run goes through states whose scissor is the last one set and    *)
(* whose picture is painted by the commands before. Copies: a difference   *)
(* of words that does not wrap (Minuses) is that of numbers. Shaders:      *)
(* chunks and tiles cut a rectangle as a product does (RowAndColumn), and  *)
(* the machines of the two interpreters agree after each instruction of a  *)
(* tame pixel (Agreeing), since an operation on which they do not part has *)
(* one value, whichever way it is computed (Alike8). Lines: in LineInv the error is that of the straight line,  *)
(* so a point that is near it stays near and is in the box of the ends     *)
(* (OnCourse). Triangles: Balance is an identity between the three sides   *)
(* at a point; with it a pixel inside the four sides lies in one half of   *)
(* the quadrangle, and one in a half inside all four. Tiles:               *)
(* TileCacheProofs.tla. The blitter: Coming is what memory holds once the  *)
(* ring is empty, but for the pixels that only one renderer shades.        *)
(***************************************************************************)
EXTENDS Srapi, FiniteSetTheorems, SequenceTheorems, WellFoundedInduction, TLAPS

-----------------------------------------------------------------------------
(* Objects: what is taken and given back *)

Kinds == {"device", "dumbBuffer", "dumbImage", "gemBuffer", "gemImage", "screen", "fbdev", "probe",
          "display", "terminal", "newMode"}
Things == {"fd", "handle", "struct", "hashes", "map", "fb", "screen0", "screen1", "tty", "handlers",
           "mode", "device"} \cup O!Question
Bases == {"handle", "fd", "tty", "handlers"}

\* In an object of kind k, a is of no use without b.
Rests(k, a, b) ==
    \/ b = "handle" /\ (a = "fb" \/ (a = "map" /\ k # "fbdev"))
    \/ b = "fd" /\ ((a = "handle" /\ k = "probe") \/ (a = "screen1" /\ k = "display"))
    \/ b = "tty" /\ a \in {"handlers", "mode"}
    \/ b = "handlers" /\ a = "mode"

\* What the first n calls took
Taken(k, n) == {O!Ladder[k][i] : i \in 1 .. n} \ O!Question

\* A list that gives back each thing once, and what rests on another first.
Each(s) == \A i, j \in DOMAIN s : i # j => s[i] # s[j]
FromTop(k, s) == \A i \in DOMAIN s, b \in Bases : Rests(k, s[i], b) => \E j \in DOMAIN s : j > i /\ s[j] = b
Undoes(k, s, S) ==
    /\ s \in Seq(Things) /\ Each(s) /\ FromTop(k, s)
    /\ O!ToSet(s) = S

LEMMA UndoesNothing ==
    ASSUME NEW k
    PROVE Undoes(k, <<>>, {})
BY DEF Undoes, Each, FromTop, O!ToSet

\* What every way out of a creation, and the destroy, give back is what was taken.
Balanced(k) ==
    /\ O!Ladder[k] \in Seq(Things)
    /\ \A n \in 0 .. Len(O!Ladder[k]) - 1 : Undoes(k, O!Undone(k, n), Taken(k, n))
    /\ Undoes(k, O!Destroyed(k), Taken(k, Len(O!Ladder[k])))

LEMMA ProbeBalanced == Balanced("probe")
<1>1. /\ O!Ladder["probe"] = O!ProbeCalls /\ O!ErrorPaths["probe"] = O!UndoneProbe
      /\ O!Destroyed("probe") = <<"handle", "fd">>
  BY DEF O!Ladder, O!ErrorPaths, O!Destroyed, O!Destroyers
<1>2. /\ Taken("probe", 0) = {} /\ Taken("probe", 1) = {"fd"}
      /\ Taken("probe", 2) = {"fd", "handle"} /\ Taken("probe", 3) = {"fd", "handle"}
  BY <1>1 DEF Taken, O!ProbeCalls, O!Question
<1>3. /\ O!Undone("probe", 0) = <<>> /\ O!Undone("probe", 1) = <<"fd">>
      /\ O!Undone("probe", 2) = <<"handle", "fd">>
  BY <1>1 DEF O!Undone, O!UndoneProbe
<1>4. /\ Undoes("probe", <<"fd">>, {"fd"}) /\ Undoes("probe", <<"handle", "fd">>, {"fd", "handle"})
  BY DEF Undoes, Each, FromTop, O!ToSet, Rests, Bases, Things
<1>5. Len(O!ProbeCalls) = 3 /\ O!ProbeCalls \in Seq(Things)
  BY DEF O!ProbeCalls, Things, O!Question
<1>6. \A n \in 0 .. 2 : n = 0 \/ n = 1 \/ n = 2
  OBVIOUS
<1>7. \A n \in 0 .. 2 : Undoes("probe", O!Undone("probe", n), Taken("probe", n))
  BY <1>2, <1>3, <1>4, <1>6, UndoesNothing
<1>8. Undoes("probe", O!Destroyed("probe"), Taken("probe", 3))
  BY <1>1, <1>2, <1>4
<1>9. O!Ladder["probe"] \in Seq(Things) /\ Len(O!Ladder["probe"]) = 3
  BY <1>1, <1>5
<1> QED BY <1>7, <1>8, <1>9 DEF Balanced

LEMMA DeviceBalanced == Balanced("device")
<1>1. /\ O!Ladder["device"] = O!OpenCalls /\ O!ErrorPaths["device"] = O!UndoneDevice
      /\ O!Destroyed("device") = <<"fd", "hashes", "struct">>
  BY DEF O!Ladder, O!ErrorPaths, O!Destroyed, O!Destroyers
<1>2. /\ Taken("device", 0) = {} /\ Taken("device", 1) = {"fd"}
      /\ Taken("device", 2) = {"fd", "struct"} /\ Taken("device", 3) = {"fd", "struct", "hashes"}
  BY <1>1 DEF Taken, O!OpenCalls, O!Question
<1>3. /\ O!Undone("device", 0) = <<>> /\ O!Undone("device", 1) = <<"fd">>
      /\ O!Undone("device", 2) = <<"fd", "struct">>
  BY <1>1 DEF O!Undone, O!UndoneDevice
<1>4. /\ Undoes("device", <<"fd">>, {"fd"})
      /\ Undoes("device", <<"fd", "struct">>, {"fd", "struct"})
      /\ Undoes("device", <<"fd", "hashes", "struct">>, {"fd", "struct", "hashes"})
  BY DEF Undoes, Each, FromTop, O!ToSet, Rests, Bases, Things
<1>5. Len(O!OpenCalls) = 3 /\ O!OpenCalls \in Seq(Things)
  BY DEF O!OpenCalls, Things, O!Question
<1>6. \A n \in 0 .. 2 : n = 0 \/ n = 1 \/ n = 2
  OBVIOUS
<1>7. \A n \in 0 .. 2 : Undoes("device", O!Undone("device", n), Taken("device", n))
  BY <1>2, <1>3, <1>4, <1>6, UndoesNothing
<1>8. Undoes("device", O!Destroyed("device"), Taken("device", 3))
  BY <1>1, <1>2, <1>4
<1>9. O!Ladder["device"] \in Seq(Things) /\ Len(O!Ladder["device"]) = 3
  BY <1>1, <1>5
<1> QED BY <1>7, <1>8, <1>9 DEF Balanced

LEMMA DumbBufferBalanced == Balanced("dumbBuffer")
<1>1. /\ O!Ladder["dumbBuffer"] = O!DumbCalls /\ O!ErrorPaths["dumbBuffer"] = O!UndoneDumb
      /\ O!Destroyed("dumbBuffer") = <<"map", "handle", "struct">>
  BY DEF O!Ladder, O!ErrorPaths, O!Destroyed, O!Destroyers, O!Mapping
<1>2. /\ Taken("dumbBuffer", 0) = {} /\ Taken("dumbBuffer", 1) = {"handle"}
      /\ Taken("dumbBuffer", 2) = {"handle"} /\ Taken("dumbBuffer", 3) = {"handle", "struct"}
      /\ Taken("dumbBuffer", 4) = {"handle", "struct", "map"}
  BY <1>1 DEF Taken, O!DumbCalls, O!Question
<1>3. /\ O!Undone("dumbBuffer", 0) = <<>> /\ O!Undone("dumbBuffer", 1) = <<"handle">>
      /\ O!Undone("dumbBuffer", 2) = <<"handle">>
      /\ O!Undone("dumbBuffer", 3) = <<"struct", "handle">>
  BY <1>1 DEF O!Undone, O!UndoneDumb
<1>4. /\ Undoes("dumbBuffer", <<"handle">>, {"handle"})
      /\ Undoes("dumbBuffer", <<"struct", "handle">>, {"handle", "struct"})
      /\ Undoes("dumbBuffer", <<"map", "handle", "struct">>, {"handle", "struct", "map"})
  BY DEF Undoes, Each, FromTop, O!ToSet, Rests, Bases, Things
<1>5. Len(O!DumbCalls) = 4 /\ O!DumbCalls \in Seq(Things)
  BY DEF O!DumbCalls, Things, O!Question
<1>6. \A n \in 0 .. 3 : n = 0 \/ n = 1 \/ n = 2 \/ n = 3
  OBVIOUS
<1>7. \A n \in 0 .. 3 : Undoes("dumbBuffer", O!Undone("dumbBuffer", n), Taken("dumbBuffer", n))
  BY <1>2, <1>3, <1>4, <1>6, UndoesNothing
<1>8. Undoes("dumbBuffer", O!Destroyed("dumbBuffer"), Taken("dumbBuffer", 4))
  BY <1>1, <1>2, <1>4
<1>9. O!Ladder["dumbBuffer"] \in Seq(Things) /\ Len(O!Ladder["dumbBuffer"]) = 4
  BY <1>1, <1>5
<1> QED BY <1>7, <1>8, <1>9 DEF Balanced

LEMMA DumbImageBalanced == Balanced("dumbImage")
<1>1. /\ O!Ladder["dumbImage"] = O!DumbCalls /\ O!ErrorPaths["dumbImage"] = O!UndoneDumb
      /\ O!Destroyed("dumbImage") = <<"map", "handle", "struct">>
  BY DEF O!Ladder, O!ErrorPaths, O!Destroyed, O!Destroyers, O!Mapping
<1>2. /\ Taken("dumbImage", 0) = {} /\ Taken("dumbImage", 1) = {"handle"}
      /\ Taken("dumbImage", 2) = {"handle"} /\ Taken("dumbImage", 3) = {"handle", "struct"}
      /\ Taken("dumbImage", 4) = {"handle", "struct", "map"}
  BY <1>1 DEF Taken, O!DumbCalls, O!Question
<1>3. /\ O!Undone("dumbImage", 0) = <<>> /\ O!Undone("dumbImage", 1) = <<"handle">>
      /\ O!Undone("dumbImage", 2) = <<"handle">>
      /\ O!Undone("dumbImage", 3) = <<"struct", "handle">>
  BY <1>1 DEF O!Undone, O!UndoneDumb
<1>4. /\ Undoes("dumbImage", <<"handle">>, {"handle"})
      /\ Undoes("dumbImage", <<"struct", "handle">>, {"handle", "struct"})
      /\ Undoes("dumbImage", <<"map", "handle", "struct">>, {"handle", "struct", "map"})
  BY DEF Undoes, Each, FromTop, O!ToSet, Rests, Bases, Things
<1>5. Len(O!DumbCalls) = 4 /\ O!DumbCalls \in Seq(Things)
  BY DEF O!DumbCalls, Things, O!Question
<1>6. \A n \in 0 .. 3 : n = 0 \/ n = 1 \/ n = 2 \/ n = 3
  OBVIOUS
<1>7. \A n \in 0 .. 3 : Undoes("dumbImage", O!Undone("dumbImage", n), Taken("dumbImage", n))
  BY <1>2, <1>3, <1>4, <1>6, UndoesNothing
<1>8. Undoes("dumbImage", O!Destroyed("dumbImage"), Taken("dumbImage", 4))
  BY <1>1, <1>2, <1>4
<1>9. O!Ladder["dumbImage"] \in Seq(Things) /\ Len(O!Ladder["dumbImage"]) = 4
  BY <1>1, <1>5
<1> QED BY <1>7, <1>8, <1>9 DEF Balanced

LEMMA GemBufferBalanced == Balanced("gemBuffer")
<1>1. /\ O!Ladder["gemBuffer"] = O!GemBufferCalls /\ O!ErrorPaths["gemBuffer"] = O!UndoneGemBuffer
      /\ O!Destroyed("gemBuffer") = <<"map", "handle", "struct">>
  BY DEF O!Ladder, O!ErrorPaths, O!Destroyed, O!Destroyers, O!Mapping
<1>2. /\ Taken("gemBuffer", 0) = {} /\ Taken("gemBuffer", 1) = {"handle"}
      /\ Taken("gemBuffer", 2) = {"handle", "struct"}
      /\ Taken("gemBuffer", 3) = {"handle", "struct", "map"}
      /\ Taken("gemBuffer", 4) = {"handle", "struct", "map"}
  BY <1>1 DEF Taken, O!GemBufferCalls, O!Question
<1>3. /\ O!Undone("gemBuffer", 0) = <<>> /\ O!Undone("gemBuffer", 1) = <<"handle">>
      /\ O!Undone("gemBuffer", 2) = <<"struct", "handle">>
      /\ O!Undone("gemBuffer", 3) = <<"map", "handle", "struct">>
  BY <1>1 DEF O!Undone, O!UndoneGemBuffer
<1>4. /\ Undoes("gemBuffer", <<"handle">>, {"handle"})
      /\ Undoes("gemBuffer", <<"struct", "handle">>, {"handle", "struct"})
      /\ Undoes("gemBuffer", <<"map", "handle", "struct">>, {"handle", "struct", "map"})
  BY DEF Undoes, Each, FromTop, O!ToSet, Rests, Bases, Things
<1>5. Len(O!GemBufferCalls) = 4 /\ O!GemBufferCalls \in Seq(Things)
  BY DEF O!GemBufferCalls, Things, O!Question
<1>6. \A n \in 0 .. 3 : n = 0 \/ n = 1 \/ n = 2 \/ n = 3
  OBVIOUS
<1>7. \A n \in 0 .. 3 : Undoes("gemBuffer", O!Undone("gemBuffer", n), Taken("gemBuffer", n))
  BY <1>2, <1>3, <1>4, <1>6, UndoesNothing
<1>8. Undoes("gemBuffer", O!Destroyed("gemBuffer"), Taken("gemBuffer", 4))
  BY <1>1, <1>2, <1>4
<1>9. O!Ladder["gemBuffer"] \in Seq(Things) /\ Len(O!Ladder["gemBuffer"]) = 4
  BY <1>1, <1>5
<1> QED BY <1>7, <1>8, <1>9 DEF Balanced

LEMMA GemImageBalanced == Balanced("gemImage")
<1>1. /\ O!Ladder["gemImage"] = O!GemImageCalls /\ O!ErrorPaths["gemImage"] = O!UndoneGemImage
      /\ O!Destroyed("gemImage") = <<"map", "handle", "struct">>
  BY DEF O!Ladder, O!ErrorPaths, O!Destroyed, O!Destroyers, O!Mapping
<1>2. /\ Taken("gemImage", 0) = {} /\ Taken("gemImage", 1) = {"handle"}
      /\ Taken("gemImage", 2) = {"handle", "map"}
      /\ Taken("gemImage", 3) = {"handle", "map", "struct"}
      /\ Taken("gemImage", 4) = {"handle", "map", "struct"}
  BY <1>1 DEF Taken, O!GemImageCalls, O!Question
<1>3. /\ O!Undone("gemImage", 0) = <<>> /\ O!Undone("gemImage", 1) = <<"handle">>
      /\ O!Undone("gemImage", 2) = <<"map", "handle">>
      /\ O!Undone("gemImage", 3) = <<"map", "handle", "struct">>
  BY <1>1 DEF O!Undone, O!UndoneGemImage
<1>4. /\ Undoes("gemImage", <<"handle">>, {"handle"})
      /\ Undoes("gemImage", <<"map", "handle">>, {"handle", "map"})
      /\ Undoes("gemImage", <<"map", "handle", "struct">>, {"handle", "map", "struct"})
  BY DEF Undoes, Each, FromTop, O!ToSet, Rests, Bases, Things
<1>5. Len(O!GemImageCalls) = 4 /\ O!GemImageCalls \in Seq(Things)
  BY DEF O!GemImageCalls, Things, O!Question
<1>6. \A n \in 0 .. 3 : n = 0 \/ n = 1 \/ n = 2 \/ n = 3
  OBVIOUS
<1>7. \A n \in 0 .. 3 : Undoes("gemImage", O!Undone("gemImage", n), Taken("gemImage", n))
  BY <1>2, <1>3, <1>4, <1>6, UndoesNothing
<1>8. Undoes("gemImage", O!Destroyed("gemImage"), Taken("gemImage", 4))
  BY <1>1, <1>2, <1>4
<1>9. O!Ladder["gemImage"] \in Seq(Things) /\ Len(O!Ladder["gemImage"]) = 4
  BY <1>1, <1>5
<1> QED BY <1>7, <1>8, <1>9 DEF Balanced

LEMMA ScreenBalanced == Balanced("screen")
<1>1. /\ O!Ladder["screen"] = O!ScreenCalls /\ O!ErrorPaths["screen"] = O!UndoneScreen
      /\ O!Destroyed("screen") = <<"map", "fb", "handle">>
  BY DEF O!Ladder, O!ErrorPaths, O!Destroyed, O!Destroyers, O!DestroyedScreen
<1>2. /\ Taken("screen", 0) = {} /\ Taken("screen", 1) = {"handle"}
      /\ Taken("screen", 2) = {"handle", "fb"} /\ Taken("screen", 3) = {"handle", "fb"}
      /\ Taken("screen", 4) = {"handle", "fb", "map"}
  BY <1>1 DEF Taken, O!ScreenCalls, O!Question
<1>3. /\ O!Undone("screen", 0) = <<>> /\ O!Undone("screen", 1) = <<"handle">>
      /\ O!Undone("screen", 2) = <<"fb", "handle">> /\ O!Undone("screen", 3) = <<"fb", "handle">>
  BY <1>1 DEF O!Undone, O!UndoneScreen
<1>4. /\ Undoes("screen", <<"handle">>, {"handle"})
      /\ Undoes("screen", <<"fb", "handle">>, {"handle", "fb"})
      /\ Undoes("screen", <<"map", "fb", "handle">>, {"handle", "fb", "map"})
  BY DEF Undoes, Each, FromTop, O!ToSet, Rests, Bases, Things
<1>5. Len(O!ScreenCalls) = 4 /\ O!ScreenCalls \in Seq(Things)
  BY DEF O!ScreenCalls, Things, O!Question
<1>6. \A n \in 0 .. 3 : n = 0 \/ n = 1 \/ n = 2 \/ n = 3
  OBVIOUS
<1>7. \A n \in 0 .. 3 : Undoes("screen", O!Undone("screen", n), Taken("screen", n))
  BY <1>2, <1>3, <1>4, <1>6, UndoesNothing
<1>8. Undoes("screen", O!Destroyed("screen"), Taken("screen", 4))
  BY <1>1, <1>2, <1>4
<1>9. O!Ladder["screen"] \in Seq(Things) /\ Len(O!Ladder["screen"]) = 4
  BY <1>1, <1>5
<1> QED BY <1>7, <1>8, <1>9 DEF Balanced

LEMMA FbdevBalanced == Balanced("fbdev")
<1>1. /\ O!Ladder["fbdev"] = O!FbdevCalls /\ O!ErrorPaths["fbdev"] = O!UndoneFbdev
      /\ O!Destroyed("fbdev") = <<"map", "fd", "hashes", "device", "struct">>
  BY DEF O!Ladder, O!ErrorPaths, O!Destroyed, O!Destroyers, O!DestroyedFbdev
<1>2. /\ Taken("fbdev", 0) = {} /\ Taken("fbdev", 1) = {"fd"} /\ Taken("fbdev", 2) = {"fd"}
      /\ Taken("fbdev", 3) = {"fd", "struct"} /\ Taken("fbdev", 4) = {"fd", "struct", "map"}
      /\ Taken("fbdev", 5) = {"fd", "struct", "map", "device"}
      /\ Taken("fbdev", 6) = {"fd", "struct", "map", "device", "hashes"}
  BY <1>1 DEF Taken, O!FbdevCalls, O!Question
<1>3. /\ O!Undone("fbdev", 0) = <<>> /\ O!Undone("fbdev", 1) = <<"fd">>
      /\ O!Undone("fbdev", 2) = <<"fd">> /\ O!Undone("fbdev", 3) = <<"struct", "fd">>
      /\ O!Undone("fbdev", 4) = <<"map", "struct", "fd">>
      /\ O!Undone("fbdev", 5) = <<"device", "map", "struct", "fd">>
  BY <1>1 DEF O!Undone, O!UndoneFbdev
<1>4. /\ Undoes("fbdev", <<"fd">>, {"fd"}) /\ Undoes("fbdev", <<"struct", "fd">>, {"fd", "struct"})
      /\ Undoes("fbdev", <<"map", "struct", "fd">>, {"fd", "struct", "map"})
      /\ Undoes("fbdev", <<"device", "map", "struct", "fd">>, {"fd", "struct", "map", "device"})
      /\ Undoes("fbdev", <<"map", "fd", "hashes", "device", "struct">>, {"fd", "struct", "map", "device", "hashes"})
  BY DEF Undoes, Each, FromTop, O!ToSet, Rests, Bases, Things
<1>5. Len(O!FbdevCalls) = 6 /\ O!FbdevCalls \in Seq(Things)
  BY DEF O!FbdevCalls, Things, O!Question
<1>6. \A n \in 0 .. 5 : n = 0 \/ n = 1 \/ n = 2 \/ n = 3 \/ n = 4 \/ n = 5
  OBVIOUS
<1>7. \A n \in 0 .. 5 : Undoes("fbdev", O!Undone("fbdev", n), Taken("fbdev", n))
  BY <1>2, <1>3, <1>4, <1>6, UndoesNothing
<1>8. Undoes("fbdev", O!Destroyed("fbdev"), Taken("fbdev", 6))
  BY <1>1, <1>2, <1>4
<1>9. O!Ladder["fbdev"] \in Seq(Things) /\ Len(O!Ladder["fbdev"]) = 6
  BY <1>1, <1>5
<1> QED BY <1>7, <1>8, <1>9 DEF Balanced

LEMMA DisplayBalanced == Balanced("display")
<1>1. /\ O!Ladder["display"] = O!DisplayCalls /\ O!ErrorPaths["display"] = O!UndoneDisplay
      /\ O!Destroyed("display") = <<"screen0", "screen1", "fd", "struct">>
  BY DEF O!Ladder, O!ErrorPaths, O!Destroyed, O!Destroyers, O!DestroyedDisplay
<1>2. /\ Taken("display", 0) = {} /\ Taken("display", 1) = {"fd"}
      /\ Taken("display", 2) = {"fd", "struct"} /\ Taken("display", 3) = {"fd", "struct"}
      /\ Taken("display", 4) = {"fd", "struct", "screen0"}
      /\ Taken("display", 5) = {"fd", "struct", "screen0", "screen1"}
      /\ Taken("display", 6) = {"fd", "struct", "screen0", "screen1"}
  BY <1>1 DEF Taken, O!DisplayCalls, O!Question
<1>3. /\ O!Undone("display", 0) = <<>> /\ O!Undone("display", 1) = <<"fd">>
      /\ O!Undone("display", 2) = <<"fd", "struct">> /\ O!Undone("display", 3) = <<"fd", "struct">>
      /\ O!Undone("display", 4) = <<"screen0", "fd", "struct">>
      /\ O!Undone("display", 5) = <<"screen0", "screen1", "fd", "struct">>
  BY <1>1 DEF O!Undone, O!UndoneDisplay
<1>4. /\ Undoes("display", <<"fd">>, {"fd"})
      /\ Undoes("display", <<"fd", "struct">>, {"fd", "struct"})
      /\ Undoes("display", <<"screen0", "fd", "struct">>, {"fd", "struct", "screen0"})
      /\ Undoes("display", <<"screen0", "screen1", "fd", "struct">>, {"fd", "struct", "screen0", "screen1"})
  BY DEF Undoes, Each, FromTop, O!ToSet, Rests, Bases, Things
<1>5. Len(O!DisplayCalls) = 6 /\ O!DisplayCalls \in Seq(Things)
  BY DEF O!DisplayCalls, Things, O!Question
<1>6. \A n \in 0 .. 5 : n = 0 \/ n = 1 \/ n = 2 \/ n = 3 \/ n = 4 \/ n = 5
  OBVIOUS
<1>7. \A n \in 0 .. 5 : Undoes("display", O!Undone("display", n), Taken("display", n))
  BY <1>2, <1>3, <1>4, <1>6, UndoesNothing
<1>8. Undoes("display", O!Destroyed("display"), Taken("display", 6))
  BY <1>1, <1>2, <1>4
<1>9. O!Ladder["display"] \in Seq(Things) /\ Len(O!Ladder["display"]) = 6
  BY <1>1, <1>5
<1> QED BY <1>7, <1>8, <1>9 DEF Balanced

LEMMA TerminalBalanced == Balanced("terminal")
<1>1. /\ O!Ladder["terminal"] = O!TerminalCalls /\ O!ErrorPaths["terminal"] = O!UndoneTerminal
      /\ O!Destroyed("terminal") = <<"mode", "handlers", "tty">>
  BY DEF O!Ladder, O!ErrorPaths, O!Destroyed, O!Destroyers, O!DestroyedTerminal
<1>2. /\ Taken("terminal", 0) = {} /\ Taken("terminal", 1) = {"tty"}
      /\ Taken("terminal", 2) = {"tty"} /\ Taken("terminal", 3) = {"tty", "handlers"}
      /\ Taken("terminal", 4) = {"tty", "handlers", "mode"}
  BY <1>1 DEF Taken, O!TerminalCalls, O!Question
<1>3. /\ O!Undone("terminal", 0) = <<>> /\ O!Undone("terminal", 1) = <<"tty">>
      /\ O!Undone("terminal", 2) = <<"tty">> /\ O!Undone("terminal", 3) = <<"handlers", "tty">>
  BY <1>1 DEF O!Undone, O!UndoneTerminal
<1>4. /\ Undoes("terminal", <<"tty">>, {"tty"})
      /\ Undoes("terminal", <<"handlers", "tty">>, {"tty", "handlers"})
      /\ Undoes("terminal", <<"mode", "handlers", "tty">>, {"tty", "handlers", "mode"})
  BY DEF Undoes, Each, FromTop, O!ToSet, Rests, Bases, Things
<1>5. Len(O!TerminalCalls) = 4 /\ O!TerminalCalls \in Seq(Things)
  BY DEF O!TerminalCalls, Things, O!Question
<1>6. \A n \in 0 .. 3 : n = 0 \/ n = 1 \/ n = 2 \/ n = 3
  OBVIOUS
<1>7. \A n \in 0 .. 3 : Undoes("terminal", O!Undone("terminal", n), Taken("terminal", n))
  BY <1>2, <1>3, <1>4, <1>6, UndoesNothing
<1>8. Undoes("terminal", O!Destroyed("terminal"), Taken("terminal", 4))
  BY <1>1, <1>2, <1>4
<1>9. O!Ladder["terminal"] \in Seq(Things) /\ Len(O!Ladder["terminal"]) = 4
  BY <1>1, <1>5
<1> QED BY <1>7, <1>8, <1>9 DEF Balanced

LEMMA NewModeBalanced == Balanced("newMode")
<1>1. /\ O!Ladder["newMode"] = O!ModeCalls /\ O!ErrorPaths["newMode"] = O!UndoneMode
      /\ O!Destroyed("newMode") = <<"screen0", "screen1">>
  BY DEF O!Ladder, O!ErrorPaths, O!Destroyed, O!Destroyers
<1>2. /\ Taken("newMode", 0) = {} /\ Taken("newMode", 1) = {} /\ Taken("newMode", 2) = {"screen0"}
      /\ Taken("newMode", 3) = {"screen0", "screen1"}
      /\ Taken("newMode", 4) = {"screen0", "screen1"}
  BY <1>1 DEF Taken, O!ModeCalls, O!Question
<1>3. /\ O!Undone("newMode", 0) = <<>> /\ O!Undone("newMode", 1) = <<>>
      /\ O!Undone("newMode", 2) = <<"screen0">> /\ O!Undone("newMode", 3) = <<"screen0", "screen1">>
  BY <1>1 DEF O!Undone, O!UndoneMode
<1>4. /\ Undoes("newMode", <<"screen0">>, {"screen0"})
      /\ Undoes("newMode", <<"screen0", "screen1">>, {"screen0", "screen1"})
  BY DEF Undoes, Each, FromTop, O!ToSet, Rests, Bases, Things
<1>5. Len(O!ModeCalls) = 4 /\ O!ModeCalls \in Seq(Things)
  BY DEF O!ModeCalls, Things, O!Question
<1>6. \A n \in 0 .. 3 : n = 0 \/ n = 1 \/ n = 2 \/ n = 3
  OBVIOUS
<1>7. \A n \in 0 .. 3 : Undoes("newMode", O!Undone("newMode", n), Taken("newMode", n))
  BY <1>2, <1>3, <1>4, <1>6, UndoesNothing
<1>8. Undoes("newMode", O!Destroyed("newMode"), Taken("newMode", 4))
  BY <1>1, <1>2, <1>4
<1>9. O!Ladder["newMode"] \in Seq(Things) /\ Len(O!Ladder["newMode"]) = 4
  BY <1>1, <1>5
<1> QED BY <1>7, <1>8, <1>9 DEF Balanced

LEMMA AllBalanced == ASSUME NEW k \in Kinds PROVE Balanced(k)
BY ProbeBalanced, DeviceBalanced, DumbBufferBalanced, DumbImageBalanced, GemBufferBalanced,
   GemImageBalanced, ScreenBalanced, FbdevBalanced, DisplayBalanced, TerminalBalanced,
   NewModeBalanced DEF Kinds

\* The instances count as everybody does.
LEMMA SameCardinality ==
    ASSUME NEW S
    PROVE  O!Cardinality(S) = Cardinality(S) /\ I!Cardinality(S) = Cardinality(S)
BY DEF O!Cardinality, I!Cardinality, Cardinality

\* A list without repetitions is as long as what it gives back is large.
LEMMA EachCounts ==
    ASSUME NEW s \in Seq(Things), Each(s)
    PROVE  Len(s) = Cardinality(O!ToSet(s))
<1>1. Len(s) \in Nat /\ DOMAIN s = 1 .. Len(s)
  OBVIOUS
<1>2. IsFiniteSet(1 .. Len(s)) /\ Cardinality(1 .. Len(s)) = Len(s)
  BY <1>1, FS_Interval
<1>3. s \in Bijection(1 .. Len(s), O!ToSet(s))
  BY <1>1 DEF Each, O!ToSet, Bijection, Injection, Surjection, IsInjective
<1>4. ExistsBijection(1 .. Len(s), O!ToSet(s))
  BY <1>3 DEF ExistsBijection
<1> QED BY <1>2, <1>4, FS_Bijection

\* What is left of such a list gives back the rest.
LEMMA TailUndoes ==
    ASSUME NEW k, NEW s, NEW S, Undoes(k, s, S), s # <<>>
    PROVE  Undoes(k, Tail(s), S \ {Head(s)})
<1>1. s \in Seq(Things) /\ Each(s) /\ FromTop(k, s) /\ O!ToSet(s) = S
  BY DEF Undoes
<1>2. /\ Len(s) \in Nat /\ Len(s) > 0 /\ DOMAIN s = 1 .. Len(s) /\ Head(s) = s[1]
      /\ Tail(s) \in Seq(Things) /\ Len(Tail(s)) = Len(s) - 1 /\ DOMAIN Tail(s) = 1 .. Len(s) - 1
  BY <1>1, HeadTailProperties
<1>3. \A i \in 1 .. Len(s) - 1 : Tail(s)[i] = s[i + 1]
  BY <1>1, <1>2, HeadTailProperties
<1>4. \A i \in DOMAIN Tail(s) : i + 1 \in DOMAIN s /\ Tail(s)[i] = s[i + 1] /\ i + 1 # 1
  BY <1>2, <1>3
<1>5. Each(Tail(s))
  BY <1>1, <1>2, <1>4 DEF Each
<1>6. FromTop(k, Tail(s))
  <2> SUFFICES ASSUME NEW i \in DOMAIN Tail(s), NEW b \in Bases, Rests(k, Tail(s)[i], b)
               PROVE  \E j \in DOMAIN Tail(s) : j > i /\ Tail(s)[j] = b
    BY DEF FromTop
  <2>1. PICK j \in DOMAIN s : j > i + 1 /\ s[j] = b
    BY <1>1, <1>4 DEF FromTop
  <2>2. j - 1 \in DOMAIN Tail(s) /\ j - 1 > i /\ Tail(s)[j - 1] = b
    BY <1>2, <1>3, <2>1
  <2> QED BY <2>2
<1>7. O!ToSet(Tail(s)) = S \ {Head(s)}
  <2>1. \A i \in DOMAIN s : i # 1 => i - 1 \in DOMAIN Tail(s) /\ Tail(s)[i - 1] = s[i]
    BY <1>2, <1>3
  <2>2. \A i \in DOMAIN s : i # 1 => s[i] # s[1]
    BY <1>1, <1>2 DEF Each
  <2>3. ASSUME NEW e \in O!ToSet(Tail(s))
        PROVE  e \in S \ {Head(s)}
    BY <1>1, <1>2, <1>4, <2>2, <2>3 DEF O!ToSet
  <2>4. ASSUME NEW e \in S \ {Head(s)}
        PROVE  e \in O!ToSet(Tail(s))
    <3>1. PICK i \in DOMAIN s : e = s[i]
      BY <1>1 DEF O!ToSet
    <3>2. i # 1
      BY <1>2, <2>4, <3>1
    <3> QED BY <2>1, <3>1, <3>2 DEF O!ToSet
  <2> QED BY <2>3, <2>4
<1> QED BY <1>2, <1>5, <1>6, <1>7 DEF Undoes

\* What rests on something goes with it.
LEMMA UndoesClosed ==
    ASSUME NEW k, NEW s, NEW S, Undoes(k, s, S), NEW a \in S, NEW b \in Bases, Rests(k, a, b)
    PROVE  b \in S
BY DEF Undoes, FromTop, O!ToSet

\* The state of an object, by the place of its life
Places == {"no", "making", "made", "undoing"}
ObjectOK(k) ==
    /\ progress[k] = "no" => held[k] = {} /\ undoing[k] = <<>> /\ calls[k] = 0
    /\ progress[k] = "making" =>
         calls[k] <= Len(O!Ladder[k]) /\ held[k] = Taken(k, calls[k]) /\ undoing[k] = <<>>
    /\ progress[k] = "made" => held[k] = Taken(k, Len(O!Ladder[k])) /\ undoing[k] = <<>>
    /\ progress[k] = "undoing" => Undoes(k, undoing[k], held[k])

\* No object outlives its device, no terminal its display.
Nested ==
    \A k \in Kinds :
        /\ O!NeedsDevice(k) /\ progress[k] # "no" => progress["device"] = "made"
        /\ O!NeedsDisplay(k) /\ progress[k] # "no" => progress["display"] = "made"
ObjectTypes ==
    /\ held \in [Kinds -> SUBSET Things] /\ progress \in [Kinds -> Places]
    /\ calls \in [Kinds -> Nat] /\ undoing \in [Kinds -> Seq(Things)]
ObjectsInv == ObjectTypes /\ Nested /\ \A k \in Kinds : ObjectOK(k)

LEMMA TakenThings ==
    ASSUME NEW k \in Kinds
    PROVE  /\ Len(O!Ladder[k]) \in Nat /\ Taken(k, 0) = {}
           /\ \A n \in 0 .. Len(O!Ladder[k]) : Taken(k, n) \subseteq Things
           /\ \A n \in 0 .. Len(O!Ladder[k]) - 1 :
                Taken(k, n + 1) = Taken(k, n) \cup ({O!Ladder[k][n + 1]} \ O!Question)
<1>1. O!Ladder[k] \in Seq(Things)
  BY AllBalanced DEF Balanced
<1>2. \A n \in 0 .. Len(O!Ladder[k]) - 1 : \A i : i \in 1 .. n + 1 <=> i \in 1 .. n \/ i = n + 1
  BY <1>1
<1> QED BY <1>1, <1>2 DEF Taken

LEMMA ObjectsInit == O!Init => ObjectsInv
BY DEF O!Init, ObjectsInv, ObjectTypes, Nested, ObjectOK, Kinds, Places

\* Only object k changes.
OnlyOf(k) == \A j \in Kinds \ {k} :
    /\ held'[j] = held[j] /\ progress'[j] = progress[j] /\ calls'[j] = calls[j]
    /\ undoing'[j] = undoing[j]

LEMMA ObjectsStep == ASSUME ObjectsInv, O!Next PROVE ObjectsInv'
<1>1. PICK k \in Kinds : \/ O!Create(k) \/ O!Complete(k) \/ O!CallWorks(k) \/ O!CallFails(k)
                         \/ O!Destroy(k) \/ O!GiveBack(k) \/ O!Gone(k)
  BY DEF O!Next, Kinds
<1> DEFINE n == calls[k]
           m == Len(O!Ladder[k])
<1>2. ObjectTypes /\ Nested /\ ObjectOK(k)
  BY DEF ObjectsInv
<1>3. /\ held[k] \subseteq Things /\ progress[k] \in Places /\ n \in Nat /\ undoing[k] \in Seq(Things)
      /\ DOMAIN held = Kinds /\ DOMAIN progress = Kinds /\ DOMAIN calls = Kinds /\ DOMAIN undoing = Kinds
  BY <1>2 DEF ObjectTypes
<1>4. /\ m \in Nat /\ Taken(k, 0) = {}
      /\ \A i \in 0 .. m - 1 : Undoes(k, O!Undone(k, i), Taken(k, i))
      /\ Undoes(k, O!Destroyed(k), Taken(k, m))
      /\ \A i \in 0 .. m - 1 : Taken(k, i + 1) = Taken(k, i) \cup ({O!Ladder[k][i + 1]} \ O!Question)
      /\ \A i \in 0 .. m : Taken(k, i) \subseteq Things
  BY AllBalanced, TakenThings DEF Balanced
<1>5. ASSUME OnlyOf(k), ObjectTypes', Nested', ObjectOK(k)'
      PROVE  ObjectsInv'
  <2>1. ASSUME NEW j \in Kinds, j # k
        PROVE  ObjectOK(j)'
    BY <1>5, <2>1 DEF OnlyOf, ObjectOK, ObjectsInv
  <2> QED BY <1>5, <2>1 DEF ObjectsInv
<1> HIDE DEF n, m
<1>6. CASE O!Create(k)
  <2>1. OnlyOf(k) /\ ObjectTypes' /\ Nested'
    BY <1>2, <1>6 DEF OnlyOf, ObjectTypes, Places, Nested, O!Create, O!NeedsDevice, O!NeedsDisplay
  <2>2. progress'[k] = "making" /\ held'[k] = {} /\ calls'[k] = 0 /\ undoing'[k] = <<>>
    BY <1>2, <1>3, <1>6 DEF O!Create, ObjectOK
  <2>3. ObjectOK(k)'
    BY <1>4, <2>2 DEF ObjectOK, m
  <2> QED BY <1>5, <2>1, <2>3
<1>7. CASE O!Complete(k)
  <2>1. progress[k] = "making" /\ n = m /\ held' = held /\ calls' = calls /\ held[k] = Taken(k, m)
    BY <1>2, <1>7 DEF O!Complete, ObjectOK, n, m
  <2>2. \/ progress' = [progress EXCEPT ![k] = "undoing"] /\ k \in {"probe", "newMode"}
           /\ undoing' = [undoing EXCEPT ![k] = O!Destroyed(k)]
        \/ progress' = [progress EXCEPT ![k] = "made"] /\ undoing' = undoing
    BY <1>7 DEF O!Complete
  <2>3. O!Destroyed(k) \in Seq(Things) /\ undoing[k] = <<>>
    BY <1>2, <1>4, <2>1 DEF Undoes, ObjectOK
  <2>4. OnlyOf(k) /\ ObjectTypes' /\ Nested'
    <3>1. OnlyOf(k)
      BY <1>3, <2>1, <2>2 DEF OnlyOf
    <3>2. ObjectTypes'
      BY <1>2, <2>1, <2>2, <2>3 DEF ObjectTypes, Places
    <3>3. Nested'
      <4>1. /\ \A j \in Kinds : progress[j] = "made" => progress'[j] = "made"
            /\ \A j \in Kinds : progress[j] = "no" => progress'[j] = "no"
            /\ \A j \in Kinds : progress[j] \in Places
        BY <1>2, <1>3, <2>1, <2>2 DEF ObjectTypes
      <4>2. \A j \in Kinds : progress'[j] # "no" => progress[j] # "no"
        BY <4>1
      <4> QED BY <1>2, <4>1, <4>2 DEF Nested, Kinds
    <3> QED BY <3>1, <3>2, <3>3
  <2>5. \/ progress'[k] = "undoing" /\ undoing'[k] = O!Destroyed(k)
        \/ progress'[k] = "made" /\ undoing'[k] = <<>>
    BY <1>3, <2>2, <2>3
  <2>6. ObjectOK(k)'
    BY <1>4, <2>1, <2>5 DEF ObjectOK, m
  <2> QED BY <1>5, <2>4, <2>6
<1>8. CASE O!CallWorks(k)
  <2> DEFINE got == {O!Ladder[k][n + 1]} \ O!Question
  <2>1. /\ progress[k] = "making" /\ n < m /\ progress' = progress /\ undoing' = undoing
        /\ held' = [held EXCEPT ![k] = held[k] \cup got] /\ calls' = [calls EXCEPT ![k] = n + 1]
    BY <1>8 DEF O!CallWorks, n, m
  <2>2. held[k] = Taken(k, n) /\ undoing[k] = <<>>
    BY <1>2, <2>1 DEF ObjectOK, n
  <2>3. n \in 0 .. m - 1 /\ n + 1 \in 0 .. m
    BY <1>3, <1>4, <2>1
  <2>4. held[k] \cup got = Taken(k, n + 1) /\ Taken(k, n + 1) \subseteq Things
    BY <1>4, <2>2, <2>3
  <2>5. OnlyOf(k) /\ ObjectTypes' /\ Nested'
    BY <1>2, <2>1, <2>3, <2>4 DEF OnlyOf, ObjectTypes, Nested
  <2>6. /\ progress'[k] = "making" /\ held'[k] = Taken(k, n + 1) /\ calls'[k] = n + 1
        /\ undoing'[k] = <<>> /\ n + 1 <= m
    BY <1>3, <2>1, <2>2, <2>3, <2>4
  <2>7. ObjectOK(k)'
    BY <2>6 DEF ObjectOK, m
  <2> QED BY <1>5, <2>5, <2>7
<1>9. CASE O!CallFails(k)
  <2>1. /\ progress[k] = "making" /\ n < m /\ held' = held /\ calls' = calls
        /\ progress' = [progress EXCEPT ![k] = "undoing"]
        /\ undoing' = [undoing EXCEPT ![k] = O!Undone(k, n)]
    BY <1>9 DEF O!CallFails, n, m
  <2>2. held[k] = Taken(k, n) /\ n \in 0 .. m - 1
    BY <1>2, <1>3, <1>4, <2>1 DEF ObjectOK, n
  <2>3. Undoes(k, O!Undone(k, n), held[k]) /\ O!Undone(k, n) \in Seq(Things)
    BY <1>4, <2>2 DEF Undoes
  <2>4. k \notin {"device", "display"} \/ \A j \in Kinds : j # k /\ (O!NeedsDevice(j) \/ O!NeedsDisplay(j)) => progress[j] = progress'[j]
    BY <1>3, <2>1
  <2>5. OnlyOf(k) /\ ObjectTypes' /\ Nested'
    BY <1>2, <2>1, <2>3 DEF OnlyOf, ObjectTypes, Places, Nested, O!NeedsDevice, O!NeedsDisplay
  <2>6. progress'[k] = "undoing" /\ undoing'[k] = O!Undone(k, n) /\ held'[k] = held[k]
    BY <1>3, <2>1
  <2>7. ObjectOK(k)'
    BY <2>3, <2>6 DEF ObjectOK
  <2> QED BY <1>5, <2>5, <2>7
<1>10. CASE O!Destroy(k)
  <2>1. /\ progress[k] = "made" /\ held' = held /\ calls' = calls
        /\ progress' = [progress EXCEPT ![k] = "undoing"]
        /\ undoing' = [undoing EXCEPT ![k] = O!Destroyed(k)]
        /\ k = "device" => \A j \in Kinds : O!NeedsDevice(j) => progress[j] = "no"
        /\ k = "display" => \A j \in Kinds : O!NeedsDisplay(j) => progress[j] = "no"
    BY <1>10 DEF O!Destroy, Kinds
  <2>2. Undoes(k, O!Destroyed(k), held[k]) /\ O!Destroyed(k) \in Seq(Things)
    BY <1>2, <1>4, <2>1 DEF Undoes, ObjectOK, m
  <2>3. OnlyOf(k) /\ ObjectTypes' /\ Nested'
    BY <1>2, <2>1, <2>2 DEF OnlyOf, ObjectTypes, Places, Nested, O!NeedsDevice, O!NeedsDisplay
  <2>4. progress'[k] = "undoing" /\ undoing'[k] = O!Destroyed(k) /\ held'[k] = held[k]
    BY <1>3, <2>1
  <2>5. ObjectOK(k)'
    BY <2>2, <2>4 DEF ObjectOK
  <2> QED BY <1>5, <2>3, <2>5
<1>11. CASE O!GiveBack(k)
  <2>1. /\ progress[k] = "undoing" /\ undoing[k] # <<>> /\ progress' = progress /\ calls' = calls
        /\ held' = [held EXCEPT ![k] = held[k] \ {Head(undoing[k])}]
        /\ undoing' = [undoing EXCEPT ![k] = Tail(undoing[k])]
    BY <1>11 DEF O!GiveBack
  <2>2. Undoes(k, Tail(undoing[k]), held[k] \ {Head(undoing[k])})
    BY <1>2, <2>1, TailUndoes DEF ObjectOK
  <2>3. Tail(undoing[k]) \in Seq(Things) /\ held[k] \ {Head(undoing[k])} \subseteq Things
    BY <1>3, <2>2 DEF Undoes
  <2>4. OnlyOf(k) /\ ObjectTypes' /\ Nested'
    BY <1>2, <2>1, <2>3 DEF OnlyOf, ObjectTypes, Nested
  <2>5. /\ progress'[k] = "undoing" /\ undoing'[k] = Tail(undoing[k])
        /\ held'[k] = held[k] \ {Head(undoing[k])}
    BY <1>3, <2>1
  <2>6. ObjectOK(k)'
    BY <2>2, <2>5 DEF ObjectOK
  <2> QED BY <1>5, <2>4, <2>6
<1>12. CASE O!Gone(k)
  <2>1. /\ progress[k] = "undoing" /\ undoing[k] = <<>> /\ held' = held /\ undoing' = undoing
        /\ progress' = [progress EXCEPT ![k] = "no"] /\ calls' = [calls EXCEPT ![k] = 0]
    BY <1>12 DEF O!Gone
  <2>2. held[k] = {}
    BY <1>2, <2>1 DEF ObjectOK, Undoes, O!ToSet
  <2>3. OnlyOf(k) /\ ObjectTypes' /\ Nested'
    BY <1>2, <2>1 DEF OnlyOf, ObjectTypes, Places, Nested, O!NeedsDevice, O!NeedsDisplay
  <2>4. progress'[k] = "no" /\ held'[k] = {} /\ calls'[k] = 0 /\ undoing'[k] = <<>>
    BY <1>3, <2>1, <2>2
  <2>5. ObjectOK(k)'
    BY <2>4 DEF ObjectOK
  <2> QED BY <1>5, <2>3, <2>5
<1> QED BY <1>1, <1>6, <1>7, <1>8, <1>9, <1>10, <1>11, <1>12

\* Nothing is left, given back twice or in the wrong order.
ObjectsSafe == O!NothingLeft /\ O!GivenBackOnce /\ O!InOrder

LEMMA ObjectsAreSafe == ASSUME ObjectsInv PROVE ObjectsSafe
<1>1. ASSUME NEW k \in Kinds
      PROVE  /\ progress[k] \in Places /\ undoing[k] \in Seq(Things) /\ ObjectOK(k) /\ calls[k] \in Nat
             /\ \E s : Undoes(k, s, held[k])
             /\ O!ToSet(undoing[k]) \subseteq held[k] /\ Each(undoing[k])
             /\ progress[k] = "made" => held[k] = Taken(k, Len(O!Ladder[k]))
  <2>1. progress[k] \in Places /\ undoing[k] \in Seq(Things) /\ calls[k] \in Nat /\ ObjectOK(k)
    BY DEF ObjectsInv, ObjectTypes
  <2>2. Balanced(k) /\ Len(O!Ladder[k]) \in Nat
    BY AllBalanced, TakenThings
  <2>3. O!ToSet(<<>>) = {} /\ Each(<<>>)
    BY UndoesNothing DEF Undoes
  <2>4. CASE progress[k] = "no"
    BY <2>1, <2>3, <2>4, UndoesNothing DEF ObjectOK
  <2>5. CASE progress[k] = "making"
    <3>1. /\ held[k] = Taken(k, calls[k]) /\ undoing[k] = <<>>
          /\ calls[k] \in 0 .. Len(O!Ladder[k]) - 1 \/ calls[k] = Len(O!Ladder[k])
      BY <2>1, <2>2, <2>5 DEF ObjectOK
    <3>2. \E s : Undoes(k, s, held[k])
      BY <2>2, <3>1 DEF Balanced
    <3> QED BY <2>1, <2>3, <2>5, <3>1, <3>2
  <2>6. CASE progress[k] = "made"
    BY <2>1, <2>2, <2>3, <2>6 DEF ObjectOK, Balanced
  <2>7. CASE progress[k] = "undoing"
    BY <2>1, <2>7 DEF ObjectOK, Undoes
  <2> QED BY <2>1, <2>4, <2>5, <2>6, <2>7 DEF Places
<1>2. O!NothingLeft
  BY <1>1 DEF O!NothingLeft, ObjectOK, Kinds
<1>3. O!GivenBackOnce
  <2>1. \A k \in Kinds : /\ O!ToSet(undoing[k]) \subseteq held[k]
                        /\ Len(undoing[k]) = O!Cardinality(O!ToSet(undoing[k]))
    BY <1>1, EachCounts, SameCardinality
  <2> QED BY <2>1 DEF O!GivenBackOnce, Kinds
<1>4. ASSUME NEW k \in Kinds, NEW a \in held[k], NEW b \in Bases, Rests(k, a, b)
      PROVE  b \in held[k]
  BY <1>1, <1>4, UndoesClosed
<1>5. ASSUME NEW k \in Kinds
      PROVE  /\ "fb" \in held[k] => "handle" \in held[k]
             /\ k # "fbdev" /\ "map" \in held[k] => "handle" \in held[k]
             /\ k = "probe" /\ "handle" \in held[k] => "fd" \in held[k]
             /\ "screen1" \in held[k] /\ k = "display" => "fd" \in held[k]
             /\ {"handlers", "mode"} \cap held[k] # {} => "tty" \in held[k]
             /\ "mode" \in held[k] => "handlers" \in held[k]
  BY <1>4 DEF Rests, Bases
<1>6. progress["device"] = "made" => "fd" \in held["device"]
  <2>1. Len(O!Ladder["device"]) = 3 /\ O!Ladder["device"][1] = "fd"
    BY DEF O!Ladder, O!OpenCalls
  <2>2. "fd" \in Taken("device", 3)
    BY <2>1 DEF Taken, O!Question
  <2> QED BY <1>1, <2>1, <2>2 DEF Kinds
<1>7. progress["display"] = "made" => "fd" \in held["display"]
  <2>1. Len(O!Ladder["display"]) = 6 /\ O!Ladder["display"][1] = "fd"
    BY DEF O!Ladder, O!DisplayCalls
  <2>2. "fd" \in Taken("display", 6)
    BY <2>1 DEF Taken, O!Question
  <2> QED BY <1>1, <2>1, <2>2 DEF Kinds
<1>8. ASSUME NEW k \in Kinds
      PROVE  /\ O!NeedsDevice(k) /\ held[k] # {} => "fd" \in held["device"]
             /\ O!NeedsDisplay(k) /\ held[k] # {} => "fd" \in held["display"]
  BY <1>1, <1>6, <1>7 DEF ObjectsInv, Nested, ObjectOK
<1>9. O!InOrder
  BY <1>5, <1>8 DEF O!InOrder, Kinds
<1> QED BY <1>2, <1>3, <1>9 DEF ObjectsSafe
-----------------------------------------------------------------------------
(* The probe: which card is recommended *)

\* A score beyond ten says that there is a display, and -1 that the card cannot be read.
Said(s) ==
    /\ s \in [score : Int, display : BOOLEAN] /\ s.score >= -1
    /\ s.display <=> s.score > 10

\* The recommended card has the most points so far, and more than each before it.
ProbeInv ==
    /\ card \in Nat /\ display \in BOOLEAN /\ best \in [card : Int, score : Int]
    /\ scores \in Seq([score : Int, display : BOOLEAN]) /\ Len(scores) = card
    /\ \A i \in 1 .. card : Said(scores[i]) /\ scores[i].score <= best.score
    /\ \/ best.card = -1 /\ best.score = -1
       \/ /\ best.card + 1 \in 1 .. card /\ best.score = scores[best.card + 1].score /\ best.score >= 0
          /\ \A i \in 1 .. best.card : scores[i].score < best.score

LEMMA ProbeInit == P!Init => ProbeInv
<1> HAVE P!Init
<1>1. /\ card = 0 /\ display = FALSE /\ best = [card |-> -1, score |-> -1] /\ scores = <<>>
  BY DEF P!Init
<1>2. scores \in Seq([score : Int, display : BOOLEAN]) /\ Len(scores) = 0
  BY <1>1, EmptySeq
<1>3. best \in [card : Int, score : Int] /\ best.card = -1 /\ best.score = -1
  BY <1>1
<1>4. card \in Nat /\ display \in BOOLEAN /\ Len(scores) = card /\ \A i \in 1 .. card : FALSE
  <2>1. display \in BOOLEAN
    BY <1>1, Zenon
  <2>2. \A i \in 1 .. 0 : FALSE
    OBVIOUS
  <2> QED BY <1>1, <1>2, <2>1, <2>2
<1>5. \A i \in 1 .. card : Said(scores[i]) /\ scores[i].score <= best.score
  BY <1>4
<1> QED BY <1>2, <1>3, <1>4, <1>5 DEF ProbeInv

LEMMA ProbeStep == ASSUME ProbeInv, P!Next PROVE ProbeInv'
<1> DEFINE One == [score : Int, display : BOOLEAN]
<1>1. /\ card \in Nat /\ display \in BOOLEAN /\ best \in [card : Int, score : Int]
      /\ scores \in Seq(One) /\ Len(scores) = card
      /\ \A i \in 1 .. card : Said(scores[i]) /\ scores[i].score <= best.score
  BY DEF ProbeInv
<1>2. ASSUME NEW one \in One, Said(one), scores' = Append(scores, one), card' = card + 1,
             UNCHANGED display
      PROVE  /\ card' \in Nat /\ display' \in BOOLEAN /\ scores' \in Seq(One) /\ Len(scores') = card'
             /\ scores'[card + 1] = one
             /\ \A i \in 1 .. card : scores'[i] = scores[i]
             /\ \A i \in 1 .. card' : i \in 1 .. card \/ i = card + 1
  BY <1>1, <1>2, AppendProperties
<1>3. CASE P!Unreadable
  <2> DEFINE one == [score |-> -1, display |-> FALSE]
  <2>1. /\ scores' = Append(scores, one) /\ card' = card + 1 /\ UNCHANGED <<display, best>>
    BY <1>3 DEF P!Unreadable
  <2>2. one \in One /\ Said(one) /\ one.score = -1
    BY DEF Said
  <2> HIDE DEF one
  <2>3. \A i \in 1 .. card' : Said(scores'[i]) /\ scores'[i].score <= best.score
    BY <1>1, <1>2, <2>1, <2>2 DEF ProbeInv, Said
  <2> QED BY <1>1, <1>2, <2>1, <2>2, <2>3 DEF ProbeInv
<1>4. CASE P!Score
  <2>1. PICK points \in {0, 2, 5} :
          LET score == 1 + (IF display THEN 10 ELSE 0) + points
          IN  /\ best' = IF P!Better(score) THEN [card |-> card, score |-> score] ELSE best
              /\ scores' = Append(scores, [score |-> score, display |-> display])
    BY <1>4 DEF P!Score
  <2> DEFINE score == 1 + (IF display THEN 10 ELSE 0) + points
             one == [score |-> score, display |-> display]
  <2>2. /\ best' = IF score > best.score THEN [card |-> card, score |-> score] ELSE best
        /\ scores' = Append(scores, one) /\ card' = card + 1 /\ UNCHANGED display
    BY <1>4, <2>1 DEF P!Score, P!Better
  <2>3. one \in One /\ Said(one) /\ one.score = score /\ score \in Int /\ score > 0
    BY <1>1 DEF Said
  <2> HIDE DEF one, score
  <2>4. CASE score > best.score
    <3>1. best'.card = card /\ best'.score = score /\ best' \in [card : Int, score : Int]
      BY <1>1, <2>2, <2>3, <2>4
    <3>2. /\ card' \in Nat /\ display' \in BOOLEAN /\ scores' \in Seq(One) /\ Len(scores') = card'
          /\ scores'[card + 1] = one
          /\ \A i \in 1 .. card : scores'[i] = scores[i]
          /\ \A i \in 1 .. card' : i \in 1 .. card \/ i = card + 1
      BY <1>2, <2>2, <2>3
    <3>3. \A i \in 1 .. card : Said(scores'[i]) /\ scores'[i].score < best'.score
      BY <1>1, <2>3, <2>4, <3>1, <3>2 DEF Said
    <3>4. Said(scores'[card + 1]) /\ scores'[card + 1].score = best'.score
      BY <2>3, <3>1, <3>2
    <3>5. \A i \in 1 .. card' : Said(scores'[i]) /\ scores'[i].score <= best'.score
      <4>1. scores'[card + 1].score <= best'.score
        BY <2>3, <3>1, <3>4
      <4>2. \A i \in 1 .. card : scores'[i].score <= best'.score
        <5> TAKE i \in 1 .. card
        <5>1. scores'[i].score \in Int
          BY <3>3 DEF Said
        <5> QED BY <2>3, <3>1, <3>3, <5>1
      <4> QED BY <3>2, <3>3, <3>4, <4>1, <4>2
    <3>6. /\ best'.card + 1 \in 1 .. card' /\ best'.score = scores'[best'.card + 1].score
          /\ best'.score >= 0 /\ \A i \in 1 .. best'.card : scores'[i].score < best'.score
      <4>1. card' = card + 1 /\ card \in Nat
        BY <1>1, <2>2
      <4>2. best'.card = card /\ best'.score > 0 /\ best'.score \in Int
        BY <2>3, <3>1
      <4>3. best'.card + 1 \in 1 .. card'
        BY <4>1, <4>2
      <4> QED BY <3>3, <3>4, <4>2, <4>3
    <3> QED BY <3>1, <3>2, <3>5, <3>6 DEF ProbeInv
  <2>5. CASE ~ (score > best.score)
    BY <1>1, <1>2, <2>2, <2>3, <2>5 DEF ProbeInv
  <2> QED BY <2>4, <2>5
<1>5. CASE P!AskLength \/ P!FillList \/ P!AskConnector \/ P!FillConnector
  <2>1. UNCHANGED <<card, best, scores>>
    BY <1>5 DEF P!AskLength, P!FillList, P!AskConnector, P!FillConnector
  <2>2. P!FillConnector => display' \in BOOLEAN
    <3> HAVE P!FillConnector
    <3>1. UNCHANGED display \/ display' = (display \/ (there[next] /\ counted < Room))
      BY DEF P!FillConnector
    <3>2. display \in BOOLEAN
      BY <1>1
    <3> QED BY <3>1, <3>2, Zenon
  <2>3. P!AskLength \/ P!FillList \/ P!AskConnector => display' \in BOOLEAN
    BY <1>1 DEF P!AskLength, P!FillList, P!AskConnector
  <2>4. display' \in BOOLEAN
    BY <1>5, <2>2, <2>3
  <2> QED BY <2>1, <2>4 DEF ProbeInv
<1> QED BY <1>3, <1>4, <1>5 DEF P!Next

LEMMA ProbeIsSafe == ASSUME ProbeInv PROVE P!BestRecommended
<1> DEFINE said == {i \in 1 .. Len(scores) : scores[i].score >= 0}
<1>1. /\ card \in Nat /\ Len(scores) = card /\ best \in [card : Int, score : Int]
      /\ \A i \in 1 .. card : Said(scores[i]) /\ scores[i].score <= best.score
  BY DEF ProbeInv
<1>2. CASE best.card = -1 /\ best.score = -1
  <2>1. said = {}
    BY <1>1, <1>2 DEF Said
  <2> QED BY <1>2, <2>1 DEF P!BestRecommended
<1>3. CASE best.card # -1 \/ best.score # -1
  <2> DEFINE b == best.card + 1
  <2>1. /\ b \in 1 .. card /\ best.score = scores[b].score /\ best.score >= 0
        /\ \A i \in 1 .. best.card : scores[i].score < best.score
    BY <1>3 DEF ProbeInv
  <2>2. b \in said
    BY <1>1, <2>1
  <2>3. ASSUME NEW j \in said
        PROVE  scores[j].score < scores[b].score \/ (scores[j].score = scores[b].score /\ b <= j)
    BY <1>1, <2>1, <2>3 DEF Said
  <2>4. (\E i \in said : scores[i].display) => scores[b].display
    BY <1>1, <2>1 DEF Said
  <2> QED BY <2>2, <2>3, <2>4 DEF P!BestRecommended
<1> QED BY <1>2, <1>3

-----------------------------------------------------------------------------
(* Input: the ring, the devices, and what the events tell *)

Devices == [id : Nat, path : Paths]
Events == ({"down", "up"} \X Keys \X SUBSET Locks) \cup ({"motion"} \X Int)
          \cup ({"added", "removed"} \X Nat) \cup {<<>>}
Knowledge == [keys : SUBSET Keys, locks : SUBSET Locks, x : Int, devices : SUBSET Nat]

\* The cell of the i-th event of the queue
Cell(i) == ((head + i - 1) % Len(cells)) + 1
RingInv ==
    /\ cells \in Seq(Events) /\ Len(cells) > 0
    /\ head \in 0 .. Len(cells) - 1 /\ count \in 0 .. Len(cells)
    /\ tail = (head + count) % Len(cells)
    /\ missed \in BOOLEAN

\* What comes is the last of the queue, or is dropped.
Queues(e) ==
    /\ count' = count + 1 /\ UNCHANGED <<missed, told>>
    /\ \A i \in 1 .. count : I!Queued'[i] = I!Queued[i]
    /\ I!Queued'[count + 1] = e
Drops == missed' = TRUE /\ UNCHANGED I!queue

\* The ring is walked by less than one turn.
LEMMA Turns ==
    ASSUME NEW n \in Nat \ {0}, NEW h \in 0 .. n - 1, NEW i \in 0 .. n
    PROVE  /\ (h + i) % n = IF h + i < n THEN h + i ELSE h + i - n
           /\ i > 0 => (h + i - 1) % n = IF h + i - 1 < n THEN h + i - 1 ELSE h + i - 1 - n
BY SMT

CellFacts ==
    /\ Len(cells) \in Nat \ {0} /\ DOMAIN cells = 1 .. Len(cells)
    /\ \A i \in 1 .. Len(cells) :
          /\ head + i <= Len(cells) => Cell(i) = head + i
          /\ head + i > Len(cells) => Cell(i) = head + i - Len(cells)
    /\ \A i \in 1 .. count : I!Queued[i] = cells[Cell(i)] /\ I!Queued[i] \in Events
    /\ count < Len(cells) => tail + 1 = Cell(count + 1)
LEMMA Cells == RingInv => CellFacts
<1> SUFFICES ASSUME RingInv PROVE CellFacts
  OBVIOUS
<1>1. /\ Len(cells) \in Nat \ {0} /\ DOMAIN cells = 1 .. Len(cells)
      /\ head \in 0 .. Len(cells) - 1 /\ count \in 0 .. Len(cells)
  BY DEF RingInv
<1>2. ASSUME NEW i \in 1 .. Len(cells)
      PROVE  /\ head + i <= Len(cells) => Cell(i) = head + i
             /\ head + i > Len(cells) => Cell(i) = head + i - Len(cells)
  <2>1. i \in 0 .. Len(cells) /\ i > 0
    BY <1>1
  <2>2. (head + i - 1) % Len(cells) = IF head + i - 1 < Len(cells) THEN head + i - 1 ELSE head + i - 1 - Len(cells)
    BY <1>1, <2>1, Turns
  <2> QED BY <1>1, <2>2 DEF Cell
<1>3. ASSUME NEW i \in 1 .. count
      PROVE  I!Queued[i] = cells[Cell(i)] /\ I!Queued[i] \in Events
  <2>1. I!Queued[i] = cells[Cell(i)]
    BY <1>1 DEF I!Queued, I!Capacity, Cell
  <2>2. i \in 1 .. Len(cells)
    BY <1>1
  <2>3. Cell(i) \in 1 .. Len(cells)
    BY <1>1, <1>2, <2>2
  <2> QED BY <1>1, <2>1, <2>3 DEF RingInv
<1>4. count < Len(cells) => tail + 1 = Cell(count + 1)
  <2>1. head + (count + 1) - 1 = head + count
    BY <1>1
  <2> QED BY <2>1 DEF RingInv, Cell
<1> QED BY <1>1, <1>2, <1>3, <1>4 DEF CellFacts

LEMMA PushQueues ==
    ASSUME RingInv, NEW e \in Events, I!Push(e)
    PROVE  RingInv' /\ (Queues(e) \/ Drops)
<1> DEFINE room == Len(cells)
           n == IF 2 * room > MaxQueue THEN MaxQueue ELSE 2 * room
<1>1. /\ room \in Nat \ {0} /\ DOMAIN cells = 1 .. room /\ cells \in Seq(Events) /\ n \in Nat
      /\ head \in 0 .. room - 1 /\ count \in 0 .. room /\ missed \in BOOLEAN /\ MaxQueue \in Nat
      /\ \A i \in 1 .. count : I!Queued[i] \in Events
  BY Cells, SrapiAssumption DEF RingInv, CellFacts
<1>2. \/ /\ count < room /\ cells' = [cells EXCEPT ![tail + 1] = e]
         /\ tail' = (tail + 1) % room /\ count' = count + 1 /\ UNCHANGED <<head, missed, told>>
      \/ /\ count = room /\ n > room /\ cells' = [I!Grown(n) EXCEPT ![count + 1] = e]
         /\ tail' = (count + 1) % n /\ head' = 0 /\ count' = count + 1 /\ UNCHANGED <<missed, told>>
      \/ missed' = TRUE /\ UNCHANGED I!queue
  BY DEF I!Push, I!Capacity
<1> HIDE DEF n
<1>3. CASE missed' = TRUE /\ UNCHANGED I!queue
  BY <1>3 DEF Drops, RingInv, I!queue
<1>4. CASE /\ count < room /\ cells' = [cells EXCEPT ![tail + 1] = e]
           /\ tail' = (tail + 1) % room /\ count' = count + 1 /\ UNCHANGED <<head, missed, told>>
  <2>1. tail + 1 = Cell(count + 1) /\ tail + 1 \in 1 .. room
    <3>1. count + 1 \in 1 .. room /\ head \in 0 .. room - 1
      BY <1>1, <1>4
    <3>2. tail + 1 = Cell(count + 1)
      BY <1>4, Cells DEF CellFacts
    <3>3. Cell(count + 1) \in 1 .. room
      BY <1>1, <3>1, Cells DEF CellFacts
    <3> QED BY <3>2, <3>3
  <2>9. \A i \in 1 .. count : Cell(i) \in 1 .. room /\ Cell(i) # tail + 1 /\ I!Queued[i] = cells[Cell(i)]
    <3> TAKE i \in 1 .. count
    <3>1. I!Queued[i] = cells[Cell(i)] /\ tail + 1 = Cell(count + 1)
      BY <2>1, Cells DEF CellFacts
    <3>2. i \in 1 .. room /\ count + 1 \in 1 .. room /\ i < count + 1
      BY <1>1, <1>4
    <3>3. /\ head + i <= room => Cell(i) = head + i
          /\ head + i > room => Cell(i) = head + i - room
          /\ head + (count + 1) <= room => Cell(count + 1) = head + (count + 1)
          /\ head + (count + 1) > room => Cell(count + 1) = head + (count + 1) - room
      BY <3>2, Cells DEF CellFacts
    <3>4. Cell(i) \in 1 .. room /\ Cell(i) # Cell(count + 1)
      BY <1>1, <3>2, <3>3
    <3> QED BY <3>1, <3>4
  <2>2. /\ cells' \in Seq(Events) /\ Len(cells') = room
        /\ cells'[tail + 1] = e /\ \A i \in 1 .. room : i # tail + 1 => cells'[i] = cells[i]
    BY <1>1, <1>4, <2>1, ExceptSeq
  <2>3. tail' = (head' + count') % Len(cells')
    <3>1. count \in 0 .. room /\ count + 1 \in 0 .. room /\ 1 \in 0 .. room
      BY <1>1, <1>4
    <3>2. tail = IF head + count < room THEN head + count ELSE head + count - room
      BY <1>1, <3>1, Turns DEF RingInv
    <3>3. tail \in 0 .. room - 1
      BY <1>1, <3>1, <3>2
    <3>4. (tail + 1) % room = IF tail + 1 < room THEN tail + 1 ELSE tail + 1 - room
      BY <1>1, <3>1, <3>3, Turns
    <3>5. (head + (count + 1)) % room = IF head + (count + 1) < room THEN head + (count + 1) ELSE head + (count + 1) - room
      BY <1>1, <3>1, Turns
    <3>6. (tail + 1) % room = (head + (count + 1)) % room
      <4>1. CASE head + count < room
        BY <1>1, <3>2, <4>1
      <4>2. CASE ~ (head + count < room)
        <5>1. tail = head + count - room /\ tail + 1 < room /\ ~ (head + (count + 1) < room)
          BY <1>1, <3>1, <3>2, <4>2
        <5> QED BY <1>1, <3>4, <3>5, <5>1
      <4> QED BY <4>1, <4>2
    <3> QED BY <1>4, <2>2, <3>6
  <2>4. RingInv'
    BY <1>1, <1>4, <2>2, <2>3 DEF RingInv
  <2>5. \A i : Cell(i)' = Cell(i)
    BY <1>4, <2>2 DEF Cell
  <2>6. CellFacts'
    BY <2>4, Cells, PTL
  <2>7. \A i \in 1 .. count + 1 : I!Queued'[i] = cells'[Cell(i)]
    BY <1>1, <1>4, <2>5, <2>6 DEF CellFacts
  <2>8. /\ \A i \in 1 .. count : I!Queued'[i] = I!Queued[i]
        /\ I!Queued'[count + 1] = e
    BY <1>1, <2>1, <2>2, <2>7, <2>9
  <2> QED BY <1>4, <2>4, <2>8 DEF Queues
<1>5. CASE /\ count = room /\ n > room /\ cells' = [I!Grown(n) EXCEPT ![count + 1] = e]
           /\ tail' = (count + 1) % n /\ head' = 0 /\ count' = count + 1 /\ UNCHANGED <<missed, told>>
  <2> DEFINE grown == I!Grown(n)
  <2>1. grown = [i \in 1 .. n |-> IF i <= count THEN I!Queued[i] ELSE <<>>]
    BY DEF I!Grown
  <2>2. /\ grown \in [1 .. n -> Events]
    BY <1>1, <2>1 DEF Events
  <2>3. grown \in Seq(Events) /\ Len(grown) = n /\ \A i \in 1 .. count : grown[i] = I!Queued[i]
    BY <1>1, <1>5, <2>1, <2>2
  <2> HIDE DEF grown
  <2>4. cells' = [grown EXCEPT ![count + 1] = e] /\ count + 1 \in 1 .. n
    BY <1>1, <1>5 DEF grown
  <2>5. /\ cells' \in Seq(Events) /\ Len(cells') = n
        /\ cells'[count + 1] = e /\ \A i \in 1 .. n : i # count + 1 => cells'[i] = grown[i]
    BY <1>1, <2>3, <2>4, ExceptSeq
  <2>6. RingInv'
    BY <1>1, <1>5, <2>4, <2>5 DEF RingInv
  <2>7. CellFacts'
    BY <2>6, Cells, PTL
  <2>8. \A i \in 1 .. count + 1 : Cell(i)' = i
    BY <1>1, <1>5, <2>4, <2>5, <2>7 DEF CellFacts
  <2>9. \A i \in 1 .. count + 1 : I!Queued'[i] = cells'[i]
    BY <1>1, <1>5, <2>7, <2>8 DEF CellFacts
  <2>10. /\ \A i \in 1 .. count : I!Queued'[i] = I!Queued[i]
         /\ I!Queued'[count + 1] = e
    <3>1. \A i \in 1 .. count : i \in 1 .. n /\ i # count + 1 /\ i \in 1 .. count + 1
      BY <1>1, <1>5
    <3>2. count + 1 \in 1 .. count + 1
      BY <1>1
    <3> QED BY <2>3, <2>5, <2>9, <3>1, <3>2
  <2> QED BY <1>5, <2>6, <2>10 DEF Queues
<1> QED BY <1>2, <1>3, <1>4, <1>5
LEMMA PopQueues ==
    ASSUME RingInv, I!Pop
    PROVE  /\ RingInv' /\ count > 0 /\ count' = count - 1 /\ UNCHANGED missed
           /\ \A i \in 1 .. count' : I!Queued'[i] = I!Queued[i + 1]
           /\ ~ missed => told' = I!Learn(told, I!Queued[1])
<1> DEFINE room == Len(cells)
<1>1. /\ room \in Nat \ {0} /\ DOMAIN cells = 1 .. room /\ cells \in Seq(Events)
      /\ head \in 0 .. room - 1 /\ count \in 0 .. room /\ missed \in BOOLEAN
  BY Cells DEF RingInv, CellFacts
<1>2. /\ count > 0 /\ head' = (head + 1) % room /\ count' = count - 1
      /\ cells' = [cells EXCEPT ![head + 1] = <<>>]
      /\ UNCHANGED <<tail, missed>>
      /\ told' = IF missed THEN told ELSE I!Learn(told, cells[head + 1])
  BY DEF I!Pop, I!Capacity
<1>3. /\ count \in 1 .. room /\ 1 \in 1 .. room /\ 1 \in 1 .. count /\ head + 1 \in 1 .. room
  BY <1>1, <1>2
<1>4. Cell(1) = head + 1 /\ I!Queued[1] = cells[head + 1]
  BY <1>3, Cells DEF CellFacts
<1>5. /\ cells' \in Seq(Events) /\ Len(cells') = room
      /\ \A i \in 1 .. room : i # head + 1 => cells'[i] = cells[i]
  <2>1. <<>> \in Events
    BY DEF Events
  <2> QED BY <1>1, <1>2, <1>3, <2>1, ExceptSeq
<1>6. head' = (IF head + 1 < room THEN head + 1 ELSE 0) /\ head' \in 0 .. room - 1
  <2>1. 1 \in 0 .. room
    BY <1>1
  <2>2. (head + 1) % room = IF head + 1 < room THEN head + 1 ELSE head + 1 - room
    BY <1>1, <2>1, Turns
  <2> QED BY <1>1, <1>2, <2>2
<1>7. tail' = (head' + count') % Len(cells')
  <2>1. count - 1 \in 0 .. room /\ count \in 0 .. room
    BY <1>1, <1>3
  <2>2. tail = IF head + count < room THEN head + count ELSE head + count - room
    BY <1>1, <2>1, Turns DEF RingInv
  <2>3. (head' + (count - 1)) % room = IF head' + (count - 1) < room THEN head' + (count - 1) ELSE head' + (count - 1) - room
    BY <1>1, <1>6, <2>1, Turns
  <2>4. (head' + (count - 1)) % room = tail
    <3>1. CASE head + 1 < room
      BY <1>1, <1>3, <1>6, <2>2, <2>3, <3>1
    <3>2. CASE ~ (head + 1 < room)
      <4>1. head' = 0 /\ head = room - 1 /\ tail = count - 1 /\ (head' + (count - 1)) % room = count - 1
        <5>1. head' = 0 /\ head = room - 1
          <6>1. head' = 0
            BY <1>6, <3>2
          <6>2. head = room - 1
            <7>1. head \in Int /\ room \in Int /\ head <= room - 1
              BY <1>1
            <7> HIDE DEF room
            <7> QED BY <3>2, <7>1
          <6> QED BY <6>1, <6>2
        <5>2. ~ (head + count < room) /\ head + count - room = count - 1
          BY <1>1, <1>3, <5>1
        <5>3. tail = count - 1
          BY <2>2, <5>2
        <5>4. head' + (count - 1) = count - 1 /\ count - 1 < room
          BY <1>1, <1>3, <5>1
        <5> QED BY <2>3, <5>1, <5>3, <5>4
      <4> QED BY <4>1
    <3> QED BY <3>1, <3>2
  <2> QED BY <1>2, <1>5, <2>4
<1>8. RingInv'
  BY <1>1, <1>2, <1>3, <1>5, <1>6, <1>7 DEF RingInv
<1>9. CellFacts'
  BY <1>8, Cells, PTL
<1>10. ASSUME NEW i \in 1 .. count'
       PROVE  I!Queued'[i] = I!Queued[i + 1]
  <2>1. i \in 1 .. count - 1 /\ i \in 1 .. room /\ i + 1 \in 1 .. room /\ i + 1 \in 1 .. count
    BY <1>1, <1>2, <1>3
  <2>2. /\ head' + i <= room => Cell(i)' = head' + i
        /\ head' + i > room => Cell(i)' = head' + i - room
    BY <1>5, <1>9, <2>1 DEF CellFacts
  <2>3. /\ head + (i + 1) <= room => Cell(i + 1) = head + (i + 1)
        /\ head + (i + 1) > room => Cell(i + 1) = head + (i + 1) - room
    BY <2>1, Cells DEF CellFacts
  <2>4. Cell(i)' = Cell(i + 1) /\ Cell(i + 1) \in 1 .. room /\ Cell(i + 1) # head + 1
    <3>1. CASE head + 1 < room
      BY <1>1, <1>3, <1>6, <2>1, <2>2, <2>3, <3>1
    <3>2. CASE ~ (head + 1 < room)
      BY <1>1, <1>3, <1>6, <2>1, <2>2, <2>3, <3>2
    <3> QED BY <3>1, <3>2
  <2>5. I!Queued'[i] = cells'[Cell(i)'] /\ I!Queued[i + 1] = cells[Cell(i + 1)]
    BY <1>9, <2>1, Cells DEF CellFacts
  <2> QED BY <1>5, <2>4, <2>5
<1> QED BY <1>2, <1>3, <1>4, <1>8, <1>10

-----------------------------------------------------------------------------
(* What the events tell *)

LEMMA Learning ==
    ASSUME NEW k \in Knowledge
    PROVE  /\ \A n \in Nat : I!Learn(k, <<"added", n>>) = [k EXCEPT !.devices = k.devices \cup {n}]
           /\ \A n \in Nat : I!Learn(k, <<"removed", n>>) = [k EXCEPT !.devices = k.devices \ {n}]
           /\ \A a \in Int : I!Learn(k, <<"motion", a>>) = [k EXCEPT !.x = a]
BY DEF I!Learn

LEMMA LearningKeys ==
    ASSUME NEW k \in Knowledge, NEW c, NEW l
    PROVE  /\ I!Learn(k, <<"down", c, l>>) =
                  [keys |-> k.keys \cup {c}, locks |-> l, x |-> k.x, devices |-> k.devices]
           /\ I!Learn(k, <<"up", c, l>>) =
                  [keys |-> k.keys \ {c}, locks |-> l, x |-> k.x, devices |-> k.devices]
<1>1. /\ DOMAIN k = {"keys", "locks", "x", "devices"}
      /\ k = [keys |-> k.keys, locks |-> k.locks, x |-> k.x, devices |-> k.devices]
  BY DEF Knowledge
<1>2. /\ I!Learn(k, <<"down", c, l>>) = [k EXCEPT !.keys = k.keys \cup {c}, !.locks = l]
      /\ I!Learn(k, <<"up", c, l>>) = [k EXCEPT !.keys = k.keys \ {c}, !.locks = l]
  BY DEF I!Learn
<1> QED BY <1>1, <1>2

\* f is what one knows after each of the queued events.
Follows(f) ==
    /\ f \in [0 .. count -> Knowledge] /\ f[0] = told
    /\ \A n \in 1 .. count : f[n] = I!Learn(f[n - 1], I!Queued[n])
Knows(k) ==
    /\ k.keys = keys /\ k.locks = locks /\ k.devices = I!Ids
    /\ ~ bounded => k.x = x

\* Who follows the events knows the state in the end.
Account == I!Alive /\ ~ missed => \E f : Follows(f) /\ Knows(f[count])

LEMMA FollowsOn ==
    ASSUME RingInv, NEW f, Follows(f), NEW e, Queues(e), I!Learn(f[count], e) \in Knowledge
    PROVE  \E g : Follows(g)' /\ g[count'] = I!Learn(f[count], e)
<1>0. PICK g : g = [n \in 0 .. count + 1 |-> IF n <= count THEN f[n] ELSE I!Learn(f[count], e)]
  OBVIOUS
<1>1. count \in Nat /\ count' = count + 1 /\ told' = told
  BY Cells DEF RingInv, CellFacts, Queues
<1>2. /\ f \in [0 .. count -> Knowledge] /\ f[0] = told
      /\ \A n \in 1 .. count : f[n] = I!Learn(f[n - 1], I!Queued[n])
  BY DEF Follows
<1>3. /\ g \in [0 .. count' -> Knowledge] /\ g[0] = told'
      /\ g[count'] = I!Learn(f[count], e) /\ \A n \in 0 .. count : g[n] = f[n]
  BY <1>0, <1>1, <1>2
<1>4. ASSUME NEW n \in 1 .. count'
      PROVE  g[n] = I!Learn(g[n - 1], I!Queued'[n])
  <2>1. CASE n = count'
    BY <1>1, <1>3, <2>1 DEF Queues
  <2>2. CASE n # count'
    <3>1. n \in 1 .. count /\ n - 1 \in 0 .. count /\ n \in 0 .. count
      BY <1>1, <2>2
    <3>2. I!Queued'[n] = I!Queued[n]
      BY <3>1 DEF Queues
    <3> QED BY <1>2, <1>3, <3>1, <3>2
  <2> QED BY <2>1, <2>2
<1>5. Follows(g)'
  BY <1>3, <1>4 DEF Follows
<1> QED BY <1>3, <1>5

LEMMA FollowsLess ==
    ASSUME RingInv, NEW f, Follows(f), I!Pop, ~ missed
    PROVE  \E g : Follows(g)' /\ g[count'] = f[count]
<1>0. PICK g : g = [n \in 0 .. count - 1 |-> f[n + 1]]
  OBVIOUS
<1>1. /\ count \in Nat /\ count > 0 /\ count' = count - 1 /\ told' = I!Learn(told, I!Queued[1])
      /\ \A i \in 1 .. count' : I!Queued'[i] = I!Queued[i + 1]
  <2>1. Len(cells) \in Nat
    BY Cells DEF CellFacts
  <2>2. count \in Nat
    BY <2>1 DEF RingInv
  <2> QED BY <2>2, PopQueues
<1>2. /\ f \in [0 .. count -> Knowledge] /\ f[0] = told
      /\ \A n \in 1 .. count : f[n] = I!Learn(f[n - 1], I!Queued[n])
  BY DEF Follows
<1>3. f[1] = told'
  <2>1. 1 \in 1 .. count /\ 1 - 1 = 0
    BY <1>1
  <2>2. f[1] = I!Learn(f[0], I!Queued[1])
    BY <1>2, <2>1
  <2> QED BY <1>1, <1>2, <2>2
<1>4. /\ g \in [0 .. count' -> Knowledge] /\ g[0] = told' /\ g[count'] = f[count]
      /\ \A n \in 0 .. count' : g[n] = f[n + 1]
  <2>1. count' = count - 1 /\ \A n \in 0 .. count - 1 : n + 1 \in 0 .. count
    BY <1>1
  <2>2. g \in [0 .. count' -> Knowledge] /\ \A n \in 0 .. count' : g[n] = f[n + 1]
    BY <1>0, <1>2, <2>1
  <2>3. 0 \in 0 .. count' /\ count' \in 0 .. count' /\ count' + 1 = count
    BY <1>1
  <2> QED BY <1>3, <2>2, <2>3
<1>5. ASSUME NEW n \in 1 .. count'
      PROVE  g[n] = I!Learn(g[n - 1], I!Queued'[n])
  <2>1. n \in 0 .. count' /\ n - 1 \in 0 .. count' /\ n + 1 \in 1 .. count /\ (n + 1) - 1 = n /\ (n - 1) + 1 = n
    BY <1>1
  <2>2. f[n + 1] = I!Learn(f[n], I!Queued[n + 1])
    BY <1>2, <2>1
  <2> QED BY <1>1, <1>4, <2>1, <2>2
<1>6. Follows(g)'
  BY <1>4, <1>5 DEF Follows
<1> QED BY <1>4, <1>6

\* There is only one way to follow the events.
LEMMA KnowingIs ==
    ASSUME count \in Nat, NEW f, Follows(f)
    PROVE  I!Knowing = f[count]
<1> DEFINE After(h) == h = [n \in 0 .. count |-> IF n = 0 THEN told ELSE I!Learn(h[n - 1], I!Queued[n])]
           g == CHOOSE h : After(h)
           Less == {ss \in Nat \X Nat : ss[1] < ss[2]}
           Wrong == {n \in 0 .. count : g[n] # f[n]}
<1>1. /\ f \in [0 .. count -> Knowledge] /\ f[0] = told
      /\ \A n \in 1 .. count : f[n] = I!Learn(f[n - 1], I!Queued[n])
  BY DEF Follows
<1>2. After(f)
  BY <1>1
<1>3. After(g)
  BY <1>2
<1> HIDE DEF g
<1>4. /\ g[0] = told /\ \A n \in 1 .. count : g[n] = I!Learn(g[n - 1], I!Queued[n])
  BY <1>3
<1>5. I!Knowing = g[count]
  BY DEF I!Knowing, g
<1>6. Wrong = {}
  <2> SUFFICES ASSUME Wrong # {} PROVE FALSE
    OBVIOUS
  <2>1. IsWellFoundedOn(Less, Nat)
    BY NatLessThanWellFounded, Zenon DEF OpToRel
  <2>2. Wrong \subseteq Nat
    OBVIOUS
  <2>3. PICK b \in Wrong : \A m \in Wrong : <<m, b>> \notin Less
    <3> HIDE DEF Wrong, Less
    <3> QED BY <2>1, <2>2, WFMin
  <2>4. b # 0
    BY <1>1, <1>4
  <2>5. b - 1 \in 0 .. count /\ b \in 1 .. count /\ <<b - 1, b>> \in Less
    BY <2>4
  <2>6. g[b - 1] = f[b - 1]
    BY <2>3, <2>5
  <2> QED BY <1>1, <1>4, <2>5, <2>6
<1>7. count \in 0 .. count
  OBVIOUS
<1> QED BY <1>5, <1>6, <1>7
-----------------------------------------------------------------------------
(* The devices *)

On(p) == {i \in 1 .. Len(devices) : devices[i].path = p}
DevicesInv ==
    /\ devices \in Seq(Devices) /\ lastId \in Nat /\ opened \in [Paths -> Int]
    /\ \A i \in 1 .. Len(devices) : devices[i].id <= lastId
    /\ \A i, j \in 1 .. Len(devices) : i # j => devices[i].id # devices[j].id
    /\ \A p \in Paths : opened[p] = Cardinality(On(p))

LEMMA DevicesFinite ==
    ASSUME DevicesInv, NEW p
    PROVE  /\ Len(devices) \in Nat /\ IsFiniteSet(On(p)) /\ Cardinality(On(p)) \in Nat
<1>1. Len(devices) \in Nat
  BY DEF DevicesInv
<1>2. IsFiniteSet(1 .. Len(devices)) /\ On(p) \subseteq 1 .. Len(devices)
  BY <1>1, FS_Interval DEF On
<1>3. IsFiniteSet(On(p))
  BY <1>2, FS_Subset
<1> QED BY <1>1, <1>3, FS_CardinalityType

LEMMA DeviceAdded ==
    ASSUME DevicesInv, NEW p \in Paths, I!AddDevice(p)
    PROVE  DevicesInv' /\ I!Ids' = I!Ids \cup {lastId + 1} /\ I!Ids' \subseteq Nat
<1> DEFINE one == [id |-> lastId + 1, path |-> p]
           n == Len(devices)
<1>1. /\ devices \in Seq(Devices) /\ lastId \in Nat /\ n \in Nat /\ opened \in [Paths -> Int]
      /\ one \in Devices /\ lastId' = lastId + 1 /\ devices' = Append(devices, one)
      /\ opened' = [opened EXCEPT ![p] = opened[p] + 1]
  BY DEF DevicesInv, I!AddDevice, Devices
<1>2. /\ devices' \in Seq(Devices) /\ Len(devices') = n + 1 /\ devices'[n + 1] = one
      /\ \A i \in 1 .. n : devices'[i] = devices[i]
  BY <1>1, AppendProperties
<1>3. \A i \in 1 .. n + 1 : i \in 1 .. n \/ i = n + 1
  BY <1>1
<1>4. \A i \in 1 .. n : devices[i].id \in Nat /\ devices[i].id <= lastId
  <2>1. \A i \in 1 .. n : devices[i] \in Devices
    BY <1>1, ElementOfSeq
  <2>2. \A i \in 1 .. n : devices[i].id <= lastId
    BY DEF DevicesInv
  <2> QED BY <2>1, <2>2 DEF Devices
<1>5. I!Ids' = I!Ids \cup {lastId + 1}
  <2>1. \A e : e \in I!Ids' <=> \E i \in 1 .. n + 1 : e = devices'[i].id
    BY <1>2 DEF I!Ids
  <2>2. \A e : e \in I!Ids <=> \E i \in 1 .. n : e = devices[i].id
    BY DEF I!Ids
  <2>3. devices'[n + 1].id = lastId + 1 /\ n + 1 \in 1 .. n + 1 /\ \A i \in 1 .. n : i \in 1 .. n + 1
    BY <1>1, <1>2
  <2>4. \A e : e \in I!Ids' <=> e \in I!Ids \/ e = lastId + 1
    BY <1>2, <1>3, <2>1, <2>2, <2>3
  <2> QED BY <2>4
<1>6. I!Ids' \subseteq Nat
  BY <1>1, <1>4, <1>5 DEF I!Ids
<1>7. ASSUME NEW q \in Paths
      PROVE  opened'[q] = Cardinality(On(q)')
  <2>1. opened[q] = Cardinality(On(q)) /\ IsFiniteSet(On(q)) /\ Cardinality(On(q)) \in Nat
    BY DevicesFinite DEF DevicesInv
  <2>2. CASE q = p
    <3>1. On(q)' = On(q) \cup {n + 1} /\ n + 1 \notin On(q)
      BY <1>1, <1>2, <1>3, <2>2 DEF On
    <3>2. Cardinality(On(q)') = Cardinality(On(q)) + 1
      BY <2>1, <3>1, FS_AddElement
    <3> QED BY <1>1, <2>1, <2>2, <3>2
  <2>3. CASE q # p
    <3>1. On(q)' = On(q)
      BY <1>1, <1>2, <1>3, <2>3 DEF On
    <3> QED BY <1>1, <2>1, <2>3, <3>1
  <2> QED BY <2>2, <2>3
<1>8. /\ \A i \in 1 .. n + 1 : devices'[i].id <= lastId'
      /\ \A i, j \in 1 .. n + 1 : i # j => devices'[i].id # devices'[j].id
  <2>1. \A i \in 1 .. n + 1 : devices'[i].id = IF i = n + 1 THEN lastId + 1 ELSE devices[i].id
    BY <1>1, <1>2, <1>3
  <2> QED BY <1>1, <1>3, <1>4, <2>1 DEF DevicesInv
<1>9. opened' \in [Paths -> Int]
  BY <1>1
<1> QED BY <1>1, <1>2, <1>5, <1>6, <1>7, <1>8, <1>9 DEF DevicesInv

LEMMA DeviceRemoved ==
    ASSUME DevicesInv, NEW k \in 1 .. Len(devices), I!RemoveDevice(k),
           devices[k].path \in Paths
    PROVE  DevicesInv' /\ I!Ids' = I!Ids \ {devices[k].id} /\ I!Ids' \subseteq Nat
<1> DEFINE n == Len(devices)
           gone == devices[k]
           Old(j) == IF j < k THEN j ELSE j + 1
           New(i) == IF i < k THEN i ELSE i - 1
<1>1. /\ devices \in Seq(Devices) /\ lastId \in Nat /\ n \in Nat /\ n > 0 /\ opened \in [Paths -> Int]
      /\ lastId' = lastId /\ devices' = [j \in 1 .. n - 1 |-> IF j < k THEN devices[j] ELSE devices[j + 1]]
      /\ opened' = [opened EXCEPT ![gone.path] = opened[gone.path] - 1]
  BY DEF DevicesInv, I!RemoveDevice, I!Without
<1>2. \A j \in 1 .. n - 1 : /\ Old(j) \in 1 .. n /\ Old(j) # k /\ devices'[j] = devices[Old(j)]
                            /\ New(Old(j)) = j
  BY <1>1
<1>3. \A i \in 1 .. n : i # k => New(i) \in 1 .. n - 1 /\ Old(New(i)) = i
  BY <1>1
<1>4. \A i, j \in 1 .. n - 1 : i # j => Old(i) # Old(j)
  BY <1>2
<1>5. devices' \in Seq(Devices) /\ Len(devices') = n - 1
  <2>1. devices' \in [1 .. n - 1 -> Devices]
    BY <1>1
  <2> QED BY <1>1, <2>1
<1> HIDE DEF Old, New
<1>6. \A i \in 1 .. n : devices[i].id \in Nat /\ devices[i].id <= lastId
  <2>1. \A i \in 1 .. n : devices[i] \in Devices
    BY <1>1, ElementOfSeq
  <2>2. \A i \in 1 .. n : devices[i].id <= lastId
    BY DEF DevicesInv
  <2> QED BY <2>1, <2>2 DEF Devices
<1>7. /\ \A i \in 1 .. n - 1 : devices'[i].id <= lastId'
      /\ \A i, j \in 1 .. n - 1 : i # j => devices'[i].id # devices'[j].id
  <2>1. \A i, j \in 1 .. n : i # j => devices[i].id # devices[j].id
    BY DEF DevicesInv
  <2>2. \A i \in 1 .. n - 1 : devices'[i].id <= lastId'
    BY <1>1, <1>2, <1>6
  <2>3. ASSUME NEW i \in 1 .. n - 1, NEW j \in 1 .. n - 1, i # j
        PROVE  devices'[i].id # devices'[j].id
    <3>1. Old(i) \in 1 .. n /\ Old(j) \in 1 .. n /\ Old(i) # Old(j)
      BY <1>2, <1>4, <2>3
    <3> QED BY <1>2, <2>1, <3>1
  <2> QED BY <2>2, <2>3
<1>8. I!Ids' = I!Ids \ {gone.id}
  <2>1. \A i \in 1 .. n : i # k => devices[i].id # gone.id
    BY DEF DevicesInv
  <2>2. \A e : e \in I!Ids' <=> \E j \in 1 .. n - 1 : e = devices[Old(j)].id
    BY <1>2, <1>5 DEF I!Ids
  <2>3. \A e : e \in I!Ids <=> \E i \in 1 .. n : e = devices[i].id
    BY DEF I!Ids
  <2>4. ASSUME NEW e \in I!Ids' PROVE e \in I!Ids \ {gone.id}
    BY <1>2, <2>1, <2>2, <2>3, <2>4
  <2>5. ASSUME NEW e \in I!Ids \ {gone.id} PROVE e \in I!Ids'
    <3>1. PICK i \in 1 .. n : e = devices[i].id
      BY <2>3, <2>5
    <3>2. i # k
      BY <2>5, <3>1
    <3> QED BY <1>3, <2>2, <3>1, <3>2
  <2> QED BY <2>4, <2>5
<1>9. I!Ids' \subseteq Nat
  BY <1>6, <1>8 DEF I!Ids
<1>10. ASSUME NEW q \in Paths
       PROVE  opened'[q] = Cardinality(On(q)')
  <2> DEFINE Rest == On(q) \ {k}
             f == [j \in On(q)' |-> Old(j)]
  <2>1. /\ opened[q] = Cardinality(On(q)) /\ IsFiniteSet(On(q)) /\ Cardinality(On(q)) \in Nat
    BY DevicesFinite DEF DevicesInv
  <2>2. /\ IsFiniteSet(Rest)
        /\ Cardinality(Rest) = IF k \in On(q) THEN Cardinality(On(q)) - 1 ELSE Cardinality(On(q))
    BY <2>1, FS_RemoveElement
  <2>3. \A j \in On(q)' : j \in 1 .. n - 1 /\ Old(j) \in Rest
    BY <1>2, <1>5 DEF On
  <2>4. \A i \in Rest : New(i) \in On(q)' /\ Old(New(i)) = i
    BY <1>2, <1>3, <1>5 DEF On
  <2>5. f \in Bijection(On(q)', Rest)
    <3>1. f \in [On(q)' -> Rest]
      BY <2>3
    <3>2. \A i, j \in On(q)' : f[i] = f[j] => i = j
      BY <1>4, <2>3
    <3>3. \A i \in Rest : \E j \in On(q)' : f[j] = i
      BY <2>4
    <3> QED BY <3>1, <3>2, <3>3 DEF Bijection, Injection, Surjection, IsInjective
  <2>6. Cardinality(On(q)') = Cardinality(Rest)
    <3>1. IsFiniteSet(On(q)')
      <4>1. IsFiniteSet(1 .. n - 1) /\ On(q)' \subseteq 1 .. n - 1
        BY <1>1, <2>3, FS_Interval
      <4> QED BY <4>1, FS_Subset
    <3>2. ExistsBijection(On(q)', Rest)
      BY <2>5 DEF ExistsBijection
    <3> QED BY <3>1, <3>2, FS_Bijection
  <2>7. k \in On(q) <=> q = gone.path
    BY DEF On
  <2> HIDE DEF Rest
  <2> QED BY <1>1, <2>1, <2>2, <2>6, <2>7
<1>11. opened' \in [Paths -> Int]
  BY <1>1
<1> QED BY <1>1, <1>5, <1>7, <1>8, <1>9, <1>10, <1>11 DEF DevicesInv
-----------------------------------------------------------------------------
(* Input: the invariant *)

StateInv ==
    /\ keys \in SUBSET Keys /\ locks \in SUBSET Locks /\ x \in Int /\ bounded \in BOOLEAN
    /\ bounded => x \in 0 .. Wide - 1
InputInv == RingInv /\ DevicesInv /\ StateInv /\ Account

LEMMA InputInit == I!Init => InputInv
<1> SUFFICES ASSUME I!Init PROVE InputInv
  OBVIOUS
<1>1. RingInv
  <2>1. /\ cells = [i \in 1 .. Initial |-> <<>>] /\ head = 0 /\ tail = 0 /\ count = 0 /\ missed = FALSE
    BY DEF I!Init
  <2>2. cells \in [1 .. Initial -> Events] /\ Initial \in Nat \ {0}
    BY <2>1, SrapiAssumption DEF Events
  <2>3. cells \in Seq(Events) /\ Len(cells) = Initial
    BY <2>1, <2>2
  <2>4. (0 + 0) % Initial = 0
    BY <2>2, Turns
  <2>5. missed \in BOOLEAN
    BY <2>1, Zenon
  <2>6. Len(cells) > 0 /\ head \in 0 .. Len(cells) - 1 /\ count \in 0 .. Len(cells)
    BY <2>1, <2>2, <2>3
  <2>7. tail = (head + count) % Len(cells)
    BY <2>1, <2>3, <2>4
  <2> QED BY <2>3, <2>5, <2>6, <2>7 DEF RingInv
<1>2. DevicesInv
  <2>1. devices = <<>> /\ lastId = 0 /\ opened = [p \in Paths |-> 0] /\ Len(devices) = 0
    BY DEF I!Init
  <2>2. \A p : On(p) = {}
    BY <2>1 DEF On
  <2> QED BY <2>1, <2>2, FS_EmptySet DEF DevicesInv
<1>3. StateInv
  <2>1. keys = {} /\ locks = {} /\ x = 0 /\ bounded = FALSE
    BY DEF I!Init
  <2>2. bounded \in BOOLEAN /\ (bounded => x \in 0 .. Wide - 1)
    BY <2>1, Zenon
  <2> QED BY <2>1, <2>2 DEF StateInv
<1>4. Account
  <2> DEFINE f == [n \in 0 .. 0 |-> I!Blank]
  <2>1. /\ count = 0 /\ told = I!Blank /\ keys = {} /\ locks = {} /\ x = 0 /\ devices = <<>>
    BY DEF I!Init
  <2>2. I!Blank \in Knowledge /\ Knows(I!Blank)
    BY <2>1 DEF I!Blank, Knowledge, Knows, I!Ids
  <2>3. Follows(f)
    BY <2>1, <2>2 DEF Follows
  <2>4. f[count] = I!Blank
    BY <2>1
  <2> QED BY <2>2, <2>3, <2>4 DEF Account
<1> QED BY <1>1, <1>2, <1>3, <1>4 DEF InputInv

\* An event that tells what has changed keeps the account.
LEMMA EventAccounts ==
    ASSUME InputInv, NEW e \in Events, I!Push(e), I!Alive,
           \A k \in Knowledge : Knows(k) => I!Learn(k, e) \in Knowledge /\ Knows(I!Learn(k, e))'
    PROVE  RingInv' /\ Account'
<1>1. RingInv' /\ (Queues(e) \/ Drops)
  BY PushQueues DEF InputInv
<1>2. CASE Drops
  BY <1>1, <1>2 DEF Drops, Account
<1>3. CASE Queues(e) /\ ~ missed'
  <2>1. ~ missed
    BY <1>3 DEF Queues
  <2>2. PICK f : Follows(f) /\ Knows(f[count])
    BY <2>1 DEF InputInv, Account
  <2>3. PICK k : k = f[count]
    OBVIOUS
  <2>4. k \in Knowledge /\ Knows(k)
    BY <2>2, <2>3, Cells DEF Follows, InputInv, RingInv, CellFacts
  <2>5. I!Learn(k, e) \in Knowledge /\ Knows(I!Learn(k, e))'
    BY <2>4
  <2>6. PICK g : Follows(g)' /\ g[count'] = I!Learn(k, e)
    BY <1>3, <2>2, <2>3, <2>5, FollowsOn DEF InputInv
  <2>7. Knows(g[count])'
    BY <2>5, <2>6 DEF Knows
  <2>8. \E h : Follows(h)' /\ Knows(h[count])'
    BY <2>6, <2>7
  <2> QED BY <1>1, <2>8 DEF Account
<1>4. CASE Queues(e) /\ missed'
  BY <1>1, <1>4 DEF Account
<1> QED BY <1>1, <1>2, <1>3, <1>4
\* Where the queue and the state stay, so does the account.
LEMMA AccountKept ==
    ASSUME Account, UNCHANGED <<I!queue, told, missed, console>>,
           \A k : Knows(k) => Knows(k)'
    PROVE  Account'
<1>1. UNCHANGED <<cells, head, count, told>>
  BY DEF I!queue
<1>2. I!Queued' = I!Queued
  BY <1>1 DEF I!Queued, I!Capacity
<1>3. \A f : Follows(f) => Follows(f)'
  BY <1>1, <1>2 DEF Follows
<1> QED BY <1>1, <1>3 DEF Account, I!Alive

LEMMA InputStep == ASSUME InputInv, I!Next PROVE InputInv'
<1>1. RingInv /\ DevicesInv /\ StateInv /\ Account
  BY DEF InputInv
<1>2. CASE I!Alive /\ \E p \in Paths : I!AddDevice(p)
  <2>1. PICK p \in Paths : I!AddDevice(p)
    BY <1>2
  <2>2. PICK e : e = <<"added", lastId + 1>>
    OBVIOUS
  <2>3. PICK n : n = lastId + 1
    OBVIOUS
  <2>4. lastId \in Nat /\ n \in Nat /\ e = <<"added", n>> /\ e \in Events
    BY <1>1, <2>2, <2>3 DEF DevicesInv, Events
  <2>5. I!Push(e) /\ UNCHANGED <<I!state, console>>
    BY <2>1, <2>2 DEF I!AddDevice
  <2>6. DevicesInv' /\ I!Ids' = I!Ids \cup {n} /\ I!Ids' \subseteq Nat
    BY <1>1, <2>1, <2>3, DeviceAdded
  <2>7. StateInv'
    BY <1>1, <2>5 DEF StateInv, I!state
  <2>8. ASSUME NEW k \in Knowledge, Knows(k)
        PROVE  I!Learn(k, e) \in Knowledge /\ Knows(I!Learn(k, e))'
    <3>1. I!Learn(k, e) = [k EXCEPT !.devices = k.devices \cup {n}]
      BY <2>4, Learning
    <3> QED BY <2>4, <2>5, <2>6, <2>8, <3>1 DEF Knows, Knowledge, I!state
  <2> QED BY <1>2, <2>4, <2>5, <2>6, <2>7, <2>8, EventAccounts DEF InputInv
<1>3. CASE I!Alive /\ \E i \in 1 .. Len(devices) : I!RemoveDevice(i)
  <2>1. PICK i \in 1 .. Len(devices) : I!RemoveDevice(i)
    BY <1>3
  <2>2. PICK n : n = devices[i].id
    OBVIOUS
  <2>3. PICK e : e = <<"removed", n>>
    OBVIOUS
  <2>4. n \in Nat /\ e \in Events /\ devices[i].path \in Paths
    <3>1. devices[i] \in Devices
      BY <1>1, ElementOfSeq DEF DevicesInv
    <3> QED BY <2>2, <2>3, <3>1 DEF Events, Devices
  <2>5. I!Push(e) /\ UNCHANGED <<I!state, console>>
    BY <2>1, <2>2, <2>3 DEF I!RemoveDevice
  <2>6. DevicesInv' /\ I!Ids' = I!Ids \ {n} /\ I!Ids' \subseteq Nat
    BY <1>1, <2>1, <2>2, <2>4, DeviceRemoved
  <2>7. StateInv'
    BY <1>1, <2>5 DEF StateInv, I!state
  <2>8. ASSUME NEW k \in Knowledge, Knows(k)
        PROVE  I!Learn(k, e) \in Knowledge /\ Knows(I!Learn(k, e))'
    <3>1. I!Learn(k, e) = [k EXCEPT !.devices = k.devices \ {n}]
      BY <2>3, <2>4, Learning
    <3> QED BY <2>4, <2>5, <2>6, <2>8, <3>1 DEF Knows, Knowledge, I!state
  <2> QED BY <1>3, <2>4, <2>5, <2>6, <2>7, <2>8, EventAccounts DEF InputInv
<1>4. CASE I!Alive /\ \E d \in Steps : I!Moves(d)
  <2>1. PICK d \in Steps : I!Moves(d)
    BY <1>4
  <2>2. PICK a : a = I!Placed(x + d)
    OBVIOUS
  <2>3. /\ a \in Int /\ (bounded => a \in 0 .. Wide - 1)
    BY <1>1, <2>2, SrapiAssumption DEF I!Placed, StateInv
  <2>4. PICK e : e = <<"motion", a>>
    OBVIOUS
  <2>5. /\ I!Push(e) /\ x' = a /\ e \in Events
        /\ UNCHANGED <<devices, lastId, keys, locks, bounded, console, opened>>
    BY <2>1, <2>2, <2>3, <2>4 DEF I!Moves, Events
  <2>6. DevicesInv' /\ I!Ids' = I!Ids
    BY <1>1, <2>5 DEF DevicesInv, On, I!Ids
  <2>7. StateInv'
    BY <1>1, <2>3, <2>5 DEF StateInv
  <2>8. ASSUME NEW k \in Knowledge, Knows(k)
        PROVE  I!Learn(k, e) \in Knowledge /\ Knows(I!Learn(k, e))'
    <3>1. I!Learn(k, e) = [k EXCEPT !.x = a]
      BY <2>3, <2>4, Learning
    <3> QED BY <2>3, <2>5, <2>6, <2>8, <3>1 DEF Knows, Knowledge
  <2> QED BY <1>4, <2>5, <2>6, <2>7, <2>8, EventAccounts DEF InputInv
<1>5. CASE I!Alive /\ \E c \in Keys, v \in 0 .. 2 : I!Key(c, v)
  <2>1. PICK c \in Keys, v \in 0 .. 2 : I!Key(c, v)
    BY <1>5
  <2>2. PICK e : e = <<IF v # 0 THEN "down" ELSE "up", c, locks'>>
    OBVIOUS
  <2>3. PICK l : l = locks'
    OBVIOUS
  <2>4. /\ I!Push(e) /\ keys' = IF v # 0 THEN keys \cup {c} ELSE keys \ {c}
        /\ locks' \in SUBSET Locks
        /\ UNCHANGED <<devices, lastId, x, bounded, console, opened>>
    BY <1>1, <2>1, <2>2 DEF I!Key, StateInv
  <2>5. l \in SUBSET Locks /\ e = <<IF v # 0 THEN "down" ELSE "up", c, l>>
    BY <2>2, <2>3, <2>4
  <2>6. e \in Events
    BY <2>5 DEF Events
  <2>7. DevicesInv' /\ I!Ids' = I!Ids
    BY <1>1, <2>4 DEF DevicesInv, On, I!Ids
  <2>8. StateInv'
    BY <1>1, <2>4 DEF StateInv
  <2>9. ASSUME NEW k \in Knowledge, Knows(k)
        PROVE  I!Learn(k, e) \in Knowledge /\ Knows(I!Learn(k, e))'
    <3>1. CASE v # 0
      <4>1. e = <<"down", c, l>> /\ keys' = keys \cup {c}
        BY <2>4, <2>5, <3>1
      <4>2. I!Learn(k, <<"down", c, l>>) =
                [keys |-> k.keys \cup {c}, locks |-> l, x |-> k.x, devices |-> k.devices]
        BY LearningKeys
      <4>3. PICK q : q = I!Learn(k, e)
        OBVIOUS
      <4>4. q = [keys |-> k.keys \cup {c}, locks |-> l, x |-> k.x, devices |-> k.devices]
        BY <4>1, <4>2, <4>3
      <4>5. q \in Knowledge
        BY <2>5, <4>4 DEF Knowledge
      <4>6. Knows(q)'
        BY <2>3, <2>4, <2>7, <2>9, <4>1, <4>4 DEF Knows
      <4> QED BY <4>3, <4>5, <4>6
    <3>2. CASE v = 0
      <4>1. e = <<"up", c, l>> /\ keys' = keys \ {c}
        BY <2>4, <2>5, <3>2
      <4>2. I!Learn(k, <<"up", c, l>>) =
                [keys |-> k.keys \ {c}, locks |-> l, x |-> k.x, devices |-> k.devices]
        BY LearningKeys
      <4>3. PICK q : q = I!Learn(k, e)
        OBVIOUS
      <4>4. q = [keys |-> k.keys \ {c}, locks |-> l, x |-> k.x, devices |-> k.devices]
        BY <4>1, <4>2, <4>3
      <4>5. q \in Knowledge
        BY <2>5, <4>4 DEF Knowledge
      <4>6. Knows(q)'
        BY <2>3, <2>4, <2>7, <2>9, <4>1, <4>4 DEF Knows
      <4> QED BY <4>3, <4>5, <4>6
    <3> QED BY <3>1, <3>2
  <2> QED BY <1>5, <2>4, <2>6, <2>7, <2>8, <2>9, EventAccounts DEF InputInv
<1>6. CASE I!Alive /\ I!Pop
  <2>1. /\ RingInv' /\ UNCHANGED <<missed, devices, lastId, I!state, console, opened>>
    BY <1>1, <1>6, PopQueues DEF I!Pop
  <2>2. DevicesInv' /\ I!Ids' = I!Ids /\ StateInv'
    BY <1>1, <2>1 DEF DevicesInv, On, I!Ids, StateInv, I!state
  <2>3. \A k : Knows(k) => Knows(k)'
    BY <2>1, <2>2 DEF Knows, I!state
  <2>4. CASE ~ missed
    <3>1. PICK f : Follows(f) /\ Knows(f[count])
      BY <1>1, <1>6, <2>4 DEF Account
    <3>2. PICK g : Follows(g)' /\ g[count'] = f[count]
      BY <1>1, <1>6, <2>4, <3>1, FollowsLess
    <3> QED BY <2>1, <2>2, <2>3, <3>1, <3>2 DEF InputInv, Account
  <2>5. CASE missed
    BY <2>1, <2>2, <2>5 DEF InputInv, Account
  <2> QED BY <2>4, <2>5
<1>7. CASE I!Alive /\ I!Flush
  <2>1. /\ head' = 0 /\ tail' = 0 /\ count' = 0 /\ cells' = [i \in 1 .. Len(cells) |-> <<>>]
        /\ told' = [keys |-> keys, locks |-> locks, x |-> x, devices |-> I!Ids] /\ missed' = FALSE
        /\ UNCHANGED <<devices, lastId, I!state, console, opened>>
    BY <1>7 DEF I!Flush, I!Capacity
  <2>2. DevicesInv' /\ I!Ids' = I!Ids /\ StateInv'
    BY <1>1, <2>1 DEF DevicesInv, On, I!Ids, StateInv, I!state
  <2>3. RingInv'
    <3>1. Len(cells) \in Nat \ {0}
      BY <1>1, Cells DEF CellFacts
    <3>2. cells' \in [1 .. Len(cells) -> Events]
      BY <2>1 DEF Events
    <3>3. cells' \in Seq(Events) /\ Len(cells') = Len(cells)
      BY <2>1, <3>1, <3>2
    <3>4. (0 + 0) % Len(cells) = 0
      BY <3>1, Turns
    <3>5. missed' \in BOOLEAN
      BY <2>1, Zenon
    <3>6. Len(cells') > 0 /\ head' \in 0 .. Len(cells') - 1 /\ count' \in 0 .. Len(cells')
      BY <2>1, <3>1, <3>3
    <3>7. tail' = (head' + count') % Len(cells')
      BY <2>1, <3>3, <3>4
    <3> QED BY <3>3, <3>5, <3>6, <3>7 DEF RingInv
  <2>4. Account'
    <3> DEFINE f == [n \in 0 .. 0 |-> told']
    <3>1. I!Ids \subseteq Nat
      <4>1. \A i \in 1 .. Len(devices) : devices[i] \in Devices
        BY <1>1, ElementOfSeq DEF DevicesInv
      <4> QED BY <4>1 DEF I!Ids, Devices
    <3>2. told' \in Knowledge
      BY <1>1, <2>1, <3>1 DEF Knowledge, StateInv
    <3>3. told'.keys = keys' /\ told'.locks = locks' /\ told'.devices = I!Ids' /\ told'.x = x'
      BY <2>1, <2>2 DEF I!state
    <3>4. PICK k : k = told'
      OBVIOUS
    <3>5. Knows(k)'
      BY <3>3, <3>4 DEF Knows
    <3>6. PICK g : g = [n \in 0 .. 0 |-> k]
      OBVIOUS
    <3>7. Follows(g)' /\ g[count'] = k
      BY <2>1, <3>2, <3>4, <3>6 DEF Follows
    <3> QED BY <3>5, <3>7 DEF Account
  <2> QED BY <2>2, <2>3, <2>4 DEF InputInv
<1>8. CASE I!Alive /\ I!SetBounds
  <2>1. /\ bounded = FALSE /\ bounded' = TRUE
        /\ x' = IF x < 0 THEN 0 ELSE IF x >= Wide THEN Wide - 1 ELSE x
        /\ UNCHANGED <<devices, lastId, I!queue, keys, locks, console, opened, told, missed>>
    BY <1>1, <1>8 DEF I!SetBounds, StateInv
  <2>2. DevicesInv' /\ I!Ids' = I!Ids /\ RingInv'
    BY <1>1, <2>1 DEF DevicesInv, On, I!Ids, RingInv, I!queue
  <2>3. StateInv'
    BY <1>1, <2>1, SrapiAssumption DEF StateInv
  <2>4. \A k : Knows(k) => Knows(k)'
    BY <2>1, <2>2 DEF Knows
  <2> QED BY <1>1, <2>1, <2>2, <2>3, <2>4, AccountKept DEF InputInv
<1>9. CASE I!Destroy
  <2>1. /\ console' = "on" /\ devices' = <<>> /\ cells' = <<<<>>>> /\ head' = 0 /\ tail' = 0 /\ count' = 0
        /\ keys' = {} /\ locks' = {} /\ x' = 0 /\ bounded' = FALSE /\ missed' = FALSE /\ UNCHANGED lastId
        /\ opened' = [p \in Paths |-> opened[p] - Cardinality(On(p))]
    BY <1>9, SameCardinality DEF I!Destroy, On
  <2>2. DevicesInv'
    <3>1. opened' = [p \in Paths |-> 0]
      BY <1>1, <2>1, DevicesFinite DEF DevicesInv
    <3>2. Len(devices') = 0 /\ devices' \in Seq(Devices) /\ \A i \in 1 .. Len(devices') : FALSE
      BY <2>1, EmptySeq
    <3>3. ASSUME NEW p \in Paths PROVE opened'[p] = Cardinality(On(p)')
      <4>1. On(p)' = {}
        BY <3>2 DEF On
      <4> QED BY <3>1, <4>1, FS_EmptySet
    <3>4. lastId' \in Nat /\ opened' \in [Paths -> Int]
      BY <1>1, <2>1, <3>1 DEF DevicesInv
    <3> QED BY <3>2, <3>3, <3>4 DEF DevicesInv
  <2>3. RingInv'
    <3>1. <<<<>>>> \in Seq(Events) /\ Len(<<<<>>>>) = 1
      BY DEF Events
    <3>2. (0 + 0) % 1 = 0
      BY Turns
    <3>3. missed' \in BOOLEAN
      BY <2>1, Zenon
    <3> QED BY <2>1, <3>1, <3>2, <3>3 DEF RingInv
  <2>4. StateInv'
    <3>1. bounded' \in BOOLEAN /\ (bounded' => x' \in 0 .. Wide - 1)
      BY <2>1, Zenon
    <3> QED BY <2>1, <3>1 DEF StateInv
  <2>5. Account'
    BY <2>1 DEF Account, I!Alive
  <2> QED BY <2>2, <2>3, <2>4, <2>5 DEF InputInv
<1> QED BY <1>2, <1>3, <1>4, <1>5, <1>6, <1>7, <1>8, <1>9 DEF I!Next

LEMMA InputIsSafe == ASSUME InputInv PROVE I!EventsTellAll /\ I!PointerInside /\ I!OpenWhileListed
<1>1. I!EventsTellAll
  <2> SUFFICES ASSUME I!Alive, ~ missed
               PROVE  /\ I!Knowing.keys = keys /\ I!Knowing.locks = locks /\ I!Knowing.devices = I!Ids
                      /\ ~ bounded => I!Knowing.x = x
    BY DEF I!EventsTellAll
  <2>1. PICK f : Follows(f) /\ Knows(f[count])
    BY DEF InputInv, Account
  <2>2. I!Knowing = f[count]
    BY <2>1, KnowingIs, Cells DEF InputInv, RingInv, CellFacts
  <2> QED BY <2>1, <2>2 DEF Knows
<1>2. I!PointerInside
  BY DEF InputInv, StateInv, I!PointerInside
<1>3. I!OpenWhileListed
  <2>1. \A p \in Paths : opened[p] = I!Cardinality(On(p))
    BY SameCardinality DEF InputInv, DevicesInv
  <2> QED BY <2>1 DEF I!OpenWhileListed, On
<1> QED BY <1>1, <1>2, <1>3
-----------------------------------------------------------------------------
(* Types of objects, probe and input *)

LEMMA CallsAre == ASSUME NEW k \in Kinds PROVE Len(O!Ladder[k]) <= 6 /\ k \in DOMAIN O!Ladder
<1>1. /\ Len(O!Ladder["device"]) = 3 /\ Len(O!Ladder["dumbBuffer"]) = 4 /\ Len(O!Ladder["dumbImage"]) = 4
  BY DEF O!Ladder, O!OpenCalls, O!DumbCalls
<1>2. /\ Len(O!Ladder["gemBuffer"]) = 4 /\ Len(O!Ladder["gemImage"]) = 4 /\ Len(O!Ladder["screen"]) = 4
  BY DEF O!Ladder, O!GemBufferCalls, O!GemImageCalls, O!ScreenCalls
<1>3. /\ Len(O!Ladder["fbdev"]) = 6 /\ Len(O!Ladder["probe"]) = 3 /\ Len(O!Ladder["display"]) = 6
  BY DEF O!Ladder, O!FbdevCalls, O!ProbeCalls, O!DisplayCalls
<1>4. /\ Len(O!Ladder["terminal"]) = 4 /\ Len(O!Ladder["newMode"]) = 4
  BY DEF O!Ladder, O!TerminalCalls, O!ModeCalls
<1>5. k \in DOMAIN O!Ladder
  BY DEF O!Ladder, Kinds
<1>6. \/ Len(O!Ladder[k]) = 3 \/ Len(O!Ladder[k]) = 4 \/ Len(O!Ladder[k]) = 6
  BY <1>1, <1>2, <1>3, <1>4, Zenon DEF Kinds
<1>7. Len(O!Ladder[k]) <= 6
  <2>1. \A n : n = 3 \/ n = 4 \/ n = 6 => n <= 6
    OBVIOUS
  <2> QED BY <1>6, <2>1, Zenon
<1> QED BY <1>5, <1>7, Zenon

LEMMA TakenResources ==
    ASSUME NEW k \in Kinds, NEW n \in 0 .. Len(O!Ladder[k])
    PROVE  Taken(k, n) \subseteq O!Resources
<1>1. O!Ladder[k] \in Seq(Things) /\ k \in DOMAIN O!Ladder
  BY AllBalanced, CallsAre DEF Balanced
<1>2. \A i \in 1 .. n : O!Ladder[k][i] \in O!ToSet(O!Ladder[k])
  BY <1>1 DEF O!ToSet
<1>3. ASSUME NEW a \in Taken(k, n) PROVE a \in O!Resources
  <2>1. a \in O!ToSet(O!Ladder[k]) /\ a \notin O!Question
    BY <1>2 DEF Taken
  <2> QED BY <1>1, <2>1, Zenon DEF O!Resources
<1> QED BY <1>3

ObjectValues ==
    /\ driver \in {"none", "dumb", "i915"}
    /\ \A k \in Kinds : held[k] \subseteq O!Resources /\ calls[k] <= Len(O!Ladder[k])

LEMMA ValuesInit == O!Init => ObjectValues
<1> SUFFICES ASSUME O!Init PROVE ObjectValues
  OBVIOUS
<1>1. \A k \in Kinds : Len(O!Ladder[k]) \in Nat
  BY TakenThings
<1>2. driver = "none" /\ held = [k \in Kinds |-> {}] /\ calls = [k \in Kinds |-> 0]
  BY DEF O!Init, Kinds
<1> QED BY <1>1, <1>2 DEF ObjectValues

LEMMA ValuesStep == ASSUME ObjectsInv, ObjectValues, O!Next PROVE ObjectValues'
<1>1. PICK k \in Kinds : \/ O!Create(k) \/ O!Complete(k) \/ O!CallWorks(k) \/ O!CallFails(k)
                         \/ O!Destroy(k) \/ O!GiveBack(k) \/ O!Gone(k)
  BY DEF O!Next, Kinds
<1>2. /\ held \in [Kinds -> SUBSET Things] /\ calls \in [Kinds -> Nat]
      /\ \A j \in Kinds : held[j] \subseteq O!Resources /\ calls[j] <= Len(O!Ladder[j])
      /\ driver \in {"none", "dumb", "i915"}
  BY DEF ObjectsInv, ObjectTypes, ObjectValues
<1>3. \A j \in Kinds : Len(O!Ladder[j]) \in Nat
  BY TakenThings
<1>4. driver' \in {"none", "dumb", "i915"}
  BY <1>1, <1>2 DEF O!Create, O!Complete, O!CallWorks, O!CallFails, O!Destroy, O!GiveBack, O!Gone
<1>5. CASE UNCHANGED <<held, calls>>
  BY <1>2, <1>4, <1>5 DEF ObjectValues
<1>6. CASE O!CallWorks(k)
  <2>1. /\ progress[k] = "making" /\ calls[k] < Len(O!Ladder[k])
        /\ held' = [held EXCEPT ![k] = @ \cup ({O!Ladder[k][calls[k] + 1]} \ O!Question)]
        /\ calls' = [calls EXCEPT ![k] = @ + 1]
    BY <1>6 DEF O!CallWorks
  <2>2. Taken(k, calls[k] + 1) \subseteq O!Resources
    BY <1>2, <1>3, <2>1, TakenResources
  <2>3. {O!Ladder[k][calls[k] + 1]} \ O!Question \subseteq Taken(k, calls[k] + 1)
    BY <1>2 DEF Taken
  <2> QED BY <1>2, <1>3, <1>4, <2>1, <2>2, <2>3 DEF ObjectValues
<1>7. CASE O!GiveBack(k)
  <2>1. held' = [held EXCEPT ![k] = @ \ {Head(undoing[k])}] /\ calls' = calls
    BY <1>7 DEF O!GiveBack
  <2> QED BY <1>2, <1>4, <2>1 DEF ObjectValues
<1>8. CASE O!Gone(k)
  <2>1. held' = held /\ calls' = [calls EXCEPT ![k] = 0]
    BY <1>8 DEF O!Gone
  <2> QED BY <1>2, <1>3, <1>4, <2>1 DEF ObjectValues
<1>9. O!Create(k) \/ O!Complete(k) \/ O!CallFails(k) \/ O!Destroy(k) => UNCHANGED <<held, calls>>
  BY DEF O!Create, O!Complete, O!CallFails, O!Destroy
<1> QED BY <1>1, <1>5, <1>6, <1>7, <1>8, <1>9

LEMMA ObjectTypesHold == ASSUME ObjectsInv, ObjectValues PROVE O!TypeOK
<1>1. /\ held \in [Kinds -> SUBSET Things] /\ progress \in [Kinds -> Places] /\ calls \in [Kinds -> Nat]
  BY DEF ObjectsInv, ObjectTypes
<1>2. \A k \in Kinds : Len(O!Ladder[k]) \in Nat /\ Len(O!Ladder[k]) <= 6
  BY TakenThings, CallsAre
<1>3. held \in [Kinds -> SUBSET O!Resources] /\ calls \in [Kinds -> 0 .. 6]
  BY <1>1, <1>2 DEF ObjectValues
<1> QED BY <1>1, <1>3 DEF O!TypeOK, ObjectValues, Kinds, Places

\* Each display that is counted is a connector asked before the next one.
ProbeValues ==
    /\ card \in 0 .. Cards /\ (stage # "card" => card < Cards)
    /\ stage \in {"card", "list", "ask", "fill", "score"}
    /\ there \in P!Lists /\ next \in Nat /\ counted \in 0 .. MaxConnectors
    /\ stage \in {"list", "ask", "fill"} => counted < next /\ next <= Len(there) + 1
    /\ stage = "fill" => next <= Len(there)

LEMMA ListsAre == ASSUME NEW some \in P!Lists PROVE Len(some) \in 0 .. MaxConnectors
BY ProbeAssumption DEF P!Lists

LEMMA NoneListed == <<>> \in P!Lists
<1>1. <<>> \in [1 .. 0 -> BOOLEAN]
  OBVIOUS
<1> QED BY <1>1, ProbeAssumption DEF P!Lists

LEMMA ProbeValuesInit == P!Init => ProbeValues
BY NoneListed, ProbeAssumption DEF P!Init, ProbeValues

LEMMA ProbeValuesStep == ASSUME ProbeValues, P!Next PROVE ProbeValues'
<1>1. /\ card \in 0 .. Cards /\ (stage # "card" => card < Cards)
      /\ there \in P!Lists /\ next \in Nat /\ counted \in 0 .. MaxConnectors
      /\ stage \in {"list", "ask", "fill"} => counted < next /\ next <= Len(there) + 1
      /\ stage = "fill" => next <= Len(there)
      /\ Len(there) \in 0 .. MaxConnectors /\ Cards \in Nat /\ MaxConnectors \in Nat
  BY ListsAre, ProbeAssumption DEF ProbeValues
<1>2. CASE P!Unreadable
  BY <1>1, <1>2 DEF P!Unreadable, ProbeValues
<1>3. CASE P!AskLength
  <2>1. Len(there') \in 0 .. MaxConnectors
    BY <1>3, ListsAre DEF P!AskLength
  <2> QED BY <1>1, <1>3, <2>1 DEF P!AskLength, ProbeValues
<1>4. CASE P!FillList
  BY <1>1, <1>4 DEF P!FillList, ProbeValues
<1>5. CASE P!AskConnector
  BY <1>1, <1>5 DEF P!AskConnector, ProbeValues
<1>6. CASE P!FillConnector
  BY <1>1, <1>6 DEF P!FillConnector, ProbeValues
<1>7. CASE P!Score
  BY <1>1, <1>7, NoneListed DEF P!Score, ProbeValues
<1> QED BY <1>2, <1>3, <1>4, <1>5, <1>6, <1>7 DEF P!Next

LEMMA InputTypes == ASSUME InputInv, console \in {"on", "off"} PROVE I!TypeOK
<1>1. Len(cells) \in Nat \ {0} /\ head \in 0 .. Len(cells) - 1 /\ count \in 0 .. Len(cells)
  BY DEF InputInv, RingInv
<1>2. tail \in 0 .. Len(cells) - 1
  BY <1>1 DEF InputInv, RingInv
<1> QED BY <1>1, <1>2 DEF I!TypeOK, I!Capacity, InputInv, StateInv

ConsoleOK == console \in {"on", "off"}
LEMMA ConsoleStep == ASSUME ConsoleOK, I!Next PROVE ConsoleOK'
BY DEF ConsoleOK, I!Next, I!AddDevice, I!RemoveDevice, I!Moves, I!Key, I!Pop, I!Flush, I!SetBounds, I!Destroy

-----------------------------------------------------------------------------
(* Objects, probe and input together *)

DevicesInvariant == ObjectsInv /\ ProbeInv /\ InputInv

\* A part that does not run keeps its invariant.
LEMMA ObjectsStay == ASSUME ObjectsInv, UNCHANGED objectsVars PROVE ObjectsInv'
<1>1. UNCHANGED <<driver, held, progress, calls, undoing>>
  BY DEF objectsVars
<1> QED BY <1>1 DEF ObjectsInv, ObjectTypes, Nested, ObjectOK

LEMMA ProbeStays == ASSUME ProbeInv, UNCHANGED probeVars PROVE ProbeInv'
BY DEF probeVars, ProbeInv

LEMMA InputStays == ASSUME InputInv, UNCHANGED inputVars PROVE InputInv'
<1>1. /\ UNCHANGED <<devices, lastId, cells, head, tail, count, keys, locks, x, bounded, console, opened, told, missed>>
      /\ I!queue' = I!queue
  BY DEF inputVars, I!queue
<1>2. RingInv' /\ DevicesInv' /\ StateInv'
  BY <1>1 DEF InputInv, RingInv, DevicesInv, On, StateInv
<1>3. I!Ids' = I!Ids
  BY <1>1 DEF I!Ids
<1>4. \A k : Knows(k) => Knows(k)'
  BY <1>1, <1>3 DEF Knows
<1>5. Account'
  BY <1>1, <1>4, AccountKept DEF InputInv
<1> QED BY <1>2, <1>5 DEF InputInv

LEMMA DevicesStep == ASSUME DevicesInvariant, [Next]_vars PROVE DevicesInvariant'
<1>1. ObjectsInv /\ ProbeInv /\ InputInv
  BY DEF DevicesInvariant
<1>2. CASE O!Next /\ UNCHANGED <<probeVars, inputVars>>
  BY <1>1, <1>2, ObjectsStep, ProbeStays, InputStays DEF DevicesInvariant
<1>3. CASE P!Next /\ UNCHANGED <<objectsVars, inputVars>>
  BY <1>1, <1>3, ProbeStep, ObjectsStay, InputStays DEF DevicesInvariant
<1>4. CASE I!Next /\ UNCHANGED <<objectsVars, probeVars>>
  BY <1>1, <1>4, InputStep, ObjectsStay, ProbeStays DEF DevicesInvariant
<1>5. CASE UNCHANGED <<objectsVars, probeVars, inputVars>>
  BY <1>1, <1>5, ObjectsStay, ProbeStays, InputStays DEF DevicesInvariant
<1>6. Next \/ UNCHANGED vars
  OBVIOUS
<1> QED BY <1>2, <1>3, <1>4, <1>5, <1>6 DEF Next, vars

\* DevicesSafe: what objects take from the kernel is given back once, in order
\* and without a rest, on every way out of a creation and by every destroy
\* (drm_device.c, drm_image.c, screen.c, fbdev.c, drm_probe.c); the card that
\* is recommended is the first of the best (drm_probe.c); who follows the
\* events of input knows its state, the pointer is inside its bounds and
\* each device is open exactly while it is listed (input.c, evdev.c), for
\* rings, bounds, steps and devices of any size and number.
THEOREM DevicesAreSafe == Spec => []DevicesSafe
<1>1. Init => DevicesInvariant
  BY ObjectsInit, ProbeInit, InputInit DEF Init, DevicesInvariant
<1>2. DevicesInvariant /\ [Next]_vars => DevicesInvariant'
  BY DevicesStep
<1>3. DevicesInvariant => DevicesSafe
  <2> SUFFICES ASSUME DevicesInvariant PROVE DevicesSafe
    OBVIOUS
  <2>1. ObjectsSafe /\ P!BestRecommended /\ I!EventsTellAll /\ I!PointerInside /\ I!OpenWhileListed
    BY ObjectsAreSafe, ProbeIsSafe, InputIsSafe DEF DevicesInvariant
  <2> QED BY <2>1 DEF DevicesSafe, ObjectsSafe
<1> QED BY <1>1, <1>2, <1>3, PTL DEF Spec

-----------------------------------------------------------------------------
(* Counting up *)

\* What holds of 0 and is carried from each number to the next holds up to n.
LEMMA Climb ==
    ASSUME NEW n \in Nat, NEW Bad, Bad \subseteq 0 .. n, 0 \notin Bad,
           \A m \in 1 .. n : m \in Bad => m - 1 \in Bad
    PROVE  Bad = {}
<1> DEFINE Less == {ss \in Nat \X Nat : ss[1] < ss[2]}
<1> SUFFICES ASSUME Bad # {} PROVE FALSE
  OBVIOUS
<1>1. IsWellFoundedOn(Less, Nat)
  BY NatLessThanWellFounded, Zenon DEF OpToRel
<1>2. Bad \subseteq Nat
  OBVIOUS
<1>3. PICK b \in Bad : \A m \in Bad : <<m, b>> \notin Less
  <2> HIDE DEF Less
  <2> QED BY <1>1, <1>2, WFMin
<1>4. b \in 1 .. n
  OBVIOUS
<1>5. b - 1 \in Bad /\ <<b - 1, b>> \in Less
  BY <1>4
<1> QED BY <1>3, <1>5

\* A place in rows of w is given by its row and its column, and they by it.
LEMMA Monotone ==
    ASSUME NEW a \in Int, NEW b \in Int, NEW w \in Nat, a <= b
    PROVE  a * w <= b * w
<1>1. (b - a) * w >= 0
  <2>1. PICK d \in Nat : d = b - a
    OBVIOUS
  <2>2. d * w >= 0
    OBVIOUS
  <2> QED BY <2>1, <2>2
<1>2. (b - a) * w = b * w - a * w
  OBVIOUS
<1>3. a * w \in Int /\ b * w \in Int
  OBVIOUS
<1> QED BY <1>1, <1>2, <1>3
LEMMA RowAndColumn ==
    ASSUME NEW w \in Nat \ {0}, NEW q \in Int, NEW r \in 0 .. w - 1
    PROVE  (q * w + r) \div w = q /\ (q * w + r) % w = r
OBVIOUS
-----------------------------------------------------------------------------
(* Command buffers and the context *)

Drawable == Inks \cup {"blank", "shaded", "vertex"}
Pictures == [C!Pixels -> Drawable]
SubmitInv ==
    /\ list \in Seq(C!Commands) /\ Len(list) <= MaxCommands /\ slots \in Nat /\ Len(list) <= slots
    /\ index \in [1 .. Indices -> IndexValues \cup {0}] /\ scissor \in SUBSET C!Pixels
    /\ picture \in Pictures /\ read \subseteq 0 .. Vertices - 1

CommandOk(op) ==
    \/ op.kind = "fill" /\ op.area \in SUBSET C!Pixels /\ op.colour \in Inks
    \/ op.kind = "shade" /\ op.area \in SUBSET C!Pixels /\ op.colour = "shaded"
    \/ op.kind = "scissor" /\ op.area \in SUBSET C!Pixels
    \/ /\ op.kind = "draw" /\ op.indexed \in BOOLEAN
       /\ op.from \in Nat /\ op.count \in Nat /\ op.first \in Nat /\ op.many \in Nat

LEMMA CommandsOk == ASSUME NEW op \in C!Commands PROVE CommandOk(op)
<1>1. CASE \E a \in Areas, c \in Inks : op = C!Fill(a, c)
  BY <1>1, SubmitAssumption DEF C!Fill, CommandOk, C!Pixels
<1>2. CASE \E a \in Areas : op = C!Shade(a)
  BY <1>2, SubmitAssumption DEF C!Shade, CommandOk, C!Pixels
<1>3. CASE \E a \in Areas : op = C!Scissor(a)
  BY <1>3, SubmitAssumption DEF C!Scissor, CommandOk, C!Pixels
<1>4. CASE op \in C!Draws
  <2>1. PICK f \in 0 .. Vertices, n \in 0 .. Vertices, ix \in BOOLEAN, g \in {0}, k \in 0 .. Indices :
            op = C!Draw(f, n, ix, g, k)
    BY <1>4 DEF C!Draws
  <2>2. f \in Nat /\ n \in Nat /\ k \in Nat /\ g \in Nat
    BY <2>1, SubmitAssumption
  <2> QED BY <2>1, <2>2 DEF C!Draw, CommandOk
<1> QED BY <1>1, <1>2, <1>3, <1>4 DEF C!Commands

\* The vertices of an accepted draw are in the buffer.
LEMMA AcceptedInside ==
    ASSUME index \in [1 .. Indices -> IndexValues \cup {0}], NEW op, CommandOk(op), op.kind = "draw", C!Accepted(op)
    PROVE  {op.from + u : u \in C!Used(op)} \subseteq 0 .. Vertices - 1
<1>1. Vertices \in Nat /\ op.from \in Nat /\ op.count \in Nat /\ op.from <= Vertices /\ op.count <= Vertices - op.from
  BY SubmitAssumption DEF CommandOk, C!Accepted, C!RangeOk
<1>2. ASSUME NEW u \in C!Used(op) PROVE u \in Nat /\ u < op.count
  <2>1. CASE op.indexed
    <3>1. u < op.count
      BY <1>2, <2>1 DEF C!Accepted
    <3>2. PICK i \in op.first + 1 .. op.first + op.many : u = index[i]
      BY <1>2, <2>1 DEF C!Used
    <3>3. op.first \in Nat /\ op.many \in Nat /\ Indices \in Nat /\ op.first <= Indices /\ op.many <= Indices - op.first
      BY <2>1, SubmitAssumption DEF CommandOk, C!Accepted, C!RangeOk
    <3>4. i \in 1 .. Indices
      BY <3>3
    <3>5. u \in Nat
      BY <3>2, <3>4, SubmitAssumption
    <3> QED BY <3>1, <3>5
  <2>2. CASE ~ op.indexed
    BY <1>1, <1>2, <2>2 DEF C!Used
  <2> QED BY <2>1, <2>2
<1> QED BY <1>1, <1>2

-----------------------------------------------------------------------------
(* What a submit goes through *)

States == [picture : Pictures, scissor : SUBSET C!Pixels, read : SUBSET (0 .. Vertices - 1), ok : BOOLEAN]

LEMMA PutTypes ==
    ASSUME NEW pic \in Pictures, NEW a, NEW c \in Drawable, NEW limit
    PROVE  C!Put(pic, a, c, limit) \in Pictures
BY DEF C!Put, Pictures

\* What one command makes of a state, case by case
LEMMA Executed ==
    ASSUME index \in [1 .. Indices -> IndexValues \cup {0}], NEW s \in States, NEW op, CommandOk(op)
    PROVE  /\ C!Execute(s, op) \in States
           /\ ~ s.ok => C!Execute(s, op) = s
           /\ s.ok /\ op.kind = "fill" =>
                /\ C!Execute(s, op).ok /\ C!Execute(s, op).scissor = s.scissor
                /\ C!Execute(s, op).picture = C!Put(s.picture, op.area, op.colour, s.scissor)
           /\ s.ok /\ op.kind = "shade" =>
                /\ C!Execute(s, op).ok /\ C!Execute(s, op).scissor = s.scissor
                /\ C!Execute(s, op).picture = C!Put(s.picture, op.area, op.colour, C!Pixels)
           /\ s.ok /\ op.kind = "scissor" =>
                /\ C!Execute(s, op).ok /\ C!Execute(s, op).scissor = op.area
                /\ C!Execute(s, op).picture = s.picture
           /\ s.ok /\ op.kind = "draw" /\ ~ C!Accepted(op) =>
                ~ C!Execute(s, op).ok /\ C!Execute(s, op).picture = s.picture
           /\ s.ok /\ op.kind = "draw" /\ C!Accepted(op) =>
                /\ C!Execute(s, op).ok /\ C!Execute(s, op).scissor = s.scissor
                /\ C!Execute(s, op).picture = C!Put(s.picture, {op.from + u : u \in C!Used(op)}, "vertex", s.scissor)
<1> DEFINE e == C!Execute(s, op)
<1>1. CASE ~ s.ok
  <2>1. e = s
    BY <1>1 DEF C!Execute
  <2> HIDE DEF e
  <2> QED BY <1>1, <2>1 DEF e
<1>2. CASE s.ok /\ op.kind = "fill"
  <2>1. e = [s EXCEPT !.picture = C!Put(s.picture, op.area, op.colour, s.scissor)]
    BY <1>2 DEF C!Execute
  <2>2. C!Put(s.picture, op.area, op.colour, s.scissor) \in Pictures
    BY <1>2, PutTypes DEF CommandOk, States, Drawable
  <2> HIDE DEF e
  <2>3. e \in States /\ e.ok /\ e.scissor = s.scissor /\ e.picture = C!Put(s.picture, op.area, op.colour, s.scissor)
    BY <1>2, <2>1, <2>2 DEF States
  <2> QED BY <1>2, <2>3 DEF e
<1>3. CASE s.ok /\ op.kind = "shade"
  <2>1. e = [s EXCEPT !.picture = C!Put(s.picture, op.area, op.colour, C!Pixels)]
    BY <1>3 DEF C!Execute
  <2>2. C!Put(s.picture, op.area, op.colour, C!Pixels) \in Pictures
    BY <1>3, PutTypes DEF CommandOk, States, Drawable
  <2> HIDE DEF e
  <2>3. e \in States /\ e.ok /\ e.scissor = s.scissor /\ e.picture = C!Put(s.picture, op.area, op.colour, C!Pixels)
    BY <1>3, <2>1, <2>2 DEF States
  <2> QED BY <1>3, <2>3 DEF e
<1>4. CASE s.ok /\ op.kind = "scissor"
  <2>1. e = [s EXCEPT !.scissor = op.area]
    BY <1>4 DEF C!Execute
  <2> HIDE DEF e
  <2>2. op.area \in SUBSET C!Pixels
    BY <1>4 DEF CommandOk
  <2>3. e \in States /\ e.ok /\ e.scissor = op.area /\ e.picture = s.picture
    BY <1>4, <2>1, <2>2 DEF States
  <2> QED BY <1>4, <2>3 DEF e
<1>5. CASE s.ok /\ op.kind = "draw" /\ ~ C!Accepted(op)
  <2>1. e = [s EXCEPT !.ok = FALSE]
    BY <1>5 DEF C!Execute
  <2> HIDE DEF e
  <2>2. e \in States /\ ~ e.ok /\ e.picture = s.picture
    BY <1>5, <2>1 DEF States
  <2> QED BY <1>5, <2>2 DEF e
<1>6. CASE s.ok /\ op.kind = "draw" /\ C!Accepted(op)
  <2> DEFINE seen == {op.from + u : u \in C!Used(op)}
  <2>1. e = [s EXCEPT !.picture = C!Put(s.picture, seen, "vertex", s.scissor), !.read = s.read \cup seen]
    BY <1>6 DEF C!Execute
  <2>2. C!Put(s.picture, seen, "vertex", s.scissor) \in Pictures
    BY <1>6, PutTypes DEF States, Drawable
  <2>3. seen \subseteq 0 .. Vertices - 1
    BY <1>6, AcceptedInside
  <2> HIDE DEF e, seen
  <2>4. e \in States /\ e.ok /\ e.scissor = s.scissor /\ e.picture = C!Put(s.picture, seen, "vertex", s.scissor)
    BY <1>6, <2>1, <2>2, <2>3 DEF States
  <2> QED BY <1>6, <2>4 DEF e, seen
<1> QED BY <1>1, <1>2, <1>3, <1>4, <1>5, <1>6 DEF CommandOk

\* The submit as a function: there is one, and its states are States.
LEMMA Ran ==
    ASSUME SubmitInv
    PROVE  /\ C!Run \in [0 .. Len(list) -> States] /\ C!Run[0] = C!DefaultState
           /\ \A n \in 1 .. Len(list) : C!Run[n] = C!Execute(C!Run[n - 1], list[n])
<1>1. Len(list) \in Nat /\ index \in [1 .. Indices -> IndexValues \cup {0}]
  BY DEF SubmitInv
<1>2. \A n \in 1 .. Len(list) : CommandOk(list[n])
  BY CommandsOk DEF SubmitInv
<1>3. C!DefaultState \in States
  BY DEF SubmitInv, C!DefaultState, States
<1> DEFINE N == Len(list)
           Goes(f, m) == /\ f \in [0 .. m -> States] /\ f[0] = C!DefaultState
                         /\ \A n \in 1 .. m : f[n] = C!Execute(f[n - 1], list[n])
           Bad == {m \in 0 .. N : ~ \E f : Goes(f, m)}
           After(h) == h = [n \in 0 .. N |-> IF n = 0 THEN C!DefaultState ELSE C!Execute(h[n - 1], list[n])]
<1>4. 0 \notin Bad
  <2>1. Goes([n \in 0 .. 0 |-> C!DefaultState], 0)
    BY <1>3
  <2> QED BY <2>1
<1>5. ASSUME NEW m \in 1 .. N, m - 1 \notin Bad PROVE m \notin Bad
  <2>1. m - 1 \in 0 .. N /\ m \in Nat
    BY <1>1
  <2>2. PICK f : Goes(f, m - 1)
    BY <1>5, <2>1
  <2>3. f[m - 1] \in States
    BY <2>1, <2>2
  <2>4. PICK s : s = C!Execute(f[m - 1], list[m])
    OBVIOUS
  <2>5. s \in States
    BY <1>1, <1>2, <1>5, <2>3, <2>4, Executed
  <2> DEFINE g == [n \in 0 .. m |-> IF n = m THEN s ELSE f[n]]
  <2>6. g \in [0 .. m -> States] /\ g[0] = C!DefaultState /\ g[m] = s
    BY <1>5, <2>1, <2>2, <2>5
  <2>7. \A n \in 0 .. m - 1 : g[n] = f[n]
    BY <2>1
  <2> HIDE DEF g
  <2>8. ASSUME NEW n \in 1 .. m PROVE g[n] = C!Execute(g[n - 1], list[n])
    <3>1. n - 1 \in 0 .. m - 1 /\ (n = m \/ n \in 1 .. m - 1)
      BY <2>1, <2>8
    <3>2. g[n - 1] = f[n - 1]
      BY <2>7, <3>1
    <3>3. CASE n = m
      BY <2>4, <2>6, <3>2, <3>3
    <3>4. CASE n \in 1 .. m - 1
      BY <2>2, <2>7, <3>2, <3>4
    <3> QED BY <3>1, <3>3, <3>4
  <2>9. Goes(g, m)
    BY <2>6, <2>8
  <2> QED BY <2>9
<1>6. Bad = {}
  <2> HIDE DEF Goes
  <2>1. Bad \subseteq 0 .. N
    OBVIOUS
  <2> HIDE DEF Bad
  <2> QED BY <1>1, <1>4, <1>5, <2>1, Climb
<1>7. PICK f : Goes(f, N)
  <2>1. N \in 0 .. N
    BY <1>1
  <2> HIDE DEF Goes
  <2> QED BY <1>6, <2>1
<1>8. After(f)
  BY <1>1, <1>7
<1> DEFINE r == CHOOSE h : After(h)
<1>9. After(r)
  BY <1>8
<1>10. C!Run = r
  BY DEF C!Run
<1> HIDE DEF r
<1>11. r[0] = C!DefaultState /\ \A n \in 1 .. N : r[n] = C!Execute(r[n - 1], list[n])
  BY <1>1, <1>9
<1>12. DOMAIN r = 0 .. N /\ r = [n \in 0 .. N |-> r[n]]
  BY <1>9
<1>13. \A n \in 0 .. N : r[n] = f[n]
  <2> DEFINE Wrong == {m \in 0 .. N : r[m] # f[m]}
  <2>1. 0 \notin Wrong
    BY <1>7, <1>11
  <2>2. ASSUME NEW m \in 1 .. N, m - 1 \notin Wrong PROVE m \notin Wrong
    <3>1. m - 1 \in 0 .. N
      BY <1>1
    <3>2. r[m - 1] = f[m - 1]
      BY <2>2, <3>1
    <3> QED BY <1>7, <1>11, <2>2, <3>2
  <2>3. Wrong \subseteq 0 .. N
    OBVIOUS
  <2>4. Wrong = {}
    <3> HIDE DEF Wrong
    <3> QED BY <1>1, <2>1, <2>2, <2>3, Climb
  <2> QED BY <2>4
<1>14. r \in [0 .. N -> States]
  <2>1. \A n \in 0 .. N : f[n] \in States
    BY <1>7
  <2> QED BY <1>12, <1>13, <2>1
<1> QED BY <1>10, <1>11, <1>14

-----------------------------------------------------------------------------
(* What it paints *)

\* The scissor that holds for the command after the first n
Limit(n) == C!Within(n + 1)

LEMMA Limits ==
    ASSUME SubmitInv, NEW n \in 1 .. Len(list)
    PROVE  /\ Limit(0) = C!Pixels
           /\ list[n].kind = "scissor" => Limit(n) = list[n].area
           /\ list[n].kind # "scissor" => Limit(n) = Limit(n - 1)
<1>1. Len(list) \in Nat
  BY DEF SubmitInv
<1> DEFINE set(m) == {j \in 1 .. m : list[j].kind = "scissor"}
           last(m) == CHOOSE j \in set(m) : \A k \in set(m) : k <= j
<1>2. ASSUME NEW m \in Nat PROVE Limit(m) = IF set(m) = {} THEN C!Pixels ELSE list[last(m)].area
  <2>1. (m + 1) - 1 = m
    OBVIOUS
  <2> QED BY <2>1 DEF Limit, C!Within
<1>3. Limit(0) = C!Pixels
  <2>1. set(0) = {}
    OBVIOUS
  <2> QED BY <1>2, <2>1
<1>4. n \in Nat /\ n - 1 \in Nat
  BY <1>1
<1>5. CASE list[n].kind = "scissor"
  <2>1. n \in set(n) /\ \A k \in set(n) : k <= n /\ k \in Nat
    BY <1>4, <1>5
  <2>2. last(n) \in set(n) /\ \A k \in set(n) : k <= last(n)
    BY <2>1
  <2> HIDE DEF last
  <2>3. last(n) = n
    BY <2>1, <2>2, <1>4
  <2>4. set(n) # {}
    BY <2>1
  <2> QED BY <1>2, <1>3, <1>4, <1>5, <2>3, <2>4
<1>6. CASE list[n].kind # "scissor"
  <2>1. set(n) = set(n - 1)
    <3>1. ASSUME NEW j \in set(n) PROVE j \in set(n - 1)
      <4>1. j # n
        BY <1>6, <3>1
      <4> QED BY <1>4, <3>1, <4>1
    <3>2. ASSUME NEW j \in set(n - 1) PROVE j \in set(n)
      BY <1>4, <3>2
    <3> HIDE DEF set
    <3>3. set(n) \subseteq set(n - 1) /\ set(n - 1) \subseteq set(n)
      BY <3>1, <3>2
    <3> QED BY <3>3
  <2>2. last(n) = last(n - 1)
    BY <2>1
  <2> HIDE DEF last, set
  <2> QED BY <1>2, <1>3, <1>4, <1>6, <2>1, <2>2
<1> QED BY <1>3, <1>5, <1>6

\* What the first n commands leave of pixel p
OverBy(n, p) == {i \in 1 .. n : C!Done(i) /\ p \in C!Covered(i)}
Left(n, p) ==
    IF OverBy(n, p) = {} THEN picture[p]
    ELSE C!Colour(CHOOSE i \in OverBy(n, p) : \A j \in OverBy(n, p) : j <= i)

LEMMA LeftBy ==
    ASSUME NEW n \in Nat \ {0}, NEW p
    PROVE  /\ Left(0, p) = picture[p]
           /\ C!Done(n) /\ p \in C!Covered(n) => Left(n, p) = C!Colour(n)
           /\ ~ (C!Done(n) /\ p \in C!Covered(n)) => Left(n, p) = Left(n - 1, p)
<1>1. Left(0, p) = picture[p]
  <2>1. OverBy(0, p) = {}
    BY DEF OverBy
  <2> QED BY <2>1 DEF Left
<1>2. CASE C!Done(n) /\ p \in C!Covered(n)
  <2> DEFINE set == OverBy(n, p)
             last == CHOOSE i \in set : \A j \in set : j <= i
  <2>1. n \in set /\ \A j \in set : j <= n /\ j \in Nat
    BY <1>2 DEF OverBy
  <2> HIDE DEF set
  <2>2. last \in set /\ \A j \in set : j <= last
    BY <2>1
  <2>3. Left(n, p) = C!Colour(last)
    BY <2>1 DEF Left, set
  <2> HIDE DEF last
  <2>4. last = n
    BY <2>1, <2>2
  <2> QED BY <1>1, <1>2, <2>3, <2>4
<1>3. CASE ~ (C!Done(n) /\ p \in C!Covered(n))
  <2>1. OverBy(n, p) = OverBy(n - 1, p)
    <3>1. ASSUME NEW i \in OverBy(n, p) PROVE i \in OverBy(n - 1, p)
      <4>1. i # n /\ i \in 1 .. n /\ C!Done(i) /\ p \in C!Covered(i)
        BY <1>3, <3>1 DEF OverBy
      <4>2. i \in 1 .. n - 1
        BY <4>1
      <4> QED BY <4>1, <4>2 DEF OverBy
    <3>2. ASSUME NEW i \in OverBy(n - 1, p) PROVE i \in OverBy(n, p)
      <4>1. i \in 1 .. n - 1 /\ C!Done(i) /\ p \in C!Covered(i)
        BY <3>2 DEF OverBy
      <4>2. i \in 1 .. n
        BY <4>1
      <4> QED BY <4>1, <4>2 DEF OverBy
    <3>3. OverBy(n, p) \subseteq OverBy(n - 1, p) /\ OverBy(n - 1, p) \subseteq OverBy(n, p)
      BY <3>1, <3>2
    <3> QED BY <3>3
  <2>2. Left(n, p) = Left(n - 1, p)
    BY <2>1 DEF Left
  <2> QED BY <1>1, <1>3, <2>2
<1> QED BY <1>1, <1>2, <1>3

\* After n commands: whether one was refused, the scissor, and the picture
Standing(n) ==
    /\ C!Run[n].ok <=> \A j \in C!Refused : n < j
    /\ C!Run[n].ok => C!Run[n].scissor = Limit(n)
    /\ \A p \in C!Pixels : C!Run[n].picture[p] = Left(n, p)

LEMMA StandingAfter ==
    ASSUME SubmitInv, NEW n \in 1 .. Len(list), Standing(n - 1)
    PROVE  Standing(n)
<1> DEFINE s == C!Run[n - 1]
           op == list[n]
           e == C!Run[n]
<1>1. Len(list) \in Nat /\ n - 1 \in 0 .. Len(list) /\ n \in Nat \ {0}
  BY DEF SubmitInv
<1>2. s \in States /\ e = C!Execute(s, op)
  BY <1>1, Ran
<1>3. CommandOk(op)
  BY CommandsOk DEF SubmitInv
<1>4. index \in [1 .. Indices -> IndexValues \cup {0}]
  BY DEF SubmitInv
<1>5. C!Refused \subseteq 1 .. Len(list) /\ (n \in C!Refused <=> op.kind = "draw" /\ ~ C!Accepted(op))
  BY DEF C!Refused
<1>6. C!Done(n) <=> \A j \in C!Refused : n < j
  BY DEF C!Done
<1>7. (\A j \in C!Refused : n < j) <=> (\A j \in C!Refused : n - 1 < j) /\ n \notin C!Refused
  BY <1>1, <1>5
<1>8. /\ s.ok <=> \A j \in C!Refused : n - 1 < j
      /\ s.ok => s.scissor = Limit(n - 1)
      /\ \A p \in C!Pixels : s.picture[p] = Left(n - 1, p)
  BY DEF Standing
<1>9. \A p : /\ C!Done(n) /\ p \in C!Covered(n) => Left(n, p) = C!Colour(n)
             /\ ~ (C!Done(n) /\ p \in C!Covered(n)) => Left(n, p) = Left(n - 1, p)
  BY <1>1, LeftBy
<1>10. /\ op.kind = "scissor" => Limit(n) = op.area
       /\ op.kind # "scissor" => Limit(n) = Limit(n - 1)
  BY Limits
<1>11. C!Within(n) = Limit(n - 1)
  BY <1>1 DEF Limit
<1>12. /\ op.kind = "fill" => C!Covered(n) = op.area \cap C!Within(n) /\ C!Colour(n) = op.colour
       /\ op.kind = "shade" => C!Covered(n) = op.area /\ C!Colour(n) = op.colour
       /\ op.kind = "scissor" => C!Covered(n) = {}
       /\ op.kind = "draw" => /\ C!Covered(n) = {op.from + u : u \in C!Used(op)} \cap C!Within(n)
                              /\ C!Colour(n) = "vertex"
  BY DEF C!Covered, C!Colour
<1>13. \A pic, a, c, limit : \A p \in C!Pixels :
         C!Put(pic, a, c, limit)[p] = IF p \in a \cap limit THEN c ELSE pic[p]
  BY DEF C!Put
<1> SUFFICES /\ e.ok <=> C!Done(n)
             /\ e.ok => e.scissor = Limit(n)
             /\ \A p \in C!Pixels : e.picture[p] = Left(n, p)
  BY <1>6 DEF Standing
<1> HIDE DEF s, op, e
<1>14. CASE ~ s.ok
  <2>1. e = s /\ ~ C!Done(n)
    BY <1>2, <1>3, <1>4, <1>6, <1>7, <1>8, <1>14, Executed
  <2> QED BY <1>8, <1>9, <1>14, <2>1
<1>15. CASE s.ok /\ op.kind = "fill"
  <2>1. e.ok /\ e.scissor = s.scissor /\ e.picture = C!Put(s.picture, op.area, op.colour, s.scissor)
    BY <1>2, <1>3, <1>4, <1>15, Executed
  <2>2. C!Done(n)
    BY <1>5, <1>6, <1>7, <1>8, <1>15
  <2> QED BY <1>8, <1>9, <1>10, <1>11, <1>12, <1>13, <1>15, <2>1, <2>2
<1>16. CASE s.ok /\ op.kind = "shade"
  <2>1. e.ok /\ e.scissor = s.scissor /\ e.picture = C!Put(s.picture, op.area, op.colour, C!Pixels)
    BY <1>2, <1>3, <1>4, <1>16, Executed
  <2>2. C!Done(n)
    BY <1>5, <1>6, <1>7, <1>8, <1>16
  <2>3. op.area \cap C!Pixels = op.area
    BY <1>3, <1>16 DEF CommandOk
  <2> QED BY <1>8, <1>9, <1>10, <1>12, <1>13, <1>16, <2>1, <2>2, <2>3
<1>17. CASE s.ok /\ op.kind = "scissor"
  <2>1. e.ok /\ e.scissor = op.area /\ e.picture = s.picture
    BY <1>2, <1>3, <1>4, <1>17, Executed
  <2>2. C!Done(n)
    BY <1>5, <1>6, <1>7, <1>8, <1>17
  <2> QED BY <1>8, <1>9, <1>10, <1>12, <1>17, <2>1, <2>2
<1>18. CASE s.ok /\ op.kind = "draw" /\ ~ C!Accepted(op)
  <2>1. ~ e.ok /\ e.picture = s.picture
    BY <1>2, <1>3, <1>4, <1>18, Executed
  <2>2. ~ C!Done(n)
    BY <1>5, <1>6, <1>7, <1>8, <1>18
  <2> QED BY <1>8, <1>9, <1>18, <2>1, <2>2
<1>19. CASE s.ok /\ op.kind = "draw" /\ C!Accepted(op)
  <2> DEFINE seen == {op.from + u : u \in C!Used(op)}
  <2>1. e.ok /\ e.scissor = s.scissor /\ e.picture = C!Put(s.picture, seen, "vertex", s.scissor)
    BY <1>2, <1>3, <1>4, <1>19, Executed
  <2>2. C!Done(n)
    BY <1>5, <1>6, <1>7, <1>8, <1>19
  <2>3. C!Covered(n) = seen \cap C!Within(n) /\ C!Colour(n) = "vertex"
    BY <1>12, <1>19
  <2> HIDE DEF seen
  <2> QED BY <1>8, <1>9, <1>10, <1>11, <1>13, <1>19, <2>1, <2>2, <2>3
<1> QED BY <1>3, <1>14, <1>15, <1>16, <1>17, <1>18, <1>19 DEF CommandOk

LEMMA StandingAlways == ASSUME SubmitInv, NEW n \in 0 .. Len(list) PROVE Standing(n)
<1> DEFINE Bad == {m \in 0 .. Len(list) : ~ Standing(m)}
<1>1. Len(list) \in Nat
  BY DEF SubmitInv
<1>2. Standing(0)
  <2>1. C!Run[0] = C!DefaultState
    BY Ran
  <2>2. \A j \in C!Refused : 0 < j
    BY <1>1 DEF C!Refused
  <2>3. Limit(0) = C!Pixels
    <3>1. {j \in 1 .. (0 + 1) - 1 : list[j].kind = "scissor"} = {}
      OBVIOUS
    <3> QED BY <3>1 DEF Limit, C!Within
  <2>4. \A p : Left(0, p) = picture[p]
    BY LeftBy
  <2> QED BY <2>1, <2>2, <2>3, <2>4 DEF Standing, C!DefaultState
<1>3. 0 \notin Bad
  BY <1>2
<1>4. ASSUME NEW m \in 1 .. Len(list), m - 1 \notin Bad PROVE m \notin Bad
  <2>1. m - 1 \in 0 .. Len(list)
    BY <1>1
  <2> QED BY <1>4, <2>1, StandingAfter
<1>5. Bad = {}
  <2>1. Bad \subseteq 0 .. Len(list)
    OBVIOUS
  <2> HIDE DEF Bad
  <2> QED BY <1>1, <1>3, <1>4, <2>1, Climb
<1> QED BY <1>5

LEMMA SubmitIsSafe == ASSUME SubmitInv PROVE C!TypeOK /\ C!ListFits /\ C!ReadsInside /\ C!ListPaintsItsOwn
<1>1. Len(list) \in Nat /\ DOMAIN list = 1 .. Len(list)
  BY DEF SubmitInv
<1>2. C!ListPaintsItsOwn
  <2> SUFFICES ASSUME NEW p \in C!Pixels
               PROVE  C!Run[Len(list)].picture[p] =
                        IF C!Over(p) = {} THEN picture[p]
                        ELSE C!Colour(CHOOSE i \in C!Over(p) : \A j \in C!Over(p) : j <= i)
    BY DEF C!ListPaintsItsOwn
  <2>1. Standing(Len(list))
    BY <1>1, StandingAlways
  <2>2. C!Over(p) = OverBy(Len(list), p)
    BY DEF C!Over, OverBy
  <2> QED BY <2>1, <2>2 DEF Standing, Left
<1>3. C!TypeOK
  <2>1. C!Range(list) \subseteq C!Commands
    BY <1>1 DEF SubmitInv, C!Range
  <2>2. Len(list) \in 0 .. MaxCommands /\ read \subseteq Nat
    BY <1>1, SubmitAssumption DEF SubmitInv
  <2>3. picture \in [C!Pixels -> Inks \cup {"blank", "shaded", "vertex"}]
    BY DEF SubmitInv, Pictures, Drawable
  <2> QED BY <2>1, <2>2, <2>3 DEF SubmitInv, C!TypeOK
<1> QED BY <1>2, <1>3 DEF SubmitInv, C!ListFits, C!ReadsInside

LEMMA SubmitInit == C!Init => SubmitInv
<1> SUFFICES ASSUME C!Init PROVE SubmitInv
  OBVIOUS
<1>1. list = <<>> /\ slots = 0 /\ read = {} /\ scissor = C!Pixels
  BY DEF C!Init
<1>2. list \in Seq(C!Commands) /\ Len(list) = 0
  BY <1>1
<1>3. index \in [1 .. Indices -> IndexValues \cup {0}]
  BY DEF C!Init
<1>4. picture \in Pictures
  BY DEF C!Init, Pictures, Drawable
<1> QED BY <1>1, <1>2, <1>3, <1>4, SubmitAssumption DEF SubmitInv

LEMMA SubmitStep == ASSUME SubmitInv, C!Next PROVE SubmitInv'
<1>1. list \in Seq(C!Commands) /\ Len(list) \in Nat /\ slots \in Nat /\ Len(list) <= slots /\ Len(list) <= MaxCommands
  BY DEF SubmitInv
<1>2. CASE \E op \in C!Commands : C!Record(op)
  <2>1. PICK op \in C!Commands : C!Record(op)
    BY <1>2
  <2>2. /\ list' = Append(list, op) /\ Len(list) < MaxCommands
        /\ slots' = IF Len(list) = slots THEN (IF slots = 0 THEN 1 ELSE 2 * slots) ELSE slots
        /\ UNCHANGED <<index, scissor, picture, read>>
    BY <2>1 DEF C!Record
  <2>3. list' \in Seq(C!Commands) /\ Len(list') = Len(list) + 1
    BY <1>1, <2>2
  <2>4. slots' \in Nat /\ Len(list') <= slots' /\ Len(list') <= MaxCommands
    BY <1>1, <2>2, <2>3, SubmitAssumption
  <2> QED BY <2>2, <2>3, <2>4 DEF SubmitInv
<1>3. CASE \E i \in 1 .. Indices, v \in IndexValues : C!BufferWrite(i, v)
  <2>1. PICK i \in 1 .. Indices, v \in IndexValues : C!BufferWrite(i, v)
    BY <1>3
  <2>2. index' = [index EXCEPT ![i] = v] /\ UNCHANGED <<list, slots, scissor, picture, read>>
    BY <2>1 DEF C!BufferWrite
  <2>3. index' \in [1 .. Indices -> IndexValues \cup {0}]
    BY <2>2 DEF SubmitInv
  <2> QED BY <2>2, <2>3 DEF SubmitInv
<1>4. CASE C!Reset
  <2>1. list' = <<>> /\ UNCHANGED <<slots, index, scissor, picture, read>>
    BY <1>4 DEF C!Reset
  <2>2. list' \in Seq(C!Commands) /\ Len(list') = 0
    BY <2>1
  <2> QED BY <1>1, <2>1, <2>2, SubmitAssumption DEF SubmitInv
<1>5. CASE C!Submit
  <2> DEFINE end == C!Run[Len(list)]
  <2>1. picture' = end.picture /\ scissor' = end.scissor /\ read' = end.read /\ UNCHANGED <<list, slots, index>>
    BY <1>5 DEF C!Submit
  <2>2. end \in States
    BY <1>1, Ran
  <2> HIDE DEF end
  <2>3. end.picture \in Pictures /\ end.scissor \in SUBSET C!Pixels /\ end.read \subseteq 0 .. Vertices - 1
    BY <2>2 DEF States
  <2> QED BY <2>1, <2>3 DEF SubmitInv
<1> QED BY <1>2, <1>3, <1>4, <1>5 DEF C!Next

LEMMA SubmitStays == ASSUME SubmitInv, UNCHANGED submitVars PROVE SubmitInv'
BY DEF submitVars, SubmitInv
-----------------------------------------------------------------------------
(* Images, views and copies *)

ViewOk ==
    \/ view = M!NoView
    \/ /\ view \in [x : Nat, y : Nat, w : Nat, h : Nat, maps : 0 .. MaxMaps]
       /\ view.x + view.w <= Width /\ view.y + view.h <= Height
CopyOk ==
    /\ touched \subseteq 0 .. Width * Height - 1 /\ reached \subseteq 0 .. Size - 1
    /\ reached # {} => Cardinality(reached) = Cardinality(touched)
ImagesInv ==
    /\ ViewOk /\ CopyOk
    /\ mapped \in Nat /\ hostMaps \in 0 .. MaxMaps /\ mapped = hostMaps + view.maps

LEMMA ViewFacts == ASSUME ViewOk PROVE view.maps \in 0 .. MaxMaps /\ view.x + view.w <= Width /\ view.y + view.h <= Height
BY PictureAssumption, ImagesAssumption DEF ViewOk, M!NoView

\* A difference of words that does not wrap
LEMMA Minuses ==
    ASSUME NEW n \in 1 .. Words - 1, NEW k \in Nat, k <= n
    PROVE  M!Minus(n, k) = n - k
<1>1. n - k \in 0 .. Words - 1 /\ Words \in Nat \ {0}
  BY PictureAssumption
<1>2. (n - k) % Words = n - k
  BY <1>1
<1> QED BY <1>2 DEF M!Minus

\* A copy that is allowed: its rows and columns are those of the image, and its area the buffer's.
LEMMA CopyInside ==
    ASSUME NEW r \in M!Regions, M!RegionOk(r)
    PROVE  LET to == {M!Paired(r, a) : a \in M!ImageArea(r)}
           IN  /\ M!ImageArea(r) \subseteq 0 .. Width * Height - 1 /\ to \subseteq 0 .. Size - 1
               /\ Cardinality(to) = Cardinality(M!ImageArea(r))
<1> DEFINE from == M!ImageArea(r)
           to == {M!Paired(r, a) : a \in from}
           f == [a \in from |-> M!Paired(r, a)]
<1>1. /\ r.x \in Nat /\ r.y \in Nat /\ r.w \in Nat /\ r.h \in Nat /\ r.offset \in Nat
      /\ Width \in Nat \ {0} /\ Height \in Nat \ {0} /\ Size \in Nat
  <2>1. PICK a \in M!Word, b \in M!Word, w \in M!Word, h \in M!Word, o \in 0 .. Size : r = M!Region(a, b, w, h, o)
    BY DEF M!Regions
  <2>2. M!Word \subseteq Nat /\ 0 .. Size \subseteq Nat
    BY PictureAssumption, ImagesAssumption DEF M!Word
  <2>3. r.x = a /\ r.y = b /\ r.w = w /\ r.h = h /\ r.offset = o
    BY <2>1 DEF M!Region
  <2> QED BY <2>2, <2>3, PictureAssumption, ImagesAssumption
<1>2. /\ r.w \in Nat \ {0} /\ r.h \in Nat \ {0} /\ r.x + r.w <= Width /\ r.y + r.h <= Height
      /\ r.offset + r.w * r.h <= Size
  <2>1. /\ r.w # 0 /\ r.h # 0 /\ r.x <= Width /\ r.y <= Height
        /\ r.w <= M!Minus(Width, r.x) /\ r.h <= M!Minus(Height, r.y) /\ r.offset + r.w * r.h <= Size
    BY DEF M!RegionOk, M!Inside
  <2>2. M!Minus(Width, r.x) = Width - r.x /\ M!Minus(Height, r.y) = Height - r.y
    BY <1>1, <2>1, PictureAssumption, Minuses
  <2> QED BY <1>1, <2>1, <2>2
\* a pixel of the image in row n and column k of the region
<1>3. ASSUME NEW n \in 0 .. r.h - 1, NEW k \in 0 .. r.w - 1, NEW a, a = (r.y + n) * Width + r.x + k
      PROVE  /\ a \in 0 .. Width * Height - 1 /\ a \div Width = r.y + n /\ a % Width = r.x + k
             /\ M!Paired(r, a) = r.offset + (n * r.w + k) /\ M!Paired(r, a) \in 0 .. Size - 1
  <2>1. r.y + n \in 0 .. Height - 1 /\ r.x + k \in 0 .. Width - 1 /\ n \in Nat /\ k \in Nat
    BY <1>1, <1>2
  <2>2. (r.y + n) * Width \in Int /\ n * r.w \in Int /\ Width * Height \in Int /\ r.w * r.h \in Int
    BY <1>1, <2>1
  <2>3. a = (r.y + n) * Width + (r.x + k)
    BY <1>1, <1>3, <2>1, <2>2
  <2>4. a \div Width = r.y + n /\ a % Width = r.x + k
    <3>1. Width \in Nat \ {0} /\ r.y + n \in Int
      BY <1>1, <2>1
    <3>2. /\ ((r.y + n) * Width + (r.x + k)) \div Width = r.y + n
          /\ ((r.y + n) * Width + (r.x + k)) % Width = r.x + k
      BY <2>1, <3>1, RowAndColumn, Zenon
    <3> QED BY <2>3, <3>2, Zenon
  <2>5. (r.y + n) * Width <= (Height - 1) * Width /\ 0 * Width <= (r.y + n) * Width
    BY <1>1, <2>1, Monotone
  <2>6. (Height - 1) * Width = Width * Height - Width /\ 0 * Width = 0
    BY <1>1
  <2>7. a \in 0 .. Width * Height - 1
    BY <1>1, <2>1, <2>2, <2>3, <2>5, <2>6
  <2>8. n * r.w <= (r.h - 1) * r.w /\ 0 * r.w <= n * r.w
    BY <1>1, <1>2, <2>1, Monotone
  <2>9. (r.h - 1) * r.w = r.w * r.h - r.w /\ 0 * r.w = 0
    BY <1>1
  <2>10. M!Paired(r, a) = r.offset + n * r.w + k
    <3>1. (a \div Width) - r.y = n
      BY <1>1, <2>1, <2>4
    <3>2. M!Paired(r, a) = r.offset + n * r.w + (r.x + k) - r.x
      BY <2>4, <3>1 DEF M!Paired
    <3> QED BY <1>1, <2>1, <2>2, <3>2
  <2>11. M!Paired(r, a) \in 0 .. Size - 1
    BY <1>1, <1>2, <2>1, <2>2, <2>8, <2>9, <2>10
  <2>12. M!Paired(r, a) = r.offset + (n * r.w + k)
    BY <1>1, <2>1, <2>2, <2>10
  <2> QED BY <2>4, <2>7, <2>11, <2>12
<1>4. \A a \in from : \E n \in 0 .. r.h - 1, k \in 0 .. r.w - 1 : a = (r.y + n) * Width + r.x + k
  BY DEF M!ImageArea
<1>5. from \subseteq 0 .. Width * Height - 1 /\ to \subseteq 0 .. Size - 1
  <2>1. \A a \in from : a \in 0 .. Width * Height - 1 /\ M!Paired(r, a) \in 0 .. Size - 1
    BY <1>3, <1>4
  <2> QED BY <2>1
<1>6. ASSUME NEW a \in from, NEW b \in from, M!Paired(r, a) = M!Paired(r, b) PROVE a = b
  <2>1. PICK n \in 0 .. r.h - 1, k \in 0 .. r.w - 1 : a = (r.y + n) * Width + r.x + k
    BY <1>4
  <2>2. PICK m \in 0 .. r.h - 1, l \in 0 .. r.w - 1 : b = (r.y + m) * Width + r.x + l
    BY <1>4
  <2>3. M!Paired(r, a) = r.offset + (n * r.w + k) /\ M!Paired(r, b) = r.offset + (m * r.w + l)
    BY <1>3, <2>1, <2>2
  <2>4. n * r.w + k \in Int /\ m * r.w + l \in Int
    BY <1>1
  <2>5. n * r.w + k = m * r.w + l
    <3>1. \A u, v \in Int : r.offset + u = r.offset + v => u = v
      BY <1>1
    <3>2. r.offset + (n * r.w + k) = r.offset + (m * r.w + l)
      BY <1>6, <2>3, Zenon
    <3> QED BY <2>4, <3>1, <3>2, Zenon
  <2>6. /\ (n * r.w + k) \div r.w = n /\ (n * r.w + k) % r.w = k
        /\ (m * r.w + l) \div r.w = m /\ (m * r.w + l) % r.w = l
    <3>1. n \in Int /\ m \in Int /\ k \in 0 .. r.w - 1 /\ l \in 0 .. r.w - 1 /\ r.w \in Nat \ {0}
      BY <1>2
    <3> QED BY <3>1, RowAndColumn, Zenon
  <2>7. n = m /\ k = l
    BY <2>5, <2>6
  <2> QED BY <2>1, <2>2, <2>7
<1>7. Cardinality(to) = Cardinality(from)
  <2>1. IsFiniteSet(from)
    <3>1. Width * Height - 1 \in Int
      BY <1>1
    <3>2. IsFiniteSet(0 .. Width * Height - 1)
      BY <3>1, FS_Interval
    <3> QED BY <1>5, <3>2, FS_Subset
  <2> HIDE DEF from
  <2>2. f \in Bijection(from, to)
    BY <1>6 DEF Bijection, Injection, Surjection, IsInjective
  <2> HIDE DEF f, to
  <2>3. ExistsBijection(from, to)
    BY <2>2 DEF ExistsBijection
  <2> QED BY <2>1, <2>3, FS_Bijection
<1> QED BY <1>5, <1>7

LEMMA ImagesInit == M!Init => ImagesInv
<1> SUFFICES ASSUME M!Init PROVE ImagesInv
  OBVIOUS
<1>1. touched = {} /\ reached = {} /\ view = M!NoView /\ mapped = 0 /\ hostMaps = 0
  BY DEF M!Init
<1>2. view.maps = 0
  BY <1>1 DEF M!NoView
<1> QED BY <1>1, <1>2, ImagesAssumption DEF ImagesInv, ViewOk, CopyOk

LEMMA ImagesStep == ASSUME ImagesInv, M!Next PROVE ImagesInv'
<1>1. /\ ViewOk /\ CopyOk /\ view.maps \in 0 .. MaxMaps /\ MaxMaps \in Nat
      /\ mapped \in Nat /\ hostMaps \in 0 .. MaxMaps /\ mapped = hostMaps + view.maps
  BY ViewFacts, ImagesAssumption DEF ImagesInv
<1>2. CASE \E r \in M!Regions : M!Copy(r)
  <2>1. PICK r \in M!Regions : M!Copy(r)
    BY <1>2
  <2>2. /\ M!RegionOk(r) /\ touched' = M!ImageArea(r) /\ reached' = {M!Paired(r, a) : a \in M!ImageArea(r)}
        /\ UNCHANGED <<view, mapped, hostMaps>>
    BY <2>1 DEF M!Copy
  <2>3. CopyOk'
    BY <2>2, CopyInside DEF CopyOk
  <2> QED BY <1>1, <2>2, <2>3 DEF ImagesInv, ViewOk
<1>3. CASE M!FillImage
  <2>1. touched' = 0 .. Width * Height - 1 /\ reached' = {} /\ UNCHANGED <<view, mapped, hostMaps>>
    BY <1>3 DEF M!FillImage
  <2> QED BY <1>1, <2>1 DEF ImagesInv, ViewOk, CopyOk
<1>4. CASE \E a, b, w, h \in M!Word : M!CreateView(a, b, w, h)
  <2>1. PICK a \in M!Word, b \in M!Word, w \in M!Word, h \in M!Word : M!CreateView(a, b, w, h)
    BY <1>4
  <2>2. a \in Nat /\ b \in Nat /\ w \in Nat /\ h \in Nat
    BY PictureAssumption DEF M!Word
  <2> DEFINE wide == IF w # 0 THEN w ELSE M!Minus(Width, a)
             high == IF h # 0 THEN h ELSE M!Minus(Height, b)
  <2>3. /\ view = M!NoView /\ a < Width /\ b < Height
        /\ wide <= M!Minus(Width, a) /\ high <= M!Minus(Height, b)
        /\ view' = [x |-> a, y |-> b, w |-> wide, h |-> high, maps |-> 0]
        /\ UNCHANGED <<touched, reached, mapped, hostMaps>>
    BY <2>1 DEF M!CreateView
  <2>4. M!Minus(Width, a) = Width - a /\ M!Minus(Height, b) = Height - b
    <3>1. a <= Width /\ b <= Height
      BY <2>2, <2>3, PictureAssumption
    <3> QED BY <2>2, <3>1, PictureAssumption, Minuses
  <2>5. wide \in Nat /\ high \in Nat /\ a + wide <= Width /\ b + high <= Height
    BY <2>2, <2>3, <2>4, PictureAssumption
  <2> HIDE DEF wide, high
  <2>6. ViewOk' /\ view'.maps = 0
    BY <1>1, <2>2, <2>3, <2>5 DEF ViewOk
  <2>7. view.maps = 0
    BY <2>3 DEF M!NoView
  <2> QED BY <1>1, <2>3, <2>6, <2>7 DEF ImagesInv, CopyOk
<1>5. CASE M!DestroyView
  <2>1. view.maps = 0 /\ view' = M!NoView /\ UNCHANGED <<touched, reached, mapped, hostMaps>>
    BY <1>5 DEF M!DestroyView
  <2>2. view'.maps = 0
    BY <2>1 DEF M!NoView
  <2> QED BY <1>1, <2>1, <2>2 DEF ImagesInv, ViewOk, CopyOk
<1>6. CASE M!ViewMap
  <2>1. /\ view # M!NoView /\ view.maps < MaxMaps /\ view' = [view EXCEPT !.maps = @ + 1] /\ mapped' = mapped + 1
        /\ UNCHANGED <<touched, reached, hostMaps>>
    BY <1>6 DEF M!ViewMap
  <2>2. view.maps + 1 \in 0 .. MaxMaps
    BY <1>1, <2>1
  <2>3. ViewOk' /\ view'.maps = view.maps + 1
    BY <1>1, <2>1, <2>2 DEF ViewOk
  <2> QED BY <1>1, <2>1, <2>3 DEF ImagesInv, CopyOk
<1>7. CASE M!ViewUnmap
  <2>1. /\ view.maps > 0 /\ view' = [view EXCEPT !.maps = @ - 1]
        /\ mapped' = (IF mapped > 0 THEN mapped - 1 ELSE mapped)
        /\ UNCHANGED <<touched, reached, hostMaps>>
    BY <1>7 DEF M!ViewUnmap
  <2>2. view.maps - 1 \in 0 .. MaxMaps /\ view # M!NoView
    BY <1>1, <2>1 DEF M!NoView
  <2>3. ViewOk' /\ view'.maps = view.maps - 1
    BY <1>1, <2>1, <2>2 DEF ViewOk
  <2> QED BY <1>1, <2>1, <2>3 DEF ImagesInv, CopyOk
<1>8. CASE M!ImageMap
  <2>1. hostMaps < MaxMaps /\ hostMaps' = hostMaps + 1 /\ mapped' = mapped + 1 /\ UNCHANGED <<touched, reached, view>>
    BY <1>8 DEF M!ImageMap
  <2> QED BY <1>1, <2>1 DEF ImagesInv, ViewOk, CopyOk
<1>9. CASE M!ImageUnmap
  <2>1. /\ hostMaps > 0 /\ hostMaps' = hostMaps - 1 /\ UNCHANGED <<touched, reached, view>>
        /\ mapped' = (IF mapped > 0 THEN mapped - 1 ELSE mapped)
    BY <1>9 DEF M!ImageUnmap
  <2> QED BY <1>1, <2>1 DEF ImagesInv, ViewOk, CopyOk
<1> QED BY <1>2, <1>3, <1>4, <1>5, <1>6, <1>7, <1>8, <1>9 DEF M!Next

LEMMA ImagesAreSafe == ASSUME ImagesInv PROVE M!TypeOK /\ M!CopiesInside /\ M!MapsCounted
<1>1. M!Cardinality(reached) = Cardinality(reached) /\ M!Cardinality(touched) = Cardinality(touched)
  BY DEF M!Cardinality, Cardinality
<1>2. Width * Height - 1 \in Int
  BY PictureAssumption
<1> QED BY <1>1, <1>2, ViewFacts, ImagesAssumption DEF ImagesInv, CopyOk, M!TypeOK, M!CopiesInside, M!MapsCounted

LEMMA ImagesStay == ASSUME ImagesInv, UNCHANGED imagesVars PROVE ImagesInv'
BY DEF imagesVars, ImagesInv, ViewOk, CopyOk
-----------------------------------------------------------------------------
(* Shaders *)

\* Which row of w holds n
LEMMA RowOf ==
    ASSUME NEW n \in Int, NEW w \in Nat \ {0}
    PROVE  /\ n \div w \in Int /\ (n \div w) * w <= n /\ n < (n \div w + 1) * w
           /\ \A q \in Int : q * w <= n /\ n < (q + 1) * w => q = n \div w
           /\ \A q \in Int : q * w <= n => q <= n \div w
           /\ n >= 0 => n \div w >= 0
<1> DEFINE d == n \div w
<1>1. d \in Int /\ n % w \in 0 .. w - 1 /\ n = w * d + (n % w)
  OBVIOUS
<1> HIDE DEF d
<1>2. (d + 1) * w = d * w + w /\ w * d = d * w /\ d * w \in Int
  BY <1>1
<1>3. d * w <= n /\ n < (d + 1) * w
  <2>1. n = d * w + (n % w)
    BY <1>1, <1>2
  <2> QED BY <1>1, <1>2, <2>1
<1>4. ASSUME NEW q \in Int, q * w <= n PROVE q <= d
  <2> SUFFICES ASSUME d + 1 <= q PROVE FALSE
    BY <1>1
  <2>1. (d + 1) * w <= q * w
    BY <1>1, Monotone
  <2>2. q * w \in Int /\ (d + 1) * w \in Int
    BY <1>1
  <2> QED BY <1>3, <1>4, <2>1, <2>2
<1>5. ASSUME NEW q \in Int, q * w <= n, n < (q + 1) * w PROVE q = d
  <2>1. q <= d
    BY <1>4, <1>5
  <2> SUFFICES ASSUME q + 1 <= d PROVE FALSE
    BY <1>1, <2>1
  <2>2. (q + 1) * w <= d * w
    BY <1>1, Monotone
  <2>3. (q + 1) * w \in Int
    OBVIOUS
  <2> QED BY <1>2, <1>3, <1>5, <2>2, <2>3
<1>6. n >= 0 => d >= 0
  <2>1. 0 * w = 0
    OBVIOUS
  <2> QED BY <1>4, <2>1
<1> QED BY <1>1, <1>3, <1>4, <1>5, <1>6 DEF d

LEMMA CountOf == ASSUME NEW S PROVE /\ S = {} => V!Count(S) = 0
                                    /\ \A e : S = {e} => V!Count(S) = 1
<1>1. V!Count(S) = Cardinality(S)
  BY DEF V!Count, V!Cardinality, Cardinality
<1> QED BY <1>1, FS_EmptySet, FS_Singleton

\* Each column is stored by one chunk of the row, each row by one tile.
LEMMA OneChunk ==
    ASSUME NEW c \in Clips, NEW a \in Int
    PROVE  V!Count(V!StoresOf(c, a)) = IF a \in V!Columns(c) THEN 1 ELSE 0
<1>1. c.x \in Nat /\ c.w \in Nat /\ Lanes \in Nat \ {0}
  BY ShaderAssumption
<1> DEFINE d == a - c.x
           q == d \div Lanes
<1>2. /\ d \in Int /\ q \in Int /\ q * Lanes <= d /\ d < (q + 1) * Lanes /\ (d >= 0 => q >= 0)
      /\ \A k \in Int : k * Lanes <= d /\ d < (k + 1) * Lanes => k = q
  <2>1. d \in Int
    BY <1>1
  <2> HIDE DEF d
  <2> QED BY <1>1, <2>1, RowOf, Zenon
<1>3. a \in V!Columns(c) <=> 0 <= d /\ d < c.w
  BY <1>1 DEF V!Columns
<1>4. a = c.x + d
  BY <1>1
<1> HIDE DEF d, q
<1>5. ASSUME NEW k \in V!StoresOf(c, a) PROVE 0 <= d /\ d < c.w /\ k = q
  <2>1. k \in Nat /\ a \in V!Stored(c, k)
    BY <1>1, <1>5 DEF V!StoresOf, V!ChunksOf
  <2>2. PICK i \in 0 .. (IF c.w - k * Lanes >= Lanes THEN Lanes ELSE c.w - k * Lanes) - 1 : a = c.x + k * Lanes + i
    BY <2>1 DEF V!Stored
  <2>3. k * Lanes \in Nat /\ (k + 1) * Lanes = k * Lanes + Lanes
    BY <1>1, <2>1
  <2>4. i \in Nat /\ i < Lanes /\ i < c.w - k * Lanes
    BY <1>1, <2>3
  <2>5. d = k * Lanes + i
    BY <1>1, <1>2, <1>4, <2>2, <2>3, <2>4
  <2>6. k * Lanes <= d /\ d < (k + 1) * Lanes
    BY <1>1, <2>3, <2>4, <2>5
  <2>7. k = q
    BY <1>2, <2>1, <2>6
  <2> QED BY <1>1, <2>3, <2>4, <2>5, <2>7
<1>6. ASSUME 0 <= d, d < c.w PROVE q \in V!StoresOf(c, a)
  <2>1. q * Lanes \in Int /\ (q + 1) * Lanes = q * Lanes + Lanes /\ q \in Nat
    BY <1>1, <1>2, <1>6
  <2>2. q <= q * Lanes
    <3>1. PICK l \in Nat : Lanes = l + 1
      BY <1>1
    <3>2. q * (l + 1) = q * l + q /\ q * l \in Nat
      BY <2>1
    <3> QED BY <2>1, <3>1, <3>2
  <2>3. q \in V!ChunksOf(c)
    BY <1>1, <1>2, <1>6, <2>1, <2>2 DEF V!ChunksOf
  <2> DEFINE i == d - q * Lanes
  <2>4. i \in 0 .. (IF c.w - q * Lanes >= Lanes THEN Lanes ELSE c.w - q * Lanes) - 1
    BY <1>1, <1>2, <1>6, <2>1
  <2>5. a = c.x + q * Lanes + i
    BY <1>1, <1>2, <1>4, <2>1
  <2> HIDE DEF i
  <2>6. a \in V!Stored(c, q)
    BY <2>4, <2>5 DEF V!Stored
  <2> QED BY <2>3, <2>6 DEF V!StoresOf
<1>7. CASE 0 <= d /\ d < c.w
  <2>1. V!StoresOf(c, a) = {q}
    BY <1>5, <1>6, <1>7
  <2> QED BY <1>3, <1>7, <2>1, CountOf
<1>8. CASE ~ (0 <= d /\ d < c.w)
  <2>1. V!StoresOf(c, a) = {}
    BY <1>5, <1>8
  <2> QED BY <1>3, <1>8, <2>1, CountOf
<1> QED BY <1>7, <1>8

LEMMA OneTile ==
    ASSUME NEW c \in Clips, c.h > 0, NEW b \in Int
    PROVE  V!Count(V!TilesOf(c, b)) = IF b \in V!Rows(c) THEN 1 ELSE 0
<1> DEFINE many == V!RowsPerTile(c)
           d == b - c.y
           q == d \div many
<1>1. c.y \in Nat /\ c.h \in Nat \ {0} /\ many \in Nat \ {0}
  BY ShaderAssumption DEF V!RowsPerTile
<1> HIDE DEF many
<1>2. /\ d \in Int /\ q \in Int /\ q * many <= d /\ d < (q + 1) * many /\ (d >= 0 => q >= 0)
      /\ \A k \in Int : k * many <= d /\ d < (k + 1) * many => k = q
  <2>1. d \in Int
    BY <1>1
  <2> HIDE DEF d
  <2> QED BY <1>1, <2>1, RowOf, Zenon
<1>3. /\ b \in V!Rows(c) <=> 0 <= d /\ d < c.h
      /\ \A u \in Int : (b >= c.y + u <=> u <= d) /\ (b < c.y + u <=> d < u)
  BY <1>1 DEF V!Rows
<1>4. \A k \in Int : k * many \in Int /\ (k + 1) * many \in Int
  BY <1>1
<1> HIDE DEF d, q
<1>5. ASSUME NEW t \in V!TilesOf(c, b) PROVE 0 <= d /\ d < c.h /\ t = q
  <2>1. t \in 0 .. V!TileCount(c) - 1 /\ b \in V!Rows(c) /\ b >= c.y + t * many /\ b < c.y + (t + 1) * many
    BY <1>5 DEF V!TilesOf, V!RowsOfTile, many
  <2>2. t \in Int /\ t * many <= d /\ d < (t + 1) * many
    BY <1>3, <1>4, <2>1
  <2> QED BY <1>2, <1>3, <2>1, <2>2
<1>6. ASSUME 0 <= d, d < c.h PROVE q \in V!TilesOf(c, b)
  <2>1. (q + 1) * many = q * many + many /\ q * many \in Int /\ q + 1 \in Int
    BY <1>1, <1>2
  <2>2. (q + 1) * many <= c.h + many - 1
    BY <1>1, <1>2, <1>6, <2>1
  <2>3. q + 1 <= V!TileCount(c) /\ V!TileCount(c) \in Int
    <3>1. c.h + many - 1 \in Int
      BY <1>1
    <3>2. q + 1 <= (c.h + many - 1) \div many /\ (c.h + many - 1) \div many \in Int
      BY <1>1, <2>1, <2>2, <3>1, RowOf
    <3> QED BY <3>2 DEF V!TileCount, many
  <2>4. q \in 0 .. V!TileCount(c) - 1
    BY <1>2, <1>6, <2>3
  <2>5. b \in V!Rows(c) /\ b >= c.y + q * many /\ b < c.y + (q + 1) * many
    BY <1>2, <1>3, <1>4, <1>6
  <2> QED BY <2>4, <2>5 DEF V!TilesOf, V!RowsOfTile, many
<1>7. CASE 0 <= d /\ d < c.h
  <2>1. V!TilesOf(c, b) = {q}
    BY <1>5, <1>6, <1>7
  <2> QED BY <1>3, <1>7, <2>1, CountOf
<1>8. CASE ~ (0 <= d /\ d < c.h)
  <2>1. V!TilesOf(c, b) = {}
    BY <1>5, <1>8
  <2> QED BY <1>3, <1>8, <2>1, CountOf
<1> QED BY <1>7, <1>8

\* However it is cut, a rectangle is shaded once.
LEMMA Shaded ==
    ASSUME NEW c \in Clips, c.w > 0, c.h > 0, ~ failed',
           V!ShadeTiled(c) \/ V!ShadeSimd(c) \/ V!ShadeScalar(c), NEW p \in Screen
    PROVE  written'[p] = IF p \in V!Area(c) THEN 1 ELSE 0
<1>1. p \in Int \X Int /\ p = <<p[1], p[2]>> /\ p[1] \in Int /\ p[2] \in Int
  BY ShaderAssumption
<1>2. p \in V!Area(c) <=> p[1] \in V!Columns(c) /\ p[2] \in V!Rows(c)
  BY <1>1 DEF V!Area
<1>3. V!Count(V!StoresOf(c, p[1])) = IF p[1] \in V!Columns(c) THEN 1 ELSE 0
  BY <1>1, OneChunk
<1>4. CASE V!ShadeTiled(c)
  <2>1. written'[p] = V!Count(V!StoresOf(c, p[1])) * V!Count(V!TilesOf(c, p[2]))
    BY <1>4 DEF V!ShadeTiled
  <2>2. V!Count(V!TilesOf(c, p[2])) = IF p[2] \in V!Rows(c) THEN 1 ELSE 0
    BY <1>1, OneTile
  <2> QED BY <1>2, <1>3, <2>1, <2>2
<1>5. CASE V!ShadeSimd(c)
  <2>1. written'[p] = V!Count(V!StoresOf(c, p[1])) * V!Count({p[2]} \cap V!Rows(c))
    BY <1>5 DEF V!ShadeSimd
  <2>2. {p[2]} \cap V!Rows(c) = IF p[2] \in V!Rows(c) THEN {p[2]} ELSE {}
    OBVIOUS
  <2>3. V!Count({p[2]} \cap V!Rows(c)) = IF p[2] \in V!Rows(c) THEN 1 ELSE 0
    BY <2>2, CountOf
  <2> QED BY <1>2, <1>3, <2>1, <2>3
<1>6. CASE V!ShadeScalar(c)
  <2> DEFINE bad == V!RunFragment(V!InputsAt(c.x, c.y)).error
  <2>1. failed' = bad /\ written' = [o \in Screen |-> IF o \in V!Area(c) /\ ~ bad THEN 1 ELSE 0]
    BY <1>6 DEF V!ShadeScalar
  <2> HIDE DEF bad
  <2>2. ~ bad
    BY <2>1
  <2> QED BY <2>1, <2>2
<1> QED BY <1>4, <1>5, <1>6

\* An instruction: a known word and as many arguments as it has
Opcodes == {0, 1, 2, 5, 6, 8, 9, 10, 11, 12, 13, 14, 15, 19}
Instruction(s) == s \in Seq(Nat) /\ Len(s) > 0 /\ s[1] \in Opcodes /\ Len(s) = 1 + V!Arity[s[1]]
Decoded == {s \in Seq(Nat) : s = <<>> \/ Instruction(s)}

LEMMA Codes ==
    /\ V!END = 0 /\ V!MOV = 1 /\ V!ADD = 2 /\ V!DIV = 5 /\ V!MIN = 6 /\ V!LOAD_INPUT = 8
    /\ V!LOAD_UNIFORM = 9 /\ V!OUT_COLOR = 10 /\ V!LOAD_CONST = 11 /\ V!FRACT = 12 /\ V!CLAMP01 = 13
    /\ V!MIX = 14 /\ V!OUT_POSITION = 15 /\ V!SQRT = 19
BY DEF V!END, V!MOV, V!ADD, V!DIV, V!MIN, V!LOAD_INPUT, V!LOAD_UNIFORM, V!OUT_COLOR, V!LOAD_CONST,
       V!FRACT, V!CLAMP01, V!MIX, V!OUT_POSITION, V!SQRT

LEMMA ArityOf ==
    \A op \in Opcodes :
        V!Arity[op] = IF op = 0 THEN 0 ELSE IF op \in {2, 5, 6} THEN 3 ELSE IF op \in {14, 10} THEN 4 ELSE 2
<1>1. V!Operations = Opcodes
  BY Codes DEF V!Operations, V!Arithmetic, Opcodes
<1> QED BY <1>1, Codes DEF V!Arity

LEMMA Arities ==
    /\ DOMAIN V!Arity = Opcodes
    /\ \A op \in Opcodes : V!Arity[op] \in {0, 2, 3, 4} /\ (V!Arity[op] = 0 <=> op = 0)
<1>1. V!Operations = Opcodes
  BY Codes DEF V!Operations, V!Arithmetic, Opcodes
<1>2. DOMAIN V!Arity = Opcodes
  BY <1>1 DEF V!Arity
<1>3. ASSUME NEW op \in Opcodes
      PROVE  V!Arity[op] \in {0, 2, 3, 4} /\ (V!Arity[op] = 0 <=> op = 0)
  BY ArityOf
<1> QED BY <1>2, <1>3

LEMMA PieceOf ==
    ASSUME NEW w \in Seq(Nat), NEW i \in 1 .. Len(w), NEW k \in Nat, i + k <= Len(w)
    PROVE  SubSeq(w, i, i + k) \in Seq(Nat) /\ Len(SubSeq(w, i, i + k)) = k + 1 /\ SubSeq(w, i, i + k)[1] = w[i]
<1>1. i \in Int /\ i + k \in Int /\ \A j \in i .. i + k : w[j] \in Nat
  OBVIOUS
<1> DEFINE n == i + k
<1>2. n \in Int /\ n - i + 1 = k + 1 /\ i <= n /\ \A j \in i .. n : w[j] \in Nat
  BY <1>1
<1> HIDE DEF n
<1>3. /\ SubSeq(w, i, n) \in Seq(Nat)
      /\ Len(SubSeq(w, i, n)) = IF i <= n THEN n - i + 1 ELSE 0
      /\ \A j \in 1 .. n - i + 1 : SubSeq(w, i, n)[j] = w[i + j - 1]
  BY <1>1, <1>2, SubSeqProperties
<1>4. 1 \in 1 .. n - i + 1 /\ i + 1 - 1 = i
  BY <1>2
<1>5. SubSeq(w, i, n) \in Seq(Nat) /\ Len(SubSeq(w, i, n)) = k + 1 /\ SubSeq(w, i, n)[1] = w[i]
  BY <1>2, <1>3, <1>4
<1> QED BY <1>5 DEF n

\* What the decoder makes of w is empty where it refuses, and else instructions.
LEMMA Decodes == ASSUME NEW w \in Seq(Nat) PROVE V!Decode(w) \in Seq(Decoded)
<1> DEFINE N == Len(w) + 1
           Reads(i) == i <= Len(w) /\ w[i] \in DOMAIN V!Arity /\ V!ArgsOk(w, i) /\ w[i] # V!END
           To(i) == i + V!Arity[w[i]] + 1
           Body(h, i) == IF i > Len(w) THEN <<>>
                         ELSE IF w[i] \notin DOMAIN V!Arity \/ ~ V!ArgsOk(w, i) THEN <<<<>>>>
                         ELSE IF w[i] = V!END THEN <<<<V!END>>>>
                         ELSE <<SubSeq(w, i, i + V!Arity[w[i]])>> \o h[i + V!Arity[w[i]] + 1]
           After(h) == h = [i \in 1 .. Len(w) + 1 |-> Body(h, i)]
           Goes(f, m) == f = [i \in N - m .. N |-> Body(f, i)]
           Bad == {m \in 0 .. Len(w) : ~ \E f : Goes(f, m)}
<1>1. Len(w) \in Nat /\ N \in Nat \ {0} /\ \A i \in 1 .. Len(w) : w[i] \in Nat
  OBVIOUS
<1>2. ASSUME NEW i \in 1 .. N, Reads(i)
      PROVE  To(i) \in i + 1 .. N /\ i \in 1 .. Len(w) /\ V!Arity[w[i]] \in Nat /\ i + V!Arity[w[i]] <= Len(w)
  <2>1. V!Arity[w[i]] \in Nat
    BY <1>2, Arities
  <2>2. i + V!Arity[w[i]] <= Len(w)
    BY <1>2 DEF V!ArgsOk
  <2> QED BY <1>1, <1>2, <2>1, <2>2
<1>3. ASSUME NEW g, NEW h, NEW i \in 1 .. N, Reads(i) => g[To(i)] = h[To(i)] PROVE Body(g, i) = Body(h, i)
  <2>1. CASE Reads(i)
    <3>1. g[i + V!Arity[w[i]] + 1] = h[i + V!Arity[w[i]] + 1]
      BY <1>3, <2>1
    <3> QED BY <2>1, <3>1
  <2>2. CASE ~ Reads(i)
    BY <2>2
  <2> QED BY <2>1, <2>2
<1> HIDE DEF Body, Reads, To
<1>4. 0 \notin Bad
  <2> DEFINE f == [i \in N - 0 .. N |-> <<>>]
  <2>1. \A i \in N - 0 .. N : i > Len(w)
    BY <1>1
  <2>2. \A i \in N - 0 .. N : Body(f, i) = <<>>
    BY <2>1 DEF Body
  <2>3. Goes(f, 0)
    BY <2>2
  <2> QED BY <2>3
<1>5. ASSUME NEW m \in 1 .. Len(w), m - 1 \notin Bad PROVE m \notin Bad
  <2>1. /\ m - 1 \in 0 .. Len(w) /\ N - m \in 1 .. N /\ N - (m - 1) = N - m + 1
        /\ \A i \in N - m .. N : i \in 1 .. N /\ (i # N - m => i \in N - (m - 1) .. N)
        /\ \A i \in N - m .. N : i + 1 .. N \subseteq N - (m - 1) .. N
        /\ N - (m - 1) .. N \subseteq N - m .. N
    <3>1. PICK n \in Nat : n = N
      BY <1>1
    <3>2. m \in 1 .. n - 1
      BY <1>1, <1>5, <3>1
    <3> HIDE DEF N
    <3>3. m - 1 \in 0 .. Len(w)
      BY <1>1, <1>5
    <3>4. n - m \in 1 .. n /\ n - (m - 1) = n - m + 1
      BY <3>2
    <3>5. /\ \A i \in n - m .. n : i \in 1 .. n /\ (i # n - m => i \in n - (m - 1) .. n)
          /\ \A i \in n - m .. n : i + 1 .. n \subseteq n - (m - 1) .. n
          /\ n - (m - 1) .. n \subseteq n - m .. n
      BY <3>2
    <3> QED BY <3>1, <3>3, <3>4, <3>5
  <2>2. PICK f : Goes(f, m - 1)
    BY <1>5, <2>1
  <2> DEFINE g == [i \in N - m .. N |-> IF i = N - m THEN Body(f, i) ELSE f[i]]
  <2>3. ASSUME NEW i \in N - m .. N PROVE g[i] = Body(g, i)
    <3>1. Reads(i) => g[To(i)] = f[To(i)]
      <4> SUFFICES ASSUME Reads(i) PROVE g[To(i)] = f[To(i)]
        OBVIOUS
      <4>1. To(i) \in i + 1 .. N
        BY <1>2, <2>1, <2>3
      <4>2. To(i) \in N - (m - 1) .. N /\ To(i) \in N - m .. N
        BY <2>1, <2>3, <4>1
      <4>3. To(i) # N - m
        BY <1>1, <2>1, <2>3, <4>2
      <4> QED BY <4>2, <4>3
    <3>2. Body(g, i) = Body(f, i)
      <4> HIDE DEF g
      <4> QED BY <1>3, <3>1
    <3>3. CASE i = N - m
      BY <2>3, <3>2, <3>3
    <3>4. CASE i # N - m
      <4>1. f[i] = Body(f, i)
        BY <2>1, <2>2, <2>3, <3>4
      <4> QED BY <2>3, <3>2, <3>4, <4>1
    <3> QED BY <3>3, <3>4
  <2>4. g = [i \in N - m .. N |-> g[i]]
    OBVIOUS
  <2> HIDE DEF g
  <2>5. Goes(g, m)
    BY <2>3, <2>4
  <2> QED BY <2>5
<1>6. Bad = {}
  <2>1. Bad \subseteq 0 .. Len(w)
    OBVIOUS
  <2> HIDE DEF Bad
  <2> QED BY <1>1, <1>4, <1>5, <2>1, Climb
<1>7. PICK f : After(f)
  <2>1. Len(w) \in 0 .. Len(w) /\ N - Len(w) = 1
    BY <1>1
  <2>2. PICK f : Goes(f, Len(w))
    BY <1>6, <2>1
  <2> QED BY <2>1, <2>2
<1> DEFINE r == CHOOSE h : After(h)
<1>8. After(r)
  BY <1>7
<1>9. V!Decode(w) = r[1]
  BY DEF V!Decode, Body
<1> HIDE DEF r
<1>10. \A i \in 1 .. N : r[i] = Body(r, i)
  BY <1>8
<1> DEFINE Wrong == {m \in 0 .. Len(w) : \E i \in N - m .. N : r[i] \notin Seq(Decoded)}
<1>11. ASSUME NEW i \in 1 .. N, Reads(i) => r[To(i)] \in Seq(Decoded) PROVE r[i] \in Seq(Decoded)
  <2>1. r[i] = Body(r, i)
    BY <1>10
  <2>2. CASE i > Len(w)
    BY <2>1, <2>2 DEF Body
  <2>3. CASE i <= Len(w) /\ (w[i] \notin DOMAIN V!Arity \/ ~ V!ArgsOk(w, i))
    <3>1. r[i] = <<<<>>>>
      BY <1>1, <2>1, <2>3 DEF Body
    <3>2. <<>> \in Decoded
      BY DEF Decoded
    <3> QED BY <3>1, <3>2
  <2>4. CASE i <= Len(w) /\ w[i] \in DOMAIN V!Arity /\ V!ArgsOk(w, i) /\ w[i] = V!END
    <3>1. r[i] = <<<<V!END>>>>
      BY <1>1, <2>1, <2>4 DEF Body
    <3>2. <<V!END>> \in Seq(Nat) /\ Len(<<V!END>>) = 1 /\ <<V!END>>[1] = 0
      BY DEF V!END
    <3>3. V!Arity[0] = 0
      BY Arities DEF Opcodes
    <3>4. <<V!END>> \in Decoded
      BY <3>2, <3>3 DEF Decoded, Instruction, Opcodes
    <3> QED BY <3>1, <3>4
  <2>5. CASE Reads(i)
    <3> DEFINE k == V!Arity[w[i]]
               s == SubSeq(w, i, i + k)
    <3>1. i \in 1 .. Len(w) /\ k \in Nat /\ i + k <= Len(w)
      BY <1>2, <2>5
    <3>2. r[i] = <<s>> \o r[To(i)]
      BY <1>1, <2>1, <2>5 DEF Body, Reads, To
    <3>3. w[i] \in Opcodes
      BY <2>5, Arities DEF Reads
    <3> HIDE DEF k
    <3>4. s \in Seq(Nat) /\ Len(s) = k + 1 /\ s[1] = w[i]
      BY <3>1, PieceOf
    <3>5. s \in Decoded
      <4> HIDE DEF s
      <4>0. V!Arity[s[1]] = k
        BY <3>4 DEF k
      <4>1. Len(s) > 0 /\ Len(s) = 1 + V!Arity[s[1]]
        BY <3>1, <3>4, <4>0
      <4> QED BY <3>3, <3>4, <4>1 DEF Decoded, Instruction
    <3> HIDE DEF s
    <3>6. r[To(i)] \in Seq(Decoded)
      BY <1>11, <2>5
    <3> QED BY <3>2, <3>5, <3>6
  <2> QED BY <1>1, <2>2, <2>3, <2>4, <2>5 DEF Reads
<1>12. Wrong = {}
  <2>1. 0 \notin Wrong
    <3>1. ASSUME NEW i \in N - 0 .. N PROVE r[i] \in Seq(Decoded)
      <4>1. i \in 1 .. N /\ ~ Reads(i)
        BY <1>1, <3>1 DEF Reads
      <4> QED BY <1>11, <4>1
    <3> QED BY <3>1
  <2>2. ASSUME NEW m \in 1 .. Len(w), m - 1 \notin Wrong PROVE m \notin Wrong
    <3>1. /\ m - 1 \in 0 .. Len(w)
          /\ \A i \in N - m .. N : i \in 1 .. N /\ i + 1 .. N \subseteq N - (m - 1) .. N
      BY <1>1, <2>2
    <3>2. \A i \in N - (m - 1) .. N : r[i] \in Seq(Decoded)
      BY <2>2, <3>1
    <3>3. ASSUME NEW i \in N - m .. N PROVE r[i] \in Seq(Decoded)
      <4>1. Reads(i) => r[To(i)] \in Seq(Decoded)
        BY <1>2, <3>1, <3>2, <3>3
      <4> QED BY <1>11, <3>1, <3>3, <4>1
    <3> QED BY <3>3
  <2>3. Wrong \subseteq 0 .. Len(w)
    OBVIOUS
  <2> HIDE DEF Wrong
  <2> QED BY <1>1, <2>1, <2>2, <2>3, Climb
<1>13. 1 \in N - Len(w) .. N /\ Len(w) \in 0 .. Len(w)
  BY <1>1
<1> QED BY <1>9, <1>12, <1>13

-----------------------------------------------------------------------------
(* Machines *)

Machine(m) ==
    /\ m = [regs |-> m.regs, in |-> m.in, colour |-> m.colour, halt |-> m.halt, error |-> m.error]
    /\ m.error \in BOOLEAN

LEMMA SetKeeps ==
    ASSUME NEW m, Machine(m), NEW r, NEW v
    PROVE  Machine(V!Set(m, r, v)) /\ V!Set(m, r, v).error = m.error
<1>1. CASE r < Registers
  <2>1. V!Set(m, r, v) = [m EXCEPT !.regs = [m.regs EXCEPT ![r] = v]]
    BY <1>1 DEF V!Set
  <2>2. PICK g : g = [m.regs EXCEPT ![r] = v]
    OBVIOUS
  <2>3. PICK n : n = [m EXCEPT !.regs = g]
    OBVIOUS
  <2>4. Machine(n) /\ n.error = m.error
    BY <2>3 DEF Machine
  <2> QED BY <2>1, <2>2, <2>3, <2>4
<1>2. CASE ~ r < Registers
  BY <1>2 DEF V!Set
<1> QED BY <1>1, <1>2

LEMMA HaltKeeps ==
    ASSUME NEW m, Machine(m)
    PROVE  /\ Machine([m EXCEPT !.halt = TRUE]) /\ [m EXCEPT !.halt = TRUE].error = m.error
           /\ Machine([m EXCEPT !.halt = TRUE, !.error = TRUE])
           /\ \A c : Machine([m EXCEPT !.colour = c]) /\ [m EXCEPT !.colour = c].error = m.error
<1>1. PICK n : n = [m EXCEPT !.halt = TRUE]
  OBVIOUS
<1>2. Machine(n) /\ n.error = m.error
  BY <1>1 DEF Machine
<1>3. PICK f : f = [m EXCEPT !.halt = TRUE, !.error = TRUE]
  OBVIOUS
<1>4. Machine(f)
  BY <1>3 DEF Machine
<1>5. ASSUME NEW c PROVE Machine([m EXCEPT !.colour = c]) /\ [m EXCEPT !.colour = c].error = m.error
  <2>1. PICK k : k = [m EXCEPT !.colour = c]
    OBVIOUS
  <2>2. Machine(k) /\ k.error = m.error
    BY <2>1 DEF Machine
  <2> QED BY <2>1, <2>2
<1> QED BY <1>1, <1>2, <1>3, <1>4, <1>5

\* What computes a value for a register
Sums == {1, 2, 5, 6, 11, 12, 13, 14, 19}

\* A step of the scalar interpreter fails only on a position.
LEMMA ScalarKeeps ==
    ASSUME NEW m, Machine(m), NEW s, Instruction(s)
    PROVE  /\ Machine(V!ScalarStep(m, s))
           /\ V!ScalarStep(m, s).error => m.error \/ s[1] = V!OUT_POSITION
<1> DEFINE n == V!ScalarStep(m, s)
           Fine(k) == Machine(k) /\ (k.error => m.error \/ s[1] = V!OUT_POSITION)
<1>1. Fine(m) /\ (\A r, v : Fine(V!Set(m, r, v))) /\ Fine([m EXCEPT !.halt = TRUE])
      /\ \A c : Fine([m EXCEPT !.colour = c])
  <2>1. \A k : Machine(k) /\ k.error = m.error => Fine(k)
    OBVIOUS
  <2> HIDE DEF Fine
  <2>2. Fine(m)
    BY <2>1
  <2>3. ASSUME NEW r, NEW v PROVE Fine(V!Set(m, r, v))
    BY <2>1, SetKeeps
  <2>4. Fine([m EXCEPT !.halt = TRUE])
    BY <2>1, HaltKeeps
  <2>5. ASSUME NEW c PROVE Fine([m EXCEPT !.colour = c])
    <3>1. Machine([m EXCEPT !.colour = c]) /\ [m EXCEPT !.colour = c].error = m.error
      BY HaltKeeps
    <3>2. PICK k : k = [m EXCEPT !.colour = c]
      OBVIOUS
    <3> QED BY <3>1, <3>2, <2>1
  <2> QED BY <2>2, <2>3, <2>4, <2>5
<1>2. s[1] = V!OUT_POSITION => Fine([m EXCEPT !.halt = TRUE, !.error = TRUE])
  BY HaltKeeps
<1>3. V!Arithmetic = {1, 2, 5, 6, 11, 12, 13, 14, 19} /\ V!Arithmetic = Sums
  BY Codes DEF V!Arithmetic, Sums
<1>4. s[1] \in Sums \cup {0, 8, 9, 10, 15} /\ s[1] \in Nat
  BY DEF Instruction, Opcodes, Sums
<1> SUFFICES Fine(n)
  OBVIOUS
<1> HIDE DEF Fine
<1>5. CASE m.halt
  BY <1>1, <1>5 DEF V!ScalarStep
<1>6. CASE ~ m.halt /\ s[1] = 8
  BY <1>1, <1>6, Codes DEF V!ScalarStep
<1>7. CASE ~ m.halt /\ s[1] = 9
  BY <1>1, <1>7, Codes DEF V!ScalarStep
<1>8. CASE ~ m.halt /\ s[1] = 15
  <2>1. n = [m EXCEPT !.halt = TRUE, !.error = TRUE]
    BY <1>3, <1>8, Codes DEF V!ScalarStep
  <2> QED BY <1>2, <1>8, <2>1, Codes
<1>9. CASE ~ m.halt /\ s[1] = 0
  <2>1. n = [m EXCEPT !.halt = TRUE]
    BY <1>3, <1>9, Codes DEF V!ScalarStep
  <2> QED BY <1>1, <2>1
<1>10. CASE ~ m.halt /\ s[1] = 10
  <2> DEFINE byte(k) == V!ClampByte(V!Get(m.regs, s[k + 1]))
  <2>1. n = [m EXCEPT !.colour = <<byte(1), byte(2), byte(3), byte(4)>>]
    BY <1>3, <1>10, Codes DEF V!ScalarStep
  <2> HIDE DEF byte
  <2>2. PICK c : n = [m EXCEPT !.colour = c]
    BY <2>1
  <2> QED BY <1>1, <2>2
<1>11. CASE ~ m.halt /\ s[1] \in Sums
  <2>1. n = V!Set(m, s[2], V!ScalarValue(m.regs, s))
    BY <1>3, <1>11, Codes DEF V!ScalarStep, Sums
  <2> QED BY <1>1, <2>1
<1> QED BY <1>4, <1>5, <1>6, <1>7, <1>8, <1>9, <1>10, <1>11

\* There are the machines that the two interpreters go through.
LEMMA Fragments ==
    ASSUME Len(insts) \in Nat, NEW in
    PROVE  /\ V!ScalarRun(in)[0] = V!Machine(in, <<Byte, 0, Byte, Byte>>)
           /\ \A n \in 1 .. Len(insts) : V!ScalarRun(in)[n] = V!ScalarStep(V!ScalarRun(in)[n - 1], insts[n])
<1> DEFINE Body(h, n) == IF n = 0 THEN V!Machine(in, <<Byte, 0, Byte, Byte>>) ELSE V!ScalarStep(h[n - 1], insts[n])
           Goes(f, m) == f = [n \in 0 .. m |-> Body(f, n)]
           Bad == {m \in 0 .. Len(insts) : ~ \E f : Goes(f, m)}
<1>1. 0 \notin Bad
  <2>1. Goes([n \in 0 .. 0 |-> V!Machine(in, <<Byte, 0, Byte, Byte>>)], 0)
    OBVIOUS
  <2> QED BY <2>1
<1>2. ASSUME NEW m \in 1 .. Len(insts), m - 1 \notin Bad PROVE m \notin Bad
  <2>1. m - 1 \in 0 .. Len(insts) /\ m # 0
    OBVIOUS
  <2>2. PICK f : Goes(f, m - 1)
    BY <1>2, <2>1
  <2> DEFINE g == [n \in 0 .. m |-> Body(f, n)]
  <2>3. ASSUME NEW n \in 0 .. m PROVE Body(f, n) = Body(g, n)
    <3>1. CASE n = 0
      BY <3>1
    <3>2. CASE n # 0
      <4>1. n - 1 \in 0 .. m - 1 /\ n - 1 \in 0 .. m
        BY <2>3, <3>2
      <4>2. f[n - 1] = Body(f, n - 1) /\ g[n - 1] = Body(f, n - 1)
        <5> HIDE DEF Body
        <5> QED BY <2>2, <4>1
      <4> HIDE DEF g
      <4> QED BY <3>2, <4>2
    <3> QED BY <3>1, <3>2
  <2>4. Goes(g, m)
    <3> HIDE DEF Body
    <3>1. g = [n \in 0 .. m |-> Body(f, n)]
      OBVIOUS
    <3> HIDE DEF g
    <3> QED BY <2>3, <3>1
  <2> QED BY <2>4
<1>3. Bad = {}
  <2> HIDE DEF Goes
  <2>1. Bad \subseteq 0 .. Len(insts)
    OBVIOUS
  <2> HIDE DEF Bad
  <2> QED BY <1>1, <1>2, <2>1, Climb
<1>4. \E f : Goes(f, Len(insts))
  <2> HIDE DEF Goes
  <2> QED BY <1>3
<1> DEFINE r == CHOOSE f : Goes(f, Len(insts))
<1>5. Goes(r, Len(insts))
  BY <1>4
<1>6. V!ScalarRun(in) = r
  BY DEF V!ScalarRun
<1> HIDE DEF r
<1>7. r[0] = V!Machine(in, <<Byte, 0, Byte, Byte>>) /\ \A n \in 1 .. Len(insts) : r[n] = V!ScalarStep(r[n - 1], insts[n])
  BY <1>5
<1> QED BY <1>6, <1>7

LEMMA Chunks ==
    ASSUME Len(insts) \in Nat, NEW in
    PROVE  /\ V!SimdRun(in)[0] = V!Machine(in, <<V!One, 0, V!One, V!One>>)
           /\ \A n \in 1 .. Len(insts) : V!SimdRun(in)[n] = V!SimdStep(V!SimdRun(in)[n - 1], insts[n])
<1> DEFINE Body(h, n) == IF n = 0 THEN V!Machine(in, <<V!One, 0, V!One, V!One>>) ELSE V!SimdStep(h[n - 1], insts[n])
           Goes(f, m) == f = [n \in 0 .. m |-> Body(f, n)]
           Bad == {m \in 0 .. Len(insts) : ~ \E f : Goes(f, m)}
<1>1. 0 \notin Bad
  <2>1. Goes([n \in 0 .. 0 |-> V!Machine(in, <<V!One, 0, V!One, V!One>>)], 0)
    OBVIOUS
  <2> QED BY <2>1
<1>2. ASSUME NEW m \in 1 .. Len(insts), m - 1 \notin Bad PROVE m \notin Bad
  <2>1. m - 1 \in 0 .. Len(insts) /\ m # 0
    OBVIOUS
  <2>2. PICK f : Goes(f, m - 1)
    BY <1>2, <2>1
  <2> DEFINE g == [n \in 0 .. m |-> Body(f, n)]
  <2>3. ASSUME NEW n \in 0 .. m PROVE Body(f, n) = Body(g, n)
    <3>1. CASE n = 0
      BY <3>1
    <3>2. CASE n # 0
      <4>1. n - 1 \in 0 .. m - 1 /\ n - 1 \in 0 .. m
        BY <2>3, <3>2
      <4>2. f[n - 1] = Body(f, n - 1) /\ g[n - 1] = Body(f, n - 1)
        <5> HIDE DEF Body
        <5> QED BY <2>2, <4>1
      <4> HIDE DEF g
      <4> QED BY <3>2, <4>2
    <3> QED BY <3>1, <3>2
  <2>4. Goes(g, m)
    <3> HIDE DEF Body
    <3>1. g = [n \in 0 .. m |-> Body(f, n)]
      OBVIOUS
    <3> HIDE DEF g
    <3> QED BY <2>3, <3>1
  <2> QED BY <2>4
<1>3. Bad = {}
  <2> HIDE DEF Goes
  <2>1. Bad \subseteq 0 .. Len(insts)
    OBVIOUS
  <2> HIDE DEF Bad
  <2> QED BY <1>1, <1>2, <2>1, Climb
<1>4. \E f : Goes(f, Len(insts))
  <2> HIDE DEF Goes
  <2> QED BY <1>3
<1> DEFINE r == CHOOSE f : Goes(f, Len(insts))
<1>5. Goes(r, Len(insts))
  BY <1>4
<1>6. V!SimdRun(in) = r
  BY DEF V!SimdRun
<1> HIDE DEF r
<1>7. r[0] = V!Machine(in, <<V!One, 0, V!One, V!One>>) /\ \A n \in 1 .. Len(insts) : r[n] = V!SimdStep(r[n - 1], insts[n])
  BY <1>5
<1> QED BY <1>6, <1>7

-----------------------------------------------------------------------------
(* The invariant of a shader *)

ShaderInv ==
    /\ insts \in Seq(Decoded) /\ \A n \in DOMAIN insts : Instruction(insts[n])
    /\ uniforms \in [0 .. Uniforms - 1 -> V!Float]
    /\ failed \in BOOLEAN /\ (insts = <<>> => ~ failed) /\ V!OnlyPositionsFail /\ V!ShadedOnce

\* The functions that the two write in different ways are the same but where Parts says so.
LEMMA SameClamp ==
    ASSUME NEW v \in V!Float
    PROVE  V!Clamp8(v) = V!Clamp01(v) /\ V!Clamp01(v) \in V!Float
<1>1. CASE v = NaN
  BY <1>1 DEF V!Float, V!Clamp8, V!Clamp01, V!MaxPs, V!MinPs, V!Less
<1>2. CASE v \in Int
  <2>1. v # NaN /\ 0 # NaN /\ V!One # NaN /\ V!One = 2
    BY <1>2, ShaderAssumption DEF V!One
  <2>2. V!MinPs(V!One, v) = IF 2 < v THEN 2 ELSE v
    BY <2>1 DEF V!MinPs, V!Less
  <2>3. PICK w : w = V!MinPs(V!One, v)
    OBVIOUS
  <2>4. w \in Int /\ w # NaN /\ w = IF 2 < v THEN 2 ELSE v
    BY <1>2, <2>2, <2>3, ShaderAssumption
  <2>5. V!Clamp8(v) = IF w < 0 THEN 0 ELSE w
    BY <2>1, <2>3, <2>4 DEF V!Clamp8, V!MaxPs, V!Less
  <2>6. V!Clamp01(v) = IF v <= 0 THEN 0 ELSE IF v >= 2 THEN 2 ELSE v
    BY <2>1 DEF V!Clamp01
  <2> QED BY <1>2, <2>4, <2>5, <2>6 DEF V!Float
<1> QED BY <1>1, <1>2 DEF V!Float

LEMMA SameFraction ==
    ASSUME NEW v \in V!Float, v = NaN \/ V!Fits(v)
    PROVE  V!Minus(v, V!Floor(v)) = V!Fract(v) /\ V!Fract(v) \in V!Float
<1>1. CASE v = NaN
  <2>1. V!Minus(v, V!Whole(v)) = NaN /\ V!Minus(v, V!Floor(v)) = NaN
    BY <1>1 DEF V!Minus
  <2> QED BY <1>1, <2>1 DEF V!Float, V!Fract, V!Less
<1>2. CASE v \in Int
  <2>1. v # NaN /\ V!Fits(v) /\ V!One = 2
    BY <1>2, ShaderAssumption DEF V!One
  <2>2. V!Whole(v) = IF v < 0 THEN -(((-v) \div 2) * 2) ELSE (v \div 2) * 2
    BY <2>1 DEF V!Whole
  <2>3. V!Floor(v) = (v \div 2) * 2
    BY <2>1 DEF V!Floor
  <2>4. PICK d \in Int, e \in Int : d = v \div 2 /\ e = (-v) \div 2
    BY <1>2
  <2>5. (v = 2 * d \/ v = 2 * d + 1) /\ (-v = 2 * e \/ -v = 2 * e + 1)
    BY <1>2, <2>4
  <2>6. PICK a \in Int, b \in Int : a = V!Whole(v) /\ b = V!Floor(v) /\ b = d * 2 /\ a = IF v < 0 THEN -(e * 2) ELSE d * 2
    BY <1>2, <2>2, <2>3, <2>4
  <2>7. a # NaN /\ b # NaN /\ v - a \in Int /\ v - a # NaN /\ 0 # NaN
    BY <1>2, ShaderAssumption
  <2>8. V!Minus(v, a) = v - a /\ V!Minus(v, b) = v - b
    BY <2>1, <2>7 DEF V!Minus
  <2>9. V!Fract(v) = IF v - a < 0 THEN v - a + 2 ELSE v - a
    <3>1. PICK w : w = v - a
      OBVIOUS
    <3>2. V!Minus(v, V!Whole(v)) = w /\ w \in Int /\ w # NaN
      BY <2>6, <2>7, <2>8, <3>1
    <3>3. V!Fract(v) = IF V!Less(w, 0) THEN V!Plus(w, V!One) ELSE w
      BY <3>2 DEF V!Fract
    <3>4. V!Less(w, 0) <=> w < 0
      BY <2>7, <3>2 DEF V!Less
    <3>5. V!Plus(w, V!One) = w + 2
      <4>1. 2 # NaN /\ NaN \notin {w, 2}
        BY <3>2, ShaderAssumption
      <4> QED BY <2>1, <4>1 DEF V!Plus
    <3> QED BY <3>1, <3>3, <3>4, <3>5
  <2> QED BY <1>2, <2>5, <2>6, <2>8, <2>9 DEF V!Float
<1> QED BY <1>1, <1>2 DEF V!Float

\* The arithmetic stays among floats.
LEMMA Sums2 ==
    ASSUME NEW a \in V!Float, NEW b \in V!Float
    PROVE  /\ V!Plus(a, b) \in V!Float /\ V!Minus(a, b) \in V!Float /\ V!Times(a, b) \in V!Float
           /\ (b # 0 => V!Quotient(a, b) \in V!Float) /\ V!Root(a) \in V!Float
<1>1. V!Plus(a, b) \in V!Float /\ V!Minus(a, b) \in V!Float
  BY DEF V!Float, V!Plus, V!Minus
<1>2. V!Times(a, b) \in V!Float
  <2>1. CASE NaN \in {a, b}
    BY <2>1 DEF V!Times, V!Float
  <2>2. CASE NaN \notin {a, b}
    <3>1. a * b \in Int /\ V!Times(a, b) = (a * b) \div 2
      BY <2>2 DEF V!Float, V!Times, V!One
    <3>2. PICK c \in Int : c = a * b
      BY <3>1
    <3> QED BY <3>1, <3>2 DEF V!Float
  <2> QED BY <2>1, <2>2
<1>3. b # 0 => V!Quotient(a, b) \in V!Float
  <2>1. CASE NaN \in {a, b}
    BY <2>1 DEF V!Quotient, V!Float
  <2>2. CASE NaN \notin {a, b} /\ b # 0
    <3>1. \A c \in Int, d \in Nat \ {0} : c \div d \in Int
      OBVIOUS
    <3>2. a \in Int /\ b \in Int /\ a * 2 \in Int /\ (-a) * 2 \in Int
      BY <2>2 DEF V!Float
    <3>3. V!Quotient(a, b) = IF b > 0 THEN (a * 2) \div b ELSE ((-a) * 2) \div (-b)
      BY <2>2 DEF V!Quotient, V!One
    <3>4. CASE b > 0
      BY <3>1, <3>2, <3>3, <3>4 DEF V!Float
    <3>5. CASE ~ b > 0
      <4>1. -b \in Nat \ {0}
        BY <2>2, <3>2, <3>5
      <4> QED BY <3>1, <3>2, <3>3, <3>5, <4>1 DEF V!Float
    <3> QED BY <3>4, <3>5
  <2> QED BY <2>1, <2>2
<1>4. V!Root(a) \in V!Float
  <2>1. CASE a = NaN
    BY <2>1 DEF V!Root, V!Float
  <2>2. CASE a # NaN
    <3>1. a \in Int /\ V!Root(a) = Cardinality(V!SquaresTo(a))
      BY <2>2 DEF V!Root, V!Float, V!Cardinality, Cardinality
    <3>2. IsFiniteSet(1 .. a) /\ V!SquaresTo(a) \in SUBSET (1 .. a)
      BY <3>1, FS_Interval DEF V!SquaresTo
    <3>3. Cardinality(V!SquaresTo(a)) \in Nat
      BY <3>2, FS_Subset, FS_CardinalityType
    <3> QED BY <3>1, <3>3 DEF V!Float
  <2> QED BY <2>1, <2>2
<1> QED BY <1>1, <1>2, <1>3, <1>4

LEMMA NoRoot == V!Root(0) = 0
<1>1. V!SquaresTo(0) = {}
  BY DEF V!SquaresTo
<1>2. 0 # NaN
  BY ShaderAssumption
<1>3. V!Root(0) = Cardinality(V!SquaresTo(0))
  BY <1>2 DEF V!Root, V!Cardinality, Cardinality
<1> QED BY <1>1, <1>3, FS_EmptySet

\* Two machines that have come to the same: the chunk keeps its colour in floats.
Alike8(m, c) ==
    /\ Machine(m) /\ Machine(c) /\ m.regs \in [0 .. Registers - 1 -> V!Float]
    /\ m.in \in [0 .. Inputs - 1 -> V!Float] /\ m.halt \in BOOLEAN
    /\ c.regs = m.regs /\ c.in = m.in /\ c.halt = m.halt /\ m.colour = V!EmitPixels(c.colour)

LEMMA SameValue ==
    ASSUME NEW m, m.regs \in [0 .. Registers - 1 -> V!Float], ~ m.halt, NEW s, Instruction(s), s[1] \in Sums,
           ~ V!Parts(m, s)
    PROVE  V!ScalarValue(m.regs, s) = V!SimdValue(m.regs, s) /\ V!ScalarValue(m.regs, s) \in V!Float
<1> DEFINE g(k) == V!Get(m.regs, s[k + 1])
<1>1. \A k \in Nat : s[k + 1] \in Nat => g(k) \in V!Float
  BY ShaderAssumption DEF V!Get, V!Float
<1>2. V!Arity[s[1]] = IF s[1] \in {2, 5, 6} THEN 3 ELSE IF s[1] = 14 THEN 4 ELSE 2
  <2>1. PICK op : op = s[1]
    OBVIOUS
  <2>2. op \in Opcodes /\ op # 0 /\ op # 10
    BY <2>1 DEF Opcodes, Sums
  <2>3. V!Arity[op] = IF op \in {2, 5, 6} THEN 3 ELSE IF op = 14 THEN 4 ELSE 2
    BY <2>2, ArityOf
  <2> QED BY <2>1, <2>3
<1>3. /\ Len(s) = 1 + V!Arity[s[1]] /\ \A k \in 1 .. Len(s) : s[k] \in Nat
  BY DEF Instruction
<1>4. s[1] \notin {14} => (s[1] \notin {2, 5, 6} => V!Arity[s[1]] = 2) /\ (s[1] \in {2, 5, 6} => V!Arity[s[1]] = 3)
  BY <1>2 DEF Sums
<1>5. s[1] = 14 => V!Arity[s[1]] = 4
  BY <1>2
<1>6. /\ s[3] \in Nat /\ (s[1] \in {2, 5, 6, 14} => s[4] \in Nat) /\ (s[1] = 14 => s[5] \in Nat)
  BY <1>3, <1>4, <1>5
<1>7. /\ g(2) \in V!Float /\ (s[1] \in {2, 5, 6, 14} => g(3) \in V!Float) /\ (s[1] = 14 => g(4) \in V!Float)
  <2> HIDE DEF g
  <2>1. 2 + 1 = 3 /\ 3 + 1 = 4 /\ 4 + 1 = 5
    OBVIOUS
  <2> QED BY <1>1, <1>6, <2>1
<1>8. CASE s[1] = 1
  <2>1. V!ScalarValue(m.regs, s) = g(2) /\ V!SimdValue(m.regs, s) = g(2)
    BY <1>8, Codes DEF V!ScalarValue, V!SimdValue
  <2> QED BY <1>7, <2>1
<1>9. CASE s[1] = 2
  <2>1. V!ScalarValue(m.regs, s) = V!Plus(g(2), g(3)) /\ V!SimdValue(m.regs, s) = V!Plus(g(2), g(3))
    BY <1>9, Codes DEF V!ScalarValue, V!SimdValue
  <2> HIDE DEF g
  <2> QED BY <1>7, <1>9, <2>1, Sums2
<1>10. CASE s[1] = 5
  <2>1. V!ScalarValue(m.regs, s) = IF g(3) # 0 THEN V!Quotient(g(2), g(3)) ELSE 0
    BY <1>10, Codes DEF V!ScalarValue
  <2>2. V!SimdValue(m.regs, s) = IF g(3) # NaN /\ g(3) # 0
            THEN V!Quotient(g(2), IF g(3) # NaN /\ g(3) # 0 THEN g(3) ELSE V!One) ELSE 0
    BY <1>10, Codes DEF V!SimdValue
  <2>3. g(3) # NaN
    BY <1>10, Codes DEF V!Parts
  <2> HIDE DEF g
  <2>4. g(3) # 0 => V!Quotient(g(2), g(3)) \in V!Float
    BY <1>7, <1>10, Sums2
  <2> QED BY <2>1, <2>2, <2>3, <2>4 DEF V!Float
<1>11. CASE s[1] = 6
  <2>1. V!ScalarValue(m.regs, s) = IF V!Less(g(2), g(3)) THEN g(2) ELSE g(3)
    BY <1>11, Codes DEF V!ScalarValue
  <2>2. V!SimdValue(m.regs, s) = IF V!Less(g(2), g(3)) THEN g(2) ELSE g(3)
    BY <1>11, Codes DEF V!SimdValue, V!MinPs
  <2> HIDE DEF g
  <2> QED BY <1>7, <1>11, <2>1, <2>2
<1>12. CASE s[1] = 11
  <2>1. V!ScalarValue(m.regs, s) = V!AsFloat(s[3]) /\ V!SimdValue(m.regs, s) = V!AsFloat(s[3])
    BY <1>12, Codes DEF V!ScalarValue, V!SimdValue
  <2> QED BY <2>1 DEF V!AsFloat, V!Float
<1>13. CASE s[1] = 12
  <2>1. V!ScalarValue(m.regs, s) = V!Fract(g(2)) /\ V!SimdValue(m.regs, s) = V!Minus(g(2), V!Floor(g(2)))
    BY <1>13, Codes DEF V!ScalarValue, V!SimdValue
  <2>2. g(2) = NaN \/ V!Fits(g(2))
    BY <1>13, Codes DEF V!Parts
  <2> HIDE DEF g
  <2> QED BY <1>7, <2>1, <2>2, SameFraction
<1>14. CASE s[1] = 13
  <2>1. V!ScalarValue(m.regs, s) = V!Clamp01(g(2)) /\ V!SimdValue(m.regs, s) = V!Clamp8(g(2))
    BY <1>14, Codes DEF V!ScalarValue, V!SimdValue
  <2> HIDE DEF g
  <2> QED BY <1>7, <2>1, SameClamp
<1>15. CASE s[1] = 14
  <2>1. /\ V!ScalarValue(m.regs, s) = V!Plus(g(2), V!Times(V!Minus(g(3), g(2)), V!Clamp01(g(4))))
        /\ V!SimdValue(m.regs, s) = V!Plus(g(2), V!Times(V!Minus(g(3), g(2)), V!Clamp8(g(4))))
    BY <1>15, Codes DEF V!ScalarValue, V!SimdValue
  <2> HIDE DEF g
  <2>2. V!Clamp8(g(4)) = V!Clamp01(g(4)) /\ V!Clamp01(g(4)) \in V!Float
    BY <1>7, <1>15, SameClamp
  <2>3. V!Minus(g(3), g(2)) \in V!Float
    BY <1>7, <1>15, Sums2
  <2>4. V!Times(V!Minus(g(3), g(2)), V!Clamp01(g(4))) \in V!Float
    BY <2>2, <2>3, Sums2
  <2>5. V!Plus(g(2), V!Times(V!Minus(g(3), g(2)), V!Clamp01(g(4)))) \in V!Float
    BY <1>7, <2>4, Sums2
  <2> QED BY <2>1, <2>2, <2>5
<1>16. CASE s[1] = 19
  <2>1. V!ScalarValue(m.regs, s) = IF g(2) # NaN /\ ~ V!Less(g(2), 0) THEN V!Root(g(2)) ELSE 0
    BY <1>16, Codes DEF V!ScalarValue
  <2>2. V!SimdValue(m.regs, s) = V!Root(IF V!Less(g(2), 0) THEN 0 ELSE g(2))
    BY <1>16, Codes DEF V!SimdValue, V!MaxPs
  <2>3. g(2) # NaN
    BY <1>16, Codes DEF V!Parts
  <2> HIDE DEF g
  <2>4. V!Root(g(2)) \in V!Float
    BY <1>7, Sums2
  <2>5. CASE V!Less(g(2), 0)
    BY <2>1, <2>2, <2>5, NoRoot DEF V!Float
  <2>6. CASE ~ V!Less(g(2), 0)
    BY <2>1, <2>2, <2>3, <2>4, <2>6
  <2> QED BY <2>5, <2>6
<1> QED BY <1>8, <1>9, <1>10, <1>11, <1>12, <1>13, <1>14, <1>15, <1>16 DEF Sums

\* The bytes of a colour whose blue is a number
LEMMA SameByte ==
    ASSUME NEW a \in V!Float, NEW b \in V!Float, NEW c \in V!Float, NEW d \in V!Float, c # NaN
    PROVE  V!EmitPixels(<<a, b, c, d>>) = <<V!ClampByte(a), V!ClampByte(b), V!ClampByte(c), V!ClampByte(d)>>
<1> DEFINE level(v) == IF V!Clamp8(v) = NaN THEN 0 ELSE ((2 * Byte * V!Clamp8(v)) + V!One) \div (2 * V!One)
<1>1. ASSUME NEW v \in V!Float PROVE level(v) = V!ClampByte(v)
  <2>1. V!Clamp8(v) = V!Clamp01(v) /\ V!One = 2
    BY SameClamp DEF V!One
  <2>2. level(v) = IF V!Clamp01(v) = NaN THEN 0 ELSE ((2 * Byte * V!Clamp01(v)) + 2) \div 4
    BY <2>1
  <2>3. V!Clamp01(v) = IF v = NaN THEN v ELSE IF v <= 0 THEN 0 ELSE IF v >= 2 THEN 2 ELSE v
    BY <2>1 DEF V!Clamp01
  <2>4. V!ClampByte(v) = IF v = NaN THEN 0 ELSE IF v <= 0 THEN 0 ELSE IF v >= 2 THEN Byte ELSE ((2 * Byte * v) + 2) \div 4
    BY <2>1 DEF V!ClampByte
  <2>5. 0 # NaN /\ 2 # NaN /\ Byte \in Nat
    BY ShaderAssumption
  <2>6. CASE v = NaN
    BY <2>2, <2>3, <2>4, <2>6
  <2>7. CASE v # NaN /\ v <= 0
    <3>1. ((2 * Byte * 0) + 2) \div 4 = 0
      BY <2>5
    <3>2. V!Clamp01(v) = 0
      BY <2>3, <2>7
    <3> QED BY <2>2, <2>4, <2>5, <2>7, <3>1, <3>2
  <2>8. CASE v # NaN /\ ~ v <= 0 /\ v >= 2
    <3>1. ((2 * Byte * 2) + 2) \div 4 = Byte
      BY <2>5
    <3>2. V!Clamp01(v) = 2
      BY <2>3, <2>8
    <3> QED BY <2>2, <2>4, <2>5, <2>8, <3>1, <3>2
  <2>9. CASE v # NaN /\ ~ v <= 0 /\ ~ v >= 2
    BY <2>2, <2>3, <2>4, <2>9
  <2> QED BY <2>6, <2>7, <2>8, <2>9
<1> DEFINE ink == <<a, b, c, d>>
<1>2. ink[1] = a /\ ink[2] = b /\ ink[3] = c /\ ink[4] = d
  OBVIOUS
<1>3. V!EmitPixels(ink) = <<level(ink[1]), level(ink[2]), level(ink[3]),
          IF ink[3] = NaN THEN ((Byte + 1) \div 2) + (level(ink[4]) % ((Byte + 1) \div 2)) ELSE level(ink[4])>>
  <2> HIDE DEF ink
  <2> QED BY DEF V!EmitPixels
<1> HIDE DEF level, ink
<1>4. V!EmitPixels(ink) = <<level(a), level(b), level(c), level(d)>>
  BY <1>2, <1>3
<1> QED BY <1>1, <1>4 DEF ink

LEMMA SameStep ==
    ASSUME NEW m, NEW c, Alike8(m, c), NEW s, Instruction(s), ~ V!Parts(m, s),
           uniforms \in [0 .. Uniforms - 1 -> V!Float]
    PROVE  Alike8(V!ScalarStep(m, s), V!SimdStep(c, s))
<1>1. /\ Machine(m) /\ Machine(c) /\ m.regs \in [0 .. Registers - 1 -> V!Float]
      /\ m.in \in [0 .. Inputs - 1 -> V!Float] /\ m.halt \in BOOLEAN
      /\ c.regs = m.regs /\ c.in = m.in /\ c.halt = m.halt /\ m.colour = V!EmitPixels(c.colour)
  BY DEF Alike8
<1>2. V!Arithmetic = Sums
  BY Codes DEF V!Arithmetic, Sums
<1>3. s[1] \in Sums \cup {0, 8, 9, 10, 15} /\ s[1] \in Nat
  BY DEF Instruction, Opcodes, Sums
<1>4. s[1] \in {0} \/ s[2] \in Nat
  <2>1. V!Arity[s[1]] \in Nat /\ (V!Arity[s[1]] = 0 <=> s[1] = 0) /\ Len(s) = 1 + V!Arity[s[1]]
    BY Arities DEF Instruction
  <2> QED BY <2>1 DEF Instruction
<1>5. ASSUME NEW r \in Nat, NEW v \in V!Float PROVE Alike8(V!Set(m, r, v), V!Set(c, r, v))
  <2>1. CASE r < Registers
    <3>1. PICK g : g = [m.regs EXCEPT ![r] = v]
      OBVIOUS
    <3>2. g \in [0 .. Registers - 1 -> V!Float]
      BY <1>1, <3>1
    <3>3. PICK n : n = [m EXCEPT !.regs = g]
      OBVIOUS
    <3>4. PICK k : k = [c EXCEPT !.regs = g]
      OBVIOUS
    <3>5. Machine(n) /\ n.regs = g /\ n.in = m.in /\ n.halt = m.halt /\ n.colour = m.colour
      BY <1>1, <3>3 DEF Machine
    <3>6. Machine(k) /\ k.regs = g /\ k.in = c.in /\ k.halt = c.halt /\ k.colour = c.colour
      BY <1>1, <3>4 DEF Machine
    <3>7. V!Set(m, r, v) = n /\ V!Set(c, r, v) = k
      BY <1>1, <2>1, <3>1, <3>3, <3>4 DEF V!Set
    <3>8. Alike8(n, k)
      BY <1>1, <3>2, <3>5, <3>6 DEF Alike8
    <3> QED BY <3>7, <3>8
  <2>2. CASE ~ r < Registers
    BY <2>2 DEF V!Set
  <2> QED BY <2>1, <2>2
<1>6. CASE m.halt
  BY <1>1, <1>6 DEF V!ScalarStep, V!SimdStep
<1>7. CASE ~ m.halt /\ s[1] = 0
  <2>1. PICK n : n = [m EXCEPT !.halt = TRUE]
    OBVIOUS
  <2>2. PICK k : k = [c EXCEPT !.halt = TRUE]
    OBVIOUS
  <2>3. V!ScalarStep(m, s) = n /\ V!SimdStep(c, s) = k
    BY <1>1, <1>2, <1>7, <2>1, <2>2, Codes DEF V!ScalarStep, V!SimdStep, Sums
  <2>4. Machine(n) /\ n.regs = m.regs /\ n.in = m.in /\ n.halt = TRUE /\ n.colour = m.colour
    BY <1>1, <2>1 DEF Machine
  <2>5. Machine(k) /\ k.regs = c.regs /\ k.in = c.in /\ k.halt = TRUE /\ k.colour = c.colour
    BY <1>1, <2>2 DEF Machine
  <2>6. Alike8(n, k)
    BY <1>1, <2>4, <2>5 DEF Alike8
  <2> QED BY <2>3, <2>6
<1>8. CASE ~ m.halt /\ s[1] = 8
  <2>1. s[3] \in Nat /\ s[3] < Inputs /\ s[2] \in Nat
    <3>1. V!Arity[s[1]] = 2
      BY <1>8, ArityOf DEF Opcodes
    <3>2. s[3] \in Nat /\ s[2] \in Nat
      <4>1. s \in Seq(Nat) /\ Len(s) = 1 + V!Arity[s[1]]
        BY DEF Instruction
      <4>2. \A k \in 1 .. Len(s) : s[k] \in Nat
        BY <4>1
      <4>3. Len(s) = 3
        BY <3>1, <4>1
      <4> QED BY <4>2, <4>3
    <3>3. ~ s[3] >= Inputs
      BY <1>8, Codes DEF V!Parts
    <3> QED BY <3>2, <3>3, ShaderAssumption
  <2>2. m.in[s[3]] \in V!Float
    BY <1>1, <2>1, ShaderAssumption
  <2>3. V!ScalarStep(m, s) = V!Set(m, s[2], m.in[s[3]]) /\ V!SimdStep(c, s) = V!Set(c, s[2], m.in[s[3]])
    BY <1>1, <1>2, <1>8, <2>1, Codes DEF V!ScalarStep, V!SimdStep, Sums
  <2> QED BY <1>5, <2>1, <2>2, <2>3
<1>9. CASE ~ m.halt /\ s[1] = 9
  <2>1. s[3] \in Nat /\ s[3] < Uniforms /\ s[2] \in Nat
    <3>1. V!Arity[s[1]] = 2
      BY <1>9, ArityOf DEF Opcodes
    <3>2. s[3] \in Nat /\ s[2] \in Nat
      <4>1. s \in Seq(Nat) /\ Len(s) = 1 + V!Arity[s[1]]
        BY DEF Instruction
      <4>2. \A k \in 1 .. Len(s) : s[k] \in Nat
        BY <4>1
      <4>3. Len(s) = 3
        BY <3>1, <4>1
      <4> QED BY <4>2, <4>3
    <3>3. ~ s[3] >= Uniforms
      BY <1>9, Codes DEF V!Parts
    <3> QED BY <3>2, <3>3, ShaderAssumption
  <2>2. uniforms[s[3]] \in V!Float
    BY <2>1, ShaderAssumption
  <2>3. V!ScalarStep(m, s) = V!Set(m, s[2], uniforms[s[3]]) /\ V!SimdStep(c, s) = V!Set(c, s[2], uniforms[s[3]])
    BY <1>1, <1>2, <1>9, <2>1, Codes DEF V!ScalarStep, V!SimdStep, Sums
  <2> QED BY <1>5, <2>1, <2>2, <2>3
<1>10. CASE ~ m.halt /\ s[1] = 10
  <2> DEFINE g(k) == V!Get(m.regs, s[k + 1])
  <2>1. g(1) \in V!Float /\ g(2) \in V!Float /\ g(3) \in V!Float /\ g(4) \in V!Float
    <3>1. V!Arity[s[1]] = 4
      BY <1>10, ArityOf DEF Opcodes
    <3>2. s[2] \in Nat /\ s[3] \in Nat /\ s[4] \in Nat /\ s[5] \in Nat
      <4>1. s \in Seq(Nat) /\ Len(s) = 1 + V!Arity[s[1]]
        BY DEF Instruction
      <4>2. \A k \in 1 .. Len(s) : s[k] \in Nat
        BY <4>1
      <4>3. Len(s) = 5
        BY <3>1, <4>1
      <4> QED BY <4>2, <4>3
    <3>3. \A r \in Nat : V!Get(m.regs, r) \in V!Float
      BY <1>1, ShaderAssumption DEF V!Get, V!Float
    <3> QED BY <3>2, <3>3
  <2>2. g(3) # NaN
    BY <1>10, Codes DEF V!Parts
  <2>3. V!SimdStep(c, s) = [c EXCEPT !.colour = <<g(1), g(2), g(3), g(4)>>]
    BY <1>1, <1>2, <1>10, Codes DEF V!SimdStep, Sums
  <2>4. V!ScalarStep(m, s) = [m EXCEPT !.colour = <<V!ClampByte(g(1)), V!ClampByte(g(2)), V!ClampByte(g(3)), V!ClampByte(g(4))>>]
    BY <1>2, <1>10, Codes DEF V!ScalarStep, Sums
  <2> HIDE DEF g
  <2>5. PICK ink : ink = <<g(1), g(2), g(3), g(4)>>
    OBVIOUS
  <2>6. PICK y : y = <<V!ClampByte(g(1)), V!ClampByte(g(2)), V!ClampByte(g(3)), V!ClampByte(g(4))>>
    OBVIOUS
  <2>7. y = V!EmitPixels(ink)
    BY <2>1, <2>2, <2>5, <2>6, SameByte
  <2>8. PICK n : n = [m EXCEPT !.colour = y]
    OBVIOUS
  <2>9. PICK k : k = [c EXCEPT !.colour = ink]
    OBVIOUS
  <2>10. Machine(n) /\ n.regs = m.regs /\ n.in = m.in /\ n.halt = m.halt /\ n.colour = y
    BY <1>1, <2>8 DEF Machine
  <2>11. Machine(k) /\ k.regs = c.regs /\ k.in = c.in /\ k.halt = c.halt /\ k.colour = ink
    BY <1>1, <2>9 DEF Machine
  <2>12. Alike8(n, k)
    BY <1>1, <2>7, <2>10, <2>11 DEF Alike8
  <2> QED BY <2>3, <2>4, <2>5, <2>6, <2>8, <2>9, <2>12
<1>11. CASE ~ m.halt /\ s[1] = 15
  BY <1>11, Codes DEF V!Parts
<1>12. CASE ~ m.halt /\ s[1] \in Sums
  <2>1. V!ScalarValue(m.regs, s) = V!SimdValue(m.regs, s) /\ V!ScalarValue(m.regs, s) \in V!Float
    BY <1>1, <1>12, SameValue
  <2>2. V!ScalarStep(m, s) = V!Set(m, s[2], V!ScalarValue(m.regs, s))
    BY <1>2, <1>12, Codes DEF V!ScalarStep, Sums
  <2>3. V!SimdStep(c, s) = V!Set(c, s[2], V!SimdValue(m.regs, s))
    BY <1>1, <1>2, <1>12, Codes DEF V!SimdStep, Sums
  <2>4. s[2] \in Nat
    BY <1>4, <1>12 DEF Sums
  <2> QED BY <1>5, <2>1, <2>2, <2>3, <2>4
<1> QED BY <1>1, <1>3, <1>6, <1>7, <1>8, <1>9, <1>10, <1>11, <1>12

LEMMA Agreeing == ASSUME ShaderInv PROVE V!InterpretersAgree
<1> SUFFICES ASSUME NEW p \in Screen, V!Tame(V!InputsAt(p[1], p[2]))
             PROVE  V!RunFragment(V!InputsAt(p[1], p[2])).colour = V!RunChunk(V!InputsAt(p[1], p[2]))
  BY DEF V!InterpretersAgree
<1>1. Len(insts) \in Nat /\ DOMAIN insts = 1 .. Len(insts)
  BY DEF ShaderInv
<1>2. PICK in : in = V!InputsAt(p[1], p[2])
  OBVIOUS
<1>3. in \in [0 .. Inputs - 1 -> V!Float]
  <2>1. p[1] \in Int /\ p[2] \in Int
    BY ShaderAssumption
  <2>2. V!One * p[1] \in Int /\ V!One * p[2] \in Int
    BY <2>1 DEF V!One
  <2>3. \A i \in 0 .. Inputs - 1 : (CASE i = 0 -> V!One * p[1] [] i = 1 -> V!One * p[2] [] OTHER -> i) \in Int
    BY <2>2, ShaderAssumption
  <2> QED BY <1>2, <2>3 DEF V!InputsAt, V!Float
<1>4. PICK f : f = V!ScalarRun(in)
  OBVIOUS
<1>5. PICK g : g = V!SimdRun(in)
  OBVIOUS
<1>6. /\ f[0] = V!Machine(in, <<Byte, 0, Byte, Byte>>)
      /\ \A n \in 1 .. Len(insts) : f[n] = V!ScalarStep(f[n - 1], insts[n])
  BY <1>1, <1>4, Fragments
<1>7. /\ g[0] = V!Machine(in, <<V!One, 0, V!One, V!One>>)
      /\ \A n \in 1 .. Len(insts) : g[n] = V!SimdStep(g[n - 1], insts[n])
  BY <1>1, <1>5, Chunks
<1>8. \A n \in 1 .. Len(insts) : ~ V!Parts(f[n - 1], insts[n])
  BY <1>1, <1>2, <1>4 DEF V!Tame
<1> DEFINE Wrong == {n \in 0 .. Len(insts) : ~ Alike8(f[n], g[n])}
<1>9. 0 \notin Wrong
  <2>1. PICK b : b = <<Byte, 0, Byte, Byte>>
    OBVIOUS
  <2>2. PICK e : e = <<V!One, 0, V!One, V!One>>
    OBVIOUS
  <2>3. b = V!EmitPixels(e)
    <3>1. V!One \in V!Float /\ 0 \in V!Float /\ V!One # NaN
      BY ShaderAssumption DEF V!One, V!Float
    <3>2. V!EmitPixels(e) = <<V!ClampByte(V!One), V!ClampByte(0), V!ClampByte(V!One), V!ClampByte(V!One)>>
      BY <2>2, <3>1, SameByte
    <3>3. V!ClampByte(V!One) = Byte /\ V!ClampByte(0) = 0
      BY ShaderAssumption DEF V!ClampByte, V!One
    <3> QED BY <2>1, <3>2, <3>3
  <2>4. PICK r : r = [i \in 0 .. Registers - 1 |-> 0]
    OBVIOUS
  <2>5. r \in [0 .. Registers - 1 -> V!Float]
    BY <2>4 DEF V!Float
  <2>6. f[0] = [regs |-> r, in |-> in, colour |-> b, halt |-> FALSE, error |-> FALSE]
    BY <1>6, <2>1, <2>4 DEF V!Machine
  <2>7. g[0] = [regs |-> r, in |-> in, colour |-> e, halt |-> FALSE, error |-> FALSE]
    BY <1>7, <2>2, <2>4 DEF V!Machine
  <2>8. Alike8(f[0], g[0])
    BY <1>3, <2>3, <2>5, <2>6, <2>7 DEF Alike8, Machine
  <2> QED BY <2>8
<1>10. ASSUME NEW n \in 1 .. Len(insts), n - 1 \notin Wrong PROVE n \notin Wrong
  <2>1. n - 1 \in 0 .. Len(insts)
    BY <1>1
  <2>2. Alike8(f[n - 1], g[n - 1])
    BY <1>10, <2>1
  <2>3. f[n] = V!ScalarStep(f[n - 1], insts[n]) /\ g[n] = V!SimdStep(g[n - 1], insts[n])
    BY <1>6, <1>7, <1>10
  <2>4. Instruction(insts[n]) /\ uniforms \in [0 .. Uniforms - 1 -> V!Float]
    BY <1>1, <1>10 DEF ShaderInv
  <2>5. ~ V!Parts(f[n - 1], insts[n])
    BY <1>8, <1>10
  <2>6. Alike8(f[n], g[n])
    BY <2>2, <2>3, <2>4, <2>5, SameStep
  <2> QED BY <2>6
<1>11. Wrong = {}
  <2>1. Wrong \subseteq 0 .. Len(insts)
    OBVIOUS
  <2> HIDE DEF Wrong
  <2> QED BY <1>1, <1>9, <1>10, <2>1, Climb
<1>12. Alike8(f[Len(insts)], g[Len(insts)])
  BY <1>1, <1>11
<1>13. V!RunFragment(in) = f[Len(insts)] /\ V!RunChunk(in) = V!EmitPixels(g[Len(insts)].colour)
  BY <1>4, <1>5 DEF V!RunFragment, V!RunChunk
<1> QED BY <1>2, <1>12, <1>13 DEF Alike8

\* The scalar interpreter fails only where there is a position.
LEMMA Failing ==
    ASSUME insts \in Seq(Decoded), \A n \in DOMAIN insts : Instruction(insts[n]), NEW in
    PROVE  /\ V!RunFragment(in).error \in BOOLEAN
           /\ V!RunFragment(in).error => \E n \in DOMAIN insts : insts[n][1] = V!OUT_POSITION
<1>1. Len(insts) \in Nat /\ DOMAIN insts = 1 .. Len(insts)
  OBVIOUS
<1>2. PICK f : /\ f[0] = V!Machine(in, <<Byte, 0, Byte, Byte>>) /\ V!RunFragment(in) = f[Len(insts)]
               /\ \A n \in 1 .. Len(insts) : f[n] = V!ScalarStep(f[n - 1], insts[n])
  BY <1>1, Fragments DEF V!RunFragment
<1> DEFINE Fine(n) == Machine(f[n]) /\ (f[n].error => \E k \in DOMAIN insts : insts[k][1] = V!OUT_POSITION)
           Wrong == {n \in 0 .. Len(insts) : ~ Fine(n)}
<1>3. 0 \notin Wrong
  <2> DEFINE c == <<Byte, 0, Byte, Byte>>
  <2>1. Machine(V!Machine(in, c)) /\ ~ V!Machine(in, c).error
    <3> HIDE DEF c
    <3> QED BY DEF V!Machine, Machine
  <2> QED BY <1>2, <2>1
<1>4. ASSUME NEW n \in 1 .. Len(insts), n - 1 \notin Wrong PROVE n \notin Wrong
  <2>1. n - 1 \in 0 .. Len(insts) /\ n \in DOMAIN insts
    BY <1>1
  <2>2. Fine(n - 1) /\ Instruction(insts[n])
    BY <1>4, <2>1
  <2>3. f[n] = V!ScalarStep(f[n - 1], insts[n])
    BY <1>2, <1>4
  <2>4. Machine(f[n]) /\ (f[n].error => f[n - 1].error \/ insts[n][1] = V!OUT_POSITION)
    BY <2>2, <2>3, ScalarKeeps
  <2>5. Fine(n)
    BY <2>1, <2>2, <2>4
  <2> QED BY <2>5
<1>5. Wrong = {}
  <2>1. Wrong \subseteq 0 .. Len(insts)
    OBVIOUS
  <2> HIDE DEF Wrong
  <2> QED BY <1>1, <1>3, <1>4, <2>1, Climb
<1>6. Fine(Len(insts))
  <2> HIDE DEF Fine
  <2> QED BY <1>1, <1>5
<1> QED BY <1>2, <1>6 DEF Machine

LEMMA ShaderInit == V!Init => ShaderInv
<1> SUFFICES ASSUME V!Init PROVE ShaderInv
  OBVIOUS
<1>1. insts = <<>> /\ failed = FALSE /\ clip = V!Nowhere /\ uniforms = [u \in 0 .. Uniforms - 1 |-> 0]
  BY DEF V!Init
<1>2. insts \in Seq(Decoded) /\ \A n \in DOMAIN insts : FALSE
  BY <1>1
<1>3. ~ clip.w > 0
  BY <1>1 DEF V!Nowhere
<1>4. V!OnlyPositionsFail /\ V!ShadedOnce
  BY <1>1, <1>3 DEF V!OnlyPositionsFail, V!ShadedOnce
<1>5. uniforms \in [0 .. Uniforms - 1 -> V!Float]
  <2>1. [u \in 0 .. Uniforms - 1 |-> 0] \in [0 .. Uniforms - 1 -> V!Float]
    BY DEF V!Float
  <2> QED BY <1>1, <2>1
<1>6. failed \in BOOLEAN /\ ~ failed
  BY <1>1, Zenon
<1> QED BY <1>2, <1>4, <1>5, <1>6 DEF ShaderInv

LEMMA ShaderStep == ASSUME ShaderInv, V!Next PROVE ShaderInv'
<1>1. /\ insts \in Seq(Decoded) /\ \A n \in DOMAIN insts : Instruction(insts[n])
      /\ uniforms \in [0 .. Uniforms - 1 -> V!Float] /\ failed \in BOOLEAN
      /\ (insts = <<>> => ~ failed) /\ V!OnlyPositionsFail /\ V!ShadedOnce
  BY DEF ShaderInv
<1>2. CASE \E w \in Programs : V!CreateShader(w)
  <2>1. PICK w \in Programs : V!CreateShader(w)
    BY <1>2
  <2>2. /\ insts = <<>> /\ insts' = V!Decode(w) /\ \A n \in DOMAIN V!Decode(w) : V!Decode(w)[n] # <<>>
        /\ UNCHANGED <<uniforms, written, clip, failed>>
    BY <2>1 DEF V!CreateShader
  <2>3. V!Decode(w) \in Seq(Decoded)
    BY <2>1, ShaderAssumption, Decodes
  <2>4. insts' \in Seq(Decoded) /\ \A n \in DOMAIN insts' : insts'[n] \in Decoded /\ insts'[n] # <<>>
    BY <2>2, <2>3
  <2>5. \A n \in DOMAIN insts' : Instruction(insts'[n])
    BY <2>4 DEF Decoded
  <2>6. ~ failed /\ ~ failed' /\ V!ShadedOnce'
    BY <1>1, <2>2 DEF V!ShadedOnce
  <2> QED BY <1>1, <2>2, <2>4, <2>5, <2>6 DEF ShaderInv, V!OnlyPositionsFail
<1>3. CASE V!DestroyShader
  <2>1. insts' = <<>> /\ uniforms' = [u \in DOMAIN uniforms |-> 0] /\ clip' = V!Nowhere /\ failed' = FALSE
    BY <1>3 DEF V!DestroyShader
  <2>2. insts' \in Seq(Decoded) /\ \A n \in DOMAIN insts' : FALSE
    BY <2>1
  <2>3. ~ clip'.w > 0
    BY <2>1 DEF V!Nowhere
  <2>4. uniforms' \in [0 .. Uniforms - 1 -> V!Float]
    BY <1>1, <2>1 DEF V!Float
  <2> QED BY <2>1, <2>2, <2>3, <2>4 DEF ShaderInv, V!OnlyPositionsFail, V!ShadedOnce
<1>4. CASE \E u \in 0 .. Uniforms - 1, v \in {-3, 5, NaN} : V!SetUniform(u, v)
  <2>1. PICK u \in 0 .. Uniforms - 1, v \in {-3, 5, NaN} : V!SetUniform(u, v)
    BY <1>4
  <2>2. uniforms' = [uniforms EXCEPT ![u] = v] /\ UNCHANGED <<insts, written, clip, failed>>
    BY <2>1 DEF V!SetUniform
  <2>3. uniforms' \in [0 .. Uniforms - 1 -> V!Float]
    <3>1. v \in V!Float
      BY DEF V!Float
    <3> QED BY <1>1, <2>2, <3>1
  <2> QED BY <1>1, <2>2, <2>3 DEF ShaderInv, V!OnlyPositionsFail, V!ShadedOnce
<1>5. CASE \E c \in Clips : V!Shade(c)
  <2>1. PICK c \in Clips : V!Shade(c)
    BY <1>5
  <2>2. /\ insts # <<>> /\ c.w > 0 /\ c.h > 0 /\ clip' = c /\ UNCHANGED <<insts, uniforms>>
        /\ V!ShadeTiled(c) \/ V!ShadeSimd(c) \/ V!ShadeScalar(c)
    BY <2>1 DEF V!Shade
  <2>3. V!ShadedOnce'
    <3>1. ~ failed' => \A p \in Screen : written'[p] = IF p \in V!Area(c) THEN 1 ELSE 0
      BY <2>2, Shaded
    <3>2. V!Area(clip)' = V!Area(c)
      BY <2>2 DEF V!Area, V!Columns, V!Rows
    <3> QED BY <2>2, <3>1, <3>2 DEF V!ShadedOnce
  <2>4. failed' = FALSE \/ failed' = V!RunFragment(V!InputsAt(c.x, c.y)).error
    BY <2>2 DEF V!ShadeTiled, V!ShadeSimd, V!ShadeScalar
  <2>5. failed' \in BOOLEAN /\ (failed' => \E n \in DOMAIN insts : insts[n][1] = V!OUT_POSITION)
    BY <1>1, <2>4, Failing, Zenon
  <2>6. V!OnlyPositionsFail'
    BY <2>2, <2>5 DEF V!OnlyPositionsFail, V!OUT_POSITION
  <2> QED BY <1>1, <2>2, <2>3, <2>5, <2>6 DEF ShaderInv
<1> QED BY <1>2, <1>3, <1>4, <1>5 DEF V!Next

LEMMA ShaderIsSafe == ASSUME ShaderInv PROVE V!TypeOK /\ V!ShadedOnce /\ V!InterpretersAgree /\ V!OnlyPositionsFail
<1>1. \A n \in DOMAIN insts : insts[n][1] \in DOMAIN V!Arity /\ Len(insts[n]) = 1 + V!Arity[insts[n][1]]
  BY Arities DEF ShaderInv, Instruction
<1> QED BY <1>1, Agreeing DEF ShaderInv, V!TypeOK

LEMMA ShaderStays == ASSUME ShaderInv, UNCHANGED shaderVars PROVE ShaderInv'
<1>1. UNCHANGED <<insts, uniforms, written, clip, failed>>
  BY DEF shaderVars
<1>2. V!OnlyPositionsFail' /\ V!ShadedOnce'
  BY <1>1 DEF ShaderInv, V!OnlyPositionsFail, V!ShadedOnce
<1> QED BY <1>1, <1>2 DEF ShaderInv
-----------------------------------------------------------------------------
(* Lines *)

\* One turn of the loop in the direction in which the line is longer: i and j count the
\* steps, D is how far the pen is from the line.
LEMMA OneTurn ==
    ASSUME NEW m \in Nat, NEW n \in Nat, NEW i \in 0 .. m, NEW j \in 0 .. n, n <= m,
           i # m \/ j # n, NEW gx \in BOOLEAN, NEW gy \in BOOLEAN,
           2 * (i * n - j * m) <= m, -(2 * (i * n - j * m)) <= m,
           2 * (i * n - j * m) < 2 * m - n => gx, 2 * (i * n - j * m) > 2 * m - n => ~ gx,
           2 * (j * m - i * n) < 2 * n - m => gy, 2 * (j * m - i * n) > 2 * n - m => ~ gy
    PROVE  /\ gx /\ i + 1 \in 0 .. m /\ (gy => j + 1 \in 0 .. n)
           /\ gy => 2 * ((i + 1) * n - (j + 1) * m) <= m /\ -(2 * ((i + 1) * n - (j + 1) * m)) <= m
           /\ ~ gy => 2 * ((i + 1) * n - j * m) <= m /\ -(2 * ((i + 1) * n - j * m)) <= m
<1> DEFINE u == i * n
           v == j * m
<1>1. u \in Int /\ v \in Int /\ (i + 1) * n = u + n /\ (j + 1) * m = v + m
  OBVIOUS
<1>2. m > 0
  OBVIOUS
<1>3. i < m
  <2> SUFFICES ASSUME i = m PROVE FALSE
    OBVIOUS
  <2>1. n - j >= 1 /\ n - j \in Nat
    OBVIOUS
  <2>2. 1 * m <= (n - j) * m
    BY <2>1, Monotone
  <2>3. (n - j) * m = u - v
    OBVIOUS
  <2> HIDE DEF u, v
  <2> QED BY <1>1, <1>2, <2>2, <2>3 DEF u, v
<1>4. gx
  <2>1. CASE n < m
    <3> HIDE DEF u, v
    <3> QED BY <1>1, <2>1 DEF u, v
  <2>2. CASE n = m /\ 2 * (u - v) < m
    BY <2>2
  <2>3. CASE n = m /\ 2 * (u - v) = m
    <3>1. u - v = (i - j) * m
      BY <2>3
    <3>2. CASE i - j >= 1
      <4>1. 1 * m <= (i - j) * m
        BY <3>2, Monotone
      <4> HIDE DEF u, v
      <4> QED BY <1>1, <1>2, <2>3, <3>1, <4>1
    <3>3. CASE i - j <= 0
      <4>1. (i - j) * m <= 0 * m
        BY <3>3, Monotone
      <4> HIDE DEF u, v
      <4> QED BY <1>1, <1>2, <2>3, <3>1, <4>1
    <3> QED BY <3>2, <3>3
  <2> QED BY <1>1, <2>1, <2>2, <2>3
<1>5. gy => j < n
  <2> SUFFICES ASSUME gy, j = n PROVE FALSE
    OBVIOUS
  <2>1. 1 * n <= (m - i) * n
    BY <1>3, Monotone
  <2>2. (m - i) * n = v - u
    OBVIOUS
  <2> HIDE DEF u, v
  <2> QED BY <1>1, <1>2, <2>1, <2>2 DEF u, v
<1>6. gy => 2 * (u + n - (v + m)) <= m /\ -(2 * (u + n - (v + m))) <= m
  <2> HIDE DEF u, v
  <2> QED BY <1>1 DEF u, v
<1>7. ~ gy => 2 * (u + n - v) <= m /\ -(2 * (u + n - v)) <= m
  <2> HIDE DEF u, v
  <2> QED BY <1>1 DEF u, v
<1> QED BY <1>1, <1>3, <1>4, <1>5, <1>6, <1>7

-----------------------------------------------------------------------------
(* Triangles *)
Plane == Int \X Int

LEMMA EdgeTypes ==
    ASSUME NEW a \in Plane, NEW b \in Plane, NEW p \in Plane
    PROVE  R!Edge(a, b, p) \in Int
BY DEF R!Edge, Plane

\* The edges that a triangle has with a point add up to the triangle.
LEMMA Turning ==
    ASSUME NEW a \in Plane, NEW b \in Plane, NEW c \in Plane, NEW p \in Plane
    PROVE  /\ R!Edge(a, b, p) + R!Edge(b, c, p) + R!Edge(c, a, p) = R!Edge(a, b, c)
           /\ R!Edge(b, c, a) = R!Edge(a, b, c) /\ R!Edge(c, a, b) = R!Edge(a, b, c)
           /\ R!Edge(a, c, p) = -R!Edge(c, a, p)
BY DEF R!Edge, Plane

LEMMA Products ==
    ASSUME NEW a1 \in Int, NEW a2 \in Int, NEW b1 \in Int, NEW b2 \in Int, NEW d1 \in Int, NEW d2 \in Int,
           NEW p1 \in Int, NEW p2 \in Int
    PROVE  (a1 * b2 - a2 * b1) * (p1 * d2 - p2 * d1)
             = (p1 * b2 - p2 * b1) * (a1 * d2 - a2 * d1) - (p1 * a2 - p2 * a1) * (b1 * d2 - b2 * d1)
OBVIOUS

LEMMA Balances ==
    ASSUME NEW a1 \in Int, NEW a2 \in Int, NEW b1 \in Int, NEW b2 \in Int, NEW c1 \in Int, NEW c2 \in Int
    PROVE  /\ (b1 * c2 - b2 * c1) * a1 + (c1 * a2 - c2 * a1) * b1 + (a1 * b2 - a2 * b1) * c1 = 0
           /\ (b1 * c2 - b2 * c1) * a2 + (c1 * a2 - c2 * a1) * b2 + (a1 * b2 - a2 * b1) * c2 = 0
OBVIOUS

\* Of a triangle and the side from c to some d
LEMMA Beyond ==
    ASSUME NEW a \in Plane, NEW b \in Plane, NEW c \in Plane, NEW d \in Plane, NEW p \in Plane
    PROVE  R!Edge(a, b, c) * R!Edge(c, d, p) = R!Edge(b, c, p) * R!Edge(c, d, a) + R!Edge(c, a, p) * R!Edge(c, d, b)
<1>1. /\ a[1] \in Int /\ a[2] \in Int /\ b[1] \in Int /\ b[2] \in Int /\ c[1] \in Int /\ c[2] \in Int
      /\ d[1] \in Int /\ d[2] \in Int /\ p[1] \in Int /\ p[2] \in Int
  BY DEF Plane
<1> DEFINE a1 == a[1] - c[1]  a2 == a[2] - c[2]  b1 == b[1] - c[1]  b2 == b[2] - c[2]
           d1 == d[1] - c[1]  d2 == d[2] - c[2]  p1 == p[1] - c[1]  p2 == p[2] - c[2]
<1>2. a1 \in Int /\ a2 \in Int /\ b1 \in Int /\ b2 \in Int
  BY <1>1
<1>3. d1 \in Int /\ d2 \in Int /\ p1 \in Int /\ p2 \in Int
  BY <1>1
<1>4. /\ R!Edge(a, b, c) = -(a1 * b2 - a2 * b1) /\ R!Edge(b, c, p) = -(p1 * b2 - p2 * b1)
      /\ R!Edge(c, a, p) = p1 * a2 - p2 * a1
  BY <1>1 DEF R!Edge
<1>5. /\ R!Edge(c, d, p) = p1 * d2 - p2 * d1 /\ R!Edge(c, d, a) = a1 * d2 - a2 * d1
      /\ R!Edge(c, d, b) = b1 * d2 - b2 * d1
  BY <1>1 DEF R!Edge
<1>6. (a1 * b2 - a2 * b1) * (p1 * d2 - p2 * d1)
             = (p1 * b2 - p2 * b1) * (a1 * d2 - a2 * d1) - (p1 * a2 - p2 * a1) * (b1 * d2 - b2 * d1)
  <2> HIDE DEF a1, a2, b1, b2, d1, d2, p1, p2
  <2> QED BY <1>2, <1>3, Products
<1> HIDE DEF a1, a2, b1, b2, d1, d2, p1, p2
<1> QED BY <1>2, <1>3, <1>4, <1>5, <1>6

LEMMA Balance ==
    ASSUME NEW a \in Plane, NEW b \in Plane, NEW c \in Plane, NEW p \in Plane, NEW k \in 1 .. 2
    PROVE  R!Edge(b, c, p) * (a[k] - p[k]) + R!Edge(c, a, p) * (b[k] - p[k]) + R!Edge(a, b, p) * (c[k] - p[k]) = 0
<1>1. /\ a[1] \in Int /\ a[2] \in Int /\ b[1] \in Int /\ b[2] \in Int /\ c[1] \in Int /\ c[2] \in Int
      /\ p[1] \in Int /\ p[2] \in Int
  BY DEF Plane
<1> DEFINE a1 == a[1] - p[1]  a2 == a[2] - p[2]  b1 == b[1] - p[1]  b2 == b[2] - p[2]
           c1 == c[1] - p[1]  c2 == c[2] - p[2]
<1>2. a1 \in Int /\ a2 \in Int /\ b1 \in Int /\ b2 \in Int
  BY <1>1
<1>3. c1 \in Int /\ c2 \in Int
  BY <1>1
<1>4. /\ R!Edge(b, c, p) = -(b1 * c2 - b2 * c1) /\ R!Edge(c, a, p) = -(c1 * a2 - c2 * a1)
      /\ R!Edge(a, b, p) = -(a1 * b2 - a2 * b1)
  BY <1>1 DEF R!Edge
<1>5. /\ (b1 * c2 - b2 * c1) * a1 + (c1 * a2 - c2 * a1) * b1 + (a1 * b2 - a2 * b1) * c1 = 0
      /\ (b1 * c2 - b2 * c1) * a2 + (c1 * a2 - c2 * a1) * b2 + (a1 * b2 - a2 * b1) * c2 = 0
  <2> HIDE DEF a1, a2, b1, b2, c1, c2
  <2> QED BY <1>2, <1>3, Balances
<1> DEFINE u == b1 * c2 - b2 * c1  v == c1 * a2 - c2 * a1  w == a1 * b2 - a2 * b1
<1>6. u \in Int /\ v \in Int /\ w \in Int
  <2> HIDE DEF a1, a2, b1, b2, c1, c2
  <2> QED BY <1>2, <1>3
<1>7. CASE k = 1
  <2>1. (-u) * a1 + (-v) * b1 + (-w) * c1 = 0
    <3>1. u * a1 + v * b1 + w * c1 = 0
      BY <1>5, Zenon
    <3> HIDE DEF u, v, w, a1, a2, b1, b2, c1, c2
    <3> QED BY <1>2, <1>3, <1>6, <3>1
  <2> HIDE DEF u, v, w
  <2>2. R!Edge(b, c, p) = -u /\ R!Edge(c, a, p) = -v /\ R!Edge(a, b, p) = -w
    BY <1>4, Zenon DEF u, v, w
  <2> QED BY <1>7, <2>1, <2>2
<1>8. CASE k = 2
  <2>1. (-u) * a2 + (-v) * b2 + (-w) * c2 = 0
    <3>1. u * a2 + v * b2 + w * c2 = 0
      BY <1>5, Zenon
    <3> HIDE DEF u, v, w, a1, a2, b1, b2, c1, c2
    <3> QED BY <1>2, <1>3, <1>6, <3>1
  <2> HIDE DEF u, v, w
  <2>2. R!Edge(b, c, p) = -u /\ R!Edge(c, a, p) = -v /\ R!Edge(a, b, p) = -w
    BY <1>4, Zenon DEF u, v, w
  <2> QED BY <1>8, <2>1, <2>2
<1> QED BY <1>7, <1>8

\* Three numbers of one sign, not all of them 0, do not balance three of one sign.
LEMMA Unbalanced ==
    ASSUME NEW u \in Nat, NEW v \in Nat, NEW w \in Nat, u + v + w # 0,
           NEW x1 \in Nat \ {0}, NEW x2 \in Nat \ {0}, NEW x3 \in Nat \ {0}
    PROVE  u * x1 + v * x2 + w * x3 > 0
<1>1. u * x1 \in Nat /\ v * x2 \in Nat /\ w * x3 \in Nat
  OBVIOUS
<1>2. u # 0 => u * x1 > 0
  OBVIOUS
<1>3. v # 0 => v * x2 > 0
  OBVIOUS
<1>4. w # 0 => w * x3 > 0
  OBVIOUS
<1> QED BY <1>1, <1>2, <1>3, <1>4

\* A point inside a triangle has a corner on either hand.
LEMMA Between ==
    ASSUME NEW a \in Plane, NEW b \in Plane, NEW c \in Plane, NEW p \in Plane, NEW k \in 1 .. 2,
           R!Edge(a, b, c) # 0,
           \/ (R!Edge(a, b, p) >= 0 /\ R!Edge(b, c, p) >= 0 /\ R!Edge(c, a, p) >= 0)
           \/ (R!Edge(a, b, p) <= 0 /\ R!Edge(b, c, p) <= 0 /\ R!Edge(c, a, p) <= 0)
    PROVE  /\ a[k] <= p[k] \/ b[k] <= p[k] \/ c[k] <= p[k]
           /\ a[k] >= p[k] \/ b[k] >= p[k] \/ c[k] >= p[k]
<1> DEFINE u == R!Edge(b, c, p)  v == R!Edge(c, a, p)  w == R!Edge(a, b, p)
           x1 == a[k] - p[k]  x2 == b[k] - p[k]  x3 == c[k] - p[k]
<1>1. u \in Int /\ v \in Int /\ w \in Int
  BY EdgeTypes
<1>2. a[k] \in Int /\ b[k] \in Int /\ c[k] \in Int /\ p[k] \in Int
  BY DEF Plane
<1>3. x1 \in Int /\ x2 \in Int /\ x3 \in Int
  BY <1>2
<1>4. u * x1 + v * x2 + w * x3 = 0
  BY Balance
<1>5. u + v + w # 0
  <2>1. w + u + v = R!Edge(a, b, c)
    BY Turning
  <2> QED BY <1>1, <2>1
<1>6. (u >= 0 /\ v >= 0 /\ w >= 0) \/ (u <= 0 /\ v <= 0 /\ w <= 0)
  OBVIOUS
<1> HIDE DEF u, v, w, x1, x2, x3
<1>7. /\ (-u) * x1 = -(u * x1) /\ u * (-x1) = -(u * x1) /\ (-u) * (-x1) = u * x1
      /\ (-v) * x2 = -(v * x2) /\ v * (-x2) = -(v * x2) /\ (-v) * (-x2) = v * x2
      /\ (-w) * x3 = -(w * x3) /\ w * (-x3) = -(w * x3) /\ (-w) * (-x3) = w * x3
      /\ u * x1 \in Int /\ v * x2 \in Int /\ w * x3 \in Int
  BY <1>1, <1>3
<1>8. ASSUME x1 > 0, x2 > 0, x3 > 0 PROVE FALSE
  <2>0. x1 \in Nat \ {0} /\ x2 \in Nat \ {0} /\ x3 \in Nat \ {0}
    BY <1>3, <1>8
  <2>1. CASE u >= 0 /\ v >= 0 /\ w >= 0
    <3>1. u * x1 + v * x2 + w * x3 > 0
      BY <1>1, <1>5, <2>0, <2>1, Unbalanced
    <3> QED BY <1>4, <1>7, <3>1
  <2>2. CASE u <= 0 /\ v <= 0 /\ w <= 0
    <3>1. -u \in Nat /\ -v \in Nat /\ -w \in Nat /\ (-u) + (-v) + (-w) # 0
      BY <1>1, <1>5, <2>2
    <3>2. (-u) * x1 + (-v) * x2 + (-w) * x3 > 0
      BY <2>0, <3>1, Unbalanced
    <3> QED BY <1>4, <1>7, <3>2
  <2> QED BY <1>6, <2>1, <2>2
<1>9. ASSUME x1 < 0, x2 < 0, x3 < 0 PROVE FALSE
  <2>0. -x1 \in Nat \ {0} /\ -x2 \in Nat \ {0} /\ -x3 \in Nat \ {0}
    BY <1>3, <1>9
  <2>1. CASE u >= 0 /\ v >= 0 /\ w >= 0
    <3>1. u * (-x1) + v * (-x2) + w * (-x3) > 0
      BY <1>1, <1>5, <2>0, <2>1, Unbalanced
    <3> QED BY <1>4, <1>7, <3>1
  <2>2. CASE u <= 0 /\ v <= 0 /\ w <= 0
    <3>1. -u \in Nat /\ -v \in Nat /\ -w \in Nat /\ (-u) + (-v) + (-w) # 0
      BY <1>1, <1>5, <2>2
    <3>2. (-u) * (-x1) + (-v) * (-x2) + (-w) * (-x3) > 0
      BY <2>0, <3>1, Unbalanced
    <3> QED BY <1>4, <1>7, <3>2
  <2> QED BY <1>6, <2>1, <2>2
<1> QED BY <1>2, <1>8, <1>9 DEF x1, x2, x3

LEMMA Extremes ==
    ASSUME NEW a \in Int, NEW b \in Int, NEW c \in Int
    PROVE  /\ R!Least({a, b, c}) \in {a, b, c} /\ \A s \in {a, b, c} : R!Least({a, b, c}) <= s
           /\ R!Most({a, b, c}) \in {a, b, c} /\ \A s \in {a, b, c} : R!Most({a, b, c}) >= s
<1>1. \E m \in {a, b, c} : \A s \in {a, b, c} : m <= s
  <2>1. CASE a <= b /\ a <= c
    BY <2>1
  <2>2. CASE b <= a /\ b <= c
    BY <2>2
  <2>3. CASE c <= a /\ c <= b
    BY <2>3
  <2> QED BY <2>1, <2>2, <2>3
<1>2. \E m \in {a, b, c} : \A s \in {a, b, c} : m >= s
  <2>1. CASE a >= b /\ a >= c
    BY <2>1
  <2>2. CASE b >= a /\ b >= c
    BY <2>2
  <2>3. CASE c >= a /\ c >= b
    BY <2>3
  <2> QED BY <2>1, <2>2, <2>3
<1> QED BY <1>1, <1>2 DEF R!Least, R!Most

\* Twice as large, with the centres of pixels among the points
LEMMA Doubled ==
    ASSUME NEW a \in Plane, NEW b \in Plane, NEW c \in Plane, NEW p \in Plane
    PROVE  /\ R!Twice(a) \in Plane /\ R!Centre(p) \in Plane
           /\ R!Edge(R!Twice(a), R!Twice(b), R!Twice(c)) = 4 * R!Edge(a, b, c)
<1>1. /\ a[1] \in Int /\ a[2] \in Int /\ b[1] \in Int /\ b[2] \in Int /\ c[1] \in Int /\ c[2] \in Int
      /\ p[1] \in Int /\ p[2] \in Int
  BY DEF Plane
<1>2. R!Twice(a) \in Plane /\ R!Centre(p) \in Plane
  BY <1>1 DEF R!Twice, R!Centre, Plane
<1>3. /\ R!Twice(a)[1] = 2 * a[1] /\ R!Twice(a)[2] = 2 * a[2] /\ R!Twice(b)[1] = 2 * b[1]
      /\ R!Twice(b)[2] = 2 * b[2] /\ R!Twice(c)[1] = 2 * c[1] /\ R!Twice(c)[2] = 2 * c[2]
  BY DEF R!Twice
<1>4. R!Edge(R!Twice(a), R!Twice(b), R!Twice(c)) = 4 * R!Edge(a, b, c)
  BY <1>1, <1>3 DEF R!Edge
<1> QED BY <1>2, <1>4

Side(a, b, p) == R!Edge(R!Twice(a), R!Twice(b), R!Centre(p))

\* The bounding box takes nothing away from a triangle.
LEMMA TriangleIs ==
    ASSUME NEW a \in Plane, NEW b \in Plane, NEW c \in Plane, R!Edge(a, b, c) # 0
    PROVE  R!Triangle(<<a, b, c>>) =
             {p \in R!Target :
                \/ (Side(a, b, p) >= 0 /\ Side(b, c, p) >= 0 /\ Side(c, a, p) >= 0)
                \/ (Side(a, b, p) <= 0 /\ Side(b, c, p) <= 0 /\ Side(c, a, p) <= 0)}
<1> DEFINE t == <<a, b, c>>
           xs == {t[i][1] : i \in 1 .. 3}  ys == {t[i][2] : i \in 1 .. 3}
           Box == (R!Least(xs) .. R!Most(xs)) \X (R!Least(ys) .. R!Most(ys))
           In(p) == \/ (Side(a, b, p) >= 0 /\ Side(b, c, p) >= 0 /\ Side(c, a, p) >= 0)
                    \/ (Side(a, b, p) <= 0 /\ Side(b, c, p) <= 0 /\ Side(c, a, p) <= 0)
<1>1. t[1] = a /\ t[2] = b /\ t[3] = c
  OBVIOUS
<1>2. R!Triangle(t) = {p \in Box \cap R!Target : R!Inside(t, p)}
  BY <1>1 DEF R!Triangle
<1>3. ASSUME NEW p PROVE R!Inside(t, p) <=> In(p)
  <2>1. R!Inside(t, p) <=> LET w == {Side(a, b, p), Side(b, c, p), Side(c, a, p)}
                           IN  (\A v \in w : v >= 0) \/ (\A v \in w : v <= 0)
    BY <1>1, Zenon DEF R!Inside, Side
  <2> QED BY <2>1
<1>4. xs = {a[1], b[1], c[1]} /\ ys = {a[2], b[2], c[2]}
  <2>1. 1 .. 3 = {1, 2, 3}
    OBVIOUS
  <2> HIDE DEF t
  <2>2. \A k : {t[i][k] : i \in {1, 2, 3}} = {t[1][k], t[2][k], t[3][k]}
    OBVIOUS
  <2> QED BY <1>1, <2>1, <2>2
<1>5. /\ a[1] \in Int /\ a[2] \in Int /\ b[1] \in Int /\ b[2] \in Int /\ c[1] \in Int /\ c[2] \in Int
  BY DEF Plane
<1>6. ASSUME NEW p \in R!Target, In(p) PROVE p \in Box
  <2>1. p \in Plane /\ p = <<p[1], p[2]>> /\ p[1] \in Int /\ p[2] \in Int
    BY PictureAssumption DEF R!Target, Plane
  <2>2. R!Edge(R!Twice(a), R!Twice(b), R!Twice(c)) # 0
    <3>1. R!Edge(a, b, c) \in Int
      BY EdgeTypes
    <3> QED BY <3>1, Doubled
  <2>3. R!Twice(a) \in Plane /\ R!Twice(b) \in Plane /\ R!Twice(c) \in Plane /\ R!Centre(p) \in Plane
    BY <2>1, Doubled
  <2>4. ASSUME NEW k \in 1 .. 2
        PROVE  p[k] \in R!Least({a[k], b[k], c[k]}) .. R!Most({a[k], b[k], c[k]})
    <3>1. /\ R!Twice(a)[k] <= R!Centre(p)[k] \/ R!Twice(b)[k] <= R!Centre(p)[k] \/ R!Twice(c)[k] <= R!Centre(p)[k]
          /\ R!Twice(a)[k] >= R!Centre(p)[k] \/ R!Twice(b)[k] >= R!Centre(p)[k] \/ R!Twice(c)[k] >= R!Centre(p)[k]
      BY <1>6, <2>2, <2>3, Between DEF Side
    <3>2. /\ R!Twice(a)[k] = 2 * a[k] /\ R!Twice(b)[k] = 2 * b[k] /\ R!Twice(c)[k] = 2 * c[k]
          /\ R!Centre(p)[k] = 2 * p[k] + 1
      BY DEF R!Twice, R!Centre
    <3>3. a[k] \in Int /\ b[k] \in Int /\ c[k] \in Int /\ p[k] \in Int
      BY <1>5, <2>1
    <3>4. \E s \in {a[k], b[k], c[k]} : s <= p[k]
      BY <3>1, <3>2, <3>3
    <3>5. \E s \in {a[k], b[k], c[k]} : s >= p[k]
      BY <3>1, <3>2, <3>3
    <3>6. /\ R!Least({a[k], b[k], c[k]}) \in Int /\ \A s \in {a[k], b[k], c[k]} : R!Least({a[k], b[k], c[k]}) <= s
          /\ R!Most({a[k], b[k], c[k]}) \in Int /\ \A s \in {a[k], b[k], c[k]} : R!Most({a[k], b[k], c[k]}) >= s
      BY <3>3, Extremes
    <3> QED BY <3>3, <3>4, <3>5, <3>6
  <2>5. /\ p[1] \in R!Least({a[1], b[1], c[1]}) .. R!Most({a[1], b[1], c[1]})
        /\ p[2] \in R!Least({a[2], b[2], c[2]}) .. R!Most({a[2], b[2], c[2]})
    BY <2>4
  <2> QED BY <1>4, <2>1, <2>5
<1> HIDE DEF t, Box, In
<1>7. R!Triangle(t) = {p \in R!Target : In(p)}
  BY <1>2, <1>3, <1>6
<1> QED BY <1>7 DEF t, In

LEMMA Positive ==
    ASSUME NEW u \in Nat \ {0}, NEW e \in Int, NEW x1 \in Nat, NEW x2 \in Nat, NEW y1 \in Nat, NEW y2 \in Nat,
           u * e = x1 * y1 + x2 * y2
    PROVE  e >= 0
<1>1. x1 * y1 >= 0 /\ x2 * y2 >= 0 /\ x1 * y1 \in Int /\ x2 * y2 \in Int
  OBVIOUS
<1>2. u * e >= 0
  BY <1>1
<1>3. e < 0 => u * e < 0
  OBVIOUS
<1>4. u * e \in Int
  OBVIOUS
<1> QED BY <1>2, <1>3, <1>4

\* The sides e1 .. e4 of a quadrangle and its diagonal w, as a point sees them, and the turns
\* at its corners
Facing(e1, e2, e3, e4, w, s1, s2, s3, s4) ==
    /\ e1 + e2 + w = s1 /\ e3 + e4 - w = s3
    /\ s1 * e3 = e2 * s3 + w * s2 /\ s1 * e4 = w * s4 + e1 * s3
    /\ s3 * e1 = e4 * s1 + (-w) * s4 /\ s3 * e2 = (-w) * s2 + e3 * s1

\* Who is on one side of all three edges of a triangle is on one side of all four edges.
NoGap(e1, e2, e3, e4, w) ==
    LET one == (e1 >= 0 /\ e2 >= 0 /\ w >= 0) \/ (e1 <= 0 /\ e2 <= 0 /\ w <= 0)
        other == (-w >= 0 /\ e3 >= 0 /\ e4 >= 0) \/ (-w <= 0 /\ e3 <= 0 /\ e4 <= 0)
        all == (e1 >= 0 /\ e2 >= 0 /\ e3 >= 0 /\ e4 >= 0) \/ (e1 <= 0 /\ e2 <= 0 /\ e3 <= 0 /\ e4 <= 0)
    IN  (one \/ other) <=> all

LEMMA LeftTurns ==
    ASSUME NEW e1 \in Int, NEW e2 \in Int, NEW e3 \in Int, NEW e4 \in Int, NEW w \in Int,
           NEW s1 \in Nat \ {0}, NEW s2 \in Nat \ {0}, NEW s3 \in Nat \ {0}, NEW s4 \in Nat \ {0},
           Facing(e1, e2, e3, e4, w, s1, s2, s3, s4)
    PROVE  NoGap(e1, e2, e3, e4, w)
<1>1. e1 + e2 + w = s1 /\ e3 + e4 - w = s3
  BY DEF Facing
<1>2. ~ (e1 <= 0 /\ e2 <= 0 /\ w <= 0) /\ ~ (-w <= 0 /\ e3 <= 0 /\ e4 <= 0)
      /\ ~ (e1 <= 0 /\ e2 <= 0 /\ e3 <= 0 /\ e4 <= 0)
  BY <1>1
<1>3. ASSUME e1 >= 0, e2 >= 0, w >= 0 PROVE e3 >= 0 /\ e4 >= 0
  <2>1. e1 \in Nat /\ e2 \in Nat /\ w \in Nat /\ s3 \in Nat /\ s2 \in Nat /\ s4 \in Nat
    BY <1>3
  <2>2. s1 * e3 = e2 * s3 + w * s2 /\ s1 * e4 = w * s4 + e1 * s3
    BY DEF Facing
  <2>3. e3 >= 0
    BY <2>1, <2>2, Positive
  <2>4. e4 >= 0
    BY <2>1, <2>2, Positive
  <2> QED BY <2>3, <2>4
<1>4. ASSUME -w >= 0, e3 >= 0, e4 >= 0 PROVE e1 >= 0 /\ e2 >= 0
  <2>1. e3 \in Nat /\ e4 \in Nat /\ -w \in Nat /\ s1 \in Nat /\ s2 \in Nat /\ s4 \in Nat
    BY <1>4
  <2>2. s3 * e1 = e4 * s1 + (-w) * s4 /\ s3 * e2 = (-w) * s2 + e3 * s1
    BY DEF Facing
  <2>3. e1 >= 0
    BY <2>1, <2>2, Positive
  <2>4. e2 >= 0
    BY <2>1, <2>2, Positive
  <2> QED BY <2>3, <2>4
<1> QED BY <1>2, <1>3, <1>4 DEF NoGap

LEMMA AnyTurns ==
    ASSUME NEW e1 \in Int, NEW e2 \in Int, NEW e3 \in Int, NEW e4 \in Int, NEW w \in Int,
           NEW s1 \in Int, NEW s2 \in Int, NEW s3 \in Int, NEW s4 \in Int,
           \/ (s1 > 0 /\ s2 > 0 /\ s3 > 0 /\ s4 > 0)
           \/ (s1 < 0 /\ s2 < 0 /\ s3 < 0 /\ s4 < 0),
           Facing(e1, e2, e3, e4, w, s1, s2, s3, s4)
    PROVE  NoGap(e1, e2, e3, e4, w)
<1>1. CASE s1 > 0 /\ s2 > 0 /\ s3 > 0 /\ s4 > 0
  <2>1. s1 \in Nat \ {0} /\ s2 \in Nat \ {0} /\ s3 \in Nat \ {0} /\ s4 \in Nat \ {0}
    BY <1>1
  <2> QED BY <2>1, LeftTurns
<1>2. CASE s1 < 0 /\ s2 < 0 /\ s3 < 0 /\ s4 < 0
  <2>1. -s1 \in Nat \ {0} /\ -s2 \in Nat \ {0} /\ -s3 \in Nat \ {0} /\ -s4 \in Nat \ {0}
    BY <1>2
  <2>2. \A x1, x2 \in Int : (-x1) * (-x2) = x1 * x2 /\ (- -x1) * (-x2) = (-x1) * x2
    OBVIOUS
  <2>3. -w \in Int /\ -e1 \in Int /\ -e2 \in Int /\ -e3 \in Int /\ -e4 \in Int
    OBVIOUS
  <2>4. Facing(-e1, -e2, -e3, -e4, -w, -s1, -s2, -s3, -s4)
    <3>1. (-e1) + (-e2) + (-w) = -s1 /\ (-e3) + (-e4) - (-w) = -s3
      BY DEF Facing
    <3>2. (-s1) * (-e3) = (-e2) * (-s3) + (-w) * (-s2) /\ (-s1) * (-e4) = (-w) * (-s4) + (-e1) * (-s3)
      BY <2>2 DEF Facing
    <3>3. (-s3) * (-e1) = (-e4) * (-s1) + (- -w) * (-s4) /\ (-s3) * (-e2) = (- -w) * (-s2) + (-e3) * (-s1)
      BY <2>2 DEF Facing
    <3> QED BY <3>1, <3>2, <3>3, Zenon DEF Facing
  <2>5. NoGap(-e1, -e2, -e3, -e4, -w)
    BY <2>1, <2>3, <2>4, LeftTurns, Zenon
  <2> QED BY <2>5 DEF NoGap
<1> QED BY <1>1, <1>2

\* What a point sees of a convex quadrangle
LEMMA Faced ==
    ASSUME NEW a \in Plane, NEW b \in Plane, NEW c \in Plane, NEW d \in Plane, NEW p \in Plane
    PROVE  /\ R!Edge(a, c, p) = -R!Edge(c, a, p) /\ R!Edge(a, c, d) = R!Edge(c, d, a)
           /\ Facing(R!Edge(a, b, p), R!Edge(b, c, p), R!Edge(c, d, p), R!Edge(d, a, p), R!Edge(c, a, p),
                     R!Edge(a, b, c), R!Edge(b, c, d), R!Edge(c, d, a), R!Edge(d, a, b))
<1> DEFINE E(x1, x2, x3) == R!Edge(x1, x2, x3)
<1>1. \A x1, x2, x3 \in Plane : /\ E(x1, x2, x3) \in Int /\ E(x2, x1, x3) = -E(x1, x2, x3)
                                /\ E(x2, x3, x1) = E(x1, x2, x3) /\ E(x3, x1, x2) = E(x1, x2, x3)
  BY EdgeTypes, Turning
<1> HIDE DEF E
<1>2. E(a, c, p) = -E(c, a, p) /\ E(a, c, d) = E(c, d, a)
  BY <1>1
<1>3. E(a, b, p) + E(b, c, p) + E(c, a, p) = E(a, b, c) /\ E(c, d, p) + E(d, a, p) + E(a, c, p) = E(c, d, a)
  BY Turning DEF E
<1>4. E(c, d, p) + E(d, a, p) - E(c, a, p) = E(c, d, a)
  BY <1>1, <1>2, <1>3
<1>5. /\ E(a, b, c) * E(c, d, p) = E(b, c, p) * E(c, d, a) + E(c, a, p) * E(c, d, b)
      /\ E(b, c, a) * E(a, d, p) = E(c, a, p) * E(a, d, b) + E(a, b, p) * E(a, d, c)
      /\ E(c, d, a) * E(a, b, p) = E(d, a, p) * E(a, b, c) + E(a, c, p) * E(a, b, d)
      /\ E(d, a, c) * E(c, b, p) = E(a, c, p) * E(c, b, d) + E(c, d, p) * E(c, b, a)
  BY Beyond DEF E
<1>6. /\ E(c, d, b) = E(b, c, d) /\ E(b, c, a) = E(a, b, c) /\ E(a, d, b) = -E(d, a, b) /\ E(a, d, c) = -E(c, d, a)
      /\ E(a, d, p) = -E(d, a, p) /\ E(a, b, d) = E(d, a, b) /\ E(d, a, c) = E(c, d, a) /\ E(c, b, p) = -E(b, c, p)
      /\ E(c, b, d) = -E(b, c, d) /\ E(c, b, a) = -E(a, b, c)
  BY <1>1
<1>7. \A x1, x2 \in Int : x1 * (-x2) = -(x1 * x2) /\ (-x1) * x2 = -(x1 * x2) /\ x1 * x2 \in Int
  OBVIOUS
<1>8. /\ E(a, b, c) * E(c, d, p) = E(b, c, p) * E(c, d, a) + E(c, a, p) * E(b, c, d)
      /\ E(c, d, a) * E(a, b, p) = E(d, a, p) * E(a, b, c) + (-E(c, a, p)) * E(d, a, b)
  BY <1>2, <1>5, <1>6
<1>9. E(a, b, c) * E(d, a, p) = E(c, a, p) * E(d, a, b) + E(a, b, p) * E(c, d, a)
  <2>1. E(a, b, c) * (-E(d, a, p)) = E(c, a, p) * (-E(d, a, b)) + E(a, b, p) * (-E(c, d, a))
    BY <1>5, <1>6
  <2> QED BY <1>1, <1>7, <2>1
<1>10. E(c, d, a) * E(b, c, p) = (-E(c, a, p)) * E(b, c, d) + E(c, d, p) * E(a, b, c)
  <2>1. E(c, d, a) * (-E(b, c, p)) = (-E(c, a, p)) * (-E(b, c, d)) + E(c, d, p) * (-E(a, b, c))
    BY <1>2, <1>5, <1>6
  <2> QED BY <1>1, <1>7, <2>1
<1> QED BY <1>2, <1>3, <1>4, <1>8, <1>9, <1>10 DEF E, Facing

-----------------------------------------------------------------------------
(* The invariant of a drawing *)

\* A place that is i steps in x and j in y from the first point
At(i, j) == <<ends[1][1] + i * R!Toward(1), ends[1][2] + j * R!Toward(2)>>
Near(i, j) ==
    LET m == i * R!Dy - j * R!Dx
        far == IF R!Dx > R!Dy THEN R!Dx ELSE R!Dy
    IN  i \in 0 .. R!Dx /\ j \in 0 .. R!Dy /\ 2 * m <= far /\ -(2 * m) <= far

LineInv ==
    /\ ends = <<ends[1], ends[2]>> /\ ends[1] \in Plane /\ ends[2] \in Plane
    /\ \E i, j : Near(i, j) /\ pen.at = At(i, j) /\ pen.err = R!Dx - R!Dy - (i * R!Dy - j * R!Dx)
    /\ \A p \in dots : \E i, j : Near(i, j) /\ p = At(i, j)

RasterInv ==
    /\ shape \in {"none", "line", "vertices", "quad"} /\ pen.err \in Int /\ IsFiniteSet(dots)
    /\ shape \in {"line", "vertices"} => LineInv
    /\ R!QuadHasNoGap

LEMMA PointsArePlane == R!Points \subseteq Plane
BY RasterAssumption DEF R!Points, Plane

\* How long a line is
LEMMA Sizes ==
    ASSUME ends[1] \in Plane, ends[2] \in Plane
    PROVE  /\ R!Dx \in Nat /\ R!Dy \in Nat /\ R!Toward(1) \in {1, -1} /\ R!Toward(2) \in {1, -1}
           /\ ends[2][1] = ends[1][1] + R!Dx * R!Toward(1) /\ ends[2][2] = ends[1][2] + R!Dy * R!Toward(2)
           /\ ends[1][1] \in Int /\ ends[1][2] \in Int /\ ends[2] = <<ends[2][1], ends[2][2]>>
BY DEF R!Dx, R!Dy, R!Toward, R!Abs, Plane

LEMMA LeastOfTwo ==
    ASSUME NEW a \in Int, NEW b \in Int
    PROVE  /\ R!Least({a, b}) = (IF a <= b THEN a ELSE b)
           /\ R!Most({a, b}) = (IF a <= b THEN b ELSE a)
<1>1. \E m \in {a, b} : \A s \in {a, b} : m <= s
  BY DEF R!Least
<1>2. \E m \in {a, b} : \A s \in {a, b} : m >= s
  OBVIOUS
<1>3. R!Least({a, b}) \in {a, b} /\ \A s \in {a, b} : R!Least({a, b}) <= s
  BY <1>1 DEF R!Least
<1>4. R!Most({a, b}) \in {a, b} /\ \A s \in {a, b} : R!Most({a, b}) >= s
  BY <1>2 DEF R!Most
<1> QED BY <1>3, <1>4

LEMMA OnCourse == ASSUME RasterInv PROVE R!LineOnCourse
<1> DEFINE far == IF R!Dx > R!Dy THEN R!Dx ELSE R!Dy
<1> SUFFICES ASSUME shape \in {"line", "vertices"}, NEW p \in dots
             PROVE  /\ \A i \in 1 .. 2 : p[i] \in R!Least({ends[1][i], ends[2][i]}) .. R!Most({ends[1][i], ends[2][i]})
                    /\ 2 * R!Abs(R!Edge(ends[1], ends[2], p)) <= far
  BY DEF R!LineOnCourse
<1>1. LineInv
  BY DEF RasterInv
<1>2. PICK i, j : Near(i, j) /\ p = At(i, j)
  BY <1>1 DEF LineInv
<1> DEFINE sx == R!Toward(1)  sy == R!Toward(2)  dx == R!Dx  dy == R!Dy
           a1 == ends[1][1]  a2 == ends[1][2]  b1 == ends[2][1]  b2 == ends[2][2]
<1>3. /\ dx \in Nat /\ dy \in Nat /\ sx \in {1, -1} /\ sy \in {1, -1} /\ b1 = a1 + dx * sx /\ b2 = a2 + dy * sy
      /\ a1 \in Int /\ a2 \in Int
  BY <1>1, Sizes DEF LineInv
<1>4. /\ i \in 0 .. dx /\ j \in 0 .. dy /\ 2 * (i * dy - j * dx) <= far /\ -(2 * (i * dy - j * dx)) <= far
  BY <1>2 DEF Near
<1>5. p[1] = a1 + i * sx /\ p[2] = a2 + j * sy
  BY <1>2 DEF At
<1>6. R!Edge(ends[1], ends[2], p) = (p[1] - a1) * (b2 - a2) - (p[2] - a2) * (b1 - a1)
  BY DEF R!Edge
<1> DEFINE e == R!Edge(ends[1], ends[2], p)
<1>7. /\ \A k \in 1 .. 2 : p[k] \in (IF ends[1][k] <= ends[2][k] THEN ends[1][k] ELSE ends[2][k])
                                   .. (IF ends[1][k] <= ends[2][k] THEN ends[2][k] ELSE ends[1][k])
      /\ \A k \in 1 .. 2 : ends[1][k] \in Int /\ ends[2][k] \in Int
  <2>1. p[1] \in (IF a1 <= b1 THEN a1 ELSE b1) .. (IF a1 <= b1 THEN b1 ELSE a1) /\ b1 \in Int
    <3> HIDE DEF a1, b1, dx, sx, dy, sy, a2, b2
    <3> QED BY <1>3, <1>4, <1>5
  <2>2. p[2] \in (IF a2 <= b2 THEN a2 ELSE b2) .. (IF a2 <= b2 THEN b2 ELSE a2) /\ b2 \in Int
    <3> HIDE DEF a1, b1, dx, sx, dy, sy, a2, b2
    <3> QED BY <1>3, <1>4, <1>5
  <2> QED BY <1>3, <2>1, <2>2
<1>8. \A k \in 1 .. 2 : p[k] \in R!Least({ends[1][k], ends[2][k]}) .. R!Most({ends[1][k], ends[2][k]})
  BY <1>7, LeastOfTwo
<1>9. e = i * dy - j * dx \/ e = -(i * dy - j * dx)
  <2> HIDE DEF a1, b1, dx, sx, dy, sy, a2, b2
  <2>1. p[1] - a1 = i * sx /\ p[2] - a2 = j * sy /\ b1 - a1 = dx * sx /\ b2 - a2 = dy * sy
    BY <1>3, <1>4, <1>5
  <2>2. e = (i * sx) * (dy * sy) - (j * sy) * (dx * sx)
    BY <1>6, <2>1
  <2>3. CASE sx = 1 /\ sy = 1
    BY <1>3, <1>4, <2>2, <2>3
  <2>4. CASE sx = -1 /\ sy = 1
    BY <1>3, <1>4, <2>2, <2>4
  <2>5. CASE sx = 1 /\ sy = -1
    BY <1>3, <1>4, <2>2, <2>5
  <2>6. CASE sx = -1 /\ sy = -1
    BY <1>3, <1>4, <2>2, <2>6
  <2> QED BY <1>3, <2>3, <2>4, <2>5, <2>6
<1>10. 2 * R!Abs(e) <= far
  <2> DEFINE m == i * dy - j * dx
  <2>1. m \in Int /\ far \in Int
    BY <1>3, <1>4
  <2>2. 2 * m <= far /\ -(2 * m) <= far /\ (e = m \/ e = -m)
    BY <1>4, <1>9
  <2> HIDE DEF e, m, far
  <2> QED BY <2>1, <2>2 DEF R!Abs
<1> QED BY <1>8, <1>10

\* One turn of the loop, whichever direction the line is longer in
LEMMA Turned ==
    ASSUME ends[1] \in Plane, ends[2] \in Plane, shape \in {"line", "vertices"},
           NEW i, NEW j, Near(i, j), pen.at = At(i, j), pen.at # ends[2],
           pen.err = R!Dx - R!Dy - (i * R!Dy - j * R!Dx)
    PROVE  /\ R!Goes[1] \in BOOLEAN /\ R!Goes[2] \in BOOLEAN
           /\ Near(i + (IF R!Goes[1] THEN 1 ELSE 0), j + (IF R!Goes[2] THEN 1 ELSE 0))
<1> DEFINE dx == R!Dx  dy == R!Dy  gx == R!Goes[1]  gy == R!Goes[2]
           far == IF dx > dy THEN dx ELSE dy
<1>1. dx \in Nat /\ dy \in Nat
  BY Sizes
<1>2. i \in 0 .. dx /\ j \in 0 .. dy /\ 2 * (i * dy - j * dx) <= far /\ -(2 * (i * dy - j * dx)) <= far
  BY DEF Near
<1>3. i # dx \/ j # dy
  <2> SUFFICES ASSUME i = dx, j = dy PROVE FALSE
    OBVIOUS
  <2>1. At(i, j) = ends[2]
    BY Sizes DEF At
  <2> QED BY <2>1
<1>4. /\ gx = (IF shape = "line" THEN 2 * pen.err >= -dy ELSE 2 * pen.err > -dy)
      /\ gy = (IF shape = "line" THEN 2 * pen.err <= dx ELSE 2 * pen.err < dx)
  BY DEF R!Goes
<1>5. pen.err = dx - dy - (i * dy - j * dx)
  OBVIOUS
<1> HIDE DEF gx, gy
<1>6. /\ gx \in BOOLEAN /\ (gx <=> IF shape = "line" THEN 2 * pen.err >= -dy ELSE 2 * pen.err > -dy)
      /\ gy \in BOOLEAN /\ (gy <=> IF shape = "line" THEN 2 * pen.err <= dx ELSE 2 * pen.err < dx)
  <2>1. CASE shape = "line"
    <3>1. gx = (2 * pen.err >= -dy) /\ gy = (2 * pen.err <= dx)
      BY <1>4, <2>1
    <3>2. gx \in BOOLEAN /\ gy \in BOOLEAN
      BY <3>1, SMT
    <3>3. (gx <=> 2 * pen.err >= -dy) /\ (gy <=> 2 * pen.err <= dx)
      BY <3>1, Zenon
    <3> QED BY <2>1, <3>2, <3>3
  <2>2. CASE shape # "line"
    <3>1. gx = (2 * pen.err > -dy) /\ gy = (2 * pen.err < dx)
      BY <1>4, <2>2
    <3>2. gx \in BOOLEAN /\ gy \in BOOLEAN
      BY <3>1, SMT
    <3>3. (gx <=> 2 * pen.err > -dy) /\ (gy <=> 2 * pen.err < dx)
      BY <3>1, Zenon
    <3> QED BY <2>2, <3>2, <3>3
  <2> QED BY <2>1, <2>2
<1>7. i * dy \in Int /\ j * dx \in Int
  BY <1>1, <1>2
<1> HIDE DEF dx, dy, gx, gy
<1>8. /\ 2 * (i * dy - j * dx) < 2 * dx - dy => gx
      /\ 2 * (i * dy - j * dx) > 2 * dx - dy => ~ gx
      /\ 2 * (j * dx - i * dy) < 2 * dy - dx => gy
      /\ 2 * (j * dx - i * dy) > 2 * dy - dx => ~ gy
  <2> DEFINE u == i * dy  v == j * dx
  <2>1. pen.err = dx - dy - (u - v) /\ u \in Int /\ v \in Int
    BY <1>5, <1>7
  <2> HIDE DEF u, v
  <2>2. /\ 2 * (u - v) < 2 * dx - dy => 2 * pen.err > -dy
        /\ 2 * (u - v) > 2 * dx - dy => 2 * pen.err < -dy
        /\ 2 * (v - u) < 2 * dy - dx => 2 * pen.err < dx
        /\ 2 * (v - u) > 2 * dy - dx => 2 * pen.err > dx
    BY <1>1, <2>1
  <2>3. pen.err \in Int
    BY <1>1, <2>1
  <2>4. /\ 2 * (u - v) < 2 * dx - dy => gx
        /\ 2 * (u - v) > 2 * dx - dy => ~ gx
    BY <1>1, <1>6, <2>2, <2>3
  <2>5. /\ 2 * (v - u) < 2 * dy - dx => gy
        /\ 2 * (v - u) > 2 * dy - dx => ~ gy
    BY <1>1, <1>6, <2>2, <2>3
  <2> QED BY <2>4, <2>5 DEF u, v
<1> DEFINE k == i + (IF gx THEN 1 ELSE 0)  l == j + (IF gy THEN 1 ELSE 0)
<1>9. k \in 0 .. dx /\ l \in 0 .. dy /\ 2 * (k * dy - l * dx) <= far /\ -(2 * (k * dy - l * dx)) <= far
  <2>1. CASE dy <= dx
    <3>1. far = dx
      BY <1>1, <2>1
    <3>2. /\ gx /\ i + 1 \in 0 .. dx /\ (gy => j + 1 \in 0 .. dy)
          /\ gy => 2 * ((i + 1) * dy - (j + 1) * dx) <= dx /\ -(2 * ((i + 1) * dy - (j + 1) * dx)) <= dx
          /\ ~ gy => 2 * ((i + 1) * dy - j * dx) <= dx /\ -(2 * ((i + 1) * dy - j * dx)) <= dx
      <4>1. 2 * (i * dy - j * dx) <= dx /\ -(2 * (i * dy - j * dx)) <= dx
        BY <1>2, <3>1
      <4> QED BY <1>1, <1>2, <1>3, <1>6, <1>8, <2>1, <4>1, OneTurn
    <3>3. CASE gy
      <4>1. k = i + 1 /\ l = j + 1
        BY <3>2, <3>3
      <4> QED BY <3>1, <3>2, <3>3, <4>1
    <3>4. CASE ~ gy
      <4>1. k = i + 1 /\ l = j
        BY <1>2, <3>2, <3>4
      <4> QED BY <1>2, <3>1, <3>2, <3>4, <4>1
    <3> QED BY <1>6, <3>3, <3>4
  <2>2. CASE dx <= dy
    <3>1. far = dy
      BY <1>1, <2>2
    <3>2. /\ gy /\ j + 1 \in 0 .. dy /\ (gx => i + 1 \in 0 .. dx)
          /\ gx => 2 * ((j + 1) * dx - (i + 1) * dy) <= dy /\ -(2 * ((j + 1) * dx - (i + 1) * dy)) <= dy
          /\ ~ gx => 2 * ((j + 1) * dx - i * dy) <= dy /\ -(2 * ((j + 1) * dx - i * dy)) <= dy
      <4>1. 2 * (j * dx - i * dy) <= dy /\ -(2 * (j * dx - i * dy)) <= dy
        <5> DEFINE u == i * dy  v == j * dx
        <5>1. 2 * (u - v) <= dy /\ -(2 * (u - v)) <= dy /\ u \in Int /\ v \in Int
          BY <1>2, <1>7, <3>1
        <5> HIDE DEF u, v
        <5>2. 2 * (v - u) <= dy /\ -(2 * (v - u)) <= dy
          BY <1>1, <5>1
        <5> QED BY <5>2 DEF u, v
      <4> QED BY <1>1, <1>2, <1>3, <1>6, <1>8, <2>2, <4>1, OneTurn
    <3>5. \A n, m \in Int : 2 * (n - m) <= dy /\ -(2 * (n - m)) <= dy => 2 * (m - n) <= dy /\ -(2 * (m - n)) <= dy
      BY <1>1
    <3>3. CASE gx
      <4>1. k = i + 1 /\ l = j + 1
        BY <3>2, <3>3
      <4>2. (j + 1) * dx \in Int /\ (i + 1) * dy \in Int
        BY <1>1, <1>2
      <4> QED BY <3>1, <3>2, <3>3, <3>5, <4>1, <4>2
    <3>4. CASE ~ gx
      <4>1. k = i /\ l = j + 1
        BY <1>2, <3>2, <3>4
      <4>2. (j + 1) * dx \in Int /\ i * dy \in Int
        BY <1>1, <1>2
      <4> QED BY <1>2, <3>1, <3>2, <3>4, <3>5, <4>1, <4>2
    <3> QED BY <1>6, <3>3, <3>4
  <2> QED BY <1>1, <2>1, <2>2
<1>10. Near(k, l)
  BY <1>9 DEF Near, dx, dy
<1> QED BY <1>6, <1>10 DEF gx, gy

\* A quadrangle of two triangles
LEMMA QuadIs ==
    ASSUME NEW a \in Plane, NEW b \in Plane, NEW c \in Plane, NEW d \in Plane, R!Convex(<<a, b, c, d>>)
    PROVE  R!Triangle(<<a, b, c>>) \cup R!Triangle(<<a, c, d>>) =
             {p \in R!Target :
                \/ (Side(a, b, p) >= 0 /\ Side(b, c, p) >= 0 /\ Side(c, d, p) >= 0 /\ Side(d, a, p) >= 0)
                \/ (Side(a, b, p) <= 0 /\ Side(b, c, p) <= 0 /\ Side(c, d, p) <= 0 /\ Side(d, a, p) <= 0)}
<1> DEFINE q == <<a, b, c, d>>
           s1 == R!Edge(a, b, c)  s2 == R!Edge(b, c, d)  s3 == R!Edge(c, d, a)  s4 == R!Edge(d, a, b)
<1>1. q[1] = a /\ q[2] = b /\ q[3] = c /\ q[4] = d
  OBVIOUS
<1>2. \/ (s1 > 0 /\ s2 > 0 /\ s3 > 0 /\ s4 > 0)
      \/ (s1 < 0 /\ s2 < 0 /\ s3 < 0 /\ s4 < 0)
  <2> DEFINE turn(i) == R!Edge(q[i], q[(i % 4) + 1], q[((i + 1) % 4) + 1])
  <2>1. (\A i \in 1 .. 4 : turn(i) > 0) \/ (\A i \in 1 .. 4 : turn(i) < 0)
    BY Zenon DEF R!Convex
  <2>2. /\ (1 % 4) + 1 = 2 /\ (2 % 4) + 1 = 3 /\ (3 % 4) + 1 = 4 /\ (4 % 4) + 1 = 1
        /\ ((1 + 1) % 4) + 1 = 3 /\ ((2 + 1) % 4) + 1 = 4 /\ ((3 + 1) % 4) + 1 = 1 /\ ((4 + 1) % 4) + 1 = 2
    OBVIOUS
  <2>3. turn(1) = s1 /\ turn(2) = s2 /\ turn(3) = s3 /\ turn(4) = s4
    <3> HIDE DEF q
    <3> QED BY <1>1, <2>2
  <2> HIDE DEF turn, s1, s2, s3, s4
  <2>4. 1 \in 1 .. 4 /\ 2 \in 1 .. 4 /\ 3 \in 1 .. 4 /\ 4 \in 1 .. 4
    OBVIOUS
  <2> QED BY <2>1, <2>3, <2>4
<1>3. s1 \in Int /\ s2 \in Int /\ s3 \in Int /\ s4 \in Int /\ s1 # 0 /\ s3 # 0
  BY <1>2, EdgeTypes
<1>4. R!Edge(a, c, d) = s3
  BY Faced
<1>5. R!Triangle(<<a, b, c>>) =
             {p \in R!Target :
                \/ (Side(a, b, p) >= 0 /\ Side(b, c, p) >= 0 /\ Side(c, a, p) >= 0)
                \/ (Side(a, b, p) <= 0 /\ Side(b, c, p) <= 0 /\ Side(c, a, p) <= 0)}
  BY <1>3, TriangleIs
<1>6. R!Triangle(<<a, c, d>>) =
             {p \in R!Target :
                \/ (Side(a, c, p) >= 0 /\ Side(c, d, p) >= 0 /\ Side(d, a, p) >= 0)
                \/ (Side(a, c, p) <= 0 /\ Side(c, d, p) <= 0 /\ Side(d, a, p) <= 0)}
  BY <1>3, <1>4, TriangleIs
<1>7. ASSUME NEW p \in R!Target
      PROVE  /\ NoGap(Side(a, b, p), Side(b, c, p), Side(c, d, p), Side(d, a, p), Side(c, a, p))
             /\ Side(a, c, p) = -Side(c, a, p)
  <2> DEFINE A == R!Twice(a)  B == R!Twice(b)  CC == R!Twice(c)  DD == R!Twice(d)  PP == R!Centre(p)
  <2>1. p \in Plane
    BY PictureAssumption DEF R!Target, Plane
  <2>2. A \in Plane /\ B \in Plane /\ CC \in Plane /\ DD \in Plane /\ PP \in Plane
    BY <2>1, Doubled
  <2>3. /\ R!Edge(A, B, CC) = 4 * s1 /\ R!Edge(B, CC, DD) = 4 * s2
        /\ R!Edge(CC, DD, A) = 4 * s3 /\ R!Edge(DD, A, B) = 4 * s4
    BY Doubled
  <2>4. /\ Side(a, b, p) = R!Edge(A, B, PP) /\ Side(b, c, p) = R!Edge(B, CC, PP) /\ Side(c, d, p) = R!Edge(CC, DD, PP)
        /\ Side(d, a, p) = R!Edge(DD, A, PP) /\ Side(c, a, p) = R!Edge(CC, A, PP) /\ Side(a, c, p) = R!Edge(A, CC, PP)
    BY DEF Side
  <2> HIDE DEF A, B, CC, DD, PP, s1, s2, s3, s4
  <2>5. /\ R!Edge(A, CC, PP) = -R!Edge(CC, A, PP)
        /\ Facing(R!Edge(A, B, PP), R!Edge(B, CC, PP), R!Edge(CC, DD, PP), R!Edge(DD, A, PP), R!Edge(CC, A, PP),
                  4 * s1, 4 * s2, 4 * s3, 4 * s4)
    BY <2>2, <2>3, Faced
  <2>6. /\ R!Edge(A, B, PP) \in Int /\ R!Edge(B, CC, PP) \in Int /\ R!Edge(CC, DD, PP) \in Int
        /\ R!Edge(DD, A, PP) \in Int /\ R!Edge(CC, A, PP) \in Int
    BY <2>2, EdgeTypes
  <2>7. /\ \/ (4 * s1 > 0 /\ 4 * s2 > 0 /\ 4 * s3 > 0 /\ 4 * s4 > 0)
           \/ (4 * s1 < 0 /\ 4 * s2 < 0 /\ 4 * s3 < 0 /\ 4 * s4 < 0)
        /\ 4 * s1 \in Int /\ 4 * s2 \in Int /\ 4 * s3 \in Int /\ 4 * s4 \in Int
    BY <1>2, <1>3
  <2>8. NoGap(R!Edge(A, B, PP), R!Edge(B, CC, PP), R!Edge(CC, DD, PP), R!Edge(DD, A, PP), R!Edge(CC, A, PP))
    BY <2>5, <2>6, <2>7, AnyTurns, Zenon
  <2> QED BY <2>4, <2>5, <2>8
<1> QED BY <1>5, <1>6, <1>7 DEF NoGap

LEMMA QuadStep ==
    ASSUME NEW a \in Plane, NEW b \in Plane, NEW c \in Plane, NEW d \in Plane, R!Quad(a, b, c, d)
    PROVE  R!QuadHasNoGap'
<1>1. /\ R!Convex(<<a, b, c, d>>) /\ ends' = <<a, b, c, d>>
      /\ dots' = R!Triangle(<<a, b, c>>) \cup R!Triangle(<<a, c, d>>)
  BY DEF R!Quad
<1>2. ends'[1] = a /\ ends'[2] = b /\ ends'[3] = c /\ ends'[4] = d
  BY <1>1
<1> DEFINE w(p) == {R!Edge(R!Twice(ends'[i]), R!Twice(ends'[(i % 4) + 1]), R!Centre(p)) : i \in 1 .. 4}
<1>3. (1 % 4) + 1 = 2 /\ (2 % 4) + 1 = 3 /\ (3 % 4) + 1 = 4 /\ (4 % 4) + 1 = 1 /\ 1 .. 4 = {1, 2, 3, 4}
  OBVIOUS
<1>4. ASSUME NEW p PROVE w(p) = {Side(a, b, p), Side(b, c, p), Side(c, d, p), Side(d, a, p)}
  BY <1>2, <1>3 DEF Side
<1> HIDE DEF w
<1>5. dots' = {p \in R!Target : (\A v \in w(p) : v >= 0) \/ (\A v \in w(p) : v <= 0)}
  BY <1>1, <1>4, QuadIs
<1>6. dots' = {p \in R!Target :
                 LET ww == {R!Edge(R!Twice(ends'[i]), R!Twice(ends'[(i % 4) + 1]), R!Centre(p)) : i \in 1 .. 4}
                 IN (\A v \in ww : v >= 0) \/ (\A v \in ww : v <= 0)}
  BY <1>5, Zenon DEF w
<1> QED BY <1>6, Zenon DEF R!QuadHasNoGap

LEMMA RasterInit == R!Init => RasterInv
<1> SUFFICES ASSUME R!Init PROVE RasterInv
  OBVIOUS
<1>1. shape = "none" /\ dots = {} /\ pen.err = 0
  BY DEF R!Init
<1>2. IsFiniteSet(dots)
  BY <1>1, FS_EmptySet
<1>3. R!QuadHasNoGap
  BY <1>1 DEF R!QuadHasNoGap
<1> QED BY <1>1, <1>2, <1>3 DEF RasterInv

LEMMA RasterStep == ASSUME RasterInv, R!Next PROVE RasterInv'
<1>0. shape \in {"none", "line", "vertices", "quad"} /\ pen.err \in Int /\ IsFiniteSet(dots)
      /\ (shape \in {"line", "vertices"} => LineInv)
  BY DEF RasterInv
<1>1. CASE \E kind \in {"line", "vertices"}, a, b \in R!Points : R!BeginLine(kind, a, b)
  <2>1. PICK kind \in {"line", "vertices"}, a \in R!Points, b \in R!Points : R!BeginLine(kind, a, b)
    BY <1>1
  <2>2. /\ shape' = kind /\ ends' = <<a, b>> /\ dots' = {a}
        /\ pen' = [at |-> a, err |-> R!Abs(b[1] - a[1]) - R!Abs(b[2] - a[2])]
    BY <2>1 DEF R!BeginLine
  <2>3. a \in Plane /\ b \in Plane
    BY <2>1, PointsArePlane
  <2>4. ends'[1] = a /\ ends'[2] = b /\ pen'.at = a /\ pen'.err = R!Dx' - R!Dy'
    BY <2>2 DEF R!Dx, R!Dy
  <2>5. R!Dx' \in Nat /\ R!Dy' \in Nat
    BY <2>3, <2>4 DEF R!Dx, R!Dy, R!Abs, Plane
  <2>6. Near(0, 0)'
    <3> DEFINE dx == R!Dx'  dy == R!Dy'  far == IF dx > dy THEN dx ELSE dy
    <3>1. 0 \in 0 .. dx /\ 0 \in 0 .. dy /\ 2 * (0 * dy - 0 * dx) <= far /\ -(2 * (0 * dy - 0 * dx)) <= far
      <4>1. dx \in Nat /\ dy \in Nat
        BY <2>5
      <4> HIDE DEF dx, dy
      <4>2. 0 * dy - 0 * dx = 0 /\ 0 \in 0 .. dx /\ 0 \in 0 .. dy /\ far \in Nat
        BY <4>1
      <4> HIDE DEF far
      <4> QED BY <4>2
    <3> QED BY <3>1 DEF Near
  <2>7. At(0, 0)' = a
    <3>1. a = <<a[1], a[2]>> /\ a[1] \in Int /\ a[2] \in Int /\ R!Toward(1)' \in Int /\ R!Toward(2)' \in Int
      BY <2>3 DEF Plane, R!Toward
    <3> QED BY <2>4, <3>1 DEF At
  <2>8. LineInv'
    <3>1. pen'.err = R!Dx' - R!Dy' - (0 * R!Dy' - 0 * R!Dx')
      BY <2>4, <2>5
    <3>2. \E i, j : Near(i, j)' /\ pen'.at = At(i, j)' /\ pen'.err = R!Dx' - R!Dy' - (i * R!Dy' - j * R!Dx')
      BY <2>4, <2>6, <2>7, <3>1
    <3>3. \A p \in dots' : \E i, j : Near(i, j)' /\ p = At(i, j)'
      BY <2>2, <2>6, <2>7
    <3> QED BY <2>2, <2>3, <2>4, <3>2, <3>3 DEF LineInv
  <2>9. IsFiniteSet(dots') /\ pen'.err \in Int
    <3>1. IsFiniteSet(dots')
      BY <2>2, FS_Singleton
    <3>2. pen'.err \in Int
      BY <2>4, <2>5
    <3> QED BY <3>1, <3>2
  <2> QED BY <2>2, <2>8, <2>9 DEF RasterInv, R!QuadHasNoGap
<1>2. CASE R!Walk
  <2> DEFINE gx == R!Goes[1]  gy == R!Goes[2]
             next1 == <<pen.at[1] + IF gx THEN R!Toward(1) ELSE 0, pen.at[2] + IF gy THEN R!Toward(2) ELSE 0>>
  <2>1. /\ shape \in {"line", "vertices"} /\ pen.at # ends[2] /\ shape' = shape /\ ends' = ends
        /\ pen' = [at |-> next1, err |-> pen.err - (IF gx THEN R!Dy ELSE 0) + (IF gy THEN R!Dx ELSE 0)]
        /\ dots' = dots \cup {next1}
    BY <1>2, Zenon DEF R!Walk
  <2>2. LineInv
    BY <1>0, <2>1
  <2>3. PICK i, j : Near(i, j) /\ pen.at = At(i, j) /\ pen.err = R!Dx - R!Dy - (i * R!Dy - j * R!Dx)
    BY <2>2 DEF LineInv
  <2> DEFINE k == i + (IF gx THEN 1 ELSE 0)  l == j + (IF gy THEN 1 ELSE 0)
  <2>4. gx \in BOOLEAN /\ gy \in BOOLEAN /\ Near(k, l)
    BY <2>1, <2>2, <2>3, Turned DEF LineInv
  <2>5. i \in Int /\ j \in Int /\ R!Dx \in Nat /\ R!Dy \in Nat
    BY <2>2, <2>3, Sizes DEF Near, LineInv
  <2>6. R!Toward(1) \in Int /\ R!Toward(2) \in Int /\ ends[1][1] \in Int /\ ends[1][2] \in Int
    BY <2>2, Sizes DEF LineInv
  <2> HIDE DEF gx, gy
  <2>7. next1 = At(k, l)
    <3>1. pen.at[1] = ends[1][1] + i * R!Toward(1) /\ pen.at[2] = ends[1][2] + j * R!Toward(2)
      BY <2>3 DEF At
    <3>2. /\ (i + 1) * R!Toward(1) = i * R!Toward(1) + R!Toward(1)
          /\ (j + 1) * R!Toward(2) = j * R!Toward(2) + R!Toward(2)
          /\ i * R!Toward(1) \in Int /\ j * R!Toward(2) \in Int
      BY <2>5, <2>6
    <3>3. ends[1][1] + k * R!Toward(1) = pen.at[1] + IF gx THEN R!Toward(1) ELSE 0
      <4>1. CASE gx
        BY <2>6, <3>1, <3>2, <4>1
      <4>2. CASE ~ gx
        BY <2>5, <2>6, <3>1, <3>2, <4>2
      <4> QED BY <4>1, <4>2
    <3>4. ends[1][2] + l * R!Toward(2) = pen.at[2] + IF gy THEN R!Toward(2) ELSE 0
      <4>1. CASE gy
        BY <2>6, <3>1, <3>2, <4>1
      <4>2. CASE ~ gy
        BY <2>5, <2>6, <3>1, <3>2, <4>2
      <4> QED BY <4>1, <4>2
    <3> QED BY <3>3, <3>4 DEF At
  <2>8. pen'.err = R!Dx - R!Dy - (k * R!Dy - l * R!Dx)
    <3> DEFINE dx == R!Dx  dy == R!Dy
    <3>1. pen'.err = (dx - dy - (i * dy - j * dx)) - (IF gx THEN dy ELSE 0) + (IF gy THEN dx ELSE 0)
      BY <2>1, <2>3
    <3> HIDE DEF dx, dy
    <3>2. dx \in Nat /\ dy \in Nat
      BY <2>5 DEF dx, dy
    <3>3. /\ (i + 1) * dy = i * dy + dy /\ (j + 1) * dx = j * dx + dx /\ i * dy \in Int /\ j * dx \in Int
      BY <2>5, <3>2
    <3>4. k * dy = i * dy + (IF gx THEN dy ELSE 0) /\ l * dx = j * dx + (IF gy THEN dx ELSE 0)
      BY <2>5, <3>2, <3>3
    <3> QED BY <3>1, <3>2, <3>3, <3>4 DEF dx, dy
  <2>9. \A m, n : Near(m, n)' = Near(m, n) /\ At(m, n)' = At(m, n)
    BY <2>1 DEF Near, At, R!Dx, R!Dy, R!Toward
  <2>10. R!Dx' = R!Dx /\ R!Dy' = R!Dy
    BY <2>1 DEF R!Dx, R!Dy
  <2> HIDE DEF k, l, next1
  <2>11. pen'.at = next1 /\ ends' = ends
    BY <2>1
  <2>12. LineInv'
    <3>1. \E m, n : Near(m, n)' /\ pen'.at = At(m, n)' /\ pen'.err = R!Dx' - R!Dy' - (m * R!Dy' - n * R!Dx')
      BY <2>4, <2>7, <2>8, <2>9, <2>10, <2>11
    <3>2. \A p \in dots' : \E m, n : Near(m, n)' /\ p = At(m, n)'
      BY <2>1, <2>2, <2>4, <2>7, <2>9 DEF LineInv
    <3>3. ends' = <<ends'[1], ends'[2]>> /\ ends'[1] \in Plane /\ ends'[2] \in Plane
      BY <2>2, <2>11 DEF LineInv
    <3> QED BY <3>1, <3>2, <3>3 DEF LineInv
  <2>13. IsFiniteSet(dots') /\ pen'.err \in Int
    <3>1. IsFiniteSet(dots')
      BY <1>0, <2>1, FS_AddElement
    <3>2. pen'.err = pen.err - (IF gx THEN R!Dy ELSE 0) + (IF gy THEN R!Dx ELSE 0)
      BY <2>1
    <3> QED BY <1>0, <2>5, <3>1, <3>2
  <2> QED BY <2>1, <2>12, <2>13 DEF RasterInv, R!QuadHasNoGap
<1>3. CASE /\ shape = "none"
           /\ \E a, b, c \in R!Points : R!Edge(a, b, c) # 0 /\ \E d \in R!Points : R!Quad(a, b, c, d)
  <2>1. PICK a \in R!Points, b \in R!Points, c \in R!Points, d \in R!Points : R!Quad(a, b, c, d)
    BY <1>3
  <2>2. a \in Plane /\ b \in Plane /\ c \in Plane /\ d \in Plane
    BY <2>1, PointsArePlane
  <2>3. shape' = "quad" /\ pen' = pen /\ dots' = R!Triangle(<<a, b, c>>) \cup R!Triangle(<<a, c, d>>)
    BY <2>1 DEF R!Quad
  <2>4. IsFiniteSet(dots')
    <3>1. dots' \subseteq R!Target
      <4>1. \A t : R!Triangle(t) \subseteq R!Target
        BY DEF R!Triangle
      <4> QED BY <2>3, <4>1
    <3>2. IsFiniteSet(R!Target)
      <4>1. IsFiniteSet(0 .. Width - 1) /\ IsFiniteSet(0 .. Height - 1)
        BY PictureAssumption, FS_Interval
      <4> QED BY <4>1, FS_Product DEF R!Target
    <3> QED BY <3>1, <3>2, FS_Subset
  <2>5. R!QuadHasNoGap'
    BY <2>1, <2>2, QuadStep
  <2> QED BY <1>0, <2>3, <2>4, <2>5 DEF RasterInv
<1> QED BY <1>1, <1>2, <1>3 DEF R!Next

LEMMA RasterIsSafe == ASSUME RasterInv PROVE R!TypeOK /\ R!LineOnCourse /\ R!QuadHasNoGap
<1>1. R!Cardinality(dots) = Cardinality(dots)
  BY DEF R!Cardinality, Cardinality
<1>2. R!TypeOK
  BY <1>1, FS_CardinalityType DEF RasterInv, R!TypeOK
<1> QED BY <1>2, OnCourse DEF RasterInv

LEMMA RasterStays == ASSUME RasterInv, UNCHANGED rasterVars PROVE RasterInv'
<1>1. UNCHANGED <<shape, ends, pen, dots>>
  BY DEF rasterVars
<1>2. UNCHANGED <<R!Dx, R!Dy, R!Toward(1), R!Toward(2)>>
  BY <1>1 DEF R!Dx, R!Dy, R!Toward
<1>3. \A i, j : At(i, j)' = At(i, j) /\ (Near(i, j)' <=> Near(i, j))
  BY <1>1, <1>2 DEF At, Near
<1>4. LineInv => LineInv'
  BY <1>1, <1>2, <1>3 DEF LineInv
<1>5. R!QuadHasNoGap'
  BY <1>1, Zenon DEF RasterInv, R!QuadHasNoGap
<1> QED BY <1>1, <1>4, <1>5 DEF RasterInv
-----------------------------------------------------------------------------
(* The tile cache *)

\* TileCacheProofs.tla, at the picture, grid and commands of this instance
TP == INSTANCE TileCacheProofs WITH
    Targets <- {"fb"}, Width <- TiledWidth, Commands <- TileCommands, MaxCommands <- MaxTiled,
    Word <- Modulus

LEMMA TilesClip == TP!Clips
BY TilesAssumption DEF TP!Clips

LEMMA TilesInit == T!Init => TP!CacheInv
<1> SUFFICES ASSUME T!Init PROVE TP!CacheInv
  OBVIOUS
<1>1. TP!Init
  BY DEF T!Init, TP!Init, T!Slots, TP!Slots, T!NoHash, TP!NoHash, T!Hash, TP!Hash, T!Pixels, TP!Pixels
<1>2. TP!CacheAssumption
  BY TilesAssumption DEF TP!CacheAssumption
<1> QED BY <1>1, <1>2, TilesClip, TP!InitCache

\* The operators of the instance there and of the one here are the same.
LEMMA SameTiles ==
    /\ T!Lists = TP!Lists /\ T!Slots = TP!Slots /\ T!Pixels = TP!Pixels /\ T!NoHash = TP!NoHash
    /\ \A S : T!Max(S) = TP!Max(S)
    /\ \A S : T!Min(S) = TP!Min(S)
    /\ \A k, n : T!Tile(k, n) = TP!Tile(k, n)
    /\ \A n : T!TileWidth(n) = TP!TileWidth(n)
    /\ \A from, n : T!Span(from, n) = TP!Span(from, n)
BY DEF T!Lists, TP!Lists, T!Slots, TP!Slots, T!Pixels, TP!Pixels, T!NoHash, TP!NoHash, T!Hash, TP!Hash,
    T!Max, TP!Max, T!Min, TP!Min, T!Tile, TP!Tile, T!TileWidth, TP!TileWidth, T!Span, TP!Span

LEMMA SamePainting ==
    ASSUME NEW lines, NEW tile, NEW k, NEW p
    PROVE  /\ T!TileHash(lines, tile) = TP!TileHash(lines, tile)
           /\ T!TilePainting(lines, k, p) = TP!TilePainting(lines, k, p)
           /\ \A was : T!Plainly(lines, was) = TP!Plainly(lines, was)
<1>1. \A i : T!Scissors(lines, i) = TP!Scissors(lines, i)
  BY DEF T!Scissors, TP!Scissors
<1>2. \A op : T!Area(op) = TP!Area(op)
  BY DEF T!Area, TP!Area, T!Span, TP!Span, T!Pixels, TP!Pixels
<1>3. \A i : T!Scissor(lines, i) = TP!Scissor(lines, i)
  BY <1>1, <1>2, SameTiles DEF T!Scissor, TP!Scissor
<1>4. \A i : T!CommandHash(lines, i, tile) = TP!CommandHash(lines, i, tile)
  <2> SUFFICES ASSUME NEW i PROVE T!CommandHash(lines, i, tile) = TP!CommandHash(lines, i, tile)
    OBVIOUS
  <2>1. T!Area(lines[i]) = TP!Area(lines[i]) /\ T!Scissor(lines, i) = TP!Scissor(lines, i)
    BY <1>2, <1>3
  <2>2. \A kind, area, colour, span : T!Hash(kind, area, colour, span) = TP!Hash(kind, area, colour, span)
    BY DEF T!Hash, TP!Hash
  <2> QED BY <2>1, <2>2 DEF T!CommandHash, TP!CommandHash
<1>5. T!TileHash(lines, tile) = TP!TileHash(lines, tile)
  BY <1>4 DEF T!TileHash, TP!TileHash
<1>6. \A q : T!CpuPainting(lines, q, p) = TP!CpuPainting(lines, q, p)
  BY <1>2, <1>3 DEF T!CpuPainting, TP!CpuPainting
<1>7. \A i : T!GpuClip(lines, i, k) = TP!GpuClip(lines, i, k)
  <2> SUFFICES ASSUME NEW i PROVE T!GpuClip(lines, i, k) = TP!GpuClip(lines, i, k)
    OBVIOUS
  <2>1. T!Scissors(lines, i) = TP!Scissors(lines, i) /\ T!TileWidth(cols) = TP!TileWidth(cols)
    BY <1>1, SameTiles
  <2> QED BY <2>1, SameTiles DEF T!GpuClip, TP!GpuClip
<1>8. \A i : T!Reached(lines, i, k) = TP!Reached(lines, i, k)
  BY <1>7 DEF T!Reached, TP!Reached
<1>9. T!GpuPainting(lines, k, p) = TP!GpuPainting(lines, k, p)
  BY <1>2, <1>7, <1>8 DEF T!GpuPainting, TP!GpuPainting
<1>10. T!TilePainting(lines, k, p) = TP!TilePainting(lines, k, p)
  BY <1>6, <1>9, SameTiles DEF T!TilePainting, TP!TilePainting
<1>11. \A q : T!Painting(lines, q) = TP!Painting(lines, q)
  BY <1>2, <1>3 DEF T!Painting, TP!Painting
<1>12. \A was : T!Plainly(lines, was) = TP!Plainly(lines, was)
  BY <1>11, SameTiles DEF T!Plainly, TP!Plainly
<1> QED BY <1>5, <1>10, <1>12

LEMMA TilesStep == ASSUME TP!CacheInv, T!Next PROVE TP!CacheInv'
<1>1. TP!Next
  <2>1. ASSUME NEW e \in BOOLEAN, T!SetEnabled(e) PROVE TP!SetEnabled(e)
    BY <2>1, SameTiles DEF T!SetEnabled, TP!SetEnabled, T!pictures, TP!pictures
  <2>2. ASSUME NEW n \in 1 .. MaxCols, T!SetConfig(n) PROVE TP!SetConfig(n)
    BY <2>2, SameTiles DEF T!SetConfig, TP!SetConfig, T!pictures, TP!pictures
  <2>3. ASSUME NEW t \in {"fb"}, NEW lines \in T!Lists, T!Submit(t, lines) PROVE TP!Submit(t, lines)
    <3>1. plain' = [plain EXCEPT ![t] = TP!Plainly(lines, @)]
      BY <2>3, SamePainting DEF T!Submit
    <3>2. CASE T!SubmitPlain(t, lines)
      <4>1. TP!SubmitPlain(t, lines)
        BY <3>2, SamePainting DEF T!SubmitPlain, TP!SubmitPlain, T!config, TP!config
      <4> QED BY <3>1, <4>1 DEF TP!Submit
    <3>3. CASE T!SubmitTiles(t, lines)
      <4>1. TP!SubmitTiles(t, lines)
        <5> DEFINE drawn == {k \in 0 .. cols - 1 :
                      T!Tile(k, cols) # {} /\ hashes[k] # T!TileHash(lines, T!Tile(k, cols))}
                   also == {k \in 0 .. cols - 1 :
                      TP!Tile(k, cols) # {} /\ hashes[k] # TP!TileHash(lines, TP!Tile(k, cols))}
                   over(p) == {k \in drawn : T!TilePainting(lines, k, p) # {}}
                   above(p) == {k \in also : TP!TilePainting(lines, k, p) # {}}
                   hued(p) == IF over(p) = {} THEN image[t][p]
                             ELSE lines[T!Max(T!TilePainting(lines, T!Max(over(p)), p))].colour
                   tinted(p) == IF above(p) = {} THEN image[t][p]
                             ELSE lines[TP!Max(TP!TilePainting(lines, TP!Max(above(p)), p))].colour
        <5>1. /\ enabled /\ UNCHANGED <<enabled, cols>>
              /\ hashes' = [k \in T!Slots |-> IF k \in drawn THEN T!TileHash(lines, T!Tile(k, cols)) ELSE hashes[k]]
              /\ image' = [image EXCEPT ![t] = [p \in T!Pixels |-> hued(p)]]
          BY <3>3 DEF T!SubmitTiles, T!config
        <5>2. drawn = also
          BY SamePainting, SameTiles
        <5>3. ASSUME NEW p PROVE hued(p) = tinted(p)
          <6> HIDE DEF drawn, also
          <6>1. over(p) = above(p)
            BY <5>2, SamePainting
          <6> HIDE DEF over, above
          <6>2. T!Max(over(p)) = TP!Max(above(p))
            BY <6>1, SameTiles
          <6>3. T!TilePainting(lines, T!Max(over(p)), p) = TP!TilePainting(lines, TP!Max(above(p)), p)
            BY <6>2, SamePainting
          <6> QED BY <6>1, <6>3, SameTiles
        <5>4. [p \in T!Pixels |-> hued(p)] = [p \in TP!Pixels |-> tinted(p)]
          <6> HIDE DEF hued, tinted
          <6> QED BY <5>3, SameTiles
        <5>5. hashes' = [k \in TP!Slots |-> IF k \in also THEN TP!TileHash(lines, TP!Tile(k, cols)) ELSE hashes[k]]
          <6> HIDE DEF drawn, also
          <6> QED BY <5>1, <5>2, SamePainting, SameTiles
        <5>6. image' = [image EXCEPT ![t] = [p \in TP!Pixels |-> tinted(p)]]
          <6> HIDE DEF hued, tinted
          <6> QED BY <5>1, <5>4
        <5> QED BY <5>1, <5>5, <5>6 DEF TP!SubmitTiles, TP!config
      <4> QED BY <3>1, <4>1 DEF TP!Submit
    <3> QED BY <2>3, <3>2, <3>3 DEF T!Submit
  <2> QED BY <2>1, <2>2, <2>3, SameTiles DEF T!Next, TP!Next
<1>2. TP!CacheAssumption
  BY TilesAssumption DEF TP!CacheAssumption
<1> QED BY <1>1, <1>2, TilesClip, TP!NextCache

LEMMA TilesStay == ASSUME TP!CacheInv, UNCHANGED tilesVars PROVE TP!CacheInv'
<1>1. UNCHANGED TP!vars
  BY DEF tilesVars, TP!vars, TP!config, TP!pictures
<1>2. TP!CacheAssumption
  BY TilesAssumption DEF TP!CacheAssumption
<1> QED BY <1>1, <1>2, TilesClip, TP!NextCache

LEMMA TilesAreSafe == ASSUME TP!CacheInv PROVE T!TypeOK /\ T!SameImage
<1>1. TP!TypeOK /\ image = plain
  BY DEF TP!CacheInv
<1> QED BY <1>1, SameTiles DEF TP!TypeOK, T!TypeOK, T!SameImage
-----------------------------------------------------------------------------
(* The i915 backend *)

FillsInside == [area : SUBSET G!Target, colour : Colours]
Framebuffers == [G!Target -> Colours \cup {"black"}]

\* What is in memory once the blitter has done what it has.
Alike == \A p \in G!Target \ apart : pixels[p] = meant[p]
Due == \A p \in G!Target \ apart : meant[p] = IF p \in blit.area THEN blit.colour ELSE pixels[p]
Coming ==
    /\ at = "list" => ring = <<>> /\ Alike
    /\ at \in {"batch", "exec"} => ring = <<>> /\ Due
    /\ at = "wait" => (ring = <<blit>> /\ Due) \/ (ring = <<>> /\ Alike)
    /\ at = "no" => ring = <<>> /\ (answer = "ok" => Alike)

I915Inv ==
    /\ pixels \in Framebuffers /\ meant \in Framebuffers /\ left \in 0 .. MaxList
    /\ at \in {"no", "list", "batch", "exec", "wait"}
    /\ answer \in {"none", "running", "ok", "error"} /\ (answer = "ok" => at = "no")
    /\ batches = (IF at \in {"exec", "wait"} THEN 1 ELSE 0)
    /\ ring \in Seq(FillsInside) /\ (at \in {"batch", "exec", "wait"} => blit \in FillsInside)
    /\ overdue \in BOOLEAN /\ (~ overdue => Coming) /\ apart \subseteq G!Target

LEMMA Painted ==
    ASSUME NEW was \in Framebuffers, NEW area, NEW c \in Colours
    PROVE  G!Paint(was, area, c) \in Framebuffers
BY DEF G!Paint, Framebuffers

LEMMA AlikeStays == ASSUME UNCHANGED <<pixels, meant, apart>> PROVE Alike' = Alike
BY DEF Alike
LEMMA DueStays == ASSUME UNCHANGED <<pixels, meant, apart, blit>> PROVE Due' = Due
BY DEF Due
\* What was drawn on both pictures is alike, and apart what was drawn on one alone.
LEMMA AlikeDrawn ==
    ASSUME pixels \in Framebuffers, meant \in Framebuffers, NEW a, NEW b, a \cap G!Target \subseteq b, NEW c \in Colours,
           pixels' = G!Paint(pixels, a, c), meant' = G!Paint(meant, b, c), apart' = (apart \ a) \cup (b \ a), Alike
    PROVE Alike'
<1>1. ASSUME NEW p \in G!Target, p \notin apart' PROVE pixels'[p] = meant'[p]
  <2>1. pixels'[p] = (IF p \in a THEN c ELSE pixels[p]) /\ meant'[p] = (IF p \in b THEN c ELSE meant[p])
    BY DEF G!Paint
  <2>2. CASE p \in a
    BY <2>1, <2>2
  <2>3. CASE p \notin a
    <3>1. p \notin b /\ p \notin apart
      BY <1>1, <2>3
    <3> QED BY <2>1, <2>3, <3>1 DEF Alike
  <2> QED BY <2>2, <2>3
<1> QED BY <1>1 DEF Alike
\* A fill is decided, and then done by the blitter.
LEMMA DueDecided ==
    ASSUME NEW area, NEW c \in Colours, Alike, pixels' = pixels, meant' = G!Paint(meant, area, c), apart' = apart \ area,
           blit'.area = area, blit'.colour = c
    PROVE Due'
<1>1. ASSUME NEW p \in G!Target, p \notin apart'
      PROVE meant'[p] = IF p \in blit'.area THEN blit'.colour ELSE pixels'[p]
  <2>1. meant'[p] = (IF p \in area THEN c ELSE meant[p])
    BY DEF G!Paint
  <2>2. p \notin area => meant[p] = pixels[p]
    BY <1>1 DEF Alike
  <2> QED BY <2>1, <2>2
<1> QED BY <1>1 DEF Due
LEMMA DueDone ==
    ASSUME Due, pixels' = G!Paint(pixels, blit.area, blit.colour), UNCHANGED <<meant, apart>>
    PROVE Alike'
<1>1. ASSUME NEW p \in G!Target, p \notin apart PROVE pixels'[p] = meant[p]
  <2>1. pixels'[p] = (IF p \in blit.area THEN blit.colour ELSE pixels[p])
    BY DEF G!Paint
  <2> QED BY <1>1, <2>1 DEF Due
<1> QED BY <1>1 DEF Alike

LEMMA I915Init == G!Init => I915Inv
<1> SUFFICES ASSUME G!Init PROVE I915Inv
  OBVIOUS
<1>1. pixels \in Framebuffers /\ meant = pixels /\ apart = {}
  BY DEF G!Init, Framebuffers
<1>2. overdue \in BOOLEAN
  BY Zenon DEF G!Init
<1>3. ring \in Seq(FillsInside) /\ 0 \in 0 .. MaxList
  BY BlitterAssumption DEF G!Init
<1>4. /\ left = 0 /\ at = "no" /\ answer = "none" /\ batches = 0 /\ ring = <<>>
  BY DEF G!Init
<1> QED BY <1>1, <1>2, <1>3, <1>4 DEF I915Inv, Coming

\* The end of a submit; a command that draws nothing any more.
LEMMA I915Ends ==
    ASSUME I915Inv, NEW a \in {"ok", "error"}, G!Ends(a), pixels' = pixels, ring' = ring,
           batches' = 0, meant' \in Framebuffers, overdue' \in BOOLEAN, ~ overdue' => ring = <<>>,
           apart' \subseteq G!Target, a = "ok" /\ ~ overdue' => Alike'
    PROVE  I915Inv'
<1>1. at' = "no" /\ answer' = a /\ left' = left /\ blit' = blit
  BY DEF G!Ends
<1>2. ~ overdue' => ring' = <<>>
  OBVIOUS
<1>3. ~ overdue' => Coming'
  BY <1>1, <1>2 DEF Coming
<1> QED BY <1>1, <1>3 DEF I915Inv

LEMMA I915Fill ==
    ASSUME I915Inv, NEW area, NEW c \in Colours, G!Fill(area, c)
    PROVE  I915Inv'
<1>1. /\ at = "list" /\ left > 0 /\ pixels' = pixels /\ ring' = ring /\ batches' = batches
      /\ overdue' = overdue /\ meant' = (IF area = {} THEN meant ELSE G!Paint(meant, area, c)) /\ apart' = apart \ area
  BY DEF G!Fill, G!Taken
<1>2. meant' \in Framebuffers /\ batches = 0 /\ (~ overdue => ring = <<>> /\ Alike) /\ apart' \subseteq G!Target
  BY <1>1, Painted DEF I915Inv, Coming
<1>3. left - 1 \in 0 .. MaxList
  BY <1>1, BlitterAssumption DEF I915Inv
<1>4. CASE area = {}
  <2>1. left' = left - 1 /\ at' = at /\ blit' = blit /\ answer' = answer
    BY <1>4 DEF G!Fill, G!Skip
  <2>3. Alike' = Alike
    BY <1>1, <1>4, AlikeStays
  <2>2. ~ overdue' => Coming'
    BY <1>1, <1>2, <1>4, <2>1, <2>3 DEF Coming
  <2> QED BY <1>1, <1>2, <1>3, <2>1, <2>2 DEF I915Inv
<1>5. CASE area # {} /\ G!Outside(area)
  <2>1. G!Ends("error") /\ overdue \in BOOLEAN /\ (~ overdue' => ring = <<>>)
    BY <1>1, <1>2, <1>5 DEF G!Fill, I915Inv
  <2> QED BY <1>1, <1>2, <2>1, I915Ends
<1>6. CASE area # {} /\ ~ G!Outside(area)
  <2>1. at' = "batch" /\ left' = left - 1 /\ blit' = [area |-> area, colour |-> c] /\ answer' = answer
    BY <1>6 DEF G!Fill
  <2>2. area \subseteq G!Target
    BY <1>6 DEF G!Outside
  <2>3. blit' \in FillsInside /\ blit'.area = area /\ blit'.colour = c
    BY <2>1, <2>2 DEF FillsInside
  <2>4. meant' = G!Paint(meant, area, c)
    BY <1>1, <1>6
  <2>6. Alike => Due'
    BY <1>1, <2>3, <2>4, DueDecided
  <2>5. ~ overdue' => Coming'
    BY <1>1, <1>2, <2>1, <2>6 DEF Coming
  <2> QED BY <1>1, <1>2, <1>3, <2>1, <2>3, <2>5 DEF I915Inv
<1> QED BY <1>4, <1>5, <1>6

\* The CPU draws through the mapping only when the blitter has nothing to do.
LEMMA I915Map ==
    ASSUME I915Inv, NEW a, NEW b, NEW c \in Colours, G!Taken, G!Skip, a \cap G!Target \subseteq b, b \subseteq G!Target,
           pixels' = G!Paint(pixels, a, c), meant' = G!Paint(meant, b, c), apart' = (apart \ a) \cup (b \ a),
           UNCHANGED <<ring, batches, overdue>>
    PROVE  I915Inv'
<1>1. at = "list" /\ left - 1 \in 0 .. MaxList /\ left' = left - 1 /\ at' = at /\ blit' = blit /\ answer' = answer
  BY BlitterAssumption DEF I915Inv, G!Taken, G!Skip
<1>2. pixels' \in Framebuffers /\ meant' \in Framebuffers /\ apart' \subseteq G!Target
  BY Painted DEF I915Inv
<1>4. Alike => Alike'
  BY AlikeDrawn DEF I915Inv
<1>3. ~ overdue' => Coming'
  BY <1>1, <1>4 DEF I915Inv, Coming
<1> QED BY <1>1, <1>2, <1>3 DEF I915Inv

LEMMA I915Step == ASSUME I915Inv, G!Next PROVE I915Inv'
<1>0. /\ pixels \in Framebuffers /\ meant \in Framebuffers /\ left \in 0 .. MaxList /\ ring \in Seq(FillsInside)
      /\ (at \in {"no", "list", "batch"} => batches = 0) /\ (at \in {"exec", "wait"} => batches = 1)
      /\ overdue \in BOOLEAN /\ (~ overdue => Coming) /\ (at \in {"batch", "exec", "wait"} => blit \in FillsInside)
      /\ apart \subseteq G!Target
  BY DEF I915Inv
<1>1. CASE G!Submit
  <2>1. /\ at = "no" /\ at' = "list" /\ left' = MaxList /\ answer' = "running" /\ meant' = pixels
        /\ overdue' = (ring # <<>>) /\ pixels' = pixels /\ ring' = ring /\ batches' = batches /\ apart' = {}
    BY <1>1 DEF G!Submit
  <2>2. ~ overdue' => Coming'
    BY <2>1 DEF Coming, Alike
  <2> QED BY <1>0, <2>1, <2>2, BlitterAssumption DEF I915Inv
<1>2. CASE G!End
  <2>1. at = "list" /\ G!Ends("ok") /\ UNCHANGED <<pixels, ring, batches, overdue, meant, apart>>
    BY <1>2 DEF G!End
  <2>2. ~ overdue => ring = <<>> /\ Alike
    BY <1>0, <2>1 DEF Coming
  <2>3. Alike' = Alike
    BY <2>1, AlikeStays
  <2> QED BY <1>0, <2>1, <2>2, <2>3, I915Ends
<1>3. CASE G!Unsupported
  <2>1. at = "list" /\ G!Ends("error") /\ UNCHANGED <<pixels, ring, batches, overdue, meant, apart>>
    BY <1>3 DEF G!Unsupported, G!Taken
  <2>2. ~ overdue => ring = <<>>
    BY <1>0, <2>1 DEF Coming
  <2> QED BY <1>0, <2>1, <2>2, I915Ends
<1>4. CASE \E c \in Colours : G!Clear(c)
  BY <1>4, I915Fill DEF G!Clear
<1>5. ASSUME NEW s \in Spans, NEW c \in Colours, G!FillRect(s, c) PROVE I915Inv'
  BY <1>5, I915Fill DEF G!FillRect
<1>6. ASSUME NEW s \in Spans, NEW c \in Colours, G!Mapped(s, c) PROVE I915Inv'
  <2> DEFINE a == (G!Cells(s) \cap clipping) \cap G!Target
  <2>1. /\ G!Taken /\ G!Skip /\ UNCHANGED <<ring, batches, overdue>>
        /\ pixels' = G!Paint(pixels, a, c) /\ meant' = G!Paint(meant, a, c) /\ apart' = apart \ a
        /\ a \subseteq G!Target
    BY <1>6 DEF G!Mapped
  <2> QED BY <1>6, <2>1, I915Map
<1>7. ASSUME NEW s \in Spans, NEW c \in Colours, G!Shade(s, c) PROVE I915Inv'
  <2> DEFINE a == G!Cells(s) \cap clipping
             b == G!Cells(s) \cap G!Target
  <2>1. /\ G!Taken /\ G!Skip /\ UNCHANGED <<ring, batches, overdue>>
        /\ pixels' = G!Paint(pixels, a, c) /\ meant' = G!Paint(meant, b, c) /\ apart' = (apart \ a) \cup (b \ a)
        /\ a \cap G!Target \subseteq b /\ b \subseteq G!Target
    BY <1>7 DEF G!Shade
  <2> QED BY <1>7, <2>1, I915Map
<1>8. CASE \E s \in Spans : G!SetScissor(s)
  <2>1. /\ at = "list" /\ left > 0 /\ left' = left - 1
        /\ UNCHANGED <<pixels, ring, batches, at, blit, answer, overdue, meant, apart>>
    BY <1>8 DEF G!SetScissor, G!Taken
  <2>2. left' \in 0 .. MaxList
    BY <1>0, <2>1, BlitterAssumption
  <2>4. Alike' = Alike
    BY <2>1, AlikeStays
  <2>3. ~ overdue' => Coming'
    BY <1>0, <2>1, <2>4 DEF Coming
  <2> QED BY <2>1, <2>2, <2>3 DEF I915Inv
<1>9. CASE G!MakeBatch
  <2>1. at = "batch" /\ UNCHANGED <<pixels, ring, overdue, meant, apart>>
    BY <1>9 DEF G!MakeBatch
  <2>2. CASE at' = "exec" /\ batches' = batches + 1 /\ UNCHANGED <<left, clipping, blit, answer>>
    <3>2. Due' = Due
      BY <2>1, <2>2, DueStays
    <3>1. ~ overdue' => Coming'
      BY <1>0, <2>1, <2>2, <3>2 DEF Coming
    <3> QED BY <1>0, <2>1, <2>2, <3>1 DEF I915Inv
  <2>3. CASE G!Ends("error") /\ batches' = batches
    <3>1. ~ overdue => ring = <<>>
      BY <1>0, <2>1 DEF Coming
    <3> QED BY <1>0, <2>1, <2>3, <3>1, I915Ends
  <2> QED BY <1>9, <2>2, <2>3 DEF G!MakeBatch
<1>10. CASE G!Exec
  <2>1. at = "exec" /\ UNCHANGED <<pixels, overdue, meant, apart>>
    BY <1>10 DEF G!Exec
  <2>2. CASE ring' = Append(ring, blit) /\ batches' = batches /\ at' = "wait" /\ UNCHANGED <<left, clipping, blit, answer>>
    <3>1. ring' \in Seq(FillsInside)
      BY <1>0, <2>1, <2>2
    <3>2. ~ overdue => ring' = <<blit>>
      BY <1>0, <2>1, <2>2 DEF Coming
    <3>3. ~ overdue' => Coming'
      <4>1. Due' = Due
        BY <2>1, <2>2, DueStays
      <4> QED BY <1>0, <2>1, <2>2, <3>2, <4>1 DEF Coming
    <3> QED BY <1>0, <2>1, <2>2, <3>1, <3>3 DEF I915Inv
  <2>3. CASE G!Ends("error") /\ batches' = batches - 1 /\ ring' = ring
    <3>1. ~ overdue => ring = <<>>
      BY <1>0, <2>1 DEF Coming
    <3> QED BY <1>0, <2>1, <2>3, <3>1, I915Ends
  <2> QED BY <1>10, <2>2, <2>3 DEF G!Exec
<1>11. CASE G!Wait
  <2>1. at = "wait" /\ batches' = batches - 1 /\ UNCHANGED <<pixels, ring, meant, apart>> /\ batches' = 0
    BY <1>0, <1>11 DEF G!Wait
  <2>5. Alike' = Alike
    BY <2>1, AlikeStays
  <2>2. CASE ring = <<>> /\ at' = "list" /\ UNCHANGED <<left, clipping, blit, answer, overdue>>
    <3>1. ~ overdue' => Coming'
      BY <1>0, <2>1, <2>2, <2>5 DEF Coming
    <3> QED BY <1>0, <2>1, <2>2, <3>1 DEF I915Inv
  <2>3. CASE ring = <<>> /\ G!Ends("error") /\ overdue' = overdue
    BY <1>0, <2>1, <2>3, I915Ends
  <2>4. CASE ring # <<>> /\ G!Ends("error") /\ overdue' = TRUE
    BY <1>0, <2>1, <2>4, I915Ends
  <2> QED BY <1>11, <2>2, <2>3, <2>4 DEF G!Wait
<1>12. CASE G!Blit
  <2>1. /\ ring # <<>> /\ ring' = Tail(ring) /\ pixels' = G!Paint(pixels, Head(ring).area, Head(ring).colour)
        /\ UNCHANGED <<batches, at, left, clipping, blit, answer, overdue, meant, apart>>
    BY <1>12 DEF G!Blit, G!submit
  <2>2. Head(ring) \in FillsInside /\ ring' \in Seq(FillsInside)
    BY <1>0, <2>1
  <2>3. pixels' \in Framebuffers
    BY <1>0, <2>1, <2>2, Painted DEF FillsInside
  <2>4. ~ overdue => at = "wait" /\ ring = <<blit>>
    BY <1>0, <2>1 DEF I915Inv, Coming
  <2>5. ~ overdue => Head(ring) = blit /\ Tail(ring) = <<>>
    <3>1. Head(<<blit>>) = blit /\ Tail(<<blit>>) = <<>>
      OBVIOUS
    <3> QED BY <2>4, <3>1
  <2>6. ~ overdue => Alike'
    <3>1. ~ overdue => Due
      BY <1>0, <2>1, <2>4 DEF Coming
    <3> QED BY <2>1, <2>5, <3>1, DueDone
  <2>7. ~ overdue' => Coming'
    BY <2>1, <2>4, <2>5, <2>6 DEF Coming
  <2> QED BY <1>0, <2>1, <2>2, <2>3, <2>7 DEF I915Inv
<1> QED BY <1>1, <1>2, <1>3, <1>4, <1>5, <1>6, <1>7, <1>8, <1>9, <1>10, <1>11, <1>12 DEF G!Next

LEMMA I915IsSafe ==
    ASSUME I915Inv
    PROVE  G!TypeOK /\ G!PaintsAsCpu /\ G!CpuAlone /\ G!BlitsInside /\ G!NoBatchLeft
<1>1. G!TypeOK
  BY DEF I915Inv, G!TypeOK, Framebuffers
<1>2. G!PaintsAsCpu
  BY DEF I915Inv, G!PaintsAsCpu, Coming, Alike
<1>3. G!CpuAlone
  BY DEF I915Inv, G!CpuAlone, Coming
<1>4. G!BlitsInside
  <2>1. \A n \in 1 .. Len(ring) : ring[n] \in FillsInside
    BY DEF I915Inv
  <2> QED BY <2>1 DEF G!BlitsInside, FillsInside
<1>5. G!NoBatchLeft
  BY DEF I915Inv, G!NoBatchLeft
<1> QED BY <1>1, <1>2, <1>3, <1>4, <1>5

LEMMA I915Stays == ASSUME I915Inv, UNCHANGED i915Vars PROVE I915Inv'
<1>1. UNCHANGED <<pixels, ring, batches, at, left, clipping, blit, answer, overdue, meant, apart>>
  BY DEF i915Vars
<1>2. Alike' = Alike /\ Due' = Due
  BY <1>1, AlikeStays, DueStays
<1> QED BY <1>1, <1>2 DEF I915Inv, Coming

-----------------------------------------------------------------------------
(* What draws, together *)

DrawingInvariant == SubmitInv /\ ImagesInv /\ ShaderInv /\ RasterInv /\ TP!CacheInv /\ I915Inv

LEMMA DrawingInit == Init => DrawingInvariant
BY SubmitInit, ImagesInit, ShaderInit, RasterInit, TilesInit, I915Init DEF Init, DrawingInvariant

\* One of them goes on, and the others stay as they are.
LEMMA DrawingStep == ASSUME DrawingInvariant, [Next]_vars PROVE DrawingInvariant'
<1>1. SubmitInv /\ ImagesInv /\ ShaderInv /\ RasterInv /\ TP!CacheInv /\ I915Inv
  BY DEF DrawingInvariant
<1>2. /\ C!Next \/ UNCHANGED submitVars
      /\ M!Next \/ UNCHANGED imagesVars
      /\ V!Next \/ UNCHANGED shaderVars
      /\ R!Next \/ UNCHANGED rasterVars
      /\ T!Next \/ UNCHANGED tilesVars
      /\ G!Next \/ UNCHANGED i915Vars
  BY DEF Next, vars
<1>3. SubmitInv'
  BY <1>1, <1>2, SubmitStep, SubmitStays
<1>4. ImagesInv'
  BY <1>1, <1>2, ImagesStep, ImagesStay
<1>5. ShaderInv'
  BY <1>1, <1>2, ShaderStep, ShaderStays
<1>6. RasterInv'
  BY <1>1, <1>2, RasterStep, RasterStays
<1>7. TP!CacheInv'
  BY <1>1, <1>2, TilesStep, TilesStay
<1>8. I915Inv'
  BY <1>1, <1>2, I915Step, I915Stays
<1> QED BY <1>3, <1>4, <1>5, <1>6, <1>7, <1>8 DEF DrawingInvariant

\* DrawingSafe: recorded commands are kept, no submit reads past a vertex buffer,
\* and a list paints what its own commands say (context.c, cmd.c); copies and views
\* stay inside their memory, and an image counts its mappings (queue.c, image_view.c);
\* the two shader interpreters paint the same picture wherever the shader meets nothing
\* that they take differently, each pixel once, and fail only for positions (vm); lines
\* stay on course and two triangles leave no gap (renderer.c, render3d.c); the tile cache
\* is transparent (tile_cache.c); and i915 paints what the cpu renderer does, but for
\* shaded pixels behind a scissor, inside its target, never together with the CPU and
\* without leaving a batch object behind (i915.c) - for pictures, buffers, lists, shaders
\* and grids of any size.
THEOREM DrawingIsSafe == Spec => []DrawingSafe
<1>1. Init => DrawingInvariant
  BY DrawingInit
<1>2. DrawingInvariant /\ [Next]_vars => DrawingInvariant'
  BY DrawingStep
<1>3. DrawingInvariant => DrawingSafe
  BY SubmitIsSafe, ImagesAreSafe, ShaderIsSafe, RasterIsSafe, TilesAreSafe, I915IsSafe
     DEF DrawingInvariant, DrawingSafe
<1> QED BY <1>1, <1>2, <1>3, PTL DEF Spec

-----------------------------------------------------------------------------
(* The types of all parts *)

AllInvariant ==
    /\ tool \in Tools /\ DrawingInvariant /\ DevicesInvariant
    /\ ObjectValues /\ ProbeValues /\ ConsoleOK

LEMMA AllInit == Init => AllInvariant
<1> SUFFICES ASSUME Init PROVE AllInvariant
  OBVIOUS
<1>1. O!Init /\ P!Init /\ I!Init /\ tool \in Tools
  BY DEF Init
<1>2. DevicesInvariant
  BY <1>1, ObjectsInit, ProbeInit, InputInit DEF DevicesInvariant
<1>3. ConsoleOK
  BY <1>1 DEF I!Init, ConsoleOK
<1> QED BY <1>1, <1>2, <1>3, DrawingInit, ValuesInit, ProbeValuesInit DEF AllInvariant

LEMMA AllStep == ASSUME AllInvariant, [Next]_vars PROVE AllInvariant'
<1>1. /\ tool \in Tools /\ DrawingInvariant /\ DevicesInvariant
      /\ ObjectValues /\ ProbeValues /\ ConsoleOK
  BY DEF AllInvariant
<1>2. /\ O!Next \/ UNCHANGED objectsVars
      /\ P!Next \/ UNCHANGED probeVars
      /\ I!Next \/ UNCHANGED inputVars
      /\ tool' = tool
  BY DEF Next, vars
<1>3. ObjectValues'
  <2>1. CASE UNCHANGED objectsVars
    BY <1>1, <2>1 DEF ObjectValues, objectsVars
  <2> QED BY <1>1, <1>2, <2>1, ValuesStep DEF DevicesInvariant
<1>4. ProbeValues'
  <2>1. CASE UNCHANGED probeVars
    BY <1>1, <2>1 DEF ProbeValues, probeVars
  <2> QED BY <1>1, <1>2, <2>1, ProbeValuesStep
<1>5. ConsoleOK'
  <2>1. CASE UNCHANGED inputVars
    BY <1>1, <2>1 DEF ConsoleOK, inputVars
  <2> QED BY <1>1, <1>2, <2>1, ConsoleStep
<1>6. DrawingInvariant' /\ DevicesInvariant'
  BY <1>1, DrawingStep, DevicesStep
<1> QED BY <1>1, <1>2, <1>3, <1>4, <1>5, <1>6 DEF AllInvariant, Tools

\* TypeOK: the variables of the part that runs have their types, for every value of
\* the constants: an object holds what a creation can take, a card has as many
\* displays as connectors, a ring of events has its ends inside, a tile that is not
\* cached has no hash.
THEOREM SrapiTypes == Spec => []TypeOK
<1>1. Init => AllInvariant
  BY AllInit
<1>2. AllInvariant /\ [Next]_vars => AllInvariant'
  BY AllStep
<1>3. AllInvariant => TypeOK
  <2> SUFFICES ASSUME AllInvariant PROVE TypeOK
    OBVIOUS
  <2>1. C!TypeOK /\ M!TypeOK /\ V!TypeOK /\ R!TypeOK /\ T!TypeOK /\ G!TypeOK
    BY SubmitIsSafe, ImagesAreSafe, ShaderIsSafe, RasterIsSafe, TilesAreSafe, I915IsSafe
       DEF AllInvariant, DrawingInvariant
  <2>2. O!TypeOK /\ P!TypeOK /\ I!TypeOK
    BY ObjectTypesHold, InputTypes DEF AllInvariant, DevicesInvariant, ProbeValues, P!TypeOK, ConsoleOK
  <2> QED BY <2>1, <2>2 DEF AllInvariant, TypeOK
<1> QED BY <1>1, <1>2, <1>3, PTL DEF Spec
=============================================================================
