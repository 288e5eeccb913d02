------------------------------ MODULE ShaderVm ------------------------------
(***************************************************************************)
(* Shaders (vm/shader.c, vm/exec.c, vm/exec_simd.c): bytecode is decoded   *)
(* once and then run by one of two interpreters, pixel by pixel or Lanes   *)
(* pixels at a time, the latter in one piece or in tiles for the thread    *)
(* pool.  Which one runs is a setting that may change between two frames.  *)
(* The two are written separately, one with the operators of C and one     *)
(* with vector instructions, and so they are here; what they share is the  *)
(* arithmetic of the processor.  A float is a number in halves or no       *)
(* number, without infinities, the sign of zero and rounding.  ADD stands  *)
(* for what is one operation in both (SUB, MUL, POW), MIN for MAX, and SIN *)
(* and COS, which call the same function, are left out, and ABS.           *)
(***************************************************************************)
EXTENDS Integers, Sequences, FiniteSets

CONSTANTS
    Programs,    \* the bytecodes that callers pass: sequences of words
    Registers,   \* 16
    Inputs,      \* 6 of a fragment
    Uniforms,    \* uniform_count of the shader
    Lanes,       \* 8
    TileRows,    \* 32
    Clips,       \* rectangles inside the target: x, y, width, height
    Target,      \* the pixels that a shade may write
    Byte,        \* the largest number that fits a byte, 255
    NaN,         \* what is not a number
    Largest,     \* the last of the words that are the bits of a number
    IntLimit     \* 2^31, the first float that no int holds

VARIABLES
    insts,       \* the decoded instructions, <<>> without a shader
    uniforms,
    written,     \* how often the last shade has written each pixel
    clip,        \* the rectangle of that shade
    failed       \* the scalar interpreter has given up in it

shaderVars == <<insts, uniforms, written, clip, failed>>

\* The words of the instructions; how many arguments each of them has.
END == 0
MOV == 1
ADD == 2
DIV == 5
MIN == 6
LOAD_INPUT == 8
LOAD_UNIFORM == 9
OUT_COLOR == 10
LOAD_CONST == 11
FRACT == 12
CLAMP01 == 13
MIX == 14
OUT_POSITION == 15
SQRT == 19
Arithmetic == {MOV, ADD, DIV, MIN, LOAD_CONST, FRACT, CLAMP01, MIX, SQRT}
Operations == Arithmetic \cup {END, LOAD_INPUT, LOAD_UNIFORM, OUT_COLOR, OUT_POSITION}
Arity == [op \in Operations |->
            CASE op = END -> 0 [] op \in {ADD, DIV, MIN} -> 3 [] op \in {MIX, OUT_COLOR} -> 4 [] OTHER -> 2]

Nowhere == [x |-> 0, y |-> 0, w |-> 0, h |-> 0]

Init ==
    /\ insts = <<>> /\ uniforms = [u \in 0 .. Uniforms - 1 |-> 0]
    /\ written = <<>> /\ clip = Nowhere /\ failed = FALSE

\* Whether the arguments of the instruction at position i are there and fit a byte; the
\* immediate of LOAD_CONST may be any word.
ArgsOk(w, i) ==
    LET n == Arity[w[i]]
    IN  /\ i + n <= Len(w)
        /\ \A k \in 1 .. n : w[i + k] > Byte => w[i] = LOAD_CONST /\ k = 2

\* The instructions up to END, after which words are not looked at.  The empty one stands
\* for a word that is no instruction or has too few arguments.
Decode(w) ==
    LET from[i \in 1 .. Len(w) + 1] ==
            IF i > Len(w) THEN <<>>
            ELSE IF w[i] \notin DOMAIN Arity \/ ~ArgsOk(w, i) THEN <<<<>>>>
            ELSE IF w[i] = END THEN <<<<END>>>>
            ELSE <<SubSeq(w, i, i + Arity[w[i]])>> \o from[i + Arity[w[i]] + 1]
    IN  from[1]

\* Such a word refuses the whole shader.
CreateShader(w) ==
    LET decoded == Decode(w)
    IN  /\ insts = <<>> /\ w # <<>> /\ \A n \in DOMAIN decoded : decoded[n] # <<>>
        /\ insts' = decoded /\ UNCHANGED <<uniforms, written, clip, failed>>

\* The uniforms go with it; the picture it painted is left to its owner.
DestroyShader ==
    /\ insts # <<>> /\ insts' = <<>> /\ uniforms' = [u \in DOMAIN uniforms |-> 0]
    /\ written' = <<>> /\ clip' = Nowhere /\ failed' = FALSE

SetUniform(u, v) ==
    /\ insts # <<>> /\ u < Uniforms
    /\ uniforms' = [uniforms EXCEPT ![u] = v] /\ UNCHANGED <<insts, written, clip, failed>>

\* A register that does not exist reads as 0 and swallows what is written to it.
Get(regs, r) == IF r < Registers THEN regs[r] ELSE 0
Set(m, r, v) == IF r < Registers THEN [m EXCEPT !.regs[r] = v] ELSE m

\* The arithmetic of the processor, whichever instruction asks for it: what is computed
\* with no number is none, and no comparison with it holds.
One == 2
Float == Int \cup {NaN}
Less(a, b) == a # NaN /\ b # NaN /\ a < b
Plus(a, b) == IF NaN \in {a, b} THEN NaN ELSE a + b
Minus(a, b) == IF NaN \in {a, b} THEN NaN ELSE a - b
Times(a, b) == IF NaN \in {a, b} THEN NaN ELSE (a * b) \div One
Quotient(a, b) ==
    IF NaN \in {a, b} THEN NaN ELSE IF b > 0 THEN (a * One) \div b ELSE ((-a) * One) \div (-b)
SquaresTo(a) == {r \in 1 .. a : r * r <= One * a}
Root(a) == IF a = NaN THEN NaN ELSE Cardinality(SquaresTo(a))
Fits(v) == v \in -IntLimit .. IntLimit - 1
AsFloat(word) == IF word \in 0 .. Largest THEN word ELSE NaN

\* One pixel at a time, in C.  A float that fits no int becomes the smallest one, as the
\* processor converts it.
Whole(v) ==
    IF ~Fits(v) THEN -IntLimit ELSE IF v < 0 THEN -(((-v) \div One) * One) ELSE (v \div One) * One
Fract(v) ==
    LET out == Minus(v, Whole(v))
    IN  IF Less(out, 0) THEN Plus(out, One) ELSE out
Clamp01(v) == IF v = NaN THEN v ELSE IF v <= 0 THEN 0 ELSE IF v >= One THEN One ELSE v
ClampByte(v) ==
    IF v = NaN THEN 0 ELSE IF v <= 0 THEN 0
    ELSE IF v >= One THEN Byte ELSE ((2 * Byte * v) + One) \div (2 * One)
ScalarValue(regs, inst) ==
    LET op == inst[1]
        g(k) == Get(regs, inst[k + 1])
    IN  CASE op = MOV -> g(2)
          [] op = ADD -> Plus(g(2), g(3))
          [] op = DIV -> IF g(3) # 0 THEN Quotient(g(2), g(3)) ELSE 0
          [] op = MIN -> IF Less(g(2), g(3)) THEN g(2) ELSE g(3)
          [] op = LOAD_CONST -> AsFloat(inst[3])
          [] op = FRACT -> Fract(g(2))
          [] op = CLAMP01 -> Clamp01(g(2))
          [] op = SQRT -> IF g(2) # NaN /\ ~Less(g(2), 0) THEN Root(g(2)) ELSE 0
          [] OTHER -> Plus(g(2), Times(Minus(g(3), g(2)), Clamp01(g(4))))

\* An index that does not exist leaves the register as it is; a position is an error in a
\* fragment, like whatever else is unknown.
ScalarStep(m, inst) ==
    LET op == inst[1]
        byte(k) == ClampByte(Get(m.regs, inst[k + 1]))
    IN  IF m.halt THEN m ELSE
        CASE op = END -> [m EXCEPT !.halt = TRUE]
          [] op = OUT_COLOR -> [m EXCEPT !.colour = <<byte(1), byte(2), byte(3), byte(4)>>]
          [] op = LOAD_INPUT -> IF inst[3] < Inputs THEN Set(m, inst[2], m.in[inst[3]]) ELSE m
          [] op = LOAD_UNIFORM -> IF inst[3] < Uniforms THEN Set(m, inst[2], uniforms[inst[3]]) ELSE m
          [] op \in Arithmetic -> Set(m, inst[2], ScalarValue(m.regs, inst))
          [] OTHER -> [m EXCEPT !.halt = TRUE, !.error = TRUE]

\* Lanes pixels at a time: min_ps and max_ps give their second operand where the first is
\* not less or more, and blends choose where b is a number other than 0.
MinPs(a, b) == IF Less(a, b) THEN a ELSE b
MaxPs(a, b) == IF Less(b, a) THEN a ELSE b
Floor(v) == IF v = NaN THEN NaN ELSE (v \div One) * One
Clamp8(v) == MaxPs(0, MinPs(One, v))
SimdValue(regs, inst) ==
    LET op == inst[1]
        g(k) == Get(regs, inst[k + 1])
        some(b) == b # NaN /\ b # 0
    IN  CASE op = MOV -> g(2)
          [] op = ADD -> Plus(g(2), g(3))
          [] op = DIV -> IF some(g(3)) THEN Quotient(g(2), IF some(g(3)) THEN g(3) ELSE One) ELSE 0
          [] op = MIN -> MinPs(g(2), g(3))
          [] op = LOAD_CONST -> AsFloat(inst[3])
          [] op = FRACT -> Minus(g(2), Floor(g(2)))
          [] op = CLAMP01 -> Clamp8(g(2))
          [] op = SQRT -> Root(MaxPs(0, g(2)))
          [] OTHER -> Plus(g(2), Times(Minus(g(3), g(2)), Clamp8(g(4))))

\* A bug: one uniform too few.
SimdStepShifted(m, inst) ==
    LET op == inst[1]
        lane(k) == Get(m.regs, inst[k + 1])
    IN  IF m.halt THEN m ELSE
        CASE op = END -> [m EXCEPT !.halt = TRUE]
          [] op = OUT_COLOR -> [m EXCEPT !.colour = <<lane(1), lane(2), lane(3), lane(4)>>]
          [] op = LOAD_INPUT -> Set(m, inst[2], IF inst[3] < Inputs THEN m.in[inst[3]] ELSE 0)
          [] op = LOAD_UNIFORM -> Set(m, inst[2], IF inst[3] + 1 < Uniforms THEN uniforms[inst[3]] ELSE 0)
          [] op \in Arithmetic -> Set(m, inst[2], SimdValue(m.regs, inst))
          [] OTHER -> m

\* Here such an index loads a 0, what is unknown is passed over, and the colour stays in
\* floats until the end.
SimdStep(m, inst) ==
    LET op == inst[1]
        lane(k) == Get(m.regs, inst[k + 1])
    IN  IF m.halt THEN m ELSE
        CASE op = END -> [m EXCEPT !.halt = TRUE]
          [] op = OUT_COLOR -> [m EXCEPT !.colour = <<lane(1), lane(2), lane(3), lane(4)>>]
          [] op = LOAD_INPUT -> Set(m, inst[2], IF inst[3] < Inputs THEN m.in[inst[3]] ELSE 0)
          [] op = LOAD_UNIFORM -> Set(m, inst[2], IF inst[3] < Uniforms THEN uniforms[inst[3]] ELSE 0)
          [] op \in Arithmetic -> Set(m, inst[2], SimdValue(m.regs, inst))
          [] OTHER -> m

\* A pixel of such floats: no number converts to the smallest int, and of that one bit is
\* left only in the lowest channel, blue, where it lands on the top bit of alpha.
EmitPixels(c) ==
    LET level(v) == IF Clamp8(v) = NaN THEN 0 ELSE ((2 * Byte * Clamp8(v)) + One) \div (2 * One)
        top == (Byte + 1) \div 2
    IN  <<level(c[1]), level(c[2]), level(c[3]),
          IF c[3] = NaN THEN top + (level(c[4]) % top) ELSE level(c[4])>>

\* Registers start at 0, the colour is magenta until the shader sets one.
Machine(in, colour) ==
    [regs |-> [r \in 0 .. Registers - 1 |-> 0], in |-> in, colour |-> colour,
     halt |-> FALSE, error |-> FALSE]

\* The machines after each instruction, on one interpreter and on the other
ScalarRun(in) ==
    LET s[n \in 0 .. Len(insts)] ==
            IF n = 0 THEN Machine(in, <<Byte, 0, Byte, Byte>>) ELSE ScalarStep(s[n - 1], insts[n])
    IN  s
SimdRun(in) ==
    LET s[n \in 0 .. Len(insts)] ==
            IF n = 0 THEN Machine(in, <<One, 0, One, One>>) ELSE SimdStep(s[n - 1], insts[n])
    IN  s

\* What they have for a pixel in the end
RunFragment(in) == ScalarRun(in)[Len(insts)]
RunChunk(in) == EmitPixels(SimdRun(in)[Len(insts)].colour)

\* The inputs of a pixel: x, y and then what is derived from them and from the rectangle.
InputsAt(x, y) == [i \in 0 .. Inputs - 1 |-> CASE i = 0 -> One * x [] i = 1 -> One * y [] OTHER -> i]

Rows(c) == c.y .. c.y + c.h - 1
Columns(c) == c.x .. c.x + c.w - 1
Area(c) == Columns(c) \X Rows(c)

\* The pixels that one row of chunks stores: the last chunk is masked.
ChunksOf(c) == {k \in 0 .. c.w : k * Lanes < c.w}
Stored(c, k) == {c.x + k * Lanes + i : i \in 0 .. (IF c.w - k * Lanes >= Lanes THEN Lanes ELSE c.w - k * Lanes) - 1}
\* A bug: the last chunk is stored whole.
StoresUnmasked(c, x) == {k \in ChunksOf(c) : x \in {c.x + k * Lanes + i : i \in 0 .. Lanes - 1}}
StoresOf(c, x) == {k \in ChunksOf(c) : x \in Stored(c, k)}

\* The rows of a tile, cut off at the end of the rectangle.
RowsPerTile(c) == IF c.h < TileRows THEN c.h ELSE TileRows
\* A bug: the rest is no tile.
TileCountFloor(c) == c.h \div RowsPerTile(c)
TileCount(c) == (c.h + RowsPerTile(c) - 1) \div RowsPerTile(c)
RowsOfTile(c, t) == {y \in Rows(c) : y >= c.y + t * RowsPerTile(c) /\ y < c.y + (t + 1) * RowsPerTile(c)}
TilesOf(c, y) == {t \in 0 .. TileCount(c) - 1 : y \in RowsOfTile(c, t)}

Count(s) == Cardinality(s)

\* Threads and SIMD, SIMD alone, or neither: a pixel that fails ends a scalar shade.
ShadeTiled(c) ==
    /\ written' = [p \in Target |-> Count(StoresOf(c, p[1])) * Count(TilesOf(c, p[2]))]
    /\ failed' = FALSE
ShadeSimd(c) ==
    /\ written' = [p \in Target |-> Count(StoresOf(c, p[1])) * Count({p[2]} \cap Rows(c))]
    /\ failed' = FALSE
ShadeScalar(c) ==
    LET bad == RunFragment(InputsAt(c.x, c.y)).error
    IN  /\ failed' = bad
        /\ written' = [p \in Target |-> IF p \in Area(c) /\ ~bad THEN 1 ELSE 0]
Shade(c) ==
    /\ insts # <<>> /\ c.w > 0 /\ c.h > 0 /\ clip' = c
    /\ ShadeTiled(c) \/ ShadeSimd(c) \/ ShadeScalar(c)
    /\ UNCHANGED <<insts, uniforms>>

Next ==
    \/ \E w \in Programs : CreateShader(w)
    \/ DestroyShader
    \/ \E u \in 0 .. Uniforms - 1, v \in {-3, 5, NaN} : SetUniform(u, v)
    \/ \E c \in Clips : Shade(c)

Spec == Init /\ [][Next]_shaderVars

(***************************************************************************)
(* Properties                                                              *)
(***************************************************************************)
\* The shader is a sequence of known instructions.
TypeOK ==
    /\ \A n \in DOMAIN insts : insts[n][1] \in DOMAIN Arity /\ Len(insts[n]) = 1 + Arity[insts[n][1]]
    /\ uniforms \in [0 .. Uniforms - 1 -> Float] /\ failed \in BOOLEAN

\* Every pixel of the rectangle is written once and no other pixel is, however it is cut
\* into tiles and chunks: two threads never write the same pixel.
ShadedOnce == clip.w > 0 /\ ~failed => \A p \in Target : written[p] = IF p \in Area(clip) THEN 1 ELSE 0

\* Where the two interpreters go different ways: an input or a uniform that does not exist
\* (the register stays, or becomes 0), a position (an error, or nothing), a quotient or a
\* root of no number (none and 0, or 0 and none), the fraction of what no int holds (the
\* distance to the smallest one, or 0), and a blue that is no number (alpha gets a bit).
Parts(m, inst) ==
    LET op == inst[1]
        g(k) == Get(m.regs, inst[k + 1])
    IN  /\ ~m.halt
        /\ \/ op = LOAD_INPUT /\ inst[3] >= Inputs
           \/ op = LOAD_UNIFORM /\ inst[3] >= Uniforms
           \/ op = OUT_POSITION
           \/ op = DIV /\ g(3) = NaN
           \/ op = SQRT /\ g(2) = NaN
           \/ op = FRACT /\ g(2) # NaN /\ ~Fits(g(2))
           \/ op = OUT_COLOR /\ g(3) = NaN

\* A pixel on which the shader meets none of that
Tame(in) == \A n \in DOMAIN insts : ~Parts(ScalarRun(in)[n - 1], insts[n])

\* The two interpreters, written separately, paint the same picture, so that a change of the
\* settings cannot be seen, but for the pixels on which the shader meets what they take
\* differently.
InterpretersAgree ==
    \A p \in Target : LET in == InputsAt(p[1], p[2])
                      IN  Tame(in) => RunFragment(in).colour = RunChunk(in)

\* A shader that has been accepted fails in a fragment only because of a position: no other
\* instruction that the decoder lets through is unknown to the interpreter.
OnlyPositionsFail == failed => \E n \in DOMAIN insts : insts[n][1] = OUT_POSITION
=============================================================================
