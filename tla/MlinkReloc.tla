---------------------------- MODULE MlinkReloc ----------------------------
(***************************************************************************)
(* The fields that mlink patches (tools/dev/mlink/reloc.c).  An address is *)
(* a word of 2^Word values, as in C unsigned, and signed where the code    *)
(* casts it; a relocation stores all of it or a field of 2^Field values    *)
(* (32, 16 or 8 bits), after a test that the value is not changed by that. *)
(***************************************************************************)
EXTENDS Integers, FiniteSets

CONSTANTS
    Word, Field,      \* how many values a word, a field has
    Addresses,        \* of symbols and places
    Addends

VARIABLES
    relocation,   \* what is patched: [type, s, a, p, code], code the instruction before the field
    field,        \* the value stored, -1 before
    opcode,       \* the instruction afterwards
    refused       \* an error was reported
relocVars == <<relocation, field, opcode, refused>>

\* R_X86_64_64, PC64 and SIZE64 take a word; GOTPCREL and its relatives are made direct.
Types == {"64", "PC64", "PC", "ABS", "ABSS", "SIZE", "SIZE64", "GOTPCREL", "OTHER"}
Codes == {"mov", "call", "jmp", "add"}
None == [type |-> "none", s |-> 0, a |-> 0, p |-> 0, code |-> "add"]
TypeOK ==
    /\ relocation \in [type : Types, s : Addresses, a : Addends, p : Addresses, code : Codes] \cup {None}
    /\ field \in -1 .. Word - 1 /\ opcode \in Codes \cup {"lea", "call direct", "jmp direct"} /\ refused \in BOOLEAN

Unsigned(v) == v % Word
Signed(v) == IF v % Word >= Word \div 2 THEN (v % Word) - Word ELSE v % Word
\* How a field is read: with its sign, or without.
SignExtended(f) == IF f >= Field \div 2 THEN Unsigned(f - Field) ELSE f

\* A bug: the sign is not looked at.
FitsLoosely(v) == v >= -(Field \div 2) /\ v < Field
FitsSigned(v) == v >= -(Field \div 2) /\ v < Field \div 2
FitsUnsigned(v) == v >= 0 /\ v < Field

\* The value of a relocation, with the C code's casts
Value(r) ==
    CASE r.type = "64" \/ r.type = "SIZE64" -> Unsigned(r.s + r.a)
      [] r.type = "PC64" -> Unsigned(r.s + r.a - r.p)
      [] r.type \in {"PC", "GOTPCREL"} -> Signed(r.s + r.a - r.p)
      [] OTHER -> Signed(r.s + r.a)
Fits(r) ==
    CASE r.type \in {"64", "PC64", "SIZE64"} -> TRUE
      [] r.type \in {"PC", "ABSS", "GOTPCREL"} -> FitsSigned(Value(r))
      [] r.type \in {"ABS", "SIZE"} -> FitsUnsigned(Value(r))
      [] OTHER -> FALSE

\* A bug: the instruction is left as it was.
RelaxedNot(code) == code
\* A load of an address from the table becomes its computation, an indirect call or jump a
\* direct one of the same length; any other instruction cannot be changed.
Relaxed(code) == CASE code = "mov" -> "lea" [] code = "call" -> "call direct" [] code = "jmp" -> "jmp direct" [] OTHER -> "add"
Relaxable(code) == code \in {"mov", "call", "jmp"}

Init == relocation = None /\ field = -1 /\ opcode = "add" /\ refused = FALSE

\* Without an addend of its own (REL) a relocation takes the one that the field holds; inside
\* or outside of its section is not told apart from a type that is not supported.  The
\* instruction is changed before the test of the value.
Patch(r) ==
    /\ relocation = None /\ relocation' = r
    /\ LET bad == (r.type = "GOTPCREL" /\ ~Relaxable(r.code)) \/ ~Fits(r)
       IN /\ refused' = bad
          /\ field' = (IF bad THEN -1 ELSE IF r.type \in {"64", "PC64", "SIZE64"} THEN Value(r) ELSE Value(r) % Field)
    /\ opcode' = (IF r.type = "GOTPCREL" THEN Relaxed(r.code) ELSE r.code)
Next ==
    \E t \in Types, s \in Addresses, a \in Addends, p \in Addresses, c \in Codes :
        (t # "GOTPCREL" => c = "add") /\ Patch([type |-> t, s |-> s, a |-> a, p |-> p, code |-> c])
Spec == Init /\ [][Next]_relocVars

(***************************************************************************)
(* Properties                                                              *)
(***************************************************************************)
\* What the processor makes of a patched field is the address, or the distance, that the
\* relocation asks for, for every place and symbol and any wrap of the addition
\* (reloc.c:232).
RelocationsExact ==
    field >= 0 =>
    LET r == relocation
        read == CASE r.type \in {"64", "PC64", "SIZE64", "ABS", "SIZE"} -> field [] OTHER -> SignExtended(field)
    IN read = Unsigned(r.s + r.a - (IF r.type \in {"PC", "PC64", "GOTPCREL"} THEN r.p ELSE 0))

\* An instruction that went through the table reaches the symbol without it, and one that
\* cannot be changed is refused (reloc.c:153).
RelaxedRight ==
    relocation.type = "GOTPCREL" /\ ~refused =>
        <<relocation.code, opcode>> \in {<<"mov", "lea">>, <<"call", "call direct">>, <<"jmp", "jmp direct">>}
=============================================================================
