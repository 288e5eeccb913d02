---------------------------- MODULE MlinkLayout ----------------------------
(***************************************************************************)
(* Where mlink puts things (tools/dev/mlink/layout.c, emit.c): the         *)
(* sections of the selected objects by their kind, with a page between     *)
(* kinds, then common symbols, and the names that tell a program where its *)
(* parts end.  Sizes are scaled down: a page is PageSize, the headers take *)
(* Header and another PhdrSize for each segment.  Addresses are offsets    *)
(* from the base, which is a multiple of the page.                         *)
(***************************************************************************)
EXTENDS Integers, Sequences

CONSTANTS
    Raw,              \* sections of objects: [alloc, exec, write, nobits, meta, size, align]
    CommonSymbols,    \* [size, align]
    MaxSections, MaxCommons,
    PageSize, Header, PhdrSize, CommonAlign

VARIABLES
    sections, commons,    \* what the selected objects bring, in their order
    laid                \* the layout has been made
layoutVars == <<sections, commons, laid>>

TypeOK ==
    /\ sections \in Seq(Raw) /\ Len(sections) <= MaxSections
    /\ commons \in Seq(CommonSymbols) /\ Len(commons) <= MaxCommons /\ laid \in BOOLEAN

\* .eh_frame, .comment and .note.GNU-stack are meta; what is not loaded is skipped, and so are they.
Kind(s) ==
    IF ~s.alloc THEN "skip" ELSE IF s.exec THEN "text"
    ELSE IF s.write THEN IF s.nobits THEN "bss" ELSE "data"
    ELSE IF s.meta THEN "skip" ELSE "rodata"

\* A bug: sections follow each other closely.
AlignNot(v, a) == v
AlignUp(v, a) == IF a <= 1 THEN v ELSE ((v + a - 1) \div a) * a

Of(kind) == {i \in 1 .. Len(sections) : Kind(sections[i]) = kind /\ sections[i].size > 0}
\* Where the sections of a kind end that are among the first i, from a cursor on
Ends(kind, start) ==
    LET end[i \in 0 .. Len(sections)] ==
            IF i = 0 THEN start
            ELSE IF i \in Of(kind) THEN AlignUp(end[i - 1], sections[i].align) + sections[i].size ELSE end[i - 1]
    IN  end

HasRodata == Of("rodata") # {}
HasRw == Of("data") \cup Of("bss") # {} \/ commons # <<>>
Phnum == 1 + (IF HasRodata THEN 1 ELSE 0) + (IF HasRw THEN 1 ELSE 0) + 1

All == Len(sections)
Text == Ends("text", AlignUp(Header + Phnum * PhdrSize, CommonAlign))
RoStart == IF HasRodata THEN AlignUp(Text[All], PageSize) ELSE Text[All]
Rodata == Ends("rodata", RoStart)
\* A bug: the data follow on the same page.
DataStartClose == Rodata[All]
DataStart == IF HasRw THEN AlignUp(Rodata[All], PageSize) ELSE Rodata[All]
Data == Ends("data", DataStart)
Bss == Ends("bss", Data[All])

Capped(a) == IF a > PageSize THEN PageSize ELSE a
\* A bug: the commons are put where the file ends.
CommonsOverBss == AlignUp(Data[All], CommonAlign)
\* Common symbols go behind the bss; no alignment of theirs is above a page.
CommonsStart == AlignUp(Bss[All], CommonAlign)
CommonEnds[k \in 0 .. Len(commons)] ==
    IF k = 0 THEN CommonsStart ELSE AlignUp(CommonEnds[k - 1], Capped(commons[k].align)) + commons[k].size
CommonOffset(k) == AlignUp(CommonEnds[k - 1], Capped(commons[k].align))
MemEnd == IF CommonEnds[Len(commons)] > CommonsStart THEN CommonEnds[Len(commons)] ELSE Bss[All]

FileSize == IF HasRw THEN Data[All] ELSE IF HasRodata THEN Rodata[All] ELSE Text[All]
\* A bug: the image ends with the file.
EndOfFile == [etext |-> Text[All], edata |-> FileSize, end |-> FileSize]
\* etext, edata (and __bss_start), end
LinkerValues == [etext |-> Text[All], edata |-> FileSize, end |-> IF HasRw THEN MemEnd ELSE FileSize]

\* The program headers: where in the file and in memory, how much of the file, and what may be done
Segments ==
    {[at |-> 0, file |-> Text[All], mem |-> Text[All], kinds |-> {"text"}]}
    \cup (IF HasRodata THEN {[at |-> RoStart, file |-> Rodata[All] - RoStart, mem |-> Rodata[All] - RoStart, kinds |-> {"rodata"}]} ELSE {})
    \cup (IF HasRw THEN {[at |-> DataStart, file |-> Data[All] - DataStart, mem |-> MemEnd - DataStart, kinds |-> {"data", "bss"}]} ELSE {})
\* The bytes of the file that are copied: all of a section that has any
Copied == {i \in 1 .. Len(sections) : Kind(sections[i]) # "skip" /\ ~sections[i].nobits /\ sections[i].size > 0}
Placed == [text |-> Text, rodata |-> Rodata, data |-> Data, bss |-> Bss]
Offset(i) == AlignUp(Placed[Kind(sections[i])][i - 1], sections[i].align)

\* The sections are given before the common symbols; their orders do not meet.
Init == sections = <<>> /\ commons = <<>> /\ laid = FALSE
AddSection(s) ==
    /\ ~laid /\ commons = <<>> /\ Len(sections) < MaxSections
    /\ sections' = Append(sections, s) /\ UNCHANGED <<commons, laid>>
AddCommon(c) == ~laid /\ Len(commons) < MaxCommons /\ commons' = Append(commons, c) /\ UNCHANGED <<sections, laid>>
Place == ~laid /\ laid' = TRUE /\ UNCHANGED <<sections, commons>>
Next == Place \/ (\E s \in Raw : AddSection(s)) \/ (\E c \in CommonSymbols : AddCommon(c))
Spec == Init /\ [][Next]_layoutVars

(***************************************************************************)
(* Properties                                                              *)
(***************************************************************************)
Present == Of("text") \cup Of("rodata") \cup Of("data") \cup Of("bss")
\* The things that take up memory: their kind and number, where, how much and on what
Extents ==
    {<<"section", i, Offset(i), sections[i].size, sections[i].align>> : i \in Present}
    \cup {<<"common", k, CommonOffset(k), commons[k].size, Capped(commons[k].align)>> : k \in 1 .. Len(commons)}
    \cup {<<"headers", 0, 0, Header + Phnum * PhdrSize, 1>>}
\* No two sections or common symbols share a byte, none lies over the headers, and each
\* is aligned as it asked for (layout.c:128).
NothingOverlaps ==
    laid =>
    /\ \A e \in Extents, f \in Extents : e # f => e[3] + e[4] <= f[3] \/ f[3] + f[4] <= e[3]
    /\ \A e \in Extents : e[5] > 1 => e[3] % e[5] = 0

\* Every section is in the segment of its kind, no page belongs to two segments, and the
\* part of a segment that is not in the file holds no copied byte (emit.c:92).
SegmentsHold ==
    laid =>
    /\ \A g \in Segments, h \in Segments : g # h =>
        LET Pages(x) == x.at \div PageSize .. (x.at + x.mem - 1) \div PageSize
        IN g.at % PageSize = 0 /\ (g.mem > 0 /\ h.mem > 0 => Pages(g) \cap Pages(h) = {})
    /\ \A g \in Segments : \A i \in 1 .. Len(sections) : Kind(sections[i]) \in g.kinds /\ sections[i].size > 0 =>
        /\ Offset(i) >= g.at /\ Offset(i) + sections[i].size <= g.at + g.mem
        /\ i \in Copied => Offset(i) + sections[i].size <= g.at + g.file
        /\ Kind(sections[i]) = "bss" => Offset(i) >= g.at + g.file
    /\ \A i \in Copied : Offset(i) + sections[i].size <= FileSize

\* A program that clears memory from edata to end clears all of its bss and commons, and
\* nothing that came from the file (symtab.c:234).
EndsRight ==
    laid =>
    /\ \A e \in Extents : e[4] > 0 => e[3] + e[4] <= LinkerValues.end
    /\ \A i \in Of("bss") : Offset(i) >= LinkerValues.edata
    /\ \A k \in 1 .. Len(commons) : CommonOffset(k) >= LinkerValues.edata
    /\ \A i \in Copied : Offset(i) + sections[i].size <= LinkerValues.edata
=============================================================================
