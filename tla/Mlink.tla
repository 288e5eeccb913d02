------------------------------- MODULE Mlink -------------------------------
(***************************************************************************)
(* mlink, the linker (tools/dev/mlink): inputs are loaded, members of      *)
(* archives are selected, symbols of the selected objects are resolved,    *)
(* what the command line, the macros and the linker itself define is       *)
(* added, and the image is written.  Each pass runs only while there was   *)
(* no error.  Sections and addresses are in MlinkLayout, the fields that   *)
(* relocations patch in MlinkReloc; here an address is the object, 0 for a *)
(* fixed value.                                                            *)
(*                                                                         *)
(* A symbol is <<name, bind, at>>: bind is "strong" or "weak", at is       *)
(* "undef", "common", "kept" (a section of the image) or "skipped".  The   *)
(* size of a common symbol is the third part of its object.                *)
(***************************************************************************)
EXTENDS Naturals, Sequences

CONSTANTS
    Files,        \* objects: [member, sound, syms, size, macros]
    MaxFiles,
    Lines,        \* command lines: [defsyms, entry], entry a set of at most one name
    LinkerNames,  \* the names the linker defines: end, etext ...
    DefaultEntry

VARIABLES
    pass,         \* what runs next
    failed,       \* error_count # 0
    inputs, chosen,
    walk, changed,    \* of the loop that selects members
    globals, storage,   \* the symbol table; the names that have a place for a common symbol
    defsyms, entry, fromCli,
    image         \* "none", "written"
linkVars == <<pass, failed, inputs, chosen, walk, changed, globals, storage, defsyms, entry, fromCli, image>>

Passes == {"args", "load", "pre", "select", "resolve", "defsym", "inject", "layout", "report", "post",
           "relocate", "emit", "done"}
NamesIn(f) == {f.syms[k][1] : k \in 1 .. Len(f.syms)} \cup {f.macros[k][2] : k \in 1 .. Len(f.macros)}
Names == {DefaultEntry} \cup LinkerNames \cup (UNION {l.defsyms \cup l.entry : l \in Lines})
         \cup (UNION {NamesIn(f) : f \in Files})
Blank == [defined |-> FALSE, common |-> FALSE, weak |-> FALSE, object |-> 0, size |-> 0, wanted |-> FALSE]
TypeOK ==
    /\ pass \in Passes /\ failed \in BOOLEAN /\ image \in {"none", "written"}
    /\ inputs \in Seq(Files) /\ Len(inputs) <= MaxFiles /\ chosen \subseteq 1 .. MaxFiles
    /\ walk \in 1 .. MaxFiles + 1 /\ changed \in BOOLEAN
    /\ DOMAIN globals \subseteq Names /\ storage \subseteq Names
    /\ defsyms \subseteq Names /\ entry \in Names /\ fromCli \in BOOLEAN

Init ==
    /\ pass = "args" /\ failed = FALSE /\ inputs = <<>> /\ chosen = {} /\ walk = 1 /\ changed = TRUE
    /\ globals = [n \in {} |-> Blank] /\ storage = {} /\ defsyms = {} /\ entry = DefaultEntry
    /\ fromCli = FALSE /\ image = "none"

\* After a pass: the next one, or the end once there was an error.
Then(p, bad) == failed' = bad /\ pass' = IF bad THEN "done" ELSE p

\* The command line: --defsym (each name once), -e; a bad option ends the program.
Args(l, bad) ==
    /\ pass = "args" /\ Then("load", bad)
    /\ defsyms' = l.defsyms /\ entry' \in (IF l.entry = {} THEN {DefaultEntry} ELSE l.entry) /\ fromCli' = (l.entry # {})
    /\ UNCHANGED <<inputs, chosen, walk, changed, globals, storage, image>>

\* What an object is refused for: its sections or its macros, its symbols, its relocations
SectionsLoad(f) == "sections" \in f.sound /\ \A k \in 1 .. Len(f.macros) : f.macros[k][1] # "unknown"
SymbolsLoad(f) == "symbols" \in f.sound
RelocsLoad(f) == "relocs" \in f.sound
Parses(f) == SectionsLoad(f) /\ SymbolsLoad(f) /\ RelocsLoad(f)
\* A member of an archive waits to be selected; the rest of an archive is not read when a member is refused.
Add(f) == inputs' = Append(inputs, f) /\ UNCHANGED failed
LoadMember(f) == f.member /\ IF Parses(f) THEN Add(f) /\ UNCHANGED chosen ELSE failed' = TRUE /\ UNCHANGED <<inputs, chosen>>
LoadObject(f) ==
    /\ ~f.member
    /\ IF Parses(f) THEN Add(f) /\ chosen' = chosen \cup {Len(inputs) + 1}
       ELSE failed' = TRUE /\ UNCHANGED <<inputs, chosen>>
\* main goes through all its inputs, also after an error.
Load(f) ==
    /\ pass = "load" /\ Len(inputs) < MaxFiles /\ ~failed
    /\ LoadMember(f) \/ LoadObject(f)
    /\ UNCHANGED <<pass, walk, changed, globals, storage, defsyms, entry, fromCli, image>>
Loaded ==
    /\ pass = "load" /\ (Len(inputs) > 0 \/ failed) /\ Then("pre", failed)
    /\ UNCHANGED <<inputs, chosen, walk, changed, globals, storage, defsyms, entry, fromCli, image>>

\* The macros in the order the objects were loaded, of members too, selected or not
MacrosTo[i \in 0 .. Len(inputs)] == IF i = 0 THEN <<>> ELSE MacrosTo[i - 1] \o inputs[i].macros
Macros == MacrosTo[Len(inputs)]
Entries == {k \in 1 .. Len(Macros) : Macros[k][1] = "ENTRY"}
\* Mutant: the last one wins.
PreLayoutLast ==
    /\ pass = "pre" /\ Then("select", FALSE)
    /\ entry' = (IF Entries = {} \/ fromCli THEN entry ELSE Macros[CHOOSE k \in Entries : \A m \in Entries : m <= k][2])
    /\ UNCHANGED <<inputs, chosen, walk, changed, globals, storage, defsyms, fromCli, image>>
\* ENTRY and BASE (which goes the same way): the first is taken, another name is an
\* error, and the command line is before them all.
PreLayout ==
    /\ pass = "pre"
    /\ entry' = (IF Entries = {} \/ fromCli THEN entry ELSE Macros[CHOOSE k \in Entries : \A m \in Entries : k <= m][2])
    /\ Then("select", ~fromCli /\ \E k \in Entries : Macros[k][2] # entry')
    /\ UNCHANGED <<inputs, chosen, walk, changed, globals, storage, defsyms, fromCli, image>>

(***************************************************************************)
(* Selection and resolution                                                *)
(***************************************************************************)
Syms(i) == {inputs[i].syms[k] : k \in 1 .. Len(inputs[i].syms)}
Located(s) == s[3] \notin {"undef", "common"}
SelectedDefine(n) == \E i \in chosen : \E s \in Syms(i) : Located(s) /\ s[1] = n
SelectedReference(n) ==
    /\ ~SelectedDefine(n)
    /\ \E i \in chosen : \E s \in Syms(i) : s = <<n, "strong", "undef">>
MemberNeeded(i) == \E s \in Syms(i) : Located(s) /\ SelectedReference(s[1])

\* Mutant: one walk over the objects.
SelectOnce ==
    /\ pass = "select"
    /\ IF walk <= Len(inputs)
       THEN /\ walk' = walk + 1 /\ UNCHANGED <<pass, changed>>
            /\ chosen' = chosen \cup (IF MemberNeeded(walk) THEN {walk} ELSE {})
       ELSE pass' = "resolve" /\ UNCHANGED <<chosen, walk, changed>>
    /\ UNCHANGED <<failed, inputs, globals, storage, defsyms, entry, fromCli, image>>
\* select_archive_members: one object of a walk, and again from the first while a walk selected any.
Select ==
    /\ pass = "select"
    /\ IF walk <= Len(inputs)
       THEN /\ walk' = walk + 1 /\ UNCHANGED pass
            /\ IF walk \notin chosen /\ inputs[walk].member /\ MemberNeeded(walk)
               THEN chosen' = chosen \cup {walk} /\ changed' = TRUE
               ELSE UNCHANGED chosen /\ changed' = (changed /\ walk # 1)
       ELSE /\ IF changed THEN walk' = 1 /\ UNCHANGED pass ELSE pass' = "resolve" /\ UNCHANGED walk
            /\ UNCHANGED <<chosen, changed>>
    /\ UNCHANGED <<failed, inputs, globals, storage, defsyms, entry, fromCli, image>>

\* The global of a name, made when it is not there.
Find(g, n) == IF n \in DOMAIN g THEN g[n] ELSE Blank
Put(g, n, r) == [m \in DOMAIN g \cup {n} |-> IF m = n THEN r ELSE g[m]]

\* Any definition after a strong one is an error, a weak one too; a weak one after a weak one changes nothing.
Duplicate(g, s) == Located(s) /\ Find(g, s[1]).defined /\ ~Find(g, s[1]).weak
Owned(old, i, s) ==
    [old EXCEPT !.defined = Located(s), !.common = ~Located(s), !.weak = (s[2] = "weak"), !.object = i, !.size = inputs[i].size]
\* A bug: what was first stays.
TakesFirst(old, i, s) == IF Located(s) THEN ~old.defined ELSE ~old.defined /\ ~old.common
\* Whether a symbol takes the place of what its name stands for: a common one of a
\* smaller common one, a definition of a common one or, when it is strong, of a weak one.
Takes(old, i, s) ==
    IF Located(s) THEN ~old.defined \/ (old.weak /\ s[2] = "strong")
    ELSE ~old.defined /\ (~old.common \/ inputs[i].size > old.size)
DefineGlobal(g, i, s) == Put(g, s[1], IF Takes(Find(g, s[1]), i, s) THEN Owned(Find(g, s[1]), i, s) ELSE Find(g, s[1]))
RecordUndefined(g, s) == Put(g, s[1], [Find(g, s[1]) EXCEPT !.wanted = @ \/ s[2] = "strong"])

\* The symbols of the selected objects, in their order
WorkTo[i \in 0 .. Len(inputs)] ==
    IF i = 0 THEN <<>>
    ELSE WorkTo[i - 1] \o (IF i \in chosen THEN [k \in 1 .. Len(inputs[i].syms) |-> <<i, inputs[i].syms[k]>>] ELSE <<>>)
Work == WorkTo[Len(inputs)]
\* What a symbol makes of the table
Resolving(acc, w) ==
    IF acc.bad THEN acc
    ELSE IF w[2][3] = "undef" THEN [acc EXCEPT !.g = RecordUndefined(@, w[2])]
    ELSE IF Duplicate(acc.g, w[2]) THEN [acc EXCEPT !.bad = TRUE]
    ELSE [acc EXCEPT !.g = DefineGlobal(@, w[1], w[2])]
ResolvedTo[k \in 0 .. Len(Work)] ==
    IF k = 0 THEN [g |-> globals, bad |-> FALSE] ELSE Resolving(ResolvedTo[k - 1], Work[k])
Resolved == ResolvedTo[Len(Work)]
Resolve ==
    /\ pass = "resolve" /\ \E r \in {Resolved} : globals' = r.g /\ Then("defsym", r.bad)
    /\ UNCHANGED <<inputs, chosen, walk, changed, storage, defsyms, entry, fromCli, image>>

(***************************************************************************)
(* What is defined beside the objects                                     *)
(***************************************************************************)
Absolute(old, weak) == [old EXCEPT !.defined = TRUE, !.common = FALSE, !.weak = weak, !.object = 0, !.size = 0]
InjectDefsyms ==
    /\ pass = "defsym" /\ Then("inject", \E n \in defsyms : Find(globals, n).defined)
    /\ globals' = [n \in DOMAIN globals \cup defsyms |-> IF n \in defsyms THEN Absolute(Find(globals, n), FALSE) ELSE globals[n]]
    /\ UNCHANGED <<inputs, chosen, walk, changed, storage, defsyms, entry, fromCli, image>>

\* DEFINE and PROVIDE in their order: PROVIDE gives way to a definition, DEFINE must not meet one.
Injecting(acc, m) ==
    IF acc.bad \/ m[1] \notin {"DEFINE", "PROVIDE"} THEN acc
    ELSE IF Find(acc.g, m[2]).defined THEN [acc EXCEPT !.bad = (m[1] = "DEFINE")]
    ELSE [acc EXCEPT !.g = Put(@, m[2], Absolute(Find(@, m[2]), m[1] = "PROVIDE"))]
InjectedTo[k \in 0 .. Len(Macros)] ==
    IF k = 0 THEN [g |-> globals, bad |-> FALSE] ELSE Injecting(InjectedTo[k - 1], Macros[k])
Injected == InjectedTo[Len(Macros)]
InjectMacros ==
    /\ pass = "inject" /\ globals' = Injected.g /\ Then("layout", Injected.bad)
    /\ UNCHANGED <<inputs, chosen, walk, changed, storage, defsyms, entry, fromCli, image>>

Given(n) == Find(globals, n).defined \/ Find(globals, n).common
\* A definition in a section that is left out of the image has no address.
Unsupported(n) ==
    /\ Find(globals, n).defined /\ Find(globals, n).object # 0
    /\ \E s \in Syms(Find(globals, n).object) : s[1] = n /\ s[3] = "skipped"
\* The linker's own names, for those that no definition has; a common symbol is no definition.
LinkerSymbols(g) ==
    [n \in DOMAIN g \cup LinkerNames |-> IF n \in LinkerNames /\ ~Find(g, n).defined THEN Absolute(Find(g, n), TRUE) ELSE g[n]]
\* Mutant: commons get their places after the linker's names.
LayoutLate ==
    /\ pass = "layout" /\ globals' = LinkerSymbols(globals) /\ storage' = {}
    /\ Then("report", (\E n \in DOMAIN globals : Unsupported(n)) \/ ~(Given(entry) \/ entry \in LinkerNames))
    /\ UNCHANGED <<inputs, chosen, walk, changed, defsyms, entry, fromCli, image>>
\* The commons get their places, the linker its names, and the entry must be known.
Layout ==
    /\ pass = "layout"
    /\ storage' = {n \in DOMAIN globals : globals[n].common}
    /\ IF \E n \in DOMAIN globals : Unsupported(n) THEN UNCHANGED globals ELSE globals' = LinkerSymbols(globals)
    /\ Then("report", (\E n \in DOMAIN globals : Unsupported(n)) \/ ~(Given(entry) \/ entry \in LinkerNames))
    /\ UNCHANGED <<inputs, chosen, walk, changed, defsyms, entry, fromCli, image>>

\* Mutant: nothing is reported.
ReportNothing ==
    /\ pass = "report" /\ Then("post", FALSE)
    /\ UNCHANGED <<inputs, chosen, walk, changed, globals, storage, defsyms, entry, fromCli, image>>
ReportUndefined ==
    /\ pass = "report" /\ Then("post", \E n \in DOMAIN globals : globals[n].wanted /\ ~Given(n))
    /\ UNCHANGED <<inputs, chosen, walk, changed, globals, storage, defsyms, entry, fromCli, image>>

\* ASSERT over names: an unknown one fails; how a comparison ends is left open.
PostLayout(holds) ==
    /\ pass = "post"
    /\ Then("relocate", \E k \in 1 .. Len(Macros) : Macros[k][1] = "ASSERT" /\ (~Given(Macros[k][2]) \/ ~holds))
    /\ UNCHANGED <<inputs, chosen, walk, changed, globals, storage, defsyms, entry, fromCli, image>>

\* What a relocation by a symbol of object i gets: its own section, or the global of that
\* name, or 0 when it is weak ("none": an error).
SymbolValue(i, s) ==
    IF s[3] \in {"kept", "skipped"} THEN IF s[3] = "kept" THEN <<"object", i>> ELSE <<"none", 0>>
    ELSE IF Given(s[1]) THEN <<"object", globals[s[1]].object>>
    ELSE IF s[2] = "weak" THEN <<"zero", 0>> ELSE <<"none", 0>>
\* All relocations are gone through, whatever fails; they may use the symbols or not, and a
\* field may be too small.
ApplyRelocations(used, fits) ==
    /\ pass = "relocate"
    /\ Then("emit", ~fits \/ (used /\ \E i \in chosen : \E s \in Syms(i) : SymbolValue(i, s)[1] = "none"))
    /\ UNCHANGED <<inputs, chosen, walk, changed, globals, storage, defsyms, entry, fromCli, image>>

\* The map and the image; --dry-run writes no image, and a file may be refused.
Emit(written, refused) ==
    /\ pass = "emit" /\ pass' = "done" /\ failed' = refused
    /\ image' = (IF written /\ ~refused THEN "written" ELSE "none")
    /\ UNCHANGED <<inputs, chosen, walk, changed, globals, storage, defsyms, entry, fromCli>>

LinkStep ==
    \/ pass = "args" /\ \E l \in Lines, b \in BOOLEAN : Args(l, b)
    \/ pass = "load" /\ \E f \in Files : Load(f)
    \/ Loaded \/ PreLayout \/ Select \/ Resolve \/ InjectDefsyms \/ InjectMacros \/ Layout \/ ReportUndefined
    \/ \E b \in BOOLEAN : PostLayout(b) \/ \E c \in BOOLEAN : ApplyRelocations(b, c) \/ Emit(b, c)
Next == LinkStep
Spec == Init /\ [][Next]_linkVars /\ WF_linkVars(LinkStep)

(***************************************************************************)
(* Properties                                                              *)
(***************************************************************************)
Later(p) == pass \in p /\ ~failed
\* When members have been selected, none is left that has what a selected object still
\* lacks, and each selected one defines a name that a selected object wants: whatever the
\* order of the archives (symtab.c:101).
ArchivesSettled ==
    pass \in {"resolve", "defsym", "inject", "layout", "report", "post", "relocate", "emit"} =>
    /\ \A i \in 1 .. Len(inputs) : i \notin chosen => ~MemberNeeded(i)
    /\ \A i \in chosen : inputs[i].member =>
        \E s \in Syms(i) : Located(s) /\ \E j \in chosen : <<s[1], "strong", "undef">> \in Syms(j)

\* The objects that define a name in one of these ways
Having(n, bind, P(_)) == {i \in chosen : \E s \in Syms(i) : s[1] = n /\ s[2] \in bind /\ P(s[3])}
IsKept(at) == at \in {"kept", "skipped"}
IsCommon(at) == at = "common"

\* Of the definitions of a name the strong one is taken, or the first weak one, or the
\* largest common one; none follows a strong one, not even a weak one (symtab.c:120).
ResolvedRight ==
    Later({"defsym"}) => \A n \in DOMAIN globals :
        LET strong == Having(n, {"strong"}, IsKept)
            weak == Having(n, {"weak"}, IsKept)
            common == Having(n, {"strong", "weak"}, IsCommon)
        IN /\ globals[n].defined = (strong \cup weak # {})
           /\ strong # {} => strong = {globals[n].object} /\ \A i \in weak : i <= globals[n].object
           /\ strong = {} /\ weak # {} => globals[n].object = CHOOSE i \in weak : \A j \in weak : i <= j
           /\ strong \cup weak = {} /\ common # {} =>
                globals[n].common /\ globals[n].size \in {inputs[i].size : i \in common}
                /\ \A i \in common : inputs[i].size <= globals[n].size

\* An image is written only when everything that was asked for is in it: every strong
\* reference, the entry, the names of the macros' assertions (cli.c:227).
ImageComplete ==
    image = "written" =>
    /\ ~failed /\ Given(entry)
    /\ \A i \in chosen : \A s \in Syms(i) : s[2] = "strong" => SymbolValue(i, s)[1] = "object"
    /\ \A k \in 1 .. Len(Macros) : Macros[k][1] = "ASSERT" => Given(Macros[k][2])

\* A common symbol that nothing else defines has a place of its own in the image (layout.c:43).
CommonsPlaced ==
    image = "written" => \A n \in DOMAIN globals : globals[n].common => n \in storage

\* The macros do not disagree about where the program starts (macro.c:358).
EntryAgreed ==
    Later({"select"}) => \A k \in Entries : fromCli \/ Macros[k][2] = entry

\* The link ends, the loop over the archives too.
Waits == pass # "args"
Settled == pass = "done"
=============================================================================
