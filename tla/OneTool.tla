------------------------------ MODULE OneTool ------------------------------
(***************************************************************************)
(* The tools of onetool.  main.c looks up the first argument and calls one *)
(* of them; a process runs that one until it ends.  Each tool is a module  *)
(* of its own with its own variables; here they are given their instances  *)
(* for model checking, and one process runs any of them.                   *)
(***************************************************************************)
EXTENDS Integers, FiniteSets, Sequences

CONSTANTS
    Panels, Buttons, Checks, Textboxes, Sliders, Popups, Above, Toggled, Switched, Dwell,   \* of Ranal
    Bubbles, MaxSize, Modes,                    \* of RanalFrame, whose Popups are the Bubbles
    Tops, Pops, Subs, Framing, WithApp,         \* of WlBridge and WlLauncher
    Focusable, Keyboards, Keys, Bit, CapsLock, MaxPressed,  \* of WlSeat, whose Surfaces are Focusable
    Params, Planes, MaxFds,                     \* of WlDmabuf
    Starts, Lengths, Sizes, Offsets, Bounds,    \* of WlPositioner
    LinkFiles, MaxFiles, LinkLines, LinkerNames, DefaultEntry,      \* of Mlink
    RawSections, RawCommons, MaxSections, MaxCommons, PageSize, Header, PhdrSize, CommonAlign,  \* of MlinkLayout
    Word, Field, Addresses, Addends,            \* of MlinkReloc
    Cols, Rows, Scrollback, Counts, Tab, MaxOps,            \* of TermScreen
    MaxKeys, Buffer, ShellOutput,               \* of TermSession
    BodySizes, MaxAddresses, RuleLengths,       \* of NetFetch
    Hosts, Threads, Slots, MaxSessions, MaxClock,           \* of NetSessions
    Servers, Gives, Noise                       \* of Nsetup

VARIABLES
    tool,         \* which of them the process runs
    phase, live, hidden, disabled, focused, caret, dragging, checked, prev, curr,
    under, hot, cursor, dwell, adrift,
    stage, mode, render, dirty, presented, closing, win, fb, popups, psurf, shown,
    silent, away, paused, resume,
    joined, exists, role, parent, sprot, told, put, calls, freq, configured,
    unanswered, has, visible, owed, placed, error, again, orphaned,
    step, bridge, app, termed,
    alive, there, focus, pressed, mods, locked, boards, entered, known, since,
    objects, used, slot, linear, buffer, open, sent, dead, node,
    pos, at, extent,
    pass, failed, inputs, chosen, walk, changed, globals, storage, defsyms, entry,
    fromCli, image,
    sections, commons, laid,
    relocation, field, opcode, refused,
    grids, alt, cx, cy, saved, top, bot, history, view, ops, kept, lossless,
    stray, wild,
    turn, shell, pty, slave, asked, typed, waiting, taken, state, understood,
    doing, wants, options, descriptors, addresses, requested, verdict, answer, wire,
    prefill, remain, written, exitcode, lines, came,
    table, clock, references, connection, recent,
    reached, udp, lease, packets, replies, granted, kernel, outcome

\* Of three servers of addresses the last does not say who it is.
Options == <<{"id", "router", "dns"}, {"id", "mask"}, {"mask"}>>
Strays ==
    {[type |-> "ack", from |-> 2, addr |-> a, for |-> "others", ends |-> TRUE] : a \in {1, 2}}
    \cup {[type |-> "offer", from |-> 1, addr |-> 1, for |-> "us", ends |-> FALSE]}
\* A panel with a textbox, a popup with a slider and a checkbox
PanelAndPopup == [x \in {"p", "t", "m", "sl", "k"} |->
    CASE x = "t" -> {"t", "p"} [] x = "sl" -> {"sl", "m"} [] x = "k" -> {"k", "m"} [] OTHER -> {x}]
\* Two keys of one bit, one that is alone, and CapsLock
ShiftsAndCtrl == [k \in {"lshift", "rshift", "ctrl", "caps"} |-> IF k \in {"lshift", "rshift"} THEN "shift" ELSE k]
\* Rectangles that begin before the parent and in it
SomeStarts == {-1, 2}
\* Addends on both sides of 0, and of a field
SomeAddends == {-8, -1, 0, 1, 8}

\* A main program, members of archives and objects that meet in every way
Sound == {"sections", "symbols", "relocs"}
Obj(member, syms, size, macros) == [member |-> member, sound |-> Sound, syms |-> syms, size |-> size, macros |-> macros]
SomeFiles == {
    Obj(FALSE, <<<<"start", "strong", "kept">>, <<"b", "strong", "undef">>>>, 0, <<>>),
    Obj(TRUE, <<<<"b", "strong", "kept">>, <<"c", "strong", "undef">>>>, 0, <<<<"ENTRY", "start">>>>),
    Obj(TRUE, <<<<"c", "strong", "kept">>>>, 0, <<<<"PROVIDE", "b">>>>),
    Obj(FALSE, <<<<"b", "weak", "kept">>, <<"c", "weak", "undef">>>>, 0, <<<<"ASSERT", "c">>>>),
    Obj(FALSE, <<<<"b", "strong", "common">>, <<"end", "strong", "common">>>>, 1, <<<<"ENTRY", "b">>>>),
    Obj(FALSE, <<<<"b", "strong", "common">>, <<"c", "strong", "skipped">>>>, 2, <<>>),
    Obj(FALSE, <<<<"b", "strong", "kept">>>>, 0, <<<<"DEFINE", "c">>>>),
    [Obj(FALSE, <<>>, 0, <<>>) EXCEPT !.sound = {"symbols"}]}
SomeLines == {[defsyms |-> {}, entry |-> {}], [defsyms |-> {"c"}, entry |-> {"b"}]}
Part(exec, write, nobits, size, align) ==
    [alloc |-> TRUE, exec |-> exec, write |-> write, nobits |-> nobits, meta |-> FALSE, size |-> size, align |-> align]
SomeSections == {Part(TRUE, FALSE, FALSE, 3, 1), Part(FALSE, FALSE, FALSE, 3, 2), Part(FALSE, TRUE, FALSE, 3, 1),
    Part(FALSE, TRUE, FALSE, 2, 4), Part(FALSE, TRUE, TRUE, 5, 1), Part(FALSE, TRUE, TRUE, 1, 8),
    [Part(FALSE, FALSE, FALSE, 4, 1) EXCEPT !.meta = TRUE]}
SomeCommons == {[size |-> 1, align |-> 1], [size |-> 3, align |-> 16]}

R == INSTANCE Ranal
F == INSTANCE RanalFrame WITH
    Popups <- Bubbles
B == INSTANCE WlBridge
L == INSTANCE WlLauncher
S == INSTANCE WlSeat WITH
    Surfaces <- Focusable, Children <- Focusable \ Tops
D == INSTANCE WlDmabuf
P == INSTANCE WlPositioner
ML == INSTANCE Mlink WITH
    Files <- LinkFiles, Lines <- LinkLines
MO == INSTANCE MlinkLayout WITH
    Raw <- RawSections, CommonSymbols <- RawCommons
MR == INSTANCE MlinkReloc
TS == INSTANCE TermScreen
TE == INSTANCE TermSession WITH
    Output <- ShellOutput
NF == INSTANCE NetFetch WITH
    Sizes <- BodySizes, Lengths <- RuleLengths
NS == INSTANCE NetSessions
ND == INSTANCE Nsetup

\* A widget is placed in itself, and no widget or surface is the one that stands for none.
ASSUME RanalAssumption == R!None \notin R!Widgets /\ (\A w \in R!Widgets : w \in Above[w]) /\ Dwell \in Nat
ASSUME FrameAssumption == MaxSize \in Nat
ASSUME SurfacesAssumption == B!None \notin B!Surfaces /\ S!None \notin Focusable /\ MaxPressed \in Nat
ASSUME DmabufAssumption == 0 \in Planes /\ MaxFds \in Nat
\* The setters of the positioner refuse what is not positive (xdg.c:303, 316).
ASSUME PositionerAssumption ==
    Starts \cup Offsets \cup Bounds \subseteq Int /\ Lengths \subseteq Nat /\ Sizes \subseteq Nat \ {0}

\* Terms of at least 20 columns and 5 rows (term.c:1037), parameters that are not negative
ASSUME ScreenAssumption ==
    /\ Cols \in Nat \ {0} /\ Rows \in Nat \ {0} /\ Scrollback \in Nat /\ Tab \in Nat \ {0} /\ Counts \subseteq Nat
    /\ MaxOps \in Nat
ASSUME KeysAssumption == MaxKeys \in Nat /\ Buffer \in Nat
\* A field holds one number at least and is a part of a word.
ASSUME RelocAssumption ==
    Word \in Nat \ {0} /\ Field \in Nat \ {0} /\ Field <= Word /\ Addresses \subseteq Int /\ Addends \subseteq Int
\* Symbols and macros of an object are lists; its size is that of a common symbol.
ASSUME LinkAssumption ==
    /\ MaxFiles \in Nat
    /\ \A f \in LinkFiles :
        /\ f.member \in BOOLEAN /\ f.size \in Nat /\ f.macros \in Seq(STRING \X STRING)
        /\ f.syms \in Seq(STRING \X {"strong", "weak"} \X {"undef", "common", "kept", "skipped"})
ASSUME LayoutAssumption ==
    /\ MaxSections \in Nat /\ MaxCommons \in Nat
    /\ PageSize \in Nat \ {0} /\ Header \in Nat /\ PhdrSize \in Nat /\ CommonAlign \in Nat
    /\ \A s \in RawSections \cup RawCommons : s.size \in Nat /\ s.align \in Nat
ASSUME FetchAssumption ==
    MaxAddresses \in Nat /\ BodySizes # {} /\ BodySizes \cup RuleLengths \subseteq Nat
\* The table has a slot at least (transport.c:9).
ASSUME SessionsAssumption == IsFiniteSet(Threads) /\ Slots \in Nat \ {0} /\ MaxSessions \in Nat
\* Of what arrives unasked no complete acknowledgement is for us: the server that has given
\* us its address sends that.
ASSUME DhcpAssumption ==
    /\ Servers # {} /\ Servers \subseteq Nat \ {0}
    /\ Noise \subseteq ND!Messages /\ \A m \in Noise : m.type = "ack" /\ m.for = "us" => ~ m.ends

ranalVars == <<phase, live, hidden, disabled, focused, caret, dragging, checked, prev,
    curr, under, hot, cursor, dwell, adrift>>
frameVars == <<stage, mode, render, dirty, presented, closing, win, fb, popups, psurf,
    shown, silent, away, paused, resume>>
wlbridgeVars == <<joined, exists, role, parent, sprot, told, put, calls, freq,
    configured, unanswered, has, visible, owed, placed, error, again, orphaned>>
launcherVars == <<step, bridge, app, termed>>
wlseatVars == <<alive, there, focus, pressed, mods, locked, boards, entered, known, since>>
dmabufVars == <<objects, used, slot, linear, buffer, open, sent, dead, node>>
positionerVars == <<pos, at, extent>>
mlinkVars == <<pass, failed, inputs, chosen, walk, changed, globals, storage, defsyms,
    entry, fromCli, image>>
layoutVars == <<sections, commons, laid>>
relocVars == <<relocation, field, opcode, refused>>
screenVars == <<grids, alt, cx, cy, saved, top, bot, history, view, ops, kept,
    lossless, stray, wild>>
sessionVars == <<turn, shell, pty, slave, asked, typed, waiting, taken, state,
    understood>>
fetchVars == <<doing, wants, options, descriptors, addresses, requested, verdict,
    answer, wire, prefill, remain, written, exitcode, lines, came>>
sessionsVars == <<table, clock, references, connection, recent>>
nsetupVars == <<reached, udp, lease, packets, replies, granted, kernel, outcome>>
vars == <<tool, ranalVars, frameVars, wlbridgeVars, launcherVars, wlseatVars,
    dmabufVars, positionerVars, mlinkVars, layoutVars, relocVars, screenVars,
    sessionVars, fetchVars, sessionsVars, nsetupVars>>

Tools == {"ranal", "frame", "wlbridge", "launcher", "wlseat", "dmabuf", "positioner", "mlink", "layout", "reloc", "screen", "session", "fetch", "sessions", "nsetup"}
Init == tool \in Tools /\ R!Init /\ F!Init /\ B!Init /\ L!Init /\ S!Init /\ D!Init /\
        P!Init /\ ML!Init /\ MO!Init /\ MR!Init /\ TS!Init /\ TE!Init /\ NF!Init /\
        NS!Init /\ ND!Init

\* Only the variables of the tool that runs change.
Next ==
    \/ tool = "ranal" /\ R!Next /\ UNCHANGED <<tool, frameVars, wlbridgeVars,
            launcherVars, wlseatVars, dmabufVars, positionerVars, mlinkVars,
            layoutVars, relocVars, screenVars, sessionVars, fetchVars, sessionsVars,
            nsetupVars>>
    \/ tool = "frame" /\ F!Next /\ UNCHANGED <<tool, ranalVars, wlbridgeVars,
            launcherVars, wlseatVars, dmabufVars, positionerVars, mlinkVars,
            layoutVars, relocVars, screenVars, sessionVars, fetchVars, sessionsVars,
            nsetupVars>>
    \/ tool = "wlbridge" /\ B!Next /\ UNCHANGED <<tool, ranalVars, frameVars,
            launcherVars, wlseatVars, dmabufVars, positionerVars, mlinkVars,
            layoutVars, relocVars, screenVars, sessionVars, fetchVars, sessionsVars,
            nsetupVars>>
    \/ tool = "launcher" /\ L!Next /\ UNCHANGED <<tool, ranalVars, frameVars,
            wlbridgeVars, wlseatVars, dmabufVars, positionerVars, mlinkVars,
            layoutVars, relocVars, screenVars, sessionVars, fetchVars, sessionsVars,
            nsetupVars>>
    \/ tool = "wlseat" /\ S!Next /\ UNCHANGED <<tool, ranalVars, frameVars,
            wlbridgeVars, launcherVars, dmabufVars, positionerVars, mlinkVars,
            layoutVars, relocVars, screenVars, sessionVars, fetchVars, sessionsVars,
            nsetupVars>>
    \/ tool = "dmabuf" /\ D!Next /\ UNCHANGED <<tool, ranalVars, frameVars,
            wlbridgeVars, launcherVars, wlseatVars, positionerVars, mlinkVars,
            layoutVars, relocVars, screenVars, sessionVars, fetchVars, sessionsVars,
            nsetupVars>>
    \/ tool = "positioner" /\ P!Next /\ UNCHANGED <<tool, ranalVars, frameVars,
            wlbridgeVars, launcherVars, wlseatVars, dmabufVars, mlinkVars, layoutVars,
            relocVars, screenVars, sessionVars, fetchVars, sessionsVars, nsetupVars>>
    \/ tool = "mlink" /\ ML!Next /\ UNCHANGED <<tool, ranalVars, frameVars,
            wlbridgeVars, launcherVars, wlseatVars, dmabufVars, positionerVars,
            layoutVars, relocVars, screenVars, sessionVars, fetchVars, sessionsVars,
            nsetupVars>>
    \/ tool = "layout" /\ MO!Next /\ UNCHANGED <<tool, ranalVars, frameVars,
            wlbridgeVars, launcherVars, wlseatVars, dmabufVars, positionerVars,
            mlinkVars, relocVars, screenVars, sessionVars, fetchVars, sessionsVars,
            nsetupVars>>
    \/ tool = "reloc" /\ MR!Next /\ UNCHANGED <<tool, ranalVars, frameVars,
            wlbridgeVars, launcherVars, wlseatVars, dmabufVars, positionerVars,
            mlinkVars, layoutVars, screenVars, sessionVars, fetchVars, sessionsVars,
            nsetupVars>>
    \/ tool = "screen" /\ TS!Next /\ UNCHANGED <<tool, ranalVars, frameVars,
            wlbridgeVars, launcherVars, wlseatVars, dmabufVars, positionerVars,
            mlinkVars, layoutVars, relocVars, sessionVars, fetchVars, sessionsVars,
            nsetupVars>>
    \/ tool = "session" /\ TE!Next /\ UNCHANGED <<tool, ranalVars, frameVars,
            wlbridgeVars, launcherVars, wlseatVars, dmabufVars, positionerVars,
            mlinkVars, layoutVars, relocVars, screenVars, fetchVars, sessionsVars,
            nsetupVars>>
    \/ tool = "fetch" /\ NF!Next /\ UNCHANGED <<tool, ranalVars, frameVars,
            wlbridgeVars, launcherVars, wlseatVars, dmabufVars, positionerVars,
            mlinkVars, layoutVars, relocVars, screenVars, sessionVars, sessionsVars,
            nsetupVars>>
    \/ tool = "sessions" /\ NS!Next /\ UNCHANGED <<tool, ranalVars, frameVars,
            wlbridgeVars, launcherVars, wlseatVars, dmabufVars, positionerVars,
            mlinkVars, layoutVars, relocVars, screenVars, sessionVars, fetchVars,
            nsetupVars>>
    \/ tool = "nsetup" /\ ND!Next /\ UNCHANGED <<tool, ranalVars, frameVars,
            wlbridgeVars, launcherVars, wlseatVars, dmabufVars, positionerVars,
            mlinkVars, layoutVars, relocVars, screenVars, sessionVars, fetchVars,
            sessionsVars>>

\* The steps that each of them goes on taking.
Fairness ==
    /\ WF_ranalVars(tool = "ranal" /\ R!PassStep)
    /\ WF_frameVars(tool = "frame" /\ F!FrameStep)
    /\ WF_wlbridgeVars(tool = "wlbridge" /\ B!BridgeStep)
    /\ WF_launcherVars(tool = "launcher" /\ L!LauncherStep)
    /\ WF_mlinkVars(tool = "mlink" /\ ML!LinkStep)
    /\ WF_sessionVars(tool = "session" /\ TE!SessionStep)
    /\ WF_fetchVars(tool = "fetch" /\ NF!FetchStep)
    /\ WF_nsetupVars(tool = "nsetup" /\ ND!Progress)
Spec == Init /\ [][Next]_vars /\ Fairness

(***************************************************************************)
(* Properties                                                              *)
(***************************************************************************)
\* The variables of the one that runs have their types; those of the others stay as they were.
TypeOK ==
    /\ tool \in Tools
    /\ tool = "ranal" => R!TypeOK
    /\ tool = "frame" => F!TypeOK
    /\ tool = "wlbridge" => B!TypeOK
    /\ tool = "launcher" => L!TypeOK
    /\ tool = "wlseat" => S!TypeOK
    /\ tool = "dmabuf" => D!TypeOK
    /\ tool = "positioner" => P!TypeOK
    /\ tool = "mlink" => ML!TypeOK
    /\ tool = "layout" => MO!TypeOK
    /\ tool = "reloc" => MR!TypeOK
    /\ tool = "screen" => TS!TypeOK
    /\ tool = "session" => TE!TypeOK
    /\ tool = "fetch" => NF!TypeOK
    /\ tool = "sessions" => NS!TypeOK
    /\ tool = "nsetup" => ND!TypeOK

\* The toolkit keeps hold of nothing that is gone, and shows what is.
WidgetsSafe ==
    \* libs/gui/ranal, the widgets
    /\ tool = "ranal" =>
        \* The focus is on a textbox that exists, unless that was freed together with
        \* a panel or a popup around it: only the widget itself is compared (widget.c:242).
        /\ R!FocusExists
        \* Whatever is pressed, hidden or freed, there is one caret at most, and it is
        \* where the keys go (app.c:569).
        /\ R!CaretIsFocus
        \* A slider follows the pointer only while the button is held, also when the
        \* release came with other events in one pass, or on a popup (app.c:596).
        /\ R!DragsHeld
    \* libs/gui/ranal, the frames
    /\ tool = "frame" =>
        \* An application that draws nothing more shows its present state, widgets that came
        \* or went without a mark aside (widget.c:225), and as long as its terminal was not left
        \* since it drew: what is presented meanwhile is dropped, and coming back draws nothing
        \* (drm.c:709).
        /\ F!ShownWhenIdle
        \* No surface of a popup outlives it.
        /\ F!PopupSurfaces
        \* What was presented since the last resize was copied to the window from a framebuffer
        \* of its size, whatever the order of resizes and failures (swm_client.c:316).
        /\ F!WholeCopy

\* The bridge to Wayland tells both sides the truth, and cleans up.
BridgeSafe ==
    \* wlbridge
    /\ tool = "wlbridge" =>
        \* A commit that was put off never outlasts its reason: a surface that has its id and
        \* whose parent has one has nothing left to flush (surface.c:120).
        /\ B!DeferredMeansWaiting
        \* What swm shows of a surface with a role is where the client put it: no popup is
        \* ever painted as a window of its own, or over a former parent (xdg.c:234).
        /\ B!ShownInPlace
        \* A frame the bridge waits for is one swm still has to deliver, except that a surface
        \* which lost its role waits for that of its former self (surface.c:89).
        /\ B!FramesOwed
        \* swm ends a client with an ERROR only when a popup with children was destroyed
        \* before them: their ids are dead then, and the bridge does not know (xdg.c:451).
        /\ B!KilledAfterOrphans
        \* The empty commit of a new toplevel is answered with a configure, or its surface had
        \* a toplevel before (surface.c:399).
        /\ B!InitialCommitAnswered
    \* wayland_bridge
    /\ tool = "launcher" =>
        \* When the launcher has ended, neither child is left running or as a zombie, at
        \* whatever moment each of them ended (wayland_bridge.c:232).
        /\ L!NoChildLeft
    \* wlbridge, the seat
    /\ tool = "wlseat" =>
        \* Every keyboard object of the client, whenever it was made, was told of the focus the
        \* bridge sends keys to, and that is never on a freed surface (surface.c:7). It may be
        \* on one that has lost its role, and with it its surface of sprot (xdg.c:451).
        /\ S!KeyboardsAgree
        \* What the client takes for pressed was pressed on this surface: neither keys nor
        \* modifiers go over to the next one, also when the former was destroyed (input.c:162).
        \* A modifier that is down and has its bit to itself counts as down.
        /\ S!KeysOfFocus
        \* All keyboards of the client know the modifiers, those down and those locked (input.c:359).
        /\ S!ModifiersKnown
    \* wlbridge, buffers
    /\ tool = "dmabuf" =>
        \* Every open descriptor has one owner that will close it: a slot of a params object or
        \* a buffer, and never both, whatever failed (dmabuf.c:141).
        /\ D!FdsOwnedOnce
    \* wlbridge, popups
    /\ tool = "positioner" =>
        \* A popup that may be cut is inside the parent, one that may slide and is not too large
        \* is inside with its full size, and one that fits where it was asked for, or may not be
        \* adjusted, is exactly there; it is flipped only to fit (xdg.c:151).
        /\ P!PlacedByRules

\* Both of these
GuiSafe == WidgetsSafe /\ BridgeSafe

\* What the other tools make of their input is what was asked for.
ResultsRight ==
    \* mlink, the symbols
    /\ tool = "mlink" =>
        \* When members have been selected, none is left that has what a selected object still
        \* lacks, and each selected one defines a name that a selected object wants: whatever the
        \* order of the archives (symtab.c:101).
        /\ ML!ArchivesSettled
        \* Of the definitions of a name the strong one is taken, or the first weak one, or the
        \* largest common one; none follows a strong one, not even a weak one (symtab.c:120).
        /\ ML!ResolvedRight
        \* An image is written only when everything that was asked for is in it: every strong
        \* reference, the entry, the names of the macros' assertions (cli.c:227).
        /\ ML!ImageComplete
        \* A common symbol that nothing else defines has a place of its own in the image (layout.c:43).
        /\ ML!CommonsPlaced
        \* The macros do not disagree about where the program starts (macro.c:358).
        /\ ML!EntryAgreed
    \* mlink, the layout
    /\ tool = "layout" =>
        \* No two sections or common symbols share a byte, none lies over the headers, and each
        \* is aligned as it asked for (layout.c:128).
        /\ MO!NothingOverlaps
        \* Every section is in the segment of its kind, no page belongs to two segments, and the
        \* part of a segment that is not in the file holds no copied byte (emit.c:92).
        /\ MO!SegmentsHold
        \* A program that clears memory from edata to end clears all of its bss and commons, and
        \* nothing that came from the file (symtab.c:234).
        /\ MO!EndsRight
    \* term, the screen
    /\ tool = "screen" =>
        \* Cells are moved, never copied: those of the history and of the first grid are in the
        \* order in which they were written (term.c:203).
        /\ TS!CellsInOrder
        \* While only whole screens are scrolled, a line is gone only when Scrollback newer ones
        \* have left the screen (term.c:190).
        /\ TS!HistoryComplete
    \* down and libs/net, a download
    /\ tool = "fetch" =>
        \* A body that was fetched, the page or robots.txt, is written as follows: all of one in
        \* chunks, all or the beginning of one that ends with the connection, and one with a
        \* length in that many bytes, with what came with the head doubled and as much missing
        \* at the end; so it is right if all of it came with the head, or nothing (http.c:312).
        /\ NF!BodyWritten
        \* Of the lines that were written, the longest rule of all the groups that name us
        \* decides, or name all, the first of two that are as long; without one all is allowed
        \* (robots.c:88).
        /\ NF!VerdictRight
    \* libs/net, TLS sessions
    /\ tool = "sessions" =>
        \* The table holds the hosts that were used last, each once, and lets go of one only
        \* for want of a slot (transport.c:92).
        /\ NS!LatestKept

\* Whatever comes in between, they leave nothing behind, mix nothing up and change only what
\* they may.
RunsSafe ==
    \* mlink, the relocations
    /\ tool = "reloc" =>
        \* What the processor makes of a patched field is the address, or the distance, that the
        \* relocation asks for, for every place and symbol and any wrap of the addition
        \* (reloc.c:232).
        /\ MR!RelocationsExact
        \* An instruction that went through the table reaches the symbol without it, and one that
        \* cannot be changed is refused (reloc.c:153).
        /\ MR!RelaxedRight
    \* term, the screen
    /\ tool = "screen" =>
        \* The cursor leaves the grid only by ESC M on the first row with the margins below it,
        \* by ESC D on the last row with the margins above it, and by CUU when the margins are
        \* below the screen; until then no cell outside of the grid is touched, whatever the
        \* margins, and it is never further to the right than one column behind the grid
        \* (term.c:239).
        /\ TS!CursorInGrid
        \* What was on the screen before an application took the other one is there when it goes
        \* back (term.c:335).
        /\ TS!PrimaryKept
        \* Every line that is seen is a line of the history or of the grid (term.c:865).
        /\ TS!ViewInside
    \* term, the session
    /\ tool = "session" =>
        \* No shell runs on and no terminal stays open, whichever of the two ended first (term.c:1113).
        /\ TE!SessionClosed
        \* Keys reach the shell in the order in which they were typed, though some may be lost
        \* when the terminal takes no more (term.c:742).
        /\ TE!KeysInOrder
    \* down and libs/net, a download
    /\ tool = "fetch" =>
        \* A page that robots.txt keeps from us is not requested for, unless we are told to
        \* (core/robots.c:5).
        /\ NF!RobotsHonoured
        \* One connection at a time, and whichever of the steps fails, all that was opened is
        \* closed at the end (transport.c:296).
        /\ NF!AllClosed
    \* libs/net, TLS sessions
    /\ tool = "sessions" =>
        \* A session has as many references as there are slots and connections that refer to it,
        \* so none is freed while it can be taken, and none is kept for ever (transport.c:79).
        /\ NS!ReferencesExact
    \* nsetup
    /\ tool = "nsetup" =>
        \* The interface never has an address that no server has given to us, whatever arrives in
        \* between, and nothing is set before the server has agreed (nsetup.c:774).
        /\ ND!AddressGranted
        \* At the end address, mask, routes and name servers are those of one server: nothing comes
        \* from the replies of another that were read while waiting (nsetup.c:576).
        /\ ND!OfOneServer
        \* The port is free for the next try, however this one ends (nsetup.c:742).
        /\ ND!PortFree

\* Whatever a tool waits for comes, each in its own way: its module says what Waits and
\* Settled are.
Waits ==
    \/ tool = "ranal" /\ R!Waits
    \/ tool = "frame" /\ F!Waits
    \/ tool = "wlbridge" /\ B!Waits
    \/ tool = "launcher" /\ L!Waits
    \/ tool = "mlink" /\ ML!Waits
    \/ tool = "session" /\ TE!Waits
    \/ tool = "fetch" /\ NF!Waits
    \/ tool = "nsetup" /\ ND!Waits
Settled ==
    \/ tool = "ranal" /\ R!Settled
    \/ tool = "frame" /\ F!Settled
    \/ tool = "wlbridge" /\ B!Settled
    \/ tool = "launcher" /\ L!Settled
    \/ tool = "mlink" /\ ML!Settled
    \/ tool = "session" /\ TE!Settled
    \/ tool = "fetch" /\ NF!Settled
    \/ tool = "nsetup" /\ ND!Settled
ToolsSettle == Waits ~> Settled
=============================================================================
