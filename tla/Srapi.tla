------------------------------ MODULE Srapi ------------------------------
(***************************************************************************)
(* The parts of srapi that a program uses on their own: each is a module   *)
(* with its own variables, most of them given their instance for model     *)
(* checking here, and one run follows any of them.  What they share is the *)
(* device, which is open for as long as they are used.                     *)
(***************************************************************************)
EXTENDS Integers, FiniteSets, Sequences

CONSTANTS
    Width, Height,                  \* of every picture but that of TileCache
    Vertices, IndexValues, Indices, Inks, Areas, MaxCommands,   \* of SrapiSubmit
    Size, Words, MaxMaps,           \* of SrapiImages
    Programs, Registers, Inputs, Uniforms, Lanes, TileRows, Clips, Screen, Byte,  \* of ShaderVm
    NaN, Largest, IntLimit,
    Reach,                          \* of Raster
    TiledWidth, MaxCols, TileCommands, MaxTiled, Gpu, Modulus,  \* of TileCache
    Spans, Colours, MaxBlit, MaxList, MaxRing,                  \* of I915Render
    Cards, MaxConnectors, Room,     \* of DrmProbe
    Paths, Keys, Locks, Steps, Wide, Initial, MaxQueue, MaxDevices, MaxId   \* of SrapiInput

\* set_bounds refuses what is not positive; the ring begins with some room.
ASSUME SrapiAssumption ==
    /\ Steps \subseteq Int /\ Wide \in Nat \ {0}
    /\ Initial \in Nat \ {0} /\ MaxQueue \in Nat

\* An image has pixels (srapi_create_image), and its size is a word.
ASSUME PictureAssumption ==
    /\ Words \in Nat /\ Width \in 1 .. Words - 1 /\ Height \in 1 .. Words - 1

\* Areas are what commands cover of the picture.
ASSUME SubmitAssumption ==
    /\ Vertices \in Nat /\ Indices \in Nat /\ IndexValues \subseteq Nat /\ MaxCommands \in Nat
    /\ Areas \subseteq SUBSET (0 .. Width - 1)
ASSUME ImagesAssumption == Size \in Nat /\ MaxMaps \in Nat
ASSUME ShaderAssumption ==
    /\ Programs \subseteq Seq(Nat) /\ Registers \in Nat /\ Inputs \in Nat /\ Uniforms \in Nat
    /\ Lanes \in Nat \ {0} /\ TileRows \in Nat \ {0} /\ Byte \in Nat
    /\ NaN \notin Int /\ Largest \in Nat /\ IntLimit \in Nat
    /\ Clips \subseteq [x : Nat, y : Nat, w : Nat, h : Nat] /\ Screen \subseteq Int \X Int
ASSUME RasterAssumption == Reach \in Nat

\* The i915 backend draws tiles without scissors: TileCache.tla says what happens with them.
ASSUME TilesAssumption ==
    /\ TiledWidth \in Nat \ {0} /\ MaxCols \in Nat \ {0} /\ MaxTiled \in Nat
    /\ Gpu \in BOOLEAN /\ Modulus \in Nat \ {0}
    /\ TileCommands \subseteq [kind : {"clear", "fill", "scissor"}, x : Int, w : Nat, colour : Nat]
    /\ Gpu => \A op \in TileCommands : op.kind # "scissor"
ASSUME BlitterAssumption ==
    /\ MaxBlit \in Nat /\ MaxList \in Nat /\ MaxRing \in Nat /\ Spans \subseteq Int \X Nat
ASSUME ProbeAssumption == Cards \in Nat /\ MaxConnectors \in Nat

VARIABLES
    tool,         \* which of them the process runs
    list, slots, index, scissor, picture, read,
    touched, reached, view, mapped, hostMaps,
    insts, uniforms, written, clip, failed,
    shape, ends, pen, dots,
    enabled, cols, hashes, image, plain,
    pixels, ring, batches, at, left, clipping, blit, answer, overdue, meant, apart,
    driver, held, progress, calls, undoing,
    card, there, next, stage, counted, display, best, scores,
    devices, lastId, cells, head, tail, count, keys, locks, x, bounded, console,
    opened, told, missed

\* Shaders: two instructions before the colour, one that is cut off, and one that goes on
\* with a quotient of no number
Instructions == {<<0>>, <<1, 1, 0>>, <<2, 0, 0, 1>>, <<8, 0, 0>>, <<8, 1, 1>>, <<8, 1, 5>>,
    <<9, 0, 0>>, <<9, 1, 1>>, <<11, 0, 3>>, <<11, 0, 300>>, <<11, 1, 301>>, <<14, 0, 1, 0, 1>>,
    <<15, 0, 1>>, <<5, 0, 1, 0>>, <<5, 0, 0, 1>>, <<6, 0, 0, 1>>, <<12, 0, 0>>, <<13, 0, 0>>, <<19, 0, 0>>}
Shaders == {a \o b \o <<10, 0, 1, 0, 0>> : a, b \in Instructions}
    \cup {<<8, 0>>, <<11, 1, 301, 5, 0, 0, 1, 11, 1, 3, 6, 0, 0, 1, 10, 0, 1, 0, 0>>}
Rectangles == [x : {1}, y : {1}, w : {1, 3}, h : {2, 3}]

\* The largest target of these rectangles, and one row and column beyond
Frame == (0 .. 4) \X (0 .. 4)

\* Fills and scissors of the blitter: inside the target, and beyond both its ends
Strips == {<<0, 1>>, <<-1, 3>>}

\* Commands for the tiles: all of the picture, one that begins before it, one at its end
Command(kind, from, n, c) == [kind |-> kind, x |-> from, w |-> n, colour |-> c]
Drawn == {Command("clear", 0, 0, 1), Command("fill", -1, 3, 2), Command("fill", 1, 2, 1)}

C == INSTANCE SrapiSubmit WITH Colours <- Inks, MaxList <- MaxCommands
M == INSTANCE SrapiImages
V == INSTANCE ShaderVm WITH Target <- Screen
R == INSTANCE Raster
T == INSTANCE TileCache WITH
    Targets <- {"fb"}, Width <- TiledWidth, Commands <- TileCommands, MaxCommands <- MaxTiled,
    Word <- Modulus
G == INSTANCE I915Render
O == INSTANCE SrapiResources WITH
    Kinds <- {"device", "dumbBuffer", "dumbImage", "gemBuffer", "gemImage", "screen",
    "fbdev", "probe", "display", "terminal", "newMode"}
P == INSTANCE DrmProbe
I == INSTANCE SrapiInput

submitVars == <<list, slots, index, scissor, picture, read>>
imagesVars == <<touched, reached, view, mapped, hostMaps>>
shaderVars == <<insts, uniforms, written, clip, failed>>
rasterVars == <<shape, ends, pen, dots>>
tilesVars == <<enabled, cols, hashes, image, plain>>
i915Vars == <<pixels, ring, batches, at, left, clipping, blit, answer, overdue,
    meant, apart>>
objectsVars == <<driver, held, progress, calls, undoing>>
probeVars == <<card, there, next, stage, counted, display, best, scores>>
inputVars == <<devices, lastId, cells, head, tail, count, keys, locks, x, bounded,
    console, opened, told, missed>>
vars == <<tool, submitVars, imagesVars, shaderVars, rasterVars, tilesVars, i915Vars,
    objectsVars, probeVars, inputVars>>

Tools == {"submit", "images", "shader", "raster", "tiles", "i915", "objects", "probe", "input"}
Init == tool \in Tools /\ C!Init /\ M!Init /\ V!Init /\ R!Init /\ T!Init /\ (tool #
        "tiles" => cols = 1) /\ G!Init /\ O!Init /\ P!Init /\ I!Init

\* Only the variables of the tool that runs change.
Next ==
    \/ tool = "submit" /\ C!Next /\ UNCHANGED <<tool, imagesVars, shaderVars,
            rasterVars, tilesVars, i915Vars, objectsVars, probeVars, inputVars>>
    \/ tool = "images" /\ M!Next /\ UNCHANGED <<tool, submitVars, shaderVars,
            rasterVars, tilesVars, i915Vars, objectsVars, probeVars, inputVars>>
    \/ tool = "shader" /\ V!Next /\ UNCHANGED <<tool, submitVars, imagesVars,
            rasterVars, tilesVars, i915Vars, objectsVars, probeVars, inputVars>>
    \/ tool = "raster" /\ R!Next /\ UNCHANGED <<tool, submitVars, imagesVars,
            shaderVars, tilesVars, i915Vars, objectsVars, probeVars, inputVars>>
    \/ tool = "tiles" /\ T!Next /\ UNCHANGED <<tool, submitVars, imagesVars,
            shaderVars, rasterVars, i915Vars, objectsVars, probeVars, inputVars>>
    \/ tool = "i915" /\ G!Next /\ UNCHANGED <<tool, submitVars, imagesVars,
            shaderVars, rasterVars, tilesVars, objectsVars, probeVars, inputVars>>
    \/ tool = "objects" /\ O!Next /\ UNCHANGED <<tool, submitVars, imagesVars,
            shaderVars, rasterVars, tilesVars, i915Vars, probeVars, inputVars>>
    \/ tool = "probe" /\ P!Next /\ UNCHANGED <<tool, submitVars, imagesVars,
            shaderVars, rasterVars, tilesVars, i915Vars, objectsVars, inputVars>>
    \/ tool = "input" /\ I!Next /\ UNCHANGED <<tool, submitVars, imagesVars,
            shaderVars, rasterVars, tilesVars, i915Vars, objectsVars, probeVars>>

\* The steps that each of them goes on taking.
Fairness ==
    /\ WF_rasterVars(tool = "raster" /\ R!RasterStep)
    /\ WF_i915Vars(tool = "i915" /\ G!FillStep)
    /\ WF_objectsVars(tool = "objects" /\ O!ResourceStep)
    /\ WF_probeVars(tool = "probe" /\ P!ProbeStep)
    /\ WF_inputVars(tool = "input" /\ I!Pop)
Spec == Init /\ [][Next]_vars /\ Fairness

(***************************************************************************)
(* Properties                                                              *)
(***************************************************************************)
\* The variables of the one that runs have their types; those of the others stay as they were.
TypeOK ==
    /\ tool \in Tools
    /\ tool = "submit" => C!TypeOK
    /\ tool = "images" => M!TypeOK
    /\ tool = "shader" => V!TypeOK
    /\ tool = "raster" => R!TypeOK
    /\ tool = "tiles" => T!TypeOK
    /\ tool = "i915" => G!TypeOK
    /\ tool = "objects" => O!TypeOK
    /\ tool = "probe" => P!TypeOK
    /\ tool = "input" => I!TypeOK

\* What is drawn is what was asked for, whichever part of srapi draws it.
DrawingSafe ==
    \* core, command buffers and the context
    /\ tool = "submit" =>
        \* Commands that are recorded are kept when the array grows and never lie past its end.
        /\ C!ListFits
        \* No submit reads a vertex outside the buffer, whatever has been written into the index
        \* buffer after the draw was recorded (the loop of submit_draw_vertices over the indices).
        /\ C!ReadsInside
        \* What a list paints is its own: each pixel has the colour of the last command that covers
        \* it inside the scissor that this list has set before, whatever was submitted earlier, and
        \* nothing after a refused draw is painted.
        /\ C!ListPaintsItsOwn
    \* core, images, views and copies
    /\ tool = "images" =>
        \* No copy goes outside the memory of the image or of the buffer, not even with coordinates
        \* for which the unsigned differences of copy_region_ok wrap around, nor does a view; and no
        \* two pixels of the image share one of the buffer.
        /\ M!CopiesInside
        \* As long as callers pair their calls, an image counts its own mappings and those of its
        \* views: it is never taken for unmapped while somebody writes through a view.
        /\ M!MapsCounted
    \* vm, shaders
    /\ tool = "shader" =>
        \* Every pixel of the rectangle is written once and no other pixel is, however it is cut
        \* into tiles and chunks: two threads never write the same pixel.
        /\ V!ShadedOnce
        \* The two interpreters, written separately, paint the same picture, so that a change of the
        \* settings cannot be seen, but for the pixels on which the shader meets what they take
        \* differently: Parts in ShaderVm lists it.
        /\ V!InterpretersAgree
        \* A shader that has been accepted fails in a fragment only because of a position: no other
        \* instruction that the decoder lets through is unknown to the interpreter.
        /\ V!OnlyPositionsFail
    \* backend/cpu, lines and triangles
    /\ tool = "raster" =>
        \* A line never leaves the box of its ends, so it cannot pass the last point
        \* and goes on until it is there; and each of its pixels is the nearest
        \* to the straight line in its column or row.
        /\ R!LineOnCourse
        \* Two triangles that share an edge leave no gap along it: they paint what
        \* lies within the four sides of the quadrangle.
        /\ R!QuadHasNoGap
    \* core, the tile cache of an i915 device
    /\ tool = "tiles" =>
        \* A submit leaves the picture that it leaves without the cache: what a skipped tile
        \* shows is what drawing it would show, in every target (tile_cache.c:271-273).
        /\ T!SameImage
    \* backend/gpu, i915
    /\ tool = "i915" =>
        \* A submit that answers OK has painted what the cpu renderer paints, with the
        \* blitter and the CPU in the order of the list, as long as no wait timed out; but
        \* for pixels behind a scissor that a shaded rectangle covers and nothing drawn later.
        /\ G!PaintsAsCpu
        \* The CPU never works on a target that the blitter still writes, but for one
        \* that is overdue.
        /\ G!CpuAlone
        \* The blitter never writes outside the target.
        /\ G!BlitsInside
        \* No batch object outlives the fill it was made for, whichever of its calls fails.
        /\ G!NoBatchLeft

\* What is taken is given back, and what is told is true.
DevicesSafe ==
    \* backend, what objects take from the kernel
    /\ tool = "objects" =>
        \* A creation that fails at any of its calls, and a destroy, leave nothing
        \* behind: no handle, no framebuffer id, no mapping, no descriptor.
        /\ O!NothingLeft
        \* Nothing is given back twice, and nothing that was never taken.
        /\ O!GivenBackOnce
        \* What rests on a handle goes before it: the framebuffer id and the mapping
        \* of a DRM object never outlive its handle, nor does the handle outlive the
        \* descriptor it was made on; a terminal that sends signals has handlers for them.
        /\ O!InOrder
    \* display, the probe of the cards
    /\ tool = "probe" =>
        \* The card that is recommended is the first of those with the most points,
        \* and has a display when any card showed one, whatever its driver can do and
        \* whichever calls failed for the others.
        /\ P!BestRecommended
    \* input
    /\ tool = "input" =>
        \* A program that follows the events knows what the context would answer it:
        \* keys, locks and devices, through every growth of the ring, as long
        \* as nothing had to be dropped.  The ring holds them in the order they came.
        /\ I!EventsTellAll
        \* With bounds the pointer is inside them, after set_bounds itself and after
        \* every motion of every device.
        /\ I!PointerInside
        \* A device is open exactly while it is in the list, through removals
        \* from any place in it and the end of the context.
        /\ I!OpenWhileListed

\* Whatever a tool waits for comes, each in its own way: its module says what Waits and
\* Settled are.
Waits ==
    \/ tool = "raster" /\ R!Waits
    \/ tool = "i915" /\ G!Waits
    \/ tool = "objects" /\ O!Waits
    \/ tool = "probe" /\ P!Waits
Settled ==
    \/ tool = "raster" /\ R!Settled
    \/ tool = "i915" /\ G!Settled
    \/ tool = "objects" /\ O!Settled
    \/ tool = "probe" /\ P!Settled
PartsSettle == Waits ~> Settled
=============================================================================
