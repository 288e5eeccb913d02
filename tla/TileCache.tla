------------------------------ MODULE TileCache ------------------------------
(***************************************************************************)
(* srapi's tile cache (libs/srapi/src/core/tile_cache.c): a device keeps   *)
(* one hash for each tile of the picture, and a submit draws only the      *)
(* tiles whose hash has changed.  Next to the picture of each target the   *)
(* model keeps the one that srapi draws without the cache.                 *)
(*                                                                         *)
(* The picture is one row of pixels, cut into columns: the code treats y   *)
(* as it treats x.  Of the shapes, the clear and the filled rectangle      *)
(* stand for all that cover an area with a colour; blending, and what the  *)
(* i915 backend or the tiles of the cpu cannot draw, are left out.  Two    *)
(* hashes are equal only when what was hashed is: 64 bits do not collide.  *)
(***************************************************************************)
EXTENDS Integers, Sequences, FiniteSetsExt

CONSTANTS Targets,       \* the framebuffers of one device
          Width,         \* of a target
          MaxCols,       \* bound: columns of tiles, 256 in the code
          Commands,      \* the commands a list is made of
          MaxCommands,   \* bound: commands in a list
          Gpu,           \* the device is an i915 one
          Word           \* 2^32 in the code: the widths of clips wrap there

ASSUME CacheAssumption ==
    /\ Width \in Nat \ {0} /\ MaxCols \in Nat \ {0} /\ MaxCommands \in Nat
    /\ Gpu \in BOOLEAN /\ Word \in Nat \ {0}
    /\ Commands \subseteq [kind : {"clear", "fill", "scissor"},
                           x : Int, w : Nat, colour : Nat]

VARIABLES
    enabled, cols,    \* tile_cache_enabled, tile_cols
    hashes,           \* tile_hashes
    image,            \* the picture in each target
    plain             \* ghost: the picture without the cache

config == <<enabled, cols>>
pictures == <<image, plain>>
vars == <<config, hashes, pictures>>

Pixels == 0 .. Width - 1
Slots == 0 .. MaxCols - 1
Lists == UNION {[1 .. n -> Commands] : n \in 0 .. MaxCommands}

-----------------------------------------------------------------------------
(* What a list draws *)

Span(x, w) == x .. x + w - 1
Area(op) == IF op.kind = "clear" THEN Pixels ELSE Span(op.x, op.w)

\* The scissors set before command i, and the pixels the last of them leaves.
Scissors(list, i) == {j \in 1 .. i - 1 : list[j].kind = "scissor"}
Scissor(list, i) ==
    IF Scissors(list, i) = {} THEN Pixels ELSE Area(list[Max(Scissors(list, i))])

\* The commands that paint pixel p without the cache.
Painting(list, p) ==
    {i \in DOMAIN list :
        /\ list[i].kind \in {"clear", "fill"}
        /\ p \in Area(list[i]) \cap Scissor(list, i)}

Plainly(list, picture) ==
    [p \in Pixels |->
        LET P == Painting(list, p)
        IN  IF P = {} THEN picture[p] ELSE list[Max(P)].colour]

-----------------------------------------------------------------------------
(* Tiles and their hashes *)

TileWidth(n) == (Width + n - 1) \div n
Tile(k, n) == Span(k * TileWidth(n), TileWidth(n)) \cap Pixels

Hash(kind, area, colour, span) ==
    [kind |-> kind, area |-> area, colour |-> colour, span |-> span]
NoHash == <<Hash("zero", {}, 0, <<>>)>>      \* of no list

\* Mutant: the colour is not hashed.
ColourlessHash(list, i, tile) ==
    Hash(list[i].kind, Area(list[i]) \cap Scissor(list, i) \cap tile, 0, <<list[i].x, list[i].w>>)

\* tc_command_hash: an area that misses the tile counts for nothing, a
\* scissor that leaves nothing of it is taken for the whole tile.
CommandHash(list, i, tile) ==
    LET op == list[i]
        left == Scissor(list, i) \cap tile
        clip == IF left = {} THEN tile ELSE left
    IN  IF op.kind \in {"clear", "fill"} /\ Area(op) \cap clip # {}
        THEN Hash(op.kind, Area(op) \cap clip, op.colour, <<>>)
        ELSE IF op.kind \in {"clear", "fill"}
        THEN Hash("nothing", {}, 0, <<>>)
        ELSE Hash(op.kind, {}, 0, <<op.x, op.w>>)

\* tc_tile_hash
TileHash(list, tile) == [i \in DOMAIN list |-> CommandHash(list, i, tile)]

-----------------------------------------------------------------------------
(* Drawing one tile *)

\* cpu_render_tile
CpuPainting(list, tile, p) ==
    {i \in DOMAIN list :
        /\ list[i].kind \in {"clear", "fill"}
        /\ p \in Area(list[i]) \cap Scissor(list, i) \cap tile}

\* The clip of srapi_i915_render_tile_region: its width is unsigned.
GpuClip(list, i, k) ==
    LET x0 == k * TileWidth(cols)
        x1 == IF x0 + TileWidth(cols) > Width THEN Width ELSE x0 + TileWidth(cols)
        S == Scissors(list, i)
        s == list[Max(S)]
        left == Max({x0, s.x})
        right == Min({x1, s.x + s.w})
    IN  IF S = {} THEN Span(x0, x1 - x0) ELSE Span(left, (right - left) % Word)

\* Under an empty clip every command is skipped, SET_SCISSOR too.
Reached(list, i, k) == \A j \in 1 .. i : GpuClip(list, j, k) # {}

GpuPainting(list, k, p) ==
    {i \in DOMAIN list :
        /\ Reached(list, i, k)
        /\ list[i].kind \in {"clear", "fill"}
        /\ p \in Area(list[i]) \cap GpuClip(list, i, k)}

TilePainting(list, k, p) ==
    IF Gpu THEN GpuPainting(list, k, p) ELSE CpuPainting(list, Tile(k, cols), p)

-----------------------------------------------------------------------------
(* The device *)

Init ==
    /\ enabled = FALSE /\ cols \in 1 .. MaxCols
    /\ hashes = [k \in Slots |-> NoHash]
    /\ image = [t \in Targets |-> [p \in Pixels |-> 0]] /\ plain = image

\* Mutant: switching the cache off keeps the hashes.
SetEnabledOnly(e) == enabled' = e /\ UNCHANGED <<cols, hashes, pictures>>

\* srapi_device_set_tile_cache_enabled
SetEnabled(e) ==
    /\ enabled' = e
    /\ hashes' = IF e THEN hashes ELSE [k \in Slots |-> NoHash]
    /\ UNCHANGED <<cols, pictures>>

\* srapi_device_set_tile_cache_config; only the entries now in use are cleared.
SetConfig(n) ==
    /\ cols' = n
    /\ hashes' = [k \in Slots |-> IF k < n THEN NoHash ELSE hashes[k]]
    /\ UNCHANGED <<enabled, pictures>>

SubmitPlain(t, list) ==
    /\ ~ enabled
    /\ image' = [image EXCEPT ![t] = Plainly(list, @)]
    /\ UNCHANGED <<config, hashes>>

\* srapi_tile_cache_submit_framebuffer; of the tiles that paint a pixel, the
\* last one does so last.
SubmitTiles(t, list) ==
    LET hash(k) == TileHash(list, Tile(k, cols))
        drawn == {k \in 0 .. cols - 1 : Tile(k, cols) # {} /\ hashes[k] # hash(k)}
    IN  /\ enabled
        /\ hashes' = [k \in Slots |-> IF k \in drawn THEN hash(k) ELSE hashes[k]]
        /\ image' = [image EXCEPT ![t] = [p \in Pixels |->
                LET K == {k \in drawn : TilePainting(list, k, p) # {}}
                IN  IF K = {} THEN image[t][p]
                    ELSE list[Max(TilePainting(list, Max(K), p))].colour]]
        /\ UNCHANGED config

\* srapi_submit, srapi_queue_submit
Submit(t, list) ==
    /\ SubmitPlain(t, list) \/ SubmitTiles(t, list)
    /\ plain' = [plain EXCEPT ![t] = Plainly(list, @)]

Next ==
    \/ \E e \in BOOLEAN : SetEnabled(e)
    \/ \E n \in 1 .. MaxCols : SetConfig(n)
    \/ \E t \in Targets, list \in Lists : Submit(t, list)

Spec == Init /\ [][Next]_vars

-----------------------------------------------------------------------------
(* The values the variables take: a hash is that of some list, colours are  *)
(* those of commands, and a device that does not cache keeps no hash (the   *)
(* memset of context.c:246), so that enabling starts from nothing.          *)
TypeOK ==
    /\ enabled \in BOOLEAN /\ cols \in 1 .. MaxCols
    /\ image \in [Targets -> [Pixels -> Nat]] /\ plain \in [Targets -> [Pixels -> Nat]]
    /\ DOMAIN hashes = Slots
    /\ ~ enabled => \A k \in 0 .. cols - 1 : hashes[k] = NoHash

\* A submit leaves the picture that it leaves without the cache: what a skipped tile
\* shows is what drawing it would show, in every target (tile_cache.c:271-273).
SameImage == image = plain

-----------------------------------------------------------------------------
(* Commands for model checking: areas that start before the picture, end in *)
(* the middle of a tile, at its edge and after the picture.                 *)
Command(kind, x, w, colour) == [kind |-> kind, x |-> x, w |-> w, colour |-> colour]

Clears == {Command("clear", 0, 0, 1)}
Fills == {Command("fill", a[1], a[2], c) : a \in {<<-1, 3>>, <<2, 2>>}, c \in {1, 2}}
Scissoring == {Command("scissor", a[1], a[2], 0) : a \in {<<-1, 2>>, <<1, 3>>}}
Clipped == Clears \cup Fills \cup Scissoring
=============================================================================
