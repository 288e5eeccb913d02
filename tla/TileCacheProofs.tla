--------------------------- MODULE TileCacheProofs ---------------------------
(***************************************************************************)
(* What the tile cache promises with one target, on a device that draws on *)
(* the cpu, and on an i915 device for lists without scissors: for every    *)
(* width, every grid and every list, each submit leaves the picture that   *)
(* it leaves without the cache.                                            *)
(*                                                                         *)
(* HashSound is the heart of it: two lists with the same hash of a tile    *)
(* paint each of its pixels by the same commands and in the same colours.  *)
(* The invariant says what a hash stands for: drawing the list it was      *)
(* taken from once more would change nothing in the tile.                  *)
(***************************************************************************)
EXTENDS TileCache, WellFoundedInduction, TLAPS

\* One target, and tiles that the device draws clipped as the list says.
Clips ==
    /\ \E t : Targets = {t}
    /\ Gpu => \A op \in Commands : op.kind # "scissor"

\* Drawing list in tile k would leave the picture as it is.
Settled(list, k, picture) ==
    \A p \in Tile(k, cols) :
        CpuPainting(list, Tile(k, cols), p) # {} =>
            picture[p] = list[Max(CpuPainting(list, Tile(k, cols), p))].colour

\* The hash of tile k, if there is one, is that of a list it is settled for.
Meaning(k) ==
    hashes[k] # NoHash =>
        \E list \in Lists :
            /\ hashes[k] = TileHash(list, Tile(k, cols))
            /\ \A t \in Targets : Settled(list, k, image[t])

CacheInv ==
    /\ TypeOK /\ image = plain
    /\ \A k \in 0 .. cols - 1 : Meaning(k)

-----------------------------------------------------------------------------
(* Lists *)

LEMMA CommandTypes ==
    ASSUME Clips, NEW list \in Lists, NEW i \in DOMAIN list
    PROVE  /\ list[i] \in Commands /\ i \in Nat
           /\ list[i].kind \in {"clear", "fill", "scissor"}
           /\ list[i].colour \in Nat /\ list[i].x \in Int /\ list[i].w \in Nat
<1>1. PICK n \in 0 .. MaxCommands : list \in [1 .. n -> Commands]
  BY DEF Lists
<1>2. i \in 1 .. n /\ list[i] \in Commands
  BY <1>1
<1> QED
  BY <1>2, CacheAssumption

LEMMA Lengths ==
    ASSUME NEW list \in Lists
    PROVE  \E n \in 0 .. MaxCommands : DOMAIN list = 1 .. n
BY DEF Lists

\* A bounded, not empty set of naturals has a greatest member.
LEMMA Greatest ==
    ASSUME NEW n \in Nat, NEW S, S \subseteq 0 .. n, S # {}
    PROVE  Max(S) \in S
<1> DEFINE Below == {m \in 0 .. n : n - m \in S}
       Less == {ss \in Nat \X Nat : ss[1] < ss[2]}
<1>1. Below \subseteq Nat /\ Below # {}
  <2>1. PICK i \in S : TRUE
    OBVIOUS
  <2>2. n - i \in 0 .. n /\ n - (n - i) = i
    OBVIOUS
  <2>3. n - i \in Below
    BY <2>2
  <2>4. Below \subseteq Nat
    OBVIOUS
  <2> HIDE DEF Below
  <2> QED BY <2>3, <2>4
<1>2. PICK b \in Below : \A m \in Below : b <= m
  <2>1. IsWellFoundedOn(Less, Nat)
    BY NatLessThanWellFounded, Zenon DEF OpToRel
  <2>2. PICK b \in Below : \A m \in Below : <<m, b>> \notin Less
    <3> HIDE DEF Below, Less
    <3> QED BY <1>1, <2>1, WFMin
  <2>3. \A m \in Below : ~ m < b
    BY <1>1, <2>2
  <2>4. \A m \in Below : b <= m
    BY <1>1, <2>3
  <2> QED BY <2>2, <2>4
<1>3. PICK i \in S : b = n - i
  BY <1>2
<1>4. \A j \in S : i >= j
  <2> TAKE j \in S
  <2>1. n - j \in Below
    OBVIOUS
  <2> QED BY <2>1, <1>2, <1>3
<1> QED
  BY <1>4 DEF Max

LEMMA LastCommand ==
    ASSUME NEW list \in Lists, NEW S, S \subseteq DOMAIN list, S # {}
    PROVE  Max(S) \in S
<1>1. PICK n \in 0 .. MaxCommands : DOMAIN list = 1 .. n
  BY Lengths
<1> QED
  BY <1>1, Greatest, CacheAssumption

-----------------------------------------------------------------------------
(* Hashes *)

\* The hash of a scissor tells which one it is.
LEMMA SameScissor ==
    ASSUME Clips, NEW L \in Lists, NEW M \in Lists, NEW tile, NEW i \in DOMAIN L,
           i \in DOMAIN M, CommandHash(L, i, tile) = CommandHash(M, i, tile),
           L[i].kind = "scissor"
    PROVE  M[i].kind = "scissor" /\ Area(L[i]) = Area(M[i])
<1>1. CommandHash(L, i, tile) = Hash("scissor", {}, 0, <<L[i].x, L[i].w>>)
  BY DEF CommandHash
<1>2. CASE M[i].kind \in {"clear", "fill"}
  BY <1>1, <1>2 DEF CommandHash, Hash
<1>3. CASE M[i].kind = "scissor"
  <2>1. CommandHash(M, i, tile) = Hash("scissor", {}, 0, <<M[i].x, M[i].w>>)
    BY <1>3 DEF CommandHash
  <2>2. /\ CommandHash(L, i, tile).span = <<L[i].x, L[i].w>>
        /\ CommandHash(M, i, tile).span = <<M[i].x, M[i].w>>
    <3>1. \A k, c, d : Hash(k, {}, c, d).span = d
      BY DEF Hash
    <3>2. Hash("scissor", {}, 0, <<L[i].x, L[i].w>>).span = <<L[i].x, L[i].w>>
      BY <3>1, Zenon
    <3>3. Hash("scissor", {}, 0, <<M[i].x, M[i].w>>).span = <<M[i].x, M[i].w>>
      BY <3>1, Zenon
    <3> QED BY <1>1, <2>1, <3>2, <3>3, Zenon
  <2>3. <<L[i].x, L[i].w>> = <<M[i].x, M[i].w>>
    BY <2>2, Zenon
  <2>4. L[i].x = M[i].x /\ L[i].w = M[i].w
    BY <2>3
  <2> QED BY <2>4, <1>3 DEF Area
<1> QED
  BY <1>2, <1>3, CommandTypes

\* So lists with equal hashes draw every command under the same scissor.
LEMMA SameScissors ==
    ASSUME Clips, NEW L \in Lists, NEW M \in Lists, NEW tile, NEW i \in DOMAIN L,
           TileHash(L, tile) = TileHash(M, tile)
    PROVE  Scissor(L, i) = Scissor(M, i)
<1>1. DOMAIN L = DOMAIN M
  BY DEF TileHash
<1>2. \A j \in DOMAIN L : CommandHash(L, j, tile) = CommandHash(M, j, tile)
  BY <1>1 DEF TileHash
<1>3. PICK n \in 0 .. MaxCommands : DOMAIN L = 1 .. n
  BY Lengths
<1>4. \A j \in DOMAIN L : L[j].kind = "scissor" <=> M[j].kind = "scissor"
  BY <1>1, <1>2, SameScissor
<1>5. 1 .. i - 1 \subseteq DOMAIN L
  BY <1>3, CacheAssumption
<1>6. Scissors(L, i) = Scissors(M, i) /\ Scissors(L, i) \subseteq DOMAIN L
  BY <1>4, <1>5 DEF Scissors
<1>7. CASE Scissors(L, i) = {}
  BY <1>6, <1>7 DEF Scissor
<1>8. CASE Scissors(L, i) # {}
  <2>1. Max(Scissors(L, i)) \in Scissors(L, i)
    BY <1>6, <1>8, LastCommand
  <2>2. L[Max(Scissors(L, i))].kind = "scissor" /\ Max(Scissors(L, i)) \in DOMAIN L
    BY <2>1, <1>6 DEF Scissors
  <2>3. Area(L[Max(Scissors(L, i))]) = Area(M[Max(Scissors(L, i))])
    BY <2>2, <1>1, <1>2, SameScissor
  <2> QED BY <2>3, <1>6, <1>8 DEF Scissor
<1> QED
  BY <1>7, <1>8

LEMMA SamePaint ==
    ASSUME Clips, NEW L \in Lists, NEW M \in Lists, NEW tile, NEW p \in tile,
           TileHash(L, tile) = TileHash(M, tile),
           NEW i \in CpuPainting(L, tile, p)
    PROVE  i \in CpuPainting(M, tile, p) /\ L[i].colour = M[i].colour
<1> DEFINE left == Scissor(L, i) \cap tile
<1>1. /\ i \in DOMAIN L /\ i \in DOMAIN M
      /\ L[i].kind \in {"clear", "fill"} /\ p \in Area(L[i]) /\ p \in left
      /\ CommandHash(L, i, tile) = CommandHash(M, i, tile)
  BY DEF CpuPainting, TileHash
<1>2. Scissor(M, i) = Scissor(L, i)
  BY <1>1, SameScissors
<1>3. CommandHash(L, i, tile) = Hash(L[i].kind, Area(L[i]) \cap left, L[i].colour, <<>>)
  BY <1>1 DEF CommandHash
<1>4. p \in Area(L[i]) \cap left
  BY <1>1
<1>5. CASE M[i].kind = "scissor"
  BY <1>5, <1>1, SameScissor
<1>6. CASE M[i].kind \in {"clear", "fill"}
  <2>1. CommandHash(M, i, tile) =
            IF Area(M[i]) \cap left = {} THEN Hash("nothing", {}, 0, <<>>)
            ELSE Hash(M[i].kind, Area(M[i]) \cap left, M[i].colour, <<>>)
    BY <1>1, <1>2, <1>6 DEF CommandHash
  <2>2. Area(L[i]) \cap left = Area(M[i]) \cap left /\ L[i].colour = M[i].colour
    BY <2>1, <1>1, <1>3, <1>4 DEF Hash
  <2> QED BY <2>2, <1>1, <1>2, <1>4, <1>6 DEF CpuPainting
<1> QED
  BY <1>5, <1>6, <1>1, CommandTypes

(* The hash of a tile is sound: two lists that have the same one paint      *)
(* every pixel of the tile by the same commands in the same colours         *)
(* (tc_tile_hash, tile_cache.c:143-167).                                    *)
THEOREM HashSound ==
    ASSUME Clips, NEW L \in Lists, NEW M \in Lists, NEW tile, NEW p \in tile,
           TileHash(L, tile) = TileHash(M, tile)
    PROVE  /\ CpuPainting(L, tile, p) = CpuPainting(M, tile, p)
           /\ \A i \in CpuPainting(L, tile, p) : L[i].colour = M[i].colour
<1>1. \A i \in CpuPainting(L, tile, p) : i \in CpuPainting(M, tile, p) /\ L[i].colour = M[i].colour
  BY SamePaint
<1>2. \A i \in CpuPainting(M, tile, p) : i \in CpuPainting(L, tile, p)
  BY SamePaint
<1> QED
  BY <1>1, <1>2

\* The hash of a list is not the zero that stands for none.
LEMMA NeverNoHash ==
    ASSUME Clips, NEW list \in Lists, NEW tile
    PROVE  TileHash(list, tile) # NoHash
<1> SUFFICES ASSUME TileHash(list, tile) = NoHash PROVE FALSE
  OBVIOUS
<1>1. 1 \in DOMAIN list /\ CommandHash(list, 1, tile).kind = "zero"
  BY DEF TileHash, NoHash, Hash
<1>2. list[1].kind \in {"clear", "fill", "scissor"}
  BY <1>1, CommandTypes
<1>3. CommandHash(list, 1, tile).kind \in {"clear", "fill", "scissor", "nothing"}
  BY <1>2 DEF CommandHash, Hash
<1> QED
  BY <1>1, <1>3

-----------------------------------------------------------------------------
(* Tiles *)

\* The tiles of a grid cover the picture.
LEMMA Covered ==
    ASSUME NEW n \in Nat \ {0}, NEW p \in Pixels
    PROVE  \E k \in 0 .. n - 1 : p \in Tile(k, n)
<1> DEFINE t == TileWidth(n)
           k == p \div t
<1>1. t \in Nat /\ Width <= n * t
  BY CacheAssumption DEF TileWidth
<1>2. t > 0 /\ p \in Nat /\ p < Width
  BY <1>1, CacheAssumption DEF Pixels
<1>3. k \in Nat /\ k * t <= p /\ p < k * t + t
  BY <1>1, <1>2
<1>4. k < n
  <2> HIDE DEF t, k
  <2>1. k >= n => k * t >= n * t
    BY <1>1, <1>3
  <2>2. k * t \in Int /\ n * t \in Int /\ k \in Int
    BY <1>1, <1>3
  <2>3. ~ k * t >= n * t
    BY <2>2, <1>1, <1>2, <1>3, CacheAssumption
  <2> QED BY <2>1, <2>2, <2>3
<1>5. p \in Tile(k, n)
  BY <1>1, <1>2, <1>3 DEF Tile, Span, Pixels
<1> QED
  BY <1>3, <1>4, <1>5

\* Inside a tile the cpu paints what it paints without the cache.
LEMMA TileAsPlain ==
    ASSUME Clips, NEW list \in Lists, NEW tile, NEW p \in tile
    PROVE  CpuPainting(list, tile, p) = Painting(list, p)
BY DEF CpuPainting, Painting

\* An i915 device clips by the tile alone, and so do the tiles of the cpu then.
LEMMA NoScissors ==
    ASSUME Clips, Gpu, NEW list \in Lists, NEW i \in DOMAIN list
    PROVE  Scissors(list, i) = {} /\ Scissor(list, i) = Pixels /\ 1 .. i \subseteq DOMAIN list
<1>1. PICK n \in 0 .. MaxCommands : DOMAIN list = 1 .. n
  BY Lengths
<1>2. 1 .. i \subseteq DOMAIN list /\ 1 .. i - 1 \subseteq DOMAIN list
  BY <1>1
<1>3. \A j \in DOMAIN list : list[j].kind # "scissor"
  BY CommandTypes DEF Clips
<1>4. Scissors(list, i) = {}
  BY <1>2, <1>3 DEF Scissors
<1> QED
  BY <1>2, <1>4 DEF Scissor

LEMMA ClipIsTile ==
    ASSUME Clips, Gpu, cols \in Nat \ {0}, NEW list \in Lists, NEW k \in Nat, NEW i \in DOMAIN list
    PROVE  GpuClip(list, i, k) = Tile(k, cols)
<1> DEFINE t == TileWidth(cols)
           x0 == k * t
           x1 == IF x0 + t > Width THEN Width ELSE x0 + t
<1>1. t \in Nat
  BY CacheAssumption DEF TileWidth
<1>2. x0 \in Nat
  BY <1>1
<1>3. GpuClip(list, i, k) = Span(x0, x1 - x0)
  BY NoScissors DEF GpuClip
<1>4. Tile(k, cols) = Span(x0, t) \cap Pixels
  BY DEF Tile
<1>5. Span(x0, x1 - x0) = Span(x0, t) \cap Pixels
  <2> HIDE DEF t, x0
  <2> QED BY <1>1, <1>2, CacheAssumption DEF Span, Pixels
<1> QED
  BY <1>3, <1>4, <1>5

LEMMA TilesAgree ==
    ASSUME Clips, cols \in Nat \ {0}, NEW list \in Lists, NEW k \in Nat, NEW p
    PROVE  TilePainting(list, k, p) = CpuPainting(list, Tile(k, cols), p)
<1>1. CASE ~ Gpu
  BY <1>1 DEF TilePainting
<1>2. CASE Gpu
  <2>1. ASSUME NEW i \in DOMAIN list
        PROVE  i \in GpuPainting(list, k, p) <=> i \in CpuPainting(list, Tile(k, cols), p)
    <3>1. \A j \in DOMAIN list : GpuClip(list, j, k) = Tile(k, cols)
      BY <1>2, ClipIsTile
    <3>2. Scissor(list, i) = Pixels /\ 1 .. i \subseteq DOMAIN list /\ Tile(k, cols) \subseteq Pixels
      BY <1>2, <2>1, NoScissors DEF Tile
    <3>3. p \in Tile(k, cols) => Reached(list, i, k)
      BY <3>1, <3>2 DEF Reached
    <3> QED BY <2>1, <3>1, <3>2, <3>3 DEF GpuPainting, CpuPainting
  <2>2. GpuPainting(list, k, p) \subseteq DOMAIN list /\ CpuPainting(list, Tile(k, cols), p) \subseteq DOMAIN list
    BY DEF GpuPainting, CpuPainting
  <2> QED BY <1>2, <2>1, <2>2 DEF TilePainting
<1> QED
  BY <1>1, <1>2

\* Drawing a list and then a tile of it again changes nothing.
LEMMA DrawnIsSettled ==
    ASSUME Clips, NEW list \in Lists, NEW k, NEW picture
    PROVE  Settled(list, k, Plainly(list, picture))
<1> SUFFICES ASSUME NEW p \in Tile(k, cols), CpuPainting(list, Tile(k, cols), p) # {}
             PROVE  Plainly(list, picture)[p] = list[Max(CpuPainting(list, Tile(k, cols), p))].colour
  BY DEF Settled
<1>1. p \in Pixels
  BY DEF Tile
<1> QED
  BY <1>1, TileAsPlain DEF Plainly

LEMMA PlainlyTypes ==
    ASSUME Clips, NEW list \in Lists, NEW picture \in [Pixels -> Nat]
    PROVE  Plainly(list, picture) \in [Pixels -> Nat]
<1>1. \A p \in Pixels : Painting(list, p) \subseteq DOMAIN list
  BY DEF Painting
<1>2. \A p \in Pixels : Painting(list, p) # {} => list[Max(Painting(list, p))].colour \in Nat
  BY <1>1, LastCommand, CommandTypes
<1> QED
  BY <1>2 DEF Plainly

-----------------------------------------------------------------------------
(* The invariant *)

LEMMA InitCache == Clips /\ Init => CacheInv
<1> SUFFICES ASSUME Clips, Init PROVE CacheInv
  OBVIOUS
<1> USE CacheAssumption
<1>1. TypeOK
  <2>1. image \in [Targets -> [Pixels -> Nat]] /\ plain = image
    BY DEF Init
  <2>2. cols \in 1 .. MaxCols /\ 0 .. cols - 1 \subseteq Slots
    BY DEF Init, Slots
  <2>3. DOMAIN hashes = Slots /\ \A k \in Slots : hashes[k] = NoHash
    BY DEF Init
  <2>4. enabled = FALSE
    BY DEF Init
  <2> QED BY <2>1, <2>2, <2>3, <2>4 DEF TypeOK
<1>2. \A k \in 0 .. cols - 1 : Meaning(k)
  BY DEF Init, Meaning, Slots
<1> QED
  BY <1>1, <1>2 DEF CacheInv, Init

\* A submit with the cache leaves what one without it leaves.
LEMMA TilesAsPlain ==
    ASSUME Clips, CacheInv, NEW t \in Targets, NEW list \in Lists, SubmitTiles(t, list)
    PROVE  /\ image' = [image EXCEPT ![t] = Plainly(list, @)]
           /\ \A k \in 0 .. cols - 1 :
                  hashes'[k] = IF Tile(k, cols) = {} THEN hashes[k]
                               ELSE TileHash(list, Tile(k, cols))
<1> DEFINE hash(k) == TileHash(list, Tile(k, cols))
           changed == {k \in 0 .. cols - 1 : Tile(k, cols) # {} /\ hashes[k] # hash(k)}
<1>2. cols \in Nat \ {0} /\ 0 .. cols - 1 \subseteq Slots
  BY CacheAssumption DEF CacheInv, TypeOK, Slots
<1>4. /\ hashes' = [k \in Slots |-> IF k \in changed THEN hash(k) ELSE hashes[k]]
      /\ image' = [image EXCEPT ![t] = [p \in Pixels |->
            LET K == {k \in changed : TilePainting(list, k, p) # {}}
            IN  IF K = {} THEN image[t][p]
                ELSE list[Max(TilePainting(list, Max(K), p))].colour]]
  BY Zenon DEF SubmitTiles
<1>5. ASSUME NEW p \in Pixels
      PROVE  LET K == {k \in changed : TilePainting(list, k, p) # {}}
             IN  (IF K = {} THEN image[t][p]
                  ELSE list[Max(TilePainting(list, Max(K), p))].colour) = Plainly(list, image[t])[p]
  <2> DEFINE K == {k \in changed : TilePainting(list, k, p) # {}}
             P == Painting(list, p)
  <2>1. \A k \in 0 .. cols - 1 : TilePainting(list, k, p) = CpuPainting(list, Tile(k, cols), p)
    BY <1>2, TilesAgree
  <2>2. \A k \in 0 .. cols - 1 : p \in Tile(k, cols) => TilePainting(list, k, p) = P
    BY <2>1, TileAsPlain
  <2>3. \A k \in 0 .. cols - 1 : p \notin Tile(k, cols) => TilePainting(list, k, p) = {}
    BY <2>1 DEF CpuPainting
  <2>4. Plainly(list, image[t])[p] = IF P = {} THEN image[t][p] ELSE list[Max(P)].colour
    BY DEF Plainly
  <2>5. CASE K # {}
    <3>0. K \subseteq 0 .. cols - 1 /\ cols - 1 \in Nat
      BY <1>2
    <3>1. Max(K) \in K
      <4> HIDE DEF K
      <4> QED BY <3>0, <2>5, Greatest
    <3>3. Max(K) \in 0 .. cols - 1
      BY <3>0, <3>1
    <3>2. p \in Tile(Max(K), cols) /\ P # {} /\ TilePainting(list, Max(K), p) = P
      BY <2>2, <2>3, <3>1, <3>3
    <3> QED BY <2>4, <2>5, <3>2
  <2>6. CASE K = {} /\ P = {}
    BY <2>4, <2>6
  <2>7. CASE K = {} /\ P # {}
    <3>1. PICK k \in 0 .. cols - 1 : p \in Tile(k, cols)
      BY <1>2, Covered
    <3>2. TilePainting(list, k, p) = P /\ k \notin changed
      BY <2>2, <2>7, <3>1
    <3>3. hashes[k] = hash(k)
      BY <3>1, <3>2
    <3>4. hashes[k] # NoHash
      BY <3>3, NeverNoHash
    <3>5. PICK old \in Lists : hashes[k] = TileHash(old, Tile(k, cols)) /\ Settled(old, k, image[t])
      BY <3>4 DEF CacheInv, Meaning
    <3>6. /\ CpuPainting(old, Tile(k, cols), p) = P
          /\ \A i \in P : old[i].colour = list[i].colour
      BY <2>1, <3>1, <3>2, <3>3, <3>5, HashSound
    <3>7. image[t][p] = old[Max(P)].colour
      BY <2>7, <3>1, <3>5, <3>6 DEF Settled
    <3>8. Max(P) \in P
      BY <2>7, LastCommand DEF Painting
    <3> QED BY <2>4, <2>7, <3>6, <3>7, <3>8
  <2> QED BY <2>5, <2>6, <2>7
<1>6. [p \in Pixels |->
            LET K == {k \in changed : TilePainting(list, k, p) # {}}
            IN  IF K = {} THEN image[t][p]
                ELSE list[Max(TilePainting(list, Max(K), p))].colour] = Plainly(list, image[t])
  BY <1>5 DEF Plainly
<1>7. \A k \in 0 .. cols - 1 :
          hashes'[k] = IF Tile(k, cols) = {} THEN hashes[k] ELSE hash(k)
  BY <1>2, <1>4
<1> QED
  BY <1>4, <1>6, <1>7

\* A step that leaves a tile alone leaves its hash its meaning.
LEMMA MeaningKept ==
    ASSUME NEW k, Meaning(k), cols' = cols, hashes'[k] = hashes[k],
           \A t \in Targets : image'[t] = image[t] \/ Tile(k, cols) = {}
    PROVE  Meaning(k)'
<1>1. SUFFICES ASSUME hashes[k] # NoHash PROVE Meaning(k)'
  BY DEF Meaning
<1>2. PICK list \in Lists : /\ hashes[k] = TileHash(list, Tile(k, cols))
                            /\ \A t \in Targets : Settled(list, k, image[t])
  BY <1>1 DEF Meaning
<1>3. Tile(k, cols') = Tile(k, cols) /\ hashes'[k] = TileHash(list, Tile(k, cols'))
  BY <1>2
<1>4. \A t \in Targets : Settled(list, k, image[t])'
  BY <1>2, <1>3 DEF Settled
<1> QED
  BY <1>3, <1>4 DEF Meaning

LEMMA NextCache == Clips /\ CacheInv /\ [Next]_vars => CacheInv'
<1> SUFFICES ASSUME Clips, CacheInv, [Next]_vars PROVE CacheInv'
  OBVIOUS
<1>0. /\ cols \in Nat \ {0} /\ 0 .. cols - 1 \subseteq Slots /\ TypeOK /\ image = plain
      /\ \A k \in 0 .. cols - 1 : Meaning(k)
  BY CacheAssumption DEF CacheInv, TypeOK, Slots
<1>1. ASSUME NEW e \in BOOLEAN, SetEnabled(e) PROVE CacheInv'
  <2>1. /\ cols' = cols /\ image' = image /\ plain' = plain /\ enabled' = e
        /\ hashes' = IF e THEN hashes ELSE [k \in Slots |-> NoHash]
    BY <1>1 DEF SetEnabled, pictures
  <2>2. CASE e /\ hashes' = hashes
    <3>1. TypeOK'
      BY <1>0, <2>1, <2>2 DEF TypeOK
    <3>2. \A k \in 0 .. cols - 1 : Meaning(k)'
      BY <1>0, <2>1, <2>2, MeaningKept
    <3> QED BY <1>0, <2>1, <3>1, <3>2 DEF CacheInv
  <2>3. CASE ~ e
    <3>1. \A k \in 0 .. cols - 1 : hashes'[k] = NoHash
      BY <1>0, <2>1, <2>3
    <3>2. TypeOK'
      BY <1>0, <2>1, <2>3, <3>1 DEF TypeOK
    <3> QED BY <1>0, <2>1, <3>1, <3>2 DEF CacheInv, Meaning
  <2> QED BY <2>1, <2>2, <2>3
<1>2. ASSUME NEW n \in 1 .. MaxCols, SetConfig(n) PROVE CacheInv'
  <2>1. /\ cols' = n /\ image' = image /\ plain' = plain /\ enabled' = enabled
        /\ hashes' = [k \in Slots |-> IF k < n THEN NoHash ELSE hashes[k]]
    BY <1>2 DEF SetConfig, pictures
  <2>2. \A k \in 0 .. cols' - 1 : hashes'[k] = NoHash
    BY <1>2, <2>1, CacheAssumption DEF Slots
  <2>3. TypeOK'
    BY <1>0, <1>2, <2>1, <2>2 DEF TypeOK
  <2> QED BY <1>0, <2>1, <2>2, <2>3 DEF CacheInv, Meaning
<1>3. ASSUME NEW t \in Targets, NEW list \in Lists, Submit(t, list) PROVE CacheInv'
  <2>1. /\ cols' = cols /\ enabled' = enabled /\ plain' = [plain EXCEPT ![t] = Plainly(list, @)]
        /\ image[t] \in [Pixels -> Nat] /\ plain[t] = image[t]
    <3>1. image[t] \in [Pixels -> Nat]
      BY <1>0 DEF TypeOK
    <3> QED BY <1>0, <1>3, <3>1, PlainlyTypes DEF Submit, SubmitPlain, SubmitTiles, config
  <2>2. Targets = {t} /\ Plainly(list, image[t]) \in [Pixels -> Nat]
    BY <2>1, PlainlyTypes DEF Clips
  <2>3. CASE SubmitPlain(t, list)
    <3>1. /\ image' = [image EXCEPT ![t] = Plainly(list, @)] /\ hashes' = hashes
          /\ ~ enabled
      BY <2>1, <2>3, PlainlyTypes DEF SubmitPlain
    <3>2. image' = plain' /\ image' \in [Targets -> [Pixels -> Nat]]
      BY <1>0, <2>1, <2>2, <3>1 DEF TypeOK
    <3>3. TypeOK'
      BY <1>0, <2>1, <3>1, <3>2 DEF TypeOK
    <3>4. \A k \in 0 .. cols - 1 : hashes'[k] = NoHash
      BY <1>0, <3>1 DEF TypeOK
    <3> QED BY <2>1, <3>2, <3>3, <3>4 DEF CacheInv, Meaning
  <2>4. CASE SubmitTiles(t, list)
    <3>1. /\ image' = [image EXCEPT ![t] = Plainly(list, @)]
          /\ \A k \in 0 .. cols - 1 :
                  hashes'[k] = IF Tile(k, cols) = {} THEN hashes[k]
                               ELSE TileHash(list, Tile(k, cols))
      BY <2>4, TilesAsPlain
    <3>2. enabled /\ DOMAIN hashes' = Slots
      BY <2>4 DEF SubmitTiles
    <3>3. image' = plain' /\ image' \in [Targets -> [Pixels -> Nat]]
      BY <1>0, <2>1, <2>2, <3>1 DEF TypeOK
    <3>4. TypeOK'
      BY <1>0, <2>1, <3>1, <3>2, <3>3 DEF TypeOK
    <3>5. ASSUME NEW k \in 0 .. cols - 1 PROVE Meaning(k)'
      <4>1. CASE Tile(k, cols) = {}
        BY <1>0, <2>1, <3>1, <3>5, <4>1, MeaningKept
      <4>2. CASE Tile(k, cols) # {}
        <5>1. hashes'[k] = TileHash(list, Tile(k, cols))
          BY <3>1, <3>5, <4>2
        <5>2. \A s \in Targets : image'[s] = Plainly(list, image[t])
          BY <1>0, <2>2, <3>1 DEF TypeOK
        <5>3. Settled(list, k, Plainly(list, image[t]))
          BY DrawnIsSettled
        <5>4. Tile(k, cols') = Tile(k, cols) /\ hashes'[k] = TileHash(list, Tile(k, cols'))
          BY <2>1, <5>1
        <5>5. \A s \in Targets : Settled(list, k, image[s])'
          BY <5>2, <5>3, <5>4 DEF Settled
        <5> QED BY <5>4, <5>5 DEF Meaning
      <4> QED BY <4>1, <4>2
    <3> QED BY <2>1, <3>3, <3>4, <3>5 DEF CacheInv
  <2> QED BY <1>3, <2>3, <2>4 DEF Submit
<1>4. CASE UNCHANGED vars
  <2>1. \A k \in 0 .. cols - 1 : Meaning(k)'
    BY <1>0, <1>4, MeaningKept DEF vars, config, pictures
  <2>2. TypeOK'
    BY <1>0, <1>4 DEF vars, config, pictures, TypeOK
  <2> QED BY <1>0, <1>4, <2>1, <2>2 DEF vars, config, pictures, CacheInv
<1> QED
  BY <1>1, <1>2, <1>3, <1>4 DEF Next

THEOREM CacheHolds == ASSUME Clips PROVE Spec => []CacheInv
BY InitCache, NextCache, PTL DEF Spec

(* The state keeps its types, and a device that does not cache keeps no     *)
(* hash it could find again when it caches (context.c:246).                 *)
THEOREM CacheTypes == ASSUME Clips PROVE Spec => []TypeOK
<1>1. CacheInv => TypeOK
  BY DEF CacheInv
<1> QED
  BY <1>1, CacheHolds, PTL

(* The cache is transparent: whatever was submitted, however the cache was  *)
(* switched and divided in between, the target shows what it shows without  *)
(* the cache (tile_cache.c:239-290).                                        *)
THEOREM CacheIsTransparent == ASSUME Clips PROVE Spec => []SameImage
<1>1. CacheInv => SameImage
  BY DEF CacheInv, SameImage
<1> QED
  BY <1>1, CacheHolds, PTL
=============================================================================
