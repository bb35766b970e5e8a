------------------------------ MODULE GpuProofs ------------------------------
(***************************************************************************)
(* Proofs about the GPU kernels.  When every launch of the attention       *)
(* kernel synchronises after the last row of a tile, or never uses a stage *)
(* twice, the rows a warp scores stand whole in shared memory, for every   *)
(* number of warps, rows, tiles and passes.  The three scoring kernels of  *)
(* the indexer hide the same rows, for every size of a tile and every      *)
(* launch.  The writers and readers of a packed row agree on its layout,   *)
(* for every block size and width.  A launch of the routed experts gives   *)
(* every token the results of its own experts once, whichever kernels run. *)
(* The compressed rows a layer counts are pooled from their own blocks,    *)
(* however its tokens came.  Every token's attention reads its window and  *)
(* the compressed rows it may see, each once, whichever kernels run.       *)
(***************************************************************************)
EXTENDS GpuLayer, TileStaging, IndexerTopK, PackedRow, RoutedMoe, FiniteSetTheorems, TLAPS

-----------------------------------------------------------------------------
(* The stages of the attention kernel. *)


\* What the safe launches have in common: a barrier after the last row of a tile,
\* a stage for every tile, or one tile that is staged at all.
OneStaged(k) ==
  \A i, j \in 0 .. LastTile(k) - 1 : StagedRows(k, i) # {} /\ StagedRows(k, j) # {} => i = j
Guarded(k) == k.trailing \/ LastTile(k) <= k.buffers \/ OneStaged(k)

(***************************************************************************)
(* The invariant, as facts about one warp at pc p with t tiles finished    *)
(***************************************************************************)
Early == {"count", "counted", "gather", "listed"}
Loading == {"issue", "wait", "staged"}
Places == Early \cup Loading \cup {"compute", "scored"}

\* barriers the warp has passed
Round(k, p, t) ==
  LET base == IF k.trailing THEN 2 * t ELSE t
  IN IF p \in {"count", "counted"} THEN 0
     ELSE IF p \in {"gather", "listed"} THEN 1
     ELSE IF p \in Loading THEN 2 + base
     ELSE IF p = "compute" THEN 3 + base ELSE 1 + base

\* tiles of which the warp may have copies in flight
Upcoming(k, p, t) ==
  {i \in 0 .. LastTile(k) - 1 : \/ i = t /\ p \in {"issue", "wait", "scored"}
                                \/ i = t + 1 /\ p \in {"wait", "staged", "compute"}}
\* the share of warp w of tile i is in its stage, or also on its way there
Has(k, sh, w, i) ==
  \A rr \in StagedRows(k, i) : sh[<<Stage(k, i), rr, w>>] = TileRows(k, i)[rr]
Issued(k, sh, fl, w, i) ==
  \A rr \in StagedRows(k, i) : \/ <<w, Stage(k, i), rr, TileRows(k, i)[rr]>> \in fl
                               \/ sh[<<Stage(k, i), rr, w>>] = TileRows(k, i)[rr]

Phase(k, p, t, r) ==
  /\ p \in Early => t = 0
  /\ p \in {"wait", "staged", "compute"} => t < LastTile(k)
  /\ p = "wait" => k.buffers = 2
  /\ p = "scored" => k.trailing /\ t >= 1
  /\ IF p = "compute" THEN r \in DOMAIN TileRows(k, t) ELSE r = 0
Announced(k, sh, fl, w, p, t) ==
  k.buffers = 2 => \A i \in Upcoming(k, p, t) : (p = "issue" /\ t = 0) \/ Issued(k, sh, fl, w, i)
Delivered(k, sh, w, p, t) ==
  /\ p \in {"staged", "compute"} => Has(k, sh, w, t)
  /\ p = "scored" => Has(k, sh, w, t - 1)
  /\ ~k.trailing /\ p \in Loading /\ t >= 1 => Has(k, sh, w, t - 1)
\* copies of tiles the warp expected at pc p are those of tiles it expects at pc q
Carried(k, fl, w, p, t, q, u) ==
  \A f \in fl : \A i \in Upcoming(k, p, t) : f \in Copies(k, w, i) => i \in Upcoming(k, q, u)

TypeInv ==
  /\ kernel \in Kernels
  /\ pc \in [Warps -> Places]
  /\ tileAt \in [Warps -> Nat] /\ rowAt \in [Warps -> Nat]
  /\ shared \in [Cells(kernel) -> Int]
Phases == \A w \in Warps : Phase(kernel, pc[w], tileAt[w], rowAt[w])
Lockstep ==
  \A v, w \in Warps : Round(kernel, pc[v], tileAt[v]) = Round(kernel, pc[w], tileAt[w])
Flights ==
  \A f \in flight :
    /\ kernel.buffers = 2
    /\ \E w \in Warps : \E i \in Upcoming(kernel, pc[w], tileAt[w]) : f \in Copies(kernel, w, i)
Shares ==
  \A w \in Warps : /\ Announced(kernel, shared, flight, w, pc[w], tileAt[w])
                   /\ Delivered(kernel, shared, w, pc[w], tileAt[w])
IInv == TypeInv /\ Phases /\ Lockstep /\ Flights /\ Shares

(***************************************************************************)
(* Tiles and stages                                                        *)
(***************************************************************************)
LEMMA QuotientBounds ==
  ASSUME NEW n \in Nat \ {0}, NEW d \in Nat \ {0}
  PROVE  LET q == (n + d - 1) \div d IN q \in Nat \ {0} /\ (q - 1) * d < n
<1> DEFINE q == (n + d - 1) \div d
<1>1. q \in Int /\ d * q <= n + d - 1 /\ n + d - 1 < d * q + d
  OBVIOUS
<1>2. q >= 1
  <2>1. SUFFICES ASSUME q <= 0 PROVE FALSE
    BY <1>1
  <2>2. d * q <= 0
    BY <1>1, <2>1
  <2> QED
    BY <1>1, <2>2
<1>3. (q - 1) * d = d * q - d
  BY <1>1
<1> QED
  BY <1>1, <1>2, <1>3

LEMMA MultipleBound ==
  ASSUME NEW a \in Nat, NEW b \in Nat, NEW d \in Nat, a <= b
  PROVE  a * d <= b * d
OBVIOUS

LEMMA ProductPositive ==
  ASSUME NEW a \in Nat \ {0}, NEW b \in Nat \ {0}
  PROVE  a * b \in Nat \ {0}
OBVIOUS

\* what the assumption says of one launch
LEMMA LaunchFacts ==
  ASSUME NEW k \in Kernels
  PROVE  /\ {k.rows, k.tile, k.passes, Tiles(k), LastTile(k)} \subseteq Nat \ {0}
         /\ k.buffers \in {1, 2} /\ k.trailing \in BOOLEAN
<1>1. {k.rows, k.tile, k.passes} \subseteq Nat \ {0} /\ k.buffers \in {1, 2} /\ k.trailing \in BOOLEAN
  BY StagingAssumption
<1>2. Tiles(k) \in Nat \ {0}
  BY <1>1, QuotientBounds DEF Tiles
<1>3. LastTile(k) \in Nat \ {0}
  BY <1>1, <1>2, ProductPositive DEF LastTile
<1> QED
  BY <1>1, <1>2, <1>3

\* every tile has a row, and its rows fit the stage
LEMMA TileRowsFacts ==
  ASSUME NEW k \in Kernels, NEW i \in Nat
  PROVE  /\ 0 \in DOMAIN TileRows(k, i)
         /\ DOMAIN TileRows(k, i) \subseteq 0 .. k.tile - 1
         /\ \A rr \in DOMAIN TileRows(k, i) : TileRows(k, i)[rr] \in Nat
<1> DEFINE q == i % Tiles(k)
           row0 == q * k.tile
           nr == IF k.rows - row0 < k.tile THEN k.rows - row0 ELSE k.tile
<1>1. {k.rows, k.tile, Tiles(k)} \subseteq Nat \ {0}
  BY LaunchFacts
<1>2. q \in 0 .. Tiles(k) - 1
  BY <1>1
<1>3. (Tiles(k) - 1) * k.tile < k.rows
  BY <1>1, QuotientBounds DEF Tiles
<1>4. row0 <= (Tiles(k) - 1) * k.tile
  BY <1>1, <1>2, MultipleBound
<1>5. row0 \in Nat /\ row0 < k.rows
  BY <1>1, <1>2, <1>3, <1>4
<1>6. nr \in 1 .. k.tile
  BY <1>1, <1>5
<1>7. TileRows(k, i) = [rr \in 0 .. nr - 1 |-> row0 + rr]
  BY DEF TileRows
<1> HIDE DEF nr, row0
<1> QED
  BY <1>1, <1>5, <1>6, <1>7

\* neighbours are staged apart when there are two stages
LEMMA StageFacts ==
  ASSUME NEW k \in Kernels, NEW i \in Nat
  PROVE  /\ Stage(k, i) \in 0 .. k.buffers - 1
         /\ k.buffers = 2 => Stage(k, i + 1) # Stage(k, i)
  BY LaunchFacts DEF Stage

LEMMA StagedFacts ==
  ASSUME NEW k \in Kernels, NEW i \in Nat, NEW rr \in StagedRows(k, i), NEW w \in Warps
  PROVE  <<Stage(k, i), rr, w>> \in Cells(k) /\ TileRows(k, i)[rr] \in Nat
<1>1. rr \in 0 .. k.tile - 1 /\ TileRows(k, i)[rr] \in Nat
  BY TileRowsFacts DEF StagedRows
<1> QED
  BY <1>1, StageFacts DEF Cells

(***************************************************************************)
(* What landing copies does to the shares                                  *)
(***************************************************************************)
LEMMA LandedCopies ==
  ASSUME TypeInv, NEW w \in Warps, NEW i \in Nat
  PROVE  LET sh == Landed(Copies(kernel, w, i))
         IN /\ sh \in [Cells(kernel) -> Int]
            /\ Has(kernel, sh, w, i)
            /\ \A v \in Warps \ {w}, j \in Nat : Has(kernel, shared, v, j) => Has(kernel, sh, v, j)
<1> DEFINE cs == Copies(kernel, w, i)
           sh == Landed(cs)
           pick(c) == CHOOSE f \in cs : c = <<f[2], f[3], f[1]>>
<1>0. kernel \in Kernels /\ shared \in [Cells(kernel) -> Int]
  BY DEF TypeInv
<1>1. sh = [c \in Cells(kernel) |-> IF \E f \in cs : c = <<f[2], f[3], f[1]>> THEN pick(c)[4] ELSE shared[c]]
  BY DEF Landed
<1>2. ASSUME NEW f \in cs
      PROVE  \E rr \in StagedRows(kernel, i) : f = <<w, Stage(kernel, i), rr, TileRows(kernel, i)[rr]>>
  BY DEF Copies
<1>3. ASSUME NEW rr \in StagedRows(kernel, i)
      PROVE  sh[<<Stage(kernel, i), rr, w>>] = TileRows(kernel, i)[rr]
  <2> DEFINE c == <<Stage(kernel, i), rr, w>>
             f0 == <<w, Stage(kernel, i), rr, TileRows(kernel, i)[rr]>>
  <2>1. f0 \in cs /\ c = <<f0[2], f0[3], f0[1]>>
    BY DEF Copies
  <2>2. pick(c) \in cs /\ c = <<pick(c)[2], pick(c)[3], pick(c)[1]>>
    BY <2>1
  <2>3. pick(c) = f0
    <3>1. PICK qq \in StagedRows(kernel, i) : pick(c) = <<w, Stage(kernel, i), qq, TileRows(kernel, i)[qq]>>
      BY <1>2, <2>2
    <3>2. qq = rr
      <4> HIDE DEF pick
      <4>1. pick(c)[3] = qq
        BY <3>1
      <4>2. c[2] = pick(c)[3] /\ c[2] = rr
        BY <2>2
      <4> QED
        BY <4>1, <4>2
    <3> QED
      BY <3>1, <3>2
  <2>4. c \in Cells(kernel)
    BY <1>0, StagedFacts
  <2> QED
    BY <1>1, <2>1, <2>3, <2>4
<1>4. ASSUME NEW c \in Cells(kernel), c[3] # w
      PROVE  sh[c] = shared[c]
  <2>1. ~ \E f \in cs : c = <<f[2], f[3], f[1]>>
    BY <1>2, <1>4
  <2> QED
    BY <1>1, <2>1
<1>5. ASSUME NEW c \in Cells(kernel)
      PROVE  sh[c] \in Int
  <2>1. CASE \E f \in cs : c = <<f[2], f[3], f[1]>>
    <3>1. pick(c) \in cs
      BY <2>1
    <3>2. PICK rr \in StagedRows(kernel, i) : pick(c) = <<w, Stage(kernel, i), rr, TileRows(kernel, i)[rr]>>
      BY <1>2, <3>1
    <3>3. TileRows(kernel, i)[rr] \in Nat
      BY <1>0, StagedFacts
    <3> QED
      BY <1>1, <2>1, <3>2, <3>3
  <2>2. CASE ~ \E f \in cs : c = <<f[2], f[3], f[1]>>
    BY <1>0, <1>1, <2>2
  <2> QED
    BY <2>1, <2>2
<1>6. sh \in [Cells(kernel) -> Int]
  BY <1>1, <1>5
<1>7. Has(kernel, sh, w, i)
  BY <1>3 DEF Has
<1>8. ASSUME NEW v \in Warps \ {w}, NEW j \in Nat, Has(kernel, shared, v, j)
      PROVE  Has(kernel, sh, v, j)
  <2>1. SUFFICES ASSUME NEW rr \in StagedRows(kernel, j)
                 PROVE  sh[<<Stage(kernel, j), rr, v>>] = TileRows(kernel, j)[rr]
    BY DEF Has
  <2>2. <<Stage(kernel, j), rr, v>> \in Cells(kernel)
    BY <1>0, StagedFacts
  <2>3. sh[<<Stage(kernel, j), rr, v>>] = shared[<<Stage(kernel, j), rr, v>>]
    BY <1>4, <2>2
  <2> QED
    BY <1>8, <2>3 DEF Has
<1> QED
  BY <1>6, <1>7, <1>8

LEMMA LandedNothing == ASSUME TypeInv PROVE Landed({}) = shared
<1>1. ASSUME NEW c \in Cells(kernel)
      PROVE  (IF \E f \in {} : c = <<f[2], f[3], f[1]>>
              THEN (CHOOSE f \in {} : c = <<f[2], f[3], f[1]>>)[4] ELSE shared[c]) = shared[c]
  OBVIOUS
<1>2. Landed({}) = [c \in Cells(kernel) |-> shared[c]]
  BY <1>1 DEF Landed
<1>3. shared \in [Cells(kernel) -> Int]
  BY DEF TypeInv
<1> QED
  BY <1>2, <1>3

LEMMA LandedFlight ==
  ASSUME TypeInv, NEW w \in Warps, NEW i \in Nat, NEW f \in Copies(kernel, w, i), NEW fl
  PROVE  LET sh == Landed({f})
         IN /\ sh \in [Cells(kernel) -> Int]
            /\ \A v \in Warps, j \in Nat :
                 v # w \/ j = i \/ Stage(kernel, j) # Stage(kernel, i) =>
                   /\ Has(kernel, shared, v, j) => Has(kernel, sh, v, j)
                   /\ Issued(kernel, shared, fl, v, j) => Issued(kernel, sh, fl \ {f}, v, j)
<1> DEFINE sh == Landed({f})
<1>0. kernel \in Kernels /\ shared \in [Cells(kernel) -> Int]
  BY DEF TypeInv
<1>1. PICK qq \in StagedRows(kernel, i) : f = <<w, Stage(kernel, i), qq, TileRows(kernel, i)[qq]>>
  BY DEF Copies
<1>2. <<f[2], f[3], f[1]>> = <<Stage(kernel, i), qq, w>> /\ f[4] = TileRows(kernel, i)[qq]
  BY <1>1
<1>3. TileRows(kernel, i)[qq] \in Nat
  BY <1>0, StagedFacts
<1>4. sh = [c \in Cells(kernel) |-> IF c = <<f[2], f[3], f[1]>> THEN f[4] ELSE shared[c]]
  <2>1. ASSUME NEW c \in Cells(kernel)
        PROVE  (IF \E g \in {f} : c = <<g[2], g[3], g[1]>>
                THEN (CHOOSE g \in {f} : c = <<g[2], g[3], g[1]>>)[4] ELSE shared[c])
               = IF c = <<f[2], f[3], f[1]>> THEN f[4] ELSE shared[c]
    <3>1. CASE c = <<f[2], f[3], f[1]>>
      <4>1. (CHOOSE g \in {f} : c = <<g[2], g[3], g[1]>>) = f
        BY <3>1
      <4> QED
        BY <3>1, <4>1
    <3>2. CASE c # <<f[2], f[3], f[1]>>
      BY <3>2
    <3> QED
      BY <3>1, <3>2
  <2> QED
    BY <2>1 DEF Landed
<1>5. \A c \in Cells(kernel) :
        sh[c] = IF c = <<Stage(kernel, i), qq, w>> THEN TileRows(kernel, i)[qq] ELSE shared[c]
  BY <1>2, <1>4
<1>6. sh \in [Cells(kernel) -> Int]
  BY <1>0, <1>2, <1>3, <1>4
<1> HIDE DEF sh
<1>7. ASSUME NEW v \in Warps, NEW j \in Nat, NEW rr \in StagedRows(kernel, j),
             v # w \/ j = i \/ Stage(kernel, j) # Stage(kernel, i)
      PROVE  /\ shared[<<Stage(kernel, j), rr, v>>] = TileRows(kernel, j)[rr]
                  => sh[<<Stage(kernel, j), rr, v>>] = TileRows(kernel, j)[rr]
             /\ <<v, Stage(kernel, j), rr, TileRows(kernel, j)[rr]>> = f
                  => sh[<<Stage(kernel, j), rr, v>>] = TileRows(kernel, j)[rr]
  <2> DEFINE c == <<Stage(kernel, j), rr, v>>
  <2>1. c \in Cells(kernel)
    BY <1>0, StagedFacts
  <2>2. c = <<Stage(kernel, i), qq, w>> => j = i /\ rr = qq
    BY <1>7
  <2>3. <<v, Stage(kernel, j), rr, TileRows(kernel, j)[rr]>> = f => c = <<Stage(kernel, i), qq, w>>
    BY <1>1
  <2> QED
    BY <1>5, <2>1, <2>2, <2>3
<1>8. ASSUME NEW v \in Warps, NEW j \in Nat, v # w \/ j = i \/ Stage(kernel, j) # Stage(kernel, i)
      PROVE  /\ Has(kernel, shared, v, j) => Has(kernel, sh, v, j)
             /\ Issued(kernel, shared, fl, v, j) => Issued(kernel, sh, fl \ {f}, v, j)
  BY <1>7, <1>8 DEF Has, Issued
<1> QED
  BY <1>6, <1>8 DEF sh

(***************************************************************************)
(* The invariant is inductive                                              *)
(***************************************************************************)
LEMMA Initially == TileInit => IInv
<1> SUFFICES ASSUME TileInit PROVE IInv
  OBVIOUS
<1> USE DEF TileInit
<1>1. TypeInv
  BY DEF TypeInv, Places, Early, NoKey
<1>2. Phases
  BY DEF Phases, Phase, Early
<1>3. Lockstep
  BY DEF Lockstep, Round
<1>4. Flights
  BY DEF Flights
<1>5. Shares
  BY DEF Shares, Announced, Delivered, Upcoming, Loading
<1> QED
  BY <1>1, <1>2, <1>3, <1>4, <1>5 DEF IInv

\* One warp moves on: its own phase must fit, and it has passed no barrier.
LEMMA WarpMoves ==
  ASSUME IInv, NEW w \in Warps, NEW p \in Places, NEW t \in Nat, NEW r \in Nat,
         kernel' = kernel, shared' \in [Cells(kernel) -> Int],
         pc' = [pc EXCEPT ![w] = p], tileAt' = [tileAt EXCEPT ![w] = t], rowAt' = [rowAt EXCEPT ![w] = r],
         Phase(kernel, p, t, r), Round(kernel, p, t) = Round(kernel, pc[w], tileAt[w])
  PROVE  TypeInv' /\ Phases' /\ Lockstep'
<1> USE DEF IInv, TypeInv
<1>1. TypeInv'
  OBVIOUS
<1>2. ASSUME NEW v \in Warps
      PROVE  /\ v # w => pc'[v] = pc[v] /\ tileAt'[v] = tileAt[v] /\ rowAt'[v] = rowAt[v]
             /\ v = w => pc'[v] = p /\ tileAt'[v] = t /\ rowAt'[v] = r
  OBVIOUS
<1>3. Phases'
  BY <1>2 DEF Phases
<1>4. ASSUME NEW v \in Warps
      PROVE  Round(kernel, pc'[v], tileAt'[v]) = Round(kernel, pc[v], tileAt[v])
  BY <1>2
<1>5. Lockstep'
  BY <1>4 DEF Lockstep
<1> QED
  BY <1>1, <1>3, <1>5

\* It does so without touching shared memory or the copies in flight.
LEMMA QuietMove ==
  ASSUME IInv, NEW w \in Warps, NEW p \in Places, NEW t \in Nat, NEW r \in Nat,
         kernel' = kernel, shared' = shared, flight' = flight,
         pc' = [pc EXCEPT ![w] = p], tileAt' = [tileAt EXCEPT ![w] = t], rowAt' = [rowAt EXCEPT ![w] = r],
         Phase(kernel, p, t, r), Round(kernel, p, t) = Round(kernel, pc[w], tileAt[w]),
         Carried(kernel, flight, w, pc[w], tileAt[w], p, t),
         Announced(kernel, shared, flight, w, p, t),
         Delivered(kernel, shared, w, p, t)
  PROVE  IInv'
<1>1. TypeInv' /\ Phases' /\ Lockstep'
  BY WarpMoves DEF IInv, TypeInv
<1>2. ASSUME NEW v \in Warps
      PROVE  /\ v # w => pc'[v] = pc[v] /\ tileAt'[v] = tileAt[v]
             /\ v = w => pc'[v] = p /\ tileAt'[v] = t
  BY DEF IInv, TypeInv
<1>3. Flights'
  <2>1. SUFFICES ASSUME NEW f \in flight
                 PROVE  /\ kernel.buffers = 2
                        /\ \E v \in Warps : \E i \in Upcoming(kernel, pc'[v], tileAt'[v]) : f \in Copies(kernel, v, i)
    BY DEF Flights
  <2>2. kernel.buffers = 2
    BY DEF IInv, Flights
  <2>3. PICK v \in Warps : \E i \in Upcoming(kernel, pc[v], tileAt[v]) : f \in Copies(kernel, v, i)
    BY DEF IInv, Flights
  <2>4. PICK i \in Upcoming(kernel, pc[v], tileAt[v]) : f \in Copies(kernel, v, i)
    BY <2>3
  <2>5. i \in Upcoming(kernel, pc'[v], tileAt'[v])
    BY <1>2, <2>4 DEF Carried
  <2> QED
    BY <2>2, <2>4, <2>5
<1>4. Shares'
  <2>1. SUFFICES ASSUME NEW v \in Warps
                 PROVE  /\ Announced(kernel, shared, flight, v, pc'[v], tileAt'[v])
                        /\ Delivered(kernel, shared, v, pc'[v], tileAt'[v])
    BY DEF Shares
  <2> QED
    BY <1>2 DEF IInv, Shares
<1> QED
  BY <1>1, <1>3, <1>4 DEF IInv

LEMMA CountKeeps == ASSUME IInv, NEW w \in Warps, Count(w) PROVE IInv'
<1> USE DEF Early, Loading
<1>1. /\ kernel \in Kernels /\ pc \in [Warps -> Places] /\ tileAt \in [Warps -> Nat] /\ rowAt \in [Warps -> Nat]
      /\ Phase(kernel, pc[w], tileAt[w], rowAt[w])
  BY DEF IInv, TypeInv, Phases
<1>2. pc[w] = "count" /\ tileAt[w] = 0 /\ rowAt[w] = 0
  BY <1>1 DEF Count, Phase
<1>3. /\ kernel' = kernel /\ shared' = shared /\ flight' = flight /\ pc' = [pc EXCEPT ![w] = "counted"]
      /\ tileAt' = [tileAt EXCEPT ![w] = 0] /\ rowAt' = [rowAt EXCEPT ![w] = 0]
  BY <1>1, <1>2 DEF Count, Goto
<1>4. Phase(kernel, "counted", 0, 0) /\ Round(kernel, "counted", 0) = Round(kernel, pc[w], tileAt[w])
  BY <1>2 DEF Phase, Round
<1>5. Upcoming(kernel, pc[w], tileAt[w]) = {} /\ Upcoming(kernel, "counted", 0) = {}
  BY <1>2 DEF Upcoming
<1>8. Carried(kernel, flight, w, pc[w], tileAt[w], "counted", 0)
  BY <1>5 DEF Carried
<1>6. Announced(kernel, shared, flight, w, "counted", 0) /\ Delivered(kernel, shared, w, "counted", 0)
  BY <1>5 DEF Announced, Delivered
<1>7. "counted" \in Places
  BY DEF Places
<1> QED
  BY <1>3, <1>4, <1>6, <1>7, <1>8, QuietMove

LEMMA GatherKeeps == ASSUME IInv, NEW w \in Warps, Gather(w) PROVE IInv'
<1> USE DEF Early, Loading
<1>1. /\ kernel \in Kernels /\ pc \in [Warps -> Places] /\ tileAt \in [Warps -> Nat] /\ rowAt \in [Warps -> Nat]
      /\ Phase(kernel, pc[w], tileAt[w], rowAt[w])
  BY DEF IInv, TypeInv, Phases
<1>2. pc[w] = "gather" /\ tileAt[w] = 0 /\ rowAt[w] = 0
  BY <1>1 DEF Gather, Phase
<1>3. /\ kernel' = kernel /\ shared' = shared /\ flight' = flight /\ pc' = [pc EXCEPT ![w] = "listed"]
      /\ tileAt' = [tileAt EXCEPT ![w] = 0] /\ rowAt' = [rowAt EXCEPT ![w] = 0]
  BY <1>1, <1>2 DEF Gather, Goto
<1>4. Phase(kernel, "listed", 0, 0) /\ Round(kernel, "listed", 0) = Round(kernel, pc[w], tileAt[w])
  BY <1>2 DEF Phase, Round
<1>5. Upcoming(kernel, pc[w], tileAt[w]) = {} /\ Upcoming(kernel, "listed", 0) = {}
  BY <1>2 DEF Upcoming
<1>8. Carried(kernel, flight, w, pc[w], tileAt[w], "listed", 0)
  BY <1>5 DEF Carried
<1>6. Announced(kernel, shared, flight, w, "listed", 0) /\ Delivered(kernel, shared, w, "listed", 0)
  BY <1>5 DEF Announced, Delivered
<1>7. "listed" \in Places
  BY DEF Places
<1> QED
  BY <1>3, <1>4, <1>6, <1>7, <1>8, QuietMove

LEMMA WaitPriorKeeps == ASSUME IInv, NEW w \in Warps, WaitPrior(w) PROVE IInv'
<1> DEFINE t == tileAt[w]
<1> USE DEF Early, Loading
<1>1. /\ kernel \in Kernels /\ pc \in [Warps -> Places] /\ tileAt \in [Warps -> Nat] /\ rowAt \in [Warps -> Nat]
      /\ Phase(kernel, pc[w], t, rowAt[w])
  BY DEF IInv, TypeInv, Phases
<1>2. /\ pc[w] = "wait" /\ t < LastTile(kernel) /\ kernel.buffers = 2 /\ rowAt[w] = 0 /\ t \in Nat
      /\ Copies(kernel, w, t) \cap flight = {}
  BY <1>1 DEF WaitPrior, Phase
<1>3. /\ kernel' = kernel /\ shared' = shared /\ flight' = flight /\ pc' = [pc EXCEPT ![w] = "staged"]
      /\ tileAt' = [tileAt EXCEPT ![w] = t] /\ rowAt' = [rowAt EXCEPT ![w] = 0]
  BY <1>1, <1>2 DEF WaitPrior, Goto
<1>4. Phase(kernel, "staged", t, 0) /\ Round(kernel, "staged", t) = Round(kernel, pc[w], t)
  BY <1>2 DEF Phase, Round
<1>5. /\ Announced(kernel, shared, flight, w, "wait", t)
      /\ Delivered(kernel, shared, w, "wait", t)
  BY <1>2 DEF IInv, Shares
<1>6. LastTile(kernel) \in Nat
  BY <1>1, LaunchFacts
<1>7. ASSUME NEW i \in Upcoming(kernel, "wait", t), i # t
      PROVE  i \in Upcoming(kernel, "staged", t)
  BY <1>7 DEF Upcoming
<1>8. \A i \in Upcoming(kernel, "staged", t) : i \in Upcoming(kernel, "wait", t)
  BY DEF Upcoming
<1>9. Has(kernel, shared, w, t)
  <2>1. t \in Upcoming(kernel, "wait", t)
    BY <1>2, <1>6 DEF Upcoming
  <2>2. Issued(kernel, shared, flight, w, t)
    BY <1>2, <1>5, <2>1 DEF Announced
  <2>3. \A rr \in StagedRows(kernel, t) : <<w, Stage(kernel, t), rr, TileRows(kernel, t)[rr]>> \notin flight
    BY <1>2 DEF Copies
  <2> QED
    BY <2>2, <2>3 DEF Has, Issued
<1>10. Announced(kernel, shared, flight, w, "staged", t)
  BY <1>5, <1>8 DEF Announced
<1>11. Delivered(kernel, shared, w, "staged", t)
  BY <1>5, <1>9 DEF Delivered
<1>12. Carried(kernel, flight, w, pc[w], t, "staged", t)
  BY <1>2, <1>7 DEF Carried
<1>13. "staged" \in Places
  BY DEF Places
<1>14. t \in Nat
  BY <1>2
<1>15. tileAt[w] = t
  OBVIOUS
<1> HIDE DEF t, Early, Loading
<1> QED
  BY <1>3, <1>4, <1>10, <1>11, <1>12, <1>13, <1>14, <1>15, QuietMove

\* The next row of the tile, or the end of the tile.
LEMMA ComputeKeeps == ASSUME IInv, NEW w \in Warps, Compute(w) PROVE IInv'
<1> DEFINE t == tileAt[w]
           r == rowAt[w]
           to == IF kernel.trailing THEN "scored" ELSE "issue"
<1> USE DEF Early, Loading
<1>1. /\ kernel \in Kernels /\ pc \in [Warps -> Places] /\ tileAt \in [Warps -> Nat] /\ rowAt \in [Warps -> Nat]
      /\ Phase(kernel, pc[w], t, r)
  BY DEF IInv, TypeInv, Phases
<1>2. /\ pc[w] = "compute" /\ t < LastTile(kernel) /\ r \in DOMAIN TileRows(kernel, t) /\ t \in Nat /\ r \in Nat
      /\ kernel' = kernel /\ shared' = shared /\ flight' = flight
  BY <1>1 DEF Compute, Phase
<1>3. /\ Announced(kernel, shared, flight, w, "compute", t)
      /\ Delivered(kernel, shared, w, "compute", t)
  BY <1>2 DEF IInv, Shares
<1>4. kernel.trailing \in BOOLEAN /\ LastTile(kernel) \in Nat
  BY <1>1, LaunchFacts
<1>5. tileAt[w] = t /\ rowAt[w] = r /\ r + 1 \in Nat /\ t + 1 \in Nat
  BY <1>2
<1>6. CASE r + 1 \in DOMAIN TileRows(kernel, t)
  <2>1. /\ pc' = [pc EXCEPT ![w] = "compute"] /\ tileAt' = [tileAt EXCEPT ![w] = t]
        /\ rowAt' = [rowAt EXCEPT ![w] = r + 1]
    BY <1>1, <1>2, <1>6 DEF Compute
  <2>2. Phase(kernel, "compute", t, r + 1)
    BY <1>2, <1>6 DEF Phase
  <2>3. Round(kernel, "compute", t) = Round(kernel, pc[w], t)
    BY <1>2
  <2>4. Carried(kernel, flight, w, pc[w], t, "compute", t)
    BY <1>2 DEF Carried
  <2>5. "compute" \in Places
    BY DEF Places
  <2> HIDE DEF t, r, Early, Loading
  <2> QED
    BY <1>2, <1>3, <1>5, <2>1, <2>2, <2>3, <2>4, <2>5, QuietMove
<1>7. CASE r + 1 \notin DOMAIN TileRows(kernel, t)
  <2>1. /\ pc' = [pc EXCEPT ![w] = to] /\ tileAt' = [tileAt EXCEPT ![w] = t + 1]
        /\ rowAt' = [rowAt EXCEPT ![w] = 0]
    BY <1>1, <1>2, <1>7 DEF Compute, TileDone, Goto
  <2>2. (to = "scored" /\ kernel.trailing) \/ (to = "issue" /\ ~kernel.trailing)
    BY <1>4
  <2> HIDE DEF to
  <2>3. Phase(kernel, to, t + 1, 0)
    BY <1>2, <2>2 DEF Phase
  <2>4. Round(kernel, to, t + 1) = Round(kernel, pc[w], t)
    BY <1>2, <1>4, <2>2 DEF Round
  <2>5. \A i : i \in Upcoming(kernel, "compute", t) <=> i \in Upcoming(kernel, to, t + 1)
    BY <1>2, <1>4, <2>2 DEF Upcoming
  <2>6. Carried(kernel, flight, w, pc[w], t, to, t + 1)
    BY <1>2, <2>5 DEF Carried
  <2>7. Announced(kernel, shared, flight, w, to, t + 1)
    BY <1>3, <2>5 DEF Announced
  <2>8. Delivered(kernel, shared, w, to, t + 1)
    BY <1>2, <1>3, <2>2 DEF Delivered
  <2>9. to \in Places
    BY <2>2 DEF Places
  <2> HIDE DEF t, r, Early, Loading
  <2> QED
    BY <1>2, <1>5, <2>1, <2>3, <2>4, <2>6, <2>7, <2>8, <2>9, QuietMove
<1> QED
  BY <1>6, <1>7

\* A kernel with one stage writes its share of the tile.
LEMMA CopyTileKeeps ==
  ASSUME IInv, NEW w \in Warps, CopyTile(w), Guarded(kernel)
  PROVE  IInv'
<1> DEFINE t == tileAt[w]
<1> USE DEF Early, Loading
<1>1. /\ kernel \in Kernels /\ pc \in [Warps -> Places] /\ tileAt \in [Warps -> Nat] /\ rowAt \in [Warps -> Nat]
      /\ Phase(kernel, pc[w], t, rowAt[w])
  BY DEF IInv, TypeInv, Phases
<1>2. /\ pc[w] = "issue" /\ t < LastTile(kernel) /\ kernel.buffers = 1 /\ rowAt[w] = 0 /\ t \in Nat
      /\ shared' = Landed(Copies(kernel, w, t)) /\ kernel' = kernel /\ flight' = flight
  BY <1>1 DEF CopyTile, Phase
<1>3. /\ pc' = [pc EXCEPT ![w] = "staged"] /\ tileAt' = [tileAt EXCEPT ![w] = t] /\ rowAt' = [rowAt EXCEPT ![w] = 0]
  BY <1>1, <1>2 DEF CopyTile, Goto
<1>4. Phase(kernel, "staged", t, 0) /\ Round(kernel, "staged", t) = Round(kernel, pc[w], t)
  BY <1>2 DEF Phase, Round
<1>5. /\ shared' \in [Cells(kernel) -> Int] /\ Has(kernel, shared', w, t)
      /\ \A v \in Warps \ {w}, j \in Nat : Has(kernel, shared, v, j) => Has(kernel, shared', v, j)
  BY <1>2, LandedCopies DEF IInv
<1>6. TypeInv' /\ Phases' /\ Lockstep'
  <2>1. tileAt[w] = t /\ t \in Nat /\ "staged" \in Places /\ kernel' = kernel
    BY <1>2 DEF Places
  <2>2. shared' \in [Cells(kernel) -> Int]
    BY <1>5
  <2> HIDE DEF t, Early, Loading
  <2> QED
    BY <1>3, <1>4, <2>1, <2>2, WarpMoves
<1>7. Flights'
  <2>1. flight = {}
    BY <1>2 DEF IInv, Flights
  <2> QED
    BY <1>2, <2>1 DEF Flights
<1>8. ASSUME NEW v \in Warps
      PROVE  /\ Announced(kernel, shared', flight', v, pc'[v], tileAt'[v])
             /\ Delivered(kernel, shared', v, pc'[v], tileAt'[v])
  <2>1. Announced(kernel, shared', flight', v, pc'[v], tileAt'[v])
    BY <1>2 DEF Announced
  <2>2. CASE v = w
    <3>1. pc'[v] = "staged" /\ tileAt'[v] = t
      BY <1>1, <1>3, <2>2
    \* without a barrier after the tile before, one of the two has nothing staged
    <3>2. ASSUME ~kernel.trailing, t >= 1
          PROVE  Has(kernel, shared', w, t - 1)
      <4>1. LastTile(kernel) \in Nat /\ t - 1 \in 0 .. LastTile(kernel) - 1 /\ t \in 0 .. LastTile(kernel) - 1
        BY <1>1, <1>2, <3>2, LaunchFacts
      <4>2. OneStaged(kernel)
        BY <1>2, <3>2, <4>1 DEF Guarded
      <4>3. StagedRows(kernel, t - 1) = {} \/ StagedRows(kernel, t) = {}
        BY <4>1, <4>2 DEF OneStaged
      <4>4. CASE StagedRows(kernel, t - 1) = {}
        BY <4>4 DEF Has
      <4>5. CASE StagedRows(kernel, t) = {}
        <5>1. Copies(kernel, w, t) = {}
          BY <4>5 DEF Copies
        <5>2. shared' = shared
          BY <1>2, <5>1, LandedNothing DEF IInv
        <5>3. Has(kernel, shared, w, t - 1)
          BY <1>2, <3>2 DEF IInv, Shares, Delivered
        <5> QED
          BY <5>2, <5>3
      <4> QED
        BY <4>3, <4>4, <4>5
    <3>3. Delivered(kernel, shared', v, "staged", t)
      BY <1>5, <2>2, <3>2 DEF Delivered
    <3> QED
      BY <2>1, <3>1, <3>3
  <2>3. CASE v # w
    <3>1. pc'[v] = pc[v] /\ tileAt'[v] = tileAt[v]
      BY <1>1, <1>3, <2>3
    <3>2. Delivered(kernel, shared, v, pc[v], tileAt[v]) /\ Phase(kernel, pc[v], tileAt[v], rowAt[v])
      BY DEF IInv, Shares, Phases
    <3>3. tileAt[v] \in Nat /\ (tileAt[v] >= 1 => tileAt[v] - 1 \in Nat)
      BY <1>1
    <3>4. Delivered(kernel, shared', v, pc[v], tileAt[v])
      BY <1>5, <2>3, <3>2, <3>3 DEF Delivered, Phase
    <3> QED
      BY <2>1, <3>1, <3>4
  <2> QED
    BY <2>2, <2>3
<1>9. Shares'
  BY <1>2, <1>8 DEF Shares
<1> QED
  BY <1>6, <1>7, <1>9 DEF IInv

\* A kernel with two stages sends for the next tile, and for its first one.
LEMMA IssueAsyncKeeps ==
  ASSUME IInv, NEW w \in Warps, IssueAsync(w)
  PROVE  IInv'
<1> DEFINE t == tileAt[w]
           new == (IF t = 0 THEN Copies(kernel, w, 0) ELSE {})
                  \cup (IF t + 1 < LastTile(kernel) THEN Copies(kernel, w, t + 1) ELSE {})
<1> USE DEF Early, Loading
<1>1. /\ kernel \in Kernels /\ pc \in [Warps -> Places] /\ tileAt \in [Warps -> Nat] /\ rowAt \in [Warps -> Nat]
      /\ shared \in [Cells(kernel) -> Int] /\ Phase(kernel, pc[w], t, rowAt[w])
  BY DEF IInv, TypeInv, Phases
<1>2. /\ pc[w] = "issue" /\ t < LastTile(kernel) /\ kernel.buffers = 2 /\ rowAt[w] = 0 /\ t \in Nat
      /\ shared' = shared /\ kernel' = kernel /\ flight' = flight \cup new
  BY <1>1 DEF IssueAsync, Phase
<1>3. /\ pc' = [pc EXCEPT ![w] = "wait"] /\ tileAt' = [tileAt EXCEPT ![w] = t] /\ rowAt' = [rowAt EXCEPT ![w] = 0]
  BY <1>1, <1>2 DEF IssueAsync, Goto
<1>4. Phase(kernel, "wait", t, 0) /\ Round(kernel, "wait", t) = Round(kernel, pc[w], t)
  BY <1>2 DEF Phase, Round
<1>5. LastTile(kernel) \in Nat
  BY <1>1, LaunchFacts
<1>6. TypeInv' /\ Phases' /\ Lockstep'
  <2>1. tileAt[w] = t /\ t \in Nat /\ "wait" \in Places /\ kernel' = kernel /\ shared' \in [Cells(kernel) -> Int]
    BY <1>1, <1>2 DEF Places
  <2> HIDE DEF t, Early, Loading
  <2> QED
    BY <1>3, <1>4, <2>1, WarpMoves
<1>7. ASSUME NEW v \in Warps
      PROVE  /\ v # w => pc'[v] = pc[v] /\ tileAt'[v] = tileAt[v]
             /\ v = w => pc'[v] = "wait" /\ tileAt'[v] = t
  BY <1>1, <1>3
<1>8. Upcoming(kernel, "wait", t) = {t} \cup (IF t + 1 < LastTile(kernel) THEN {t + 1} ELSE {})
  BY <1>2, <1>5 DEF Upcoming
<1>9. Upcoming(kernel, "issue", t) = {t}
  BY <1>2, <1>5 DEF Upcoming
<1>10. Flights'
  <2>1. SUFFICES ASSUME NEW f \in flight'
                 PROVE  \E v \in Warps : \E i \in Upcoming(kernel, pc'[v], tileAt'[v]) : f \in Copies(kernel, v, i)
    BY <1>2 DEF Flights
  <2>2. CASE f \in flight
    <3>1. PICK v \in Warps : \E i \in Upcoming(kernel, pc[v], tileAt[v]) : f \in Copies(kernel, v, i)
      BY <2>2 DEF IInv, Flights
    <3>2. PICK i \in Upcoming(kernel, pc[v], tileAt[v]) : f \in Copies(kernel, v, i)
      BY <3>1
    <3>3. i \in Upcoming(kernel, pc'[v], tileAt'[v])
      BY <1>2, <1>7, <1>8, <1>9, <3>2
    <3> QED
      BY <3>2, <3>3
  <2>3. CASE f \in new
    <3>1. \E i \in Upcoming(kernel, "wait", t) : f \in Copies(kernel, w, i)
      BY <1>8, <2>3
    <3> QED
      BY <1>7, <3>1
  <2> QED
    BY <1>2, <2>2, <2>3
<1>11. ASSUME NEW v \in Warps, NEW i \in Nat, Issued(kernel, shared, flight, v, i)
       PROVE  Issued(kernel, shared, flight', v, i)
  BY <1>2, <1>11 DEF Issued
<1>12. ASSUME NEW i \in Nat, Copies(kernel, w, i) \subseteq flight'
       PROVE  Issued(kernel, shared, flight', w, i)
  BY <1>12 DEF Issued, Copies
<1>13. \A v \in Warps : \A i \in Upcoming(kernel, pc[v], tileAt[v]) : i \in Nat
  BY DEF Upcoming
<1>14. ASSUME NEW v \in Warps
       PROVE  /\ Announced(kernel, shared, flight', v, pc'[v], tileAt'[v])
              /\ Delivered(kernel, shared, v, pc'[v], tileAt'[v])
  <2>1. /\ Announced(kernel, shared, flight, v, pc[v], tileAt[v])
        /\ Delivered(kernel, shared, v, pc[v], tileAt[v])
    BY DEF IInv, Shares
  <2>2. CASE v = w
    <3>1. Issued(kernel, shared, flight', w, t)
      <4>1. CASE t = 0
        BY <1>2, <1>12, <4>1
      <4>2. CASE t # 0
        <5>1. Issued(kernel, shared, flight, w, t)
          BY <1>2, <1>9, <2>1, <2>2, <4>2 DEF Announced
        <5> QED
          BY <1>2, <1>11, <5>1
      <4> QED
        BY <4>1, <4>2
    <3>2. ASSUME t + 1 < LastTile(kernel)
          PROVE  Issued(kernel, shared, flight', w, t + 1)
      <4>1. Copies(kernel, w, t + 1) \subseteq new
        BY <3>2
      <4>2. Copies(kernel, w, t + 1) \subseteq flight' /\ t + 1 \in Nat
        <5> HIDE DEF new
        <5> QED
          BY <1>2, <4>1
      <4> HIDE DEF t, new
      <4> QED
        BY <1>12, <4>2
    <3>3. Announced(kernel, shared, flight', w, "wait", t)
      BY <1>8, <3>1, <3>2 DEF Announced
    <3>4. Delivered(kernel, shared, w, "wait", t)
      BY <1>2, <2>1, <2>2 DEF Delivered
    <3> QED
      BY <1>7, <2>2, <3>3, <3>4
  <2>3. CASE v # w
    <3>1. Announced(kernel, shared, flight', v, pc[v], tileAt[v])
      BY <1>11, <1>13, <2>1 DEF Announced
    <3> QED
      BY <1>7, <2>1, <2>3, <3>1
  <2> QED
    BY <2>2, <2>3
<1>15. Shares'
  BY <1>2, <1>14 DEF Shares
<1> QED
  BY <1>6, <1>10, <1>15 DEF IInv

\* A copy lands in a stage its warp is not scoring.
LEMMA LandKeeps ==
  ASSUME IInv, NEW f \in flight, Land(f), Guarded(kernel)
  PROVE  IInv'
<1> USE DEF Early, Loading
<1>1. /\ kernel \in Kernels /\ pc \in [Warps -> Places] /\ tileAt \in [Warps -> Nat]
      /\ kernel.buffers = 2 /\ LastTile(kernel) \in Nat
  BY LaunchFacts DEF IInv, TypeInv, Flights
<1>2. PICK w \in Warps : \E i \in Upcoming(kernel, pc[w], tileAt[w]) : f \in Copies(kernel, w, i)
  BY DEF IInv, Flights
<1>3. PICK i \in Upcoming(kernel, pc[w], tileAt[w]) : f \in Copies(kernel, w, i)
  BY <1>2
<1>4. i \in Nat /\ i < LastTile(kernel)
  BY <1>1, <1>3 DEF Upcoming
<1>5. /\ shared' = Landed({f}) /\ flight' = flight \ {f}
      /\ kernel' = kernel /\ pc' = pc /\ tileAt' = tileAt /\ rowAt' = rowAt
  BY DEF Land
<1>6. /\ shared' \in [Cells(kernel) -> Int]
      /\ \A v \in Warps, j \in Nat :
           v # w \/ j = i \/ Stage(kernel, j) # Stage(kernel, i) =>
             /\ Has(kernel, shared, v, j) => Has(kernel, shared', v, j)
             /\ Issued(kernel, shared, flight, v, j) => Issued(kernel, shared', flight', v, j)
  BY <1>3, <1>4, <1>5, LandedFlight DEF IInv
<1>7. TypeInv' /\ Phases' /\ Lockstep'
  BY <1>5, <1>6 DEF IInv, TypeInv, Phases, Lockstep
<1>8. Flights'
  BY <1>5 DEF IInv, Flights
<1>9. ASSUME NEW j \in Nat, j = i + 1 \/ j + 1 = i
      PROVE  Stage(kernel, j) # Stage(kernel, i)
  BY <1>1, <1>4, <1>9, StageFacts
<1>10. ASSUME NEW v \in Warps
       PROVE  /\ Announced(kernel, shared', flight', v, pc[v], tileAt[v])
              /\ Delivered(kernel, shared', v, pc[v], tileAt[v])
  <2>1. /\ Announced(kernel, shared, flight, v, pc[v], tileAt[v])
        /\ Delivered(kernel, shared, v, pc[v], tileAt[v])
        /\ Phase(kernel, pc[v], tileAt[v], rowAt[v])
        /\ tileAt[v] \in Nat /\ (tileAt[v] >= 1 => tileAt[v] - 1 \in Nat)
    BY <1>1 DEF IInv, Shares, Phases
  <2>2. ASSUME NEW j \in Upcoming(kernel, pc[v], tileAt[v]), Issued(kernel, shared, flight, v, j)
        PROVE  Issued(kernel, shared', flight', v, j)
    <3>1. j \in Nat /\ (v = w => j = i \/ j = i + 1 \/ j + 1 = i)
      BY <1>1, <1>3, <2>1 DEF Upcoming
    <3> QED
      BY <1>6, <1>9, <2>2, <3>1
  <2>3. Announced(kernel, shared', flight', v, pc[v], tileAt[v])
    BY <2>1, <2>2 DEF Announced
  <2>4. ASSUME pc[v] \in {"staged", "compute"}
        PROVE  Has(kernel, shared', v, tileAt[v])
    <3>1. v = w => i = tileAt[v] + 1
      BY <1>3, <2>4 DEF Upcoming
    <3> QED
      BY <1>6, <1>9, <2>1, <2>4, <3>1 DEF Delivered
  <2>5. ASSUME pc[v] = "scored"
        PROVE  Has(kernel, shared', v, tileAt[v] - 1)
    <3>1. v = w => i = tileAt[v]
      BY <1>3, <2>5 DEF Upcoming
    <3>2. tileAt[v] - 1 \in Nat /\ (tileAt[v] - 1) + 1 = tileAt[v]
      BY <2>1, <2>5 DEF Phase
    <3>3. Has(kernel, shared, v, tileAt[v] - 1)
      BY <2>1, <2>5 DEF Delivered
    <3>4. v # w \/ Stage(kernel, tileAt[v] - 1) # Stage(kernel, i)
      BY <1>9, <3>1, <3>2
    <3> QED
      BY <1>6, <3>2, <3>3, <3>4
  \* without a barrier after a tile, the copy is of the second tile of two, or the
  \* only tile that is staged
  <2>6. ASSUME ~kernel.trailing, pc[v] \in Loading, tileAt[v] >= 1
        PROVE  Has(kernel, shared', v, tileAt[v] - 1)
    <3>1. tileAt[v] - 1 \in Nat /\ (tileAt[v] - 1) + 1 = tileAt[v]
      BY <2>1, <2>6
    <3>2. Has(kernel, shared, v, tileAt[v] - 1)
      BY <2>1, <2>6 DEF Delivered
    <3>3. v = w => i = tileAt[v] \/ i = tileAt[v] + 1
      BY <1>3, <2>1 DEF Upcoming
    <3>4. CASE v # w \/ i = tileAt[v]
      <4>1. v # w \/ Stage(kernel, tileAt[v] - 1) # Stage(kernel, i)
        BY <1>9, <3>1, <3>4
      <4> QED
        BY <1>6, <3>1, <3>2, <4>1
    <3>5. CASE v = w /\ i = tileAt[v] + 1
      <4>1. OneStaged(kernel)
        BY <1>1, <1>4, <2>1, <2>6, <3>5 DEF Guarded
      <4>2. StagedRows(kernel, i) # {}
        BY <1>3 DEF Copies
      <4>3. tileAt[v] - 1 \in 0 .. LastTile(kernel) - 1 /\ i \in 0 .. LastTile(kernel) - 1 /\ tileAt[v] - 1 # i
        BY <1>1, <1>4, <2>1, <3>1, <3>5
      <4>4. StagedRows(kernel, tileAt[v] - 1) = {}
        BY <4>1, <4>2, <4>3 DEF OneStaged
      <4> QED
        BY <4>4 DEF Has
    <3> QED
      BY <3>3, <3>4, <3>5
  <2>7. Delivered(kernel, shared', v, pc[v], tileAt[v])
    BY <2>4, <2>5, <2>6 DEF Delivered
  <2> QED
    BY <2>3, <2>7
<1>11. Shares'
  BY <1>5, <1>10 DEF Shares
<1> QED
  BY <1>7, <1>8, <1>11 DEF IInv

\* Everybody passes the barrier: what was staged can be scored.
LEMMA BarrierKeeps == ASSUME IInv, Barrier PROVE IInv'
<1> USE DEF Early, Loading
<1>1. /\ kernel \in Kernels /\ pc \in [Warps -> Places] /\ tileAt \in [Warps -> Nat] /\ rowAt \in [Warps -> Nat]
      /\ shared \in [Cells(kernel) -> Int]
      /\ LastTile(kernel) \in Nat \ {0} /\ kernel.trailing \in BOOLEAN
  BY LaunchFacts DEF IInv, TypeInv
<1>2. /\ kernel' = kernel /\ tileAt' = tileAt /\ rowAt' = rowAt /\ shared' = shared /\ flight' = flight
      /\ pc' = [w \in Warps |-> After(pc[w])]
  BY DEF Barrier
<1>3. ASSUME NEW w \in Warps
      PROVE  /\ Phase(kernel, pc[w], tileAt[w], rowAt[w]) /\ tileAt[w] \in Nat
             /\ pc'[w] = After(pc[w]) /\ rowAt[w] = 0
             /\ \/ pc[w] = "counted" /\ pc'[w] = "gather" /\ tileAt[w] = 0
                \/ pc[w] = "listed" /\ pc'[w] = "issue" /\ tileAt[w] = 0
                \/ pc[w] = "staged" /\ pc'[w] = "compute"
                \/ pc[w] = "scored" /\ pc'[w] = "issue" /\ tileAt[w] >= 1 /\ kernel.trailing
  <2>1. Phase(kernel, pc[w], tileAt[w], rowAt[w]) /\ tileAt[w] \in Nat
    BY <1>1 DEF IInv, Phases
  <2>2. pc[w] \in {"counted", "listed", "staged", "scored"} /\ pc'[w] = After(pc[w])
    BY <1>2 DEF Barrier, AtBarrier
  <2> QED
    BY <2>1, <2>2 DEF Phase, After
<1>4. TypeInv'
  <2>1. \A w \in Warps : pc'[w] \in Places
    BY <1>3 DEF Places
  <2> QED
    BY <1>1, <1>2, <2>1 DEF TypeInv
<1>5. ASSUME NEW w \in Warps
      PROVE  Phase(kernel, pc'[w], tileAt[w], rowAt[w])
  BY <1>1, <1>3, TileRowsFacts DEF Phase
<1>6. Phases'
  BY <1>2, <1>5 DEF Phases
<1>7. ASSUME NEW w \in Warps
      PROVE  Round(kernel, pc'[w], tileAt[w]) = Round(kernel, pc[w], tileAt[w]) + 1
  BY <1>1, <1>3 DEF Round
<1>8. Lockstep'
  BY <1>2, <1>7 DEF IInv, Lockstep
<1>9. ASSUME NEW w \in Warps, NEW i
      PROVE  /\ i \in Upcoming(kernel, pc[w], tileAt[w]) => i \in Upcoming(kernel, pc'[w], tileAt[w])
             /\ i \in Upcoming(kernel, pc'[w], tileAt[w]) =>
                  i \in Upcoming(kernel, pc[w], tileAt[w]) \/ (pc'[w] = "issue" /\ tileAt[w] = 0)
  BY <1>3 DEF Upcoming
<1>10. Flights'
  <2>1. SUFFICES ASSUME NEW f \in flight
                 PROVE  /\ kernel.buffers = 2
                        /\ \E w \in Warps : \E i \in Upcoming(kernel, pc'[w], tileAt[w]) : f \in Copies(kernel, w, i)
    BY <1>2 DEF Flights
  <2>2. kernel.buffers = 2
    BY DEF IInv, Flights
  <2>3. PICK w \in Warps : \E i \in Upcoming(kernel, pc[w], tileAt[w]) : f \in Copies(kernel, w, i)
    BY DEF IInv, Flights
  <2> QED
    BY <1>9, <2>2, <2>3
<1>11. ASSUME NEW w \in Warps
       PROVE  /\ Announced(kernel, shared, flight, w, pc'[w], tileAt[w])
              /\ Delivered(kernel, shared, w, pc'[w], tileAt[w])
  <2>1. /\ Announced(kernel, shared, flight, w, pc[w], tileAt[w])
        /\ Delivered(kernel, shared, w, pc[w], tileAt[w])
    BY DEF IInv, Shares
  <2>2. Announced(kernel, shared, flight, w, pc'[w], tileAt[w])
    BY <1>3, <1>9, <2>1 DEF Announced
  <2>3. Delivered(kernel, shared, w, pc'[w], tileAt[w])
    BY <1>3, <2>1 DEF Delivered
  <2> QED
    BY <2>2, <2>3
<1>12. Shares'
  BY <1>2, <1>11 DEF Shares
<1> QED
  BY <1>4, <1>6, <1>8, <1>10, <1>12 DEF IInv

LEMMA NextKeeps == ASSUME IInv, [TileNext]_tileVars, Guarded(kernel) PROVE IInv'
<1>1. CASE Barrier
  BY <1>1, BarrierKeeps
<1>2. ASSUME NEW w \in Warps, Count(w) PROVE IInv'
  BY <1>2, CountKeeps
<1>3. ASSUME NEW w \in Warps, Gather(w) PROVE IInv'
  BY <1>3, GatherKeeps
<1>4. ASSUME NEW w \in Warps, CopyTile(w) PROVE IInv'
  BY <1>4, CopyTileKeeps
<1>5. ASSUME NEW w \in Warps, IssueAsync(w) PROVE IInv'
  BY <1>5, IssueAsyncKeeps
<1>6. ASSUME NEW w \in Warps, WaitPrior(w) PROVE IInv'
  BY <1>6, WaitPriorKeeps
<1>7. ASSUME NEW w \in Warps, Compute(w) PROVE IInv'
  BY <1>7, ComputeKeeps
<1>8. ASSUME NEW f \in flight, Land(f) PROVE IInv'
  BY <1>8, LandKeeps
<1>9. CASE UNCHANGED tileVars
  BY <1>9 DEF tileVars, IInv, TypeInv, Phases, Lockstep, Flights, Shares
<1> QED
  BY <1>1, <1>2, <1>3, <1>4, <1>5, <1>6, <1>7, <1>8, <1>9 DEF TileNext

(***************************************************************************)
(* The theorems                                                            *)
(***************************************************************************)
\* A warp scores a row while all others are in the same round, so that none of
\* them has started to fill the stage anew.
LEMMA IntactByInvariant == ASSUME IInv, Guarded(kernel) PROVE TilesIntact
<1> SUFFICES ASSUME NEW w \in Warps, pc[w] = "compute",
                    rowAt[w] \in StagedRows(kernel, tileAt[w]), NEW share \in Warps
             PROVE  shared[<<Stage(kernel, tileAt[w]), rowAt[w], share>>] = TileRows(kernel, tileAt[w])[rowAt[w]]
  BY DEF TilesIntact
<1>1. /\ kernel \in Kernels /\ kernel.trailing \in BOOLEAN
      /\ tileAt[w] \in Nat /\ tileAt[share] \in Nat /\ pc[share] \in Places
  BY LaunchFacts DEF IInv, TypeInv
<1>2. /\ Phase(kernel, pc[share], tileAt[share], rowAt[share])
      /\ Delivered(kernel, shared, share, pc[share], tileAt[share])
      /\ Round(kernel, pc[share], tileAt[share]) = Round(kernel, pc[w], tileAt[w])
  BY DEF IInv, Phases, Shares, Lockstep
<1>3. \/ pc[share] = "compute" /\ tileAt[share] = tileAt[w]
      \/ pc[share] = "scored" /\ tileAt[share] - 1 = tileAt[w]
      \/ ~kernel.trailing /\ pc[share] \in Loading /\ tileAt[share] >= 1 /\ tileAt[share] - 1 = tileAt[w]
  BY <1>1, <1>2 DEF Round, Places, Early, Loading, Phase
<1>4. Has(kernel, shared, share, tileAt[w])
  BY <1>2, <1>3 DEF Delivered
<1> QED
  BY <1>4 DEF Has

\* The invariant of a launch whose warps cannot run ahead of a stage still in use.
THEOREM IInvAlways ==
  ASSUME \A k \in Kernels : Guarded(k)
  PROVE  TileSpec => []IInv
<1>1. TileInit => IInv
  BY Initially
<1>2. IInv /\ [TileNext]_tileVars => IInv'
  <2>1. IInv => Guarded(kernel)
    BY DEF IInv, TypeInv
  <2> QED
    BY <2>1, NextKeeps
<1> QED
  BY <1>1, <1>2, PTL DEF TileSpec

\* The kernels that stage rows in shared memory (ds4_cuda_attention.cuh,
\* turbo4_attention.cuh): with a barrier after every tile, or stages that are
\* used once, the row a warp scores stays whole, for any number of warps, rows,
\* tiles and passes.
THEOREM RowsStayWhole ==
  ASSUME \A k \in Kernels : Guarded(k)
  PROVE  TileSpec => []TilesIntact
<1>1. IInv => TilesIntact
  <2>1. IInv => Guarded(kernel)
    BY DEF IInv, TypeInv
  <2> QED
    BY <2>1, IntactByInvariant
<1>2. TileSpec => []IInv
  BY IInvAlways
<1> QED
  BY <1>1, <1>2, PTL

-----------------------------------------------------------------------------
(* The rows the indexer hides. *)


IndexerLaunches == [n_comp : Nat, n_tokens : Nat, pos0 : Nat, ratio : Nat \ {0}, causal : BOOLEAN]

\* row c of ratio positions each is complete before position p iff p / ratio > c
LEMMA CompleteRows ==
  ASSUME NEW p \in Nat, NEW r \in Nat \ {0}, NEW c \in Nat
  PROVE  c >= p \div r <=> (c + 1) * r > p
<1> DEFINE q == p \div r
<1>1. q \in Nat /\ r * q <= p /\ p < r * q + r
  OBVIOUS
<1>2. CASE c >= q
  <2>1. r * c >= r * q
    BY <1>1, <1>2
  <2>2. (c + 1) * r = r * c + r
    OBVIOUS
  <2> QED
    BY <1>1, <1>2, <2>1, <2>2
<1>3. CASE c < q
  <2>1. c + 1 <= q
    BY <1>1, <1>3
  <2>2. r * (c + 1) <= r * q
    BY <1>1, <2>1
  <2>3. (c + 1) * r = r * (c + 1)
    OBVIOUS
  <2> QED
    BY <1>1, <1>3, <2>2, <2>3
<1> QED
  BY <1>1, <1>2, <1>3

LEMMA QuotientMonotone ==
  ASSUME NEW a \in Nat, NEW b \in Nat, NEW r \in Nat \ {0}, a <= b
  PROVE  a \div r <= b \div r
<1> DEFINE q == a \div r
           s == b \div r
<1>1. /\ q \in Nat /\ r * q <= a
      /\ s \in Nat /\ b < r * s + r
  OBVIOUS
<1>2. SUFFICES ASSUME q >= s + 1 PROVE FALSE
  BY <1>1
<1>3. r * q >= r * (s + 1)
  BY <1>1, <1>2
<1>4. r * (s + 1) = r * s + r
  BY <1>1
<1> QED
  BY <1>1, <1>3, <1>4

LEMMA TileStart ==
  ASSUME NEW c \in Nat
  PROVE  LET first == (c \div TileSize) * TileSize
         IN first \in Nat /\ first <= c /\ c < first + TileSize
<1>1. TileSize \in Nat \ {0}
  BY TopKAssumption
<1> DEFINE q == c \div TileSize
<1>2. q \in Nat /\ TileSize * q <= c /\ c < TileSize * q + TileSize
  BY <1>1
<1>3. q * TileSize = TileSize * q /\ q * TileSize \in Nat
  BY <1>1, <1>2
<1> QED
  BY <1>2, <1>3

\* indexer_scores_launch(): whichever kernel a launch takes, a token is shown the
\* rows that are complete at its position and no other.
THEOREM EveryKernelCausal ==
  ASSUME NEW l \in IndexerLaunches, NEW opt
  PROVE  ScoresCausal(l, opt)
<1> SUFFICES ASSUME NEW t \in 0 .. l.n_tokens - 1, NEW c \in 0 .. l.n_comp - 1
             PROVE  ScoreOf(l, opt, t, c, 0) = Hidden <=> l.causal /\ (c + 1) * l.ratio > l.pos0 + t + 1
  BY DEF ScoresCausal
<1> DEFINE visible == (l.pos0 + t + 1) \div l.ratio
<1>1. /\ l.n_comp \in Nat /\ l.n_tokens \in Nat /\ l.pos0 \in Nat /\ l.ratio \in Nat \ {0} /\ l.causal \in BOOLEAN
      /\ t \in Nat /\ c \in Nat /\ t < l.n_tokens /\ c < l.n_comp
  BY DEF IndexerLaunches
<1>2. c >= visible <=> (c + 1) * l.ratio > l.pos0 + t + 1
  <2> DEFINE p == l.pos0 + t + 1
             r == l.ratio
  <2>1. p \in Nat /\ r \in Nat \ {0} /\ c \in Nat
    BY <1>1
  <2> HIDE DEF p, r
  <2>2. c >= p \div r <=> (c + 1) * r > p
    BY <2>1, CompleteRows
  <2> QED
    BY <2>2 DEF p, r
<1>3. visible \in Nat /\ (0 = Hidden) = FALSE
  BY <1>1 DEF Hidden
<1>4. ScorePlain(l, t, c, 0) = Hidden <=> l.causal /\ c >= visible
  BY <1>3 DEF ScorePlain
<1>5. l.n_tokens = 1 => (ScoreDirect(l, c, 0) = Hidden <=> l.causal /\ c >= visible)
  <2>1. ASSUME l.n_tokens = 1
        PROVE  t = 0 /\ l.pos0 + t + 1 = l.pos0 + 1
    BY <1>1, <2>1
  <2> QED
    BY <1>1, <1>3, <2>1 DEF ScoreDirect
<1>6. ScoreTile(l, t, c, 0) = Hidden <=> l.causal /\ c >= visible
  <2> DEFINE tile_t == (t \div TileSize) * TileSize
             tile_c == (c \div TileSize) * TileSize
             last == Smaller(tile_t + TileSize, l.n_tokens)
             shown == Smaller((l.pos0 + last) \div l.ratio, l.n_comp)
  <2>1. /\ TileSize \in Nat \ {0} /\ tile_t \in Nat /\ tile_c \in Nat
        /\ tile_t <= t /\ t < tile_t + TileSize /\ tile_c <= c
    BY <1>1, TopKAssumption, TileStart
  <2> HIDE DEF tile_t, tile_c, visible
  <2>2. last \in Nat /\ last > tile_t /\ t + 1 <= last
    BY <1>1, <2>1 DEF Smaller
  <2> HIDE DEF last
  <2>3. visible <= (l.pos0 + last) \div l.ratio
    <3> DEFINE a == l.pos0 + t + 1
               b == l.pos0 + last
               r == l.ratio
    <3>1. a \in Nat /\ b \in Nat /\ a <= b /\ r \in Nat \ {0}
      BY <1>1, <2>2
    <3> HIDE DEF a, b, r
    <3>2. a \div r <= b \div r
      BY <3>1, QuotientMonotone
    <3> QED
      BY <3>2 DEF visible, a, b, r
  <2>4. (l.pos0 + last) \div l.ratio \in Nat
    BY <1>1, <2>2
  <2>5. tile_c >= shown => c >= visible
    BY <1>1, <1>3, <2>1, <2>3, <2>4 DEF Smaller
  <2>6. ScoreTile(l, t, c, 0) =
          IF l.causal /\ tile_c >= shown THEN Hidden ELSE IF l.causal /\ c >= visible THEN Hidden ELSE 0
    BY <2>2 DEF ScoreTile, last, tile_t, tile_c, visible
  <2> QED
    BY <1>3, <2>5, <2>6
<1> HIDE DEF visible
<1> QED
  BY <1>2, <1>4, <1>5, <1>6 DEF ScoreOf

-----------------------------------------------------------------------------
(* The layout of a packed row. *)

\* The block of value d, among the blocks of n values.
LEMMA BlockOfValue ==
  ASSUME NEW n \in Nat, NEW d \in 0 .. n - 1
  PROVE  /\ d \div BlockLen \in 0 .. Blocks(n) - 1
         /\ \A b \in Nat : d \in BlockValues(n, b) <=> b = d \div BlockLen
<1> DEFINE q == d \div BlockLen
           r == d % BlockLen
           m == Blocks(n)
<1>1. BlockLen \in Nat \ {0}
  BY BlockAssumption
<1>2. q \in Nat /\ r \in 0 .. BlockLen - 1 /\ d = BlockLen * q + r
  BY <1>1
<1>3. m \in Int /\ BlockLen * m <= n + BlockLen - 1 /\ n + BlockLen - 1 < BlockLen * m + BlockLen
  BY <1>1 DEF Blocks
<1> HIDE DEF q, r, m
<1>4. q < m
  <2>1. SUFFICES ASSUME m <= q PROVE FALSE
    BY <1>2, <1>3
  <2>2. BlockLen * m <= BlockLen * q
    BY <1>1, <1>2, <1>3, <2>1
  <2> QED
    BY <1>1, <1>2, <1>3, <2>2
<1>5. ASSUME NEW b \in Nat, NEW i \in 0 .. BlockLen - 1, d = b * BlockLen + i PROVE b = q
  <2>1. b * BlockLen = BlockLen * b /\ BlockLen * b \in Int /\ BlockLen * q \in Int
    BY <1>1, <1>2
  <2>2. CASE b < q
    <3>1. BlockLen * (b + 1) <= BlockLen * q /\ BlockLen * (b + 1) = BlockLen * b + BlockLen
      BY <1>1, <1>2, <2>2
    <3> QED
      BY <1>1, <1>2, <1>5, <2>1, <3>1
  <2>3. CASE q < b
    <3>1. BlockLen * (q + 1) <= BlockLen * b /\ BlockLen * (q + 1) = BlockLen * q + BlockLen
      BY <1>1, <1>2, <2>3
    <3> QED
      BY <1>1, <1>2, <1>5, <2>1, <3>1
  <2> QED
    BY <1>2, <2>2, <2>3
<1>6. d = q * BlockLen + r
  BY <1>1, <1>2
<1>7. d \in BlockValues(n, q)
  BY <1>2, <1>6 DEF BlockValues
<1>8. \A b \in Nat : d \in BlockValues(n, b) => b = q
  BY <1>5 DEF BlockValues
<1> QED
  BY <1>2, <1>3, <1>4, <1>7, <1>8 DEF q, m

\* Where a row of n values and r rotated ones has its sections.
RotatedAt(n) == n + Blocks(n) + 1

\* The four kinds of bytes the pack kernels write.
IsStore(n, r, s) ==
  \/ \E b \in 0 .. Blocks(n) - 1 : s = <<n + b, <<"scale", b>>>>
  \/ \E d \in 0 .. n - 1 : s = <<d, <<"e4m3", d, d \div BlockLen>>>>
  \/ \E i \in 0 .. r - 1 : s = <<RotatedAt(n) + 2 * i, <<"bf16 low", n + i>>>>
  \/ \E i \in 0 .. r - 1 : s = <<RotatedAt(n) + 2 * i + 1, <<"bf16 high", n + i>>>>

LEMMA StoreKinds ==
  ASSUME NEW h \in Nat, NEW r \in Nat, r <= h
  PROVE  \A s : s \in PackStores(h, r) <=> IsStore(h - r, r, s)
<1> DEFINE n == h - r
<1>1. n \in Nat
  OBVIOUS
<1>2. ASSUME NEW s
      PROVE  s \in UNION {{<<d, <<"e4m3", d, b>>>> : d \in BlockValues(n, b)} : b \in 0 .. Blocks(n) - 1}
             <=> \E d \in 0 .. n - 1 : s = <<d, <<"e4m3", d, d \div BlockLen>>>>
  <2>1. ASSUME NEW b \in 0 .. Blocks(n) - 1, NEW d \in BlockValues(n, b)
        PROVE  d \in 0 .. n - 1 /\ b = d \div BlockLen
    <3>1. d \in 0 .. n - 1
      BY DEF BlockValues
    <3> QED
      BY <1>1, <3>1, BlockOfValue
  <2>2. \A d \in 0 .. n - 1 :
          /\ d \div BlockLen \in 0 .. Blocks(n) - 1
          /\ d \in BlockValues(n, d \div BlockLen)
    BY <1>1, BlockOfValue
  <2> HIDE DEF n
  <2> QED
    BY <2>1, <2>2
<1>3. ASSUME NEW s
      PROVE  s \in UNION {{<<RotatedAt(n) + 2 * i, <<"bf16 low", n + i>>>>,
                           <<RotatedAt(n) + 2 * i + 1, <<"bf16 high", n + i>>>>} : i \in 0 .. r - 1}
             <=> \E i \in 0 .. r - 1 : \/ s = <<RotatedAt(n) + 2 * i, <<"bf16 low", n + i>>>>
                                      \/ s = <<RotatedAt(n) + 2 * i + 1, <<"bf16 high", n + i>>>>
  OBVIOUS
<1>4. ASSUME NEW s
      PROVE  s \in {<<n + b, <<"scale", b>>>> : b \in 0 .. Blocks(n) - 1}
             <=> \E b \in 0 .. Blocks(n) - 1 : s = <<n + b, <<"scale", b>>>>
  OBVIOUS
<1> DEFINE Scales == {<<n + b, <<"scale", b>>>> : b \in 0 .. Blocks(n) - 1}
           Values == UNION {{<<d, <<"e4m3", d, b>>>> : d \in BlockValues(n, b)} : b \in 0 .. Blocks(n) - 1}
           Halves == UNION {{<<RotatedAt(n) + 2 * i, <<"bf16 low", n + i>>>>,
                             <<RotatedAt(n) + 2 * i + 1, <<"bf16 high", n + i>>>>} : i \in 0 .. r - 1}
<1>5. PackStores(h, r) = (Scales \cup Values) \cup Halves
  BY DEF PackStores, RotatedAt
<1> SUFFICES ASSUME NEW s PROVE s \in PackStores(h, r) <=> IsStore(n, r, s)
  BY DEF n
<1> DEFINE SomeScale == \E b \in 0 .. Blocks(n) - 1 : s = <<n + b, <<"scale", b>>>>
           SomeValue == \E d \in 0 .. n - 1 : s = <<d, <<"e4m3", d, d \div BlockLen>>>>
           Low(i) == s = <<RotatedAt(n) + 2 * i, <<"bf16 low", n + i>>>>
           High(i) == s = <<RotatedAt(n) + 2 * i + 1, <<"bf16 high", n + i>>>>
<1>6. s \in PackStores(h, r) <=> SomeScale \/ SomeValue \/ \E i \in 0 .. r - 1 : Low(i) \/ High(i)
  <2>1. s \in Scales <=> SomeScale
    BY <1>4
  <2>2. s \in Values <=> SomeValue
    BY <1>2
  <2>3. s \in Halves <=> \E i \in 0 .. r - 1 : Low(i) \/ High(i)
    BY <1>3
  <2> HIDE DEF Scales, Values, Halves, SomeScale, SomeValue, Low, High
  <2> QED
    BY <1>5, <2>1, <2>2, <2>3
<1>7. IsStore(n, r, s) <=>
        SomeScale \/ SomeValue \/ (\E i \in 0 .. r - 1 : Low(i)) \/ (\E i \in 0 .. r - 1 : High(i))
  BY DEF IsStore
<1> HIDE DEF SomeScale, SomeValue, Low, High, n
<1> QED
  BY <1>6, <1>7

\* The sections do not overlap: an offset says which byte is written there, and
\* only the padding byte is not.
Written(n, r) == (0 .. RotatedAt(n) + 2 * r - 1) \ {n + Blocks(n)}
Rotated(n, at) == n + (at - RotatedAt(n)) \div 2
StoreAt(n, at) ==
  << at,
     IF at < n THEN <<"e4m3", at, at \div BlockLen>>
     ELSE IF at < n + Blocks(n) THEN <<"scale", at - n>>
     ELSE IF (at - RotatedAt(n)) % 2 = 0 THEN <<"bf16 low", Rotated(n, at)>>
     ELSE <<"bf16 high", Rotated(n, at)>> >>

LEMMA BlocksNat ==
  ASSUME NEW n \in Nat
  PROVE  Blocks(n) \in Nat /\ RotatedAt(n) = n + Blocks(n) + 1 /\ RotatedAt(n) \in Nat \ {0}
<1> DEFINE m == Blocks(n)
<1>1. BlockLen \in Nat \ {0}
  BY BlockAssumption
<1>2. m \in Int /\ n + BlockLen - 1 < BlockLen * m + BlockLen
  BY <1>1 DEF Blocks
<1> HIDE DEF m
<1>3. m >= 0
  <2>1. SUFFICES ASSUME m <= -1 PROVE FALSE
    BY <1>2
  <2>2. BlockLen * m <= -BlockLen
    BY <1>1, <1>2, <2>1
  <2> QED
    BY <1>1, <1>2, <2>2
<1> QED
  BY <1>2, <1>3 DEF m, RotatedAt

LEMMA StoresByOffset ==
  ASSUME NEW n \in Nat, NEW r \in Nat, NEW s
  PROVE  IsStore(n, r, s) <=> \E at \in Written(n, r) : s = StoreAt(n, at)
<1> DEFINE m == Blocks(n)
           R == RotatedAt(n)
<1>1. m \in Nat /\ R = n + m + 1 /\ R \in Nat
  BY BlocksNat
<1> HIDE DEF m, R
<1>2. ASSUME NEW b \in 0 .. m - 1
      PROVE  n + b \in Written(n, r) /\ StoreAt(n, n + b) = <<n + b, <<"scale", b>>>>
  <2>1. n + b < n + m /\ ~(n + b < n) /\ n + b # n + m /\ (n + b) - n = b /\ n + b \in 0 .. R + 2 * r - 1
    BY <1>1
  <2> QED
    BY <2>1 DEF Written, StoreAt, m, R
<1>3. ASSUME NEW d \in 0 .. n - 1
      PROVE  d \in Written(n, r) /\ StoreAt(n, d) = <<d, <<"e4m3", d, d \div BlockLen>>>>
  <2>1. d < n /\ d # n + m /\ d \in 0 .. R + 2 * r - 1
    BY <1>1
  <2> QED
    BY <2>1 DEF Written, StoreAt, m, R
<1>4. ASSUME NEW i \in 0 .. r - 1
      PROVE  R + 2 * i \in Written(n, r) /\ StoreAt(n, R + 2 * i) = <<R + 2 * i, <<"bf16 low", n + i>>>>
  <2>1. /\ ~(R + 2 * i < n) /\ ~(R + 2 * i < n + m) /\ R + 2 * i # n + m /\ R + 2 * i \in 0 .. R + 2 * r - 1
        /\ (R + 2 * i) - R = 2 * i /\ (2 * i) % 2 = 0 /\ (2 * i) \div 2 = i
    BY <1>1
  <2> QED
    BY <2>1 DEF Written, StoreAt, Rotated, m, R
<1>5. ASSUME NEW i \in 0 .. r - 1
      PROVE  /\ R + 2 * i + 1 \in Written(n, r)
             /\ StoreAt(n, R + 2 * i + 1) = <<R + 2 * i + 1, <<"bf16 high", n + i>>>>
  <2>1. /\ ~(R + 2 * i + 1 < n) /\ ~(R + 2 * i + 1 < n + m) /\ R + 2 * i + 1 # n + m
        /\ R + 2 * i + 1 \in 0 .. R + 2 * r - 1
        /\ (R + 2 * i + 1) - R = 2 * i + 1 /\ (2 * i + 1) % 2 = 1 /\ (2 * i + 1) \div 2 = i
    BY <1>1
  <2>2. ((R + 2 * i + 1) - R) % 2 # 0 /\ n + ((R + 2 * i + 1) - R) \div 2 = n + i
    BY <2>1
  <2>3. R + 2 * i + 1 \in Written(n, r)
    BY <2>1 DEF Written, m, R
  <2> DEFINE at == R + 2 * i + 1
  <2>4. ~(at < n) /\ ~(at < n + m) /\ (at - R) % 2 # 0 /\ n + (at - R) \div 2 = n + i
    BY <2>1, <2>2
  <2> HIDE DEF at
  <2>5. StoreAt(n, at) = <<at, <<"bf16 high", n + i>>>>
    BY <2>4 DEF StoreAt, Rotated, m, R
  <2> QED
    BY <2>3, <2>5 DEF at
<1>6. ASSUME NEW at \in Written(n, r)
      PROVE  \/ at \in 0 .. n - 1
             \/ \E b \in 0 .. m - 1 : at = n + b
             \/ \E i \in 0 .. r - 1 : at = R + 2 * i \/ at = R + 2 * i + 1
  <2>1. at \in 0 .. R + 2 * r - 1 /\ at # n + m
    BY DEF Written, m, R
  <2>2. CASE at \in n .. n + m - 1
    <3>1. at - n \in 0 .. m - 1 /\ at = n + (at - n)
      BY <1>1, <2>2
    <3> QED
      BY <3>1
  <2>3. CASE at >= R
    <3> DEFINE i == (at - R) \div 2
    <3>1. i \in 0 .. r - 1 /\ (at = R + 2 * i \/ at = R + 2 * i + 1)
      BY <1>1, <2>1, <2>3
    <3> QED
      BY <3>1
  <2> QED
    BY <1>1, <2>1, <2>2, <2>3
<1>7. IsStore(n, r, s) <=>
        \/ \E b \in 0 .. m - 1 : s = <<n + b, <<"scale", b>>>>
        \/ \E d \in 0 .. n - 1 : s = <<d, <<"e4m3", d, d \div BlockLen>>>>
        \/ \E i \in 0 .. r - 1 : s = <<R + 2 * i, <<"bf16 low", n + i>>>>
        \/ \E i \in 0 .. r - 1 : s = <<R + 2 * i + 1, <<"bf16 high", n + i>>>>
  BY DEF IsStore, m, R
<1>8. IsStore(n, r, s) => \E at \in Written(n, r) : s = StoreAt(n, at)
  BY <1>2, <1>3, <1>4, <1>5, <1>7
<1>9. ASSUME NEW at \in Written(n, r), s = StoreAt(n, at) PROVE IsStore(n, r, s)
  <2>1. CASE at \in 0 .. n - 1
    BY <1>3, <1>7, <1>9, <2>1
  <2>2. ASSUME NEW b \in 0 .. m - 1, at = n + b PROVE IsStore(n, r, s)
    BY <1>2, <1>7, <1>9, <2>2
  <2>3. ASSUME NEW i \in 0 .. r - 1, at = R + 2 * i \/ at = R + 2 * i + 1 PROVE IsStore(n, r, s)
    BY <1>4, <1>5, <1>7, <1>9, <2>3
  <2> QED
    BY <1>6, <2>1, <2>2, <2>3
<1> QED
  BY <1>8, <1>9

\* What is read at an offset.
LEMMA ByteRead ==
  ASSUME NEW h \in Nat, NEW r \in Nat, r <= h, NEW at \in Written(h - r, r)
  PROVE  MeaningAt(PackStores(h, r), at) = {StoreAt(h - r, at)[2]}
<1> DEFINE n == h - r
           stores == PackStores(h, r)
<1>1. n \in Nat
  OBVIOUS
<1> HIDE DEF n
<1>2. \A s : s \in stores <=> \E a \in Written(n, r) : s = StoreAt(n, a)
  BY <1>1, StoreKinds, StoresByOffset DEF n
<1>3. \A a : StoreAt(n, a)[1] = a
  BY DEF StoreAt
<1> HIDE DEF stores
<1>4. at \in Written(n, r)
  BY DEF n
<1>5. {q \in stores : q[1] = at} = {StoreAt(n, at)}
  BY <1>2, <1>3, <1>4
<1> QED
  BY <1>5 DEF MeaningAt, stores, n

LEMMA OneByteEach ==
  ASSUME NEW h \in Nat, NEW r \in Nat, r <= h
  PROVE  LET stores == PackStores(h, r) IN Cardinality({s[1] : s \in stores}) = Cardinality(stores)
<1> DEFINE n == h - r
           stores == PackStores(h, r)
           offsets == {s[1] : s \in stores}
           f == [at \in Written(n, r) |-> StoreAt(n, at)]
<1>1. n \in Nat
  OBVIOUS
<1> HIDE DEF n
<1>2. \A s : s \in stores <=> \E a \in Written(n, r) : s = StoreAt(n, a)
  BY <1>1, StoreKinds, StoresByOffset DEF n
<1>3. \A a : StoreAt(n, a)[1] = a
  BY DEF StoreAt
<1> HIDE DEF stores
<1>4. offsets = Written(n, r)
  BY <1>2, <1>3
<1>5. IsFiniteSet(Written(n, r))
  <2>1. RotatedAt(n) + 2 * r - 1 \in Int
    BY <1>1, BlocksNat
  <2>2. IsFiniteSet(0 .. RotatedAt(n) + 2 * r - 1)
    BY <2>1, FS_Interval
  <2> QED
    BY <2>2, FS_Subset DEF Written
<1>6. f \in Bijection(Written(n, r), stores)
  BY <1>2, <1>3 DEF Bijection, Injection, Surjection, IsInjective
<1>7. Cardinality(stores) = Cardinality(Written(n, r))
  BY <1>5, <1>6, FS_Bijection DEF ExistsBijection
<1> QED
  BY <1>4, <1>7 DEF stores

\* turbo4_row_bytes() and _t4_row_stride() round up to 8 bytes in two ways.
LEMMA RoundedAlike ==
  ASSUME NEW total \in Nat
  PROVE  /\ total + ((8 - (total % 8)) % 8) = ((total + 7) \div 8) * 8
         /\ total <= ((total + 7) \div 8) * 8
OBVIOUS

LEMMA UnpackedFrom ==
  ASSUME NEW h \in Nat, NEW r \in Nat, r <= h, NEW dim \in 0 .. h - 1
  PROVE  <<dim, Elem(h, r, dim)>> \in UnpackReads(h, r)
<1> DEFINE n == h - r
           b == dim \div BlockLen
           At(i) == <<RotatedAt(n) + 2 * i, RotatedAt(n) + 2 * i + 1>>
           Read(c) == {<<d, <<d, n + c>>>> : d \in BlockValues(n, c)}
<1>1. n \in Nat
  OBVIOUS
<1>2. UnpackReads(h, r) = (UNION {Read(c) : c \in 0 .. Blocks(n) - 1}) \cup {<<n + i, At(i)>> : i \in 0 .. r - 1}
  BY DEF UnpackReads, RotatedAt
<1>3. CASE dim < n
  <2>1. b \in 0 .. Blocks(n) - 1 /\ dim \in BlockValues(n, b)
    BY <1>1, <1>3, BlockOfValue
  <2>2. Elem(h, r, dim) = <<dim, n + b>>
    BY <1>3 DEF Elem
  <2>3. <<dim, <<dim, n + b>>>> \in Read(b)
    BY <2>1
  <2> HIDE DEF n, b, At, Read
  <2>4. <<dim, <<dim, n + b>>>> \in UNION {Read(c) : c \in 0 .. Blocks(n) - 1}
    BY <2>1, <2>3
  <2> QED
    BY <1>2, <2>2, <2>4
<1>4. CASE ~(dim < n)
  <2>1. Elem(h, r, dim) = At(dim - n)
    BY <1>4 DEF Elem, RotatedAt
  <2>2. dim - n \in 0 .. r - 1 /\ n + (dim - n) = dim
    BY <1>1, <1>4
  <2> HIDE DEF n, At, Read
  <2>3. <<n + (dim - n), At(dim - n)>> \in {<<n + i, At(i)>> : i \in 0 .. r - 1}
    BY <2>2
  <2> QED
    <3>1. <<dim, At(dim - n)>> \in {<<n + i, At(i)>> : i \in 0 .. r - 1}
      BY <2>2, <2>3
    <3> QED
      BY <1>2, <2>1, <3>1
<1> QED
  BY <1>3, <1>4

\* ds4_turbo4.cu and turbo4_attention.cuh compute the offsets of a packed row five
\* times: for every block size, width of a row and number of rotated values, each
\* value is read from the bytes written for it and the scale of its own block, no
\* byte is written twice or beyond the row, rows lie where the reader looks for
\* them, and the two-byte loads are aligned when values and scales are odd in
\* number.
THEOREM RowsReadBack ==
  ASSUME NEW h \in Nat, NEW r \in Nat, r <= h
  PROVE  PackedReadsBack(h, r)
<1> DEFINE n == h - r
           stores == PackStores(h, r)
           R == RotatedAt(n)
           m == Blocks(n)
<1>1. n \in Nat /\ m \in Nat /\ R = n + m + 1 /\ R \in Nat
  BY BlocksNat
<1>2. ASSUME NEW dim \in 0 .. h - 1
      PROVE  Meaning(stores, Elem(h, r, dim)) = Wanted(h, r, dim)
  <2>1. CASE dim < n
    <3> DEFINE b == dim \div BlockLen
    <3>1. b \in 0 .. m - 1
      BY <1>1, <2>1, BlockOfValue
    <3>2. Elem(h, r, dim) = <<dim, n + b>>
      BY <2>1 DEF Elem
    <3>3. Wanted(h, r, dim) = <<{<<"e4m3", dim, b>>}, {<<"scale", b>>}>>
      BY <2>1 DEF Wanted
    <3>4. {dim, n + b} \subseteq Written(n, r)
      <4> HIDE DEF n, m, R, b
      <4>1. dim \in 0 .. R + 2 * r - 1 /\ n + b \in 0 .. R + 2 * r - 1 /\ dim # n + m /\ n + b # n + m
        BY <1>1, <2>1, <3>1
      <4> QED
        BY <4>1 DEF Written, m, R
    <3>5. MeaningAt(stores, dim) = {StoreAt(n, dim)[2]} /\ MeaningAt(stores, n + b) = {StoreAt(n, n + b)[2]}
      BY <3>4, ByteRead
    <3>6. StoreAt(n, dim)[2] = <<"e4m3", dim, b>>
      BY <2>1 DEF StoreAt
    <3>7. StoreAt(n, n + b)[2] = <<"scale", b>>
      <4> HIDE DEF n, m, b
      <4>1. ~(n + b < n) /\ n + b < n + m /\ (n + b) - n = b
        BY <1>1, <3>1
      <4> QED
        BY <4>1 DEF StoreAt, m
    <3> HIDE DEF n, b, stores
    <3> QED
      BY <3>2, <3>3, <3>5, <3>6, <3>7 DEF Meaning
  <2>2. CASE ~(dim < n)
    <3> DEFINE i == dim - n
               lo == R + 2 * i
               hi == R + 2 * i + 1
    <3>1. i \in 0 .. r - 1 /\ n + i = dim
      BY <1>1, <2>2
    <3>2. Elem(h, r, dim) = <<lo, hi>>
      BY <2>2 DEF Elem, RotatedAt
    <3>3. Wanted(h, r, dim) = <<{<<"bf16 low", dim>>}, {<<"bf16 high", dim>>}>>
      BY <2>2 DEF Wanted
    <3>4. /\ lo \in 0 .. R + 2 * r - 1 /\ hi \in 0 .. R + 2 * r - 1 /\ lo # n + m /\ hi # n + m
          /\ ~(lo < n) /\ ~(hi < n) /\ ~(lo < n + m) /\ ~(hi < n + m)
          /\ lo - R = 2 * i /\ hi - R = 2 * i + 1
      <4> HIDE DEF n, m, R, i
      <4> QED
        BY <1>1, <3>1
    <3>5. /\ (lo - R) % 2 = 0 /\ (hi - R) % 2 # 0
          /\ n + (lo - R) \div 2 = dim /\ n + (hi - R) \div 2 = dim
      <4>1. (2 * i) % 2 = 0 /\ (2 * i + 1) % 2 # 0 /\ (2 * i) \div 2 = i /\ (2 * i + 1) \div 2 = i
        <5> HIDE DEF i
        <5> QED
          BY <3>1
      <4> HIDE DEF lo, hi, i
      <4> QED
        BY <3>1, <3>4, <4>1
    <3> HIDE DEF lo, hi, i
    <3>6. {lo, hi} \subseteq Written(n, r)
      BY <3>4 DEF Written
    <3>7. MeaningAt(stores, lo) = {StoreAt(n, lo)[2]} /\ MeaningAt(stores, hi) = {StoreAt(n, hi)[2]}
      BY <3>6, ByteRead
    <3>8. StoreAt(n, lo)[2] = <<"bf16 low", dim>> /\ StoreAt(n, hi)[2] = <<"bf16 high", dim>>
      BY <3>4, <3>5 DEF StoreAt, Rotated
    <3>9. Meaning(stores, <<lo, hi>>) = <<MeaningAt(stores, lo), MeaningAt(stores, hi)>>
      BY DEF Meaning
    <3> HIDE DEF n, stores
    <3> QED
      BY <3>2, <3>3, <3>7, <3>8, <3>9
  <2> QED
    BY <2>1, <2>2
<1>3. \A dim \in 0 .. h - 1 : PackedElem(h, r, dim) = Elem(h, r, dim)
  BY DEF PackedElem, Elem
<1> DEFINE total == n + m + 1 + 2 * r
<1>4. total \in Nat
  <2> HIDE DEF n, m
  <2> QED
    BY <1>1
<1>5. RowBytes(h, r) = ((total + 7) \div 8) * 8 /\ RowStride(h, r) = total + ((8 - (total % 8)) % 8)
  BY DEF RowBytes, RowStride
<1>6. RowStride(h, r) = RowBytes(h, r) /\ total <= RowBytes(h, r) /\ RowBytes(h, r) \in Nat
  <2> HIDE DEF total
  <2> QED
    BY <1>4, <1>5, RoundedAlike
<1>7. \A s \in stores : s[1] < RowBytes(h, r)
  <2> SUFFICES ASSUME NEW s \in stores PROVE s[1] < RowBytes(h, r)
    OBVIOUS
  <2>1. PICK at \in Written(n, r) : s = StoreAt(n, at)
    BY <1>1, StoreKinds, StoresByOffset
  <2>2. s[1] = at
    BY <2>1 DEF StoreAt
  <2>3. at \in 0 .. R + 2 * r - 1
    BY DEF Written
  <2> HIDE DEF n, m, R
  <2>4. at < total
    BY <1>1, <2>3
  <2> HIDE DEF total
  <2> QED
    BY <1>1, <1>4, <1>6, <2>2, <2>3, <2>4
<1>8. ASSUME (n + m) % 2 = 1, NEW i \in 0 .. r - 1
      PROVE  Elem(h, r, n + i)[1] % 2 = 0
  <2>1. ~(n + i < n)
    BY <1>1
  <2>2. Elem(h, r, n + i)[1] = n + m + 1 + 2 * ((n + i) - n)
    BY <2>1 DEF Elem
  <2> HIDE DEF n, m
  <2> QED
    BY <1>1, <1>8, <2>2
<1> QED
  BY <1>2, <1>3, <1>6, <1>7, <1>8, UnpackedFrom, OneByteEach DEF PackedReadsBack

-----------------------------------------------------------------------------
(* The routed experts. *)


LEMMA QuotientFacts ==
  ASSUME NEW n \in Nat, NEW d \in Nat \ {0}
  PROVE  /\ n \div d \in Nat
         /\ (n \div d) * d <= n /\ n < (n \div d) * d + d
<1> DEFINE q == n \div d
<1>1. q \in Int /\ d * q <= n /\ n < d * q + d
  OBVIOUS
<1>2. q >= 0
  <2>1. SUFFICES ASSUME q <= -1 PROVE FALSE
    BY <1>1
  <2>2. d * q + d <= 0
    BY <1>1, <2>1
  <2> QED
    BY <1>1, <2>2
<1>3. q * d = d * q
  BY <1>1
<1> HIDE DEF q
<1>4. q \in Nat /\ q * d <= n /\ n < q * d + d
  BY <1>1, <1>2, <1>3
<1> QED
  BY <1>4 DEF q

LEMMA ProductOrder ==
  ASSUME NEW a \in Nat, NEW b \in Nat, NEW d \in Nat \ {0}, a * d < b * d
  PROVE  a < b
<1>1. SUFFICES ASSUME b <= a PROVE FALSE
  OBVIOUS
<1>2. b * d <= a * d
  BY <1>1
<1> QED
  BY <1>2

\* Two quotients by d with their remainders are the same.
SameParts(d, a, r, b, s) == a = b /\ r = s

LEMMA UniqueQuotient ==
  ASSUME NEW a \in Nat, NEW b \in Nat, NEW d \in Nat \ {0},
         NEW r \in 0 .. d - 1, NEW s \in 0 .. d - 1, a * d + r = b * d + s
  PROVE  SameParts(d, a, r, b, s)
<1>1. a * d \in Nat /\ b * d \in Nat
  OBVIOUS
<1>2. (a + 1) * d = a * d + d /\ (b + 1) * d = b * d + d
  OBVIOUS
<1>3. a * d < (b + 1) * d /\ b * d < (a + 1) * d
  BY <1>1, <1>2
<1>4. a < b + 1 /\ b < a + 1
  BY <1>3, ProductOrder
<1> QED
  BY <1>1, <1>4 DEF SameParts

LEMMA DivIs ==
  ASSUME NEW a \in Nat, NEW d \in Nat \ {0}, NEW r \in 0 .. d - 1
  PROVE  (a * d + r) \div d = a
<1> DEFINE n == a * d + r
           q == n \div d
<1>1. n \in Nat
  OBVIOUS
<1> HIDE DEF n
<1>2. q \in Nat /\ q * d <= n /\ n < q * d + d
  BY <1>1, QuotientFacts
<1>3. q * d \in Nat
  BY <1>2
<1>4. n - q * d \in 0 .. d - 1
  BY <1>1, <1>2, <1>3
<1> DEFINE s == n - q * d
<1>5. a * d + r = q * d + s
  BY <1>1, <1>3 DEF n
<1>6. a = q
  <2> HIDE DEF q
  <2>1. q \in Nat /\ s \in 0 .. d - 1
    BY <1>2, <1>4
  <2> HIDE DEF s
  <2>2. SameParts(d, a, r, q, s)
    BY <1>5, <2>1, UniqueQuotient
  <2> QED
    BY <2>2 DEF SameParts
<1> QED
  BY <1>6 DEF n

LEMMA ItemOf == ASSUME NEW T, NEW s \in Seq(T), NEW i \in 1 .. Len(s) PROVE s[i] \in T
OBVIOUS

LEMMA MoeLaunchFacts ==
  ASSUME NEW c \in Launches
  PROVE  /\ Len(c.selected) \in Nat \ {0}
         /\ Tokens(c) \in Nat \ {0} /\ Tokens(c) * Slots = Len(c.selected)
         /\ \A p \in Pairs(c) : ExpertOf(c, p) \in 0 .. Experts - 1
         /\ IsFiniteSet(Pairs(c)) /\ Cardinality(Pairs(c)) = Len(c.selected)
<1> DEFINE n == Len(c.selected)
           q == n \div Slots
<1>1. Slots \in Nat \ {0} /\ Experts \in Nat \ {0}
  BY MoeAssumption
<1>2. c.selected \in Seq(-1 .. Experts - 1) /\ c.selected # <<>> /\ n % Slots = 0
  BY MoeAssumption
<1>3. n \in Nat \ {0}
  BY <1>2
<1>4. n = Slots * q
  <2> HIDE DEF n
  <2>1. n = Slots * (n \div Slots) + (n % Slots)
    BY <1>1, <1>3
  <2> QED
    BY <1>1, <1>2, <1>3, <2>1, QuotientFacts
<1>5. q \in Nat
  <2> HIDE DEF n
  <2> QED
    BY <1>1, <1>3, QuotientFacts
<1>6. q * Slots = n /\ q # 0
  <2> HIDE DEF q, n
  <2> QED
    BY <1>1, <1>3, <1>4, <1>5
<1>7. \A p \in Pairs(c) : ExpertOf(c, p) \in 0 .. Experts - 1
  <2> TAKE p \in Pairs(c)
  <2>1. p + 1 \in 1 .. n
    BY <1>3 DEF Pairs
  <2>2. c.selected[p + 1] \in -1 .. Experts - 1
    BY <1>2, <2>1, ItemOf
  <2> QED
    BY <1>1, <2>2 DEF ExpertOf
<1>8. IsFiniteSet(Pairs(c)) /\ Cardinality(Pairs(c)) = n
  <2> HIDE DEF n
  <2>1. IsFiniteSet(0 .. n - 1) /\ Cardinality(0 .. n - 1) = n
    BY <1>3, FS_Interval
  <2> QED
    BY <2>1 DEF Pairs, n
<1> QED
  BY <1>3, <1>5, <1>6, <1>7, <1>8 DEF Tokens

(***************************************************************************)
(* The runs of the experts in sorted_pairs                                 *)
(***************************************************************************)
InRun(c, e, i) == Offsets(c)[e] <= i /\ i < Offsets(c)[e] + Counts(c)[e]

LEMMA RunFacts ==
  ASSUME NEW c \in Launches, NEW e \in 0 .. Experts - 1
  PROVE  /\ Offsets(c)[e] \in Nat /\ Counts(c)[e] \in Nat
         /\ Offsets(c)[e] + Counts(c)[e] <= Len(c.selected)
         /\ \A f \in 0 .. Experts - 1 : e < f => Offsets(c)[e] + Counts(c)[e] <= Offsets(c)[f]
<1> DEFINE Below(f) == {p \in Pairs(c) : ExpertOf(c, p) < f}
           Own == {p \in Pairs(c) : ExpertOf(c, p) = e}
<1>1. IsFiniteSet(Pairs(c)) /\ Cardinality(Pairs(c)) = Len(c.selected)
  BY MoeLaunchFacts
<1>2. Experts \in Nat
  BY MoeAssumption
<1>3. \A T \in SUBSET Pairs(c) : IsFiniteSet(T) /\ Cardinality(T) \in Nat
  BY <1>1, FS_Subset, FS_CardinalityType
<1>4. Offsets(c)[e] = Cardinality(Below(e)) /\ Counts(c)[e] = Cardinality(Own)
  BY DEF Offsets, Counts
<1>5. \A f \in 0 .. Experts - 1 : Offsets(c)[f] = Cardinality(Below(f))
  BY DEF Offsets
<1>6. Below(e) \in SUBSET Pairs(c) /\ Own \in SUBSET Pairs(c)
  OBVIOUS
<1>7. Below(e) \cap Own = {}
  BY <1>2, MoeLaunchFacts
<1>8. IsFiniteSet(Below(e)) /\ Cardinality(Below(e)) \in Nat /\ IsFiniteSet(Own) /\ Cardinality(Own) \in Nat
  BY <1>3, <1>6
<1>9. Cardinality(Below(e) \cup Own) = Cardinality(Below(e)) + Cardinality(Own)
  <2> HIDE DEF Below, Own
  <2>1. Cardinality(Below(e) \cap Own) = 0
    BY <1>7, FS_EmptySet
  <2>2. Cardinality(Below(e) \cup Own) = Cardinality(Below(e)) + Cardinality(Own) - Cardinality(Below(e) \cap Own)
    BY <1>8, FS_Union
  <2> QED
    BY <1>8, <2>1, <2>2
<1>10. \A T \in SUBSET Pairs(c) : Below(e) \cup Own \subseteq T
         => Cardinality(Below(e)) + Cardinality(Own) <= Cardinality(T)
  <2> HIDE DEF Below, Own
  <2> QED
    BY <1>3, <1>9, FS_Subset
<1>11. Offsets(c)[e] + Counts(c)[e] <= Len(c.selected)
  <2>1. Below(e) \cup Own \subseteq Pairs(c)
    OBVIOUS
  <2> HIDE DEF Below, Own
  <2> QED
    BY <1>1, <1>4, <1>10, <2>1
<1>12. ASSUME NEW f \in 0 .. Experts - 1, e < f
       PROVE  Offsets(c)[e] + Counts(c)[e] <= Offsets(c)[f]
  <2>1. Below(e) \cup Own \subseteq Below(f)
    BY <1>2, <1>12, MoeLaunchFacts
  <2>2. Below(f) \in SUBSET Pairs(c)
    OBVIOUS
  <2> HIDE DEF Below, Own
  <2> QED
    BY <1>4, <1>5, <1>10, <2>1, <2>2
<1> HIDE DEF Below, Own
<1> QED
  BY <1>4, <1>8, <1>11, <1>12

\* a place is in the run of one expert
LEMMA OneRun ==
  ASSUME NEW c \in Launches, NEW e \in 0 .. Experts - 1, NEW f \in 0 .. Experts - 1,
         NEW i \in Int, InRun(c, e, i), InRun(c, f, i)
  PROVE  e = f /\ i \in Pairs(c)
<1>1. /\ Offsets(c)[e] \in Nat /\ Counts(c)[e] \in Nat
      /\ Offsets(c)[f] \in Nat /\ Counts(c)[f] \in Nat
      /\ Offsets(c)[e] + Counts(c)[e] <= Len(c.selected)
      /\ e < f => Offsets(c)[e] + Counts(c)[e] <= Offsets(c)[f]
      /\ f < e => Offsets(c)[f] + Counts(c)[f] <= Offsets(c)[e]
  BY RunFacts
<1>2. Experts \in Nat /\ Len(c.selected) \in Nat
  BY MoeAssumption, MoeLaunchFacts
<1>3. /\ Offsets(c)[e] <= i /\ i < Offsets(c)[e] + Counts(c)[e]
      /\ Offsets(c)[f] <= i /\ i < Offsets(c)[f] + Counts(c)[f]
  BY DEF InRun
<1> QED
  BY <1>1, <1>2, <1>3 DEF Pairs

(***************************************************************************)
(* The work lists                                                          *)
(***************************************************************************)
\* every pair is worked on, with the weights of its expert
Reaches(c, work) ==
  /\ \A x \in DOMAIN work : work[x][1] \in Pairs(c) /\ work[x][2] = ExpertOf(c, work[x][1])
  /\ \A p \in Pairs(c) : \E x \in DOMAIN work : work[x][1] = p
\* ... and on once
Covers(c, work) ==
  /\ Reaches(c, work)
  /\ \A x, y \in DOMAIN work : work[x][1] = work[y][1] => x = y
\* the places hold every pair once, each in the run of its expert
SortedByExpert(c, s) ==
  /\ s \in [Pairs(c) -> Pairs(c)]
  /\ \A p \in Pairs(c) : \E i \in Pairs(c) : s[i] = p
  /\ \A i, j \in Pairs(c) : s[i] = s[j] => i = j
  /\ \A i \in Pairs(c) : InRun(c, ExpertOf(c, s[i]), i)

LEMMA PairWorkCovers == ASSUME NEW c PROVE Covers(c, PairWork(c))
BY DEF Covers, Reaches, PairWork

LEMMA SortedWorkCovers ==
  ASSUME NEW c, NEW s, SortedByExpert(c, s)
  PROVE  Covers(c, SortedWork(c, s))
<1>1. /\ DOMAIN SortedWork(c, s) = Pairs(c)
      /\ \A i \in Pairs(c) : /\ SortedWork(c, s)[i][1] = s[i]
                             /\ SortedWork(c, s)[i][2] = ExpertOf(c, s[i])
  BY DEF SortedWork
<1> QED
  BY <1>1 DEF Covers, Reaches, SortedByExpert

LEMMA P2WorkCovers ==
  ASSUME NEW c \in Launches, NEW s, SortedByExpert(c, s)
  PROVE  Covers(c, P2Work(c, s))
<1> DEFINE n == Len(c.selected)
           rows == {b \in Pairs(c) : 2 * b < n}
           places == {x \in rows \X {0, 1} : 2 * x[1] + x[2] < n}
           At(x) == 2 * x[1] + x[2]
           W == P2Work(c, s)
<1>1. n \in Nat
  BY MoeLaunchFacts
<1>2. /\ DOMAIN W = places
      /\ \A x \in places : W[x][1] = s[At(x)] /\ W[x][2] = ExpertOf(c, s[At(x)])
  BY DEF P2Work
<1>3. \A x \in places : x = <<x[1], x[2]>> /\ x[1] \in Nat /\ x[2] \in {0, 1} /\ At(x) \in Pairs(c)
  BY <1>1 DEF Pairs
<1>4. ASSUME NEW i \in Pairs(c) PROVE \E x \in places : At(x) = i
  <2> DEFINE x == <<i \div 2, i % 2>>
  <2>1. i \div 2 \in Nat /\ i % 2 \in {0, 1} /\ 2 * (i \div 2) + (i % 2) = i /\ i \in 0 .. n - 1
    BY <1>1, <1>4 DEF Pairs
  <2>2. i \div 2 \in rows
    BY <1>1, <2>1 DEF Pairs
  <2>3. x \in places /\ At(x) = i
    BY <2>1, <2>2
  <2> QED
    BY <2>3
<1>5. \A x, y \in places : At(x) = At(y) => x = y
  <2> TAKE x, y \in places
  <2> HAVE At(x) = At(y)
  <2>1. x[1] = y[1] /\ x[2] = y[2]
    <3>1. /\ x[1] \in Nat /\ x[2] \in {0, 1} /\ y[1] \in Nat /\ y[2] \in {0, 1}
          /\ 2 * x[1] + x[2] = 2 * y[1] + y[2]
      BY <1>3
    <3> QED
      BY <3>1
  <2> QED
    BY <1>3, <2>1
<1> HIDE DEF places, At, W
<1>6. \A x \in places : At(x) \in Pairs(c)
  BY <1>3
<1> QED
  BY <1>2, <1>4, <1>5, <1>6 DEF Covers, Reaches, SortedByExpert, W

\* Tiles that are taken at every multiple of the width of a block, in each expert.
EveryWidth(c, tiles, width, wide) ==
  /\ \A x \in tiles : /\ x = <<x[1], x[2]>> /\ x[1] \in 0 .. Experts - 1
                      /\ ~LeftOut(x, wide) => \E q \in Nat : x[2] = q * width
  /\ \A e \in 0 .. Experts - 1 : \A q \in Nat :
       q * width < Counts(c)[e] => <<e, q * width>> \in tiles /\ ~LeftOut(<<e, q * width>>, wide)

\* Tiles that, in each expert, let the blocks reach every place.
EveryPlace(c, tiles, width, wide) ==
  /\ \A x \in tiles : x = <<x[1], x[2]>> /\ x[1] \in 0 .. Experts - 1 /\ x[2] \in Nat
  /\ \A e \in 0 .. Experts - 1 : \A r \in Nat : r < Counts(c)[e] =>
       \E b \in Nat : \E l \in 0 .. width - 1 :
         b + l = r /\ <<e, b>> \in tiles /\ ~LeftOut(<<e, b>>, wide)

LEMMA TileWorkReaches ==
  ASSUME NEW c \in Launches, NEW s, SortedByExpert(c, s), NEW tiles, NEW width \in Nat \ {0},
         NEW wide, EveryPlace(c, tiles, width, wide)
  PROVE  Reaches(c, TileWork(c, s, tiles, width, wide))
<1> DEFINE places == {x \in tiles \X (0 .. width - 1) :
                        x[2] < Counts(c)[x[1][1]] - x[1][2] /\ ~LeftOut(x[1], wide)}
           At(x) == Offsets(c)[x[1][1]] + x[1][2] + x[2]
           W == TileWork(c, s, tiles, width, wide)
<1>1. /\ DOMAIN W = places
      /\ \A x \in places : W[x][1] = s[At(x)] /\ W[x][2] = x[1][1]
  BY DEF TileWork
<1>2. ASSUME NEW x \in places
      PROVE  /\ x[1][1] \in 0 .. Experts - 1
             /\ InRun(c, x[1][1], At(x))
             /\ At(x) \in Pairs(c)
  <2>1. /\ x = <<x[1], x[2]>> /\ x[1] \in tiles /\ x[2] \in 0 .. width - 1
        /\ x[2] < Counts(c)[x[1][1]] - x[1][2]
    BY <1>2
  <2>2. x[1] = <<x[1][1], x[1][2]>> /\ x[1][1] \in 0 .. Experts - 1 /\ x[1][2] \in Nat
    BY <2>1 DEF EveryPlace
  <2>3. Offsets(c)[x[1][1]] \in Nat /\ Counts(c)[x[1][1]] \in Nat
    BY <2>2, RunFacts
  <2>4. InRun(c, x[1][1], At(x)) /\ At(x) \in Int
    BY <2>1, <2>2, <2>3 DEF InRun
  <2>5. At(x) \in Pairs(c)
    <3> HIDE DEF At
    <3> QED
      BY <2>2, <2>4, OneRun
  <2> HIDE DEF At, places
  <2> QED
    BY <2>2, <2>4, <2>5
<1>3. ASSUME NEW x \in places
      PROVE  W[x][1] \in Pairs(c) /\ W[x][2] = ExpertOf(c, W[x][1])
  <2> DEFINE p == s[At(x)]
  <2>1. /\ At(x) \in Pairs(c) /\ InRun(c, x[1][1], At(x)) /\ x[1][1] \in 0 .. Experts - 1
    BY <1>2
  <2>2. W[x][1] = p /\ W[x][2] = x[1][1]
    BY <1>1
  <2> HIDE DEF At, W, places
  <2>3. p \in Pairs(c) /\ InRun(c, ExpertOf(c, p), At(x))
    BY <2>1 DEF SortedByExpert
  <2>4. ExpertOf(c, p) \in 0 .. Experts - 1 /\ At(x) \in Int
    BY <2>1, <2>3, MoeLaunchFacts DEF Pairs
  <2> HIDE DEF p
  <2>5. ExpertOf(c, p) = x[1][1]
    BY <2>1, <2>3, <2>4, OneRun
  <2> QED
    BY <2>2, <2>3, <2>5
<1>4. ASSUME NEW p \in Pairs(c) PROVE \E x \in places : W[x][1] = p
  <2>1. PICK i \in Pairs(c) : s[i] = p
    BY DEF SortedByExpert
  <2> DEFINE e == ExpertOf(c, p)
             r == i - Offsets(c)[e]
  <2>2. InRun(c, e, i) /\ e \in 0 .. Experts - 1
    BY <2>1, MoeLaunchFacts DEF SortedByExpert
  <2>3. /\ Offsets(c)[e] \in Nat /\ Counts(c)[e] \in Nat /\ i \in Int
    BY <2>2, RunFacts, MoeLaunchFacts DEF Pairs
  <2> HIDE DEF e
  <2>4. r \in Nat /\ r < Counts(c)[e] /\ Offsets(c)[e] + r = i
    BY <2>2, <2>3 DEF InRun
  <2> HIDE DEF r
  <2>10. PICK b \in Nat : \E l \in 0 .. width - 1 :
           b + l = r /\ <<e, b>> \in tiles /\ ~LeftOut(<<e, b>>, wide)
    BY <2>2, <2>4 DEF EveryPlace
  <2>5. PICK l \in 0 .. width - 1 :
          b + l = r /\ <<e, b>> \in tiles /\ ~LeftOut(<<e, b>>, wide)
    BY <2>10
  <2> DEFINE x == <<<<e, b>>, l>>
  <2>6. l < Counts(c)[e] - b
    BY <2>3, <2>4, <2>5
  <2>7. x \in places
    BY <2>5, <2>6
  <2>8. At(x) = i
    BY <2>3, <2>4, <2>5
  <2>9. W[x][1] = s[At(x)]
    BY <1>1, <2>7
  <2> QED
    BY <2>1, <2>7, <2>8, <2>9
<1> HIDE DEF W, places
<1>5. DOMAIN W = places
  BY <1>1
<1> QED
  BY <1>3, <1>4, <1>5 DEF Reaches, W

LEMMA WidthReaches ==
  ASSUME NEW c \in Launches, NEW tiles, NEW width \in Nat \ {0}, NEW wide,
         EveryWidth(c, tiles, width, wide),
         \A x \in tiles : x[2] \in Nat
  PROVE  EveryPlace(c, tiles, width, wide)
<1>1. \A x \in tiles : x = <<x[1], x[2]>> /\ x[1] \in 0 .. Experts - 1 /\ x[2] \in Nat
  BY DEF EveryWidth
<1>2. ASSUME NEW e \in 0 .. Experts - 1, NEW r \in Nat, r < Counts(c)[e]
      PROVE  \E b \in Nat : \E l \in 0 .. width - 1 :
               b + l = r /\ <<e, b>> \in tiles /\ ~LeftOut(<<e, b>>, wide)
  <2> DEFINE q == r \div width
  <2>1. q \in Nat /\ q * width <= r /\ r < q * width + width
    BY QuotientFacts
  <2> HIDE DEF q
  <2>2. PICK b \in Nat : b = q * width
    BY <2>1
  <2>3. PICK l \in Int : l = r - b
    BY <2>1, <2>2
  <2>4. l \in 0 .. width - 1 /\ b + l = r /\ b <= r
    BY <2>1, <2>2, <2>3
  <2>5. Counts(c)[e] \in Nat
    BY RunFacts
  <2>6. q * width < Counts(c)[e]
    BY <1>2, <2>1, <2>2, <2>4, <2>5
  <2>7. <<e, b>> \in tiles /\ ~LeftOut(<<e, b>>, wide)
    BY <2>1, <2>2, <2>6 DEF EveryWidth
  <2> QED
    BY <2>4, <2>7
<1> QED
  BY <1>1, <1>2 DEF EveryPlace

LEMMA TileWorkCovers ==
  ASSUME NEW c \in Launches, NEW s, SortedByExpert(c, s), NEW tiles, NEW width \in Nat \ {0},
         NEW wide, EveryWidth(c, tiles, width, wide), \A x \in tiles : x[2] \in Nat
  PROVE  Covers(c, TileWork(c, s, tiles, width, wide))
<1> DEFINE places == {x \in tiles \X (0 .. width - 1) :
                        x[2] < Counts(c)[x[1][1]] - x[1][2] /\ ~LeftOut(x[1], wide)}
           At(x) == Offsets(c)[x[1][1]] + x[1][2] + x[2]
           W == TileWork(c, s, tiles, width, wide)
<1>1. /\ DOMAIN W = places
      /\ \A x \in places : W[x][1] = s[At(x)] /\ W[x][2] = x[1][1]
  BY DEF TileWork
<1>2. ASSUME NEW x \in places
      PROVE  /\ x = <<<<x[1][1], x[1][2]>>, x[2]>> /\ x[1][1] \in 0 .. Experts - 1 /\ x[2] \in 0 .. width - 1
             /\ \E q \in Nat : x[1][2] = q * width
             /\ x[1][2] \in Nat
             /\ InRun(c, x[1][1], At(x))
             /\ At(x) \in Pairs(c)
  <2>1. /\ x = <<x[1], x[2]>> /\ x[1] \in tiles /\ x[2] \in 0 .. width - 1
        /\ x[2] < Counts(c)[x[1][1]] - x[1][2] /\ ~LeftOut(x[1], wide)
    BY <1>2
  <2>2. x[1] = <<x[1][1], x[1][2]>> /\ x[1][1] \in 0 .. Experts - 1
    BY <2>1 DEF EveryWidth
  <2>3. PICK q \in Nat : x[1][2] = q * width
    BY <2>1 DEF EveryWidth
  <2>4. q * width \in Nat
    BY <2>3
  <2>5. Offsets(c)[x[1][1]] \in Nat /\ Counts(c)[x[1][1]] \in Nat
    BY <2>2, RunFacts
  <2>6. InRun(c, x[1][1], At(x)) /\ At(x) \in Int
    BY <2>1, <2>3, <2>4, <2>5 DEF InRun
  <2>7. At(x) \in Pairs(c)
    <3> HIDE DEF At
    <3> QED
      BY <2>2, <2>6, OneRun
  <2> HIDE DEF At, places
  <2> QED
    BY <2>1, <2>2, <2>3, <2>4, <2>6, <2>7
<1>5. ASSUME NEW x \in places, NEW y \in places, W[x][1] = W[y][1]
      PROVE  x = y
  <2>1. At(x) = At(y)
    <3>1. At(x) \in Pairs(c) /\ At(y) \in Pairs(c)
      BY <1>2
    <3>2. s[At(x)] = s[At(y)]
      BY <1>1, <1>5
    <3> HIDE DEF At, places, W
    <3> QED
      BY <3>1, <3>2 DEF SortedByExpert
  <2>2. x[1][1] = y[1][1]
    <3>1. /\ InRun(c, x[1][1], At(x)) /\ InRun(c, y[1][1], At(x)) /\ At(x) \in Int
          /\ x[1][1] \in 0 .. Experts - 1 /\ y[1][1] \in 0 .. Experts - 1
      BY <1>2, <2>1 DEF Pairs
    <3> HIDE DEF At
    <3> QED
      BY <3>1, OneRun
  <2>3. PICK a \in Nat : x[1][2] = a * width
    BY <1>2
  <2>4. PICK b \in Nat : y[1][2] = b * width
    BY <1>2
  <2>5. /\ x[1][1] \in 0 .. Experts - 1 /\ x[2] \in 0 .. width - 1 /\ y[2] \in 0 .. width - 1
        /\ x[1][2] \in Nat /\ y[1][2] \in Nat
    BY <1>2
  <2>6. Offsets(c)[x[1][1]] \in Nat
    BY <2>5, RunFacts
  <2>7. x[1][2] + x[2] = y[1][2] + y[2]
    BY <2>1, <2>2, <2>5, <2>6
  <2>8. a = b /\ x[2] = y[2]
    <3> DEFINE i == x[2]
               j == y[2]
    <3>1. i \in 0 .. width - 1 /\ j \in 0 .. width - 1
      BY <2>5
    <3>2. a * width + i = b * width + j
      BY <2>3, <2>4, <2>7
    <3> HIDE DEF i, j, At, places, W
    <3>3. SameParts(width, a, i, b, j)
      BY <3>1, <3>2, UniqueQuotient
    <3>4. a = b /\ i = j
      BY <3>3 DEF SameParts
    <3> QED
      BY <3>4 DEF i, j
  <2>9. x = <<<<x[1][1], x[1][2]>>, x[2]>> /\ y = <<<<y[1][1], y[1][2]>>, y[2]>>
    BY <1>2
  <2> QED
    BY <2>2, <2>3, <2>4, <2>8, <2>9
<1> HIDE DEF W, places
<1>6. DOMAIN W = places
  BY <1>1
<1>7. Reaches(c, TileWork(c, s, tiles, width, wide))
  BY WidthReaches, TileWorkReaches
<1> QED
  BY <1>5, <1>6, <1>7 DEF Covers, W

LEMMA TilesCounted ==
  ASSUME NEW n \in Nat, NEW m \in Nat \ {0}
  PROVE  /\ TilesOf(n, m) \in Nat
         /\ \A q \in Nat : q * m < n => q < TilesOf(n, m)
<1> DEFINE k == n + m - 1
           t == TilesOf(n, m)
<1>1. k \in Nat /\ t = k \div m
  BY DEF TilesOf
<1> HIDE DEF k, t
<1>2. t \in Nat /\ t * m <= k /\ k < t * m + m
  BY <1>1, QuotientFacts
<1>3. ASSUME NEW q \in Nat, q * m < n PROVE q < t
  <2>1. (q + 1) * m = q * m + m /\ (t + 1) * m = t * m + m /\ q * m \in Nat /\ t * m \in Nat
    BY <1>2
  <2>2. (q + 1) * m < (t + 1) * m
    BY <1>2, <1>3, <2>1 DEF k
  <2>3. q + 1 < t + 1
    BY <1>2, <2>2, ProductOrder
  <2> QED
    BY <1>2, <2>3
<1> QED
  BY <1>2, <1>3 DEF t

LEMMA ExpertTilesFacts ==
  ASSUME NEW c \in Launches, NEW m \in Nat \ {0}
  PROVE  /\ \A x \in ExpertTiles(c, m) : /\ x = <<x[1], x[2]>> /\ x[1] \in 0 .. Experts - 1
                                       /\ \E t \in Nat : x[2] = t * m
         /\ \A e \in 0 .. Experts - 1 : \A q \in Nat :
              q * m < Counts(c)[e] => <<e, q * m>> \in ExpertTiles(c, m)
<1> DEFINE Of(e) == {<<e, t * m>> : t \in 0 .. TilesOf(Counts(c)[e], m) - 1}
<1>1. ExpertTiles(c, m) = UNION {Of(e) : e \in 0 .. Experts - 1}
  BY DEF ExpertTiles
<1>2. \A e \in 0 .. Experts - 1 : Counts(c)[e] \in Nat /\ TilesOf(Counts(c)[e], m) \in Nat
  BY RunFacts, TilesCounted
<1>3. ASSUME NEW e \in 0 .. Experts - 1, NEW x \in Of(e)
      PROVE  /\ x = <<x[1], x[2]>> /\ x[1] \in 0 .. Experts - 1
             /\ \E t \in Nat : x[2] = t * m
  <2>1. PICK t \in 0 .. TilesOf(Counts(c)[e], m) - 1 : x = <<e, t * m>>
    BY <1>3
  <2>2. t \in Nat
    BY <1>2, <2>1
  <2> QED
    BY <2>1, <2>2
<1>4. ASSUME NEW e \in 0 .. Experts - 1, NEW q \in Nat, q * m < Counts(c)[e]
      PROVE  <<e, q * m>> \in Of(e)
  <2>1. q < TilesOf(Counts(c)[e], m)
    BY <1>2, <1>4, TilesCounted
  <2>2. q \in 0 .. TilesOf(Counts(c)[e], m) - 1
    BY <1>2, <2>1
  <2> QED
    BY <2>2
<1> HIDE DEF Of
<1> QED
  BY <1>1, <1>3, <1>4

\* a tile is as wide as a block
LEMMA PlainTiles ==
  ASSUME NEW c \in Launches, NEW m \in Nat \ {0}
  PROVE  EveryWidth(c, ExpertTiles(c, m), m, FALSE)
BY ExpertTilesFacts DEF EveryWidth, LeftOut

LEMMA DoubleFacts ==
  ASSUME NEW q \in Nat, NEW m \in Nat \ {0}
  PROVE  /\ q * (2 * m) = (2 * q) * m
         /\ (q * m) \div m = q
         /\ ((2 * q) * m) \div m = 2 * q
         /\ (2 * q) % 2 = 0
<1>1. q * (2 * m) = (2 * q) * m
  OBVIOUS
<1>2. \A a \in Nat : (a * m) \div m = a
  <2> TAKE a \in Nat
  <2>1. 0 \in 0 .. m - 1
    OBVIOUS
  <2>2. (a * m + 0) \div m = a
    BY <2>1, DivIs
  <2>3. a * m + 0 = a * m
    OBVIOUS
  <2> QED
    BY <2>2, <2>3
<1>3. (2 * q) % 2 = 0
  OBVIOUS
<1> QED
  BY <1>1, <1>2, <1>3

\* the blocks are twice as wide as the tiles, and every second tile is left out
LEMMA SkippedTiles ==
  ASSUME NEW c \in Launches
  PROVE  EveryWidth(c, ExpertTiles(c, TileM), 2 * TileM, TRUE)
<1>1. TileM \in Nat \ {0}
  BY MoeAssumption
<1>2. ASSUME NEW x \in ExpertTiles(c, TileM), ~LeftOut(x, TRUE)
      PROVE  \E q \in Nat : x[2] = q * (2 * TileM)
  <2>1. PICK t \in Nat : x[2] = t * TileM
    BY <1>1, ExpertTilesFacts
  <2>2. x[2] \div TileM = t
    BY <1>1, <2>1, DoubleFacts
  <2>3. t % 2 # 1
    BY <1>2, <2>2 DEF LeftOut
  <2>4. t \div 2 \in Nat /\ t = 2 * (t \div 2)
    BY <2>3
  <2> DEFINE q == t \div 2
  <2>5. x[2] = (2 * q) * TileM
    BY <2>1, <2>4
  <2> HIDE DEF q
  <2>6. q \in Nat
    BY <2>4 DEF q
  <2>7. x[2] = q * (2 * TileM)
    BY <1>1, <2>5, <2>6, DoubleFacts
  <2> QED
    BY <2>6, <2>7
<1>3. ASSUME NEW e \in 0 .. Experts - 1, NEW q \in Nat, q * (2 * TileM) < Counts(c)[e]
      PROVE  <<e, q * (2 * TileM)>> \in ExpertTiles(c, TileM) /\ ~LeftOut(<<e, q * (2 * TileM)>>, TRUE)
  <2>1. /\ q * (2 * TileM) = (2 * q) * TileM
        /\ ((2 * q) * TileM) \div TileM = 2 * q /\ (2 * q) % 2 = 0
    BY <1>1, DoubleFacts
  <2>2. 2 * q \in Nat /\ (2 * q) * TileM < Counts(c)[e]
    BY <1>3, <2>1
  <2>3. <<e, (2 * q) * TileM>> \in ExpertTiles(c, TileM)
    BY <1>1, <2>2, ExpertTilesFacts
  <2>4. ~LeftOut(<<e, (2 * q) * TileM>>, TRUE)
    BY <2>1 DEF LeftOut
  <2> QED
    BY <2>1, <2>3, <2>4
<1> QED
  BY <1>1, <1>2, <1>3, ExpertTilesFacts DEF EveryWidth

\* the tiles are as wide as the blocks, and the kernel leaves out none of them
LEMMA DoubleTiles ==
  ASSUME NEW c \in Launches
  PROVE  EveryWidth(c, ExpertTiles(c, 2 * TileM), 2 * TileM, TRUE)
<1>1. TileM \in Nat \ {0} /\ 2 * TileM \in Nat \ {0}
  BY MoeAssumption
<1>2. ASSUME NEW e \in 0 .. Experts - 1, NEW q \in Nat
      PROVE  ~LeftOut(<<e, q * (2 * TileM)>>, TRUE)
  <2>1. /\ q * (2 * TileM) = (2 * q) * TileM
        /\ ((2 * q) * TileM) \div TileM = 2 * q /\ (2 * q) % 2 = 0
    BY <1>1, DoubleFacts
  <2> QED
    BY <2>1 DEF LeftOut
<1> QED
  BY <1>1, <1>2, ExpertTilesFacts DEF EveryWidth

LEMMA TileStarts ==
  ASSUME NEW c \in Launches, NEW m \in Nat \ {0}
  PROVE  \A x \in ExpertTiles(c, m) : x[2] \in Nat
BY ExpertTilesFacts

LEMMA PlainTilesCover ==
  ASSUME NEW c \in Launches, NEW s, SortedByExpert(c, s), NEW m \in Nat \ {0}
  PROVE  Covers(c, TileWork(c, s, ExpertTiles(c, m), m, FALSE))
BY PlainTiles, TileStarts, TileWorkCovers

LEMMA WideTilesCover ==
  ASSUME NEW c \in Launches, NEW s, SortedByExpert(c, s),
         NEW tiles \in {ExpertTiles(c, TileM), ExpertTiles(c, 2 * TileM)}
  PROVE  Covers(c, TileWork(c, s, tiles, 2 * TileM, TRUE))
<1>1. EveryWidth(c, tiles, 2 * TileM, TRUE)
  BY SkippedTiles, DoubleTiles
<1>2. TileM \in Nat \ {0} /\ 2 * TileM \in Nat \ {0}
  BY MoeAssumption
<1>4. \A x \in tiles : x[2] \in Nat
  BY <1>2, TileStarts
<1> DEFINE w == 2 * TileM
<1> HIDE DEF w
<1>3. Covers(c, TileWork(c, s, tiles, w, TRUE))
  BY <1>1, <1>2, <1>4, TileWorkCovers DEF w
<1> QED
  BY <1>3 DEF w

\* the blocks are wider than the tiles: the runs are reached, some places twice
LEMMA HalfTilesReach ==
  ASSUME NEW c \in Launches
  PROVE  /\ EveryPlace(c, ExpertTiles(c, TileM \div 2), TileM, FALSE)
         /\ EveryPlace(c, ExpertTiles(c, TileM \div 2), 2 * TileM, TRUE)
<1> DEFINE h == TileM \div 2
           tiles == ExpertTiles(c, h)
<1>1. TileM \in Nat \ {0} /\ h \in Nat \ {0} /\ TileM = 2 * h
  BY MoeAssumption
<1> HIDE DEF h
<1>2. \A x \in tiles : x = <<x[1], x[2]>> /\ x[1] \in 0 .. Experts - 1 /\ x[2] \in Nat
  BY <1>1, ExpertTilesFacts, TileStarts
<1>3. ASSUME NEW e \in 0 .. Experts - 1, NEW r \in Nat, r < Counts(c)[e]
      PROVE  \E b \in Nat : \E l \in 0 .. TileM - 1 :
               b + l = r /\ <<e, b>> \in tiles /\ ~LeftOut(<<e, b>>, FALSE)
  <2> DEFINE q == r \div h
  <2>1. q \in Nat /\ q * h <= r /\ r < q * h + h
    BY <1>1, QuotientFacts
  <2> HIDE DEF q
  <2>2. PICK b \in Nat : b = q * h
    BY <1>1, <2>1
  <2>3. PICK l \in Int : l = r - b
    BY <2>1, <2>2
  <2>4. l \in 0 .. TileM - 1 /\ b + l = r /\ b <= r
    BY <1>1, <2>1, <2>2, <2>3
  <2>5. Counts(c)[e] \in Nat
    BY RunFacts
  <2>6. q * h < Counts(c)[e]
    BY <1>3, <2>2, <2>4, <2>5
  <2>7. <<e, b>> \in tiles
    BY <1>1, <2>1, <2>2, <2>6, ExpertTilesFacts
  <2> QED
    BY <2>4, <2>7 DEF LeftOut
<1>4. ASSUME NEW e \in 0 .. Experts - 1, NEW r \in Nat, r < Counts(c)[e]
      PROVE  \E b \in Nat : \E l \in 0 .. 2 * TileM - 1 :
               b + l = r /\ <<e, b>> \in tiles /\ ~LeftOut(<<e, b>>, TRUE)
  <2>1. PICK w \in Nat \ {0} : w = 2 * TileM
    BY <1>1
  <2> DEFINE q == r \div w
  <2>2. q \in Nat /\ q * w <= r /\ r < q * w + w
    BY <2>1, QuotientFacts
  <2> HIDE DEF q
  <2>3. PICK b \in Nat : b = q * w
    BY <2>1, <2>2
  <2>4. PICK l \in Int : l = r - b
    BY <2>2, <2>3
  <2>5. l \in 0 .. 2 * TileM - 1 /\ b + l = r /\ b <= r
    BY <1>1, <2>1, <2>2, <2>3, <2>4
  <2>6. Counts(c)[e] \in Nat
    BY RunFacts
  <2>7. /\ q * (2 * TileM) = (2 * q) * TileM
        /\ ((2 * q) * TileM) \div TileM = 2 * q /\ (2 * q) % 2 = 0
    BY <1>1, <2>2, DoubleFacts
  <2>8. b = (2 * q) * TileM
    BY <2>1, <2>3, <2>7
  <2>9. b \div TileM = 2 * q
    BY <2>7, <2>8
  <2>10. ~LeftOut(<<e, b>>, TRUE)
    BY <2>7, <2>9 DEF LeftOut
  <2>11. PICK k \in Nat : k = 4 * q
    BY <2>2
  <2>12. b = k * h
    <3>1. (2 * q) * TileM = (2 * q) * (2 * h)
      BY <1>1
    <3>2. (2 * q) * (2 * h) = k * h
      BY <1>1, <2>2, <2>11
    <3> QED
      BY <2>8, <3>1, <3>2
  <2>13. k * h < Counts(c)[e]
    BY <1>4, <2>5, <2>6, <2>12
  <2>14. <<e, b>> \in tiles
    BY <1>1, <2>11, <2>12, <2>13, ExpertTilesFacts
  <2> QED
    BY <2>5, <2>10, <2>14
<1>5. EveryPlace(c, tiles, TileM, FALSE) /\ EveryPlace(c, tiles, 2 * TileM, TRUE)
  BY <1>2, <1>3, <1>4 DEF EveryPlace
<1> QED
  BY <1>5 DEF h

LEMMA HalfTilesReached ==
  ASSUME NEW c \in Launches, NEW s, SortedByExpert(c, s)
  PROVE  /\ Reaches(c, TileWork(c, s, ExpertTiles(c, TileM \div 2), TileM, FALSE))
         /\ Reaches(c, TileWork(c, s, ExpertTiles(c, TileM \div 2), 2 * TileM, TRUE))
<1>1. PICK w \in Nat \ {0} : w = 2 * TileM
  BY MoeAssumption
<1>2. TileM \in Nat \ {0}
  BY MoeAssumption
<1>3. Reaches(c, TileWork(c, s, ExpertTiles(c, TileM \div 2), TileM, FALSE))
  BY <1>2, HalfTilesReach, TileWorkReaches
<1>4. Reaches(c, TileWork(c, s, ExpertTiles(c, TileM \div 2), w, TRUE))
  BY <1>1, HalfTilesReach, TileWorkReaches
<1> QED
  BY <1>1, <1>3, <1>4

(***************************************************************************)
(* The kernels a launch takes                                              *)
(***************************************************************************)
LEMMA KernelIs ==
  ASSUME NEW as, NEW work, NEW k, k = Kernel(as, work)
  PROVE  k.as = as /\ k.work = work
BY DEF Kernel

\* what the places of the sorted pairs are when a kernel reads them
SortedFor(c, s) == UseSorted(c) => SortedByExpert(c, s)

LEMMA TileFacts ==
  ASSUME NEW c \in Launches
  PROVE  /\ TileM \in Nat \ {0} /\ TileM \div 2 \in Nat \ {0} /\ 2 * TileM \in Nat \ {0}
         /\ ExpertTileM(c) = IF Set(c, "TILE4") THEN TileM \div 2 ELSE TileM
         /\ ExpertTileM(c) = TileM <=> ~Set(c, "TILE4")
<1>1. TileM \in Nat \ {0} /\ TileM % 2 = 0
  BY MoeAssumption
<1> QED
  BY <1>1 DEF ExpertTileM

\* a kernel over the pairs in tiles of m
LEMMA TileKernelCovers ==
  ASSUME NEW c \in Launches, NEW s, SortedFor(c, s), UseTiles(c), NEW as, NEW m \in Nat \ {0}
  PROVE  LET k == Kernel(as, TileWork(c, s, ExpertTiles(c, m), m, FALSE))
         IN k.as = as /\ Covers(c, k.work)
<1>1. SortedByExpert(c, s)
  BY DEF UseTiles, SortedFor
<1> DEFINE w == TileWork(c, s, ExpertTiles(c, m), m, FALSE)
           k == Kernel(as, w)
<1>2. Covers(c, w)
  BY <1>1, PlainTilesCover
<1> HIDE DEF w
<1>3. k.as = as /\ k.work = w
  BY KernelIs
<1> QED
  BY <1>2, <1>3 DEF w

\* a kernel whose blocks take two tiles' widths
LEMMA WideKernelCovers ==
  ASSUME NEW c \in Launches, NEW s, SortedFor(c, s), UseTiles(c), NEW as, ExpertTileM(c) = TileM
  PROVE  LET k == Kernel(as, TileWork(c, s, DownTiles(c), 2 * TileM, TRUE))
         IN k.as = as /\ Covers(c, k.work)
<1>1. SortedByExpert(c, s)
  BY DEF UseTiles, SortedFor
<1>2. DownTiles(c) \in {ExpertTiles(c, TileM), ExpertTiles(c, 2 * TileM)}
  BY DEF DownTiles
<1> DEFINE w == TileWork(c, s, DownTiles(c), 2 * TileM, TRUE)
           k == Kernel(as, w)
<1>3. Covers(c, w)
  BY <1>1, <1>2, WideTilesCover
<1> HIDE DEF w
<1>4. k.as = as /\ k.work = w
  BY KernelIs
<1> QED
  BY <1>3, <1>4 DEF w

\* the kernels that take no tiles
LEMMA PlainKernelCovers ==
  ASSUME NEW c \in Launches, NEW s, SortedFor(c, s), NEW as, NEW k,
         \/ k = Kernel(as, PairWork(c))
         \/ UseSorted(c) /\ k = Kernel(as, P2Work(c, s))
         \/ UseSorted(c) /\ k = Kernel(as, SortedWork(c, s))
  PROVE  k.as = as /\ Covers(c, k.work)
<1>1. CASE k = Kernel(as, PairWork(c))
  BY <1>1, PairWorkCovers DEF Kernel
<1>2. CASE UseSorted(c) /\ k = Kernel(as, P2Work(c, s))
  BY <1>2, P2WorkCovers DEF Kernel, SortedFor
<1>3. CASE UseSorted(c) /\ k = Kernel(as, SortedWork(c, s))
  BY <1>3, SortedWorkCovers DEF Kernel, SortedFor
<1> QED
  BY <1>1, <1>2, <1>3

LEMMA GateCovers ==
  ASSUME NEW c \in Launches, NEW s, c.roomy, SortedFor(c, s)
  PROVE  GateKernel(c, s).as = GateRead(c) /\ Reaches(c, GateKernel(c, s).work)
<1> DEFINE k == GateKernel(c, s)
<1> HIDE DEF k
<1>1. TileM \in Nat \ {0} /\ TileM \div 2 \in Nat \ {0}
  BY TileFacts
<1>2. CASE c.gate = "nvfp4"
  <2>1. GateRead(c) = "nvfp4"
    BY <1>2 DEF GateRead
  <2>2. CASE UseTiles(c) /\ ExpertTileM(c) = TileM
    <3> DEFINE a == GateRead(c)
               K8 == Kernel(a, TileWork(c, s, ExpertTiles(c, TileM), TileM, FALSE))
    <3>1. k = K8
      BY <1>2, <2>1, <2>2 DEF GateKernel, GateTile8Nvfp4, k
    <3> HIDE DEF a
    <3>3. UseTiles(c) /\ TileM \in Nat \ {0}
      BY <1>1, <2>2
    <3>2. K8.as = a /\ Covers(c, K8.work)
      BY <3>3, TileKernelCovers
    <3> QED
      BY <3>1, <3>2 DEF Covers, a, k
  <2>3. CASE UseTiles(c) /\ ExpertTileM(c) # TileM
    <3> DEFINE w == TileWork(c, s, ExpertTiles(c, TileM \div 2), TileM, FALSE)
    <3>1. k = Kernel("nvfp4", w)
      BY <1>2, <2>3, TileFacts DEF GateKernel, GateTile8Nvfp4, ExpertTileM, k
    <3>2. Reaches(c, w)
      BY <2>3, HalfTilesReached DEF UseTiles, SortedFor
    <3> HIDE DEF w
    <3>3. k.as = "nvfp4" /\ k.work = w
      BY <3>1, KernelIs
    <3> QED
      BY <2>1, <3>2, <3>3 DEF k
  <2>4. CASE ~UseTiles(c)
    <3>1. k = Kernel("nvfp4", PairWork(c))
      BY <1>2, <2>4 DEF GateKernel, GateDecodeNvfp4, k
    <3>2. k.as = "nvfp4" /\ Covers(c, k.work)
      BY <3>1, PlainKernelCovers
    <3> QED
      BY <2>1, <3>2 DEF Covers, k
  <2> QED
    BY <2>2, <2>3, <2>4
<1>3. CASE c.gate # "nvfp4" /\ UseTiles(c)
  <2>1. GateRead(c) = "iq2"
    BY <1>3 DEF GateRead, UseTiles, UseSorted, UseDecodeLut
  <2>2. UseGateRow2048(c) => ExpertTileM(c) = TileM
    BY DEF UseGateRow2048
  <2>3. \/ k = GateTile8Row2048(c, s) /\ ExpertTileM(c) = TileM
        \/ k = GateTile8RowSpan(c, s) /\ ExpertTileM(c) = TileM
        \/ k = GateTile8Row32(c, s) /\ ExpertTileM(c) = TileM
        \/ k = GateTile4Row32(c, s) /\ ExpertTileM(c) = TileM \div 2
    BY <1>3, <2>2, TileFacts DEF GateKernel, k
  <2> DEFINE a == GateRead(c)
             h == TileM \div 2
             K8 == Kernel(a, TileWork(c, s, ExpertTiles(c, TileM), TileM, FALSE))
             K4 == Kernel(a, TileWork(c, s, ExpertTiles(c, h), h, FALSE))
  <2>4. k = K8 \/ k = K4
    BY <2>1, <2>3 DEF GateTile8Row2048, GateTile8RowSpan, GateTile8Row32, GateTile4Row32
  <2> HIDE DEF a, h
  <2>5. K8.as = a /\ Covers(c, K8.work) /\ K4.as = a /\ Covers(c, K4.work)
    <3>1. h \in Nat \ {0}
      BY <1>1 DEF h
    <3>2. K8.as = a /\ Covers(c, K8.work)
      BY <1>1, <1>3, TileKernelCovers
    <3>3. K4.as = a /\ Covers(c, K4.work)
      BY <1>3, <3>1, TileKernelCovers
    <3> QED
      BY <3>2, <3>3
  <2> HIDE DEF K8, K4
  <2> QED
    BY <2>4, <2>5 DEF Covers, a, k
<1>4. CASE c.gate # "nvfp4" /\ ~UseTiles(c)
  <2>1. UseP2(c) => UseSorted(c)
    BY DEF UseP2
  <2>2. UseDecodeLut(c) => ~UseSorted(c)
    BY DEF UseDecodeLut, UseSorted
  <2>3. \/ k = GateSortedP2(c, s) /\ UseSorted(c) /\ GateRead(c) = "iq2"
        \/ k = GateSorted(c, s) /\ UseSorted(c) /\ GateRead(c) = "iq2"
        \/ k = GateDecodeQ4K(c) /\ GateRead(c) = "q4k"
        \/ k = GateDecodeLut(c) /\ GateRead(c) = "iq2"
        \/ k = GateQwarp32(c) /\ GateRead(c) = "iq2"
    BY <1>4, <2>1, <2>2 DEF GateKernel, GateRead, UseP2, k
  <2>4. \/ k = Kernel(GateRead(c), PairWork(c))
        \/ UseSorted(c) /\ k = Kernel(GateRead(c), P2Work(c, s))
        \/ UseSorted(c) /\ k = Kernel(GateRead(c), SortedWork(c, s))
    BY <2>3 DEF GateSortedP2, GateSorted, GateDecodeQ4K, GateDecodeLut, GateQwarp32
  <2>5. k.as = GateRead(c) /\ Covers(c, k.work)
    BY <2>4, PlainKernelCovers
  <2> QED
    BY <2>5 DEF Covers, k
<1> QED
  BY <1>2, <1>3, <1>4

LEMMA DownCovers ==
  ASSUME NEW c \in Launches, NEW s, c.roomy, SortedFor(c, s), ~NoDownKernel(c)
  PROVE  /\ DownKernel(c, s).as = DownRead(c)
         /\ Reaches(c, DownKernel(c, s).work)
         /\ ~Overlapping(c) /\ (UseDirectSum(c) \/ UseAtomicDown(c))
              => Covers(c, DownKernel(c, s).work)
<1> DEFINE k == DownKernel(c, s)
<1> HIDE DEF k
<1>1. TileM \in Nat \ {0} /\ TileM \div 2 \in Nat \ {0}
  BY TileFacts
<1>2. CASE UseDirectSum(c)
  <2>1. \/ k = DownSum6Nvfp4(c) /\ DownRead(c) = "nvfp4"
        \/ k = DownQ4KSum6(c) /\ DownRead(c) = "q4k"
        \/ k = DownSum6(c) /\ DownRead(c) = "q2"
    BY <1>2 DEF DownKernel, DownRead, k
  <2>2. k = Kernel(DownRead(c), PairWork(c))
    BY <2>1 DEF DownSum6Nvfp4, DownQ4KSum6, DownSum6
  <2>3. k.as = DownRead(c) /\ Covers(c, k.work)
    BY <2>2, PlainKernelCovers
  <2> QED
    BY <2>3 DEF Covers, k
<1>3. CASE ~UseDirectSum(c) /\ c.down = "nvfp4"
  <2>1. UseTiles(c) /\ DownRead(c) = "nvfp4"
    BY <1>3 DEF NoDownKernel, DownRead
  <2>2. k = Kernel("nvfp4", TileWork(c, s, DownTiles(c), 2 * TileM, TRUE))
    BY <1>3 DEF DownKernel, DownTile16Nvfp4, k
  <2>3. CASE ExpertTileM(c) = TileM
    <3> DEFINE a == DownRead(c)
               KW == Kernel(a, TileWork(c, s, DownTiles(c), 2 * TileM, TRUE))
    <3>1. k = KW
      BY <2>1, <2>2
    <3> HIDE DEF a
    <3>2. KW.as = a /\ Covers(c, KW.work)
      BY <2>1, <2>3, WideKernelCovers
    <3> QED
      BY <3>1, <3>2 DEF Covers, a, k
  <2>4. CASE ExpertTileM(c) # TileM
    <3> DEFINE w == TileWork(c, s, ExpertTiles(c, TileM \div 2), 2 * TileM, TRUE)
    <3>1. DownTiles(c) = ExpertTiles(c, TileM \div 2)
      BY <2>4, TileFacts DEF DownTiles, UseDownTile16, ExpertTileM
    <3>2. k = Kernel("nvfp4", w) /\ Reaches(c, w)
      BY <2>1, <2>2, <3>1, HalfTilesReached DEF UseTiles, SortedFor
    <3> HIDE DEF w
    <3>3. k.as = "nvfp4" /\ k.work = w
      BY <3>2, KernelIs
    <3>4. UseAtomicDown(c) => Overlapping(c)
      BY <1>3, <2>4 DEF Overlapping
    <3> QED
      BY <1>3, <2>1, <3>2, <3>3, <3>4 DEF k
  <2> QED
    BY <2>3, <2>4
<1>4. CASE ~UseDirectSum(c) /\ c.down # "nvfp4" /\ UseTiles(c)
  <2>1. DownRead(c) = "q2"
    BY <1>4 DEF DownRead
  <2>2. (UseDownRow2048(c) => ExpertTileM(c) = TileM) /\ (UseDownTile16(c) => ExpertTileM(c) = TileM)
    BY DEF UseDownRow2048, UseDownTile16
  <2>3. ~UseDownTile16(c) => DownTiles(c) = ExpertTiles(c, ExpertTileM(c))
    BY DEF DownTiles
  <2>4. \/ k = DownTile16Block16(c, s) /\ ExpertTileM(c) = TileM
        \/ k = DownTile16RowSpan(c, s) /\ ExpertTileM(c) = TileM
        \/ k = DownTile16Row2048(c, s) /\ ExpertTileM(c) = TileM
        \/ k = DownTile16Row32(c, s) /\ ExpertTileM(c) = TileM
        \/ k = DownTile8Row32(c, s) /\ DownTiles(c) = ExpertTiles(c, TileM)
        \/ k = DownTile4Row32(c, s) /\ DownTiles(c) = ExpertTiles(c, TileM \div 2)
    BY <1>4, <2>2, <2>3, TileFacts DEF DownKernel, k
  <2> DEFINE a == DownRead(c)
             h == TileM \div 2
             KW == Kernel(a, TileWork(c, s, DownTiles(c), 2 * TileM, TRUE))
             K8 == Kernel(a, TileWork(c, s, ExpertTiles(c, TileM), TileM, FALSE))
             K4 == Kernel(a, TileWork(c, s, ExpertTiles(c, h), h, FALSE))
  <2>5. (k = KW /\ ExpertTileM(c) = TileM) \/ k = K8 \/ k = K4
    BY <2>1, <2>4 DEF DownTile16Block16, DownTile16RowSpan, DownTile16Row2048, DownTile16Row32,
                      DownTile8Row32, DownTile4Row32
  <2> HIDE DEF a, h
  <2>6. K8.as = a /\ Covers(c, K8.work)
    BY <1>1, <1>4, TileKernelCovers
  <2>7. K4.as = a /\ Covers(c, K4.work)
    <3>1. h \in Nat \ {0}
      BY <1>1 DEF h
    <3> QED
      BY <1>4, <3>1, TileKernelCovers
  <2>8. ExpertTileM(c) = TileM => KW.as = a /\ Covers(c, KW.work)
    BY <1>4, WideKernelCovers
  <2> HIDE DEF KW, K8, K4
  <2> QED
    BY <2>5, <2>6, <2>7, <2>8 DEF Covers, a, k
<1>5. CASE ~UseDirectSum(c) /\ c.down # "nvfp4" /\ ~UseTiles(c)
  <2>1. DownRead(c) = "q2"
    BY <1>5 DEF DownRead
  <2>2. UseP2(c) => UseSorted(c)
    BY DEF UseP2
  <2>3. \/ k = DownSortedP2(c, s) /\ UseSorted(c)
        \/ k = DownSorted(c, s) /\ UseSorted(c)
        \/ k = DownQwarp32(c)
    BY <1>5, <2>2 DEF DownKernel, k
  <2>4. \/ k = Kernel("q2", PairWork(c))
        \/ UseSorted(c) /\ k = Kernel("q2", P2Work(c, s))
        \/ UseSorted(c) /\ k = Kernel("q2", SortedWork(c, s))
    BY <2>3 DEF DownSortedP2, DownSorted, DownQwarp32
  <2>5. k.as = "q2" /\ Covers(c, k.work)
    BY <2>4, PlainKernelCovers
  <2> QED
    BY <2>1, <2>5 DEF Covers, k
<1> QED
  BY <1>2, <1>3, <1>4, <1>5

(***************************************************************************)
(* The scatter kernel                                                      *)
(***************************************************************************)
Own(c, e) == {p \in Pairs(c) : ExpertOf(c, p) = e}
Placed(c, s, e) == {p \in Own(c, e) : \E i \in Pairs(c) : s[i] = p}
\* the pairs placed so far lie at the beginning of the runs, up to the cursors
Scattering(c, s, cur) ==
  /\ s \in [Pairs(c) -> Pairs(c) \cup {Unset}]
  /\ cur \in [0 .. Experts - 1 -> Nat]
  /\ \A i, j \in Pairs(c) : s[i] # Unset /\ s[i] = s[j] => i = j
  /\ \A i \in Pairs(c) : s[i] # Unset =>
       Offsets(c)[ExpertOf(c, s[i])] <= i /\ i < cur[ExpertOf(c, s[i])]
  /\ \A e \in 0 .. Experts - 1 : cur[e] = Offsets(c)[e] + Cardinality(Placed(c, s, e))

LEMMA UnsetIsNoPair == ASSUME NEW c \in Launches PROVE Unset \notin Pairs(c)
BY MoeLaunchFacts DEF Unset, Pairs

LEMMA OwnFacts ==
  ASSUME NEW c \in Launches, NEW e \in 0 .. Experts - 1
  PROVE  IsFiniteSet(Own(c, e)) /\ Cardinality(Own(c, e)) = Counts(c)[e]
<1>1. IsFiniteSet(Pairs(c)) /\ Own(c, e) \in SUBSET Pairs(c)
  BY MoeLaunchFacts DEF Own
<1>2. IsFiniteSet(Own(c, e))
  BY <1>1, FS_Subset
<1> QED
  BY <1>2 DEF Counts, Own

LEMMA PlacedFacts ==
  ASSUME NEW c \in Launches, NEW s, NEW e \in 0 .. Experts - 1
  PROVE  /\ IsFiniteSet(Placed(c, s, e)) /\ Cardinality(Placed(c, s, e)) \in Nat
         /\ Cardinality(Placed(c, s, e)) <= Counts(c)[e]
<1>1. Placed(c, s, e) \in SUBSET Own(c, e)
  BY DEF Placed
<1> QED
  BY <1>1, OwnFacts, FS_Subset, FS_CardinalityType

LEMMA ScatterStarts ==
  ASSUME NEW c \in Launches
  PROVE  Scattering(c, [i \in Pairs(c) |-> Unset], Offsets(c))
<1> DEFINE s == [i \in Pairs(c) |-> Unset]
<1>1. \A e \in 0 .. Experts - 1 : Placed(c, s, e) = {}
  BY UnsetIsNoPair DEF Placed, Own
<1>2. \A e \in 0 .. Experts - 1 : Cardinality(Placed(c, s, e)) = 0
  BY <1>1, FS_EmptySet
<1>3. \A e \in 0 .. Experts - 1 : Offsets(c)[e] \in Nat
  BY RunFacts
<1>4. Offsets(c) \in [0 .. Experts - 1 -> Nat]
  BY <1>3 DEF Offsets
<1>5. s \in [Pairs(c) -> Pairs(c) \cup {Unset}] /\ \A i \in Pairs(c) : s[i] = Unset
  OBVIOUS
<1> HIDE DEF s
<1>6. Scattering(c, s, Offsets(c))
  BY <1>2, <1>3, <1>4, <1>5 DEF Scattering
<1> QED
  BY <1>6 DEF s

LEMMA ScatterGoesOn ==
  ASSUME NEW c \in Launches, NEW s, NEW cur, Scattering(c, s, cur),
         NEW pair \in Pairs(c), pair \notin {s[i] : i \in Pairs(c)},
         NEW e, e = ExpertOf(c, pair)
  PROVE  Scattering(c, [s EXCEPT ![cur[e]] = pair], [cur EXCEPT ![e] = @ + 1])
<1> DEFINE a == cur[e]
           t == [s EXCEPT ![a] = pair]
           next == [cur EXCEPT ![e] = @ + 1]
<1>1. e \in 0 .. Experts - 1
  BY MoeLaunchFacts
<1>2. /\ s \in [Pairs(c) -> Pairs(c) \cup {Unset}] /\ cur \in [0 .. Experts - 1 -> Nat]
      /\ \A f \in 0 .. Experts - 1 : cur[f] = Offsets(c)[f] + Cardinality(Placed(c, s, f))
  BY DEF Scattering
<1>3. pair # Unset
  BY UnsetIsNoPair
<1>4. pair \in Own(c, e) \ Placed(c, s, e)
  BY DEF Own, Placed
<1>5. Cardinality(Placed(c, s, e)) < Counts(c)[e]
  <2>1. Placed(c, s, e) \cup {pair} \in SUBSET Own(c, e)
    BY <1>4 DEF Placed
  <2>2. Cardinality(Placed(c, s, e) \cup {pair}) = Cardinality(Placed(c, s, e)) + 1
    BY <1>1, <1>4, PlacedFacts, FS_AddElement
  <2>3. Cardinality(Placed(c, s, e) \cup {pair}) <= Counts(c)[e]
    BY <1>1, <2>1, OwnFacts, FS_Subset
  <2> QED
    BY <1>1, <2>2, <2>3, PlacedFacts, RunFacts
<1>6. InRun(c, e, a) /\ a \in Nat
  BY <1>1, <1>2, <1>5, PlacedFacts, RunFacts DEF InRun
<1>7. a \in Pairs(c)
  BY <1>1, <1>6, OneRun
<1>8. s[a] = Unset
  <2>1. SUFFICES ASSUME s[a] # Unset PROVE FALSE
    OBVIOUS
  <2> DEFINE f == ExpertOf(c, s[a])
  <2>2. s[a] \in Pairs(c)
    BY <1>2, <1>7, <2>1
  <2>3. f \in 0 .. Experts - 1
    BY <2>2, MoeLaunchFacts
  <2>4. Offsets(c)[f] <= a /\ a < cur[f]
    BY <1>7, <2>1 DEF Scattering
  <2> HIDE DEF f
  <2>5. InRun(c, f, a)
    BY <1>2, <1>6, <2>3, <2>4, PlacedFacts, RunFacts DEF InRun
  <2>6. f = e
    BY <1>1, <1>6, <2>3, <2>5, OneRun
  <2> QED
    BY <1>6, <2>4, <2>6
<1>9. /\ t \in [Pairs(c) -> Pairs(c) \cup {Unset}]
      /\ t[a] = pair
      /\ \A i \in Pairs(c) : i # a => t[i] = s[i]
  BY <1>2, <1>7
<1>10. /\ next \in [0 .. Experts - 1 -> Nat]
       /\ next[e] = a + 1
       /\ \A f \in 0 .. Experts - 1 : f # e => next[f] = cur[f]
  BY <1>1, <1>2
<1> HIDE DEF t, next, a
<1>11. Placed(c, t, e) = Placed(c, s, e) \cup {pair}
  BY <1>3, <1>4, <1>7, <1>8, <1>9, UnsetIsNoPair DEF Placed, Own
<1>12. \A f \in 0 .. Experts - 1 : f # e => Placed(c, t, f) = Placed(c, s, f)
  BY <1>7, <1>8, <1>9, UnsetIsNoPair DEF Placed, Own
<1>13. Cardinality(Placed(c, t, e)) = Cardinality(Placed(c, s, e)) + 1
  BY <1>1, <1>4, <1>11, PlacedFacts, FS_AddElement
<1>14. \A f \in 0 .. Experts - 1 : next[f] = Offsets(c)[f] + Cardinality(Placed(c, t, f))
  <2> TAKE f \in 0 .. Experts - 1
  <2>1. CASE f = e
    BY <1>1, <1>2, <1>10, <1>13, <2>1, PlacedFacts, RunFacts DEF a
  <2>2. CASE f # e
    BY <1>2, <1>10, <1>12, <2>2
  <2> QED
    BY <2>1, <2>2
<1>15. \A i, j \in Pairs(c) : t[i] # Unset /\ t[i] = t[j] => i = j
  BY <1>2, <1>9 DEF Scattering
<1>16. ASSUME NEW i \in Pairs(c), t[i] # Unset
       PROVE  Offsets(c)[ExpertOf(c, t[i])] <= i /\ i < next[ExpertOf(c, t[i])]
  <2>1. CASE i = a
    BY <1>6, <1>9, <1>10, <2>1 DEF InRun
  <2>2. CASE i # a
    <3> DEFINE f == ExpertOf(c, s[i])
    <3>1. t[i] = s[i] /\ s[i] \in Pairs(c) /\ s[i] # Unset
      BY <1>2, <1>9, <1>16, <2>2
    <3>2. f \in 0 .. Experts - 1 /\ i \in Int
      BY <3>1, MoeLaunchFacts DEF Pairs
    <3>3. Offsets(c)[f] <= i /\ i < cur[f]
      BY <3>1 DEF Scattering
    <3> HIDE DEF f
    <3>4. i < next[f]
      <4>1. CASE f = e
        BY <1>2, <1>6, <1>10, <3>2, <3>3, <4>1 DEF a
      <4>2. CASE f # e
        BY <1>10, <3>2, <3>3, <4>2
      <4> QED
        BY <4>1, <4>2
    <3> QED
      BY <3>1, <3>3, <3>4 DEF f
  <2> QED
    BY <2>1, <2>2
<1>17. Scattering(c, t, next)
  BY <1>9, <1>10, <1>14, <1>15, <1>16 DEF Scattering
<1> QED
  BY <1>17 DEF t, next, a

LEMMA ScatterEnds ==
  ASSUME NEW c \in Launches, NEW s, NEW cur, Scattering(c, s, cur),
         Unset \notin {s[i] : i \in Pairs(c)}
  PROVE  SortedByExpert(c, s)
<1>1. s \in [Pairs(c) -> Pairs(c)]
  BY DEF Scattering
<1>2. \A i, j \in Pairs(c) : s[i] = s[j] => i = j
  BY DEF Scattering
<1>3. \A p \in Pairs(c) : \E i \in Pairs(c) : s[i] = p
  <2>1. s \in Injection(Pairs(c), Pairs(c))
    BY <1>1, <1>2 DEF Injection, IsInjective
  <2>2. s \in Surjection(Pairs(c), Pairs(c))
    BY <2>1, MoeLaunchFacts, FS_Injection
  <2> QED
    BY <2>2 DEF Surjection
<1>4. ASSUME NEW i \in Pairs(c) PROVE InRun(c, ExpertOf(c, s[i]), i)
  <2> DEFINE f == ExpertOf(c, s[i])
  <2>1. s[i] \in Pairs(c) /\ s[i] # Unset
    BY <1>1
  <2>2. f \in 0 .. Experts - 1 /\ i \in Int
    BY <2>1, MoeLaunchFacts DEF Pairs
  <2>3. Offsets(c)[f] <= i /\ i < cur[f]
    BY <2>1 DEF Scattering
  <2> HIDE DEF f
  <2>4. cur[f] = Offsets(c)[f] + Cardinality(Placed(c, s, f))
    BY <2>2 DEF Scattering
  <2>5. InRun(c, f, i)
    BY <2>2, <2>3, <2>4, PlacedFacts, RunFacts DEF InRun
  <2> QED
    BY <2>5 DEF f
<1> QED
  BY <1>1, <1>2, <1>3, <1>4 DEF SortedByExpert

(***************************************************************************)
(* What the kernels leave in the tensors                                   *)
(***************************************************************************)
LEMMA RowsOfPairs ==
  ASSUME call \in Launches, NEW k, Reaches(call, k.work), NEW x, NEW rows
  PROVE  /\ GateRows(k, x) = [p \in Pairs(call) |->
              [x |-> x, pair |-> p, expert |-> ExpertOf(call, p), as |-> k.as]]
         /\ KeptRows(k, rows) = [p \in Pairs(call) |->
              [mid |-> rows[p], expert |-> ExpertOf(call, p), as |-> k.as]]
<1> DEFINE Mine(p) == {i \in DOMAIN k.work : k.work[i][1] = p}
           i0(p) == CHOOSE i \in Mine(p) : TRUE
<1>1. ASSUME NEW p \in Pairs(call)
      PROVE  Mine(p) # {} /\ k.work[i0(p)][1] = p /\ k.work[i0(p)][2] = ExpertOf(call, p)
  <2>1. Mine(p) # {}
    BY DEF Reaches
  <2>2. i0(p) \in Mine(p)
    BY <2>1
  <2> HIDE DEF i0
  <2> QED
    BY <2>1, <2>2 DEF Reaches
<1>2. GateRows(k, x) = [p \in Pairs(call) |->
        IF Mine(p) = {} THEN Lost ELSE [x |-> x, pair |-> p, expert |-> k.work[i0(p)][2], as |-> k.as]]
  BY DEF GateRows
<1>3. KeptRows(k, rows) = [p \in Pairs(call) |->
        IF Mine(p) = {} THEN Lost
        ELSE [mid |-> rows[k.work[i0(p)][1]], expert |-> k.work[i0(p)][2], as |-> k.as]]
  BY DEF KeptRows, Result
<1> HIDE DEF Mine, i0
<1> QED
  BY <1>1, <1>2, <1>3

\* the pairs of a token
LEMMA PairsOfToken ==
  ASSUME NEW c \in Launches, NEW t \in 0 .. Tokens(c) - 1
  PROVE  /\ t * Slots \in Nat /\ Slots \in Nat \ {0}
         /\ t * Slots .. t * Slots + Slots - 1 \subseteq Pairs(c)
         /\ \A p \in Pairs(c) : TokenOf(p) = t <=> p \in t * Slots .. t * Slots + Slots - 1
<1>1. Slots \in Nat \ {0} /\ Tokens(c) \in Nat /\ Tokens(c) * Slots = Len(c.selected) /\ t \in Nat
  BY MoeAssumption, MoeLaunchFacts
<1>2. t * Slots \in Nat /\ (t + 1) * Slots = t * Slots + Slots
  BY <1>1
<1>3. (t + 1) * Slots <= Tokens(c) * Slots
  <2> DEFINE n == Tokens(c)
  <2>1. n \in Nat /\ t + 1 <= n
    BY <1>1
  <2> HIDE DEF n
  <2>2. (t + 1) * Slots <= n * Slots
    BY <1>1, <2>1
  <2> QED
    BY <2>2 DEF n
<1>4. t * Slots .. t * Slots + Slots - 1 \subseteq Pairs(c)
  BY <1>1, <1>2, <1>3 DEF Pairs
<1>5. ASSUME NEW p \in Pairs(c)
      PROVE  TokenOf(p) = t <=> p \in t * Slots .. t * Slots + Slots - 1
  <2>1. p \in Nat
    BY <1>1 DEF Pairs
  <2>2. CASE TokenOf(p) = t
    BY <1>1, <1>2, <2>1, <2>2, QuotientFacts DEF TokenOf
  <2>3. CASE p \in t * Slots .. t * Slots + Slots - 1
    <3> DEFINE r == p - t * Slots
    <3>1. r \in 0 .. Slots - 1 /\ t * Slots + r = p
      BY <1>1, <1>2, <2>1, <2>3
    <3> HIDE DEF r
    <3> DEFINE n == t * Slots + r
    <3>2. n \div Slots = t /\ n = p
      BY <1>1, <3>1, DivIs
    <3> HIDE DEF n
    <3> QED
      BY <1>1, <2>1, <3>2 DEF TokenOf
  <2> QED
    BY <2>2, <2>3
<1> QED
  BY <1>1, <1>2, <1>4, <1>5

LEMMA AddedOnce ==
  ASSUME call \in Launches, NEW k, Reaches(call, k.work), NEW rows, NEW t \in 0 .. Tokens(call) - 1
  PROVE  LET o == AddedUp(k, rows)[t]
         IN /\ Covers(call, k.work) => Cardinality(DOMAIN o) = Slots
            /\ {o[i] : i \in DOMAIN o} =
                 {[mid |-> rows[t * Slots + e], expert |-> ExpertOf(call, t * Slots + e), as |-> k.as] : e \in 0 .. Slots - 1}
<1> DEFINE o == AddedUp(k, rows)[t]
           D == {j \in DOMAIN k.work : TokenOf(k.work[j][1]) = t}
           P == t * Slots .. t * Slots + Slots - 1
           f == [j \in D |-> k.work[j][1]]
           R(p) == [mid |-> rows[p], expert |-> ExpertOf(call, p), as |-> k.as]
<1>1. o = [i \in D |-> Result(k, i, rows)]
  BY DEF AddedUp
<1>2. /\ t * Slots \in Nat /\ Slots \in Nat \ {0} /\ P \subseteq Pairs(call)
      /\ \A p \in Pairs(call) : TokenOf(p) = t <=> p \in P
  BY PairsOfToken
<1>3. \A j \in D : k.work[j][1] \in P /\ Result(k, j, rows) = R(k.work[j][1])
  BY <1>2 DEF Reaches, Result
<1>4. \A p \in P : \E j \in D : k.work[j][1] = p
  BY <1>2 DEF Reaches
<1>5. Covers(call, k.work) => \A i, j \in D : k.work[i][1] = k.work[j][1] => i = j
  BY DEF Covers
<1>6. IsFiniteSet(P) /\ Cardinality(P) = Slots
  <2> DEFINE a == t * Slots
  <2>1. a \in Nat
    BY <1>2
  <2> HIDE DEF a
  <2>2. IsFiniteSet(a .. a + Slots - 1) /\ Cardinality(a .. a + Slots - 1) = Slots
    BY <1>2, <2>1, FS_Interval
  <2> QED
    BY <2>2 DEF a
<1> HIDE DEF D, P, o
<1>7. Covers(call, k.work) => f \in Injection(D, P)
  BY <1>3, <1>5 DEF Injection, IsInjective
<1>8. f \in Surjection(D, P)
  BY <1>3, <1>4 DEF Surjection
<1>9. ASSUME Covers(call, k.work) PROVE Cardinality(D) = Slots
  <2> HIDE DEF f
  <2>1. /\ IsFiniteSet(D) /\ Cardinality(D) <= Cardinality(P)
        /\ Cardinality(D) = Cardinality(P) <=> f \in Surjection(D, P)
    BY <1>6, <1>7, <1>9, FS_Injection
  <2> QED
    BY <1>6, <1>8, <2>1
<1>10. DOMAIN o = D /\ \A i \in D : o[i] = R(k.work[i][1])
  BY <1>1, <1>3
<1> HIDE DEF R, f
<1>11. {o[i] : i \in DOMAIN o} = {R(p) : p \in P}
  BY <1>3, <1>4, <1>10
<1>12. {R(p) : p \in P} = {R(t * Slots + e) : e \in 0 .. Slots - 1}
  <2>1. \A p \in P : p - t * Slots \in 0 .. Slots - 1 /\ t * Slots + (p - t * Slots) = p
    BY <1>2 DEF P
  <2>2. \A e \in 0 .. Slots - 1 : t * Slots + e \in P
    BY <1>2 DEF P
  <2> QED
    BY <2>1, <2>2
<1> QED
  BY <1>9, <1>10, <1>11, <1>12 DEF o, R

(***************************************************************************)
(* The invariant of a launch                                               *)
(***************************************************************************)
Summed(c, o) ==
  \A t \in 0 .. Tokens(c) - 1 :
    IF c.roomy /\ NoDownKernel(c)
    THEN o[t] = [e \in 1 .. Slots |-> Lost]
    ELSE /\ {o[t][i] : i \in DOMAIN o[t]} = {Expected(c, t * Slots + e) : e \in 0 .. Slots - 1}
         /\ Overlapping(c) \/ Cardinality(DOMAIN o[t]) = Slots
MidRows(c) == [p \in Pairs(c) |-> Expected(c, p).mid]
PairRows(c) == [p \in Pairs(c) |-> Expected(c, p)]

MoeInv ==
  /\ call \in Launches
  /\ step \in {"begin", "count", "scatter", "gate", "quantize", "down", "sum", "gate f32", "done"}
  /\ step \in {"count", "scatter", "gate", "quantize", "down", "sum"} => call.roomy
  /\ step = "gate f32" => ~call.roomy
  /\ step \in {"count", "scatter", "gate"} => downBuf = "xq"
  /\ step = "scatter" => Scattering(call, sorted, cursors)
  /\ step \in {"gate", "quantize", "down"} => SortedFor(call, sorted)
  /\ step = "quantize" => mid = MidRows(call)
  /\ step = "down" => gateBuf = MidRows(call)
  /\ step = "sum" /\ ~NoDownKernel(call) => downBuf = PairRows(call)
  /\ step = "done" /\ ok => Summed(call, out)

LEMMA SumIsSummed ==
  ASSUME call \in Launches, ~(call.roomy /\ NoDownKernel(call))
  PROVE  Summed(call, SumRows(PairRows(call)))
<1> SUFFICES ASSUME NEW t \in 0 .. Tokens(call) - 1
             PROVE  LET o == SumRows(PairRows(call))[t]
                    IN /\ Cardinality(DOMAIN o) = Slots
                       /\ {o[i] : i \in DOMAIN o} = {Expected(call, t * Slots + e) : e \in 0 .. Slots - 1}
  BY DEF Summed
<1> DEFINE o == SumRows(PairRows(call))[t]
<1>1. /\ t * Slots \in Nat /\ Slots \in Nat \ {0}
      /\ t * Slots .. t * Slots + Slots - 1 \subseteq Pairs(call)
  BY PairsOfToken
<1>2. o = [e \in 1 .. Slots |-> PairRows(call)[t * Slots + e - 1]]
  BY DEF SumRows
<1>3. ASSUME NEW e \in 1 .. Slots PROVE o[e] = Expected(call, t * Slots + (e - 1))
  <2>1. t * Slots + e - 1 \in Pairs(call) /\ t * Slots + e - 1 = t * Slots + (e - 1)
    BY <1>1
  <2> QED
    BY <1>2, <2>1 DEF PairRows
<1>4. DOMAIN o = 1 .. Slots
  BY <1>2
<1> HIDE DEF o
<1>5. Cardinality(DOMAIN o) = Slots
  BY <1>1, <1>4, FS_Interval
<1>6. \A e \in 1 .. Slots : e - 1 \in 0 .. Slots - 1
  BY <1>1
<1>7. \A e \in 0 .. Slots - 1 : e + 1 \in 1 .. Slots /\ (e + 1) - 1 = e
  BY <1>1
<1>8. {o[i] : i \in DOMAIN o} = {Expected(call, t * Slots + e) : e \in 0 .. Slots - 1}
  BY <1>3, <1>4, <1>6, <1>7
<1> QED
  BY <1>5, <1>8 DEF o

LEMMA MoeStarts == MoeInit => MoeInv
BY DEF MoeInit, MoeInv

LEMMA BeginKeeps == ASSUME MoeInv, Begin PROVE MoeInv'
<1>1. CASE step' = "done" /\ ~ok'
  BY <1>1 DEF Begin, MoeInv
<1>2. CASE call.roomy /\ downBuf' = "xq" /\ UseSorted(call) /\ step' = "count"
  BY <1>2 DEF Begin, MoeInv
<1>3. CASE call.roomy /\ downBuf' = "xq" /\ ~UseSorted(call) /\ step' = "gate"
  BY <1>3 DEF Begin, MoeInv, SortedFor
<1>4. CASE ~call.roomy /\ step' = "gate f32"
  BY <1>4 DEF Begin, MoeInv
<1> QED
  BY <1>1, <1>2, <1>3, <1>4 DEF Begin

LEMMA CountKeepsPairs == ASSUME MoeInv, CountPairs PROVE MoeInv'
<1>1. CASE step' = "done" /\ ~ok'
  BY <1>1 DEF CountPairs, MoeInv
<1>2. CASE cursors' = Offsets(call) /\ sorted' = [i \in Pairs(call) |-> Unset] /\ step' = "scatter"
  <2>1. Scattering(call, sorted', cursors')
    BY <1>2, ScatterStarts DEF MoeInv
  <2> QED
    BY <1>2, <2>1 DEF CountPairs, MoeInv
<1> QED
  BY <1>1, <1>2 DEF CountPairs

LEMMA ScatterKeeps == ASSUME MoeInv, NEW pair \in Pairs(call), Scatter(pair) PROVE MoeInv'
<1>1. /\ call \in Launches /\ Scattering(call, sorted, cursors) /\ step = "scatter"
      /\ call.roomy /\ downBuf = "xq"
  BY DEF MoeInv, Scatter
<1>2. Scattering(call, sorted', cursors')
  BY <1>1, ScatterGoesOn DEF Scatter
<1>3. CASE Unset \in {sorted'[i] : i \in Pairs(call)}
  <2>1. step' = "scatter"
    BY <1>1, <1>3 DEF Scatter
  <2> QED
    BY <1>1, <1>2, <2>1 DEF Scatter, MoeInv
<1>4. CASE Unset \notin {sorted'[i] : i \in Pairs(call)}
  <2>1. step' = "gate"
    BY <1>4 DEF Scatter
  <2>2. SortedByExpert(call, sorted')
    BY <1>1, <1>2, <1>4, ScatterEnds
  <2> QED
    BY <1>1, <2>1, <2>2 DEF Scatter, MoeInv, SortedFor
<1> QED
  BY <1>3, <1>4

LEMMA GateUpMidKeeps == ASSUME MoeInv, GateUpMid PROVE MoeInv'
<1> DEFINE k == GateKernel(call, sorted)
<1>1. /\ call \in Launches /\ SortedFor(call, sorted) /\ call.roomy /\ downBuf = "xq"
  BY DEF MoeInv, GateUpMid
<1>2. mid' = GateRows(k, downBuf) /\ step' = "quantize" /\ UNCHANGED <<call, sorted>>
  BY DEF GateUpMid
<1>3. k.as = GateRead(call) /\ Reaches(call, k.work)
  BY <1>1, GateCovers
<1> HIDE DEF k
<1>4. mid' = [p \in Pairs(call) |-> [x |-> "xq", pair |-> p, expert |-> ExpertOf(call, p), as |-> GateRead(call)]]
  BY <1>1, <1>2, <1>3, RowsOfPairs
<1>5. mid' = MidRows(call)
  BY <1>1, <1>4 DEF MidRows, Expected
<1> QED
  BY <1>1, <1>2, <1>5 DEF MoeInv

LEMMA QuantizeMidKeeps == ASSUME MoeInv, QuantizeMid PROVE MoeInv'
BY DEF MoeInv, QuantizeMid

LEMMA DownKeeps == ASSUME MoeInv, Down PROVE MoeInv'
<1> DEFINE k == DownKernel(call, sorted)
<1>1. /\ call \in Launches /\ SortedFor(call, sorted) /\ call.roomy /\ gateBuf = MidRows(call)
      /\ UNCHANGED <<call, sorted>>
  BY DEF MoeInv, Down
<1>2. CASE NoDownKernel(call)
  <2>1. step' = "sum" /\ NoDownKernel(call')
    BY <1>1, <1>2 DEF Down
  <2> QED
    BY <1>1, <2>1 DEF MoeInv
<1>3. CASE ~NoDownKernel(call)
  <2>1. /\ k.as = DownRead(call) /\ Reaches(call, k.work)
        /\ ~Overlapping(call) /\ (UseDirectSum(call) \/ UseAtomicDown(call)) => Covers(call, k.work)
    BY <1>1, <1>3, DownCovers
  <2>2. \A p \in Pairs(call) :
          [mid |-> gateBuf[p], expert |-> ExpertOf(call, p), as |-> k.as] = Expected(call, p)
    BY <1>1, <2>1 DEF MidRows, Expected
  <2>3. CASE UseDirectSum(call) \/ UseAtomicDown(call)
    <3>1. out' = AddedUp(k, gateBuf) /\ step' = "done"
      BY <1>3, <2>3 DEF Down
    <3> HIDE DEF k
    <3>2. ASSUME NEW t \in 0 .. Tokens(call) - 1
          PROVE  /\ Overlapping(call) \/ Cardinality(DOMAIN out'[t]) = Slots
                 /\ {out'[t][i] : i \in DOMAIN out'[t]} = {Expected(call, t * Slots + e) : e \in 0 .. Slots - 1}
      <4>1. /\ Covers(call, k.work) => Cardinality(DOMAIN out'[t]) = Slots
            /\ {out'[t][i] : i \in DOMAIN out'[t]} =
                 {[mid |-> gateBuf[t * Slots + e], expert |-> ExpertOf(call, t * Slots + e), as |-> k.as] : e \in 0 .. Slots - 1}
        BY <1>1, <2>1, <3>1, AddedOnce
      <4>2. \A e \in 0 .. Slots - 1 : t * Slots + e \in Pairs(call)
        BY <1>1, PairsOfToken
      <4> QED
        BY <2>1, <2>2, <2>3, <4>1, <4>2
    <3>3. Summed(call, out')
      BY <1>3, <3>2 DEF Summed
    <3> QED
      BY <1>1, <3>1, <3>3 DEF MoeInv
  <2>4. CASE ~(UseDirectSum(call) \/ UseAtomicDown(call))
    <3>1. downBuf' = KeptRows(k, gateBuf) /\ step' = "sum"
      BY <1>3, <2>4 DEF Down
    <3> HIDE DEF k
    <3>2. downBuf' = [p \in Pairs(call) |-> [mid |-> gateBuf[p], expert |-> ExpertOf(call, p), as |-> k.as]]
      BY <1>1, <2>1, <3>1, RowsOfPairs
    <3>3. downBuf' = PairRows(call)
      BY <2>2, <3>2 DEF PairRows
    <3> QED
      BY <1>1, <3>1, <3>3 DEF MoeInv
  <2> QED
    BY <2>3, <2>4
<1> QED
  BY <1>2, <1>3

LEMMA SumKeeps == ASSUME MoeInv, Sum PROVE MoeInv'
<1>1. /\ call \in Launches /\ call.roomy /\ step' = "done" /\ call' = call
      /\ out' = SumRows(IF NoDownKernel(call) THEN Blank(call) ELSE downBuf)
  BY DEF MoeInv, Sum
<1>2. CASE ~NoDownKernel(call)
  <2>1. out' = SumRows(PairRows(call))
    BY <1>1, <1>2 DEF MoeInv, Sum
  <2>2. Summed(call, out')
    BY <1>1, <1>2, <2>1, SumIsSummed
  <2> QED
    BY <1>1, <2>2 DEF MoeInv
<1>3. CASE NoDownKernel(call)
  <2>1. ASSUME NEW t \in 0 .. Tokens(call) - 1
        PROVE  out'[t] = [e \in 1 .. Slots |-> Lost]
    <3>1. /\ t * Slots \in Nat /\ Slots \in Nat \ {0}
          /\ t * Slots .. t * Slots + Slots - 1 \subseteq Pairs(call)
      BY <1>1, PairsOfToken
    <3>2. out'[t] = [e \in 1 .. Slots |-> Blank(call)[t * Slots + e - 1]]
      BY <1>1, <1>3 DEF SumRows
    <3>3. \A e \in 1 .. Slots : Blank(call)[t * Slots + e - 1] = Lost
      <4> TAKE e \in 1 .. Slots
      <4>1. t * Slots + e - 1 \in Pairs(call)
        BY <3>1
      <4> QED
        BY <4>1 DEF Blank
    <3> QED
      BY <3>2, <3>3
  <2>2. Summed(call, out')
    BY <1>1, <1>3, <2>1 DEF Summed
  <2> QED
    BY <1>1, <2>2 DEF MoeInv
<1> QED
  BY <1>2, <1>3

LEMMA PlainF32Keeps == ASSUME MoeInv, PlainF32 PROVE MoeInv'
<1> DEFINE g == GateF32(call)
           d == DownF32(call)
<1>1. /\ call \in Launches /\ ~call.roomy /\ GateRead(call) = "iq2" /\ DownRead(call) = "q2"
  BY DEF MoeInv, PlainF32, GateRead, DownRead
<1>2. /\ mid' = GateRows(g, "x") /\ downBuf' = KeptRows(d, mid') /\ out' = SumRows(downBuf')
      /\ step' = "done" /\ call' = call
  BY DEF PlainF32
<1>3. g.as = "iq2" /\ Reaches(call, g.work) /\ d.as = "q2" /\ Reaches(call, d.work)
  BY <1>1, PairWorkCovers DEF GateF32, DownF32, Kernel, Covers
<1> HIDE DEF g, d
<1>4. mid' = [p \in Pairs(call) |-> [x |-> "x", pair |-> p, expert |-> ExpertOf(call, p), as |-> "iq2"]]
  BY <1>1, <1>2, <1>3, RowsOfPairs
<1>5. downBuf' = [p \in Pairs(call) |-> [mid |-> mid'[p], expert |-> ExpertOf(call, p), as |-> "q2"]]
  BY <1>1, <1>2, <1>3, RowsOfPairs
<1>6. downBuf' = PairRows(call)
  BY <1>1, <1>4, <1>5 DEF PairRows, Expected
<1>7. Summed(call, out')
  BY <1>1, <1>2, <1>6, SumIsSummed
<1> QED
  BY <1>1, <1>2, <1>7 DEF MoeInv

LEMMA MoeNextKeeps == ASSUME MoeInv, [MoeNext]_moeVars PROVE MoeInv'
<1>1. CASE Begin BY <1>1, BeginKeeps
<1>2. CASE CountPairs BY <1>2, CountKeepsPairs
<1>3. CASE GateUpMid BY <1>3, GateUpMidKeeps
<1>4. CASE QuantizeMid BY <1>4, QuantizeMidKeeps
<1>5. CASE Down BY <1>5, DownKeeps
<1>6. CASE Sum BY <1>6, SumKeeps
<1>7. CASE PlainF32 BY <1>7, PlainF32Keeps
<1>8. ASSUME NEW pair \in Pairs(call), Scatter(pair) PROVE MoeInv'
  BY <1>8, ScatterKeeps
<1>9. CASE UNCHANGED moeVars
  BY <1>9 DEF MoeInv, moeVars
<1> QED
  BY <1>1, <1>2, <1>3, <1>4, <1>5, <1>6, <1>7, <1>8, <1>9 DEF MoeNext

\* routed_moe_launch(): the invariant of a launch.
THEOREM MoeInvAlways == MoeSpec => []MoeInv
<1>1. MoeInit => MoeInv
  BY MoeStarts
<1>2. MoeInv /\ [MoeNext]_moeVars => MoeInv'
  BY MoeNextKeeps
<1> QED
  BY <1>1, <1>2, PTL DEF MoeSpec

\* routed_moe_launch(): whatever kernels the switches and the formats of the weights
\* choose, and in whatever order the threads of the scatter kernel take their places,
\* a launch that reports success gives every token the results of its own experts,
\* each once, for any number of tokens, experts and slots, any width of the tiles and
\* any set of launches. The launches that add nothing, and those that may add a result
\* twice, are the ones PairsSummedOnce names.
THEOREM EveryPairOnce == MoeSpec => []PairsSummedOnce
<1>1. MoeInv => PairsSummedOnce
  BY DEF MoeInv, Summed, PairsSummedOnce
<1>2. MoeSpec => []MoeInv
  BY MoeInvAlways
<1> QED
  BY <1>1, <1>2, PTL

-----------------------------------------------------------------------------
(* The compressed rows of a layer. *)

LEMMA RemainderFacts ==
  ASSUME NEW n \in Nat, NEW d \in Nat \ {0}
  PROVE  /\ n \div d \in Nat /\ n % d \in 0 .. d - 1
         /\ n = (n \div d) * d + (n % d)
<1>1. n \div d \in Nat /\ (n \div d) * d <= n /\ n < (n \div d) * d + d
  BY QuotientFacts
<1>2. n % d \in 0 .. d - 1
  OBVIOUS
<1>3. n = d * (n \div d) + (n % d)
  BY <1>1
<1>4. (n \div d) * d = d * (n \div d)
  BY <1>1
<1> QED
  BY <1>1, <1>2, <1>3

LEMMA Divides ==
  ASSUME NEW b \in Nat, NEW r \in Nat \ {0}, NEW i \in 0 .. r - 1
  PROVE  (b * r + i) \div r = b /\ (b * r + i) % r = i
<1> DEFINE n == b * r + i
<1>1. n \in Nat
  OBVIOUS
<1>2. n \div r = b
  BY DivIs
<1> HIDE DEF n
<1>3. n \div r \in Nat /\ n % r \in 0 .. r - 1 /\ n = (n \div r) * r + (n % r)
  BY <1>1, RemainderFacts
<1>4. n = b * r + (n % r)
  BY <1>2, <1>3
<1>5. b * r \in Nat
  OBVIOUS
<1>6. n % r = i
  BY <1>3, <1>4, <1>5 DEF n
<1> QED
  BY <1>2, <1>6 DEF n

\* The next position is in the same block, or begins the next one.
LEMMA NextPosition ==
  ASSUME NEW p \in Nat, NEW r \in Nat \ {0}
  PROVE  /\ Emits(r, p) <=> p % r = r - 1
         /\ p % r # r - 1 => (p + 1) \div r = p \div r /\ (p + 1) % r = (p % r) + 1
         /\ p % r = r - 1 => (p + 1) \div r = p \div r + 1 /\ (p + 1) % r = 0
<1> DEFINE b == p \div r
           i == p % r
<1>1. b \in Nat /\ i \in 0 .. r - 1 /\ p = b * r + i
  BY RemainderFacts
<1> HIDE DEF b, i
<1>2. CASE i # r - 1
  <2>1. i + 1 \in 0 .. r - 1 /\ p + 1 = b * r + (i + 1)
    BY <1>1, <1>2
  <2>2. (p + 1) \div r = b /\ (p + 1) % r = i + 1
    BY <1>1, <2>1, Divides
  <2> QED
    BY <1>1, <1>2, <2>2 DEF b, i, Emits
<1>3. CASE i = r - 1
  <2>1. (b + 1) * r = b * r + r
    BY <1>1
  <2>2. p + 1 = (b + 1) * r + 0 /\ 0 \in 0 .. r - 1 /\ b + 1 \in Nat
    BY <1>1, <1>3, <2>1
  <2>3. ((b + 1) * r + 0) \div r = b + 1 /\ ((b + 1) * r + 0) % r = 0
    BY <2>2, Divides
  <2>4. (p + 1) \div r = b + 1 /\ (p + 1) % r = 0
    BY <2>2, <2>3
  <2> QED
    BY <1>1, <1>3, <2>4 DEF b, i, Emits
<1> QED
  BY <1>2, <1>3

\* A token of block b as the state of a layer holds it whose last prompt ended
\* before cut: none when it was the prompt's, and the block before.
SinceTok(cut, b, j) == IF b * 4 + j >= cut THEN Token(b * 4 + j, j) ELSE NoToken
PrevTok(cut, b, j) ==
  IF b = cut \div 4 THEN (IF cut = 0 THEN NoToken ELSE Token(cut - 4 + j, (cut - 4 + j) % 4))
  ELSE SinceTok(cut, b - 1, j)
\* No prompt yet, or one of four tokens at least.
CutAt(cut, p) == cut \in Nat /\ (cut = 0 \/ cut >= 4) /\ cut <= p

\* What the rolling state holds when b blocks and i tokens more are evaluated.
StateHolds(state, r, cut, b, i) ==
  /\ DOMAIN state = StateRows(r)
  /\ r # 4 => \A j \in 0 .. i - 1 : state[j] = Token(b * r + j, j)
  /\ r = 4 => /\ CutAt(cut, b * 4 + i)
              /\ \A j \in 0 .. i - 1 : state[4 + j] = SinceTok(cut, b, j)
              /\ \A j \in 0 .. 3 : state[j] = PrevTok(cut, b, j)

\* The tokens of block b.
BlockTokens(r, b) == {Token(b * r + j, j) : j \in 0 .. r - 1}

LEMMA BlockWeighted ==
  ASSUME NEW r \in Nat \ {0}, NEW b \in Nat, NEW h
  PROVE  Weighted(BlockTokens(r, b), h) = {<<p, p % r, h>> : p \in b * r .. b * r + r - 1}
<1>1. b * r \in Nat
  OBVIOUS
<1>2. \A j \in 0 .. r - 1 : Token(b * r + j, j) # NoToken
  BY <1>1 DEF Token, NoToken, None
<1>3. BlockTokens(r, b) \ {NoToken} = BlockTokens(r, b)
  BY <1>2 DEF BlockTokens
<1> DEFINE W == {<<p, p % r, h>> : p \in b * r .. b * r + r - 1}
<1>4. Weighted(BlockTokens(r, b), h) = {<<t.pos, t.ape, h>> : t \in BlockTokens(r, b)}
  BY <1>3 DEF Weighted
<1>5. \A j \in 0 .. r - 1 : (b * r + j) % r = j /\ b * r + j \in b * r .. b * r + r - 1
  BY <1>1, Divides
<1>6. ASSUME NEW t \in BlockTokens(r, b) PROVE <<t.pos, t.ape, h>> \in W
  <2>1. PICK j \in 0 .. r - 1 : t = Token(b * r + j, j)
    BY DEF BlockTokens
  <2>2. t.pos = b * r + j /\ t.ape = j
    BY <2>1 DEF Token
  <2> QED
    BY <1>5, <2>2
<1>7. ASSUME NEW p \in b * r .. b * r + r - 1
      PROVE  \E t \in BlockTokens(r, b) : <<p, p % r, h>> = <<t.pos, t.ape, h>>
  <2> DEFINE j == p - b * r
             t == Token(b * r + j, j)
  <2>1. j \in 0 .. r - 1 /\ p = b * r + j
    BY <1>1
  <2> HIDE DEF j
  <2>2. t \in BlockTokens(r, b)
    BY <2>1 DEF BlockTokens
  <2>3. t.pos = p /\ t.ape = p % r
    BY <1>5, <2>1 DEF Token
  <2> HIDE DEF t
  <2> QED
    BY <2>2, <2>3
<1>8. W \subseteq {<<t.pos, t.ape, h>> : t \in BlockTokens(r, b)}
  BY <1>7
<1>9. {<<t.pos, t.ape, h>> : t \in BlockTokens(r, b)} \subseteq W
  <2> HIDE DEF W
  <2> QED
    BY <1>6
<1> QED
  BY <1>4, <1>8, <1>9

\* What a row stands for, as the tokens of its blocks.
LEMMA PoolIs ==
  ASSUME NEW r \in Nat \ {0}, NEW b \in Nat
  PROVE  /\ r # 4 => PoolOf(r, b) = Weighted(BlockTokens(r, b), 0)
         /\ r = 4 => PoolOf(r, b) = (IF b > 0 THEN Weighted(BlockTokens(r, b - 1), 0) ELSE {})
                                      \cup Weighted(BlockTokens(r, b), 1)
<1>1. \A h : Weighted(BlockTokens(r, b), h) = {<<p, p % r, h>> : p \in b * r .. b * r + r - 1}
  BY BlockWeighted
<1>2. b > 0 => \A h : Weighted(BlockTokens(r, b - 1), h) = {<<p, p % r, h>> : p \in (b - 1) * r .. (b - 1) * r + r - 1}
  <2>1. b > 0 => b - 1 \in Nat
    OBVIOUS
  <2> QED
    BY <2>1, BlockWeighted
<1> QED
  BY <1>1, <1>2 DEF PoolOf

\* The tokens a state pools of block b and of what it has as the block before.
SinceToks(cut, b) == {SinceTok(cut, b, j) : j \in 0 .. 3}
PrevToks(cut, b) == {PrevTok(cut, b, j) : j \in 0 .. 3}

LEMMA CutBlock ==
  ASSUME NEW cut, NEW b \in Nat, CutAt(cut, b * 4 + 3)
  PROVE  cut \div 4 \in Nat /\ cut \div 4 <= b /\ cut \div 4 # b + 1
<1>1. cut \in Nat /\ cut <= b * 4 + 3
  BY DEF CutAt
<1>2. cut \div 4 \in Nat /\ (cut \div 4) * 4 <= cut
  BY <1>1, QuotientFacts
<1> DEFINE q == cut \div 4
<1> HIDE DEF q
<1>3. q \in Nat /\ q * 4 <= b * 4 + 3
  BY <1>1, <1>2 DEF q
<1>4. q <= b /\ q # b + 1
  BY <1>3
<1> QED
  BY <1>3, <1>4 DEF q

\* Four tokens in a row, those before cut without weight.
LEMMA SinceWeighted ==
  ASSUME NEW cut \in Nat, NEW b \in Nat, NEW h
  PROVE  Weighted(SinceToks(cut, b), h) = {<<p, p % 4, h>> : p \in {q \in b * 4 .. b * 4 + 3 : q >= cut}}
<1> DEFINE W == {<<p, p % 4, h>> : p \in {q \in b * 4 .. b * 4 + 3 : q >= cut}}
           V == {<<x.pos, x.ape, h>> : x \in SinceToks(cut, b) \ {NoToken}}
<1>1. \A j \in 0 .. 3 : (b * 4 + j) % 4 = j /\ b * 4 + j \in b * 4 .. b * 4 + 3
  OBVIOUS
<1>2. ASSUME NEW x \in SinceToks(cut, b) \ {NoToken} PROVE <<x.pos, x.ape, h>> \in W
  <2>1. PICK j \in 0 .. 3 : x = SinceTok(cut, b, j)
    BY DEF SinceToks
  <2>2. b * 4 + j >= cut /\ x = Token(b * 4 + j, j)
    BY <2>1 DEF SinceTok
  <2>3. x.pos = b * 4 + j /\ x.ape = j
    BY <2>2 DEF Token
  <2> QED
    BY <1>1, <2>2, <2>3
<1>3. ASSUME NEW p \in b * 4 .. b * 4 + 3, p >= cut
      PROVE  \E x \in SinceToks(cut, b) \ {NoToken} : <<p, p % 4, h>> = <<x.pos, x.ape, h>>
  <2> DEFINE j == p - b * 4
             x == Token(b * 4 + j, j)
  <2>1. j \in 0 .. 3 /\ p = b * 4 + j
    OBVIOUS
  <2> HIDE DEF j
  <2>2. x = SinceTok(cut, b, j)
    BY <1>3, <2>1 DEF SinceTok
  <2>3. x.pos = p /\ x.ape = p % 4 /\ x # NoToken
    BY <1>1, <2>1 DEF Token, NoToken, None
  <2> HIDE DEF x
  <2>4. x \in SinceToks(cut, b) \ {NoToken}
    BY <2>1, <2>2, <2>3 DEF SinceToks
  <2> QED
    BY <2>3, <2>4
<1>4. Weighted(SinceToks(cut, b), h) = V
  BY DEF Weighted
<1>5. V \subseteq W
  <2> HIDE DEF W
  <2> QED
    BY <1>2
<1>6. W \subseteq V
  BY <1>3
<1> QED
  BY <1>4, <1>5, <1>6

\* The last four tokens of a prompt.
LEMMA LastWeighted ==
  ASSUME NEW cut \in Nat, cut >= 4, NEW h
  PROVE  Weighted({Token(cut - 4 + j, (cut - 4 + j) % 4) : j \in 0 .. 3}, h)
           = {<<p, p % 4, h>> : p \in {q \in cut - 4 .. cut - 1 : q >= 0}}
<1> DEFINE T == {Token(cut - 4 + j, (cut - 4 + j) % 4) : j \in 0 .. 3}
           W == {<<p, p % 4, h>> : p \in {q \in cut - 4 .. cut - 1 : q >= 0}}
           V == {<<x.pos, x.ape, h>> : x \in T \ {NoToken}}
<1>1. ASSUME NEW x \in T PROVE x # NoToken /\ <<x.pos, x.ape, h>> \in W
  <2>1. PICK j \in 0 .. 3 : x = Token(cut - 4 + j, (cut - 4 + j) % 4)
    OBVIOUS
  <2> DEFINE p == cut - 4 + j
  <2>2. p \in cut - 4 .. cut - 1 /\ p >= 0 /\ p # -1
    OBVIOUS
  <2>3. x = Token(p, p % 4)
    BY <2>1
  <2> HIDE DEF p
  <2>4. x.pos = p /\ x.ape = p % 4 /\ x # NoToken
    BY <2>2, <2>3 DEF Token, NoToken, None
  <2> QED
    BY <2>2, <2>4
<1>2. ASSUME NEW p \in cut - 4 .. cut - 1
      PROVE  \E x \in T : <<p, p % 4, h>> = <<x.pos, x.ape, h>>
  <2> DEFINE j == p - (cut - 4)
             x == Token(cut - 4 + j, (cut - 4 + j) % 4)
  <2>1. j \in 0 .. 3 /\ cut - 4 + j = p
    OBVIOUS
  <2> HIDE DEF j
  <2>2. x \in T /\ x.pos = p /\ x.ape = p % 4
    BY <2>1 DEF Token
  <2> QED
    BY <2>2
<1>3. Weighted(T, h) = V
  BY DEF Weighted
<1>4. T \ {NoToken} = T
  <2> HIDE DEF T
  <2> QED
    BY <1>1
<1> HIDE DEF T
<1>5. V \subseteq W
  <2> HIDE DEF W
  <2> QED
    BY <1>1
<1>6. W \subseteq V
  BY <1>2, <1>4
<1> QED
  BY <1>3, <1>5, <1>6 DEF T

\* A row from the block the prompt ended in on, as what the state has.
LEMMA RowPoolIs ==
  ASSUME NEW cut, NEW b \in Nat, CutAt(cut, b * 4 + 3)
  PROVE  RowPool(4, cut, b) = Weighted(PrevToks(cut, b), 0) \cup Weighted(SinceToks(cut, b), 1)
<1> DEFINE S(d, h) == {<<p, p % 4, h>> : p \in {q \in d * 4 .. d * 4 + 3 : b < cut \div 4 \/ q >= cut}}
           Kept == {<<p, p % 4, 0>> : p \in {q \in cut - 4 .. cut - 1 : q >= 0}}
<1>1. cut \in Nat /\ (cut = 0 \/ cut >= 4)
  BY DEF CutAt
<1>2. cut \div 4 \in Nat /\ cut \div 4 <= b /\ ~(b < cut \div 4)
  BY CutBlock
<1>3. RowPool(4, cut, b) = S(b, 1) \cup (IF b = cut \div 4 THEN Kept ELSE IF b > 0 THEN S(b - 1, 0) ELSE {})
  BY DEF RowPool
<1>4. \A d \in Nat : \A h : S(d, h) = Weighted(SinceToks(cut, d), h)
  BY <1>1, <1>2, SinceWeighted
<1> HIDE DEF S
<1>5. CASE b # cut \div 4
  <2>1. b > 0 /\ b - 1 \in Nat
    BY <1>2, <1>5
  <2>2. PrevToks(cut, b) = SinceToks(cut, b - 1)
    BY <1>5 DEF PrevToks, SinceToks, PrevTok
  <2> QED
    BY <1>3, <1>4, <1>5, <2>1, <2>2
<1>6. CASE b = cut \div 4 /\ cut = 0
  <2>1. PrevToks(cut, b) = {NoToken}
    BY <1>6 DEF PrevToks, PrevTok
  <2>2. Weighted({NoToken}, 0) = {}
    BY DEF Weighted
  <2>3. Kept = {}
    BY <1>6
  <2> HIDE DEF Kept
  <2> QED
    BY <1>3, <1>4, <1>6, <2>1, <2>2, <2>3
<1>7. CASE b = cut \div 4 /\ cut >= 4
  <2>1. PrevToks(cut, b) = {Token(cut - 4 + j, (cut - 4 + j) % 4) : j \in 0 .. 3}
    BY <1>7 DEF PrevToks, PrevTok
  <2>2. Weighted(PrevToks(cut, b), 0) = Kept
    BY <1>1, <1>7, <2>1, LastWeighted
  <2> HIDE DEF Kept
  <2> QED
    BY <1>3, <1>4, <1>7, <2>2
<1> QED
  BY <1>1, <1>5, <1>6, <1>7

\* The rows a prompt finished, and those whose two blocks it did not touch.
LEMMA RowPoolWhole ==
  ASSUME NEW cut \in Nat, NEW b \in Nat,
         b < cut \div 4 \/ (b > 0 /\ (b - 1) * 4 >= cut)
  PROVE  RowPool(4, cut, b) = PoolOf(4, b)
<1> DEFINE S(d, h) == {<<p, p % 4, h>> : p \in {q \in d * 4 .. d * 4 + 3 : b < cut \div 4 \/ q >= cut}}
           B(d, h) == {<<p, p % 4, h>> : p \in d * 4 .. d * 4 + 4 - 1}
           Kept == {<<p, p % 4, 0>> : p \in {q \in cut - 4 .. cut - 1 : q >= 0}}
<1>1. b # cut \div 4
  <2>1. cut \div 4 \in Nat /\ (cut \div 4) * 4 <= cut
    BY QuotientFacts
  <2> DEFINE q == cut \div 4
  <2> HIDE DEF q
  <2>2. q \in Nat /\ q * 4 <= cut
    BY <2>1 DEF q
  <2>3. b > 0 /\ (b - 1) * 4 >= cut => b # q
    BY <2>2
  <2> QED
    BY <2>1, <2>3 DEF q
<1>2. RowPool(4, cut, b) = S(b, 1) \cup (IF b = cut \div 4 THEN Kept ELSE IF b > 0 THEN S(b - 1, 0) ELSE {})
  BY DEF RowPool
<1>3. PoolOf(4, b) = (IF b > 0 THEN B(b - 1, 0) ELSE {}) \cup B(b, 1)
  BY DEF PoolOf
<1>4. \A h : S(b, h) = B(b, h)
  <2>1. {q \in b * 4 .. b * 4 + 3 : b < cut \div 4 \/ q >= cut} = b * 4 .. b * 4 + 4 - 1
    OBVIOUS
  <2> QED
    BY <2>1
<1>5. b > 0 => \A h : S(b - 1, h) = B(b - 1, h)
  <2>1. b > 0 => {q \in (b - 1) * 4 .. (b - 1) * 4 + 3 : b < cut \div 4 \/ q >= cut}
                   = (b - 1) * 4 .. (b - 1) * 4 + 4 - 1
    OBVIOUS
  <2> QED
    BY <2>1
<1> HIDE DEF S, B, Kept
<1> QED
  BY <1>1, <1>2, <1>3, <1>4, <1>5

\* compressor_store_kernel, and what the decode and update kernels do with a full
\* state.
Shifted(state, r) == IF r = 4 THEN ShiftRatio4(state) ELSE state

\* The state when a token has been stored at place i of block b.
Filled(stored, r, cut, b, i) ==
  /\ DOMAIN stored = StateRows(r)
  /\ r # 4 => \A j \in 0 .. i : stored[j] = Token(b * r + j, j)
  /\ r = 4 => /\ CutAt(cut, b * 4 + i)
              /\ \A j \in 0 .. i : stored[4 + j] = SinceTok(cut, b, j)
              /\ \A j \in 0 .. 3 : stored[j] = PrevTok(cut, b, j)

LEMMA StoreHolds ==
  ASSUME NEW state, NEW r \in Nat \ {0}, NEW cut, NEW b \in Nat, NEW i \in 0 .. r - 1,
         StateHolds(state, r, cut, b, i)
  PROVE  Filled(Store(state, r, b * r + i), r, cut, b, i)
<1> DEFINE p == b * r + i
           stored == Store(state, r, p)
<1>1. p % r = i
  BY Divides
<1> HIDE DEF p
<1>2. stored = [state EXCEPT ![IF r = 4 THEN r + i ELSE i] = Token(p, i)]
  BY <1>1 DEF Store
<1>3. DOMAIN state = StateRows(r)
  BY DEF StateHolds
<1>4. CASE r # 4
  <2>1. stored = [state EXCEPT ![i] = Token(p, i)] /\ StateRows(r) = 0 .. r - 1
    BY <1>2, <1>4 DEF StateRows, Coff
  <2>2. \A j \in 0 .. i - 1 : state[j] = Token(b * r + j, j)
    BY <1>4 DEF StateHolds
  <2> HIDE DEF stored
  <2>3. ASSUME NEW j \in 0 .. i PROVE stored[j] = Token(b * r + j, j)
    <3>1. CASE j = i
      BY <1>3, <2>1, <3>1 DEF p
    <3>2. CASE j # i
      <4>1. j \in 0 .. i - 1 /\ j \in 0 .. r - 1
        BY <3>2
      <4> QED
        BY <1>3, <2>1, <2>2, <3>2, <4>1
    <3> QED
      BY <3>1, <3>2
  <2> QED
    BY <1>3, <1>4, <2>1, <2>3 DEF stored, p, Filled
<1>5. CASE r = 4
  <2>1. stored = [state EXCEPT ![4 + i] = Token(p, i)] /\ StateRows(r) = 0 .. 7
    BY <1>2, <1>5 DEF StateRows, Coff
  <2>2. /\ CutAt(cut, b * 4 + i)
        /\ \A j \in 0 .. i - 1 : state[4 + j] = SinceTok(cut, b, j)
        /\ \A j \in 0 .. 3 : state[j] = PrevTok(cut, b, j)
    BY <1>5 DEF StateHolds
  <2>3. p = b * 4 + i /\ i \in 0 .. 3
    BY <1>5 DEF p
  <2> HIDE DEF stored
  <2>4. ASSUME NEW j \in 0 .. i PROVE stored[4 + j] = SinceTok(cut, b, j)
    <3>1. CASE j = i
      <4>1. stored[4 + j] = Token(b * 4 + j, j)
        BY <1>3, <2>1, <2>3, <3>1
      <4>2. b * 4 + j >= cut
        BY <2>2, <3>1 DEF CutAt
      <4> QED
        BY <4>1, <4>2 DEF SinceTok
    <3>2. CASE j # i
      <4>1. j \in 0 .. i - 1 /\ 4 + j \in 0 .. 7 /\ 4 + j # 4 + i
        BY <2>3, <3>2
      <4> QED
        BY <1>3, <2>1, <2>2, <4>1
    <3> QED
      BY <3>1, <3>2
  <2>5. ASSUME NEW j \in 0 .. 3 PROVE stored[j] = state[j]
    <3>1. j \in 0 .. 7 /\ j # 4 + i
      BY <2>3
    <3> QED
      BY <1>3, <2>1, <3>1
  <2>6. DOMAIN stored = StateRows(r)
    BY <1>3, <2>1
  <2> QED
    BY <1>5, <2>2, <2>4, <2>5, <2>6 DEF stored, p, Filled
<1> QED
  BY <1>4, <1>5

\* A token that does not end its block.
LEMMA StoreWithin ==
  ASSUME NEW state, NEW r \in Nat \ {0}, NEW cut, NEW b \in Nat, NEW i \in 0 .. r - 1, i # r - 1,
         StateHolds(state, r, cut, b, i)
  PROVE  StateHolds(Store(state, r, b * r + i), r, cut, b, i + 1)
<1> DEFINE stored == Store(state, r, b * r + i)
           k == i + 1
<1>1. 0 .. k - 1 = 0 .. i
  OBVIOUS
<1>2. Filled(stored, r, cut, b, i)
  BY StoreHolds
<1> HIDE DEF stored, k
<1>3. StateHolds(stored, r, cut, b, k)
  <2>1. CutAt(cut, b * 4 + i) => CutAt(cut, b * 4 + k)
    BY DEF CutAt, k
  <2> QED
    BY <1>1, <1>2, <2>1 DEF StateHolds, Filled
<1> QED
  BY <1>3 DEF stored, k

\* A token that ends its block fills the state, which pools to the block's row.
LEMMA StoreLast ==
  ASSUME NEW state, NEW r \in Nat \ {0}, NEW cut, NEW b \in Nat,
         StateHolds(state, r, cut, b, r - 1)
  PROVE  LET stored == Store(state, r, b * r + (r - 1))
         IN  /\ UpdatePool(stored, r) = RowPool(r, cut, b)
             /\ StateHolds(Shifted(stored, r), r, cut, b + 1, 0)
<1> DEFINE stored == Store(state, r, b * r + (r - 1))
<1>1. /\ DOMAIN stored = StateRows(r)
      /\ r # 4 => \A j \in 0 .. r - 1 : stored[j] = Token(b * r + j, j)
      /\ r = 4 => /\ CutAt(cut, b * 4 + 3)
                  /\ \A j \in 0 .. 3 : stored[4 + j] = SinceTok(cut, b, j)
                  /\ \A j \in 0 .. 3 : stored[j] = PrevTok(cut, b, j)
  <2> DEFINE i == r - 1
  <2>1. i \in 0 .. r - 1 /\ StateHolds(state, r, cut, b, i)
    OBVIOUS
  <2>2. r = 4 => 0 .. i = 0 .. 3 /\ b * 4 + i = b * 4 + 3
    OBVIOUS
  <2> HIDE DEF i
  <2>3. Filled(Store(state, r, b * r + i), r, cut, b, i)
    BY <2>1, StoreHolds
  <2>4. stored = Store(state, r, b * r + i)
    BY DEF i
  <2> HIDE DEF stored
  <2>5. 0 .. i = 0 .. r - 1
    BY DEF i
  <2> QED
    BY <2>2, <2>3, <2>4, <2>5 DEF Filled
<1> HIDE DEF stored
<1>2. CASE r # 4
  <2>1. {stored[j] : j \in 0 .. r - 1} = BlockTokens(r, b)
    BY <1>1, <1>2 DEF BlockTokens
  <2>2. UpdatePool(stored, r) = RowPool(r, cut, b)
    BY <1>2, <2>1, PoolIs DEF UpdatePool, RowPool
  <2>3. StateHolds(Shifted(stored, r), r, cut, b + 1, 0)
    BY <1>1, <1>2 DEF StateHolds, Shifted
  <2> QED
    BY <2>2, <2>3 DEF stored
<1>3. CASE r = 4
  <2>1. /\ \A j \in 0 .. 3 : stored[4 + j] = SinceTok(cut, b, j)
        /\ \A j \in 0 .. 3 : stored[j] = PrevTok(cut, b, j)
        /\ CutAt(cut, b * 4 + 3)
    BY <1>1, <1>3
  <2>2. /\ {stored[4 + j] : j \in 0 .. 3} = SinceToks(cut, b)
        /\ {stored[j] : j \in 0 .. 3} = PrevToks(cut, b)
    BY <2>1 DEF SinceToks, PrevToks
  <2>5. UpdatePool(stored, r) = Weighted({stored[j] : j \in 0 .. 3}, 0) \cup Weighted({stored[4 + j] : j \in 0 .. 3}, 1)
    BY <1>3 DEF UpdatePool
  <2>6. RowPool(4, cut, b) = Weighted(PrevToks(cut, b), 0) \cup Weighted(SinceToks(cut, b), 1)
    BY <2>1, RowPoolIs
  <2>7. UpdatePool(stored, r) = RowPool(r, cut, b)
    BY <1>3, <2>2, <2>5, <2>6
  <2> DEFINE shifted == ShiftRatio4(stored)
  <2>8. DOMAIN shifted = StateRows(r)
    BY <1>3 DEF ShiftRatio4
  <2>9. ASSUME NEW j \in 0 .. 3 PROVE shifted[j] = PrevTok(cut, b + 1, j)
    <3>1. j \in StateRows(4) /\ j < 4 /\ j + 4 = 4 + j
      BY DEF StateRows, Coff
    <3>2. shifted[j] = stored[4 + j]
      BY <3>1 DEF ShiftRatio4
    <3>3. (b + 1) - 1 = b /\ b + 1 # cut \div 4
      BY <2>1, CutBlock
    <3>4. PrevTok(cut, b + 1, j) = SinceTok(cut, b, j)
      BY <3>3 DEF PrevTok
    <3> QED
      BY <2>1, <3>2, <3>4
  <2> HIDE DEF shifted
  <2>10. StateHolds(shifted, r, cut, b + 1, 0)
    <3>1. CutAt(cut, (b + 1) * 4 + 0)
      BY <2>1 DEF CutAt
    <3> QED
      BY <1>3, <2>8, <2>9, <3>1 DEF StateHolds
  <2> QED
    BY <1>3, <2>7, <2>10 DEF stored, Shifted, shifted
<1> QED
  BY <1>2, <1>3

(* Batches at the start of a block. *)

LEMMA SetRowsAt ==
  ASSUME NEW state, NEW r, NEW pos0, NEW src0, NEW dst0, NEW rows,
         NEW j \in StateRows(r)
  PROVE  SetRows(state, r, pos0, src0, dst0, rows)[j] =
           IF j \in dst0 .. dst0 + rows - 1
           THEN Token(pos0 + src0 + j - dst0, (pos0 + src0 + j - dst0) % r)
           ELSE state[j]
BY DEF SetRows

\* A batch of n tokens after a whole blocks.
LEMMA BatchQuotients ==
  ASSUME NEW a \in Nat, NEW r \in Nat \ {0}, NEW n \in Nat
  PROVE  /\ (a * r + n) \div r = a + (n \div r)
         /\ (a * r + n) % r = n % r
<1> DEFINE q == n \div r
           i == n % r
<1>1. q \in Nat /\ i \in 0 .. r - 1 /\ n = q * r + i
  BY RemainderFacts
<1> HIDE DEF q, i
<1>2. (a + q) * r = a * r + q * r /\ a + q \in Nat
  BY <1>1
<1>3. a * r + n = (a + q) * r + i
  BY <1>1, <1>2
<1>4. ((a + q) * r + i) \div r = a + q /\ ((a + q) * r + i) % r = i
  BY <1>1, <1>2, Divides
<1> QED
  BY <1>3, <1>4 DEF q, i

\* ds4_gpu_compressor_prefill_tensor, for the layers without indexer.
LEMMA PrefillStateHolds ==
  ASSUME NEW r \in Nat \ {0}, r # 4, NEW cut, NEW a \in Nat, NEW n \in Nat
  PROVE  StateHolds(PrefillState(r, a * r, n), r, cut, a + (n \div r), n % r)
<1> DEFINE q == n \div r
           i == n % r
           cutoff == q * r
           state == PrefillState(r, a * r, n)
<1>1. q \in Nat /\ i \in 0 .. r - 1 /\ n = cutoff + i /\ cutoff \in Nat
  <2>1. q \in Nat /\ i \in 0 .. r - 1 /\ n = q * r + i
    BY RemainderFacts
  <2> HIDE DEF q, i
  <2> QED
    BY <2>1
<1>2. state = SetRows(FillState(r), r, a * r, cutoff, 0, n - cutoff)
  BY DEF PrefillState
<1> HIDE DEF q, i, cutoff, state
<1>3. n - cutoff = i
  BY <1>1
<1>4. StateRows(r) = 0 .. r - 1
  BY DEF StateRows, Coff
<1>5. DOMAIN state = StateRows(r)
  BY <1>2 DEF SetRows
<1>6. ASSUME NEW j \in 0 .. i - 1 PROVE state[j] = Token((a + q) * r + j, j)
  <2>1. j \in StateRows(r) /\ j \in 0 .. 0 + i - 1 /\ j \in 0 .. r - 1
    BY <1>1, <1>4
  <2>2. state[j] = Token(a * r + cutoff + j - 0, (a * r + cutoff + j - 0) % r)
    BY <1>2, <1>3, <2>1, SetRowsAt
  <2>3. (a + q) * r = a * r + cutoff /\ a + q \in Nat /\ a * r \in Nat
    BY <1>1 DEF cutoff
  <2>4. a * r + cutoff + j - 0 = (a + q) * r + j
    BY <1>1, <2>3
  <2>5. ((a + q) * r + j) % r = j
    BY <2>1, <2>3, Divides
  <2> QED
    BY <2>2, <2>4, <2>5
<1> QED
  BY <1>5, <1>6 DEF StateHolds, state, q, i

\* ds4_gpu_compressor_prefill_state_ratio4_tensor on the last block of a batch.
LEMMA PrefillStateRatio4At ==
  ASSUME NEW pos0 \in Nat
  PROVE  /\ DOMAIN PrefillStateRatio4(pos0) = StateRows(4)
         /\ \A j \in 0 .. 3 : /\ PrefillStateRatio4(pos0)[j] = Token(pos0 + j, (pos0 + j) % 4)
                            /\ PrefillStateRatio4(pos0)[4 + j] = NoToken
<1> DEFINE state == PrefillStateRatio4(pos0)
<1>1. state = SetRows(FillState(4), 4, pos0, 0, 0, 4)
  BY DEF PrefillStateRatio4
<1> HIDE DEF state
<1>2. DOMAIN state = StateRows(4)
  BY <1>1 DEF SetRows
<1>3. ASSUME NEW j \in 0 .. 3 PROVE state[j] = Token(pos0 + j, (pos0 + j) % 4)
  <2>1. j \in StateRows(4) /\ j \in 0 .. 0 + 4 - 1
    BY DEF StateRows, Coff
  <2>2. state[j] = Token(pos0 + 0 + j - 0, (pos0 + 0 + j - 0) % 4)
    BY <1>1, <2>1, SetRowsAt
  <2>3. pos0 + 0 + j - 0 = pos0 + j
    OBVIOUS
  <2> QED
    BY <2>2, <2>3
<1>4. ASSUME NEW j \in 0 .. 3 PROVE state[4 + j] = NoToken
  <2> DEFINE i == 4 + j
  <2>1. i \in StateRows(4) /\ i \notin 0 .. 0 + 4 - 1
    BY DEF StateRows, Coff
  <2> HIDE DEF i
  <2>2. state[i] = FillState(4)[i]
    BY <1>1, <2>1 DEF SetRows
  <2>3. FillState(4)[i] = NoToken
    BY <2>1 DEF FillState
  <2> QED
    BY <2>2, <2>3 DEF i
<1> QED
  BY <1>2, <1>3, <1>4 DEF state

\* After a batch of whole blocks.
LEMMA PrefillStateRatio4Holds ==
  ASSUME NEW cut, NEW b \in Nat, CutAt(cut, b * 4)
  PROVE  StateHolds(PrefillStateRatio4(b * 4), 4, cut, b + 1, 0)
<1> DEFINE p == b * 4
           state == PrefillStateRatio4(p)
<1>1. p \in Nat
  OBVIOUS
<1>2. \A j \in 0 .. 3 : (p + j) % 4 = j
  OBVIOUS
<1>3. CutAt(cut, b * 4 + 3) /\ CutAt(cut, (b + 1) * 4 + 0) /\ \A j \in 0 .. 3 : b * 4 + j >= cut
  BY DEF CutAt
<1>4. b + 1 # cut \div 4 /\ (b + 1) - 1 = b
  BY <1>3, CutBlock
<1> HIDE DEF p
<1>5. DOMAIN state = StateRows(4) /\ \A j \in 0 .. 3 : state[j] = Token(p + j, (p + j) % 4)
  BY <1>1, PrefillStateRatio4At
<1> HIDE DEF state
<1>6. \A j \in 0 .. 3 : state[j] = PrevTok(cut, b + 1, j)
  BY <1>2, <1>3, <1>4, <1>5 DEF PrevTok, SinceTok, p
<1> QED
  BY <1>3, <1>5, <1>6 DEF StateHolds, state, p

\* After a prompt from token 0, wherever it ends.
LEMMA PromptStateHolds ==
  ASSUME NEW n \in Nat, n >= 4
  PROVE  StateHolds(PrefillStateRatio4(n - 4), 4, n, n \div 4, n % 4)
<1> DEFINE b == n \div 4
           i == n % 4
           p == n - 4
           state == PrefillStateRatio4(p)
<1>1. b \in Nat /\ i \in 0 .. 3 /\ n = b * 4 + i
  <2>1. 4 \in Nat \ {0}
    OBVIOUS
  <2>2. b \in Nat /\ i \in 0 .. 4 - 1 /\ n = b * 4 + i
    BY <2>1, RemainderFacts
  <2> HIDE DEF b, i
  <2> QED
    BY <2>2
<1>2. p \in Nat
  OBVIOUS
<1> HIDE DEF b, i
<1>3. /\ DOMAIN state = StateRows(4)
      /\ \A j \in 0 .. 3 : state[j] = Token(p + j, (p + j) % 4) /\ state[4 + j] = NoToken
  <2> HIDE DEF p
  <2> QED
    BY <1>2, PrefillStateRatio4At
<1> HIDE DEF state
<1>4. ASSUME NEW j \in 0 .. i - 1 PROVE state[4 + j] = SinceTok(n, b, j)
  <2>1. j \in 0 .. 3 /\ ~(b * 4 + j >= n)
    BY <1>1
  <2> QED
    BY <1>3, <2>1 DEF SinceTok
<1>5. ASSUME NEW j \in 0 .. 3 PROVE state[j] = PrevTok(n, b, j)
  BY <1>3 DEF PrevTok, b
<1>6. CutAt(n, b * 4 + i)
  BY <1>1 DEF CutAt
<1> QED
  BY <1>3, <1>4, <1>5, <1>6 DEF StateHolds, state, p, b, i

\* The q rows of a batch that starts at block a.
BatchPooled(rows, r, cut, a, q) ==
  \A c \in 0 .. q - 1 : \A s \in 1 .. Stripes : rows[c].pool[s] = RowPool(r, cut, a + c)

LEMMA PrefillRowsPooled ==
  ASSUME NEW r \in Nat \ {0}, NEW cut \in Nat, NEW a \in Nat, NEW n \in Nat, NEW state,
         NEW replay \in BOOLEAN,
         replay => r = 4 /\ a > 0 /\ StateHolds(state, r, cut, a, 0),
         NEW pos0, pos0 = a * r, NEW q, q = n \div r,
         ~replay => r # 4 \/ (a = 0 /\ q <= cut \div 4)
  PROVE  BatchPooled(PrefillRows(state, r, pos0, n, replay), r, cut, a, q)
<1> SUFFICES ASSUME NEW c \in 0 .. q - 1, NEW s \in 1 .. Stripes
             PROVE  PrefillRows(state, r, a * r, n, replay)[c].pool[s] = RowPool(r, cut, a + c)
  BY DEF BatchPooled
<1> DEFINE Block(b) == {Token(a * r + t, (a * r + t) % r) : t \in b * r .. b * r + r - 1}
           pool == PrefillPool(state, r, a * r, c, replay)
<1>1. \A b \in Nat : Block(b) = BlockTokens(r, a + b)
  <2> TAKE b \in Nat
  <2>1. b * r \in Nat /\ a * r \in Nat /\ (a + b) * r = a * r + b * r /\ a + b \in Nat
    OBVIOUS
  <2>2. \A j \in 0 .. r - 1 : ((a + b) * r + j) % r = j
    BY <2>1, Divides
  <2>3. \A t \in b * r .. b * r + r - 1 :
          /\ t - b * r \in 0 .. r - 1
          /\ Token(a * r + t, (a * r + t) % r) = Token((a + b) * r + (t - b * r), t - b * r)
    <3> TAKE t \in b * r .. b * r + r - 1
    <3> DEFINE j == t - b * r
    <3>1. j \in 0 .. r - 1 /\ a * r + t = (a + b) * r + j
      BY <2>1
    <3> HIDE DEF j
    <3>2. (a * r + t) % r = j
      BY <2>2, <3>1
    <3> QED
      BY <3>1, <3>2 DEF j
  <2>4. \A j \in 0 .. r - 1 :
          /\ b * r + j \in b * r .. b * r + r - 1
          /\ Token(a * r + (b * r + j), (a * r + (b * r + j)) % r) = Token((a + b) * r + j, j)
    <3> TAKE j \in 0 .. r - 1
    <3>1. b * r + j \in b * r .. b * r + r - 1 /\ a * r + (b * r + j) = (a + b) * r + j
      BY <2>1
    <3> QED
      BY <2>2, <3>1
  <2>5. Block(b) \subseteq BlockTokens(r, a + b)
    BY <2>3 DEF BlockTokens
  <2>6. BlockTokens(r, a + b) \subseteq Block(b)
    BY <2>4 DEF BlockTokens
  <2> QED
    BY <2>5, <2>6
<1>2. PrefillRows(state, r, a * r, n, replay)[c].pool[s] = pool
  BY DEF PrefillRows, Row
<1>3. pool = LET Previous == IF c > 0 THEN Block(c - 1)
                             ELSE IF replay THEN {state[j] : j \in 0 .. 3} ELSE {}
             IN IF r = 4 THEN Weighted(Previous, 0) \cup Weighted(Block(c), 1)
                ELSE Weighted(Block(c), 0)
  BY DEF PrefillPool
<1>4. c \in Nat /\ a + c \in Nat
  <2>1. q \in Nat
    BY QuotientFacts
  <2> QED
    BY <2>1
<1> HIDE DEF Block, pool
<1>5. Block(c) = BlockTokens(r, a + c)
  BY <1>1, <1>4
<1>6. CASE r # 4
  BY <1>2, <1>3, <1>4, <1>5, <1>6, PoolIs DEF RowPool
<1>7. CASE r = 4
  <2> DEFINE e == a + c
  <2>1. PoolOf(4, e) = (IF e > 0 THEN Weighted(BlockTokens(4, e - 1), 0) ELSE {})
                         \cup Weighted(BlockTokens(4, e), 1)
    BY <1>4, <1>7, PoolIs
  <2>2. replay => CutAt(cut, a * 4 + 0)
    BY <1>7 DEF StateHolds
  <2>3. CASE c > 0
    <3>1. c - 1 \in Nat /\ a + (c - 1) = e - 1 /\ e > 0
      BY <1>4, <2>3
    <3>2. Block(c - 1) = BlockTokens(4, e - 1)
      BY <1>1, <1>7, <3>1
    <3>3. pool = PoolOf(4, e)
      BY <1>3, <1>5, <1>7, <2>1, <2>3, <3>1, <3>2
    <3>4. e < cut \div 4 \/ (e > 0 /\ (e - 1) * 4 >= cut)
      <4>1. CASE replay
        <5>1. cut <= a * 4 /\ a <= e - 1
          BY <1>4, <2>2, <2>3, <4>1 DEF CutAt
        <5> QED
          BY <1>4, <3>1, <5>1
      <4>2. CASE ~replay
        BY <1>4, <1>7, <4>2, QuotientFacts
      <4> QED
        BY <4>1, <4>2
    <3>5. RowPool(4, cut, e) = PoolOf(4, e)
      <4> HIDE DEF e
      <4> QED
        BY <1>4, <3>4, RowPoolWhole DEF e
    <3> QED
      BY <1>2, <1>7, <3>3, <3>5
  <2>4. CASE c = 0 /\ replay
    <3>1. a + c = a /\ a \in Nat /\ CutAt(cut, a * 4 + 3) /\ \A j \in 0 .. 3 : a * 4 + j >= cut
      BY <2>2, <2>4 DEF CutAt
    <3>2. \A j \in 0 .. 3 : state[j] = PrevTok(cut, a, j)
      BY <1>7, <2>4 DEF StateHolds
    <3>3. {state[j] : j \in 0 .. 3} = PrevToks(cut, a)
      BY <3>2 DEF PrevToks
    <3>4. pool = Weighted({state[j] : j \in 0 .. 3}, 0) \cup Weighted(Block(c), 1)
      BY <1>3, <1>7, <2>4
    <3>5. BlockTokens(4, a) = SinceToks(cut, a)
      BY <3>1 DEF BlockTokens, SinceToks, SinceTok
    <3>6. RowPool(4, cut, a) = Weighted(PrevToks(cut, a), 0) \cup Weighted(SinceToks(cut, a), 1)
      BY <3>1, RowPoolIs
    <3> QED
      BY <1>2, <1>5, <1>7, <3>1, <3>3, <3>4, <3>5, <3>6
  <2>5. CASE c = 0 /\ ~replay
    <3>1. a = 0 /\ e = 0 /\ ~(e > 0) /\ c < q /\ q <= cut \div 4
      BY <1>7, <2>5
    <3>2. Weighted({}, 0) = {}
      BY DEF Weighted
    <3>3. pool = Weighted({}, 0) \cup Weighted(Block(c), 1)
      BY <1>3, <1>7, <2>5
    <3>4. e < cut \div 4
      BY <1>4, <2>5, <3>1, QuotientFacts
    <3>5. RowPool(4, cut, e) = PoolOf(4, e)
      <4> HIDE DEF e
      <4> QED
        BY <1>4, <3>4, RowPoolWhole DEF e
    <3> QED
      BY <1>2, <1>5, <1>7, <2>1, <3>1, <3>2, <3>3, <3>5
  <2> QED
    BY <1>4, <2>3, <2>4, <2>5
<1> QED
  BY <1>6, <1>7

(* Batches token by token. *)

\* A compressor that has seen p tokens.
StateOk(c, r, cut, p) ==
  /\ c = [state |-> c.state, rows |-> c.rows]
  /\ DOMAIN c.rows = 0 .. CompCap - 1
  /\ StateHolds(c.state, r, cut, p \div r, p % r)
\* Row k is the pool of block k, for the first n rows.
RowsHold(rows, r, cut, n) ==
  \A k \in 0 .. n - 1 : \A s \in 1 .. Stripes : rows[k].pool[s] = RowPool(r, cut, k)

\* ds4_gpu_compressor_update_tensor: the state, whatever row it writes.
LEMMA UpdateState ==
  ASSUME NEW r \in Nat \ {0}, NEW cut, NEW p \in Nat, NEW row, NEW c, StateOk(c, r, cut, p)
  PROVE  StateOk(Update(c, r, p, row), r, cut, p + 1)
<1> DEFINE b == p \div r
           i == p % r
           stored == Store(c.state, r, p)
           u == Update(c, r, p, row)
           pooled == Row(UpdatePool(stored, r), 1 .. Stripes, p + 1 - r)
<1>1. b \in Nat /\ i \in 0 .. r - 1 /\ p = b * r + i
  BY RemainderFacts
<1>2. /\ Emits(r, p) <=> i = r - 1
      /\ i # r - 1 => (p + 1) \div r = b /\ (p + 1) % r = i + 1
      /\ i = r - 1 => (p + 1) \div r = b + 1 /\ (p + 1) % r = 0
  BY NextPosition
<1>3. /\ c = [state |-> c.state, rows |-> c.rows] /\ StateHolds(c.state, r, cut, b, i)
      /\ DOMAIN c.rows = 0 .. CompCap - 1
  BY DEF StateOk
<1>4. u = IF ~Emits(r, p) THEN [c EXCEPT !.state = stored]
          ELSE [state |-> Shifted(stored, r), rows |-> [c.rows EXCEPT ![row] = pooled]]
  BY DEF Update, Shifted
<1> HIDE DEF b, i, u, pooled
<1>5. CASE i # r - 1
  <2>1. StateHolds(stored, r, cut, b, i + 1)
    BY <1>1, <1>3, <1>5, StoreWithin
  <2>2. u = [c EXCEPT !.state = stored]
    BY <1>2, <1>4, <1>5
  <2> HIDE DEF stored
  <2>3. u = [state |-> stored, rows |-> c.rows]
    BY <1>3, <2>2
  <2>4. u.state = stored /\ u.rows = c.rows
    BY <2>3
  <2>5. (p + 1) \div r = b /\ (p + 1) % r = i + 1
    BY <1>2, <1>5
  <2> QED
    BY <1>3, <2>1, <2>3, <2>4, <2>5 DEF StateOk, u
<1>6. CASE i = r - 1
  <2> DEFINE rows == [c.rows EXCEPT ![row] = pooled]
             state == Shifted(stored, r)
  <2>1. StateHolds(state, r, cut, b + 1, 0)
    BY <1>1, <1>3, <1>6, StoreLast
  <2>2. u = [state |-> state, rows |-> rows]
    BY <1>2, <1>4, <1>6
  <2>3. DOMAIN rows = 0 .. CompCap - 1
    BY <1>3
  <2>4. (p + 1) \div r = b + 1 /\ (p + 1) % r = 0
    BY <1>2, <1>6
  <2> HIDE DEF rows, state, stored
  <2>5. u.state = state /\ u.rows = rows
    BY <2>2
  <2> QED
    BY <2>1, <2>2, <2>3, <2>4, <2>5 DEF StateOk, u
<1> QED
  BY <1>5, <1>6

\* ... and the rows, when it writes the next one.
LEMMA UpdateRows ==
  ASSUME NEW r \in Nat \ {0}, NEW cut, NEW p \in Nat, NEW c, StateOk(c, r, cut, p), RowsHold(c.rows, r, cut, p \div r),
         (p + 1) \div r <= CompCap
  PROVE  RowsHold(Update(c, r, p, p \div r).rows, r, cut, (p + 1) \div r)
<1> DEFINE b == p \div r
           i == p % r
           stored == Store(c.state, r, p)
           u == Update(c, r, p, b)
           row == Row(RowPool(r, cut, b), 1 .. Stripes, p + 1 - r)
           rows == [c.rows EXCEPT ![b] = row]
<1>1. b \in Nat /\ i \in 0 .. r - 1 /\ p = b * r + i
  BY RemainderFacts
<1>2. /\ Emits(r, p) <=> i = r - 1
      /\ i # r - 1 => (p + 1) \div r = b
      /\ i = r - 1 => (p + 1) \div r = b + 1
  BY NextPosition
<1>3. /\ c = [state |-> c.state, rows |-> c.rows] /\ StateHolds(c.state, r, cut, b, i)
      /\ DOMAIN c.rows = 0 .. CompCap - 1
  BY DEF StateOk
<1>4. u.rows = IF ~Emits(r, p) THEN c.rows
               ELSE [c.rows EXCEPT ![b] = Row(UpdatePool(stored, r), 1 .. Stripes, p + 1 - r)]
  <2>1. [c EXCEPT !.state = stored].rows = c.rows
    BY <1>3
  <2> QED
    BY <2>1 DEF Update
<1> HIDE DEF b, i, u, row
<1>5. CASE i # r - 1
  <2>1. u.rows = c.rows /\ (p + 1) \div r = b
    BY <1>2, <1>4, <1>5
  <2> QED
    BY <2>1 DEF u, b
<1>6. CASE i = r - 1
  <2>1. UpdatePool(stored, r) = RowPool(r, cut, b)
    BY <1>1, <1>3, <1>6, StoreLast
  <2>2. u.rows = rows
    BY <1>2, <1>4, <1>6, <2>1 DEF row
  <2>3. \A s \in 1 .. Stripes : row.pool[s] = RowPool(r, cut, b)
    BY DEF Row, row
  <2>4. (p + 1) \div r = b + 1 /\ b \in 0 .. CompCap - 1
    BY <1>1, <1>2, <1>6, CompressorAssumption
  <2> HIDE DEF stored
  <2>5. rows[b] = row
    BY <1>3, <2>4
  <2>6. ASSUME NEW k \in 0 .. (b + 1) - 1, NEW s \in 1 .. Stripes PROVE rows[k].pool[s] = RowPool(r, cut, k)
    <3>1. CASE k = b
      BY <2>3, <2>5, <3>1
    <3>2. CASE k # b
      <4>1. k \in 0 .. b - 1 /\ k \in 0 .. CompCap - 1
        BY <1>1, <2>4, <3>2, CompressorAssumption
      <4>2. rows[k] = c.rows[k]
        BY <1>3, <3>2, <4>1
      <4> HIDE DEF rows
      <4> QED
        BY <4>1, <4>2 DEF RowsHold, b
    <3> QED
      BY <3>1, <3>2
  <2> HIDE DEF rows
  <2>7. RowsHold(rows, r, cut, b + 1)
    BY <2>6 DEF RowsHold
  <2> QED
    BY <2>2, <2>4, <2>7 DEF u, b
<1> QED
  BY <1>5, <1>6

\* The counter and the compressor after k tokens of a batch.
TokenRound(p, x, t) ==
  [comp |-> Update(t.comp, p.ratio, p.tokens[x], t.n),
   n |-> IF Emits(p.ratio, p.tokens[x]) THEN t.n + 1 ELSE t.n]
\* What a batch of n tokens makes of the compressor c and the counter n0.
BatchKeeps(done, r, cut, c, n0, pos0, n) ==
  /\ done.n = n0 + (((pos0 + n) \div r) - (pos0 \div r))
  /\ StateOk(c, r, cut, pos0) => StateOk(done.comp, r, cut, pos0 + n)
  /\ /\ StateOk(c, r, cut, pos0) /\ RowsHold(c.rows, r, cut, n0)
     /\ n0 = pos0 \div r /\ done.n <= CompCap
     => RowsHold(done.comp.rows, r, cut, done.n)
ReachedBy(p, T, t) ==
  \A k \in Nat : T = 1 .. k => BatchKeeps(t, p.ratio, p.cut, p.comp, p.n, p.pos, k)

TokenLoop == INSTANCE Iteration WITH Op <- TokenRound, Pick <- Max, Holds <- ReachedBy

LEMMA MaxIn ==
  ASSUME NEW n \in Nat, NEW T \in SUBSET (1 .. n), T # {}
  PROVE  Max(T) \in T
<1>1. T \in SUBSET (0 .. n)
  OBVIOUS
<1>2. \E x \in T : \A y \in T : y <= x
  BY <1>1, TokenLoop!Greatest
<1>3. \E x \in T : \A y \in T : x >= y
  BY <1>2
<1> QED
  BY <1>3 DEF Max

LEMMA MaxInterval ==
  ASSUME NEW k \in Nat \ {0}
  PROVE  Max(1 .. k) = k
<1>1. Max(1 .. k) \in 1 .. k /\ \A y \in 1 .. k : Max(1 .. k) >= y
  <2>1. k \in 1 .. k /\ \A y \in 1 .. k : k >= y
    OBVIOUS
  <2> QED
    BY <2>1 DEF Max
<1> QED
  BY <1>1

\* compressor_update for every token of a batch
LEMMA TokenByTokenKeeps ==
  ASSUME Ratio \in Nat \ {0}, NEW cut, NEW c, NEW n0 \in Nat, NEW pos0 \in Nat, NEW n \in Nat
  PROVE  BatchKeeps(TokenByToken(c, n0, pos0, n), Ratio, cut, c, n0, pos0, n)
<1> DEFINE r == Ratio
           tokens == [i \in 1 .. n |-> pos0 + i - 1]
           S == DOMAIN tokens
           base == [comp |-> c, n |-> n0]
           p == [comp |-> c, n |-> n0, pos |-> pos0, ratio |-> r, cut |-> cut, tokens |-> tokens]
           done == TokenByToken(c, n0, pos0, n)
<1>1. S = 1 .. n /\ IsFiniteSet(S)
  BY FS_Interval
<1>2. done = TokenLoop!FoldOf(p, base, S)
  BY DEF TokenByToken, FoldLeft, MapThenFoldSet, TokenLoop!FoldOf, TokenLoop!IsFold, TokenRound
<1>3. /\ p.comp = c /\ p.n = n0 /\ p.pos = pos0 /\ p.ratio = r /\ p.cut = cut /\ p.tokens = tokens
      /\ base.comp = c /\ base.n = n0
      /\ \A i \in 1 .. n : tokens[i] = pos0 + i - 1
  OBVIOUS
<1>4. r \in Nat \ {0} /\ pos0 \div r \in Nat
  BY QuotientFacts
<1> HIDE DEF r, tokens, S, base, p, done
<1>5. ReachedBy(p, {}, base)
  <2>1. ASSUME NEW k \in Nat, {} = 1 .. k PROVE BatchKeeps(base, r, cut, c, n0, pos0, k)
    <3>1. k = 0
      <4>1. k \notin 1 .. k
        BY <2>1
      <4> QED
        BY <4>1
    <3>2. pos0 + k = pos0
      BY <3>1
    <3> QED
      BY <1>3, <1>4, <3>2 DEF BatchKeeps
  <2> QED
    BY <1>3, <2>1 DEF ReachedBy
<1>6. ASSUME NEW T \in SUBSET S, NEW t, T # {}, ReachedBy(p, T \ {Max(T)}, t)
      PROVE  ReachedBy(p, T, TokenRound(p, Max(T), t))
  <2>1. SUFFICES ASSUME NEW k \in Nat, T = 1 .. k
                 PROVE  BatchKeeps(TokenRound(p, Max(T), t), r, cut, c, n0, pos0, k)
    BY <1>3 DEF ReachedBy
  <2>2. k # 0
    BY <1>6, <2>1
  <2>3. Max(T) = k /\ T \ {Max(T)} = 1 .. k - 1 /\ k - 1 \in Nat
    BY <2>1, <2>2, MaxInterval
  <2>4. BatchKeeps(t, r, cut, c, n0, pos0, k - 1)
    BY <1>3, <1>6, <2>3 DEF ReachedBy
  <2> DEFINE q == pos0 + (k - 1)
             next == TokenRound(p, k, t)
  <2>5. k \in 1 .. n
    BY <1>1, <2>1, <2>2
  <2>6. q \in Nat /\ q + 1 = pos0 + k /\ p.tokens[k] = q
    BY <1>3, <2>3, <2>5
  <2>7. /\ t.n = n0 + ((q \div r) - (pos0 \div r))
        /\ StateOk(c, r, cut, pos0) => StateOk(t.comp, r, cut, q)
        /\ StateOk(c, r, cut, pos0) /\ RowsHold(c.rows, r, cut, n0) /\ n0 = pos0 \div r /\ t.n <= CompCap
              => RowsHold(t.comp.rows, r, cut, t.n)
    BY <2>4 DEF BatchKeeps
  <2>8. q \div r \in Nat /\ (q + 1) \div r \in Nat
    <3>1. q + 1 \in Nat
      BY <2>6
    <3> HIDE DEF q
    <3> QED
      BY <1>4, <2>6, <3>1, QuotientFacts
  <2>9. /\ Emits(r, q) => (q + 1) \div r = (q \div r) + 1
        /\ ~Emits(r, q) => (q + 1) \div r = q \div r
    BY <1>4, <2>6, NextPosition
  <2>10. next.comp = Update(t.comp, r, q, t.n) /\ next.n = IF Emits(r, q) THEN t.n + 1 ELSE t.n
    BY <1>3, <2>6 DEF TokenRound
  <2> HIDE DEF q, next
  <2>11. /\ next.n = n0 + (((q + 1) \div r) - (pos0 \div r))
         /\ t.n \in Int /\ next.n \in Int /\ t.n <= next.n
    BY <1>4, <2>7, <2>8, <2>9, <2>10
  <2>12. ASSUME StateOk(c, r, cut, pos0) PROVE StateOk(next.comp, r, cut, q + 1)
    BY <1>4, <2>6, <2>7, <2>10, <2>12, UpdateState
  <2>13. ASSUME StateOk(c, r, cut, pos0), RowsHold(c.rows, r, cut, n0), n0 = pos0 \div r, next.n <= CompCap
         PROVE  RowsHold(next.comp.rows, r, cut, next.n)
    <3>1. t.n = q \div r /\ next.n = (q + 1) \div r
      BY <1>4, <2>7, <2>8, <2>11, <2>13
    <3>2. t.n <= CompCap
      BY <2>11, <2>13, CompressorAssumption
    <3>3. StateOk(t.comp, r, cut, q) /\ RowsHold(t.comp.rows, r, cut, q \div r)
      BY <2>7, <2>13, <3>1, <3>2
    <3>4. RowsHold(Update(t.comp, r, q, q \div r).rows, r, cut, (q + 1) \div r)
      BY <1>4, <2>6, <2>13, <3>1, <3>3, UpdateRows
    <3> QED
      BY <2>10, <3>1, <3>4
  <2>14. BatchKeeps(next, r, cut, c, n0, pos0, k)
    BY <2>6, <2>11, <2>12, <2>13 DEF BatchKeeps
  <2> QED
    BY <2>3, <2>14 DEF next
<1>7. ReachedBy(p, S, done)
  <2>1. TokenLoop!Chooses(S)
    BY <1>1, MaxIn DEF TokenLoop!Chooses
  <2>2. TokenLoop!StepsKeep(p, S)
    BY <1>6 DEF TokenLoop!StepsKeep
  <2>3. TokenLoop!IsFiniteSet(S)
    BY <1>1 DEF IsFiniteSet, TokenLoop!IsFiniteSet
  <2> QED
    BY <1>2, <1>5, <2>1, <2>2, <2>3, TokenLoop!FoldHolds
<1>8. BatchKeeps(done, r, cut, c, n0, pos0, n)
  BY <1>1, <1>3, <1>7 DEF ReachedBy
<1> QED
  BY <1>8 DEF done, r

\* A batch of whole blocks at the start of a block.
LEMMA AlignedChunkKeeps ==
  ASSUME Ratio \in Nat \ {0}, NEW cut, NEW c, NEW n0 \in Nat, NEW pos0 \in Nat \ {0}, NEW n \in Nat \ {0},
         pos0 % Ratio = 0, n % Ratio = 0
  PROVE  BatchKeeps(AlignedChunk(c, n0, pos0, n), Ratio, cut, c, n0, pos0, n)
<1> DEFINE r == Ratio
           a == pos0 \div r
           q == n \div r
           done == AlignedChunk(c, n0, pos0, n)
           rows == PrefillRows(c.state, r, pos0, n, r = 4)
           state == IF r = 4 THEN PrefillStateRatio4(pos0 + n - 4) ELSE PrefillState(r, pos0, n)
<1>1. done.comp = [state |-> state, rows |-> AppendRows(c, n0, rows)] /\ done.n = n0 + q
  BY DEF AlignedChunk
<1>2. r \in Nat \ {0} /\ pos0 % r = 0 /\ n % r = 0
  OBVIOUS
<1>3. DOMAIN rows = 0 .. q - 1
  BY DEF PrefillRows
<1> HIDE DEF r
<1>4. a \in Nat /\ pos0 = a * r /\ q \in Nat /\ n = q * r
  <2>1. a \in Nat /\ pos0 = a * r + (pos0 % r) /\ q \in Nat /\ n = q * r + (n % r)
    BY <1>2, RemainderFacts
  <2> HIDE DEF a, q
  <2>2. a * r \in Nat /\ q * r \in Nat
    BY <1>2, <2>1
  <2> QED
    BY <1>2, <2>1, <2>2
<1>5. (pos0 + n) \div r = a + q /\ (pos0 + n) % r = 0
  <2>1. (a * r + n) \div r = a + q /\ (a * r + n) % r = n % r
    <3>1. a \in Nat
      BY <1>4
    <3> HIDE DEF a
    <3>2. (a * r + n) \div r = a + (n \div r) /\ (a * r + n) % r = n % r
      BY <1>2, <3>1, BatchQuotients
    <3> QED
      BY <3>2
  <2> QED
    BY <1>2, <1>4, <2>1
<1>6. a > 0 /\ q > 0
  <2> HIDE DEF a, q
  <2>1. a # 0 /\ q # 0
    BY <1>2, <1>4
  <2> QED
    BY <1>4, <2>1
<1> HIDE DEF done, rows, state
<1>7. ASSUME StateOk(c, r, cut, pos0) PROVE StateHolds(state, r, cut, a + q, 0)
  <2>1. CASE r # 4
    <3>1. StateHolds(PrefillState(r, a * r, n), r, cut, a + (n \div r), n % r)
      BY <1>2, <1>4, <2>1, PrefillStateHolds
    <3> QED
      BY <1>2, <1>4, <2>1, <3>1 DEF state
  <2>2. CASE r = 4
    <3> DEFINE b == (a + q) - 1
    <3>1. b \in Nat /\ b + 1 = a + q /\ pos0 + n - 4 = b * 4
      <4> HIDE DEF a, q
      <4> QED
        BY <1>4, <1>6, <2>2
    <3>3. CutAt(cut, b * 4)
      <4>1. StateHolds(c.state, r, cut, a, 0)
        BY <1>2, <1>7 DEF StateOk
      <4>2. CutAt(cut, a * 4 + 0)
        BY <2>2, <4>1 DEF StateHolds
      <4> HIDE DEF a, q
      <4> QED
        BY <1>4, <1>6, <4>2 DEF CutAt
    <3> HIDE DEF b
    <3>2. StateHolds(PrefillStateRatio4(b * 4), 4, cut, b + 1, 0)
      BY <3>1, <3>3, PrefillStateRatio4Holds
    <3> QED
      BY <2>2, <3>1, <3>2 DEF state
  <2> QED
    BY <2>1, <2>2
<1>8. ASSUME StateOk(c, r, cut, pos0), RowsHold(c.rows, r, cut, n0), n0 = a, n0 + q <= CompCap
      PROVE  RowsHold(AppendRows(c, n0, rows), r, cut, n0 + q)
  <2>1. RowsHold(c.rows, r, cut, a) /\ StateHolds(c.state, r, cut, a, 0)
    BY <1>2, <1>8 DEF StateOk
  <2> HIDE DEF a, q
  <2>2. ASSUME NEW k \in 0 .. (n0 + q) - 1, NEW s \in 1 .. Stripes
        PROVE  AppendRows(c, n0, rows)[k].pool[s] = RowPool(r, cut, k)
    <3>1. k \in 0 .. CompCap - 1 /\ k \in Nat
      BY <1>4, <1>8, CompressorAssumption
    <3>2. AppendRows(c, n0, rows)[k] = IF k - n0 \in 0 .. q - 1 THEN rows[k - n0] ELSE c.rows[k]
      BY <1>3, <3>1 DEF AppendRows
    <3>3. CASE k < n0
      <4>1. k \in 0 .. a - 1 /\ k - n0 \notin 0 .. q - 1
        BY <1>4, <1>8, <3>1, <3>3
      <4> QED
        BY <2>1, <3>2, <4>1 DEF RowsHold
    <3>4. CASE k >= n0
      <4> DEFINE d == k - n0
      <4>1. d \in 0 .. q - 1 /\ a + d = k
        BY <1>4, <1>8, <3>1, <3>4
      <4> HIDE DEF d
      <4>2. q = n \div r
        BY DEF q
      <4> DEFINE replay == r = 4
      <4>3. replay \in BOOLEAN /\ (replay <=> r = 4) /\ rows = PrefillRows(c.state, r, pos0, n, replay)
        BY DEF rows
      <4> HIDE DEF replay
      <4>4. BatchPooled(PrefillRows(c.state, r, pos0, n, replay), r, cut, a, q)
        <5>1. CASE replay
          <6>1. cut \in Nat
            BY <2>1, <4>3, <5>1 DEF StateHolds, CutAt
          <6> QED
            BY <1>2, <1>4, <1>6, <2>1, <4>1, <4>2, <4>3, <5>1, <6>1, PrefillRowsPooled
        <5>2. CASE ~replay
          <6> DEFINE none == 0
          <6>1. none \in Nat /\ r # 4
            BY <4>3, <5>2
          <6> HIDE DEF none
          <6>2. BatchPooled(PrefillRows(c.state, r, pos0, n, replay), r, none, a, q)
            BY <1>2, <1>4, <1>6, <2>1, <4>1, <4>2, <4>3, <5>2, <6>1, PrefillRowsPooled
          <6> QED
            BY <6>1, <6>2 DEF BatchPooled, RowPool
        <5> QED
          BY <5>1, <5>2
      <4>5. rows[d].pool[s] = RowPool(r, cut, k)
        BY <4>1, <4>3, <4>4 DEF BatchPooled
      <4> QED
        BY <3>2, <4>1, <4>5 DEF d
    <3> QED
      BY <3>1, <3>3, <3>4
  <2> QED
    BY <2>2 DEF RowsHold
<1>9. done.n = n0 + (((pos0 + n) \div r) - (pos0 \div r))
  BY <1>1, <1>4, <1>5
<1>10. done.comp.state = state /\ done.comp.rows = AppendRows(c, n0, rows)
  BY <1>1
<1>11. ASSUME StateOk(c, r, cut, pos0) PROVE StateOk(done.comp, r, cut, pos0 + n)
  <2>1. DOMAIN AppendRows(c, n0, rows) = 0 .. CompCap - 1
    BY DEF AppendRows
  <2> QED
    BY <1>1, <1>5, <1>7, <1>10, <1>11, <2>1 DEF StateOk
<1> QED
  BY <1>1, <1>8, <1>9, <1>10, <1>11 DEF BatchKeeps, done, r

LEMMA ChunkKeeps ==
  ASSUME Ratio \in Nat \ {0}, NEW cut, NEW c, NEW n0 \in Nat, NEW pos0 \in Nat \ {0}, NEW n \in Nat \ {0}
  PROVE  BatchKeeps(ChunkComp(c, n0, pos0, n), Ratio, cut, c, n0, pos0, n)
<1>1. Ratio # 0
  OBVIOUS
<1>2. CASE pos0 % Ratio = 0 /\ n % Ratio = 0
  <2>1. BatchKeeps(AlignedChunk(c, n0, pos0, n), Ratio, cut, c, n0, pos0, n)
    BY <1>2, AlignedChunkKeeps
  <2> QED
    BY <1>1, <1>2, <2>1 DEF ChunkComp
<1>3. CASE ~(pos0 % Ratio = 0 /\ n % Ratio = 0)
  <2>1. ChunkComp(c, n0, pos0, n) = TokenByToken(c, n0, pos0, n)
    BY <1>1, <1>3 DEF ChunkComp
  <2>2. BatchKeeps(TokenByToken(c, n0, pos0, n), Ratio, cut, c, n0, pos0, n)
    BY TokenByTokenKeeps
  <2> QED
    BY <2>1, <2>2
<1> QED
  BY <1>2, <1>3

(* Decode steps. *)

\* compressor_emit_conditional_kernel at the end of a block: the state is shifted
\* and the first stripe of the row is pooled.
LEMMA EmitKeeps ==
  ASSUME Ratio \in Nat \ {0}, NEW cut, NEW p \in Nat, NEW c, StateOk(c, Ratio, cut, p), Emits(Ratio, p),
         (p + 1) \div Ratio <= CompCap
  PROVE  /\ StateOk(DecodeComp(c, p), Ratio, cut, p + 1)
         /\ DecodeComp(c, p).rows[p \div Ratio].pool[1] = RowPool(Ratio, cut, p \div Ratio)
<1> DEFINE r == Ratio
           b == p \div r
           stored == Store(c.state, r, p)
           c1 == [c EXCEPT !.state = stored]
           u == DecodeComp(c, p)
           pooled == Row(UpdatePool(stored, r), 1 .. Stripes, p + 1 - r)
           row == [pooled EXCEPT !.pool = [s \in 1 .. Stripes |-> IF s = 1 THEN pooled.pool[1] ELSE c.rows[b].pool[s]]]
           rows == [c.rows EXCEPT ![b] = row]
           state == Shifted(stored, r)
<1>1. r \in Nat \ {0}
  OBVIOUS
<1>2. /\ c = [state |-> c.state, rows |-> c.rows] /\ StateHolds(c.state, r, cut, b, p % r)
      /\ DOMAIN c.rows = 0 .. CompCap - 1
  BY DEF StateOk
<1>3. c1.state = stored /\ c1.rows = c.rows
  BY <1>2
<1>4. u = EmitConditional(c1, r, p)
  BY DEF DecodeComp
<1>5. (p + 1) \div r <= CompCap /\ Emits(r, p)
  OBVIOUS
<1> HIDE DEF r, u
<1>6. b \in Nat /\ p % r = r - 1 /\ p = b * r + (r - 1) /\ (p + 1) \div r = b + 1 /\ (p + 1) % r = 0
  <2>1. b \in Nat /\ p % r \in 0 .. r - 1 /\ p = b * r + (p % r)
    BY <1>1, RemainderFacts
  <2>2. p % r = r - 1
    BY <1>1, <1>5, NextPosition
  <2>3. (p + 1) \div r = p \div r + 1 /\ (p + 1) % r = 0
    BY <1>1, <2>2, NextPosition
  <2>4. p = b * r + (r - 1)
    <3> DEFINE i == p % r
    <3>1. p = b * r + i /\ i = r - 1
      BY <2>1, <2>2
    <3> HIDE DEF b, i
    <3> QED
      BY <3>1
  <2> HIDE DEF b
  <2> QED
    BY <2>1, <2>2, <2>3, <2>4 DEF b
<1>7. ((p + 1) \div r) - 1 = b /\ b \in 0 .. CompCap - 1 /\ ~(b >= CompCap)
  <2> HIDE DEF b
  <2> QED
    BY <1>5, <1>6, CompressorAssumption
<1> HIDE DEF c1
<1>8. u = [state |-> state, rows |-> rows]
  <2> HIDE DEF b, stored
  <2> QED
    BY <1>3, <1>4, <1>5, <1>7 DEF EmitConditional, Shifted
<1>9. UpdatePool(stored, r) = RowPool(r, cut, b) /\ StateHolds(state, r, cut, b + 1, 0)
  <2> HIDE DEF b
  <2> QED
    BY <1>1, <1>2, <1>6, StoreLast
<1>10. row.pool[1] = RowPool(r, cut, b)
  <2>1. 1 \in 1 .. Stripes
    BY CompressorAssumption
  <2>2. pooled = [pool |-> [s \in 1 .. Stripes |-> RowPool(r, cut, b)], rope |-> p + 1 - r]
    BY <1>9 DEF Row
  <2> HIDE DEF pooled, b
  <2>3. pooled.pool[1] = RowPool(r, cut, b)
    BY <2>1, <2>2
  <2>4. row.pool = [s \in 1 .. Stripes |-> IF s = 1 THEN pooled.pool[1] ELSE c.rows[b].pool[s]]
    BY <2>2
  <2> HIDE DEF row
  <2> QED
    BY <2>1, <2>3, <2>4
<1> HIDE DEF row, state, stored, b
<1>11. rows[b] = row /\ DOMAIN rows = 0 .. CompCap - 1
  BY <1>2, <1>7
<1> HIDE DEF rows
<1>12. u.state = state /\ u.rows = rows
  BY <1>8
<1>13. StateOk(u, r, cut, p + 1)
  BY <1>6, <1>8, <1>9, <1>11, <1>12 DEF StateOk
<1>14. u.rows[b].pool[1] = RowPool(r, cut, b)
  BY <1>10, <1>11, <1>12
<1> QED
  BY <1>13, <1>14 DEF u, r, b

\* Any other token is only stored.
LEMMA DecodeWithin ==
  ASSUME Ratio \in Nat \ {0}, NEW cut, NEW p \in Nat, NEW c, StateOk(c, Ratio, cut, p), ~Emits(Ratio, p)
  PROVE  StateOk(DecodeComp(c, p), Ratio, cut, p + 1) /\ DecodeComp(c, p).rows = c.rows
<1> DEFINE u == [c EXCEPT !.state = Store(c.state, Ratio, p)]
<1>1. DecodeComp(c, p) = u
  BY DEF DecodeComp, EmitConditional
<1>2. Update(c, Ratio, p, 0) = u
  BY DEF Update
<1>3. u.rows = c.rows
  BY DEF StateOk
<1> HIDE DEF u
<1>4. StateOk(Update(c, Ratio, p, 0), Ratio, cut, p + 1)
  BY UpdateState
<1> QED
  BY <1>1, <1>2, <1>3, <1>4

(* The layer. *)

\* layer_comp_cap is the context's length divided by the ratio, plus two.
RoomForRows == \A s \in Settings : s.ratio # 0 => MaxPos \div s.ratio <= CompCap

\* After p tokens, with a counter of n: the state holds the last tokens as long as
\* no row was dropped; what is counted has been pooled as long as the counter is
\* that of the position (a decode step emits its row and leaves the counter).
CompOk(r, cut, c, p, n) ==
  /\ n \in Nat /\ n <= CompCap /\ n <= p \div r
  /\ n = p \div r \/ RoomForRows => StateOk(c, r, cut, p)
  /\ n = p \div r => RowsHold(c.rows, r, cut, n)
LayerInv ==
  /\ set \in Settings /\ pos \in Nat /\ nComp \in Nat
  /\ Ratio # 0 => CompOk(Ratio, cold, comp, pos, nComp)

LEMMA RatioIs == ASSUME set \in Settings, Ratio # 0 PROVE Ratio \in Nat \ {0} /\ CompRatio = Ratio
BY LayerAssumption DEF Ratio, CompRatio

LEMMA EmptyHolds ==
  ASSUME NEW r \in Nat \ {0}
  PROVE  StateHolds(FillState(r), r, 0, 0, 0)
<1>1. r = 4 => \A j \in 0 .. 3 : j \in StateRows(r)
  BY DEF StateRows, Coff
<1>2. 0 = 0 \div 4 /\ CutAt(0, 0 * 4 + 0)
  BY DEF CutAt
<1> QED
  BY <1>1, <1>2 DEF StateHolds, FillState, PrevTok

LEMMA LayerStarts == LayerInit => LayerInv
<1> SUFFICES ASSUME LayerInit PROVE LayerInv
  OBVIOUS
<1>1. set \in Settings /\ pos = 0 /\ cold = 0 /\ nComp = 0 /\ comp = [state |-> FillState(CompRatio), rows |-> NoRows]
  BY DEF LayerInit
<1>2. ASSUME Ratio # 0 PROVE CompOk(Ratio, cold, comp, pos, nComp)
  <2>1. Ratio \in Nat \ {0} /\ CompRatio = Ratio
    BY <1>1, <1>2, RatioIs
  <2>2. 0 * Ratio + 0 = 0 /\ 0 \in 0 .. Ratio - 1
    BY <2>1
  <2>3. (0 * Ratio + 0) \div Ratio = 0 /\ (0 * Ratio + 0) % Ratio = 0
    BY <2>1, <2>2, Divides
  <2>4. 0 \div Ratio = 0 /\ 0 % Ratio = 0
    BY <2>2, <2>3
  <2>5. StateHolds(FillState(Ratio), Ratio, 0, 0, 0)
    BY <2>1, EmptyHolds
  <2>6. RowsHold(comp.rows, Ratio, cold, 0)
    BY DEF RowsHold
  <2>7. StateOk(comp, Ratio, cold, pos)
    BY <1>1, <2>1, <2>4, <2>5 DEF StateOk, NoRows
  <2> QED
    BY <1>1, <2>4, <2>6, <2>7, CompressorAssumption DEF CompOk
<1> QED
  BY <1>1, <1>2 DEF LayerInv

\* What a batch leaves is as good as what it found.
LEMMA BatchKeepsOk ==
  ASSUME NEW r \in Nat \ {0}, NEW cut, NEW c, NEW p \in Nat, NEW m, CompOk(r, cut, c, p, m),
         NEW n \in Nat, NEW done, BatchKeeps(done, r, cut, c, m, p, n), done.n <= CompCap
  PROVE  CompOk(r, cut, done.comp, p + n, done.n) /\ m <= done.n /\ (done.n = (p + n) \div r => m = p \div r)
<1> DEFINE a == p \div r
           b == (p + n) \div r
<1>1. m \in Nat /\ m <= a
  BY DEF CompOk
<1>2. a \in Nat /\ b \in Nat /\ a <= b
  <2>1. p + n \in Nat /\ p <= p + n
    OBVIOUS
  <2> QED
    BY <2>1, QuotientFacts, QuotientMonotone
<1>3. /\ done.n = m + (b - a)
      /\ StateOk(c, r, cut, p) => StateOk(done.comp, r, cut, p + n)
      /\ StateOk(c, r, cut, p) /\ RowsHold(c.rows, r, cut, m) /\ m = a /\ done.n <= CompCap
           => RowsHold(done.comp.rows, r, cut, done.n)
  BY DEF BatchKeeps
<1>4. (m = a \/ RoomForRows => StateOk(c, r, cut, p)) /\ (m = a => RowsHold(c.rows, r, cut, m))
  BY DEF CompOk
<1> HIDE DEF a, b
<1>5. done.n \in Nat /\ done.n <= b /\ m <= done.n /\ (done.n = b => m = a)
  BY <1>1, <1>2, <1>3
<1> QED
  BY <1>3, <1>4, <1>5 DEF a, b, CompOk

LEMMA ChunkInv == ASSUME LayerInv, NEW n \in 1 .. PrefillCap, Chunk(n) PROVE LayerInv'
<1>1. /\ set' = set /\ cold' = cold /\ set \in Settings /\ pos' = pos + n /\ n \in Nat \ {0}
      /\ pos \in Nat \ {0} /\ pos' \in Nat /\ Ratio' = Ratio
  BY LayerAssumption DEF LayerInv, Chunk, Ratio
<1>2. PICK done : /\ done = ChunkComp(comp, nComp, pos, n) /\ done.n <= CompCap
                  /\ comp' = done.comp /\ nComp' = done.n
  BY DEF Chunk
<1>3. CASE Ratio = 0
  <2>1. done.n = 0
    BY <1>2, <1>3 DEF ChunkComp
  <2> QED
    BY <1>1, <1>2, <1>3, <2>1 DEF LayerInv
<1>4. CASE Ratio # 0
  <2>1. Ratio \in Nat \ {0} /\ nComp \in Nat /\ CompOk(Ratio, cold, comp, pos, nComp)
    BY <1>4, RatioIs DEF LayerInv
  <2>2. BatchKeeps(done, Ratio, cold, comp, nComp, pos, n)
    BY <1>1, <1>2, <2>1, ChunkKeeps
  <2>3. CompOk(Ratio, cold, done.comp, pos + n, done.n)
    BY <1>1, <1>2, <2>1, <2>2, BatchKeepsOk
  <2>4. done.n \in Nat
    BY <2>3 DEF CompOk
  <2> QED
    BY <1>1, <1>2, <2>3, <2>4 DEF LayerInv
<1> QED
  BY <1>3, <1>4

\* The rows of one state with the tokens of an earlier one.
LEMMA Rewound ==
  ASSUME NEW r, NEW cut, NEW x, NEW y, NEW p, NEW q, StateOk(x, r, cut, p), StateOk(y, r, cut, q)
  PROVE  /\ StateOk([y EXCEPT !.state = x.state], r, cut, p)
         /\ [y EXCEPT !.state = x.state].rows = y.rows
<1>1. /\ y = [state |-> y.state, rows |-> y.rows] /\ DOMAIN y.rows = 0 .. CompCap - 1
      /\ StateHolds(x.state, r, cut, p \div r, p % r)
  BY DEF StateOk
<1>2. [y EXCEPT !.state = x.state] = [state |-> x.state, rows |-> y.rows]
  BY <1>1
<1> DEFINE z == [state |-> x.state, rows |-> y.rows]
<1>3. z.state = x.state /\ z.rows = y.rows /\ z = [state |-> z.state, rows |-> z.rows]
  OBVIOUS
<1> HIDE DEF z
<1>4. StateOk(z, r, cut, p)
  BY <1>1, <1>3 DEF StateOk
<1> QED
  BY <1>2, <1>3, <1>4 DEF z

\* The rows of the whole batch serve a shorter part of it.
LEMMA RewoundOk ==
  ASSUME NEW r \in Nat \ {0}, NEW cut, NEW x, NEW p \in Nat, NEW n, CompOk(r, cut, x, p, n),
         NEW y, NEW q, NEW m \in Nat, n <= m,
         n = p \div r \/ RoomForRows => StateOk(y, r, cut, q), n = p \div r => RowsHold(y.rows, r, cut, m)
  PROVE  CompOk(r, cut, [y EXCEPT !.state = x.state], p, n)
<1> DEFINE z == [y EXCEPT !.state = x.state]
<1>1. n \in Nat /\ n <= CompCap /\ n <= p \div r /\ (n = p \div r \/ RoomForRows => StateOk(x, r, cut, p))
  BY DEF CompOk
<1>2. ASSUME n = p \div r \/ RoomForRows PROVE StateOk(z, r, cut, p) /\ z.rows = y.rows
  BY <1>1, <1>2, Rewound
<1> HIDE DEF z
<1>3. ASSUME n = p \div r PROVE RowsHold(z.rows, r, cut, n)
  <2>1. 0 .. n - 1 \subseteq 0 .. m - 1
    BY <1>1
  <2> QED
    BY <1>2, <1>3, <2>1 DEF RowsHold
<1> QED
  BY <1>1, <1>2, <1>3 DEF CompOk, z

LEMMA VerifyInv == ASSUME LayerInv, NEW accepted \in 0 .. 2, Verify(accepted) PROVE LayerInv'
<1>1. /\ set' = set /\ cold' = cold /\ set \in Settings /\ pos' = pos + accepted /\ pos \in Nat \ {0} /\ pos' \in Nat
      /\ nComp \in Nat /\ Ratio' = Ratio
  BY DEF LayerInv, Verify, Ratio
<1> DEFINE both == ChunkComp(comp, nComp, pos, 2)
           one == ChunkComp(comp, nComp, pos, 1)
           kept == IF accepted = 2 THEN both
                   ELSE IF accepted = 1 THEN CommitPrefix1(one, both)
                   ELSE [comp |-> [both.comp EXCEPT !.state = comp.state], n |-> nComp]
<1>2. both.n <= CompCap /\ comp' = kept.comp /\ nComp' = kept.n
  BY DEF Verify
<1>3. CASE Ratio = 0
  <2>1. both.n = 0 /\ one.n = 0
    BY <1>3 DEF ChunkComp
  <2> HIDE DEF both, one
  <2>2. kept.n \in Nat
    BY <1>1, <2>1 DEF CommitPrefix1
  <2> HIDE DEF kept
  <2> QED
    BY <1>1, <1>2, <1>3, <2>2 DEF LayerInv
<1>4. CASE Ratio # 0
  <2>1. Ratio \in Nat \ {0} /\ CompOk(Ratio, cold, comp, pos, nComp)
    BY <1>1, <1>4, RatioIs DEF LayerInv
  <2>2. BatchKeeps(both, Ratio, cold, comp, nComp, pos, 2) /\ BatchKeeps(one, Ratio, cold, comp, nComp, pos, 1)
    BY <1>1, <2>1, ChunkKeeps
  <2> HIDE DEF both, one
  <2>3. one.n \in Nat /\ both.n \in Nat /\ one.n <= both.n /\ one.n <= CompCap /\ nComp <= both.n
    <3> DEFINE a == pos \div Ratio
               b == (pos + 1) \div Ratio
               d == (pos + 2) \div Ratio
    <3>1. a \in Nat /\ b \in Nat /\ d \in Nat /\ a <= b /\ b <= d
      <4>1. pos + 1 \in Nat /\ pos + 2 \in Nat /\ pos <= pos + 1 /\ pos + 1 <= pos + 2
        BY <1>1
      <4> QED
        BY <1>1, <2>1, <4>1, QuotientFacts, QuotientMonotone
    <3>2. one.n = nComp + (b - a) /\ both.n = nComp + (d - a)
      BY <2>2 DEF BatchKeeps
    <3> HIDE DEF a, b, d
    <3> QED
      BY <1>1, <1>2, <3>1, <3>2, CompressorAssumption
  <2>4. CompOk(Ratio, cold, both.comp, pos + 2, both.n)
    BY <1>1, <1>2, <2>1, <2>2, BatchKeepsOk
  <2>5. CompOk(Ratio, cold, one.comp, pos + 1, one.n) /\ (one.n = (pos + 1) \div Ratio => nComp = pos \div Ratio)
    BY <1>1, <2>1, <2>2, <2>3, BatchKeepsOk
  <2>6. /\ nComp = pos \div Ratio \/ RoomForRows => StateOk(both.comp, Ratio, cold, pos + 2)
        /\ nComp = pos \div Ratio => RowsHold(both.comp.rows, Ratio, cold, both.n)
    <3>1. /\ nComp = pos \div Ratio \/ RoomForRows => StateOk(comp, Ratio, cold, pos)
          /\ nComp = pos \div Ratio => RowsHold(comp.rows, Ratio, cold, nComp)
      BY <2>1 DEF CompOk
    <3> QED
      BY <1>2, <2>2, <3>1 DEF BatchKeeps
  <2>7. CompOk(Ratio, cold, kept.comp, pos + accepted, kept.n)
    <3>1. CASE accepted = 2
      BY <2>4, <3>1
    <3>2. CASE accepted = 1
      <4>1. kept.n = one.n /\ kept.comp = [both.comp EXCEPT !.state = one.comp.state]
        BY <3>2 DEF CommitPrefix1
      <4>2. pos + 1 \in Nat
        BY <1>1
      <4>3. CompOk(Ratio, cold, [both.comp EXCEPT !.state = one.comp.state], pos + 1, one.n)
        BY <2>1, <2>3, <2>5, <2>6, <4>2, RewoundOk
      <4> HIDE DEF kept
      <4> QED
        BY <3>2, <4>1, <4>3
    <3>3. CASE accepted = 0
      <4>1. kept.n = nComp /\ kept.comp = [both.comp EXCEPT !.state = comp.state]
        BY <3>3
      <4>2. CompOk(Ratio, cold, [both.comp EXCEPT !.state = comp.state], pos, nComp)
        BY <1>1, <2>1, <2>3, <2>6, RewoundOk
      <4>3. pos + accepted = pos
        BY <1>1, <3>3
      <4> HIDE DEF kept
      <4> QED
        BY <4>1, <4>2, <4>3
    <3> QED
      BY <3>1, <3>2, <3>3
  <2>8. kept.n \in Nat
    BY <2>7 DEF CompOk
  <2> HIDE DEF kept
  <2> QED
    BY <1>1, <1>2, <2>7, <2>8 DEF LayerInv
<1> QED
  BY <1>3, <1>4

\* The quotient of a position that is in the layer's context.
LEMMA RoomAt ==
  ASSUME RoomForRows, set \in Settings, Ratio # 0, pos \in Nat, pos < MaxPos
  PROVE  (pos + 1) \div Ratio <= CompCap
<1>1. Ratio \in Nat \ {0} /\ MaxPos \in Nat /\ pos + 1 \in Nat /\ pos + 1 <= MaxPos
  BY RatioIs, LayerAssumption
<1>2. (pos + 1) \div Ratio <= MaxPos \div Ratio
  BY <1>1, QuotientMonotone
<1>3. MaxPos \div Ratio <= CompCap
  BY DEF RoomForRows, Ratio
<1>4. (pos + 1) \div Ratio \in Nat /\ MaxPos \div Ratio \in Nat
  BY <1>1, QuotientFacts
<1> QED
  BY <1>2, <1>3, <1>4, CompressorAssumption

LEMMA DecodeInv ==
  ASSUME LayerInv, set' = set, cold' = cold, nComp' = nComp, pos < MaxPos, pos' = pos + 1,
         comp' = IF Ratio = 0 THEN comp ELSE DecodeComp(comp, pos)
  PROVE  LayerInv'
<1>1. set \in Settings /\ pos' \in Nat /\ nComp' \in Nat /\ Ratio' = Ratio
  BY DEF LayerInv, Ratio
<1>2. ASSUME Ratio # 0 PROVE CompOk(Ratio, cold, comp', pos + 1, nComp)
  <2>1. /\ Ratio \in Nat \ {0} /\ pos \in Nat /\ nComp \in Nat
        /\ comp' = DecodeComp(comp, pos) /\ CompOk(Ratio, cold, comp, pos, nComp)
    BY <1>2, RatioIs DEF LayerInv
  <2> DEFINE a == pos \div Ratio
             b == (pos + 1) \div Ratio
  <2>2. a \in Nat /\ b = IF Emits(Ratio, pos) THEN a + 1 ELSE a
    <3>1. pos % Ratio \in 0 .. Ratio - 1 /\ a \in Nat
      BY <2>1, RemainderFacts
    <3> QED
      BY <2>1, <3>1, NextPosition
  <2>3. /\ nComp <= CompCap /\ nComp <= a
        /\ nComp = a \/ RoomForRows => StateOk(comp, Ratio, cold, pos)
        /\ nComp = a => RowsHold(comp.rows, Ratio, cold, nComp)
    BY <2>1 DEF CompOk
  <2>4. nComp <= b /\ (nComp = b => ~Emits(Ratio, pos) /\ nComp = a)
    <3> HIDE DEF a, b
    <3> QED
      BY <2>1, <2>2, <2>3
  <2>5. ASSUME nComp = b \/ RoomForRows
        PROVE  StateOk(comp', Ratio, cold, pos + 1) /\ (nComp = b => comp'.rows = comp.rows)
    <3>1. StateOk(comp, Ratio, cold, pos)
      BY <2>3, <2>4, <2>5
    <3>2. CASE ~Emits(Ratio, pos)
      BY <2>1, <3>1, <3>2, DecodeWithin
    <3>3. CASE Emits(Ratio, pos)
      <4>1. nComp # b /\ b <= CompCap
        BY <1>1, <1>2, <2>1, <2>4, <2>5, <3>3, RoomAt
      <4> QED
        BY <2>1, <3>1, <3>3, <4>1, EmitKeeps
    <3> QED
      BY <3>2, <3>3
  <2>6. nComp = b => RowsHold(comp'.rows, Ratio, cold, nComp)
    BY <2>3, <2>4, <2>5
  <2> QED
    BY <2>1, <2>3, <2>4, <2>5, <2>6 DEF CompOk
<1> QED
  BY <1>1, <1>2 DEF LayerInv

\* The rows of a batch from token 0.
LEMMA FirstRowsPooled ==
  ASSUME NEW r \in Nat \ {0}, NEW n \in Nat, NEW state
  PROVE  BatchPooled(PrefillRows(state, r, 0, n, FALSE), r, n, 0, n \div r)
<1> DEFINE replay == FALSE
           a == 0
           pos0 == 0
           q == n \div r
<1>1. /\ replay \in BOOLEAN /\ ~replay /\ a \in Nat /\ a = 0
      /\ pos0 = a * r /\ q = n \div r /\ (r = 4 => q <= n \div 4)
  BY QuotientFacts
<1>2. BatchPooled(PrefillRows(state, r, pos0, n, replay), r, n, a, q)
  <2> HIDE DEF replay, a, pos0, q
  <2> QED
    BY <1>1, PrefillRowsPooled
<1> QED
  BY <1>2

LEMMA PrefillInv ==
  ASSUME LayerInv, NEW n \in 1 .. PrefillCap, Prefill(n)
  PROVE  LayerInv'
<1> DEFINE r == Ratio
           rows == PrefillRows(FillState(r), r, 0, n, FALSE)
           state == IF r = 4 THEN PrefillStateRatio4(n - 4) ELSE PrefillState(r, 0, n)
           empty == [state |-> FillState(CompRatio), rows |-> NoRows]
           q == n \div r
<1>1. set' = set /\ cold' = n /\ set \in Settings /\ pos' = n /\ n \in Nat \ {0} /\ r' = r
  BY LayerAssumption DEF LayerInv, Prefill, Ratio
<1>2. CASE r = 0
  BY <1>1, <1>2 DEF LayerInv, Prefill
<1>3. CASE r # 0
  <2>1. r \in Nat \ {0} /\ CompRatio = r
    BY <1>1, <1>3, RatioIs
  <2>2. /\ q <= CompCap /\ nComp' = q
        /\ comp' = [state |-> state, rows |-> AppendRows(empty, 0, rows)]
    BY <1>3, <2>1 DEF Prefill
  <2>3. r = 4 => n >= 4
    BY DEF Prefill
  <2>4. DOMAIN rows = 0 .. q - 1
    BY DEF PrefillRows
  <2> DEFINE kept == AppendRows(empty, 0, rows)
  <2> HIDE DEF r, rows, empty
  <2>5. q \in Nat
    BY <1>1, <2>1, QuotientFacts
  <2>6. 0 * r = 0 /\ 0 * r + n = n
    BY <1>1, <2>1
  <2>7. StateHolds(state, r, n, q, n % r)
    <3>1. CASE r # 4
      <4>1. StateHolds(PrefillState(r, 0 * r, n), r, n, 0 + (n \div r), n % r)
        BY <1>1, <2>1, <3>1, PrefillStateHolds
      <4> HIDE DEF q
      <4>2. 0 + q = q
        BY <2>5
      <4> QED
        BY <2>6, <3>1, <4>1, <4>2 DEF q
    <3>2. CASE r = 4
      BY <1>1, <2>3, <3>2, PromptStateHolds
    <3> QED
      BY <3>1, <3>2
  <2>8. RowsHold(kept, r, n, q)
    <3>2. ASSUME NEW k \in 0 .. q - 1, NEW s \in 1 .. Stripes PROVE kept[k].pool[s] = RowPool(r, n, k)
      <4>1. k \in 0 .. CompCap - 1 /\ k - 0 = k /\ 0 + k = k
        <5> HIDE DEF q
        <5> QED
          BY <2>2, <2>5, CompressorAssumption
      <4>2. kept[k] = rows[k]
        BY <2>4, <4>1 DEF AppendRows
      <4>3. BatchPooled(rows, r, n, 0, q)
        BY <1>1, <2>1, FirstRowsPooled DEF rows
      <4>4. rows[k].pool[s] = RowPool(r, n, 0 + k)
        BY <4>3 DEF BatchPooled
      <4> QED
        BY <4>1, <4>2, <4>4
    <3> QED
      BY <3>2 DEF RowsHold
  <2>9. CompOk(r, n, comp', n, q)
    <3>3. DOMAIN kept = 0 .. CompCap - 1
      BY DEF AppendRows
    <3> HIDE DEF kept, state
    <3>1. comp' = [state |-> state, rows |-> kept]
      BY <2>2 DEF kept
    <3>2. comp'.state = state /\ comp'.rows = kept
      BY <3>1
    <3> QED
      BY <2>2, <2>5, <2>7, <2>8, <3>1, <3>2, <3>3 DEF CompOk, StateOk
  <2> HIDE DEF state, kept
  <2>10. Ratio' = r
    BY <1>1 DEF r
  <2> QED
    BY <1>1, <2>2, <2>5, <2>9, <2>10 DEF LayerInv
<1> QED
  BY <1>2, <1>3

LEMMA LayerNextInv == ASSUME LayerInv, [LayerNext]_layerVars PROVE LayerInv'
<1>1. ASSUME NEW n \in 1 .. PrefillCap, Prefill(n) PROVE LayerInv'
  BY <1>1, PrefillInv
<1>2. ASSUME NEW n \in 1 .. PrefillCap, Chunk(n) PROVE LayerInv'
  BY <1>2, ChunkInv
<1>3. CASE Decode
  BY <1>3, DecodeInv DEF Decode
<1>4. CASE GraphDecode
  BY <1>4, DecodeInv DEF GraphDecode
<1>5. ASSUME NEW accepted \in 0 .. 2, Verify(accepted) PROVE LayerInv'
  BY <1>5, VerifyInv
<1>6. CASE UNCHANGED layerVars
  BY <1>6 DEF LayerInv, layerVars, Ratio
<1> QED
  BY <1>1, <1>2, <1>3, <1>4, <1>5, <1>6 DEF LayerNext

\* core/ds4_gpu.inc, the compressor of a layer: the invariant of its state.
THEOREM LayerInvAlways == LayerSpec => []LayerInv
<1>1. LayerInit => LayerInv
  BY LayerStarts
<1>2. LayerInv /\ [LayerNext]_layerVars => LayerInv'
  BY LayerNextInv
<1> QED
  BY <1>1, <1>2, PTL DEF LayerSpec

\* gpu_graph_eval_token_raw_swa(), gpu_graph_prefill_chunked_range() and the
\* verifier: while the counter is that of the position, every row it counts was
\* pooled from what RowPool names, for every ratio, every prompt the layer takes,
\* and every order of batches, single tokens and partly accepted drafts.
THEOREM RowsAlwaysPooled == LayerSpec => []RowsPooled
<1>1. LayerInv => RowsPooled
  <2> SUFFICES ASSUME LayerInv, Ratio # 0, Counted PROVE RowsHold(comp.rows, Ratio, cold, nComp)
    BY DEF RowsPooled, RowsHold
  <2>1. nComp = pos \div Ratio
    BY DEF Counted
  <2> QED
    BY <2>1 DEF LayerInv, CompOk
<1>2. LayerSpec => []LayerInv
  BY LayerInvAlways
<1> QED
  BY <1>1, <1>2, PTL

\* compressor_emit_conditional_kernel: in any context the caches were allocated
\* for, the decode step that ends a block pools the first 256 dimensions of its row
\* from what RowPool names, however the layer came there, for rows of any width, and
\* whether or not the counter has followed.
THEOREM EveryRowEmitted == RoomForRows => (LayerSpec => StripeEmitted)
<1> SUFFICES ASSUME RoomForRows PROVE LayerSpec => StripeEmitted
  OBVIOUS
<1> DEFINE Pools == Ratio # 0 /\ Emits(Ratio, pos) =>
                      comp'.rows[pos \div Ratio].pool[1] = RowPool(Ratio, cold, pos \div Ratio)
<1>1. ASSUME LayerInv, Decode \/ GraphDecode PROVE Pools
  <2> SUFFICES ASSUME Ratio # 0, Emits(Ratio, pos)
               PROVE  comp'.rows[pos \div Ratio].pool[1] = RowPool(Ratio, cold, pos \div Ratio)
    OBVIOUS
  <2>1. pos < MaxPos /\ comp' = DecodeComp(comp, pos)
    BY <1>1 DEF Decode, GraphDecode
  <2>2. /\ set \in Settings /\ Ratio \in Nat \ {0} /\ pos \in Nat
        /\ StateOk(comp, Ratio, cold, pos) /\ (pos + 1) \div Ratio <= CompCap
    BY <1>1, <2>1, RatioIs, RoomAt DEF LayerInv, CompOk
  <2> QED
    BY <2>1, <2>2, EmitKeeps
<1>2. LayerInv /\ [LayerNext]_layerVars =>
        [(Decode \/ GraphDecode) /\ Ratio # 0 /\ Emits(Ratio, pos) =>
           comp'.rows[pos \div Ratio].pool[1] = RowPool(Ratio, cold, pos \div Ratio)]_layerVars
  BY <1>1
<1>3. LayerSpec => []LayerInv
  BY LayerInvAlways
<1> QED
  BY <1>2, <1>3, PTL DEF LayerSpec, StripeEmitted

-----------------------------------------------------------------------------
(***************************************************************************)
(* What a token's attention reads.  First the kernels: each gives to the   *)
(* softmax the rows of the token's window and the compressed rows it may   *)
(* see, none twice.                                                        *)
(***************************************************************************)
\* What a kernel gives to the softmax: each of these raw rows and compressed rows once.
Gives(keys, R, C) ==
  IsInjective(keys) /\ Range(keys) = {RawKey(s) : s \in R} \cup {CompKey(c) : c \in C}
\* A sequence without repetitions, and what it lists.
Once(seq) == \A i, j \in 1 .. Len(seq) : seq[i] = seq[j] => i = j
Entries(seq) == {seq[i] : i \in 1 .. Len(seq)}

\* A raw key and a compressed key differ, and each tells its row.
LEMMA KeysDiffer ==
  /\ \A x, y : RawKey(x) = RawKey(y) => x = y
  /\ \A x, y : CompKey(x) = CompKey(y) => x = y
  /\ \A x, y : RawKey(x) # CompKey(y)
BY DEF RawKey, CompKey

\* The length of the rows a kernel lists.
LEMMA LenOf ==
  ASSUME NEW n \in Nat, NEW s, DOMAIN s = 1 .. n, s = [i \in 1 .. n |-> s[i]]
  PROVE  Len(s) = n
OBVIOUS

\* Raw rows and compressed rows listed once each are given once each: sr < raw_count ?
\* raw : comp, the order every kernel scores in.
LEMMA ScoredGives ==
  ASSUME NEW raw, NEW rows, Len(raw) \in Nat, Len(rows) \in Nat, Once(raw), Once(rows)
  PROVE  LET keys == Scored(raw, rows)
         IN  /\ DOMAIN keys = 1 .. Len(raw) + Len(rows) /\ Len(keys) = Len(raw) + Len(rows)
             /\ Gives(keys, Entries(raw), Entries(rows))
<1> DEFINE n == Len(raw)
           m == Len(rows)
           keys == Scored(raw, rows)
<1>1. n \in Nat /\ m \in Nat
  OBVIOUS
<1>2. keys = [sr \in 1 .. n + m |-> IF sr <= n THEN RawKey(raw[sr]) ELSE CompKey(rows[sr - n])]
  BY DEF Scored
<1>3. /\ \A i, j \in 1 .. n : raw[i] = raw[j] => i = j
      /\ \A i, j \in 1 .. m : rows[i] = rows[j] => i = j
  BY DEF Once
<1>4. Entries(raw) = {raw[i] : i \in 1 .. n} /\ Entries(rows) = {rows[i] : i \in 1 .. m}
  BY DEF Entries
<1> HIDE DEF n, m, keys
<1>5. DOMAIN keys = 1 .. n + m /\ n + m \in Nat
  BY <1>1, <1>2
<1>6. Len(keys) = n + m
  BY <1>2, <1>5, LenOf
<1>7. /\ \A i \in 1 .. n : i \in DOMAIN keys /\ keys[i] = RawKey(raw[i])
      /\ \A i \in 1 .. m : n + i \in DOMAIN keys /\ keys[n + i] = CompKey(rows[i])
      /\ \A i \in DOMAIN keys : i \in 1 .. n \/ (i - n \in 1 .. m /\ keys[i] = CompKey(rows[i - n]))
  <2>1. ASSUME NEW i \in 1 .. n PROVE i \in DOMAIN keys /\ keys[i] = RawKey(raw[i])
    BY <1>1, <1>2, <1>5
  <2>2. ASSUME NEW i \in 1 .. m PROVE n + i \in DOMAIN keys /\ keys[n + i] = CompKey(rows[i])
    <3>1. n + i \in 1 .. n + m /\ ~(n + i <= n) /\ (n + i) - n = i
      BY <1>1
    <3> QED
      BY <1>2, <1>5, <3>1
  <2>3. ASSUME NEW i \in DOMAIN keys, i \notin 1 .. n
        PROVE  i - n \in 1 .. m /\ keys[i] = CompKey(rows[i - n])
    <3>1. i \in 1 .. n + m /\ ~(i <= n) /\ i - n \in 1 .. m
      BY <1>1, <1>5, <2>3
    <3> QED
      BY <1>2, <3>1
  <2> QED
    BY <2>1, <2>2, <2>3
<1>8. IsInjective(keys)
  <2> SUFFICES ASSUME NEW i \in DOMAIN keys, NEW j \in DOMAIN keys, keys[i] = keys[j] PROVE i = j
    BY DEF IsInjective
  <2>1. CASE i \in 1 .. n /\ j \in 1 .. n
    BY <1>3, <1>7, <2>1, KeysDiffer
  <2>2. CASE i \in 1 .. n /\ j \notin 1 .. n
    BY <1>7, <2>2, KeysDiffer
  <2>3. CASE i \notin 1 .. n /\ j \in 1 .. n
    BY <1>7, <2>3, KeysDiffer
  <2>4. CASE i \notin 1 .. n /\ j \notin 1 .. n
    <3>1. i - n \in 1 .. m /\ j - n \in 1 .. m /\ CompKey(rows[i - n]) = CompKey(rows[j - n])
      BY <1>7, <2>4
    <3>2. i - n = j - n
      BY <1>3, <3>1, KeysDiffer
    <3> QED
      BY <1>1, <1>5, <3>2
  <2> QED
    BY <2>1, <2>2, <2>3, <2>4
<1>9. Range(keys) = {RawKey(s) : s \in Entries(raw)} \cup {CompKey(c) : c \in Entries(rows)}
  <2>1. ASSUME NEW k \in Range(keys)
        PROVE  k \in {RawKey(s) : s \in Entries(raw)} \cup {CompKey(c) : c \in Entries(rows)}
    <3>1. PICK i \in DOMAIN keys : k = keys[i]
      BY <2>1 DEF Range
    <3> QED
      BY <1>4, <1>7, <3>1
  <2>2. ASSUME NEW s \in Entries(raw) PROVE RawKey(s) \in Range(keys)
    BY <1>4, <1>7, <2>2 DEF Range
  <2>3. ASSUME NEW c \in Entries(rows) PROVE CompKey(c) \in Range(keys)
    <3>1. PICK i \in 1 .. m : c = rows[i]
      BY <1>4
    <3> QED
      BY <1>7, <3>1 DEF Range
  <2> QED
    BY <2>1, <2>2, <2>3
<1> QED
  BY <1>5, <1>6, <1>8, <1>9 DEF n, m, keys, Gives

\* Tiles of four cover their rows once.
LEMMA TilesGive ==
  ASSUME NEW keys, Len(keys) \in Nat, DOMAIN keys = 1 .. Len(keys), NEW R, NEW C, Gives(keys, R, C)
  PROVE  /\ Gives(InTiles(keys), R, C)
         /\ Gives([i \in 0 .. Len(keys) - 1 |-> InTiles(keys)[<<i \div 4, i % 4>>]], R, C)
<1> DEFINE n == Len(keys)
           tiles == InTiles(keys)
           places == {y \in (0 .. (n + 3) \div 4 - 1) \X (0 .. 3) : y[2] < n - 4 * y[1]}
           scores == [i \in 0 .. n - 1 |-> tiles[<<i \div 4, i % 4>>]]
<1>1. n \in Nat /\ DOMAIN keys = 1 .. n /\ IsInjective(keys)
  BY DEF Gives
<1>2. tiles = [x \in places |-> keys[4 * x[1] + x[2] + 1]]
  BY DEF InTiles
<1>3. ASSUME NEW x \in places
      PROVE  /\ x[1] \in Nat /\ x[2] \in 0 .. 3 /\ x = <<x[1], x[2]>>
             /\ 4 * x[1] + x[2] + 1 \in 1 .. n
  BY <1>1
<1>4. ASSUME NEW i \in 0 .. n - 1
      PROVE  <<i \div 4, i % 4>> \in places /\ 4 * (i \div 4) + (i % 4) = i
  <2> DEFINE q == i \div 4
             r == i % 4
  <2>1. q \in Nat /\ r \in 0 .. 3 /\ 4 * q + r = i
    BY <1>1
  <2>2. q <= (n + 3) \div 4 - 1
    BY <1>1
  <2> HIDE DEF q, r
  <2>3. r < n - 4 * q
    BY <1>1, <2>1
  <2>4. q \in 0 .. (n + 3) \div 4 - 1
    BY <1>1, <2>1, <2>2
  <2> QED
    BY <2>1, <2>3, <2>4 DEF q, r
<1> HIDE DEF n, tiles, places
<1>5. ASSUME NEW i \in 0 .. n - 1 PROVE scores[i] = keys[i + 1]
  <2> DEFINE x == <<i \div 4, i % 4>>
  <2>1. x \in places /\ x[1] = i \div 4 /\ x[2] = i % 4 /\ 4 * (i \div 4) + (i % 4) = i
    BY <1>4
  <2> HIDE DEF x
  <2>2. tiles[x] = keys[i + 1]
    BY <1>2, <2>1
  <2> QED
    BY <2>2 DEF x
<1>6. IsInjective(tiles)
  <2> SUFFICES ASSUME NEW x \in places, NEW y \in places, tiles[x] = tiles[y] PROVE x = y
    BY <1>2 DEF IsInjective
  <2>1. 4 * x[1] + x[2] + 1 = 4 * y[1] + y[2] + 1
    BY <1>1, <1>2, <1>3 DEF IsInjective
  <2>2. PICK a, b, c, d : a = x[1] /\ b = x[2] /\ c = y[1] /\ d = y[2]
    OBVIOUS
  <2>3. a \in Nat /\ b \in 0 .. 3 /\ c \in Nat /\ d \in 0 .. 3 /\ x = <<a, b>> /\ y = <<c, d>>
    BY <1>3, <2>2
  <2>4. 4 * a + b = 4 * c + d
    <3>1. 4 * a + b + 1 = 4 * c + d + 1
      BY <2>1, <2>2
    <3> QED
      BY <2>3, <3>1
  <2>5. a = c /\ b = d
    BY <2>3, <2>4
  <2> QED
    BY <2>3, <2>5
<1>7. Range(tiles) = Range(keys)
  <2>1. ASSUME NEW x \in places PROVE tiles[x] \in Range(keys)
    BY <1>1, <1>2, <1>3 DEF Range
  <2>2. ASSUME NEW i \in 1 .. n PROVE keys[i] \in Range(tiles)
    <3> DEFINE j == i - 1
    <3>1. j \in 0 .. n - 1 /\ j + 1 = i
      BY <1>1
    <3> HIDE DEF j
    <3>2. /\ <<j \div 4, j % 4>> \in places /\ scores[j] = tiles[<<j \div 4, j % 4>>]
          /\ scores[j] = keys[j + 1]
      BY <1>4, <1>5, <3>1
    <3> HIDE DEF scores
    <3> QED
      BY <1>2, <3>1, <3>2 DEF Range
  <2> QED
    BY <1>1, <1>2, <2>1, <2>2 DEF Range
<1>8. IsInjective(scores) /\ Range(scores) = Range(keys)
  <2>1. DOMAIN scores = 0 .. n - 1
    OBVIOUS
  <2> HIDE DEF scores
  <2>2. IsInjective(scores)
    <3> SUFFICES ASSUME NEW i \in 0 .. n - 1, NEW j \in 0 .. n - 1, scores[i] = scores[j] PROVE i = j
      BY <2>1 DEF IsInjective
    <3>1. i + 1 \in DOMAIN keys /\ j + 1 \in DOMAIN keys /\ keys[i + 1] = keys[j + 1]
      BY <1>1, <1>5
    <3>2. i + 1 = j + 1
      BY <1>1, <3>1 DEF IsInjective
    <3> QED
      BY <3>2
  <2>3. ASSUME NEW i \in 0 .. n - 1 PROVE scores[i] \in Range(keys)
    BY <1>1, <1>5 DEF Range
  <2>4. ASSUME NEW i \in 1 .. n PROVE keys[i] \in Range(scores)
    <3>1. i - 1 \in 0 .. n - 1 /\ (i - 1) + 1 = i
      BY <1>1
    <3>2. scores[i - 1] = keys[i]
      BY <1>5, <3>1
    <3> QED
      BY <2>1, <3>1, <3>2 DEF Range
  <2> QED
    BY <1>1, <2>1, <2>2, <2>3, <2>4 DEF Range
<1> QED
  BY <1>6, <1>7, <1>8 DEF Gives, n, tiles

\* Consecutive rows are listed once each.
LEMMA RunOf ==
  ASSUME NEW first \in Int, NEW n \in Nat
  PROVE  Len(Run(first, n)) = n /\ Once(Run(first, n)) /\ Entries(Run(first, n)) = first .. first + n - 1
<1> DEFINE run == Run(first, n)
<1>1. DOMAIN run = 1 .. n /\ \A i \in 1 .. n : run[i] = first + i - 1
  BY DEF Run
<1>2. run = [i \in 1 .. n |-> run[i]]
  BY DEF Run
<1> HIDE DEF run
<1>3. Len(run) = n
  BY <1>1, <1>2, LenOf
<1>4. Once(run)
  BY <1>1, <1>3 DEF Once
<1>5. ASSUME NEW x \in first .. first + n - 1 PROVE x \in Entries(run)
  <2>1. x - first + 1 \in 1 .. n /\ first + (x - first + 1) - 1 = x
    OBVIOUS
  <2> QED
    BY <1>1, <1>3, <2>1 DEF Entries
<1>6. Entries(run) \subseteq first .. first + n - 1
  BY <1>1, <1>3 DEF Entries
<1> QED
  BY <1>3, <1>4, <1>5, <1>6 DEF run

\* The first rows a token may see, from row 0 on.
LEMMA RowsBelow ==
  ASSUME NEW v \in Nat
  PROVE  Len(Run(0, v)) = v /\ Once(Run(0, v)) /\ Entries(Run(0, v)) = 0 .. v - 1
<1>1. Len(Run(0, v)) = v /\ Once(Run(0, v)) /\ Entries(Run(0, v)) = 0 .. 0 + v - 1
  BY RunOf
<1>2. 0 + v - 1 = v - 1
  OBVIOUS
<1> QED
  BY <1>1, <1>2

\* A place of the ring is reached from any place before it (raw_start + lo - first + i).
LEMMA RingShift ==
  ASSUME NEW x \in Nat, NEW d \in Nat, NEW m \in Nat \ {0}
  PROVE  ((x % m) + d) % m = (x + d) % m
<1> DEFINE q == x \div m
           r == x % m
           a == (r + d) \div m
           b == (r + d) % m
<1>1. q \in Nat /\ r \in 0 .. m - 1 /\ x = q * m + r
  BY RemainderFacts
<1> HIDE DEF q, r
<1>2. r + d \in Nat
  BY <1>1
<1>3. a \in Nat /\ b \in 0 .. m - 1 /\ r + d = a * m + b
  BY <1>2, RemainderFacts
<1> HIDE DEF a, b
<1>4. q * m \in Nat /\ a * m \in Nat /\ (q + a) * m = q * m + a * m /\ q + a \in Nat
  BY <1>1, <1>3
<1>5. x + d = (q + a) * m + b
  BY <1>1, <1>3, <1>4
<1>6. (x + d) % m = b
  <2>1. ((q + a) * m + b) % m = b
    BY <1>3, <1>4, Divides
  <2> QED
    BY <1>5, <2>1
<1> QED
  BY <1>6 DEF b, r

\* Positions less than raw_cap apart have different places in the ring.
LEMMA RingPlace ==
  ASSUME NEW p \in Nat, NEW q \in Nat, NEW m \in Nat \ {0}, p % m = q % m, p - q < m, q - p < m
  PROVE  p = q
<1> DEFINE a == p \div m
           b == q \div m
           r == p % m
<1>1. a \in Nat /\ b \in Nat /\ r \in 0 .. m - 1 /\ p = a * m + r /\ q = b * m + r
  BY RemainderFacts
<1> HIDE DEF a, b, r
<1>2. a * m \in Nat /\ b * m \in Nat /\ (a + 1) * m = a * m + m /\ (b + 1) * m = b * m + m
  BY <1>1
<1>3. a * m < (b + 1) * m /\ b * m < (a + 1) * m
  BY <1>1, <1>2
<1>4. a < b + 1 /\ b < a + 1
  BY <1>1, <1>3, ProductOrder
<1> QED
  BY <1>1, <1>4

-----------------------------------------------------------------------------
\* The first position of the window of position q.
WindowFirst(q) == IF q >= Window THEN q + 1 - Window ELSE 0

\* A launch whose raw rows are the last ones of the ring, from the window of its
\* first token on.
RingLaunch(a) ==
  /\ a.pos0 \in Nat /\ a.n_tokens \in Nat \ {0} /\ a.n_raw \in Nat \ {0}
  /\ a.n_raw <= a.pos0 + a.n_tokens /\ a.pos0 + a.n_tokens <= Word
  /\ a.window = Window /\ a.raw_cap = RawCap
  /\ a.raw_start = (a.pos0 + a.n_tokens - a.n_raw) % RawCap
  /\ a.pos0 + a.n_tokens - a.n_raw <= WindowFirst(a.pos0)
  /\ a.n_comp \in Nat /\ a.ratio \in Nat \ {0}

\* The sizes of the layer are positive, and the ring holds a window and a batch.
LEMMA SizeFacts ==
  /\ Window \in Nat \ {0} /\ PrefillCap \in Nat \ {0} /\ RawCap \in Nat \ {0} /\ MaxPos \in Nat \ {0}
  /\ TopK \in Nat \ {0} /\ Window + PrefillCap <= RawCap /\ RawCap < Word
  /\ RawRows \in Nat \ {0} /\ CompRows \in Nat \ {0} /\ ScoreCap \in Nat \ {0} /\ CompCap \in Nat \ {0}
  /\ Word \in Nat \ {0}
BY LayerAssumption, KernelAssumption, CompressorAssumption DEF Word

\* The slots of consecutive positions.
RingRun(lo, n) == [i \in 1 .. n |-> (lo + i - 1) % RawCap]

\* Consecutive positions no more than raw_cap in number have one slot each.
LEMMA RingRunFacts ==
  ASSUME NEW lo \in Nat, NEW n \in Nat, n <= RawCap
  PROVE  /\ Len(RingRun(lo, n)) = n /\ Once(RingRun(lo, n))
         /\ Entries(RingRun(lo, n)) = {p % RawCap : p \in lo .. lo + n - 1}
<1> DEFINE s == RingRun(lo, n)
<1>1. DOMAIN s = 1 .. n /\ (\A i \in 1 .. n : s[i] = (lo + i - 1) % RawCap) /\ s = [i \in 1 .. n |-> s[i]]
  BY DEF RingRun
<1> HIDE DEF s
<1>2. Len(s) = n
  BY <1>1, LenOf
<1>3. Once(s)
  <2> SUFFICES ASSUME NEW i \in 1 .. n, NEW j \in 1 .. n, s[i] = s[j] PROVE i = j
    BY <1>2 DEF Once
  <2> DEFINE p == lo + i - 1
             q == lo + j - 1
  <2>1. p \in Nat /\ q \in Nat /\ p % RawCap = q % RawCap /\ p - q < RawCap /\ q - p < RawCap
    <3>1. p % RawCap = q % RawCap
      BY <1>1
    <3> QED
      BY <3>1, SizeFacts
  <2> HIDE DEF p, q
  <2>2. p = q
    BY <2>1, RingPlace, SizeFacts
  <2> QED
    BY <2>2 DEF p, q
<1>4. ASSUME NEW p \in lo .. lo + n - 1 PROVE p % RawCap \in Entries(s)
  <2>1. p - lo + 1 \in 1 .. n /\ lo + (p - lo + 1) - 1 = p
    OBVIOUS
  <2>2. s[p - lo + 1] = p % RawCap
    BY <1>1, <2>1
  <2> QED
    BY <1>2, <2>1, <2>2 DEF Entries
<1>5. ASSUME NEW i \in 1 .. n PROVE s[i] \in {p % RawCap : p \in lo .. lo + n - 1}
  <2>1. lo + i - 1 \in lo .. lo + n - 1
    OBVIOUS
  <2> QED
    BY <1>1, <2>1
<1>6. Entries(s) = {p % RawCap : p \in lo .. lo + n - 1}
  BY <1>2, <1>4, <1>5 DEF Entries
<1> QED
  BY <1>2, <1>3, <1>6 DEF s

\* A position fits its uint32.
LEMMA SmallWord ==
  ASSUME NEW x \in 0 .. Word - 1
  PROVE  U32(x) = x
<1>1. Word \in Nat \ {0} /\ x \in Nat
  BY SizeFacts
<1>2. (0 * Word + x) % Word = x
  BY <1>1, Divides
<1>3. 0 * Word + x = x
  BY <1>1
<1> QED
  BY <1>2, <1>3 DEF U32

\* The raw loop of the ring kernels (lo, hi and the count of raw_rows) lists the slots
\* of the token's own window, as many as the window has.
LEMMA WindowSlotsAre ==
  ASSUME NEW a, RingLaunch(a), NEW t \in 0 .. a.n_tokens - 1, Window <= RawRows
  PROVE  /\ WindowSlots(a, t) = RingRun(WindowFirst(a.pos0 + t), (a.pos0 + t) - WindowFirst(a.pos0 + t) + 1)
         /\ WindowFirst(a.pos0 + t) \in Nat /\ (a.pos0 + t) - WindowFirst(a.pos0 + t) + 1 \in 1 .. Window
<1>1. PICK pos0, end, n_raw, from :
        /\ pos0 = a.pos0 /\ end = a.pos0 + a.n_tokens /\ n_raw = a.n_raw /\ from = end - n_raw
        /\ pos0 \in Nat /\ end \in Nat /\ n_raw \in Nat \ {0} /\ n_raw <= end /\ end <= Word
        /\ pos0 + t < end /\ from <= WindowFirst(pos0)
  BY DEF RingLaunch
<1>2. a.window = Window /\ a.raw_cap = RawCap /\ a.raw_start = from % RawCap
  BY <1>1 DEF RingLaunch
<1>3. t \in Nat
  OBVIOUS
<1>4. PICK qpos : qpos = pos0 + t /\ qpos = a.pos0 + t
  BY <1>1
<1>5. PICK lo : lo = WindowFirst(qpos)
  OBVIOUS
<1>6. PICK n : n = qpos - lo + 1
  OBVIOUS
<1>7. /\ qpos \in Nat /\ qpos < end /\ pos0 <= qpos /\ from \in Nat /\ from < end
  BY <1>1, <1>3, <1>4
<1>8. lo = IF qpos >= Window THEN qpos + 1 - Window ELSE 0
  BY <1>5 DEF WindowFirst
<1>9. lo \in Nat /\ n \in 1 .. Window /\ lo <= qpos
  BY <1>6, <1>7, <1>8, SizeFacts
<1>10. from <= lo
  BY <1>1, <1>7, <1>8, SizeFacts DEF WindowFirst
<1>11. U32(a.pos0 + a.n_tokens - a.n_raw) = from /\ U32(from + a.n_raw - 1) = end - 1
  <2>1. from + n_raw - 1 = end - 1 /\ end - 1 \in 0 .. Word - 1 /\ from \in 0 .. Word - 1
    BY <1>1, <1>7, SizeFacts
  <2>2. a.pos0 + a.n_tokens - a.n_raw = from
    BY <1>1 DEF RingLaunch
  <2> QED
    BY <1>1, <2>1, <2>2, SmallWord
<1> DEFINE lo2 == IF a.window # 0 /\ qpos + 1 > a.window /\ qpos + 1 - a.window > from
                  THEN qpos + 1 - a.window ELSE from
           hi == Least(qpos, end - 1)
           count == IF a.n_raw = 0 \/ qpos < from \/ hi < lo2 THEN 0 ELSE Least(hi - lo2 + 1, RawRows)
<1>12. WindowSlots(a, t) = [i \in 1 .. count |-> (a.raw_start + lo2 - from + i - 1) % a.raw_cap]
  BY <1>1, <1>4, <1>11 DEF WindowSlots
<1>13. hi = qpos
  BY <1>1, <1>7 DEF Least
<1>14. lo2 = lo
  BY <1>2, <1>7, <1>8, <1>10, SizeFacts
<1>15. count = n
  <2> HIDE DEF hi, lo2
  <2> QED
    BY <1>1, <1>6, <1>7, <1>9, <1>10, <1>13, <1>14, SizeFacts DEF Least
<1> HIDE DEF count, lo2, hi
<1>16. ASSUME NEW i \in 1 .. n PROVE (a.raw_start + lo - from + i - 1) % RawCap = (lo + i - 1) % RawCap
  <2>1. PICK d, r : d = lo - from + i - 1 /\ r = from % RawCap
    OBVIOUS
  <2>2. d \in Nat /\ from + d = lo + i - 1
    BY <1>7, <1>9, <1>10, <2>1
  <2>3. r \in Nat
    BY <1>7, <2>1, SizeFacts, RemainderFacts
  <2>4. r + lo - from + i - 1 = r + d
    BY <1>7, <1>9, <2>1, <2>3
  <2>5. ((from % RawCap) + d) % RawCap = (from + d) % RawCap
    BY <1>7, <2>2, RingShift, SizeFacts
  <2> QED
    BY <1>2, <2>1, <2>2, <2>4, <2>5
<1>17. WindowSlots(a, t) = RingRun(lo, n)
  <2>1. WindowSlots(a, t) = [i \in 1 .. n |-> (a.raw_start + lo - from + i - 1) % RawCap]
    BY <1>2, <1>12, <1>14, <1>15
  <2> QED
    BY <1>16, <2>1 DEF RingRun
<1> QED
  BY <1>4, <1>5, <1>6, <1>9, <1>17

\* The window of every ring kernel: its positions once each.
LEMMA WindowGives ==
  ASSUME NEW a, RingLaunch(a), NEW t \in 0 .. a.n_tokens - 1, Window <= RawRows
  PROVE  /\ Len(WindowSlots(a, t)) \in Nat /\ Once(WindowSlots(a, t))
         /\ Entries(WindowSlots(a, t)) = {p % RawCap : p \in WindowFirst(a.pos0 + t) .. a.pos0 + t}
<1>1. PICK q, lo, n : q = a.pos0 + t /\ lo = WindowFirst(q) /\ n = q - lo + 1
  OBVIOUS
<1>2. WindowSlots(a, t) = RingRun(lo, n) /\ lo \in Nat /\ n \in 1 .. Window
  BY <1>1, WindowSlotsAre
<1>3. q \in Nat
  BY <1>1 DEF RingLaunch
<1>4. n \in Nat /\ n <= RawCap /\ lo + n - 1 = q
  BY <1>1, <1>2, <1>3, SizeFacts
<1>5. /\ Len(RingRun(lo, n)) = n /\ Once(RingRun(lo, n))
      /\ Entries(RingRun(lo, n)) = {p % RawCap : p \in lo .. lo + n - 1}
  BY <1>2, <1>4, RingRunFacts
<1> QED
  BY <1>1, <1>2, <1>4, <1>5

-----------------------------------------------------------------------------
\* A finite set of numbers has an ascending order.
LEMMA AscendingFacts ==
  ASSUME NEW S \in SUBSET Nat, IsFiniteSet(S)
  PROVE  /\ Ascending(S) \in [1 .. Cardinality(S) -> S]
         /\ \A i, j \in 1 .. Cardinality(S) : i < j => Ascending(S)[i] < Ascending(S)[j]
<1> DEFINE n == Cardinality(S)
           Upto(x) == {y \in S : y <= x}
           rank == [x \in S |-> Cardinality(Upto(x))]
           T == 1 .. n
<1>1. n \in Nat
  BY FS_CardinalityType
<1>2. \A x \in S : IsFiniteSet(Upto(x)) /\ Cardinality(Upto(x)) \in Nat /\ Cardinality(Upto(x)) <= n
  BY FS_Subset, FS_CardinalityType
<1>3. ASSUME NEW x \in S, NEW y \in S, x < y PROVE rank[x] < rank[y]
  <2>1. Upto(x) \in SUBSET Upto(y) /\ y \in Upto(y) /\ y \notin Upto(x)
    <3>1. x \in Nat /\ y \in Nat /\ y <= y /\ ~(y <= x)
      BY <1>3
    <3>2. \A z \in S : z <= x => z <= y
      <4> TAKE z \in S
      <4>1. z \in Nat
        OBVIOUS
      <4> QED
        BY <1>3, <3>1, <4>1
    <3> QED
      BY <3>1, <3>2
  <2> DEFINE a == Upto(x)
             b == Upto(y)
  <2>2. IsFiniteSet(b) /\ a \in SUBSET b /\ a # b
    BY <1>2, <2>1
  <2>3. Cardinality(a) \in Nat /\ Cardinality(b) \in Nat
    BY <1>2
  <2> HIDE DEF a, b
  <2>4. Cardinality(a) < Cardinality(b)
    BY <2>2, <2>3, FS_Subset
  <2> QED
    BY <2>4 DEF a, b
<1>4. ASSUME NEW x \in S PROVE rank[x] \in T
  <2>1. x \in Upto(x)
    OBVIOUS
  <2> HIDE DEF Upto, n
  <2>2. Cardinality(Upto(x)) # 0
    BY <1>2, <2>1, FS_EmptySet
  <2> QED
    BY <1>1, <1>2, <2>2
<1> HIDE DEF rank
<1>5. rank \in Injection(S, T)
  <2>1. rank \in [S -> T]
    BY <1>4 DEF rank
  <2>2. ASSUME NEW x \in S, NEW y \in S, rank[x] = rank[y] PROVE x = y
    <3>1. x \in Nat /\ y \in Nat /\ rank[x] \in T /\ rank[y] \in T
      BY <1>4
    <3>2. ~(x < y) /\ ~(y < x)
      BY <1>1, <1>3, <2>2, <3>1
    <3> QED
      BY <3>1, <3>2
  <2>3. IsInjective(rank)
    BY <2>1, <2>2 DEF IsInjective
  <2> QED
    BY <2>1, <2>3 DEF Injection
<1>6. IsFiniteSet(T) /\ Cardinality(T) = n
  BY <1>1, FS_Interval
<1>7. rank \in Surjection(S, T)
  BY <1>5, <1>6, FS_Injection
<1>8. \A i \in T : \E x \in S : rank[x] = i
  BY <1>7 DEF Surjection
<1> DEFINE e == [i \in T |-> CHOOSE x \in S : rank[x] = i]
<1>9. \A i \in T : e[i] \in S /\ rank[e[i]] = i
  BY <1>8
<1>10. e \in [T -> S]
  BY <1>9
<1> HIDE DEF e
<1>11. ASSUME NEW i \in T, NEW j \in T, i < j PROVE e[i] < e[j]
  <2>1. e[i] \in Nat /\ e[j] \in Nat /\ rank[e[i]] = i /\ rank[e[j]] = j /\ e[i] \in S /\ e[j] \in S
    BY <1>9
  <2>2. ~(e[j] < e[i]) /\ e[i] # e[j]
    BY <1>3, <1>1, <1>11, <2>1
  <2> QED
    BY <2>1, <2>2
<1>12. \E f \in [T -> S] : \A i, j \in T : i < j => f[i] < f[j]
  BY <1>10, <1>11
<1> HIDE DEF n, T
<1>13. Ascending(S) = CHOOSE f \in [T -> S] : \A i, j \in T : i < j => f[i] < f[j]
  BY DEF Ascending, n, T
<1>14. Ascending(S) \in [T -> S] /\ \A i, j \in T : i < j => Ascending(S)[i] < Ascending(S)[j]
  BY <1>12, <1>13
<1> QED
  BY <1>14 DEF n, T

\* ds4_gpu_indexer_topk_tensor: the rows a token may see come first, each once.
LEMMA SelectionFacts ==
  ASSUME NEW n \in Nat, NEW v \in 0 .. n
  PROVE  /\ DOMAIN Selection(n, v, TopK) = 1 .. Least(TopK, n) /\ Least(TopK, n) \in Nat
         /\ \A i \in 1 .. Least(TopK, n) : /\ Selection(n, v, TopK)[i] \in 0 .. n - 1
                                           /\ Selection(n, v, TopK)[i] < v <=> i <= v
         /\ \A i, j \in 1 .. Least(TopK, n) : Selection(n, v, TopK)[i] = Selection(n, v, TopK)[j] => i = j
<1> DEFINE k == Least(TopK, n)
           order == [i \in 1 .. n |-> IF i > v THEN i - 1 ELSE IF set.latest THEN v - i ELSE i - 1]
<1>1. k \in Nat /\ k <= n
  BY SizeFacts DEF Least
<1>2. order \in Seq(Int) /\ Len(order) = n
  <2>1. \A i \in 1 .. n : order[i] \in Int
    OBVIOUS
  <2>2. order \in [1 .. n -> Int]
    BY <2>1
  <2> HIDE DEF order
  <2> QED
    BY <2>2
<1>3. \A i \in 1 .. n : order[i] = IF i > v THEN i - 1 ELSE IF set.latest THEN v - i ELSE i - 1
  OBVIOUS
<1>4. Selection(n, v, TopK) = SubSeq(order, 1, k)
  BY DEF Selection
<1> HIDE DEF order, k
<1> DEFINE s == SubSeq(order, 1, k)
<1>5. DOMAIN s = 1 .. k /\ \A i \in 1 .. k : s[i] = order[i]
  BY <1>1, <1>2
<1> HIDE DEF s
<1>6. \A i \in 1 .. k : i \in 1 .. n /\ s[i] = IF i > v THEN i - 1 ELSE IF set.latest THEN v - i ELSE i - 1
  BY <1>1, <1>3, <1>5
<1>7. \A i \in 1 .. k : s[i] \in 0 .. n - 1 /\ (s[i] < v <=> i <= v)
  BY <1>6
<1>8. \A i, j \in 1 .. k : s[i] = s[j] => i = j
  BY <1>6
<1> QED
  BY <1>1, <1>4, <1>5, <1>7, <1>8 DEF k, s

\* The selected rows a kernel takes: visible ones, each once; all it may when the
\* selection was made for the rows it sees.
LEMMA SelectedGives ==
  ASSUME NEW a, NEW t, NEW n \in Nat, NEW v \in 0 .. n, a.topk[t] = Selection(n, v, TopK),
         TopK <= CompRows, Visible(a, t) \in Nat
  PROVE  /\ Len(Selected(a, t)) \in Nat /\ Once(Selected(a, t))
         /\ Entries(Selected(a, t)) \subseteq 0 .. Visible(a, t) - 1
         /\ v = Visible(a, t) => Len(Selected(a, t)) = Least(TopK, v)
<1> DEFINE s == Selection(n, v, TopK)
           k == Least(TopK, n)
           w == Visible(a, t)
           seen == {i \in DOMAIN s : s[i] \in 0 .. w - 1}
           e == Ascending(seen)
           m == Cardinality(seen)
           c == Selected(a, t)
<1>1. /\ DOMAIN s = 1 .. k /\ k \in Nat
      /\ \A i \in 1 .. k : s[i] \in 0 .. n - 1 /\ (s[i] < v <=> i <= v)
      /\ \A i, j \in 1 .. k : s[i] = s[j] => i = j
  BY SelectionFacts
<1>2. w \in Nat /\ k <= TopK /\ k <= n
  BY SizeFacts DEF Least
<1>3. c = [i \in 1 .. Least(m, CompRows) |-> s[e[i]]]
  BY DEF Selected
<1> HIDE DEF s, k, w, c
<1>4. seen \in SUBSET (1 .. k) /\ seen \in SUBSET Nat /\ IsFiniteSet(1 .. k) /\ Cardinality(1 .. k) = k
  <2>1. IsFiniteSet(1 .. k) /\ Cardinality(1 .. k) = k
    BY <1>1, FS_Interval
  <2> QED
    BY <1>1, <2>1
<1>5. IsFiniteSet(seen) /\ m <= k /\ m \in Nat
  BY <1>4, FS_Subset, FS_CardinalityType
<1>6. Least(m, CompRows) = m
  BY <1>1, <1>2, <1>5, SizeFacts DEF Least
<1>7. e \in [1 .. m -> seen] /\ \A i, j \in 1 .. m : i < j => e[i] < e[j]
  BY <1>4, <1>5, AscendingFacts
<1>8. v = w => m = Least(TopK, v)
  <2> SUFFICES ASSUME v = w PROVE m = Least(TopK, v)
    OBVIOUS
  <2>1. seen = 1 .. Least(TopK, v)
    <3>1. k = Least(TopK, n) /\ Least(TopK, v) = (IF TopK < v THEN TopK ELSE v)
      BY DEF k, Least
    <3>2. \A i : i \in 1 .. k /\ i <= v <=> i \in 1 .. Least(TopK, v)
      BY <3>1, SizeFacts DEF Least
    <3>3. \A i \in 1 .. k : s[i] \in 0 .. w - 1 <=> i <= v
      BY <1>1, <1>2
    <3> QED
      BY <1>1, <3>2, <3>3
  <2>2. Least(TopK, v) \in Nat
    BY SizeFacts DEF Least
  <2>3. Cardinality(1 .. Least(TopK, v)) = Least(TopK, v)
    BY <2>2, FS_Interval
  <2> HIDE DEF seen
  <2> QED
    BY <2>1, <2>3
<1> HIDE DEF seen, e, m
<1>9. /\ DOMAIN c = 1 .. m /\ c = [i \in 1 .. m |-> c[i]]
      /\ \A i \in 1 .. m : c[i] = s[e[i]] /\ e[i] \in seen
  BY <1>3, <1>6, <1>7
<1>10. Len(c) = m
  BY <1>5, <1>9, LenOf
<1>11. \A i \in 1 .. m : e[i] \in 1 .. k /\ s[e[i]] \in 0 .. w - 1
  BY <1>1, <1>9 DEF seen
<1>12. ASSUME NEW i \in 1 .. m, NEW j \in 1 .. m, c[i] = c[j] PROVE i = j
  <2>1. e[i] = e[j] /\ e[i] \in Nat
    BY <1>1, <1>9, <1>11, <1>12
  <2>2. ~(i < j) /\ ~(j < i)
    BY <1>7, <2>1
  <2> QED
    BY <2>2
<1>13. Once(c)
  BY <1>10, <1>12 DEF Once
<1>14. Entries(c) \subseteq 0 .. w - 1
  <2>1. \A i \in 1 .. m : c[i] \in 0 .. w - 1
    BY <1>9, <1>11
  <2> QED
    BY <1>10, <2>1 DEF Entries
<1> QED
  BY <1>5, <1>8, <1>10, <1>13, <1>14 DEF c, w

-----------------------------------------------------------------------------
\* The slots of the window of token t.
WindowRing(a, t) == {p % RawCap : p \in WindowFirst(a.pos0 + t) .. a.pos0 + t}

\* visible = (pos0 + t + 1) / ratio, at most n_comp.
LEMMA VisibleIs ==
  ASSUME NEW a, RingLaunch(a), NEW t \in 0 .. a.n_tokens - 1
  PROVE  /\ Visible(a, t) = Least((a.pos0 + t + 1) \div a.ratio, a.n_comp) /\ Visible(a, t) \in Nat
<1>1. PICK x, r, m : x = a.pos0 + t + 1 /\ r = a.ratio /\ m = a.n_comp /\ x \in Nat /\ r \in Nat \ {0} /\ m \in Nat
  BY DEF RingLaunch
<1>2. x \div r \in Nat
  BY <1>1, QuotientFacts
<1>3. PICK v : v = x \div r /\ v \in Nat
  BY <1>2
<1>4. Visible(a, t) = IF m = 0 THEN 0 ELSE Least(v, m)
  BY <1>1, <1>3 DEF Visible
<1>5. Least(v, m) \in Nat /\ (m = 0 => Least(v, m) = 0)
  BY <1>1, <1>3 DEF Least
<1> QED
  BY <1>1, <1>3, <1>4, <1>5

\* attention_decode_mixed_kernel and attention_decode_mixed_heads8_online_kernel,
\* given positions.
LEMMA MixedGives ==
  ASSUME NEW a, RingLaunch(a), NEW t \in 0 .. a.n_tokens - 1, Window <= RawRows
  PROVE  /\ Gives(DecodeMixed(a, t), WindowRing(a, t), 0 .. Visible(a, t) - 1)
         /\ Gives(DecodeMixedOnline(a, t), WindowRing(a, t), 0 .. Visible(a, t) - 1)
<1> DEFINE raw == WindowSlots(a, t)
           rows == Run(0, Visible(a, t))
           keys == Scored(raw, rows)
<1>1. Len(raw) \in Nat /\ Once(raw) /\ Entries(raw) = WindowRing(a, t)
  BY WindowGives DEF WindowRing
<1>2. Len(rows) \in Nat /\ Once(rows) /\ Entries(rows) = 0 .. Visible(a, t) - 1
  BY VisibleIs, RowsBelow
<1>3. ~SingleAll(a)
  BY DEF SingleAll, RingLaunch
<1>4. DecodeMixed(a, t) = keys /\ DecodeMixedOnline(a, t) = InTiles(keys)
  BY <1>3 DEF DecodeMixed, DecodeMixedOnline
<1> HIDE DEF raw, rows
<1>5. /\ DOMAIN keys = 1 .. Len(raw) + Len(rows) /\ Len(keys) = Len(raw) + Len(rows)
      /\ Gives(keys, Entries(raw), Entries(rows))
  BY <1>1, <1>2, ScoredGives
<1> HIDE DEF keys
<1>6. Len(keys) \in Nat /\ DOMAIN keys = 1 .. Len(keys)
  BY <1>1, <1>2, <1>5
<1>7. Gives(InTiles(keys), Entries(raw), Entries(rows))
  BY <1>5, <1>6, TilesGive
<1> QED
  BY <1>1, <1>2, <1>4, <1>5, <1>7

\* The indexed kernels.
LEMMA IndexedGives ==
  ASSUME NEW a, RingLaunch(a), NEW t \in 0 .. a.n_tokens - 1, Window <= RawRows,
         Len(Selected(a, t)) \in Nat, Once(Selected(a, t))
  PROVE  /\ Gives(IndexedMixed(a, t), WindowRing(a, t), Entries(Selected(a, t)))
         /\ Gives(IndexedRb4(a, t), WindowRing(a, t), Entries(Selected(a, t)))
         /\ Gives(IndexedOnline(a, t), WindowRing(a, t), Entries(Selected(a, t)))
         /\ Gives(IndexedPacked(a, t), WindowRing(a, t), Entries(Selected(a, t)))
<1> DEFINE raw == WindowSlots(a, t)
           rows == Selected(a, t)
           keys == Scored(raw, rows)
           scores == [i \in 0 .. Len(keys) - 1 |-> InTiles(keys)[<<i \div 4, i % 4>>]]
<1>1. Len(raw) \in Nat /\ Once(raw) /\ Entries(raw) = WindowRing(a, t)
  BY WindowGives DEF WindowRing
<1>2. /\ IndexedMixed(a, t) = keys /\ IndexedPacked(a, t) = keys /\ IndexedOnline(a, t) = InTiles(keys)
      /\ IndexedRb4(a, t) = scores
  BY DEF IndexedMixed, IndexedPacked, IndexedOnline, IndexedRb4
<1> HIDE DEF raw, rows
<1>3. Len(rows) \in Nat /\ Once(rows)
  BY DEF rows
<1>4. /\ DOMAIN keys = 1 .. Len(raw) + Len(rows) /\ Len(keys) = Len(raw) + Len(rows)
      /\ Gives(keys, Entries(raw), Entries(rows))
  BY <1>1, <1>3, ScoredGives
<1> HIDE DEF keys
<1>5. Len(keys) \in Nat /\ DOMAIN keys = 1 .. Len(keys)
  BY <1>1, <1>3, <1>4
<1>6. Gives(InTiles(keys), Entries(raw), Entries(rows)) /\ Gives(scores, Entries(raw), Entries(rows))
  BY <1>4, <1>5, TilesGive
<1> QED
  BY <1>1, <1>2, <1>4, <1>6 DEF rows

\* Which of them a launch takes.
LEMMA IndexedHeadsGive ==
  ASSUME NEW a, RingLaunch(a), NEW t \in 0 .. a.n_tokens - 1, Window <= RawRows, NEW opt,
         Len(Selected(a, t)) \in Nat, Once(Selected(a, t))
  PROVE  /\ Gives(IndexedHeads(a, opt)[t], WindowRing(a, t), Entries(Selected(a, t)))
         /\ Gives(IndexedHeadsPacked(a)[t], WindowRing(a, t), Entries(Selected(a, t)))
<1>1. /\ Gives(IndexedMixed(a, t), WindowRing(a, t), Entries(Selected(a, t)))
      /\ Gives(IndexedRb4(a, t), WindowRing(a, t), Entries(Selected(a, t)))
      /\ Gives(IndexedOnline(a, t), WindowRing(a, t), Entries(Selected(a, t)))
      /\ Gives(IndexedPacked(a, t), WindowRing(a, t), Entries(Selected(a, t)))
  BY IndexedGives
<1>2. /\ IndexedHeads(a, opt)[t] \in {IndexedMixed(a, t), IndexedRb4(a, t), IndexedOnline(a, t)}
      /\ IndexedHeadsPacked(a)[t] = IndexedPacked(a, t)
  BY DEF IndexedHeads, IndexedHeadsPacked, Reads
<1> QED
  BY <1>1, <1>2

\* ds4_gpu_attention_decode_mixed_batch_heads_tensor, whichever kernel it launches.
LEMMA DecodeBatchGives ==
  ASSUME NEW a, RingLaunch(a), NEW t \in 0 .. a.n_tokens - 1, Window <= RawRows, NEW opt
  PROVE  Gives(DecodeBatch(a, opt)[t], WindowRing(a, t), 0 .. Visible(a, t) - 1)
<1>1. DecodeBatch(a, opt)[t] \in {DecodeMixed(a, t), DecodeMixedOnline(a, t)}
  BY DEF DecodeBatch, Reads
<1> QED
  BY <1>1, MixedGives

\* ds4_gpu_attention_decode_heads_tensor, which is given no position: the raw rows
\* of the launch are the window.
LEMMA DecodeHeadsGive ==
  ASSUME NEW a, NEW lo \in Nat, NEW n \in Nat, n <= RawCap, n <= RawRows,
         a.n_raw = n, a.raw_cap = RawCap, a.raw_start = lo % RawCap,
         a.n_comp \in Nat, a.n_comp <= ScoreCap,
         NEW all, all = [a EXCEPT !.n_tokens = 1, !.pos0 = 0, !.window = 0, !.ratio = 0],
         all.n_tokens = 1, all.ratio = 0, all.n_raw = n, all.raw_cap = RawCap,
         all.raw_start = lo % RawCap, all.n_comp = a.n_comp
  PROVE  /\ DOMAIN DecodeHeads(a) = 0 .. 0
         /\ Gives(DecodeHeads(a)[0], {p % RawCap : p \in lo .. lo + n - 1}, 0 .. a.n_comp - 1)
<1>1. DecodeHeads(a) = [t \in 0 .. 0 |-> DecodeMixed(all, t)]
  <2>1. all.n_tokens - 1 = 0
    OBVIOUS
  <2> QED
    BY <2>1 DEF DecodeHeads, ScoreBufferFits, Reads
<1> DEFINE raw == AllSlots(all)
           rows == Run(0, a.n_comp)
<1>2. DecodeMixed(all, 0) = Scored(raw, rows)
  <2>1. SingleAll(all) /\ Visible(all, 0) = a.n_comp
    BY DEF SingleAll, Visible
  <2> QED
    BY <2>1 DEF DecodeMixed
<1>3. raw = RingRun(lo, n)
  <2>1. Least(n, RawRows) = n
    BY SizeFacts DEF Least
  <2>2. PICK start : start = lo % RawCap /\ start \in Nat
    BY SizeFacts, RemainderFacts
  <2>3. raw = [i \in 1 .. n |-> (start + i - 1) % RawCap]
    BY <2>1, <2>2 DEF AllSlots
  <2>4. ASSUME NEW i \in 1 .. n PROVE (start + i - 1) % RawCap = (lo + i - 1) % RawCap
    <3>1. PICK d : d = i - 1 /\ d \in Nat
      OBVIOUS
    <3>2. ((lo % RawCap) + d) % RawCap = (lo + d) % RawCap
      BY <3>1, RingShift, SizeFacts
    <3>3. start + i - 1 = start + d /\ lo + i - 1 = lo + d
      BY <2>2, <3>1
    <3> QED
      BY <2>2, <3>2, <3>3
  <2> QED
    BY <2>3, <2>4 DEF RingRun
<1>4. /\ Len(raw) = n /\ Once(raw) /\ Entries(raw) = {p % RawCap : p \in lo .. lo + n - 1}
  BY <1>3, RingRunFacts
<1>5. Len(rows) = a.n_comp /\ Once(rows) /\ Entries(rows) = 0 .. a.n_comp - 1
  BY RowsBelow
<1> HIDE DEF raw, rows
<1>6. Gives(Scored(raw, rows), Entries(raw), Entries(rows))
  BY <1>4, <1>5, ScoredGives
<1> QED
  BY <1>1, <1>2, <1>4, <1>5, <1>6

-----------------------------------------------------------------------------
\* A batch at position zero.
FirstBatch(a) ==
  a.n_tokens \in Nat \ {0} /\ a.window = Window /\ a.n_comp \in Nat /\ a.ratio \in Nat \ {0}

\* The window of a token of a batch at position zero, in each way the kernels compute it.
LEMMA BatchWindow ==
  ASSUME NEW t \in Nat
  PROVE  /\ WindowFirst(t) \in Nat /\ WindowFirst(t) <= t
         /\ t + 1 - Least(t + 1, Window) = WindowFirst(t)
         /\ (IF Window # 0 /\ t + 1 > Window THEN t + 1 - Window ELSE 0) = WindowFirst(t)
         /\ (IF Window # 0 /\ t + 1 > Window THEN Window ELSE t + 1) = Least(t + 1, Window)
         /\ Least(t + 1, Window) \in Nat /\ t + 1 - WindowFirst(t) = Least(t + 1, Window)
         /\ WindowFirst(t) + Least(t + 1, Window) - 1 = t
         /\ \A k \in Nat : k \in WindowFirst(t) .. t <=> k <= t /\ (Window = 0 \/ t - k < Window)
BY SizeFacts DEF WindowFirst, Least

\* The raw rows of a batch's token are listed once each.
LEMMA BatchRun ==
  ASSUME NEW t \in Nat
  PROVE  LET raw == Run(WindowFirst(t), Least(t + 1, Window))
         IN  Len(raw) \in Nat /\ Once(raw) /\ Entries(raw) = WindowFirst(t) .. t
<1>1. PICK lo, n : lo = WindowFirst(t) /\ n = Least(t + 1, Window) /\ lo \in Nat /\ n \in Nat /\ lo + n - 1 = t
  BY BatchWindow
<1>2. Len(Run(lo, n)) = n /\ Once(Run(lo, n)) /\ Entries(Run(lo, n)) = lo .. lo + n - 1
  BY <1>1, RunOf
<1> QED
  BY <1>1, <1>2

\* The rows a batch's token may see.
BatchRows(a, t) == Least((t + 1) \div a.ratio, a.n_comp)

\* The compressed rows of a batch's token are a number of rows.
LEMMA BatchRowsNat ==
  ASSUME NEW a, FirstBatch(a), NEW t \in Nat
  PROVE  BatchRows(a, t) \in Nat /\ (t + 1) \div a.ratio \in Nat
<1>1. PICK x, r, m : x = t + 1 /\ r = a.ratio /\ m = a.n_comp /\ x \in Nat /\ r \in Nat \ {0} /\ m \in Nat
  BY DEF FirstBatch
<1>2. x \div r \in Nat
  BY <1>1, QuotientFacts
<1>3. PICK v : v = x \div r /\ v \in Nat
  BY <1>2
<1>4. Least(v, m) \in Nat
  BY <1>1, <1>3 DEF Least
<1> QED
  BY <1>1, <1>3, <1>4 DEF BatchRows

\* The scored rows of a batch kernel: the window and the first rows.
LEMMA BatchScored ==
  ASSUME NEW t \in Nat, NEW v \in Nat
  PROVE  LET keys == Scored(Run(WindowFirst(t), Least(t + 1, Window)), Run(0, v))
         IN  /\ Gives(keys, WindowFirst(t) .. t, 0 .. v - 1)
             /\ Gives(InTiles(keys), WindowFirst(t) .. t, 0 .. v - 1)
<1> DEFINE raw == Run(WindowFirst(t), Least(t + 1, Window))
           rows == Run(0, v)
           keys == Scored(raw, rows)
<1>2. Len(raw) \in Nat /\ Once(raw) /\ Entries(raw) = WindowFirst(t) .. t
  BY BatchRun
<1>3. Len(rows) \in Nat /\ Once(rows) /\ Entries(rows) = 0 .. v - 1
  BY RowsBelow
<1> HIDE DEF raw, rows
<1>4. /\ DOMAIN keys = 1 .. Len(raw) + Len(rows) /\ Len(keys) = Len(raw) + Len(rows)
      /\ Gives(keys, Entries(raw), Entries(rows))
  BY <1>2, <1>3, ScoredGives
<1> HIDE DEF keys
<1>5. Len(keys) \in Nat /\ DOMAIN keys = 1 .. Len(keys)
  BY <1>2, <1>3, <1>4
<1>6. Gives(InTiles(keys), Entries(raw), Entries(rows))
  BY <1>4, <1>5, TilesGive
<1> QED
  BY <1>2, <1>3, <1>4, <1>6 DEF keys, raw, rows

\* attention_prefill_raw_kernel and attention_prefill_raw_softmax_kernel
LEMMA PrefillRawGives ==
  ASSUME NEW a, FirstBatch(a), NEW t \in 0 .. a.n_tokens - 1
  PROVE  /\ Gives(PrefillRaw(a, t), WindowFirst(t) .. t, {})
         /\ Gives(PrefillRawSoftmax(a, t), WindowFirst(t) .. t, {})
<1>1. a.window = Window /\ t \in Nat
  BY DEF FirstBatch
<1>2. Gives(PrefillRaw(a, t), WindowFirst(t) .. t, {})
  <2> DEFINE raw == Run(WindowFirst(t), Least(t + 1, Window))
             none == <<>>
  <2>1. t + 1 - Least(t + 1, Window) = WindowFirst(t)
    BY <1>1, BatchWindow
  <2>2. Len(raw) \in Nat /\ Once(raw) /\ Entries(raw) = WindowFirst(t) .. t
    BY <1>1, BatchRun
  <2>3. Len(none) \in Nat /\ Once(none) /\ Entries(none) = {}
    BY DEF Once, Entries
  <2>4. PrefillRaw(a, t) = Scored(raw, none)
    BY <1>1, <2>1 DEF PrefillRaw
  <2> HIDE DEF raw, none
  <2>5. Gives(Scored(raw, none), Entries(raw), Entries(none))
    BY <2>2, <2>3, ScoredGives
  <2> QED
    BY <2>2, <2>3, <2>4, <2>5
<1>3. Gives(PrefillRawSoftmax(a, t), WindowFirst(t) .. t, {})
  <2> DEFINE D == {r \in 0 .. a.n_tokens - 1 : InWindow(a, t, r)}
             f == [k \in D |-> RawKey(k)]
  <2>1. PrefillRawSoftmax(a, t) = f
    BY DEF PrefillRawSoftmax
  <2>2. D = WindowFirst(t) .. t
    <3>1. \A k \in Nat : k \in WindowFirst(t) .. t <=> k <= t /\ (Window = 0 \/ t - k < Window)
      BY <1>1, BatchWindow
    <3>2. WindowFirst(t) \in Nat
      BY <1>1, BatchWindow
    <3>3. PICK n : n = a.n_tokens /\ n \in Nat
      BY DEF FirstBatch
    <3>4. \A k : k \in WindowFirst(t) .. t => k \in 0 .. n - 1
      BY <3>2, <3>3
    <3> QED
      BY <1>1, <3>1, <3>3, <3>4 DEF InWindow
  <2> HIDE DEF D
  <2>3. IsInjective(f) /\ Range(f) = {RawKey(s) : s \in D}
    BY KeysDiffer DEF IsInjective, Range
  <2> QED
    BY <2>1, <2>2, <2>3 DEF Gives
<1> QED
  BY <1>2, <1>3

\* attention_prefill_mixed_kernel, attention_prefill_mixed_softmax_kernel and
\* attention_static_mixed_heads8_online_kernel
LEMMA PrefillMixedGives ==
  ASSUME NEW a, FirstBatch(a), NEW t \in 0 .. a.n_tokens - 1
  PROVE  /\ Gives(PrefillMixed(a, t), WindowFirst(t) .. t, 0 .. BatchRows(a, t) - 1)
         /\ Gives(PrefillMixedSoftmax(a, t), WindowFirst(t) .. t, 0 .. BatchRows(a, t) - 1)
         /\ Gives(StaticMixedOnline(a, t), WindowFirst(t) .. t, 0 .. BatchRows(a, t) - 1)
<1>1. PICK n, m, x : n = a.n_tokens /\ n \in Nat \ {0} /\ m = a.n_comp /\ m \in Nat /\ x = (t + 1) \div a.ratio
  BY DEF FirstBatch
<1>2. a.window = Window /\ a.ratio # 0 /\ t \in Nat /\ t < n
  BY <1>1 DEF FirstBatch
<1>3. PICK v : v = BatchRows(a, t) /\ v = Least(x, m) /\ v \in Nat /\ x \in Nat
  BY <1>1, <1>2, BatchRowsNat DEF BatchRows
<1> DEFINE keys == Scored(Run(WindowFirst(t), Least(t + 1, Window)), Run(0, v))
<1>4. Gives(keys, WindowFirst(t) .. t, 0 .. v - 1) /\ Gives(InTiles(keys), WindowFirst(t) .. t, 0 .. v - 1)
  BY <1>2, <1>3, BatchScored
<1>5. /\ WindowFirst(t) \in Nat /\ WindowFirst(t) <= t
      /\ t + 1 - Least(t + 1, Window) = WindowFirst(t)
      /\ (IF Window # 0 /\ t + 1 > Window THEN t + 1 - Window ELSE 0) = WindowFirst(t)
      /\ (IF Window # 0 /\ t + 1 > Window THEN Window ELSE t + 1) = Least(t + 1, Window)
      /\ t + 1 - WindowFirst(t) = Least(t + 1, Window)
      /\ \A k \in Nat : k \in WindowFirst(t) .. t <=> k <= t /\ (Window = 0 \/ t - k < Window)
  BY <1>2, BatchWindow
<1>6. PrefillMixed(a, t) = keys
  BY <1>1, <1>2, <1>3, <1>5 DEF PrefillMixed
<1>7. StaticMixedOnline(a, t) = InTiles(keys)
  <2>1. (IF a.n_comp = 0 \/ a.ratio = 0 THEN 0 ELSE Least((t + 1) \div a.ratio, a.n_comp)) = v
    BY <1>1, <1>2, <1>3 DEF Least
  <2> QED
    BY <1>2, <1>5, <2>1 DEF StaticMixedOnline
<1>8. Gives(PrefillMixedSoftmax(a, t), WindowFirst(t) .. t, 0 .. v - 1)
  <2> DEFINE D == {r \in 0 .. n + m - 1 : IF r < n THEN InWindow(a, t, r) ELSE r - n < x}
             f == [k \in D |-> IF k < n THEN RawKey(k) ELSE CompKey(k - n)]
  <2>1. PrefillMixedSoftmax(a, t) = f
    BY <1>1 DEF PrefillMixedSoftmax
  <2>2. \A k \in D : k \in Nat /\ (k < n => k \in WindowFirst(t) .. t) /\ (~(k < n) => k - n \in 0 .. v - 1)
    <3> TAKE k \in D
    <3>1. k \in 0 .. n + m - 1 /\ (IF k < n THEN InWindow(a, t, k) ELSE k - n < x)
      OBVIOUS
    <3> HIDE DEF D
    <3>2. k \in Nat /\ k < n + m
      BY <1>1, <3>1
    <3>3. CASE k < n
      BY <1>2, <1>5, <3>1, <3>2, <3>3 DEF InWindow
    <3>4. CASE ~(k < n)
      BY <1>1, <1>3, <3>1, <3>2, <3>4 DEF Least
    <3> QED
      BY <3>2, <3>3, <3>4
  <2>3. \A k \in WindowFirst(t) .. t : k \in D /\ k < n
    BY <1>1, <1>2, <1>5 DEF InWindow
  <2>4. \A c \in 0 .. v - 1 : n + c \in D /\ ~(n + c < n) /\ (n + c) - n = c
    BY <1>1, <1>2, <1>3 DEF Least
  <2> HIDE DEF D
  <2>5. \A k \in D : f[k] = IF k < n THEN RawKey(k) ELSE CompKey(k - n)
    OBVIOUS
  <2>6. DOMAIN f = D
    OBVIOUS
  <2> HIDE DEF f
  <2>7. IsInjective(f)
    <3> SUFFICES ASSUME NEW i \in D, NEW j \in D, f[i] = f[j] PROVE i = j
      BY <2>6 DEF IsInjective
    <3>1. i \in Nat /\ j \in Nat
      BY <2>2
    <3>2. CASE i < n /\ j < n
      BY <2>5, <3>2, KeysDiffer
    <3>3. CASE i < n /\ ~(j < n)
      BY <2>5, <3>3, KeysDiffer
    <3>4. CASE ~(i < n) /\ j < n
      BY <2>5, <3>4, KeysDiffer
    <3>5. CASE ~(i < n) /\ ~(j < n)
      <4>1. i - n = j - n
        BY <2>5, <3>5, KeysDiffer
      <4> QED
        BY <1>1, <3>1, <4>1
    <3> QED
      BY <3>2, <3>3, <3>4, <3>5
  <2>8. Range(f) = {RawKey(s) : s \in WindowFirst(t) .. t} \cup {CompKey(c) : c \in 0 .. v - 1}
    <3>1. ASSUME NEW k \in D
          PROVE  f[k] \in {RawKey(s) : s \in WindowFirst(t) .. t} \cup {CompKey(c) : c \in 0 .. v - 1}
      BY <2>2, <2>5
    <3>2. \A s \in WindowFirst(t) .. t : RawKey(s) \in Range(f)
      BY <2>3, <2>5, <2>6 DEF Range
    <3>3. ASSUME NEW c \in 0 .. v - 1 PROVE CompKey(c) \in Range(f)
      <4>1. f[n + c] = CompKey(c) /\ n + c \in D
        BY <2>4, <2>5
      <4> QED
        BY <2>6, <4>1 DEF Range
    <3>4. Range(f) = {f[k] : k \in D}
      BY <2>6 DEF Range
    <3> QED
      BY <3>1, <3>2, <3>3, <3>4
  <2> QED
    BY <2>1, <2>7, <2>8 DEF Gives
<1> QED
  BY <1>3, <1>4, <1>6, <1>7, <1>8

\* ds4_gpu_attention_prefill_raw_heads_tensor: b is the launch of the window kernel.
LEMMA PrefillRawHeadsGive ==
  ASSUME NEW a, FirstBatch(a), NEW t \in 0 .. a.n_tokens - 1, NEW opt,
         NEW b, b = [a EXCEPT !.n_comp = 0, !.ratio = 1], FirstBatch(b),
         b.n_tokens = a.n_tokens, b.n_comp = 0
  PROVE  /\ DOMAIN PrefillRawHeads(a, opt) = 0 .. a.n_tokens - 1
         /\ Gives(PrefillRawHeads(a, opt)[t], WindowFirst(t) .. t, {})
<1>1. Gives(StaticMixedOnline(b, t), WindowFirst(t) .. t, {})
  <2>1. t \in Nat
    OBVIOUS
  <2>2. BatchRows(b, t) = 0
    <3>1. PICK x : x = (t + 1) \div b.ratio /\ x \in Nat
      BY <2>1, BatchRowsNat
    <3>2. Least(x, 0) = 0
      BY <3>1 DEF Least
    <3> QED
      BY <3>1, <3>2 DEF BatchRows
  <2>3. Gives(StaticMixedOnline(b, t), WindowFirst(t) .. t, 0 .. BatchRows(b, t) - 1)
    <3>1. t \in 0 .. b.n_tokens - 1
      OBVIOUS
    <3> QED
      BY <3>1, PrefillMixedGives
  <2>4. 0 .. 0 - 1 = {}
    OBVIOUS
  <2> QED
    BY <2>2, <2>3, <2>4
<1>2. Gives(PrefillRaw(a, t), WindowFirst(t) .. t, {}) /\ Gives(PrefillRawSoftmax(a, t), WindowFirst(t) .. t, {})
  BY PrefillRawGives
<1>3. /\ PrefillRawHeads(a, opt)[t] \in {StaticMixedOnline(b, t), PrefillRawSoftmax(a, t), PrefillRaw(a, t)}
      /\ DOMAIN PrefillRawHeads(a, opt) = 0 .. a.n_tokens - 1
  <2>1. CASE a.n_tokens > 1 /\ Windowed(a, opt)
    <3>1. PrefillRawHeads(a, opt) = Reads(b, StaticMixedOnline)
      BY <2>1 DEF PrefillRawHeads
    <3> QED
      BY <3>1 DEF Reads
  <2>2. CASE ~(a.n_tokens > 1 /\ Windowed(a, opt))
    BY <2>2 DEF PrefillRawHeads, Reads
  <2> QED
    BY <2>1, <2>2
<1> QED
  BY <1>1, <1>2, <1>3

\* attention_prefill_mixed_launch
LEMMA PrefillMixedHeadsGive ==
  ASSUME NEW a, FirstBatch(a), NEW t \in 0 .. a.n_tokens - 1, NEW opt
  PROVE  /\ DOMAIN PrefillMixedHeads(a, opt) = 0 .. a.n_tokens - 1
         /\ Gives(PrefillMixedHeads(a, opt)[t], WindowFirst(t) .. t, 0 .. BatchRows(a, t) - 1)
<1>1. /\ PrefillMixedHeads(a, opt)[t] \in
           {StaticMixedOnline(a, t), PrefillMixedSoftmax(a, t), PrefillMixed(a, t)}
      /\ DOMAIN PrefillMixedHeads(a, opt) = 0 .. a.n_tokens - 1
  BY DEF PrefillMixedHeads, Reads
<1> QED
  BY <1>1, PrefillMixedGives

-----------------------------------------------------------------------------
\* What the keys of a token hold.
LEMMA HeldGives ==
  ASSUME NEW keys, NEW R, NEW C, Gives(keys, R, C),
         NEW f, \A x, y \in R : f[x] = f[y] => x = y,
         NEW held,
         held = [i \in DOMAIN keys |-> IF keys[i][1] = "raw" THEN RawKey(f[keys[i][2]]) ELSE keys[i]]
  PROVE  Gives(held, {f[s] : s \in R}, C)
<1> DEFINE D == DOMAIN keys
<1>1. \A i \in D : (\E s \in R : keys[i] = RawKey(s)) \/ (\E c \in C : keys[i] = CompKey(c))
  <2> TAKE i \in D
  <2>1. keys[i] \in Range(keys)
    BY DEF Range
  <2> QED
    BY <2>1 DEF Gives
<1>2. /\ \A s : RawKey(s)[1] = "raw" /\ RawKey(s)[2] = s
      /\ \A c : CompKey(c)[1] # "raw"
  BY DEF RawKey, CompKey
<1>3. /\ \A i \in D, s \in R : keys[i] = RawKey(s) => held[i] = RawKey(f[s])
      /\ \A i \in D, c \in C : keys[i] = CompKey(c) => held[i] = CompKey(c)
  BY <1>2
<1>4. DOMAIN held = D
  OBVIOUS
<1>5. IsInjective(held)
  <2> SUFFICES ASSUME NEW i \in D, NEW j \in D, held[i] = held[j] PROVE i = j
    BY <1>4 DEF IsInjective
  <2>1. keys[i] = keys[j] => i = j
    BY DEF Gives, IsInjective
  <2>2. CASE (\E s \in R : keys[i] = RawKey(s)) /\ (\E s \in R : keys[j] = RawKey(s))
    BY <1>3, <2>1, <2>2, KeysDiffer
  <2>3. CASE (\E s \in R : keys[i] = RawKey(s)) /\ (\E c \in C : keys[j] = CompKey(c))
    BY <1>3, <2>3, KeysDiffer
  <2>4. CASE (\E c \in C : keys[i] = CompKey(c)) /\ (\E s \in R : keys[j] = RawKey(s))
    BY <1>3, <2>4, KeysDiffer
  <2>5. CASE (\E c \in C : keys[i] = CompKey(c)) /\ (\E c \in C : keys[j] = CompKey(c))
    BY <1>3, <2>1, <2>5, KeysDiffer
  <2> QED
    BY <1>1, <2>2, <2>3, <2>4, <2>5
<1>6. Range(keys) = {keys[i] : i \in D} /\ Range(held) = {held[i] : i \in D}
  BY <1>4 DEF Range
<1>7. ASSUME NEW i \in D PROVE held[i] \in {RawKey(s) : s \in {f[x] : x \in R}} \cup {CompKey(c) : c \in C}
  BY <1>1, <1>3
<1>8. ASSUME NEW s \in R PROVE RawKey(f[s]) \in Range(held)
  <2>1. RawKey(s) \in Range(keys)
    BY DEF Gives
  <2>2. PICK i \in D : keys[i] = RawKey(s)
    BY <1>6, <2>1
  <2> QED
    BY <1>3, <1>6, <2>2
<1>9. ASSUME NEW c \in C PROVE CompKey(c) \in Range(held)
  <2>1. CompKey(c) \in Range(keys)
    BY DEF Gives
  <2>2. PICK i \in D : keys[i] = CompKey(c)
    BY <1>6, <2>1
  <2> QED
    BY <1>3, <1>6, <2>2
<1>10. Range(held) = {RawKey(s) : s \in {f[x] : x \in R}} \cup {CompKey(c) : c \in C}
  BY <1>6, <1>7, <1>8, <1>9
<1> QED
  BY <1>5, <1>10 DEF Gives

\* The keys of a batch stand for their own positions.
LEMMA HeldInBatch ==
  ASSUME NEW keys, NEW R, NEW C, Gives(keys, R, C), NEW held,
         held = [i \in DOMAIN keys |-> IF keys[i][1] = "raw" THEN RawKey(keys[i][2]) ELSE keys[i]]
  PROVE  Gives(held, R, C)
<1>1. ASSUME NEW i \in DOMAIN keys PROVE held[i] = keys[i]
  <2>1. keys[i] \in Range(keys)
    BY DEF Range
  <2>2. (\E s : keys[i] = RawKey(s)) \/ (\E c : keys[i] = CompKey(c))
    BY <2>1 DEF Gives
  <2> QED
    BY <2>2 DEF RawKey, CompKey
<1>2. DOMAIN held = DOMAIN keys
  OBVIOUS
<1>3. IsInjective(held) /\ Range(held) = Range(keys)
  BY <1>1, <1>2 DEF Gives, IsInjective, Range
<1> QED
  BY <1>3 DEF Gives

\* Rows whose end is at or before position p, for a ratio of q.
Seen(q, p) == IF q = 0 THEN 0 ELSE (p + 1) \div q

\* A later token may see all that an earlier one may, and the row that ends with it.
LEMMA SeenFacts ==
  ASSUME NEW q \in Nat, NEW p \in Nat
  PROVE  /\ Seen(q, p) \in Nat
         /\ \A x \in Nat : p <= x => Seen(q, p) <= Seen(q, x)
         /\ q # 0 => p \div q <= Seen(q, p)
<1>1. CASE q = 0
  BY <1>1 DEF Seen
<1>2. CASE q # 0
  <2>1. q \in Nat \ {0} /\ p + 1 \in Nat /\ p <= p + 1
    BY <1>2
  <2>2. (p + 1) \div q \in Nat /\ p \div q <= (p + 1) \div q
    BY <2>1, QuotientFacts, QuotientMonotone
  <2>3. ASSUME NEW x \in Nat, p <= x PROVE (p + 1) \div q <= (x + 1) \div q
    <3>1. PICK a, b : a = p + 1 /\ b = x + 1 /\ a \in Nat /\ b \in Nat /\ a <= b
      BY <2>3
    <3>2. a \div q <= b \div q
      BY <2>1, <3>1, QuotientMonotone
    <3> QED
      BY <3>1, <3>2
  <2> QED
    BY <1>2, <2>2, <2>3 DEF Seen
<1> QED
  BY <1>1, <1>2

\* AttendsExactly for what one token read.
TokenAttends(r, q, full) ==
  LET first == IF r.at >= Window THEN r.at + 1 - Window ELSE 0
      visible == IF q = 0 THEN 0 ELSE (r.at + 1) \div q
      rows == {k \in Range(r.keys) : k[1] = "comp"}
  IN /\ IsInjective(r.keys)
     /\ Range(r.keys) \ rows = {RawKey(p) : p \in first .. r.at}
     /\ rows \subseteq {CompKey(c) : c \in 0 .. visible - 1}
     /\ full => Cardinality(rows) = IF q = 4 THEN Least(visible, TopK) ELSE visible

\* The compressed rows of a token: none of its future; all it may see, or the best
\* TopK of them, when the launch counts them.
RowsRight(C, q, p, full) ==
  /\ C \subseteq 0 .. Seen(q, p) - 1
  /\ full => Cardinality(C) = IF q = 4 THEN Least(Seen(q, p), TopK) ELSE Seen(q, p)

\* Keys that hold the window's positions and the right rows are attention as it should be.
LEMMA Attending ==
  ASSUME NEW keys, NEW p \in Nat, NEW q \in Nat, NEW C, NEW full,
         Gives(keys, WindowFirst(p) .. p, C), RowsRight(C, q, p, full)
  PROVE  TokenAttends([at |-> p, keys |-> keys], q, full)
<1> DEFINE rows == {k \in Range(keys) : k[1] = "comp"}
           W == WindowFirst(p) .. p
<1>1. IsInjective(keys) /\ Range(keys) = {RawKey(s) : s \in W} \cup {CompKey(c) : c \in C}
  BY DEF Gives
<1>2. rows = {CompKey(c) : c \in C}
  BY <1>1 DEF RawKey, CompKey
<1>3. Range(keys) \ rows = {RawKey(s) : s \in W}
  <2>1. \A s, c : RawKey(s) # CompKey(c)
    BY KeysDiffer
  <2> HIDE DEF rows, W
  <2> QED
    BY <1>1, <1>2, <2>1
<1>4. C \subseteq 0 .. Seen(q, p) - 1
  BY DEF RowsRight
<1>5. Cardinality(rows) = Cardinality(C)
  <2>1. Seen(q, p) \in Nat
    BY SeenFacts
  <2>2. IsFiniteSet(C)
    <3>1. PICK m : m = Seen(q, p) - 1 /\ m \in Int
      BY <2>1
    <3>2. IsFiniteSet(0 .. m)
      BY <3>1, FS_Interval
    <3> QED
      BY <1>4, <3>1, <3>2, FS_Subset
  <2> DEFINE f == [c \in C |-> CompKey(c)]
  <2> HIDE DEF rows
  <2>3. f \in [C -> rows] /\ \A c \in C : f[c] = CompKey(c)
    BY <1>2
  <2> HIDE DEF f
  <2>4. f \in Bijection(C, rows)
    BY <1>2, <2>3, KeysDiffer DEF Bijection, Injection, Surjection, IsInjective
  <2>5. ExistsBijection(C, rows)
    BY <2>4 DEF ExistsBijection
  <2> QED
    BY <2>2, <2>5, FS_Bijection
<1>6. /\ W = (IF p >= Window THEN p + 1 - Window ELSE 0) .. p
      /\ Seen(q, p) = IF q = 0 THEN 0 ELSE (p + 1) \div q
  BY DEF WindowFirst, Seen
<1>7. full => Cardinality(C) = IF q = 4 THEN Least(Seen(q, p), TopK) ELSE Seen(q, p)
  BY DEF RowsRight
<1>8. rows \subseteq {CompKey(c) : c \in 0 .. Seen(q, p) - 1}
  BY <1>2, <1>4
<1> DEFINE r == [at |-> p, keys |-> keys]
<1>9. r.at = p /\ r.keys = keys
  OBVIOUS
<1> HIDE DEF r
<1>10. TokenAttends(r, q, full) <=>
         /\ IsInjective(keys)
         /\ Range(keys) \ rows = {RawKey(s) : s \in (IF p >= Window THEN p + 1 - Window ELSE 0) .. p}
         /\ rows \subseteq {CompKey(c) : c \in 0 .. (IF q = 0 THEN 0 ELSE (p + 1) \div q) - 1}
         /\ full => Cardinality(rows) = IF q = 4 THEN Least(IF q = 0 THEN 0 ELSE (p + 1) \div q, TopK)
                                        ELSE IF q = 0 THEN 0 ELSE (p + 1) \div q
  BY <1>9 DEF TokenAttends
<1> HIDE DEF rows, W
<1> QED
  BY <1>1, <1>3, <1>5, <1>6, <1>7, <1>8, <1>10 DEF r

\* The first rows are as many as their count.
LEMMA CountBelow ==
  ASSUME NEW v \in Nat
  PROVE  /\ IsFiniteSet(0 .. v - 1) /\ Cardinality(0 .. v - 1) = v
         /\ \A s \in Nat : v <= s => 0 .. v - 1 \subseteq 0 .. s - 1
<1>1. PICK w : w = v - 1 /\ w \in Int
  OBVIOUS
<1>2. 0 \in Int
  OBVIOUS
<1>3. IsFiniteSet(0 .. w) /\ Cardinality(0 .. w) = IF 0 > w THEN 0 ELSE w - 0 + 1
  BY <1>1, <1>2, FS_Interval
<1>4. (IF 0 > w THEN 0 ELSE w - 0 + 1) = v
  BY <1>1
<1>5. \A s \in Nat : v <= s => 0 .. v - 1 \subseteq 0 .. s - 1
  OBVIOUS
<1> QED
  BY <1>1, <1>3, <1>4, <1>5

\* The rows of the kernels that read all a token may see.
LEMMA AllRowsRight ==
  ASSUME NEW q \in Nat, NEW p \in Nat, NEW m \in Nat, NEW c, NEW C, NEW full,
         c = IF q = 0 THEN 1 ELSE q, q = 0 => m = 0, ~(q = 4 /\ m > TopK),
         full => Seen(q, p) <= m, C = 0 .. Least((p + 1) \div c, m) - 1
  PROVE  RowsRight(C, q, p, full)
<1>1. PICK s : s = Seen(q, p) /\ s \in Nat
  BY SeenFacts
<1>2. C = 0 .. Least(s, m) - 1
  <2>1. CASE q = 0
    <3>1. s = 0 /\ m = 0 /\ c = 1
      BY <1>1, <2>1 DEF Seen
    <3>2. (p + 1) \div 1 \in Nat
      OBVIOUS
    <3>3. Least((p + 1) \div c, m) = 0 /\ Least(s, m) = 0
      BY <3>1, <3>2 DEF Least
    <3> QED
      BY <3>3
  <2>2. CASE q # 0
    BY <1>1, <2>2 DEF Seen
  <2> QED
    BY <2>1, <2>2
<1>3. PICK v : v = Least(s, m) /\ v \in Nat /\ v <= s /\ (full => v = s)
  BY <1>1 DEF Least
<1>4. C = 0 .. v - 1
  BY <1>2, <1>3
<1>5. Cardinality(C) = v /\ C \subseteq 0 .. s - 1
  BY <1>1, <1>3, <1>4, CountBelow
<1>6. full /\ q = 4 => Least(s, TopK) = s
  BY <1>1, SizeFacts DEF Least
<1> QED
  BY <1>1, <1>3, <1>4, <1>5, <1>6 DEF RowsRight

\* Rows listed once each are as many as the list is long.
LEMMA EntriesCounted ==
  ASSUME NEW s, Len(s) \in Nat, Once(s)
  PROVE  Cardinality(Entries(s)) = Len(s)
<1>1. PICK n : n = Len(s) /\ n \in Nat
  OBVIOUS
<1>2. \A i, j \in 1 .. n : s[i] = s[j] => i = j
  BY <1>1 DEF Once
<1>3. Entries(s) = {s[i] : i \in 1 .. n}
  BY <1>1 DEF Entries
<1>4. IsFiniteSet(1 .. n) /\ Cardinality(1 .. n) = n
  <2>1. 1 \in Int /\ n \in Int /\ (IF 1 > n THEN 0 ELSE n - 1 + 1) = n
    BY <1>1
  <2>2. IsFiniteSet(1 .. n) /\ Cardinality(1 .. n) = IF 1 > n THEN 0 ELSE n - 1 + 1
    BY <2>1, FS_Interval
  <2> QED
    BY <2>1, <2>2
<1>5. PICK T : T = 1 .. n
  OBVIOUS
<1> DEFINE f == [i \in T |-> s[i]]
           S == Entries(s)
<1>6. f \in [T -> S] /\ (\A i \in T : f[i] = s[i]) /\ \A x \in S : \E i \in T : s[i] = x
  BY <1>3, <1>5
<1> HIDE DEF f, S
<1>7. f \in Bijection(T, S)
  BY <1>2, <1>6, <1>5 DEF Bijection, Injection, Surjection, IsInjective
<1>8. ExistsBijection(T, S)
  BY <1>7 DEF ExistsBijection
<1>9. Cardinality(S) = Cardinality(T)
  BY <1>4, <1>8, <1>5, FS_Bijection
<1> QED
  BY <1>1, <1>4, <1>9, <1>5 DEF S

\* The rows of the indexed kernels: m counted by the launch, selected among n.
LEMMA SelectedRowsRight ==
  ASSUME NEW a, NEW t, NEW p \in Nat, NEW n \in Nat, NEW m \in Nat, NEW full, TopK <= CompRows,
         a.topk[t] = Selection(n, Least((p + 1) \div 4, n), TopK),
         Visible(a, t) = Least((p + 1) \div 4, m),
         full => n = m /\ Seen(4, p) <= m
  PROVE  /\ Len(Selected(a, t)) \in Nat /\ Once(Selected(a, t))
         /\ RowsRight(Entries(Selected(a, t)), 4, p, full)
<1>1. PICK s : s = Seen(4, p) /\ s \in Nat /\ s = (p + 1) \div 4
  <2>1. Seen(4, p) \in Nat
    BY SeenFacts
  <2> QED
    BY <2>1 DEF Seen
<1>2. PICK v, w : v = Least(s, n) /\ w = Least(s, m)
  OBVIOUS
<1>3. v \in 0 .. n /\ w \in Nat /\ w <= s /\ (full => v = s /\ w = s)
  BY <1>1, <1>2 DEF Least
<1>4. a.topk[t] = Selection(n, v, TopK) /\ Visible(a, t) = w
  BY <1>1, <1>2
<1>5. /\ Len(Selected(a, t)) \in Nat /\ Once(Selected(a, t))
      /\ Entries(Selected(a, t)) \subseteq 0 .. w - 1
      /\ v = w => Len(Selected(a, t)) = Least(TopK, v)
  BY <1>3, <1>4, SelectedGives
<1>6. 0 .. w - 1 \subseteq 0 .. s - 1
  BY <1>1, <1>3, CountBelow
<1>7. full => Cardinality(Entries(Selected(a, t))) = Least(s, TopK)
  <2>1. Least(TopK, s) = Least(s, TopK)
    BY <1>1, SizeFacts DEF Least
  <2> QED
    BY <1>3, <1>5, <2>1, EntriesCounted
<1> QED
  BY <1>1, <1>5, <1>6, <1>7 DEF RowsRight

-----------------------------------------------------------------------------
(* The ring. *)

\* The n tokens from p on, and the window before them, lie at their places.
Fresh(r, p, n) == \A q \in Nat : q < p + n /\ p <= q + Window => r[q % RawCap] = q

\* store_raw_batch leaves the tokens it stores and the window before them in their places,
\* although the ring wraps.
LEMMA StoreRawFresh ==
  ASSUME NEW r, NEW p \in Nat, NEW n \in Nat, n + Window <= RawCap, Fresh(r, p, 0)
  PROVE  Fresh(StoreRaw(r, p, n), p, n)
<1> SUFFICES ASSUME NEW q \in Nat, q < p + n, p <= q + Window
             PROVE  StoreRaw(r, p, n)[q % RawCap] = q
  BY DEF Fresh
<1> DEFINE s == q % RawCap
           new == {x \in p .. p + n - 1 : x % RawCap = s}
<1>1. s \in 0 .. RawCap - 1
  BY SizeFacts, RemainderFacts
<1>2. StoreRaw(r, p, n)[s] = IF new = {} THEN r[s] ELSE CHOOSE x \in new : TRUE
  <2>1. StoreRaw(r, p, n) = [z \in 0 .. RawCap - 1 |->
                               LET u == {x \in p .. p + n - 1 : x % RawCap = z}
                               IN IF u = {} THEN r[z] ELSE CHOOSE x \in u : TRUE]
    BY DEF StoreRaw
  <2> HIDE DEF s
  <2> QED
    BY <1>1, <2>1
<1>3. ASSUME NEW x \in new PROVE x = q
  <2>1. x \in Nat /\ x % RawCap = q % RawCap /\ x - q < RawCap /\ q - x < RawCap
    BY SizeFacts
  <2> QED
    BY <2>1, RingPlace, SizeFacts
<1>4. CASE q >= p
  <2>1. q \in new
    BY <1>4
  <2> HIDE DEF new
  <2>2. (CHOOSE x \in new : TRUE) \in new
    BY <2>1
  <2> HIDE DEF s
  <2>3. (CHOOSE x \in new : TRUE) = q
    BY <1>3, <2>2
  <2> QED
    BY <1>2, <2>1, <2>3 DEF s
<1>5. CASE q < p
  <2>1. new = {}
    <3>1. q \notin new
      BY <1>5
    <3> HIDE DEF new
    <3> QED
      BY <1>3, <3>1
  <2>2. r[s] = q
    <3>1. q < p + 0
      BY <1>5
    <3> QED
      BY <3>1 DEF Fresh
  <2> HIDE DEF new, s
  <2> QED
    BY <1>2, <2>1, <2>2 DEF s
<1> QED
  BY <1>4, <1>5

\* Tokens taken back leave a window that is still there.
LEMMA FreshStays ==
  ASSUME NEW r, NEW p \in Nat, NEW n \in Nat, NEW k \in 0 .. n, Fresh(r, p, n)
  PROVE  Fresh(r, p + k, 0)
BY SizeFacts DEF Fresh

\* The slots of a window.
RingWindow(p) == {x % RawCap : x \in WindowFirst(p) .. p}

\* The window of a token, read through the ring.
LEMMA WindowHeld ==
  ASSUME NEW r, NEW p \in Nat, NEW n \in Nat, Fresh(r, p, n), NEW q \in p .. p + n - 1
  PROVE  /\ {r[s] : s \in RingWindow(q)} = WindowFirst(q) .. q
         /\ \A s, u \in RingWindow(q) : r[s] = r[u] => s = u
<1>1. \A x \in WindowFirst(q) .. q : r[x % RawCap] = x
  BY SizeFacts DEF Fresh, WindowFirst
<1> QED
  BY <1>1 DEF RingWindow

\* gpu_graph_raw_span_for_batch and gpu_graph_raw_start_for_span
LEMMA SpanFacts ==
  ASSUME NEW p \in Nat, NEW n \in Nat \ {0}, n + Window <= RawCap
  PROVE  LET k == RawSpan(p, n)
         IN  /\ k \in Nat \ {0} /\ k <= p + n /\ (p + n) - k <= WindowFirst(p)
             /\ RawStart(p + n - 1, k) = ((p + n) - k) % RawCap
             /\ n = 1 => k <= Window /\ (p + 1) - k = WindowFirst(p)
<1>1. PICK k : k = RawSpan(p, n)
  OBVIOUS
<1>2. /\ k \in Nat \ {0} /\ k <= p + n /\ (p + n) - k <= WindowFirst(p)
      /\ n = 1 => k <= Window /\ (p + 1) - k = WindowFirst(p)
  BY <1>1, SizeFacts DEF RawSpan, Least, WindowFirst
<1>3. (p + n - 1) + 1 - k = (p + n) - k
  BY <1>2
<1>4. RawStart(p + n - 1, k) = ((p + n) - k) % RawCap
  BY <1>3 DEF RawStart
<1> QED
  BY <1>1, <1>2, <1>4

-----------------------------------------------------------------------------
(* The launches of a layer. *)

\* The sizes the kernels were compiled for, and the contexts they are given: the
\* window fits raw_rows, the selection comp_rows, and the plain kernel's buffer the
\* compressed rows of a context; positions fit their type.
SizesFit == Window <= RawRows /\ TopK <= CompRows /\ CompCap <= ScoreCap /\ MaxPos <= Word
\* The decode tape is used for ratio-4 layers whose rows are packed.
TapesPacked == \A s \in Settings : s.ratio = 4 /\ s.graph => "KV_TURBO" \in s.env

\* The ratio of a layer; a layer without compressed rows passes 1.
LEMMA RatiosAre ==
  ASSUME set \in Settings
  PROVE  Ratio \in Nat /\ CompRatio = (IF Ratio = 0 THEN 1 ELSE Ratio) /\ CompRatio \in Nat \ {0}
BY LayerAssumption DEF Ratio, CompRatio

\* The arguments of a launch.
LEMMA LaunchIs ==
  ASSUME set \in Settings, NEW p \in Nat, NEW n \in Nat \ {0}, NEW k, NEW start, NEW m \in Nat, NEW a,
         a = Launch(p, n, k, start, m)
  PROVE  /\ a.pos0 = p /\ a.n_tokens = n /\ a.n_raw = k /\ a.raw_start = start /\ a.n_comp = m
         /\ a.window = Window /\ a.raw_cap = RawCap /\ a.ratio = CompRatio
         /\ \A t \in 0 .. n - 1 : a.topk[t] = Selection(m, Least((p + t + 1) \div CompRatio, m), TopK)
BY DEF Launch

\* The span and start the executor computes make a launch over the window of its first
\* token on.
LEMMA LaunchInRing ==
  ASSUME set \in Settings, NEW p \in Nat, NEW n \in Nat \ {0}, n + Window <= RawCap, p + n <= Word,
         NEW m \in Nat, NEW k, k = RawSpan(p, n),
         NEW a, a.pos0 = p, a.n_tokens = n, a.n_raw = k, a.raw_start = RawStart(p + n - 1, k),
         a.n_comp = m, a.window = Window, a.raw_cap = RawCap, a.ratio = CompRatio
  PROVE  RingLaunch(a)
<1>1. /\ k \in Nat \ {0} /\ k <= p + n /\ (p + n) - k <= WindowFirst(p)
      /\ RawStart(p + n - 1, k) = ((p + n) - k) % RawCap
  BY SpanFacts
<1>2. CompRatio \in Nat \ {0}
  BY RatiosAre
<1>3. PICK from : from = (p + n) - k
  OBVIOUS
<1>4. p + n - k = from
  BY <1>1, <1>3
<1> QED
  BY <1>1, <1>2, <1>3, <1>4 DEF RingLaunch

\* Keys in the ring, as the tokens they hold.
HeldAt(read, p, f) ==
  [t \in DOMAIN read |->
     [at |-> p + t,
      keys |-> [i \in DOMAIN read[t] |-> IF read[t][i][1] = "raw" THEN RawKey(f[read[t][i][2]]) ELSE read[t][i]]]]

\* A launch that gives each token its window's slots and the right rows attends exactly,
\* once the ring holds the batch and the window before it.
LEMMA HeldAttends ==
  ASSUME NEW read, NEW p \in Nat, NEW n \in Nat, NEW f, Fresh(f, p, n), NEW q \in Nat,
         NEW full \in BOOLEAN, DOMAIN read \subseteq 0 .. n - 1,
         \A t \in DOMAIN read :
           \E C : /\ Gives(read[t], RingWindow(p + t), C)
                  /\ RowsRight(C, q, p + t, full)
  PROVE  \A t \in DOMAIN HeldAt(read, p, f) : TokenAttends(HeldAt(read, p, f)[t], q, full)
<1> SUFFICES ASSUME NEW t \in DOMAIN read PROVE TokenAttends(HeldAt(read, p, f)[t], q, full)
  BY DEF HeldAt
<1>1. PICK C : /\ Gives(read[t], RingWindow(p + t), C)
               /\ RowsRight(C, q, p + t, full)
  OBVIOUS
<1>2. PICK at : at = p + t /\ at \in p .. p + n - 1 /\ at \in Nat
  OBVIOUS
<1> DEFINE R == RingWindow(at)
           held == [i \in DOMAIN read[t] |->
                      IF read[t][i][1] = "raw" THEN RawKey(f[read[t][i][2]]) ELSE read[t][i]]
<1>3. {f[s] : s \in R} = WindowFirst(at) .. at /\ \A s, u \in R : f[s] = f[u] => s = u
  BY <1>2, WindowHeld
<1>4. Gives(read[t], R, C) /\ RowsRight(C, q, at, full)
  BY <1>1, <1>2
<1>5. HeldAt(read, p, f)[t] = [at |-> at, keys |-> held]
  BY <1>2 DEF HeldAt
<1> HIDE DEF R
<1>6. Gives(held, {f[s] : s \in R}, C)
  BY <1>3, <1>4, HeldGives
<1> HIDE DEF held
<1>7. Gives(held, WindowFirst(at) .. at, C)
  BY <1>3, <1>6
<1> QED
  BY <1>2, <1>4, <1>5, <1>7, Attending

\* What the indexed kernels and the kernels over all rows give to a token.
LEMMA IndexedAttends ==
  ASSUME SizesFit, NEW a, RingLaunch(a), NEW t \in 0 .. a.n_tokens - 1, NEW p, p = a.pos0 + t,
         NEW full \in BOOLEAN, a.ratio = 4, full => Seen(4, p) <= a.n_comp,
         \E n \in Nat : a.topk[t] = Selection(n, Least((p + 1) \div 4, n), TopK) /\ (full => n = a.n_comp),
         NEW opt
  PROVE  \E C : /\ Gives(IndexedHeads(a, opt)[t], RingWindow(p), C)
                /\ Gives(IndexedHeadsPacked(a)[t], RingWindow(p), C)
                /\ RowsRight(C, 4, p, full)
<1>1. PICK m : m = a.n_comp /\ m \in Nat /\ p \in Nat
  BY DEF RingLaunch
<1>2. PICK n \in Nat : a.topk[t] = Selection(n, Least((p + 1) \div 4, n), TopK) /\ (full => n = m)
  BY <1>1
<1>3. Visible(a, t) = Least((p + 1) \div 4, m)
  BY <1>1, VisibleIs
<1>4. /\ Len(Selected(a, t)) \in Nat /\ Once(Selected(a, t))
      /\ RowsRight(Entries(Selected(a, t)), 4, p, full)
  BY <1>1, <1>2, <1>3, SelectedRowsRight DEF SizesFit
<1>5. Window <= RawRows /\ WindowRing(a, t) = RingWindow(p)
  BY DEF SizesFit, WindowRing, RingWindow
<1>6. /\ Gives(IndexedHeads(a, opt)[t], WindowRing(a, t), Entries(Selected(a, t)))
      /\ Gives(IndexedHeadsPacked(a)[t], WindowRing(a, t), Entries(Selected(a, t)))
  BY <1>4, <1>5, IndexedHeadsGive
<1> QED
  BY <1>4, <1>5, <1>6

\* The kernels over all compressed rows give to a token of a later batch or of the tape.
LEMMA BatchAttends ==
  ASSUME SizesFit, NEW a, RingLaunch(a), NEW t \in 0 .. a.n_tokens - 1, NEW p, p = a.pos0 + t,
         NEW q \in Nat, a.ratio = (IF q = 0 THEN 1 ELSE q), q = 0 => a.n_comp = 0,
         ~(q = 4 /\ a.n_comp > TopK), NEW full \in BOOLEAN, full => Seen(q, p) <= a.n_comp, NEW opt
  PROVE  \E C : /\ Gives(DecodeBatch(a, opt)[t], RingWindow(p), C)
                /\ RowsRight(C, q, p, full)
<1>1. PICK m : m = a.n_comp /\ m \in Nat /\ p \in Nat
  BY DEF RingLaunch
<1>2. PICK c : c = a.ratio /\ c = IF q = 0 THEN 1 ELSE q
  OBVIOUS
<1>3. Visible(a, t) = Least((p + 1) \div c, m)
  BY <1>1, <1>2, VisibleIs
<1>4. PICK C : C = 0 .. Least((p + 1) \div c, m) - 1
  OBVIOUS
<1>5. RowsRight(C, q, p, full)
  BY <1>1, <1>2, <1>4, AllRowsRight
<1>6. Window <= RawRows /\ WindowRing(a, t) = RingWindow(p)
  BY DEF SizesFit, WindowRing, RingWindow
<1>7. Gives(DecodeBatch(a, opt)[t], WindowRing(a, t), 0 .. Visible(a, t) - 1)
  BY <1>6, DecodeBatchGives
<1> QED
  BY <1>3, <1>4, <1>5, <1>6, <1>7

\* The indexer is used by ratio-4 layers that count more rows than top_k.
LEMMA CountedRatio == ASSUME NEW m, Indexed(m) PROVE Ratio = 4 /\ m > TopK
BY DEF Indexed

\* A batch after the first.
LEMMA ChunkAttends ==
  ASSUME SizesFit, set \in Settings, NEW p \in Nat, NEW n \in Nat \ {0}, n + Window <= RawCap,
         p + n <= Word, NEW m \in Nat, Ratio = 0 => m = 0, NEW f, Fresh(f, p, n), NEW full \in BOOLEAN,
         full => \A t \in 0 .. n - 1 : Seen(Ratio, p + t) <= m
  PROVE  \A t \in DOMAIN ChunkReads(p, n, m, f) : TokenAttends(ChunkReads(p, n, m, f)[t], Ratio, full)
<1> DEFINE k == RawSpan(p, n)
           a == Launch(p, n, k, RawStart(p + n - 1, k), m)
           opt == [quality |-> set.quality, cublas |-> set.cublas, env |-> set.env]
           K2 == IF Indexed(m) THEN IndexedHeads(a, opt) ELSE DecodeBatch(a, opt)
<1>1. ChunkReads(p, n, m, f) = HeldAt(K2, p, f)
  BY DEF ChunkReads, Held, HeldAt
<1>2. PICK q : q = Ratio /\ q \in Nat /\ CompRatio = (IF q = 0 THEN 1 ELSE q)
  BY RatiosAre
<1>3. /\ a.pos0 = p /\ a.n_tokens = n /\ a.n_raw = k /\ a.raw_start = RawStart(p + n - 1, k) /\ a.n_comp = m
      /\ a.window = Window /\ a.raw_cap = RawCap /\ a.ratio = CompRatio
      /\ \A t \in 0 .. n - 1 : a.topk[t] = Selection(m, Least((p + t + 1) \div CompRatio, m), TopK)
  BY LaunchIs
<1> HIDE DEF a, opt
<1>4. RingLaunch(a)
  <2> HIDE DEF k
  <2>1. k = RawSpan(p, n)
    BY DEF k
  <2> QED
    BY <1>3, <2>1, LaunchInRing
<1> HIDE DEF k
<1>5. DOMAIN K2 = 0 .. n - 1
  BY <1>3 DEF IndexedHeads, DecodeBatch, Reads
<1>6. ASSUME NEW t \in 0 .. n - 1
      PROVE  \E C : /\ Gives(K2[t], RingWindow(p + t), C)
                    /\ RowsRight(C, q, p + t, full)
  <2>1. PICK at : at = p + t /\ at = a.pos0 + t /\ at \in Nat /\ t \in 0 .. a.n_tokens - 1
    BY <1>3
  <2>2. full => Seen(q, at) <= m
    BY <1>2, <2>1
  <2>3. CASE Indexed(m)
    <3>1. q = 4 /\ a.ratio = 4
      BY <1>2, <1>3, <2>3, CountedRatio
    <3>2. a.topk[t] = Selection(m, Least((at + 1) \div 4, m), TopK)
      BY <1>3, <2>1, <3>1
    <3>3. K2[t] = IndexedHeads(a, opt)[t]
      BY <2>3
    <3> HIDE DEF K2
    <3>4. \E n0 \in Nat : /\ a.topk[t] = Selection(n0, Least((at + 1) \div 4, n0), TopK)
                          /\ full => n0 = a.n_comp
      BY <1>3, <3>2
    <3>5. \E C : /\ Gives(IndexedHeads(a, opt)[t], RingWindow(at), C)
                 /\ RowsRight(C, 4, at, full)
      BY <1>3, <1>4, <2>1, <2>2, <3>1, <3>4, IndexedAttends
    <3> QED
      BY <2>1, <3>1, <3>3, <3>5
  <2>4. CASE ~Indexed(m)
    <3>1. ~(q = 4 /\ m > TopK) /\ (q = 0 => m = 0) /\ a.ratio = IF q = 0 THEN 1 ELSE q
      BY <1>2, <1>3, <2>4 DEF Indexed
    <3>2. K2[t] = DecodeBatch(a, opt)[t]
      BY <2>4
    <3> HIDE DEF K2
    <3>3. ~(q = 4 /\ a.n_comp > TopK) /\ (q = 0 => a.n_comp = 0) /\ (full => Seen(q, at) <= a.n_comp)
      BY <1>3, <2>2, <3>1
    <3>4. \E C : /\ Gives(DecodeBatch(a, opt)[t], RingWindow(at), C)
                 /\ RowsRight(C, q, at, full)
      BY <1>2, <1>4, <2>1, <3>1, <3>3, BatchAttends
    <3> QED
      BY <2>1, <3>2, <3>4
  <2> QED
    BY <2>3, <2>4
<1> HIDE DEF K2
<1>7. \A t \in DOMAIN HeldAt(K2, p, f) : TokenAttends(HeldAt(K2, p, f)[t], q, full)
  BY <1>2, <1>5, <1>6, HeldAttends
<1> QED
  BY <1>1, <1>2, <1>7

\* The first batch.
LEMMA PrefillAttends ==
  ASSUME SizesFit, set \in Settings, NEW n \in Nat \ {0}, n + Window <= RawCap, n <= Word,
         NEW m \in Nat, Ratio = 0 => m = 0, NEW full \in BOOLEAN,
         full => \A t \in 0 .. n - 1 : Seen(Ratio, t) <= m
  PROVE  \A t \in DOMAIN PrefillReads(n, m) : TokenAttends(PrefillReads(n, m)[t], Ratio, full)
<1> DEFINE a == Launch(0, n, n, 0, m)
           opt == [quality |-> set.quality, cublas |-> set.cublas, env |-> set.env]
           f == StoreRaw(ring, 0, n)
           KB == IF Ratio # 0 /\ m # 0 THEN PrefillMixedHeads(a, opt) ELSE PrefillRawHeads(a, opt)
           inBatch == [t \in DOMAIN KB |->
                         [at |-> 0 + t,
                          keys |-> [i \in DOMAIN KB[t] |->
                                      IF KB[t][i][1] = "raw" THEN RawKey(KB[t][i][2]) ELSE KB[t][i]]]]
<1>1. PrefillReads(n, m) = IF Indexed(m) THEN HeldAt(IndexedHeads(a, opt), 0, f) ELSE inBatch
  BY DEF PrefillReads, Held, HeldAt
<1>2. PICK q : q = Ratio /\ q \in Nat /\ CompRatio = (IF q = 0 THEN 1 ELSE q) /\ CompRatio \in Nat \ {0}
  BY RatiosAre
<1>3. /\ a.pos0 = 0 /\ a.n_tokens = n /\ a.n_raw = n /\ a.raw_start = 0 /\ a.n_comp = m
      /\ a.window = Window /\ a.raw_cap = RawCap /\ a.ratio = CompRatio
      /\ \A t \in 0 .. n - 1 : a.topk[t] = Selection(m, Least((0 + t + 1) \div CompRatio, m), TopK)
  BY LaunchIs
<1>4. PICK b : b = [a EXCEPT !.n_comp = 0, !.ratio = 1]
  OBVIOUS
<1>5. b.n_tokens = n /\ b.n_comp = 0 /\ b.window = Window /\ b.ratio = 1
  BY <1>4 DEF Launch
<1> HIDE DEF a, opt
<1>6. FirstBatch(a) /\ FirstBatch(b)
  BY <1>2, <1>3, <1>5 DEF FirstBatch
<1>7. CASE Indexed(m)
  <2>0. PICK p0 : p0 = 0 /\ p0 \in Nat
    OBVIOUS
  <2>1. Fresh(f, 0, n)
    <3>1. Fresh(ring, 0, 0)
      BY DEF Fresh
    <3> QED
      BY <3>1, StoreRawFresh
  <2>2. RingLaunch(a)
    <3>1. 0 % RawCap = 0
      <4>1. (0 * RawCap + 0) % RawCap = 0
        BY SizeFacts, Divides
      <4>2. 0 * RawCap + 0 = 0
        BY SizeFacts
      <4> QED
        BY <4>1, <4>2
    <3>2. 0 + n - n = 0 /\ 0 + n = n
      OBVIOUS
    <3>3. WindowFirst(0) = 0
      BY SizeFacts DEF WindowFirst
    <3> QED
      BY <1>2, <1>3, <3>1, <3>2, <3>3 DEF RingLaunch
  <2>3. q = 4 /\ a.ratio = 4
    BY <1>2, <1>3, <1>7, CountedRatio
  <2> DEFINE KI == IndexedHeads(a, opt)
  <2>4. DOMAIN KI = 0 .. n - 1
    BY <1>3 DEF IndexedHeads, Reads
  <2>5. ASSUME NEW t \in 0 .. n - 1
        PROVE  \E C : /\ Gives(KI[t], RingWindow(p0 + t), C)
                      /\ RowsRight(C, q, p0 + t, full)
    <3>1. PICK at : at = 0 + t /\ at = t /\ at = a.pos0 + t /\ at \in Nat /\ t \in 0 .. a.n_tokens - 1
      BY <1>3
    <3>2. full => Seen(4, at) <= m
      BY <1>2, <2>3, <3>1
    <3>3. a.topk[t] = Selection(m, Least((at + 1) \div 4, m), TopK)
      BY <1>3, <2>3, <3>1
    <3>4. \E n0 \in Nat : /\ a.topk[t] = Selection(n0, Least((at + 1) \div 4, n0), TopK)
                          /\ full => n0 = a.n_comp
      BY <1>3, <3>3
    <3>5. \E C : /\ Gives(KI[t], RingWindow(at), C)
                 /\ RowsRight(C, 4, at, full)
      <4>1. full => Seen(4, at) <= a.n_comp
        BY <1>3, <3>2
      <4> HIDE DEF f
      <4> QED
        BY <2>2, <2>3, <3>1, <3>4, <4>1, IndexedAttends
    <3> QED
      BY <2>0, <2>3, <3>1, <3>5
  <2> HIDE DEF KI, f
  <2>6. Fresh(f, p0, n) /\ p0 \in Nat
    BY <2>0, <2>1
  <2>7. \A t \in DOMAIN HeldAt(KI, p0, f) : TokenAttends(HeldAt(KI, p0, f)[t], q, full)
    BY <1>2, <2>4, <2>5, <2>6, HeldAttends
  <2> QED
    BY <1>1, <1>2, <1>7, <2>0, <2>7 DEF KI
<1>8. CASE ~Indexed(m)
  <2>1. ASSUME NEW t \in 0 .. n - 1
        PROVE  /\ DOMAIN KB = 0 .. n - 1
               /\ \E C : Gives(KB[t], WindowFirst(t) .. t, C) /\ RowsRight(C, q, t, full)
    <3>1. t \in Nat /\ t \in 0 .. a.n_tokens - 1
      BY <1>3
    <3>2. PICK c : c = a.ratio /\ c = IF q = 0 THEN 1 ELSE q
      BY <1>2, <1>3
    <3>3. PICK C : C = 0 .. Least((t + 1) \div c, m) - 1 /\ C = 0 .. BatchRows(a, t) - 1
      BY <1>3, <3>2 DEF BatchRows
    <3>4. RowsRight(C, q, t, full)
      <4>1. ~(q = 4 /\ m > TopK) /\ (q = 0 => m = 0) /\ (full => Seen(q, t) <= m)
        BY <1>2, <1>8 DEF Indexed
      <4> QED
        BY <1>2, <3>1, <3>2, <3>3, <4>1, AllRowsRight
    <3>5. CASE Ratio # 0 /\ m # 0
      <4>1. KB = PrefillMixedHeads(a, opt)
        BY <3>5
      <4> HIDE DEF KB
      <4>2. DOMAIN PrefillMixedHeads(a, opt) = 0 .. a.n_tokens - 1
            /\ Gives(PrefillMixedHeads(a, opt)[t], WindowFirst(t) .. t, 0 .. BatchRows(a, t) - 1)
        BY <1>6, <3>1, PrefillMixedHeadsGive
      <4> QED
        BY <1>3, <3>3, <3>4, <4>1, <4>2
    <3>6. CASE ~(Ratio # 0 /\ m # 0)
      <4>1. m = 0 /\ KB = PrefillRawHeads(a, opt)
        BY <3>6
      <4> HIDE DEF KB
      <4>2. DOMAIN PrefillRawHeads(a, opt) = 0 .. a.n_tokens - 1
            /\ Gives(PrefillRawHeads(a, opt)[t], WindowFirst(t) .. t, {})
        BY <1>3, <1>4, <1>5, <1>6, <3>1, PrefillRawHeadsGive
      <4>3. C = {}
        <5>1. PICK x : x = (t + 1) \div a.ratio /\ x \in Nat
          BY <1>6, <3>1, BatchRowsNat
        <5>2. Least(x, 0) = 0
          BY <5>1 DEF Least
        <5>3. BatchRows(a, t) = 0
          BY <1>3, <4>1, <5>1, <5>2 DEF BatchRows
        <5> QED
          BY <3>3, <5>3
      <4> QED
        BY <1>3, <3>4, <4>1, <4>2, <4>3
    <3> QED
      BY <3>5, <3>6
  <2>2. 0 \in 0 .. n - 1
    OBVIOUS
  <2> HIDE DEF KB
  <2>3. DOMAIN KB = 0 .. n - 1
    BY <2>1, <2>2
  <2>4. ASSUME NEW t \in 0 .. n - 1 PROVE TokenAttends(inBatch[t], q, full)
    <3>1. PICK C : Gives(KB[t], WindowFirst(t) .. t, C) /\ RowsRight(C, q, t, full)
      BY <2>1
    <3>2. PICK held : held = [i \in DOMAIN KB[t] |->
                                IF KB[t][i][1] = "raw" THEN RawKey(KB[t][i][2]) ELSE KB[t][i]]
      OBVIOUS
    <3>3. inBatch[t] = [at |-> t, keys |-> held]
      BY <2>3, <3>2
    <3>4. Gives(held, WindowFirst(t) .. t, C)
      BY <3>1, <3>2, HeldInBatch
    <3>5. t \in Nat
      OBVIOUS
    <3> HIDE DEF inBatch
    <3> QED
      BY <1>2, <3>1, <3>3, <3>4, <3>5, Attending
  <2>5. DOMAIN inBatch = 0 .. n - 1
    BY <2>3
  <2> HIDE DEF inBatch
  <2> QED
    BY <1>1, <1>2, <1>8, <2>4, <2>5
<1> QED
  BY <1>7, <1>8

\* One token. The plain kernels have no position: a may hold any.
LEMMA DecodeAttends ==
  ASSUME SizesFit, set \in Settings, NEW p \in Nat, p + 1 <= Word,
         NEW a, NEW x, NEW k, NEW m \in Nat, NEW top, k = RawSpan(p, 1),
         a = [n_tokens |-> 1, pos0 |-> x, n_raw |-> k, raw_cap |-> RawCap, raw_start |-> RawStart(p, k),
              n_comp |-> m, window |-> Window, ratio |-> CompRatio, topk |-> top],
         NEW indexed \in BOOLEAN, indexed <=> Indexed(m), m <= CompCap, m <= Seen(Ratio, p),
         NEW full \in BOOLEAN, full => Seen(Ratio, p) <= m,
         indexed => /\ x = p
                    /\ \E n \in Nat : /\ top[0] = Selection(n, Least((p + 1) \div 4, n), TopK)
                                      /\ full => n = m,
         NEW f, Fresh(f, p, 1)
  PROVE  \A t \in DOMAIN DecodeReads(a, indexed, p, f) :
           TokenAttends(DecodeReads(a, indexed, p, f)[t], Ratio, full)
<1> DEFINE opt == [env |-> set.env]
           K2 == IF indexed /\ Packed THEN IndexedHeadsPacked(a)
                 ELSE IF indexed THEN IndexedHeads(a, opt)
                 ELSE DecodeHeads(a)
<1>1. DecodeReads(a, indexed, p, f) = HeldAt(K2, p, f)
  BY DEF DecodeReads, Held, HeldAt
<1>2. PICK q : q = Ratio /\ q \in Nat /\ CompRatio = (IF q = 0 THEN 1 ELSE q)
  BY RatiosAre
<1>3. /\ a.pos0 = x /\ a.n_tokens = 1 /\ a.n_raw = k /\ a.raw_start = RawStart(p, k) /\ a.n_comp = m
      /\ a.window = Window /\ a.raw_cap = RawCap /\ a.ratio = CompRatio /\ a.topk = top
  OBVIOUS
<1>4. PICK all : all = [a EXCEPT !.n_tokens = 1, !.pos0 = 0, !.window = 0, !.ratio = 0]
  OBVIOUS
<1>5. /\ all.n_tokens = 1 /\ all.ratio = 0 /\ all.n_raw = k /\ all.raw_cap = RawCap
      /\ all.raw_start = RawStart(p, k) /\ all.n_comp = m
  BY <1>4
<1>6. 1 + Window <= RawCap /\ 1 \in Nat \ {0}
  BY SizeFacts
<1>7. /\ k \in Nat \ {0} /\ k <= p + 1 /\ (p + 1) - k <= WindowFirst(p)
      /\ RawStart(p + 1 - 1, k) = ((p + 1) - k) % RawCap
      /\ k <= Window /\ (p + 1) - k = WindowFirst(p)
  BY <1>6, SpanFacts
<1>8. p + 1 - 1 = p /\ WindowFirst(p) \in Nat
  BY <1>7
<1>9. RawStart(p, k) = WindowFirst(p) % RawCap
  BY <1>7, <1>8
<1> HIDE DEF opt
<1>10. ASSUME indexed
       PROVE  DOMAIN K2 = 0 .. 0 /\ \E C : Gives(K2[0], RingWindow(p), C) /\ RowsRight(C, q, p, full)
  <2>1. q = 4 /\ a.ratio = 4 /\ m > TopK
    BY <1>2, <1>3, <1>10, CountedRatio
  <2>2. RingLaunch(a)
    BY <1>3, <1>6, <1>8, <1>10, LaunchInRing
  <2>3. PICK t : t = 0 /\ p = a.pos0 + t /\ t \in 0 .. a.n_tokens - 1
    BY <1>3, <1>10
  <2>4. \E C : /\ Gives(IndexedHeads(a, opt)[0], RingWindow(p), C)
               /\ Gives(IndexedHeadsPacked(a)[0], RingWindow(p), C)
               /\ RowsRight(C, 4, p, full)
    <3>1. /\ \E n \in Nat : a.topk[t] = Selection(n, Least((p + 1) \div 4, n), TopK) /\ (full => n = a.n_comp)
          /\ full => Seen(4, p) <= a.n_comp
      BY <1>2, <1>3, <1>10, <2>1, <2>3
    <3>2. \E C : /\ Gives(IndexedHeads(a, opt)[t], RingWindow(p), C)
                 /\ Gives(IndexedHeadsPacked(a)[t], RingWindow(p), C)
                 /\ RowsRight(C, 4, p, full)
      <4>1. PICK u : u = t /\ p = a.pos0 + u /\ u \in 0 .. a.n_tokens - 1
        BY <2>3
      <4> QED
        BY <2>1, <2>2, <3>1, <4>1, IndexedAttends
    <3> QED
      BY <2>3, <3>2
  <2>5. K2 = IndexedHeadsPacked(a) \/ K2 = IndexedHeads(a, opt)
    BY <1>10
  <2>6. DOMAIN IndexedHeadsPacked(a) = 0 .. 0 /\ DOMAIN IndexedHeads(a, opt) = 0 .. 0
    <3>1. a.n_tokens - 1 = 0
      BY <1>3
    <3> QED
      BY <3>1 DEF IndexedHeadsPacked, IndexedHeads, Reads
  <2> HIDE DEF K2
  <2> QED
    BY <2>1, <2>4, <2>5, <2>6
<1>11. ASSUME ~indexed
       PROVE  DOMAIN K2 = 0 .. 0 /\ \E C : Gives(K2[0], RingWindow(p), C) /\ RowsRight(C, q, p, full)
  <2>1. K2 = DecodeHeads(a)
    BY <1>11
  <2>2. k <= RawCap /\ k <= RawRows /\ m <= ScoreCap
    BY <1>7, SizeFacts DEF SizesFit
  <2>3. PICK lo : lo = WindowFirst(p) /\ lo \in Nat /\ lo + k - 1 = p
    BY <1>7, <1>8
  <2>4. PICK R : R = {y % RawCap : y \in lo .. lo + k - 1}
    OBVIOUS
  <2>5. R = RingWindow(p)
    BY <2>3, <2>4 DEF RingWindow
  <2>6. DOMAIN DecodeHeads(a) = 0 .. 0 /\ Gives(DecodeHeads(a)[0], R, 0 .. a.n_comp - 1)
    <3>1. a.raw_start = lo % RawCap /\ all.raw_start = lo % RawCap
      BY <1>3, <1>5, <1>9, <2>3
    <3>2. /\ DOMAIN DecodeHeads(a) = 0 .. 0
          /\ Gives(DecodeHeads(a)[0], {y % RawCap : y \in lo .. lo + k - 1}, 0 .. a.n_comp - 1)
      BY <1>3, <1>4, <1>5, <1>7, <2>2, <2>3, <3>1, DecodeHeadsGive
    <3> QED
      BY <2>4, <3>2
  <2>7. RowsRight(0 .. m - 1, q, p, full)
    <3>1. ~(q = 4 /\ m > TopK) /\ (full => Seen(q, p) <= m) /\ m <= Seen(q, p)
      BY <1>2, <1>11 DEF Indexed
    <3>2. PICK c : c = IF q = 0 THEN 1 ELSE q
      OBVIOUS
    <3>3. PICK s : s = Seen(q, p) /\ s \in Nat
      BY <1>2, SeenFacts
    <3>4. (q = 0 => m = 0) /\ Least((p + 1) \div c, m) = m
      <4>1. CASE q = 0
        <5>1. s = 0 /\ m = 0 /\ (p + 1) \div 1 \in Nat
          BY <3>1, <3>3, <4>1 DEF Seen
        <5> QED
          BY <3>2, <4>1, <5>1 DEF Least
      <4>2. CASE q # 0
        <5>1. (p + 1) \div c = s
          BY <3>2, <3>3, <4>2 DEF Seen
        <5> QED
          BY <3>1, <3>3, <4>2, <5>1 DEF Least
      <4> QED
        BY <4>1, <4>2
    <3>5. PICK C : C = 0 .. m - 1 /\ C = 0 .. Least((p + 1) \div c, m) - 1
      BY <3>4
    <3>6. RowsRight(C, q, p, full)
      BY <1>2, <3>1, <3>2, <3>4, <3>5, AllRowsRight
    <3> QED
      BY <3>5, <3>6
  <2> HIDE DEF K2
  <2> QED
    BY <1>3, <2>1, <2>5, <2>6, <2>7
<1>12. DOMAIN K2 = 0 .. 0 /\ \E C : Gives(K2[0], RingWindow(p), C) /\ RowsRight(C, q, p, full)
  BY <1>10, <1>11
<1> HIDE DEF K2
<1>13. ASSUME NEW t \in DOMAIN K2
       PROVE  \E C : Gives(K2[t], RingWindow(p + t), C) /\ RowsRight(C, q, p + t, full)
  <2>1. t = 0 /\ p + t = p
    BY <1>12
  <2> QED
    BY <1>12, <2>1
<1>14. DOMAIN K2 \subseteq 0 .. 1 - 1
  BY <1>12
<1>15. \A t \in DOMAIN HeldAt(K2, p, f) : TokenAttends(HeldAt(K2, p, f)[t], q, full)
  <2>1. PICK n : n = 1 /\ n \in Nat
    OBVIOUS
  <2>2. Fresh(f, p, n) /\ DOMAIN K2 \subseteq 0 .. n - 1 /\ n \in Nat
    BY <1>14, <2>1
  <2> QED
    BY <1>2, <1>13, <2>2, HeldAttends
<1> QED
  BY <1>1, <1>2, <1>15

-----------------------------------------------------------------------------
(* The invariant of a layer's attention. *)

\* Rows whose blocks have ended after p tokens.
Finished(q, p) == IF q = 0 THEN 0 ELSE p \div q

\* A row has ended after p tokens when the last of them may see it.
LEMMA FinishedFacts ==
  ASSUME NEW q \in Nat, NEW p \in Nat
  PROVE  /\ Finished(q, p) \in Nat /\ Seen(q, p) = Finished(q, p + 1)
         /\ \A x \in Nat : p <= x => Finished(q, p) <= Finished(q, x)
<1>1. CASE q = 0
  BY <1>1 DEF Finished, Seen
<1>2. CASE q # 0
  <2>1. q \in Nat \ {0}
    BY <1>2
  <2>2. p \div q \in Nat
    BY <2>1, QuotientFacts
  <2>3. \A x \in Nat : p <= x => p \div q <= x \div q
    BY <2>1, QuotientMonotone
  <2> QED
    BY <1>2, <2>2, <2>3 DEF Finished, Seen
<1> QED
  BY <1>1, <1>2

\* No row is counted whose block has not ended.
CountInv ==
  /\ set \in Settings /\ pos \in 0 .. MaxPos
  /\ nComp \in Nat /\ nComp <= CompCap /\ nComp <= Finished(Ratio, pos)
\* The tape holds the launch of one token, with rows that had ended by then.
TapeInv ==
  /\ tape = [captured |-> tape.captured, used |-> tape.used, launch |-> tape.launch, indexed |-> tape.indexed]
  /\ tape.captured =>
       /\ tape.used \in Nat \ {0} /\ tape.indexed \in BOOLEAN
       /\ \E x, k, start, m, top :
            /\ tape.launch = [n_tokens |-> 1, pos0 |-> x, n_raw |-> k, raw_cap |-> RawCap,
                              raw_start |-> start, n_comp |-> m, window |-> Window,
                              ratio |-> CompRatio, topk |-> top]
            /\ m \in Nat /\ m <= CompCap /\ m <= Seen(Ratio, tape.used)
            /\ tape.indexed <=> Indexed(m)
\* The window before the next token lies in the ring.
RingInv == Fresh(ring, pos, 0)
\* A layer whose next token, however it comes, attends exactly.
AttendInv == CountInv /\ RingInv /\ TapeInv /\ AttendsExactly

\* A new session has an empty ring, no tape and no reads.
LEMMA AttendStarts == LayerInit => AttendInv
<1> SUFFICES ASSUME LayerInit PROVE AttendInv
  OBVIOUS
<1>1. CountInv
  <2>1. Ratio \in Nat /\ 0 \in Nat
    BY RatiosAre DEF LayerInit
  <2>2. Finished(Ratio, 0) \in Nat
    BY <2>1, FinishedFacts
  <2> QED
    BY <2>2, SizeFacts DEF LayerInit, CountInv
<1>2. RingInv
  BY DEF LayerInit, RingInv, Fresh
<1>3. TapeInv
  BY DEF LayerInit, TapeInv, NoTape
<1>4. AttendsExactly
  BY DEF LayerInit, AttendsExactly
<1> QED
  BY <1>1, <1>2, <1>3, <1>4 DEF AttendInv

\* A step that does not touch the tape keeps what it holds.
LEMMA TapeStays == ASSUME TapeInv, set' = set, tape' = tape PROVE TapeInv'
BY DEF TapeInv, CompRatio, Ratio, Indexed

\* Reads that are right for as much as the layer counts are right for the next state.
LEMMA AttendsNext ==
  ASSUME set' = set, NEW full \in BOOLEAN, Counted' /\ TapeCurrent' => full,
         \A t \in DOMAIN reads' : TokenAttends(reads'[t], Ratio, full)
  PROVE  AttendsExactly'
<1>1. Ratio' = Ratio
  BY DEF Ratio
<1>2. AttendsExactly' <=> \A t \in DOMAIN reads' : TokenAttends(reads'[t], Ratio', Counted' /\ TapeCurrent')
  BY DEF AttendsExactly, TokenAttends
<1>3. ASSUME NEW r, TokenAttends(r, Ratio, full) PROVE TokenAttends(r, Ratio', Counted' /\ TapeCurrent')
  BY <1>1, <1>3 DEF TokenAttends
<1> QED
  BY <1>2, <1>3

\* A counter that is the position's counts all any token before it may see.
LEMMA CountedSees ==
  ASSUME set \in Settings, set' = set, Counted', NEW p \in Nat, pos' \in Nat, p < pos'
  PROVE  Seen(Ratio, p) <= nComp' \/ Ratio = 0
<1>1. PICK q, e : q = Ratio /\ q \in Nat /\ Ratio' = q /\ e = pos' /\ e \in Nat /\ p + 1 <= e /\ p + 1 \in Nat
  BY RatiosAre DEF Ratio
<1>2. q = 0 \/ nComp' = e \div q
  BY <1>1 DEF Counted
<1>3. Seen(q, p) = Finished(q, p + 1)
  BY <1>1, FinishedFacts
<1>4. PICK x : x = p + 1 /\ x \in Nat /\ x <= e
  BY <1>1
<1>5. Finished(q, x) <= Finished(q, e)
  BY <1>1, <1>4, FinishedFacts
<1> QED
  BY <1>1, <1>2, <1>3, <1>4, <1>5 DEF Finished

\* The rows a batch leaves.
LEMMA ChunkCount ==
  ASSUME CountInv, NEW p, p = pos, p # 0, NEW n \in Nat \ {0}
  PROVE  /\ ChunkComp(comp, nComp, pos, n).n = nComp + (Finished(Ratio, p + n) - Finished(Ratio, p))
         /\ Finished(Ratio, p) <= Finished(Ratio, p + n) /\ Finished(Ratio, p + n) \in Nat
         /\ Finished(Ratio, p) \in Nat
<1>1. PICK q, e : q = Ratio /\ q \in Nat /\ e = p + n /\ e \in Nat /\ p <= e /\ p \in Nat \ {0} /\ nComp \in Nat
  BY RatiosAre, SizeFacts DEF CountInv
<1>2. Finished(q, p) <= Finished(q, e) /\ Finished(q, e) \in Nat /\ Finished(q, p) \in Nat
  BY <1>1, FinishedFacts
<1>3. CASE q = 0
  <2>1. ChunkComp(comp, nComp, pos, n).n = 0 /\ nComp = 0 /\ Finished(q, p) = 0 /\ Finished(q, e) = 0
    BY <1>1, <1>3 DEF ChunkComp, CountInv, Finished
  <2> QED
    BY <1>1, <1>2, <2>1
<1>4. CASE q # 0
  <2>1. BatchKeeps(ChunkComp(comp, nComp, pos, n), Ratio, cold, comp, nComp, pos, n)
    BY <1>1, <1>4, ChunkKeeps
  <2>2. Finished(q, p) = p \div q /\ Finished(q, e) = e \div q
    BY <1>4 DEF Finished
  <2> QED
    BY <1>1, <1>2, <2>1, <2>2 DEF BatchKeeps
<1> QED
  BY <1>3, <1>4

\* gpu_graph_prefill_chunked_range
LEMMA ChunkAttendInv ==
  ASSUME AttendInv, SizesFit, NEW n \in 1 .. PrefillCap, Chunk(n)
  PROVE  AttendInv'
<1>1. PICK p, q, e : /\ p = pos /\ p \in Nat \ {0} /\ q = Ratio /\ q \in Nat /\ e = p + n /\ e \in Nat
                     /\ e <= MaxPos /\ n \in Nat \ {0} /\ pos' = e
  BY RatiosAre, SizeFacts DEF AttendInv, CountInv, Chunk
<1>2. PICK m : m = ChunkComp(comp, nComp, pos, n).n /\ m <= CompCap /\ nComp' = m
  BY DEF Chunk
<1>3. /\ set \in Settings /\ set' = set /\ tape' = tape /\ Ratio' = q
      /\ ring' = StoreRaw(ring, pos, n) /\ reads' = ChunkReads(pos, n, m, ring')
  BY <1>1, <1>2 DEF AttendInv, CountInv, Chunk, Ratio
<1>4. nComp \in Nat /\ nComp <= Finished(q, p)
  BY <1>1 DEF AttendInv, CountInv
<1>5. m \in Nat /\ m <= Finished(q, e)
  <2>1. /\ m = nComp + (Finished(q, e) - Finished(q, p))
        /\ Finished(q, p) <= Finished(q, e) /\ Finished(q, e) \in Nat /\ Finished(q, p) \in Nat
    BY <1>1, <1>2, ChunkCount DEF AttendInv
  <2> QED
    BY <1>4, <2>1
<1>6. CountInv'
  BY <1>1, <1>2, <1>3, <1>5 DEF CountInv, Ratio
<1>7. n + Window <= RawCap /\ e <= Word
  BY <1>1, SizeFacts DEF SizesFit
<1>8. Fresh(ring', p, n)
  BY <1>1, <1>3, <1>7, StoreRawFresh DEF AttendInv, RingInv
<1>9. RingInv'
  <2>1. n \in 0 .. n
    BY <1>1
  <2>2. Fresh(ring', p + n, 0)
    BY <1>1, <1>8, <2>1, FreshStays
  <2> QED
    BY <1>1, <2>2 DEF RingInv
<1>10. TapeInv'
  BY <1>3, TapeStays DEF AttendInv
<1>11. AttendsExactly'
  <2>1. PICK full \in BOOLEAN : full <=> Counted'
    OBVIOUS
  <2>2. full => \A t \in 0 .. n - 1 : Seen(Ratio, p + t) <= m
    <3> SUFFICES ASSUME full, NEW t \in 0 .. n - 1 PROVE Seen(Ratio, p + t) <= m
      OBVIOUS
    <3>1. PICK x : x = p + t /\ x \in Nat /\ x < pos' /\ pos' \in Nat
      BY <1>1
    <3>2. Seen(Ratio, x) <= nComp' \/ Ratio = 0
      BY <1>3, <2>1, <3>1, CountedSees
    <3> QED
      BY <1>2, <1>5, <3>1, <3>2 DEF Seen
  <2>3. Ratio = 0 => m = 0
    BY <1>1, <1>5 DEF Finished
  <2>4. \A t \in DOMAIN ChunkReads(p, n, m, ring') : TokenAttends(ChunkReads(p, n, m, ring')[t], Ratio, full)
    <3>1. PICK f : f = ring' /\ Fresh(f, p, n)
      BY <1>8
    <3>2. p \in Nat /\ n \in Nat \ {0} /\ p + n <= Word /\ n + Window <= RawCap
      BY <1>1, <1>7
    <3>3. \A t \in DOMAIN ChunkReads(p, n, m, f) : TokenAttends(ChunkReads(p, n, m, f)[t], Ratio, full)
      BY <1>3, <1>5, <2>2, <2>3, <3>1, <3>2, ChunkAttends
    <3> QED
      BY <3>1, <3>3
  <2> QED
    BY <1>1, <1>3, <2>1, <2>4, AttendsNext
<1> QED
  BY <1>6, <1>9, <1>10, <1>11 DEF AttendInv

\* A verifier batch of which a part is kept.
LEMMA VerifyAttendInv ==
  ASSUME AttendInv, SizesFit, NEW accepted \in 0 .. 2, Verify(accepted)
  PROVE  AttendInv'
<1>1. PICK p, q, e : /\ p = pos /\ p \in Nat \ {0} /\ q = Ratio /\ q \in Nat /\ e = p + 2 /\ e \in Nat
                     /\ e <= MaxPos /\ pos' = p + accepted /\ pos' \in Nat /\ pos' <= e
  BY RatiosAre, SizeFacts DEF AttendInv, CountInv, Verify
<1> DEFINE both == ChunkComp(comp, nComp, pos, 2)
           one == ChunkComp(comp, nComp, pos, 1)
<1>2. PICK m, m1 : m = both.n /\ m1 = one.n
  OBVIOUS
<1>3. /\ m <= CompCap
      /\ nComp' = IF accepted = 2 THEN m ELSE IF accepted = 1 THEN m1 ELSE nComp
  BY <1>2 DEF Verify, CommitPrefix1
<1> HIDE DEF both, one
<1>4. /\ set \in Settings /\ set' = set /\ tape' = tape /\ Ratio' = q
      /\ ring' = StoreRaw(ring, pos, 2) /\ reads' = ChunkReads(pos, 2, m, ring')
  BY <1>1, <1>2 DEF AttendInv, CountInv, Verify, Ratio, both
<1>5. PICK a, b, c : a = Finished(q, p) /\ b = Finished(q, p + 1) /\ c = Finished(q, e)
  OBVIOUS
<1>6. a \in Nat /\ b \in Nat /\ c \in Nat /\ a <= b /\ b <= c
  <2>1. PICK x : x = p + 1 /\ x \in Nat /\ p <= x /\ x <= e
    BY <1>1
  <2> QED
    BY <1>1, <1>5, <2>1, FinishedFacts
<1>7. nComp \in Nat /\ nComp <= a /\ nComp <= CompCap
  BY <1>1, <1>5 DEF AttendInv, CountInv
<1>8. m = nComp + (c - a) /\ m1 = nComp + (b - a)
  <2>1. 2 \in Nat \ {0} /\ 1 \in Nat \ {0}
    OBVIOUS
  <2>2. both.n = nComp + (Finished(Ratio, p + 2) - Finished(Ratio, p))
    BY <1>1, <2>1, ChunkCount DEF AttendInv, both
  <2>3. one.n = nComp + (Finished(Ratio, p + 1) - Finished(Ratio, p))
    BY <1>1, <2>1, ChunkCount DEF AttendInv, one
  <2> QED
    BY <1>1, <1>2, <1>5, <2>2, <2>3
<1>9. m \in Nat /\ m <= c /\ nComp' \in Nat /\ nComp' <= CompCap
  <2>1. PICK k : k = nComp
    OBVIOUS
  <2>2. m \in Nat /\ m1 \in Nat /\ m1 <= m /\ m <= c
    BY <1>6, <1>7, <1>8, <2>1
  <2> QED
    BY <1>3, <1>7, <2>2, SizeFacts
<1>10. PICK d : d = Finished(q, pos') /\ d = IF accepted = 2 THEN c ELSE IF accepted = 1 THEN b ELSE a
  <2>1. accepted \in {0, 1, 2}
    OBVIOUS
  <2>2. p + 0 = p
    BY <1>1
  <2> QED
    BY <1>1, <1>5, <2>1, <2>2
<1>11. nComp' <= d /\ (nComp' = d => m = c)
  <2>1. PICK k : k = nComp /\ k \in Nat /\ k <= a /\ m = k + (c - a) /\ m1 = k + (b - a)
    BY <1>7, <1>8
  <2>2. (k <= a) /\ (k = a => m = c) /\ (m1 <= b) /\ (m1 = b => m = c) /\ m <= c
    BY <1>6, <2>1
  <2>3. CASE accepted = 2
    BY <1>3, <1>10, <2>2, <2>3
  <2>4. CASE accepted = 1
    BY <1>3, <1>10, <2>2, <2>4
  <2>5. CASE accepted = 0
    BY <1>3, <1>10, <2>1, <2>2, <2>5
  <2>6. accepted \in {0, 1, 2}
    OBVIOUS
  <2> QED
    BY <2>3, <2>4, <2>5, <2>6
<1>12. CountInv'
  BY <1>1, <1>4, <1>9, <1>10, <1>11, SizeFacts DEF CountInv, Ratio
<1>13. 2 + Window <= RawCap /\ e <= Word /\ 2 \in Nat \ {0}
  <2>1. PrefillCap # 1
    <3> SUFFICES ASSUME PrefillCap = 1 PROVE FALSE
      OBVIOUS
    <3>1. p % PrefillCap \in 0 .. PrefillCap - 1
      BY <1>1, SizeFacts, RemainderFacts
    <3> QED
      BY <1>1, <3>1 DEF Verify
  <2> QED
    BY <1>1, <2>1, SizeFacts DEF SizesFit
<1>14. Fresh(ring', p, 2)
  BY <1>1, <1>4, <1>13, StoreRawFresh DEF AttendInv, RingInv
<1>15. RingInv'
  <2>1. Fresh(ring', p + accepted, 0)
    BY <1>1, <1>13, <1>14, FreshStays
  <2> QED
    BY <1>1, <2>1 DEF RingInv
<1>16. TapeInv'
  BY <1>4, TapeStays DEF AttendInv
<1>17. AttendsExactly'
  <2>1. PICK full \in BOOLEAN : full <=> Counted'
    OBVIOUS
  <2>2. full => \A t \in 0 .. 2 - 1 : Seen(Ratio, p + t) <= m
    <3> SUFFICES ASSUME full, NEW t \in 0 .. 2 - 1 PROVE Seen(Ratio, p + t) <= m
      OBVIOUS
    <3>1. PICK x : x = p + t /\ x \in Nat /\ x + 1 <= e /\ x + 1 \in Nat
      BY <1>1
    <3>2. CASE q = 0
      BY <1>1, <1>9, <3>2 DEF Seen
    <3>3. CASE q # 0
      <4>1. nComp' = d
        BY <1>4, <1>10, <2>1, <3>3 DEF Counted, Finished
      <4>2. PICK y : y = x + 1 /\ y \in Nat /\ y <= e
        BY <3>1
      <4>3. Seen(q, x) = Finished(q, y) /\ Finished(q, y) <= c
        BY <1>1, <1>5, <3>1, <4>2, FinishedFacts
      <4> QED
        BY <1>1, <1>11, <3>1, <4>1, <4>3
    <3> QED
      BY <3>2, <3>3
  <2>3. Ratio = 0 => m = 0
    BY <1>1, <1>5, <1>9 DEF Finished
  <2>4. \A t \in DOMAIN ChunkReads(p, 2, m, ring') : TokenAttends(ChunkReads(p, 2, m, ring')[t], Ratio, full)
    <3>1. PICK f, n : f = ring' /\ n = 2
      OBVIOUS
    <3>2. /\ Fresh(f, p, n) /\ p \in Nat /\ n \in Nat \ {0} /\ p + n <= Word /\ n + Window <= RawCap
          /\ full => \A t \in 0 .. n - 1 : Seen(Ratio, p + t) <= m
      BY <1>1, <1>13, <1>14, <2>2, <3>1
    <3>3. \A t \in DOMAIN ChunkReads(p, n, m, f) : TokenAttends(ChunkReads(p, n, m, f)[t], Ratio, full)
      BY <1>4, <1>9, <2>3, <3>2, ChunkAttends
    <3> QED
      BY <3>1, <3>3
  <2> QED
    BY <1>1, <1>4, <2>1, <2>4, AttendsNext
<1> QED
  BY <1>12, <1>15, <1>16, <1>17 DEF AttendInv

\* The first batch of a prompt.
LEMMA PrefillAttendInv ==
  ASSUME AttendInv, SizesFit, NEW n \in 1 .. PrefillCap, Prefill(n)
  PROVE  AttendInv'
<1>1. PICK q, m : /\ q = Ratio /\ q \in Nat /\ m = Finished(q, n) /\ n \in Nat \ {0} /\ n <= MaxPos
                  /\ pos' = n /\ nComp' = m /\ m <= CompCap
  BY RatiosAre, SizeFacts DEF AttendInv, CountInv, Prefill, Finished
<1>2. /\ set \in Settings /\ set' = set /\ tape' = tape /\ Ratio' = q
      /\ ring' = StoreRaw([s \in 0 .. RawCap - 1 |-> None], 0, n) /\ reads' = PrefillReads(n, m)
  BY <1>1 DEF AttendInv, CountInv, Prefill, Ratio, Finished
<1>3. m \in Nat
  BY <1>1, FinishedFacts
<1>4. CountInv'
  BY <1>1, <1>2, <1>3 DEF CountInv, Ratio
<1>5. n + Window <= RawCap /\ n <= Word
  BY <1>1, SizeFacts DEF SizesFit
<1>6. RingInv'
  <2>1. PICK none, z : none = [s \in 0 .. RawCap - 1 |-> None] /\ z = 0 /\ z \in Nat
    OBVIOUS
  <2>2. Fresh(none, z, 0)
    BY <2>1 DEF Fresh
  <2>3. Fresh(StoreRaw(none, z, n), z, n)
    BY <1>1, <1>5, <2>1, <2>2, StoreRawFresh
  <2>4. n \in 0 .. n
    BY <1>1
  <2>5. Fresh(StoreRaw(none, z, n), z + n, 0)
    BY <1>1, <2>1, <2>3, <2>4, FreshStays
  <2>6. z + n = n
    BY <1>1, <2>1
  <2> QED
    BY <1>1, <1>2, <2>1, <2>5, <2>6 DEF RingInv
<1>7. TapeInv'
  BY <1>2, TapeStays DEF AttendInv
<1>8. AttendsExactly'
  <2>1. PICK full \in BOOLEAN : full <=> Counted'
    OBVIOUS
  <2>2. \A t \in 0 .. n - 1 : Seen(Ratio, t) <= m
    <3> TAKE t \in 0 .. n - 1
    <3>1. PICK y : y = t + 1 /\ y \in Nat /\ y <= n /\ t \in Nat
      BY <1>1
    <3> QED
      BY <1>1, <3>1, FinishedFacts
  <2>3. Ratio = 0 => m = 0
    BY <1>1 DEF Finished
  <2>4. \A t \in DOMAIN PrefillReads(n, m) : TokenAttends(PrefillReads(n, m)[t], Ratio, full)
    BY <1>1, <1>2, <1>3, <1>5, <2>2, <2>3, PrefillAttends
  <2> QED
    BY <1>2, <2>1, <2>4, AttendsNext
<1> QED
  BY <1>4, <1>6, <1>7, <1>8 DEF AttendInv

\* A decode step leaves the counter; the ring takes one token.
LEMMA OneToken ==
  ASSUME AttendInv, SizesFit, NEW p, p = pos, p # 0, pos < MaxPos, pos' = pos + 1, set' = set,
         nComp' = nComp, ring' = StoreRaw(ring, pos, 1)
  PROVE  /\ CountInv' /\ RingInv' /\ Fresh(ring', p, 1)
         /\ p \in Nat \ {0} /\ p + 1 <= Word /\ set \in Settings
         /\ nComp \in Nat /\ nComp <= CompCap /\ nComp <= Seen(Ratio, p)
         /\ Counted' => Seen(Ratio, p) <= nComp
<1>1. PICK q, e : /\ q = Ratio /\ q \in Nat /\ Ratio' = q /\ e = p + 1 /\ e \in Nat /\ p \in Nat \ {0}
                  /\ e <= MaxPos /\ pos' = e /\ p <= e /\ p < e
  BY RatiosAre, SizeFacts DEF AttendInv, CountInv, Ratio
<1>2. set \in Settings /\ nComp \in Nat /\ nComp <= CompCap /\ nComp <= Finished(q, p)
  BY <1>1 DEF AttendInv, CountInv
<1>3. /\ Finished(q, p) <= Finished(q, e) /\ Seen(q, p) = Finished(q, e)
      /\ Finished(q, e) \in Nat /\ Finished(q, p) \in Nat
  BY <1>1, FinishedFacts
<1>4. nComp <= Finished(q, e)
  BY <1>2, <1>3
<1>5. CountInv'
  BY <1>1, <1>2, <1>4 DEF CountInv, Ratio
<1>6. PICK n : n = 1 /\ n \in Nat /\ n \in 0 .. n
  OBVIOUS
<1>7. n + Window <= RawCap
  BY <1>6, SizeFacts
<1>8. Fresh(ring', p, n)
  BY <1>1, <1>6, <1>7, StoreRawFresh DEF AttendInv, RingInv
<1>9. Fresh(ring', p + n, 0)
  BY <1>1, <1>6, <1>8, FreshStays
<1>10. RingInv'
  BY <1>1, <1>6, <1>9 DEF RingInv
<1>11. Counted' => Seen(q, p) <= nComp
  <2> SUFFICES ASSUME Counted' PROVE Seen(q, p) <= nComp
    OBVIOUS
  <2>1. Seen(Ratio, p) <= nComp' \/ Ratio = 0
    BY <1>1, <1>2, CountedSees
  <2> QED
    BY <1>1, <1>2, <2>1 DEF Seen
<1> QED
  BY <1>1, <1>2, <1>3, <1>4, <1>5, <1>6, <1>8, <1>10, <1>11, SizeFacts DEF SizesFit

\* The launch of a decode step.
LEMMA DecodeLaunchIs ==
  ASSUME NEW p \in Nat
  PROVE  \E top : /\ DecodeLaunch(p) =
                       [n_tokens |-> 1, pos0 |-> p, n_raw |-> RawSpan(p, 1), raw_cap |-> RawCap,
                        raw_start |-> RawStart(p, RawSpan(p, 1)), n_comp |-> nComp, window |-> Window,
                        ratio |-> CompRatio, topk |-> top]
                  /\ top = DecodeLaunch(p).topk
                  /\ top[0] = Selection(nComp, Least((p + 1) \div CompRatio, nComp), TopK)
<1> DEFINE top == [t \in 0 .. 1 - 1 |-> Selection(nComp, Least((p + t + 1) \div CompRatio, nComp), TopK)]
<1>1. DecodeLaunch(p) =
        [n_tokens |-> 1, pos0 |-> p, n_raw |-> RawSpan(p, 1), raw_cap |-> RawCap,
         raw_start |-> RawStart(p, RawSpan(p, 1)), n_comp |-> nComp, window |-> Window,
         ratio |-> CompRatio, topk |-> top]
  BY DEF DecodeLaunch, Launch
<1>2. top[0] = Selection(nComp, Least((p + 1) \div CompRatio, nComp), TopK)
  <2>1. 0 \in 0 .. 1 - 1 /\ p + 0 + 1 = p + 1
    OBVIOUS
  <2> QED
    BY <2>1
<1> HIDE DEF top
<1> QED
  BY <1>1, <1>2

\* A token whose launch is its own.
LEMMA FreshLaunchAttends ==
  ASSUME SizesFit, set \in Settings, NEW p \in Nat, p + 1 <= Word, NEW f, Fresh(f, p, 1),
         nComp \in Nat, nComp <= CompCap, nComp <= Seen(Ratio, p),
         NEW full \in BOOLEAN, full => Seen(Ratio, p) <= nComp
  PROVE  \A t \in DOMAIN DecodeReads(DecodeLaunch(p), Indexed(nComp), p, f) :
           TokenAttends(DecodeReads(DecodeLaunch(p), Indexed(nComp), p, f)[t], Ratio, full)
<1>1. PICK a, k, top : /\ a = DecodeLaunch(p) /\ k = RawSpan(p, 1)
                       /\ a = [n_tokens |-> 1, pos0 |-> p, n_raw |-> k, raw_cap |-> RawCap,
                               raw_start |-> RawStart(p, k), n_comp |-> nComp, window |-> Window,
                               ratio |-> CompRatio, topk |-> top]
                       /\ top[0] = Selection(nComp, Least((p + 1) \div CompRatio, nComp), TopK)
  BY DecodeLaunchIs
<1>2. PICK indexed \in BOOLEAN : indexed <=> Indexed(nComp)
  OBVIOUS
<1>3. indexed => \E n \in Nat : top[0] = Selection(n, Least((p + 1) \div 4, n), TopK) /\ (full => n = nComp)
  <2> SUFFICES ASSUME indexed PROVE top[0] = Selection(nComp, Least((p + 1) \div 4, nComp), TopK)
    BY <1>2
  <2>1. CompRatio = 4
    BY <1>2 DEF Indexed, CompRatio
  <2> QED
    BY <1>1, <2>1
<1>4. \A t \in DOMAIN DecodeReads(a, indexed, p, f) : TokenAttends(DecodeReads(a, indexed, p, f)[t], Ratio, full)
  BY <1>1, <1>2, <1>3, DecodeAttends
<1>5. DecodeReads(DecodeLaunch(p), Indexed(nComp), p, f) = DecodeReads(a, indexed, p, f)
  BY <1>1, <1>2 DEF DecodeReads
<1> QED
  BY <1>4, <1>5

\* gpu_graph_eval_token_raw_swa with manual dispatch
LEMMA DecodeAttendInv ==
  ASSUME AttendInv, SizesFit, Decode
  PROVE  AttendInv'
<1>1. /\ pos # 0 /\ pos < MaxPos /\ pos' = pos + 1 /\ set' = set /\ nComp' = nComp /\ tape' = tape
      /\ ring' = StoreRaw(ring, pos, 1)
      /\ reads' = DecodeReads(DecodeLaunch(pos), Indexed(nComp), pos, ring')
  BY SizeFacts DEF Decode, AttendInv, CountInv
<1>2. PICK p, f : p = pos /\ f = ring'
  OBVIOUS
<1>3. /\ CountInv' /\ RingInv' /\ Fresh(f, p, 1)
      /\ p \in Nat \ {0} /\ p + 1 <= Word /\ set \in Settings
      /\ nComp \in Nat /\ nComp <= CompCap /\ nComp <= Seen(Ratio, p)
      /\ Counted' => Seen(Ratio, p) <= nComp
  BY <1>1, <1>2, OneToken
<1>4. TapeInv'
  BY <1>1, TapeStays DEF AttendInv
<1>5. PICK full \in BOOLEAN : full <=> Counted'
  OBVIOUS
<1>6. \A t \in DOMAIN DecodeReads(DecodeLaunch(p), Indexed(nComp), p, f) :
        TokenAttends(DecodeReads(DecodeLaunch(p), Indexed(nComp), p, f)[t], Ratio, full)
  BY <1>3, <1>5, FreshLaunchAttends
<1>7. AttendsExactly'
  BY <1>1, <1>2, <1>5, <1>6, AttendsNext
<1> QED
  BY <1>3, <1>4, <1>7 DEF AttendInv

\* What a replay launches: the captured rows with the token's own window.
LEMMA ReplayIs ==
  ASSUME NEW p \in Nat, NEW x, NEW k0, NEW start, NEW m, NEW top0, NEW top, NEW now, NEW k,
         tape.launch = [n_tokens |-> 1, pos0 |-> x, n_raw |-> k0, raw_cap |-> RawCap, raw_start |-> start,
                        n_comp |-> m, window |-> Window, ratio |-> CompRatio, topk |-> top0],
         now = DecodeLaunch(p), k = RawSpan(p, 1),
         now = [n_tokens |-> 1, pos0 |-> p, n_raw |-> k, raw_cap |-> RawCap,
                raw_start |-> RawStart(p, k), n_comp |-> nComp, window |-> Window,
                ratio |-> CompRatio, topk |-> top],
         tape.indexed \in BOOLEAN, tape.indexed => Packed
  PROVE  Replay(p) = [n_tokens |-> 1, pos0 |-> IF tape.indexed THEN p ELSE x, n_raw |-> k, raw_cap |-> RawCap,
                      raw_start |-> RawStart(p, k), n_comp |-> m, window |-> Window,
                      ratio |-> CompRatio, topk |-> top]
<1>1. PICK old, spanned : /\ old = [tape.launch EXCEPT !.topk = now.topk]
                          /\ spanned = [old EXCEPT !.n_raw = now.n_raw, !.raw_start = now.raw_start]
  OBVIOUS
<1>2. Replay(p) = IF ~tape.indexed THEN spanned ELSE [spanned EXCEPT !.pos0 = p]
  BY <1>1 DEF Replay
<1>3. now.topk = top /\ now.n_raw = k /\ now.raw_start = RawStart(p, k)
  OBVIOUS
<1>4. old = [n_tokens |-> 1, pos0 |-> x, n_raw |-> k0, raw_cap |-> RawCap, raw_start |-> start,
             n_comp |-> m, window |-> Window, ratio |-> CompRatio, topk |-> top]
  BY <1>1, <1>3
<1>5. spanned = [n_tokens |-> 1, pos0 |-> x, n_raw |-> k, raw_cap |-> RawCap,
                 raw_start |-> RawStart(p, k), n_comp |-> m, window |-> Window,
                 ratio |-> CompRatio, topk |-> top]
  <2>1. PICK r, c : r = RawStart(p, k) /\ c = CompRatio
    OBVIOUS
  <2>2. spanned = [old EXCEPT !.n_raw = k, !.raw_start = r]
    BY <1>1, <1>3, <2>1
  <2>3. old = [n_tokens |-> 1, pos0 |-> x, n_raw |-> k0, raw_cap |-> RawCap, raw_start |-> start,
               n_comp |-> m, window |-> Window, ratio |-> c, topk |-> top]
    BY <1>4, <2>1
  <2>4. ASSUME NEW o, NEW w, w = [o EXCEPT !.n_raw = k, !.raw_start = r],
               o = [n_tokens |-> 1, pos0 |-> x, n_raw |-> k0, raw_cap |-> RawCap, raw_start |-> start,
                    n_comp |-> m, window |-> Window, ratio |-> c, topk |-> top]
        PROVE  w = [n_tokens |-> 1, pos0 |-> x, n_raw |-> k, raw_cap |-> RawCap, raw_start |-> r,
                    n_comp |-> m, window |-> Window, ratio |-> c, topk |-> top]
    BY <2>4
  <2> QED
    BY <2>1, <2>2, <2>3, <2>4
<1>6. [spanned EXCEPT !.pos0 = p] =
        [n_tokens |-> 1, pos0 |-> p, n_raw |-> k, raw_cap |-> RawCap,
         raw_start |-> RawStart(p, k), n_comp |-> m, window |-> Window, ratio |-> CompRatio, topk |-> top]
  BY <1>5
<1> QED
  BY <1>2, <1>5, <1>6

\* A replayed token, with the rows of the capture.
LEMMA ReplayAttends ==
  ASSUME TapeInv, SizesFit, TapesPacked, set \in Settings, set.graph, NEW p \in Nat, p + 1 <= Word,
         NEW f, Fresh(f, p, 1), tape.captured, p = tape.used + 1, nComp \in Nat,
         NEW full \in BOOLEAN, full => tape.launch.n_comp = nComp /\ Seen(Ratio, p) <= nComp
  PROVE  \A t \in DOMAIN DecodeReads(Replay(p), tape.indexed, p, f) :
           TokenAttends(DecodeReads(Replay(p), tape.indexed, p, f)[t], Ratio, full)
<1>1. PICK x, k0, start, m, top0 :
        /\ tape.launch = [n_tokens |-> 1, pos0 |-> x, n_raw |-> k0, raw_cap |-> RawCap,
                          raw_start |-> start, n_comp |-> m, window |-> Window,
                          ratio |-> CompRatio, topk |-> top0]
        /\ m \in Nat /\ m <= CompCap /\ m <= Seen(Ratio, tape.used)
        /\ tape.indexed <=> Indexed(m)
  BY DEF TapeInv
<1>2. PICK u : u = tape.used /\ u \in Nat /\ u <= p /\ tape.indexed \in BOOLEAN
  BY DEF TapeInv
<1>3. m <= Seen(Ratio, p)
  <2>1. PICK q : q = Ratio /\ q \in Nat
    BY RatiosAre
  <2>2. Seen(q, u) <= Seen(q, p) /\ Seen(q, u) \in Nat /\ Seen(q, p) \in Nat
    BY <1>2, <2>1, SeenFacts
  <2> QED
    BY <1>1, <1>2, <2>1, <2>2
<1>4. tape.indexed => Packed
  BY <1>1 DEF TapesPacked, Indexed, Packed, Ratio
<1>5. PICK now, k, top :
        /\ now = DecodeLaunch(p) /\ k = RawSpan(p, 1)
        /\ now = [n_tokens |-> 1, pos0 |-> p, n_raw |-> k, raw_cap |-> RawCap,
                  raw_start |-> RawStart(p, k), n_comp |-> nComp, window |-> Window,
                  ratio |-> CompRatio, topk |-> top]
        /\ top[0] = Selection(nComp, Least((p + 1) \div CompRatio, nComp), TopK)
  BY DecodeLaunchIs
<1>6. PICK a, y, indexed : a = Replay(p) /\ y = (IF tape.indexed THEN p ELSE x) /\ indexed = tape.indexed
  OBVIOUS
<1>7. a = [n_tokens |-> 1, pos0 |-> y, n_raw |-> k, raw_cap |-> RawCap, raw_start |-> RawStart(p, k),
           n_comp |-> m, window |-> Window, ratio |-> CompRatio, topk |-> top]
  BY <1>1, <1>2, <1>4, <1>5, <1>6, ReplayIs
<1>8. full => m = nComp /\ Seen(Ratio, p) <= m
  <2>1. tape.launch.n_comp = m
    BY <1>1
  <2> QED
    BY <2>1
<1>9. indexed \in BOOLEAN /\ (indexed <=> Indexed(m))
  BY <1>1, <1>2, <1>6
<1>10. indexed => y = p /\ \E n \in Nat : top[0] = Selection(n, Least((p + 1) \div 4, n), TopK) /\ (full => n = m)
  <2> SUFFICES ASSUME indexed PROVE y = p /\ top[0] = Selection(nComp, Least((p + 1) \div 4, nComp), TopK)
    BY <1>8
  <2>1. CompRatio = 4
    BY <1>9 DEF Indexed, CompRatio
  <2> QED
    BY <1>5, <1>6, <2>1
<1>11. \A t \in DOMAIN DecodeReads(a, indexed, p, f) : TokenAttends(DecodeReads(a, indexed, p, f)[t], Ratio, full)
  BY <1>1, <1>3, <1>5, <1>7, <1>8, <1>9, <1>10, DecodeAttends
<1> QED
  BY <1>6, <1>11

\* gpu_graph_eval_token_raw_swa with a decode graph
LEMMA GraphDecodeAttendInv ==
  ASSUME AttendInv, SizesFit, TapesPacked, GraphDecode
  PROVE  AttendInv'
<1>1. /\ set.graph /\ pos # 0 /\ pos < MaxPos /\ pos' = pos + 1 /\ set' = set /\ nComp' = nComp
      /\ ring' = StoreRaw(ring, pos, 1)
  BY SizeFacts DEF GraphDecode, AttendInv, CountInv
<1>2. PICK p, f : p = pos /\ f = ring'
  OBVIOUS
<1>3. /\ CountInv' /\ RingInv' /\ Fresh(f, p, 1)
      /\ p \in Nat \ {0} /\ p + 1 <= Word /\ set \in Settings
      /\ nComp \in Nat /\ nComp <= CompCap /\ nComp <= Seen(Ratio, p)
      /\ Counted' => Seen(Ratio, p) <= nComp
  BY <1>1, <1>2, OneToken
<1>4. Ratio' = Ratio /\ CompRatio' = CompRatio /\ \A m : Indexed(m)' <=> Indexed(m)
  BY <1>1 DEF Ratio, CompRatio, Indexed
<1>5. CASE TapeServes
  <2>1. /\ tape.captured /\ tape' = [tape EXCEPT !.used = pos]
        /\ reads' = DecodeReads(Replay(pos), tape.indexed, pos, ring')
    BY <1>5 DEF GraphDecode, TapeServes
  <2>2. tape.used \in Nat \ {0} /\ p = tape.used + 1
    BY <1>2, <1>5, <2>1 DEF TapeServes, AttendInv, TapeInv
  <2>3. /\ tape'.captured = tape.captured /\ tape'.used = p /\ tape'.launch = tape.launch
        /\ tape'.indexed = tape.indexed
        /\ tape' = [captured |-> tape'.captured, used |-> tape'.used, launch |-> tape'.launch,
                    indexed |-> tape'.indexed]
    BY <1>2, <2>1 DEF AttendInv, TapeInv
  <2>4. TapeInv'
    <3>1. PICK x, k, start, m, top :
            /\ tape.launch = [n_tokens |-> 1, pos0 |-> x, n_raw |-> k, raw_cap |-> RawCap,
                              raw_start |-> start, n_comp |-> m, window |-> Window,
                              ratio |-> CompRatio, topk |-> top]
            /\ m \in Nat /\ m <= CompCap /\ m <= Seen(Ratio, tape.used)
            /\ tape.indexed <=> Indexed(m)
      BY <2>1 DEF AttendInv, TapeInv
    <3>2. m <= Seen(Ratio, p)
      <4>1. PICK q, u : q = Ratio /\ q \in Nat /\ u = tape.used /\ u \in Nat /\ u <= p /\ p \in Nat
        BY <1>3, <2>2, RatiosAre
      <4>2. Seen(q, u) <= Seen(q, p) /\ Seen(q, u) \in Nat /\ Seen(q, p) \in Nat
        BY <4>1, SeenFacts
      <4> QED
        BY <3>1, <4>1, <4>2
    <3>3. tape'.launch = [n_tokens |-> 1, pos0 |-> x, n_raw |-> k, raw_cap |-> RawCap,
                          raw_start |-> start, n_comp |-> m, window |-> Window,
                          ratio |-> CompRatio', topk |-> top]
      BY <1>4, <2>3, <3>1
    <3>4. tape'.indexed \in BOOLEAN /\ tape'.used \in Nat \ {0}
      BY <1>3, <2>1, <2>3 DEF AttendInv, TapeInv
    <3>5. m <= Seen(Ratio', tape'.used) /\ (tape'.indexed <=> Indexed(m)')
      BY <1>4, <2>3, <3>1, <3>2
    <3> QED
      BY <2>3, <3>1, <3>3, <3>4, <3>5 DEF TapeInv
  <2>5. Counted' /\ TapeCurrent' => tape.launch.n_comp = nComp
    <3>1. set'.graph /\ tape'.captured /\ tape'.used = pos' - 1
      BY <1>1, <1>2, <1>3, <2>1, <2>3
    <3> QED
      BY <1>1, <2>3, <3>1 DEF TapeCurrent
  <2>6. PICK full \in BOOLEAN : full <=> Counted' /\ TapeCurrent'
    OBVIOUS
  <2>7. \A t \in DOMAIN DecodeReads(Replay(p), tape.indexed, p, f) :
          TokenAttends(DecodeReads(Replay(p), tape.indexed, p, f)[t], Ratio, full)
    BY <1>1, <1>3, <2>1, <2>2, <2>5, <2>6, ReplayAttends DEF AttendInv
  <2>8. AttendsExactly'
    BY <1>1, <1>2, <2>1, <2>6, <2>7, AttendsNext
  <2> QED
    BY <1>3, <2>4, <2>8 DEF AttendInv
<1>6. CASE ~TapeServes
  <2>1. /\ reads' = DecodeReads(DecodeLaunch(pos), Indexed(nComp), pos, ring')
        /\ tape' = [captured |-> TRUE, used |-> pos, launch |-> DecodeLaunch(pos),
                    indexed |-> Indexed(nComp)]
    BY <1>6 DEF GraphDecode
  <2>2. TapeInv'
    <3>1. PICK k, start, top :
            DecodeLaunch(p) = [n_tokens |-> 1, pos0 |-> p, n_raw |-> k, raw_cap |-> RawCap,
                               raw_start |-> start, n_comp |-> nComp, window |-> Window,
                               ratio |-> CompRatio, topk |-> top]
      BY <1>3, DecodeLaunchIs
    <3>2. /\ tape'.captured = TRUE /\ tape'.used = p /\ tape'.launch = DecodeLaunch(p)
          /\ tape'.indexed = Indexed(nComp)
          /\ tape' = [captured |-> tape'.captured, used |-> tape'.used, launch |-> tape'.launch,
                      indexed |-> tape'.indexed]
      BY <1>2, <2>1
    <3>3. PICK m : m = nComp
      OBVIOUS
    <3>4. tape'.launch = [n_tokens |-> 1, pos0 |-> p, n_raw |-> k, raw_cap |-> RawCap,
                          raw_start |-> start, n_comp |-> m, window |-> Window,
                          ratio |-> CompRatio', topk |-> top]
      BY <1>4, <3>1, <3>2, <3>3
    <3>5. /\ m \in Nat /\ m <= CompCap /\ m <= Seen(Ratio', tape'.used) /\ (tape'.indexed <=> Indexed(m)')
          /\ tape'.indexed \in BOOLEAN /\ tape'.used \in Nat \ {0}
      BY <1>3, <1>4, <3>2, <3>3 DEF Indexed
    <3> QED
      BY <3>2, <3>4, <3>5 DEF TapeInv
  <2>3. PICK full \in BOOLEAN : full <=> Counted'
    OBVIOUS
  <2>4. \A t \in DOMAIN DecodeReads(DecodeLaunch(p), Indexed(nComp), p, f) :
          TokenAttends(DecodeReads(DecodeLaunch(p), Indexed(nComp), p, f)[t], Ratio, full)
    BY <1>3, <2>3, FreshLaunchAttends
  <2>5. AttendsExactly'
    BY <1>1, <1>2, <2>1, <2>3, <2>4, AttendsNext
  <2> QED
    BY <1>3, <2>2, <2>5 DEF AttendInv
<1> QED
  BY <1>5, <1>6

\* Every step of the executor keeps the invariant.
LEMMA AttendNext == ASSUME AttendInv, SizesFit, TapesPacked, [LayerNext]_layerVars PROVE AttendInv'
<1>1. CASE UNCHANGED layerVars
  <2>1. /\ set' = set /\ pos' = pos /\ ring' = ring /\ nComp' = nComp /\ tape' = tape /\ reads' = reads
    BY <1>1 DEF layerVars
  <2>2. CountInv' /\ RingInv'
    BY <2>1 DEF AttendInv, CountInv, RingInv, Fresh, Ratio
  <2>3. TapeInv'
    BY <2>1, TapeStays DEF AttendInv
  <2>4. AttendsExactly'
    BY <2>1 DEF AttendInv, AttendsExactly, Counted, TapeCurrent, Ratio
  <2> QED
    BY <2>2, <2>3, <2>4 DEF AttendInv
<1>2. ASSUME NEW n \in 1 .. PrefillCap, Prefill(n) PROVE AttendInv'
  BY <1>2, PrefillAttendInv
<1>3. ASSUME NEW n \in 1 .. PrefillCap, Chunk(n) PROVE AttendInv'
  BY <1>3, ChunkAttendInv
<1>4. CASE Decode
  BY <1>4, DecodeAttendInv
<1>5. CASE GraphDecode
  BY <1>5, GraphDecodeAttendInv
<1>6. ASSUME NEW accepted \in 0 .. 2, Verify(accepted) PROVE AttendInv'
  BY <1>6, VerifyAttendInv
<1> QED
  BY <1>1, <1>2, <1>3, <1>4, <1>5, <1>6 DEF LayerNext

\* Every token's attention reads its window and the rows it may see, whichever
\* kernels are launched and however the tokens come, as long as the contexts fit
\* the kernels and the decode tape of a ratio-4 layer is of the packed kernel.
THEOREM AlwaysAttendsExactly == ASSUME SizesFit, TapesPacked PROVE LayerSpec => []AttendsExactly
<1>1. LayerInit => AttendInv
  BY AttendStarts
<1>2. AttendInv /\ [LayerNext]_layerVars => AttendInv'
  BY AttendNext
<1>3. AttendInv => AttendsExactly
  BY DEF AttendInv
<1> QED
  BY <1>1, <1>2, <1>3, PTL DEF LayerSpec
=============================================================================
