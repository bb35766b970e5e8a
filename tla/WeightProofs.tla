---------------------------- MODULE WeightProofs ----------------------------
(***************************************************************************)
(* Proofs about WeightCache for every set of tensors, every process and    *)
(* every environment, with any number of operations and any outcome of an  *)
(* allocation, a read or a registration: a kernel reads the units of its   *)
(* tensor, and every buffer of the device has one owner.                   *)
(*                                                                         *)
(* The invariant WeightInv says what every buffer holds.  The copies that  *)
(* the stream has not run yet are part of it: each one lands in the used   *)
(* part of an arena where no range is, and those of the upload in progress *)
(* carry its units in stages that are not written again before they land.  *)
(***************************************************************************)
EXTENDS WeightCache, FiniteSetTheorems, SequenceTheorems, TLAPS

-----------------------------------------------------------------------------
(* The invariant of WeightCache. *)

MappedModels == {Main} \cup (IF proc.draft THEN {Draft} ELSE {})
Kinds == {"f16", "f32"}
WithCopies == {"with_product32", "with_product16", "with_heads16"}
Products == {"product32", "product16", "heads16"}

PtrType == Int \X Nat
GlobalsType ==
  [host : Models \cup {0}, base : Int, owned : BOOLEAN, registered : BOOLEAN, mapping : BOOLEAN,
   hmm : BOOLEAN, fd_base : Int, direct : BOOLEAN, full : BOOLEAN, no_preload : BOOLEAN,
   off16 : BOOLEAN, range_bytes : Nat]
RangeType ==
  [m : Models, off : Nat, len : Nat, ptr : PtrType, kind : {"copy", "host", "arena"}, page0 : Nat, pages : Nat]
ArenaType == [id : Nat \ {0}, units : Nat, used : Nat]
WideType == [m : Models, off : Nat, len : Nat, shape : Shapes, id : Nat \ {0}]
CopyType == [dst : (Nat \ {0}) \X Nat, bi : 0 .. Stages - 1, delta : Nat, n : Nat \ {0}]
LookupType ==
  [step : {"ask", "fd", "map", "upload", "done"}, w : WeightType, dev : Nat \X Nat,
   copied : Nat, chunk : Nat, ptr : PtrType]
Steps == {"map", "managed", "span", "preload", "range", "kernel"} \cup Products \cup WithCopies
StepType == [do : Steps, w : WeightType, need : Nat]

TypesOk ==
  /\ proc \in Processes /\ phase \in {"open", "serve", "closed"}
  /\ g \in GlobalsType
  /\ ranges \in Seq(RangeType)
  /\ arenas \in Seq(ArenaType)
  /\ wide \in [Kinds -> Seq(WideType)]
  /\ tmp \in [id : Nat, units : Nat]
  /\ DOMAIN stage = 0 .. Stages - 1
  /\ queue \in Seq(CopyType)
  /\ lookup = NoCall \/ lookup \in LookupType
  /\ todo \in Seq(StepType)
  /\ \A h \in held : h \in [w : WeightType, ptr : PtrType]

\* The buffers of the tables are alive, and no two entries share one.
Scratches == {tmp.id} \ {0}
OwnedBuffers ==
  RangeBuffers \cup ArenaBuffers \cup WideBuffers("f16") \cup WideBuffers("f32") \cup Scratches \cup OwnedBase
Apart(r, a, w, x, t, b) ==
  /\ r \cap a = {}
  /\ (r \cup a) \cap w = {}
  /\ (r \cup a \cup w) \cap x = {}
  /\ (r \cup a \cup w \cup x) \cap t = {}
  /\ (r \cup a \cup w \cup x \cup t) \cap b = {}
BuffersOk ==
  /\ IsFiniteSet(DOMAIN mem) /\ DOMAIN mem \subseteq Int \ {0}
  /\ OwnedBuffers \subseteq DOMAIN mem
  /\ Apart(RangeBuffers, ArenaBuffers, WideBuffers("f16"), WideBuffers("f32"), Scratches, OwnedBase)
  /\ RangeBuffers \subseteq Nat \ {0}
  /\ \A i, j \in DOMAIN arenas : arenas[i].id = arenas[j].id => i = j
  /\ \A k \in Kinds : \A i, j \in DOMAIN wide[k] : wide[k][i].id = wide[k][j].id => i = j

\* What the buffers hold.
HeldAt(image, at, w) == \A j \in 0 .. w.len - 1 : at + j \in DOMAIN image
                                                  /\ image[at + j] = <<w.m, w.off + j>>
MapsHold == phase # "closed" => \A m \in MappedModels : m \in DOMAIN mem /\ mem[m] = FileImage(m)
BaseHolds ==
  /\ g.base # 0 => g.host \in MappedModels /\ g.base \in DOMAIN mem /\ mem[g.base] = FileImage(g.host)
  /\ g.owned => g.base \in Nat \ {0} \/ (proc.managed /\ g.base = Main)
  /\ ~g.owned /\ g.base # 0 => g.base = g.host
RangeHolds(r) ==
  IF r.kind = "host" THEN r.ptr = <<r.m, r.off>> /\ r.m \in MappedModels
  ELSE r.ptr[1] \in DOMAIN mem /\ HeldAt(mem[r.ptr[1]], r.ptr[2], r)
RangesHold == \A i \in DOMAIN ranges : RangeHolds(ranges[i])
WideHolds(x) == HeldAt(mem[x.id], 0, x)
WidesHold == \A k \in Kinds : \A i \in DOMAIN wide[k] : WideHolds(wide[k][i])
ArenaHolds(a) == DOMAIN mem[a.id] = 0 .. a.units - 1 /\ a.used <= a.units
ArenasHold == \A i \in DOMAIN arenas : ArenaHolds(arenas[i])

\* n units at p are in the used part of an arena
InArena(p, n) == \E a \in DOMAIN arenas : arenas[a].id = p[1] /\ p[2] + n <= arenas[a].used
Disjoint(p, n, q, k) == p[1] # q[1] \/ p[2] + n <= q[2] \/ q[2] + k <= p[2]
OffRanges(p, n) == \A i \in DOMAIN ranges : ranges[i].kind # "host"
                                            => Disjoint(ranges[i].ptr, ranges[i].len, p, n)
ArenaRanges == \A i \in DOMAIN ranges : ranges[i].kind = "arena" => InArena(ranges[i].ptr, ranges[i].len)

\* The copies of the upload in progress carry its units; the others land where
\* nothing is read any more.
Uploading == lookup.step = "upload"
Part(q) ==
  /\ q.dst[1] = lookup.dev[1] /\ lookup.dev[2] <= q.dst[2] /\ q.dst[2] + q.n <= lookup.dev[2] + lookup.copied
  /\ q.bi < lookup.chunk
  /\ q.bi \in DOMAIN stage
  /\ \A j \in 0 .. q.n - 1 : stage[q.bi][q.delta + j] = <<lookup.w.m, lookup.w.off + (q.dst[2] - lookup.dev[2]) + j>>
Covers(q, x) == q.dst[2] <= x /\ x < q.dst[2] + q.n
CopyOk(q) ==
  /\ InArena(q.dst, q.n)
  /\ OffRanges(q.dst, q.n)
  /\ Uploading => Disjoint(q.dst, q.n, lookup.dev, lookup.w.len) \/ Part(q)
QueueOk == \A i \in DOMAIN queue : CopyOk(queue[i])
Arrives(j) ==
  \/ mem[lookup.dev[1]][lookup.dev[2] + j] = <<lookup.w.m, lookup.w.off + j>>
  \/ \E i \in DOMAIN queue : Part(queue[i]) /\ Covers(queue[i], lookup.dev[2] + j)
UploadOk ==
  Uploading =>
    /\ lookup.copied <= lookup.w.len
    /\ InArena(lookup.dev, lookup.w.len)
    /\ OffRanges(lookup.dev, lookup.w.len)
    /\ \A j \in 0 .. lookup.copied - 1 : Arrives(j)

\* Where a pointer comes from.
Source(w, p) ==
  \/ w.m \in MappedModels /\ p = <<w.m, w.off>>
  \/ g.base # 0 /\ g.host = w.m /\ p = <<g.base, w.off>>
  \/ \E i \in DOMAIN ranges : Within(w, ranges[i])
                              /\ p = <<ranges[i].ptr[1], ranges[i].ptr[2] + (w.off - ranges[i].off)>>
WideSource(k, w, p) ==
  \E i \in DOMAIN wide[k] :
    wide[k][i].m = w.m /\ wide[k][i].off = w.off /\ wide[k][i].len = w.len /\ p = <<wide[k][i].id, 0>>

Asking == {"range", "span", "preload"} \cup Products
LookupOk ==
  lookup # NoCall =>
    /\ todo # <<>> /\ phase # "closed" /\ lookup.w = Head(todo).w /\ Head(todo).do \in Asking
    /\ lookup.step \in {"ask", "fd"} => lookup.copied = 0 /\ lookup.chunk = 0
    /\ lookup.step = "done" /\ lookup.ptr # Null => Source(lookup.w, lookup.ptr)

KindOf(do) == IF do = "with_product32" THEN "f32" ELSE "f16"
HoldOk(h) ==
  /\ InFile(h.w)
  /\ \/ Source(h.w, h.ptr)
     \/ todo # <<>> /\ Head(todo).do \in WithCopies /\ WideSource(KindOf(Head(todo).do), h.w, h.ptr)
HeldOk == (phase # "serve" => held = {}) /\ \A h \in held : HoldOk(h)

\* What is left of an operation, and of the start.
KernelLater(s, i) ==
  s[i].do \in Products \cup WithCopies => \E j \in DOMAIN s : j > i /\ s[j].do = "kernel"
Serving(s) ==
  /\ \A i \in DOMAIN s :
       /\ s[i].do \in {"range", "kernel"} \cup Products \cup WithCopies
       /\ s[i].do \in WithCopies => i = 1
       /\ InFile(s[i].w) /\ s[i].w.m \in MappedModels
       /\ KernelLater(s, i)
Opening(s) ==
  \A i \in DOMAIN s :
    /\ s[i].do \in {"map", "managed", "span", "preload"}
    /\ s[i].w.m \in MappedModels
    /\ s[i].do = "preload" => InFile(s[i].w)
    /\ s[i].do = "managed" => i = 1 /\ g.host = 0 /\ proc.managed /\ s[i].w.m = Main
    /\ s[i].do = "map" => ~proc.managed /\ s[i].w.m # g.host
    /\ \A j \in DOMAIN s : s[i].do = "map" /\ s[j].do = "map" /\ s[i].w.m = s[j].w.m => i = j
TodoOk ==
  /\ phase = "open" => Opening(todo)
  /\ phase = "serve" => Serving(todo)
  /\ phase = "closed" => todo = <<>> /\ g.base = 0 /\ ~g.owned /\ lookup = NoCall
                         /\ ranges = <<>> /\ arenas = <<>> /\ wide = NoCopies /\ queue = <<>> /\ tmp.id = 0

StorageOk == BuffersOk /\ MapsHold /\ BaseHolds /\ RangesHold /\ WidesHold /\ ArenasHold /\ ArenaRanges
TransferOk == QueueOk /\ UploadOk
ControlOk == LookupOk /\ HeldOk /\ TodoOk
WeightInv == TypesOk /\ StorageOk /\ TransferOk /\ ControlOk

\* Nothing else is alive.
NoneLost == DOMAIN mem = OwnedBuffers \cup (IF phase = "closed" THEN {} ELSE MappedModels)

-----------------------------------------------------------------------------
(* Minima, roundings, fresh buffers. *)

\* Table t is table c, with entries of S, and x behind them.
Appended(S, c, x, t) ==
  /\ x \in S => t \in Seq(S)
  /\ Len(c) \in Nat /\ DOMAIN c = 1 .. Len(c) /\ DOMAIN t = 1 .. Len(c) + 1
  /\ DOMAIN t = DOMAIN c \cup {Len(c) + 1} /\ Len(c) + 1 \notin DOMAIN c
  /\ \A i \in DOMAIN c : i \in DOMAIN t /\ t[i] = c[i]
  /\ t[Len(c) + 1] = x

\* A table with one more entry.
LEMMA AppendFacts ==
  ASSUME NEW S, NEW c \in Seq(S), NEW x
  PROVE  Appended(S, c, x, Append(c, x))
<1> DEFINE t == Append(c, x)
<1>1. x \in S => t \in Seq(S)
  OBVIOUS
<1>2. Len(c) \in Nat /\ DOMAIN c = 1 .. Len(c) /\ DOMAIN t = 1 .. Len(c) + 1
  OBVIOUS
<1>3. DOMAIN t = DOMAIN c \cup {Len(c) + 1} /\ Len(c) + 1 \notin DOMAIN c
  BY <1>2
<1>4. \A i \in DOMAIN c : i \in DOMAIN t /\ t[i] = c[i]
  OBVIOUS
<1>5. t[Len(c) + 1] = x
  OBVIOUS
<1> HIDE DEF t
<1>6. Appended(S, c, x, t)
  BY <1>1, <1>2, <1>3, <1>4, <1>5 DEF Appended
<1> QED
  BY <1>6 DEF t

\* The units of a tensor, one by one.
LEMMA UnitsFacts ==
  ASSUME NEW w, w.len \in Nat
  PROVE  \A j \in 0 .. w.len - 1 : 0 + j = j /\ j \in DOMAIN UnitsOf(w) /\ UnitsOf(w)[j] = <<w.m, w.off + j>>
BY DEF UnitsOf

\* One round of the loops that join tensors and cut spans, for any of them.
SpanRound(p, x, t) == IF p.joins THEN JoinSpan(t, p.seq[x]) ELSE CutSpan(t, p.seq[x])
SpansOk(s) == s \in Seq(Nat \X Nat) /\ \A i \in DOMAIN s : s[i][1] <= s[i][2]
MainWeights(s) == s \in Seq(WeightType) /\ \A i \in DOMAIN s : s[i].m = Main
GoodSpans(p, T, t) == IF p.joins THEN SpansOk(t) ELSE MainWeights(t)
SpanLoop == INSTANCE Iteration WITH Op <- SpanRound, Pick <- Max, Holds <- GoodSpans

\* The last element of a set of positions is one of them.
LEMMA MaxIn ==
  ASSUME NEW n \in Nat, NEW T \in SUBSET (1 .. n), T # {}
  PROVE  Max(T) \in T
<1>1. T \in SUBSET (0 .. n)
  OBVIOUS
<1>2. \E x \in T : \A y \in T : y <= x
  BY <1>1, SpanLoop!Greatest
<1>3. \E x \in T : \A y \in T : x >= y
  BY <1>2
<1> QED
  BY <1>3 DEF Max

\* Integer division, as the roundings use it.
LEMMA QuotientFacts ==
  ASSUME NEW n \in Nat, NEW d \in Nat \ {0}
  PROVE  /\ n \div d \in Nat
         /\ (n \div d) * d <= n /\ n < (n \div d) * d + d
<1> DEFINE q == n \div d
<1>1. q \in Int /\ d * q <= n /\ n < d * q + d
  OBVIOUS
<1>2. q >= 0
  <2>1. SUFFICES ASSUME q <= -1 PROVE FALSE
    BY <1>1
  <2>2. d * q + d <= 0
    BY <1>1, <2>1
  <2> QED
    BY <1>1, <2>2
<1>3. q * d = d * q
  BY <1>1
<1> HIDE DEF q
<1>4. q \in Nat /\ q * d <= n /\ n < q * d + d
  BY <1>1, <1>2, <1>3
<1> QED
  BY <1>4 DEF q

\* Min picks the least element.
LEMMA LeastOf ==
  ASSUME NEW T, T \subseteq Nat, T # {}
  PROVE  Min(T) \in T /\ \A y \in T : Min(T) <= y
<1>1. \E x \in T : \A y \in T : x <= y
  BY SpanLoop!Least
<1> QED
  BY <1>1 DEF Min

\* ... of two lengths: the tail of a range, of a chunk or of a span.
LEMMA LeastOfTwo ==
  ASSUME NEW a \in Nat, NEW b \in Nat
  PROVE  Min({a, b}) \in {a, b} /\ Min({a, b}) <= a /\ Min({a, b}) <= b
<1> DEFINE T == {a, b}
<1>1. T \subseteq Nat /\ T # {} /\ a \in T /\ b \in T
  OBVIOUS
<1> HIDE DEF T
<1>2. Min(T) \in T /\ \A y \in T : Min(T) <= y
  BY <1>1, LeastOf
<1>3. Min(T) \in T /\ Min(T) <= a /\ Min(T) <= b
  BY <1>1, <1>2
<1> QED
  BY <1>3 DEF T

\* Arena sizes and host pages are rounded outward.
LEMMA RoundedFacts ==
  ASSUME NEW v \in Nat, NEW a \in Nat \ {0}
  PROVE  /\ RoundedUp(v, a) \in Nat /\ v <= RoundedUp(v, a)
         /\ RoundedDown(v, a) \in Nat /\ RoundedDown(v, a) <= v
<1>1. v + a - 1 \in Nat
  OBVIOUS
<1> DEFINE u == v + a - 1
           q == u \div a
           d == v \div a
<1> HIDE DEF u
<1>2. q \in Nat /\ q * a <= u /\ u < q * a + a
  BY <1>1, QuotientFacts DEF u
<1>3. d \in Nat /\ d * a <= v
  BY QuotientFacts
<1> HIDE DEF q, d
<1>4. q * a \in Nat /\ d * a \in Nat
  BY <1>2, <1>3
<1>5. v <= q * a
  BY <1>1, <1>2, <1>4 DEF u
<1> QED
  BY <1>3, <1>4, <1>5 DEF RoundedUp, RoundedDown, q, d, u

\* A free name for a buffer, which cudaMalloc() gives.
LEMMA FreshFacts ==
  ASSUME NEW D, IsFiniteSet(D)
  PROVE  FreshId(D) \in Nat \ {0} /\ FreshId(D) \notin D
<1> DEFINE n == Cardinality(D)
           T == {i \in 1 .. n + 1 : i \notin D}
<1>1. n \in Nat
  BY FS_CardinalityType
<1>2. T # {}
  <2>1. SUFFICES ASSUME 1 .. n + 1 \subseteq D PROVE FALSE
    OBVIOUS
  <2>2. Cardinality(1 .. n + 1) <= n
    BY <2>1, FS_Subset
  <2>3. Cardinality(1 .. n + 1) = n + 1
    <3> HIDE DEF n
    <3> QED
      BY <1>1, FS_Interval
  <2> QED
    BY <1>1, <2>2, <2>3
<1>3. T \subseteq Nat \ {0}
  BY <1>1
<1>4. FreshId(D) = Min(T)
  BY DEF FreshId
<1> HIDE DEF T
<1>5. Min(T) \in T
  BY <1>2, <1>3, LeastOf
<1> QED
  BY <1>3, <1>4, <1>5 DEF T

\* NewId is the name of no live buffer.
LEMMA NewIdFacts ==
  ASSUME BuffersOk
  PROVE  NewId \in Nat \ {0} /\ NewId \notin DOMAIN mem /\ NewId \notin OwnedBuffers
BY FreshFacts DEF BuffersOk, NewId

\* cudaMalloc(): one buffer more.
LEMMA WithFacts ==
  ASSUME NEW m, NEW id, NEW image
  PROVE  /\ DOMAIN With(m, id, image) = DOMAIN m \cup {id}
         /\ With(m, id, image)[id] = image
         /\ \A b \in DOMAIN m : b # id => With(m, id, image)[b] = m[b]
BY DEF With

\* cudaFree(): some buffers less.
LEMMA FreedFacts ==
  ASSUME NEW m, NEW ids
  PROVE  /\ DOMAIN Freed(m, ids) = DOMAIN m \ ids
         /\ \A b \in DOMAIN m : b \notin ids => Freed(m, ids)[b] = m[b]
BY DEF Freed

-----------------------------------------------------------------------------
(* The spans of the tensors. *)

\* accelerator_cache_model_tensor_spans() joins a tensor to the span before it.
LEMMA JoinKeeps ==
  ASSUME NEW acc, SpansOk(acc), NEW t \in WeightType
  PROVE  SpansOk(JoinSpan(acc, t))
<1> DEFINE n == Len(acc)
           e == t.off + t.len
<1>1. t.off \in Nat /\ e \in Nat /\ t.off <= e
  BY DEF WeightType
<1>2. acc \in Seq(Nat \X Nat) /\ n \in Nat /\ DOMAIN acc = 1 .. n /\ \A i \in 1 .. n : acc[i] \in Nat \X Nat
                                                            /\ acc[i][1] <= acc[i][2]
  BY DEF SpansOk
<1> HIDE DEF e
<1>3. CASE JoinSpan(acc, t) = Append(acc, <<t.off, e>>)
  BY <1>1, <1>2, <1>3 DEF SpansOk
<1>4. CASE acc # <<>> /\ JoinSpan(acc, t) = [acc EXCEPT ![n] = <<@[1], Max({@[2], e})>>]
  <2> DEFINE x == acc[n]
             top == Max({x[2], e})
  <2>1. n \in 1 .. n
    BY <1>2, <1>4
  <2>2. x \in Nat \X Nat /\ x[1] <= x[2] /\ x[1] \in Nat /\ x[2] \in Nat
    BY <1>2, <2>1
  <2>3. top \in {x[2], e} /\ top >= x[2]
    <3> DEFINE T == {x[2], e}
    <3>1. \E y \in T : \A z \in T : y >= z
      BY <1>1, <2>2
    <3> QED
      BY <3>1 DEF Max
  <2>4. top \in Nat /\ x[1] <= top
    <3> HIDE DEF top
    <3> QED
      BY <1>1, <2>2, <2>3
  <2>5. JoinSpan(acc, t) = [acc EXCEPT ![n] = <<x[1], top>>]
    BY <1>4, <2>1, <1>2
  <2> HIDE DEF x, top, n
  <2> QED
    BY <1>2, <2>1, <2>2, <2>4, <2>5 DEF SpansOk
<1> QED
  BY <1>3, <1>4 DEF JoinSpan, e

\* ... and cuts every span in pieces of the preload.
LEMMA CutKeeps ==
  ASSUME WeightAssumption, NEW acc, MainWeights(acc), NEW s \in Nat \X Nat, s[1] <= s[2]
  PROVE  MainWeights(CutSpan(acc, s))
<1> DEFINE len == s[2] - s[1]
           u == len + MaxSpan - 1
           n == u \div MaxSpan
           part(i) == Weight(Main, s[1] + (i - 1) * MaxSpan, Min({MaxSpan, len - (i - 1) * MaxSpan}), "span", "span")
           cut == [i \in 1 .. n |-> part(i)]
<1>1. MaxSpan \in Nat \ {0} /\ s[1] \in Nat /\ len \in Nat /\ u \in Nat
  BY DEF WeightAssumption
<1>2. n \in Nat /\ n * MaxSpan <= u
  <2> HIDE DEF u
  <2> QED
    BY <1>1, QuotientFacts
<1>3. ASSUME NEW i \in 1 .. n PROVE part(i) \in WeightType /\ part(i).m = Main
  <2> DEFINE k == i - 1
             p == k * MaxSpan
  <2>1. k \in Nat /\ k + 1 <= n
    BY <1>2
  <2>2. p \in Nat
    BY <1>1, <2>1
  <2>3. p + MaxSpan <= u
    <3> HIDE DEF u, n, k
    <3>1. (k + 1) * MaxSpan <= n * MaxSpan
      BY <1>1, <1>2, <2>1
    <3>2. (k + 1) * MaxSpan = p + MaxSpan
      BY <1>1, <2>1
    <3> HIDE DEF p
    <3> QED
      BY <1>1, <1>2, <2>1, <2>2, <3>1, <3>2
  <2>4. len - p \in Nat
    <3> HIDE DEF p
    <3> QED
      BY <1>1, <2>2, <2>3
  <2> DEFINE rest == len - p
  <2> HIDE DEF rest
  <2>5. Min({MaxSpan, rest}) \in Nat
    BY <1>1, <2>4, LeastOfTwo DEF rest
  <2>6. s[1] + p \in Nat
    <3> HIDE DEF p
    <3> QED
      BY <1>1, <2>2
  <2>7. part(i) = Weight(Main, s[1] + p, Min({MaxSpan, rest}), "span", "span")
    BY DEF rest
  <2> HIDE DEF part, p
  <2> QED
    BY <2>5, <2>6, <2>7 DEF Weight, WeightType, Models, Labels, Shapes
<1>4. cut \in Seq(WeightType) /\ \A i \in DOMAIN cut : cut[i].m = Main
  <2> HIDE DEF part, n
  <2>1. \A i \in 1 .. n : part(i) \in WeightType /\ part(i).m = Main
    BY <1>3
  <2> QED
    BY <1>2, <2>1
<1>5. CutSpan(acc, s) = acc \o cut
  BY DEF CutSpan
<1> HIDE DEF cut
<1>6. acc \in Seq(WeightType) /\ \A i \in DOMAIN acc : acc[i].m = Main
  BY DEF MainWeights
<1>7. /\ acc \o cut \in Seq(WeightType)
      /\ Len(acc \o cut) = Len(acc) + Len(cut)
      /\ \A i \in 1 .. Len(acc) + Len(cut) : (acc \o cut)[i] = IF i <= Len(acc) THEN acc[i] ELSE cut[i - Len(acc)]
  BY <1>4, <1>6, ConcatProperties
<1> DEFINE all == acc \o cut
           la == Len(acc)
           lc == Len(cut)
<1>8. la \in Nat /\ lc \in Nat /\ DOMAIN acc = 1 .. la /\ DOMAIN cut = 1 .. lc /\ DOMAIN all = 1 .. la + lc
  BY <1>4, <1>6, <1>7
<1> HIDE DEF all, la, lc
<1>9. ASSUME NEW i \in 1 .. la + lc PROVE all[i].m = Main
  <2>1. all[i] = IF i <= la THEN acc[i] ELSE cut[i - la]
    BY <1>7 DEF all, la, lc
  <2>2. i <= la => i \in DOMAIN acc
    BY <1>8
  <2>3. i > la => i - la \in DOMAIN cut
    BY <1>8
  <2>4. i <= la \/ i > la
    BY <1>8
  <2> QED
    BY <1>4, <1>6, <2>1, <2>2, <2>3, <2>4
<1>10. all \in Seq(WeightType) /\ CutSpan(acc, s) = all
  BY <1>5, <1>7 DEF all
<1> QED
  BY <1>8, <1>9, <1>10 DEF MainWeights

\* accelerator_cache_model_tensor_spans(): the spans are weights of the main model.
LEMMA SpansAreMain == MainWeights(Spans)
<1> DEFINE Loop(p, base) == SpanLoop!FoldOf(p, base, DOMAIN p.seq)
           joined == FoldLeft(JoinSpan, <<>>, Tensors)
           p1 == [joins |-> TRUE, seq |-> Tensors]
           p2 == [joins |-> FALSE, seq |-> joined]
<1>1. ASSUME NEW p, NEW S, p.seq \in Seq(S),
             GoodSpans(p, {}, <<>>),
             \A x \in S : \A t : GoodSpans(p, {}, t) => (p.joins => SpansOk(JoinSpan(t, x)))
                                 /\ (~p.joins => MainWeights(CutSpan(t, x)))
      PROVE  GoodSpans(p, {}, Loop(p, <<>>))
  <2> DEFINE D == DOMAIN p.seq
  <2>1. D = 1 .. Len(p.seq) /\ Len(p.seq) \in Nat /\ IsFiniteSet(D)
    BY <1>1, FS_Interval
  <2>2. SpanLoop!Chooses(D)
    BY <2>1, MaxIn DEF SpanLoop!Chooses
  <2>3. SpanLoop!IsFiniteSet(D)
    BY <2>1 DEF IsFiniteSet, SpanLoop!IsFiniteSet
  <2>4. ASSUME NEW T \in SUBSET D, NEW t, T # {}, GoodSpans(p, T \ {Max(T)}, t)
        PROVE  GoodSpans(p, T, SpanRound(p, Max(T), t))
    <3>1. Max(T) \in D
      BY <2>1, <2>4, MaxIn
    <3>2. p.seq[Max(T)] \in S
      BY <1>1, <3>1
    <3>3. GoodSpans(p, {}, t)
      BY <2>4 DEF GoodSpans
    <3> QED
      BY <1>1, <3>2, <3>3 DEF GoodSpans, SpanRound
  <2>5. SpanLoop!StepsKeep(p, D)
    BY <2>4 DEF SpanLoop!StepsKeep
  <2>6. GoodSpans(p, D, Loop(p, <<>>))
    <3> DEFINE e == <<>>
    <3>1. GoodSpans(p, {}, e)
      BY <1>1
    <3> HIDE DEF e, D
    <3>2. GoodSpans(p, D, SpanLoop!FoldOf(p, e, D))
      BY <2>2, <2>3, <2>5, <3>1, SpanLoop!FoldHolds
    <3> QED
      BY <3>2 DEF D, e
  <2> QED
    BY <2>6 DEF GoodSpans
<1>2. joined = Loop(p1, <<>>)
  BY DEF FoldLeft, MapThenFoldSet, SpanLoop!FoldOf, SpanLoop!IsFold, SpanRound
<1>3. SpansOk(joined)
  <2>1. p1.seq = Tensors /\ p1.joins
    OBVIOUS
  <2> HIDE DEF p1
  <2>2. GoodSpans(p1, {}, <<>>)
    BY <2>1 DEF GoodSpans, SpansOk
  <2>3. \A x \in WeightType : \A t : GoodSpans(p1, {}, t) => SpansOk(JoinSpan(t, x))
    BY <2>1, JoinKeeps DEF GoodSpans
  <2>4. GoodSpans(p1, {}, Loop(p1, <<>>))
    <3> HIDE DEF Loop
    <3> QED
      BY <1>1, <2>1, <2>2, <2>3, TensorsAssumption
  <2> QED
    BY <1>2, <2>1, <2>4 DEF GoodSpans
<1>4. Spans = Loop(p2, <<>>)
  BY DEF Spans, FoldLeft, MapThenFoldSet, SpanLoop!FoldOf, SpanLoop!IsFold, SpanRound
<1>5. MainWeights(Spans)
  <2>1. p2.seq = joined /\ ~p2.joins
    OBVIOUS
  <2> DEFINE S == {s \in Nat \X Nat : s[1] <= s[2]}
  <2> HIDE DEF p2, joined
  <2>2. GoodSpans(p2, {}, <<>>)
    BY <2>1 DEF GoodSpans, MainWeights
  <2>3. \A x \in S : \A t : GoodSpans(p2, {}, t) => MainWeights(CutSpan(t, x))
    BY <2>1, CutKeeps, WeightAssumption DEF GoodSpans
  <2>4. p2.seq \in Seq(S)
    BY <1>3, <2>1 DEF SpansOk
  <2>5. GoodSpans(p2, {}, Loop(p2, <<>>))
    <3> HIDE DEF Loop, S
    <3> QED
      BY <1>1, <2>1, <2>2, <2>3, <2>4
  <2> QED
    BY <1>4, <2>1, <2>5 DEF GoodSpans
<1> QED
  BY <1>5

-----------------------------------------------------------------------------
(* The operations. *)

\* The operations that the callers in ds4.c build: one entry point of
\* ds4_gpu.h each, over tensors that lie inside their file.
InFileWeights == {w \in WeightType : InFile(w)}
Built(op) ==
  \E w0, w1 \in InFileWeights, n \in Nat, cublas \in BOOLEAN :
    \/ op = MatmulQ8(w0, n, cublas) \/ op = MatmulQ8Pair(w0, w1, n, cublas) \/ op = MatmulQ8Expand(w0)
    \/ op = MatmulF16(w0, n, cublas) \/ op = MatmulF16Pair(w0, w1, n, cublas) \/ op = MatmulF32(w0)
    \/ op = AttentionOutput(w0, w1, n, cublas) \/ op = AttentionOutputLow(w0)
KnownOperations == \A op \in Operations : Built(op)
\* ds4_gpu_set_model_map() of a second file releases the managed copy of the
\* first one, so managed memory serves one file.
OneFileManaged == \A p \in Processes : ~(p.draft /\ p.managed)

\* Steps of an operation that is served, and those whose products
\* all have a kernel behind them.
Workable(s) ==
  s \in Seq(StepType) /\ \A i \in DOMAIN s : s[i].do \in {"range", "kernel"} \cup Products /\ InFile(s[i].w)
Plan(s) == Workable(s) /\ \A i \in DOMAIN s : KernelLater(s, i)

\* c is a and then b.
Joined(S, a, b, c) ==
  /\ c \in Seq(S) /\ Len(a) \in Nat /\ Len(b) \in Nat
  /\ DOMAIN a = 1 .. Len(a) /\ DOMAIN b = 1 .. Len(b) /\ DOMAIN c = 1 .. Len(a) + Len(b)
  /\ \A i \in 1 .. Len(a) : c[i] = a[i]
  /\ \A i \in 1 .. Len(b) : c[Len(a) + i] = b[i]
  /\ \A i \in 1 .. Len(a) + Len(b) : i \in 1 .. Len(a) \/ \E k \in 1 .. Len(b) : i = Len(a) + k

\* The steps of a concatenation.
LEMMA ConcatFacts ==
  ASSUME NEW S, NEW a \in Seq(S), NEW b \in Seq(S)
  PROVE  Joined(S, a, b, a \o b)
<1> DEFINE c == a \o b
           m == Len(a)
           n == Len(b)
<1>1. c \in Seq(S) /\ Len(c) = m + n /\ \A i \in 1 .. m + n : c[i] = IF i <= m THEN a[i] ELSE b[i - m]
  BY ConcatProperties
<1>2. m \in Nat /\ n \in Nat /\ DOMAIN a = 1 .. m /\ DOMAIN b = 1 .. n
  OBVIOUS
<1>3. DOMAIN c = 1 .. m + n
  BY <1>1
<1> HIDE DEF c, m, n
<1>4. ASSUME NEW i \in 1 .. m PROVE c[i] = a[i]
  BY <1>1, <1>2
<1>5. ASSUME NEW i \in 1 .. n PROVE c[m + i] = b[i]
  <2>1. m + i \in 1 .. m + n /\ ~(m + i <= m) /\ (m + i) - m = i
    BY <1>2
  <2> QED
    BY <1>1, <2>1
<1>6. ASSUME NEW i \in 1 .. m + n, i \notin 1 .. m PROVE \E k \in 1 .. n : i = m + k
  <2>1. i - m \in 1 .. n /\ i = m + (i - m)
    BY <1>2, <1>6
  <2> QED
    BY <2>1
<1>7. /\ c \in Seq(S) /\ m \in Nat /\ n \in Nat
      /\ DOMAIN a = 1 .. m /\ DOMAIN b = 1 .. n /\ DOMAIN c = 1 .. m + n
      /\ \A i \in 1 .. m : c[i] = a[i]
      /\ \A i \in 1 .. n : c[m + i] = b[i]
      /\ \A i \in 1 .. m + n : i \in 1 .. m \/ \E k \in 1 .. n : i = m + k
  BY <1>1, <1>2, <1>3, <1>4, <1>5, <1>6
<1>8. Joined(S, a, b, c)
  BY <1>7 DEF Joined, m, n
<1> QED
  BY <1>8 DEF c

\* Operations put together have steps that some action takes.
LEMMA WorkableConcat ==
  ASSUME NEW a, NEW b, Workable(a), Workable(b)
  PROVE  Workable(a \o b)
<1>1. a \in Seq(StepType) /\ b \in Seq(StepType)
  BY DEF Workable
<1> DEFINE c == a \o b
<1>2. /\ c \in Seq(StepType) /\ DOMAIN a = 1 .. Len(a) /\ DOMAIN b = 1 .. Len(b)
      /\ DOMAIN c = 1 .. Len(a) + Len(b)
      /\ \A i \in 1 .. Len(a) : c[i] = a[i]
      /\ \A i \in 1 .. Len(b) : c[Len(a) + i] = b[i]
      /\ \A i \in 1 .. Len(a) + Len(b) : i \in 1 .. Len(a) \/ \E k \in 1 .. Len(b) : i = Len(a) + k
  <2>1. Joined(StepType, a, b, c)
    BY <1>1, ConcatFacts
  <2> HIDE DEF c
  <2> QED
    BY <2>1 DEF Joined
<1> HIDE DEF c
<1>3. ASSUME NEW i \in DOMAIN c PROVE c[i].do \in {"range", "kernel"} \cup Products /\ InFile(c[i].w)
  <2>1. CASE i \in 1 .. Len(a)
    BY <1>2, <2>1 DEF Workable
  <2>2. CASE \E k \in 1 .. Len(b) : i = Len(a) + k
    BY <1>2, <2>2 DEF Workable
  <2> QED
    BY <1>2, <2>1, <2>2
<1> QED
  BY <1>2, <1>3 DEF Workable, c

\* ... and every product has a kernel behind it.
LEMMA PlanConcat ==
  ASSUME NEW a, NEW b, Workable(a), Plan(b), b = <<>> => Plan(a), b # <<>> => b[Len(b)].do = "kernel"
  PROVE  Plan(a \o b)
<1>1. a \in Seq(StepType) /\ b \in Seq(StepType) /\ Workable(b)
  BY DEF Workable, Plan
<1> DEFINE c == a \o b
           m == Len(a)
           n == Len(b)
<1>2. /\ c \in Seq(StepType) /\ m \in Nat /\ n \in Nat /\ DOMAIN a = 1 .. m /\ DOMAIN b = 1 .. n
      /\ DOMAIN c = 1 .. m + n
      /\ \A i \in 1 .. m : c[i] = a[i]
      /\ \A i \in 1 .. n : c[m + i] = b[i]
      /\ \A i \in 1 .. m + n : i \in 1 .. m \/ \E k \in 1 .. n : i = m + k
  <2>1. Joined(StepType, a, b, c)
    BY <1>1, ConcatFacts
  <2> HIDE DEF c
  <2> QED
    BY <2>1 DEF Joined
<1>3. Workable(c)
  BY <1>1, WorkableConcat
<1>4. b = <<>> <=> n = 0
  BY <1>1
<1> HIDE DEF c, m, n
<1>5. ASSUME NEW i \in DOMAIN c PROVE KernelLater(c, i)
  <2>1. CASE n # 0 /\ i \in 1 .. m
    <3>1. m + n \in DOMAIN c /\ m + n > i /\ c[m + n].do = "kernel"
      BY <1>2, <1>4, <2>1 DEF n
    <3> QED
      BY <3>1 DEF KernelLater
  <2>2. CASE n # 0 /\ \E k \in 1 .. n : i = m + k
    <3>1. PICK k \in 1 .. n : i = m + k
      BY <2>2
    <3>2. SUFFICES ASSUME b[k].do \in Products \cup WithCopies PROVE KernelLater(c, i)
      BY <1>2, <3>1 DEF KernelLater
    <3>3. PICK j \in 1 .. n : j > k /\ b[j].do = "kernel"
      BY <1>2, <3>2 DEF Plan, KernelLater
    <3>4. m + j \in DOMAIN c /\ m + j > i /\ c[m + j].do = "kernel"
      BY <1>2, <3>1, <3>3
    <3> QED
      BY <3>4 DEF KernelLater
  <2>3. CASE n = 0
    <3>1. i \in 1 .. m /\ c[i] = a[i]
      BY <1>2, <2>3
    <3>2. SUFFICES ASSUME a[i].do \in Products \cup WithCopies PROVE KernelLater(c, i)
      BY <3>1 DEF KernelLater
    <3>3. PICK j \in 1 .. m : j > i /\ a[j].do = "kernel"
      BY <1>2, <1>4, <2>3, <3>1, <3>2 DEF Plan, KernelLater
    <3>4. j \in DOMAIN c /\ c[j].do = "kernel"
      BY <1>2, <2>3, <3>3
    <3> QED
      BY <3>3, <3>4 DEF KernelLater
  <2> QED
    BY <1>2, <2>1, <2>2, <2>3
<1> QED
  BY <1>3, <1>5 DEF Plan, c

\* The steps of an operation end with a kernel.
Ending(s) == Plan(s) /\ s # <<>> /\ s[Len(s)].do = "kernel"

\* An operation that ends in a kernel has one behind every product.
LEMMA EndingConcat ==
  ASSUME NEW a, NEW b, Workable(a), Ending(b)
  PROVE  Ending(a \o b)
<1>1. a \in Seq(StepType) /\ b \in Seq(StepType)
  BY DEF Workable, Plan, Ending
<1>2. Plan(a \o b)
  BY PlanConcat DEF Ending
<1>3. Len(b) \in Nat \ {0}
  BY <1>1 DEF Ending
<1>4. Len(a \o b) = Len(a) + Len(b) /\ (a \o b)[Len(a) + Len(b)] = b[Len(b)] /\ a \o b # <<>>
  <2> DEFINE c == a \o b
             m == Len(a)
             n == Len(b)
  <2>1. /\ c \in Seq(StepType) /\ m \in Nat /\ DOMAIN c = 1 .. m + n
        /\ \A i \in 1 .. n : c[m + i] = b[i]
    <3>1. Joined(StepType, a, b, c)
      BY <1>1, ConcatFacts
    <3> HIDE DEF c
    <3> QED
      BY <3>1 DEF Joined
  <2>2. n \in Nat \ {0}
    BY <1>3
  <2>3. Len(c) = m + n
    BY <1>1, ConcatProperties
  <2> HIDE DEF c, m, n
  <2>4. Len(c) = m + n /\ c[m + n] = b[n] /\ c # <<>>
    BY <2>1, <2>2, <2>3
  <2> QED
    BY <2>4 DEF c, m, n
<1> QED
  BY <1>2, <1>4 DEF Ending

\* An operation of one step.
LEMMA StepFacts ==
  ASSUME NEW w \in InFileWeights, NEW n \in Nat, NEW do \in {"range", "kernel"} \cup Products
  PROVE  Workable(<<Step(do, w, n)>>) /\ Workable(<<>>) /\ (do = "kernel" => Ending(<<Step(do, w, n)>>))
<1> DEFINE s == Step(do, w, n)
<1>1. s \in StepType /\ s.do = do /\ s.w = w
  BY DEF Step, StepType, Steps, InFileWeights
<1>2. InFile(w)
  BY DEF InFileWeights
<1> HIDE DEF s
<1>3. Workable(<<s>>) /\ Workable(<<>>)
  BY <1>1, <1>2 DEF Workable
<1>4. ASSUME do = "kernel" PROVE Ending(<<s>>)
  BY <1>1, <1>3, <1>4 DEF Ending, Plan, KernelLater, Products, WithCopies
<1> QED
  BY <1>3, <1>4 DEF s
\* Every product of the matmul entry points of ds4_gpu.h has the kernel behind
\* it that it falls back to without an expanded copy.
LEMMA BuiltFacts ==
  ASSUME NEW op, Built(op)
  PROVE  Plan(op)
<1>1. PICK w0 \in InFileWeights, w1 \in InFileWeights, n \in Nat, cublas \in BOOLEAN :
        \/ op = MatmulQ8(w0, n, cublas) \/ op = MatmulQ8Pair(w0, w1, n, cublas) \/ op = MatmulQ8Expand(w0)
        \/ op = MatmulF16(w0, n, cublas) \/ op = MatmulF16Pair(w0, w1, n, cublas) \/ op = MatmulF32(w0)
        \/ op = AttentionOutput(w0, w1, n, cublas) \/ op = AttentionOutputLow(w0)
  BY DEF Built
<1> DEFINE r(w) == <<Step("range", w, 0)>>
           k(w, m) == <<Step("kernel", w, m)>>
           wide32(w) == <<Step("product32", w, 0)>>
           wide16(w, m) == <<Step("product16", w, m)>>
           heads(w, m) == <<Step("heads16", w, m)>>
<1>2. ASSUME NEW w \in InFileWeights, NEW m \in Nat
      PROVE  /\ Workable(r(w)) /\ Workable(wide32(w)) /\ Workable(wide16(w, m)) /\ Workable(heads(w, m))
             /\ Workable(<<>>) /\ Workable(k(w, m)) /\ Ending(k(w, m))
  BY StepFacts DEF Products
<1>3. /\ n \in Nat /\ 2 * n \in Nat /\ 0 \in Nat /\ 1 \in Nat
  OBVIOUS
<1> HIDE DEF r, k, wide32, wide16, heads
<1>4. ASSUME NEW w \in InFileWeights
      PROVE  Ending(r(w) \o k(w, 1)) /\ Ending(r(w) \o k(w, 0))
  BY <1>2, <1>3, EndingConcat
<1>5. ASSUME NEW w \in InFileWeights, NEW m \in Nat
      PROVE  Ending(MatmulQ8(w, m, cublas))
  <2>1. MatmulQ8(w, m, cublas) = (r(w) \o (IF cublas /\ m > 1 THEN wide32(w) \o wide16(w, m) ELSE <<>>)) \o k(w, m)
    BY DEF MatmulQ8, r, wide32, wide16, k
  <2>2. Workable(IF cublas /\ m > 1 THEN wide32(w) \o wide16(w, m) ELSE <<>>)
    BY <1>2, WorkableConcat
  <2> QED
    BY <1>2, <2>1, <2>2, WorkableConcat, EndingConcat
<1>6. ASSUME NEW w \in InFileWeights, NEW m \in Nat
      PROVE  Ending(MatmulF16(w, m, cublas))
  <2>1. MatmulF16(w, m, cublas) = r(w) \o k(w, IF cublas /\ m > 1 THEN m ELSE 0)
    BY DEF MatmulF16, r, k
  <2> QED
    BY <1>2, <2>1, EndingConcat
<1>7. \A w \in InFileWeights, v \in InFileWeights, m \in Nat : Ending((r(v) \o r(w)) \o k(w, m))
  BY <1>2, WorkableConcat, EndingConcat
<1>8. ASSUME NEW a \in InFileWeights, NEW b \in InFileWeights, NEW m \in Nat
      PROVE  Ending(AttentionOutput(a, b, m, cublas))
  <2> DEFINE copies == IF cublas /\ m > 1 THEN heads(a, 2 * m) ELSE <<>>
  <2>1. AttentionOutput(a, b, m, cublas) = (((r(a) \o r(b)) \o copies) \o k(a, m)) \o MatmulQ8(b, m, cublas)
    BY DEF AttentionOutput, r, k, heads
  <2>2. 2 * m \in Nat
    OBVIOUS
  <2>3. Workable(copies)
    BY <1>2, <2>2
  <2> HIDE DEF copies
  <2>4. Workable(((r(a) \o r(b)) \o copies) \o k(a, m))
    BY <1>2, <2>3, WorkableConcat
  <2> QED
    BY <1>5, <2>1, <2>4, EndingConcat
<1>9. \A s : Ending(s) => Plan(s) /\ Workable(s)
  BY DEF Ending, Plan
<1>10. CASE op = MatmulQ8(w0, n, cublas) \/ op = MatmulF16(w0, n, cublas)
       \/ op = AttentionOutput(w0, w1, n, cublas)
  BY <1>5, <1>6, <1>8, <1>9, <1>10
<1>11. CASE op = MatmulQ8Pair(w0, w1, n, cublas)
  <2>1. n # 1 => op = MatmulQ8(w0, n, cublas) \o MatmulQ8(w1, n, cublas)
    BY <1>11 DEF MatmulQ8Pair
  <2>2. n = 1 => op = (r(w0) \o r(w1)) \o k(w1, 1)
    BY <1>11 DEF MatmulQ8Pair, r, k
  <2>3. n # 1 => Ending(op)
    BY <1>5, <1>9, <2>1, EndingConcat
  <2> QED
    BY <1>3, <1>7, <1>9, <2>2, <2>3
<1>12. CASE op = MatmulF16Pair(w0, w1, n, cublas)
  <2>1. n # 1 => op = MatmulF16(w0, n, cublas) \o MatmulF16(w1, n, cublas)
    BY <1>12 DEF MatmulF16Pair
  <2>2. n = 1 => op = (r(w0) \o r(w1)) \o k(w1, 0)
    BY <1>12 DEF MatmulF16Pair, r, k
  <2>3. n # 1 => Ending(op)
    BY <1>6, <1>9, <2>1, EndingConcat
  <2> QED
    BY <1>3, <1>7, <1>9, <2>2, <2>3
<1>13. CASE op = MatmulQ8Expand(w0) \/ op = MatmulF32(w0) \/ op = AttentionOutputLow(w0)
  <2>1. op = r(w0) \o k(w0, 1) \/ op = r(w0) \o k(w0, 0)
    BY <1>13 DEF MatmulQ8Expand, MatmulF32, AttentionOutputLow, r, k
  <2> QED
    BY <1>4, <1>9, <2>1
<1> QED
  BY <1>1, <1>10, <1>11, <1>12, <1>13

-----------------------------------------------------------------------------
(* What the invariant says of the pointers. *)

\* A pointer into the map, the base or a range leads to its units.
LEMMA SourceReads ==
  ASSUME WeightAssumption, TypesOk, StorageOk, phase # "closed",
         NEW w \in WeightType, NEW p \in PtrType, InFile(w), Source(w, p)
  PROVE  UnitsAt(p, w.len) = UnitsOf(w)
<1>1. w.off \in Nat /\ w.len \in Nat \ {0} /\ w.off + w.len <= FileUnits[w.m] /\ FileUnits[w.m] \in Nat
      /\ w.m \in Models
  BY DEF WeightType, InFile, WeightAssumption, Models
<1>2. ASSUME NEW b \in DOMAIN mem, mem[b] = FileImage(w.m), p = <<b, w.off>>
      PROVE  UnitsAt(p, w.len) = UnitsOf(w)
  <2>1. p[1] = b /\ p[2] = w.off
    BY <1>2
  <2> DEFINE n == FileUnits[w.m]
             u == w.off
             l == w.len
  <2>4. DOMAIN mem[b] = 0 .. n - 1 /\ \A i \in 0 .. n - 1 : mem[b][i] = <<w.m, i>>
    BY <1>2 DEF FileImage
  <2>5. \A j \in 0 .. l - 1 : u + j \in 0 .. n - 1
    BY <1>1
  <2>6. u + l - 1 \in 0 .. n - 1
    BY <1>1
  <2> HIDE DEF n, u, l
  <2>2. \A j \in 0 .. l - 1 : u + j \in DOMAIN mem[b] /\ mem[b][u + j] = <<w.m, u + j>>
    BY <2>4, <2>5
  <2>3. u + l - 1 \in DOMAIN mem[b]
    BY <2>4, <2>6
  <2> USE DEF u, l
  <2> QED
    BY <2>1, <2>2, <2>3 DEF UnitsAt, UnitsOf
<1>3. CASE w.m \in MappedModels /\ p = <<w.m, w.off>>
  BY <1>2, <1>3 DEF StorageOk, MapsHold
<1>4. CASE g.base # 0 /\ g.host = w.m /\ p = <<g.base, w.off>>
  BY <1>2, <1>4 DEF StorageOk, BaseHolds
<1>5. CASE \E i \in DOMAIN ranges : Within(w, ranges[i])
                                    /\ p = <<ranges[i].ptr[1], ranges[i].ptr[2] + (w.off - ranges[i].off)>>
  <2>1. PICK i \in DOMAIN ranges : Within(w, ranges[i])
        /\ p = <<ranges[i].ptr[1], ranges[i].ptr[2] + (w.off - ranges[i].off)>>
    BY <1>5
  <2> DEFINE r == ranges[i]
             at == r.ptr[2] + (w.off - r.off)
             d == w.off - r.off
  <2>2. r \in RangeType /\ RangeHolds(r)
    <3>1. ranges \in Seq(RangeType)
      BY DEF TypesOk
    <3>2. \A k \in DOMAIN ranges : RangeHolds(ranges[k])
      BY DEF StorageOk, RangesHold
    <3> QED
      BY <2>1, <3>1, <3>2
  <2>3. r.m = w.m /\ r.off \in Nat /\ r.len \in Nat /\ r.ptr \in Int \X Nat /\ r.off <= w.off
        /\ w.off + w.len <= r.off + r.len
    BY <2>1, <2>2 DEF Within, RangeType, PtrType
  <2>4. p = <<r.ptr[1], at>>
    BY <2>1
  <2> HIDE DEF r
  <2>5. CASE r.kind = "host"
    <3>1. r.ptr = <<w.m, r.off>> /\ w.m \in MappedModels
      BY <2>2, <2>3, <2>5 DEF RangeHolds
    <3>2. at = w.off
      BY <1>1, <2>3, <3>1
    <3> QED
      BY <1>3, <2>4, <3>1, <3>2
  <2>6. CASE r.kind # "host"
    <3> DEFINE b == r.ptr[1]
    <3>1. b \in DOMAIN mem /\ HeldAt(mem[b], r.ptr[2], r)
      BY <2>2, <2>6 DEF RangeHolds
    <3>2. ASSUME NEW j \in 0 .. w.len - 1
          PROVE  at + j \in DOMAIN mem[b] /\ mem[b][at + j] = <<w.m, w.off + j>>
      <4> DEFINE k == d + j
      <4>1. k \in 0 .. r.len - 1 /\ r.ptr[2] + k = at + j /\ r.off + k = w.off + j
        BY <1>1, <2>3
      <4> HIDE DEF k, at
      <4> QED
        BY <2>3, <3>1, <4>1 DEF HeldAt
    <3>3. at + w.len - 1 \in DOMAIN mem[b]
      <4>1. w.len - 1 \in 0 .. w.len - 1 /\ at + (w.len - 1) = at + w.len - 1
        BY <1>1, <2>3
      <4> HIDE DEF at
      <4> QED
        BY <3>2, <4>1
    <3> HIDE DEF at
    <3> QED
      BY <2>4, <3>1, <3>2, <3>3 DEF UnitsAt, UnitsOf
  <2> QED
    BY <2>5, <2>6
<1> QED
  BY <1>3, <1>4, <1>5 DEF Source

\* An expanded copy leads to the units of its tensor.
LEMMA CopyReads ==
  ASSUME TypesOk, StorageOk, NEW w \in WeightType, NEW p, InFile(w),
         NEW k \in Kinds, WideSource(k, w, p)
  PROVE  UnitsAt(p, w.len) = UnitsOf(w)
<1>1. PICK i \in DOMAIN wide[k] :
        wide[k][i].m = w.m /\ wide[k][i].off = w.off /\ wide[k][i].len = w.len /\ p = <<wide[k][i].id, 0>>
  BY DEF WideSource
<1> DEFINE x == wide[k][i]
<1>2. HeldAt(mem[x.id], 0, x)
  BY DEF StorageOk, WidesHold, WideHolds
<1>3. x.id \in DOMAIN mem
  <2>1. x.id \in WideBuffers(k)
    BY DEF WideBuffers
  <2>2. WideBuffers(k) \subseteq OwnedBuffers
    BY DEF Kinds, OwnedBuffers
  <2> QED
    BY <2>1, <2>2 DEF StorageOk, BuffersOk
<1>4. x.m = w.m /\ x.off = w.off /\ x.len = w.len /\ p = <<x.id, 0>> /\ w.len \in Nat \ {0}
  BY <1>1 DEF WeightType, InFile
<1> HIDE DEF x
<1>5. \A j \in 0 .. w.len - 1 : 0 + j = j /\ j \in DOMAIN mem[x.id] /\ mem[x.id][j] = <<w.m, w.off + j>>
  BY <1>2, <1>4 DEF HeldAt
<1>6. w.len - 1 \in DOMAIN mem[x.id] /\ 0 + w.len - 1 = w.len - 1
  BY <1>4, <1>5
<1> QED
  BY <1>3, <1>4, <1>5, <1>6 DEF UnitsAt, UnitsOf

\* Every pointer a kernel is about to read leads to the units of its tensor.
LEMMA HeldReads ==
  ASSUME WeightAssumption, WeightInv
  PROVE  WeightsRead
<1> SUFFICES ASSUME NEW h \in held PROVE UnitsAt(h.ptr, h.w.len) = UnitsOf(h.w)
  BY DEF WeightsRead
<1>1. h.w \in WeightType /\ h.ptr \in PtrType /\ HoldOk(h) /\ phase # "closed"
  BY DEF WeightInv, TypesOk, ControlOk, HeldOk
<1>2. InFile(h.w)
  BY <1>1 DEF HoldOk
<1>3. CASE Source(h.w, h.ptr)
  BY <1>1, <1>2, <1>3, SourceReads DEF WeightInv
<1>4. CASE WideSource(KindOf(Head(todo).do), h.w, h.ptr)
  <2>1. KindOf(Head(todo).do) \in Kinds
    BY DEF KindOf, Kinds
  <2> QED
    BY <1>1, <1>2, <1>4, <2>1, CopyReads DEF WeightInv
<1> QED
  BY <1>1, <1>3, <1>4 DEF HoldOk

-----------------------------------------------------------------------------
(* What an action leaves alone. *)

\* An action that leaves the tables and the buffers alone.
LEMMA StorageFrame ==
  ASSUME StorageOk, UNCHANGED <<proc, ranges, arenas, wide, tmp, mem>>,
         g'.host = g.host, g'.base = g.base, g'.owned = g.owned, phase = "closed" => phase' = "closed"
  PROVE  StorageOk'
<1>1. /\ RangeBuffers' = RangeBuffers /\ ArenaBuffers' = ArenaBuffers /\ Scratches' = Scratches
      /\ OwnedBase' = OwnedBase
      /\ \A k : WideBuffers(k)' = WideBuffers(k)
  BY DEF RangeBuffers, ArenaBuffers, Scratches, OwnedBase, WideBuffers
<1>2. BuffersOk'
  <2>1. OwnedBuffers' = OwnedBuffers
    BY <1>1 DEF OwnedBuffers
  <2> QED
    BY <1>1, <2>1 DEF StorageOk, BuffersOk, Apart
<1>3. MapsHold' /\ BaseHolds'
  BY DEF StorageOk, MapsHold, BaseHolds, MappedModels
<1>4. RangesHold' /\ WidesHold'
  BY DEF StorageOk, RangesHold, WidesHold, RangeHolds, WideHolds, HeldAt, MappedModels
<1>5. ArenasHold' /\ ArenaRanges'
  BY DEF StorageOk, ArenasHold, ArenaHolds, ArenaRanges, InArena
<1> QED
  BY <1>2, <1>3, <1>4, <1>5 DEF StorageOk

\* Nothing is being uploaded: only where the copies land matters.
LEMMA TransferFrame ==
  ASSUME TransferOk, UNCHANGED <<ranges, arenas, queue>>, ~Uploading'
  PROVE  TransferOk'
<1>1. ASSUME NEW i \in DOMAIN queue PROVE CopyOk(queue[i])'
  <2>1. CopyOk(queue[i])
    BY DEF TransferOk, QueueOk
  <2> QED
    BY <2>1 DEF CopyOk, InArena, OffRanges, Disjoint
<1> QED
  BY <1>1 DEF TransferOk, QueueOk, UploadOk

\* Ranges are only appended, so a pointer into one stays valid.
LEMMA SourceStays ==
  ASSUME proc' = proc, g'.base = g.base, g'.host = g.host,
         \A i \in DOMAIN ranges : i \in DOMAIN ranges' /\ ranges'[i] = ranges[i],
         NEW w, NEW p, Source(w, p)
  PROVE  Source(w, p)'
BY DEF Source, MappedModels, Within

\* The same operation goes on, or the next step of it.
LEMMA HoldStays ==
  ASSUME proc' = proc, g'.base = g.base, g'.host = g.host,
         \A i \in DOMAIN ranges : i \in DOMAIN ranges' /\ ranges'[i] = ranges[i],
         NEW h, HoldOk(h), todo # <<>> => Head(todo).do \notin WithCopies
  PROVE  HoldOk(h)'
<1>1. InFile(h.w) /\ Source(h.w, h.ptr)
  BY DEF HoldOk
<1>2. Source(h.w, h.ptr)'
  BY <1>1, SourceStays
<1> QED
  BY <1>1, <1>2 DEF HoldOk, InFile

-----------------------------------------------------------------------------
(* What is left of an operation. *)

\* t is s without its first k steps.
SuffixOf(t, s, k) ==
  /\ t \in Seq(StepType) /\ k \in 1 .. Len(s)
  /\ DOMAIN t = 1 .. Len(s) - k /\ \A i \in 1 .. Len(s) - k : i + k \in DOMAIN s /\ t[i] = s[i + k]

\* What is left after a step.
LEMMA TailSuffix ==
  ASSUME NEW s \in Seq(StepType), s # <<>>
  PROVE  SuffixOf(Tail(s), s, 1) /\ 1 \in DOMAIN s /\ Head(s) = s[1] /\ Head(s) \in StepType
<1>1. Len(s) \in Nat \ {0} /\ DOMAIN s = 1 .. Len(s)
  OBVIOUS
<1>2. Tail(s) \in Seq(StepType) /\ Len(Tail(s)) = Len(s) - 1
      /\ \A i \in 1 .. Len(s) - 1 : Tail(s)[i] = s[i + 1]
  OBVIOUS
<1>3. 1 \in DOMAIN s /\ Head(s) = s[1]
  BY <1>1
<1>4. DOMAIN Tail(s) = 1 .. Len(s) - 1
  BY <1>2
<1> QED
  BY <1>1, <1>2, <1>3, <1>4 DEF SuffixOf

\* What is left after the first steps.
LEMMA SubSeqSuffix ==
  ASSUME NEW s \in Seq(StepType), NEW k \in 1 .. Len(s)
  PROVE  SuffixOf(SubSeq(s, 1 + k, Len(s)), s, k)
<1> DEFINE t == SubSeq(s, 1 + k, Len(s))
           n == Len(s)
<1>1. n \in Nat /\ DOMAIN s = 1 .. n
  OBVIOUS
<1>2. t \in Seq(StepType) /\ Len(t) = n - k /\ \A i \in 1 .. n - k : t[i] = s[(1 + k) + i - 1]
  <2> DEFINE m == 1 + k
  <2>1. m \in Int /\ n \in Int /\ \A i \in m .. n : s[i] \in StepType
    <3>1. \A i \in 1 .. n : s[i] \in StepType
      BY <1>1
    <3>2. k \in Nat \ {0}
      BY <1>1
    <3> HIDE DEF n
    <3>3. \A i \in m .. n : i \in 1 .. n
      BY <1>1, <3>2
    <3> QED
      BY <1>1, <3>1, <3>2, <3>3
  <2>2. n - m + 1 = n - k /\ (IF m <= n THEN n - m + 1 ELSE 0) = n - k
    <3>1. k \in 1 .. n /\ n \in Nat
      BY <1>1
    <3> HIDE DEF n
    <3> QED
      BY <3>1
  <2>3. t = SubSeq(s, m, n)
    OBVIOUS
  <2> HIDE DEF t, m, n
  <2>4. /\ SubSeq(s, m, n) \in Seq(StepType)
        /\ Len(SubSeq(s, m, n)) = IF m <= n THEN n - m + 1 ELSE 0
        /\ \A i \in 1 .. n - m + 1 : SubSeq(s, m, n)[i] = s[m + i - 1]
    BY <2>1, SubSeqProperties
  <2>5. \A i \in 1 .. n - k : t[i] = s[m + i - 1]
    BY <2>2, <2>3, <2>4
  <2> QED
    BY <2>2, <2>3, <2>4, <2>5 DEF m
<1>3. DOMAIN t = 1 .. n - k
  BY <1>2
<1> HIDE DEF t, n
<1>4. ASSUME NEW i \in 1 .. n - k PROVE i + k \in 1 .. n /\ t[i] = s[i + k]
  <2>1. (1 + k) + i - 1 = i + k /\ i + k \in 1 .. n
    BY <1>1
  <2> QED
    BY <1>2, <2>1
<1> QED
  BY <1>1, <1>2, <1>3, <1>4 DEF SuffixOf, t, n

\* ... of an operation that is served.
LEMMA SuffixServing ==
  ASSUME NEW s \in Seq(StepType), Serving(s), NEW t, NEW k, SuffixOf(t, s, k)
  PROVE  Serving(t) /\ \A i \in DOMAIN t : t[i].do \notin WithCopies
<1> DEFINE n == Len(s)
<1>1. n \in Nat /\ DOMAIN s = 1 .. n /\ k \in 1 .. n /\ DOMAIN t = 1 .. n - k
      /\ \A i \in 1 .. n - k : i + k \in DOMAIN s /\ t[i] = s[i + k]
  BY DEF SuffixOf
<1> HIDE DEF n
<1>2. ASSUME NEW i \in DOMAIN t
      PROVE  /\ t[i].do \in {"range", "kernel"} \cup Products \cup WithCopies
             /\ t[i].do \notin WithCopies
             /\ InFile(t[i].w) /\ t[i].w.m \in MappedModels
             /\ KernelLater(t, i)
  <2>1. i + k \in DOMAIN s /\ t[i] = s[i + k] /\ i + k # 1 /\ i \in Nat /\ k \in Nat
    BY <1>1
  <2>2. ASSUME t[i].do \in Products \cup WithCopies PROVE \E j \in DOMAIN t : j > i /\ t[j].do = "kernel"
    <3>1. PICK j \in DOMAIN s : j > i + k /\ s[j].do = "kernel"
      BY <2>1, <2>2 DEF Serving, KernelLater
    <3>2. j - k \in DOMAIN t /\ j - k > i /\ (j - k) + k = j
      BY <1>1, <2>1, <3>1
    <3>3. t[j - k] = s[j]
      BY <1>1, <3>2
    <3> QED
      BY <3>1, <3>2, <3>3
  <2> QED
    BY <2>1, <2>2 DEF Serving, KernelLater
<1> QED
  BY <1>2 DEF Serving

\* ... of the start.
LEMMA SuffixOpening ==
  ASSUME NEW s \in Seq(StepType), Opening(s), NEW t, NEW k, SuffixOf(t, s, k)
  PROVE  Opening(t)
<1> DEFINE n == Len(s)
<1>1. n \in Nat /\ DOMAIN s = 1 .. n /\ k \in 1 .. n /\ DOMAIN t = 1 .. n - k
      /\ \A i \in 1 .. n - k : i + k \in DOMAIN s /\ t[i] = s[i + k]
  BY DEF SuffixOf
<1> HIDE DEF n
<1>2. \A i \in DOMAIN t : i + k \in DOMAIN s /\ t[i] = s[i + k] /\ i + k # 1 /\ i \in Nat /\ k \in Nat
  BY <1>1
<1>3. \A i, j \in DOMAIN t : i + k = j + k => i = j
  BY <1>1
<1> QED
  BY <1>2, <1>3 DEF Opening

\* The head of what is left, and what the phase says about it.
LEMMA HeadFacts ==
  ASSUME WeightInv, todo # <<>>
  PROVE  /\ Next1 \in StepType /\ Next1 = todo[1] /\ 1 \in DOMAIN todo /\ phase # "closed"
         /\ Next1.w.m \in MappedModels
         /\ todo \in Seq(StepType) /\ SuffixOf(Tail(todo), todo, 1)
         /\ phase = "open" => Opening(todo) /\ Opening(Tail(todo))
              /\ Next1.do \in {"map", "managed", "span", "preload"}
         /\ phase = "serve" =>
              /\ Serving(todo) /\ Serving(Tail(todo))
              /\ Next1.do \in {"range", "kernel"} \cup Products \cup WithCopies
              /\ InFile(Next1.w)
         /\ phase \in {"open", "serve"}
<1>1. todo \in Seq(StepType)
  BY DEF WeightInv, TypesOk
<1>2. SuffixOf(Tail(todo), todo, 1) /\ 1 \in DOMAIN todo /\ Next1 = todo[1] /\ Next1 \in StepType
  BY <1>1, TailSuffix DEF Next1
<1>3. phase # "closed" /\ phase \in {"open", "serve"} /\ (phase = "open" => Opening(todo))
      /\ (phase = "serve" => Serving(todo))
  BY DEF WeightInv, TypesOk, ControlOk, TodoOk
<1>4. phase = "open" => Opening(Tail(todo)) /\ Next1.do \in {"map", "managed", "span", "preload"}
      /\ Next1.w.m \in MappedModels
  BY <1>1, <1>2, <1>3, SuffixOpening DEF Opening
<1>5. phase = "serve" => /\ Serving(Tail(todo)) /\ Next1.w.m \in MappedModels
                         /\ Next1.do \in {"range", "kernel"} \cup Products \cup WithCopies
                         /\ InFile(Next1.w)
  BY <1>1, <1>2, <1>3, SuffixServing DEF Serving
<1> QED
  BY <1>1, <1>2, <1>3, <1>4, <1>5

\* Serving depends on the process alone.
LEMMA ServingStays ==
  ASSUME NEW s, Serving(s), proc' = proc
  PROVE  Serving(s)'
BY DEF Serving, MappedModels, InFile, KernelLater

\* Opening depends on the process and the mapped model alone.
LEMMA OpeningStays ==
  ASSUME NEW s, Opening(s), proc' = proc, g'.host = g.host
  PROVE  Opening(s)'
BY DEF Opening, MappedModels, InFile

-----------------------------------------------------------------------------
(* The steps that leave the buffers alone. *)

\* ds4_engine_open() returns.
LEMMA OpenedKeeps ==
  ASSUME WeightInv, Opened
  PROVE  WeightInv'
<1>1. UNCHANGED <<proc, g, ranges, arenas, wide, tmp, mem, stage, queue, lookup, todo, held>>
  BY DEF Opened
<1>2. phase = "open" /\ phase' = "serve" /\ todo = <<>> /\ lookup = NoCall /\ held = {}
  BY DEF Opened, WeightInv, ControlOk, LookupOk, HeldOk
<1>3. TypesOk'
  BY <1>1, <1>2 DEF WeightInv, TypesOk
<1>4. StorageOk'
  BY <1>1, <1>2, StorageFrame DEF WeightInv
<1>5. TransferOk'
  <2>1. ~Uploading'
    BY <1>1, <1>2 DEF Uploading, NoCall
  <2> QED
    BY <1>1, <2>1, TransferFrame DEF WeightInv
<1>6. ControlOk'
  BY <1>1, <1>2 DEF ControlOk, LookupOk, HeldOk, TodoOk, Serving
<1> QED
  BY <1>3, <1>4, <1>5, <1>6 DEF WeightInv

\* A tensor operation is called.
LEMMA RunKeeps ==
  ASSUME WeightInv, KnownOperations, NEW op \in Operations, Run(op)
  PROVE  WeightInv'
<1>1. UNCHANGED <<proc, phase, g, ranges, arenas, wide, tmp, mem, stage, queue, lookup>>
  BY DEF Run
<1>2. phase = "serve" /\ todo' = op /\ held' = {} /\ lookup = NoCall
  BY DEF Run
<1>3. Plan(op)
  BY BuiltFacts DEF KnownOperations
<1>4. op \in Seq(StepType) /\ \A i \in DOMAIN op : op[i] \in StepType /\ op[i].w.m \in Models
  <2>1. op \in Seq(StepType)
    BY <1>3 DEF Plan, Workable
  <2>2. \A x \in StepType : x.w.m \in Models
    BY DEF StepType, WeightType
  <2>3. \A i \in DOMAIN op : op[i] \in StepType
    BY <2>1
  <2> QED
    BY <2>1, <2>2, <2>3
<1>5. TypesOk'
  BY <1>1, <1>2, <1>4 DEF WeightInv, TypesOk
<1>6. StorageOk'
  BY <1>1, StorageFrame DEF WeightInv
<1>7. TransferOk'
  <2>1. ~Uploading'
    BY <1>1, <1>2 DEF Uploading, NoCall
  <2> QED
    BY <1>1, <2>1, TransferFrame DEF WeightInv
<1>8. ASSUME NEW i \in DOMAIN op
      PROVE  /\ op[i].do \in {"range", "kernel"} \cup Products \cup WithCopies /\ op[i].do \notin WithCopies
             /\ InFile(op[i].w) /\ op[i].w.m \in MappedModels /\ KernelLater(op, i)
  <2>1. op[i].w.m \in MappedModels
    BY <1>4 DEF Run, Models, MappedModels
  <2>2. op[i].do \in {"range", "kernel"} \cup Products /\ InFile(op[i].w) /\ KernelLater(op, i)
    BY <1>3 DEF Plan, Workable
  <2> QED
    BY <2>1, <2>2 DEF Products, WithCopies
<1>9. Serving(op)
  BY <1>8 DEF Serving
<1>10. Serving(op)'
  BY <1>1, <1>9, ServingStays
<1>11. ControlOk'
  BY <1>1, <1>2, <1>10 DEF ControlOk, LookupOk, HeldOk, TodoOk
<1> QED
  BY <1>5, <1>6, <1>7, <1>11 DEF WeightInv

\* cuda_model_range_ptr() is called for a weight.
LEMMA AskRangeKeeps ==
  ASSUME WeightInv, AskRange
  PROVE  WeightInv'
<1>1. UNCHANGED <<proc, phase, g, ranges, arenas, wide, tmp, mem, stage, queue, todo, held>>
  BY DEF AskRange
<1>2. todo # <<>> /\ lookup = NoCall /\ Next1.do \in {"range", "span"}
  <2>1. lookup.step = "none" /\ todo # <<>> /\ Next1.do \in {"range", "span"}
    BY DEF AskRange, Idle
  <2> QED
    BY <2>1 DEF WeightInv, TypesOk, LookupType
<1>3. Next1 \in StepType /\ Next1.w.m \in MappedModels /\ phase # "closed"
  BY <1>2, HeadFacts
<1>4. lookup' = [step |-> "ask", w |-> Next1.w, dev |-> Null, copied |-> 0, chunk |-> 0, ptr |-> Null]
  BY DEF AskRange, Ask
<1>5. lookup' \in LookupType
  BY <1>3, <1>4 DEF LookupType, StepType, PtrType, Null
<1>6. TypesOk'
  BY <1>1, <1>5 DEF WeightInv, TypesOk
<1>7. StorageOk'
  BY <1>1, StorageFrame DEF WeightInv
<1>8. lookup'.step = "ask" /\ lookup'.w = Next1.w /\ lookup'.copied = 0 /\ lookup'.chunk = 0
  BY <1>4
<1>9. TransferOk'
  <2>1. ~Uploading'
    BY <1>8 DEF Uploading
  <2> QED
    BY <1>1, <2>1, TransferFrame DEF WeightInv
<1>10. ControlOk'
  <2>1. LookupOk'
    BY <1>1, <1>2, <1>3, <1>8 DEF LookupOk, Next1, Asking
  <2>2. HeldOk'
    BY <1>1 DEF WeightInv, ControlOk, HeldOk, HoldOk, Source, WideSource, MappedModels, Within, InFile
  <2>3. TodoOk'
    BY <1>1, <1>3, ServingStays, OpeningStays DEF WeightInv, ControlOk, TodoOk
  <2> QED
    BY <2>1, <2>2, <2>3 DEF ControlOk
<1> QED
  BY <1>6, <1>7, <1>9, <1>10 DEF WeightInv

\* cuda_model_range_cached_ptr() finds the units of the weight.
LEMMA CachedSource ==
  ASSUME WeightInv, NEW w \in WeightType, w.m \in MappedModels, NEW p \in CachedPtr(w)
  PROVE  p \in PtrType /\ Source(w, p)
<1> DEFINE exact == {i \in Newest(ranges, w.off) : ranges[i].m = w.m /\ w.len <= ranges[i].len}
           hits == {i \in DOMAIN ranges : Within(w, ranges[i]) \/ OnPages(w, ranges[i])}
<1>1. /\ ranges \in Seq(RangeType) /\ DOMAIN ranges \subseteq Nat
      /\ \A i \in DOMAIN ranges : ranges[i].ptr \in Int \X Nat /\ ranges[i].len \in Nat
                                  /\ ranges[i].off \in Nat
  <2>1. ranges \in Seq(RangeType)
    BY DEF WeightInv, TypesOk
  <2>2. \A r \in RangeType : r.ptr \in Int \X Nat /\ r.len \in Nat /\ r.off \in Nat
    BY DEF RangeType, PtrType
  <2>3. \A i \in DOMAIN ranges : ranges[i] \in RangeType
    BY <2>1
  <2> QED
    BY <2>1, <2>2, <2>3
<1>2. w.off \in Nat /\ w.len \in Nat /\ w.m \in Int
  BY DEF WeightType, Models, Main, Draft
<1>3. CASE exact # {}
  <2>1. PICK i \in exact : p = ranges[i].ptr
    BY <1>3 DEF CachedPtr
  <2>2. i \in DOMAIN ranges /\ ranges[i].off = w.off /\ ranges[i].m = w.m /\ w.len <= ranges[i].len
    BY <2>1 DEF Newest
  <2>3. ranges[i].ptr \in Int \X Nat /\ ranges[i].len \in Nat
    BY <1>1, <2>2
  <2>4. Within(w, ranges[i]) /\ w.off - ranges[i].off = 0
    BY <1>2, <2>2, <2>3 DEF Within
  <2>5. p = <<ranges[i].ptr[1], ranges[i].ptr[2] + (w.off - ranges[i].off)>>
    BY <2>1, <2>3, <2>4
  <2> QED
    BY <2>1, <2>2, <2>3, <2>4, <2>5 DEF Source, PtrType
<1>4. CASE exact = {}
  <2>1. hits # {} /\ p = (IF Within(w, ranges[Min(hits)])
                          THEN <<ranges[Min(hits)].ptr[1], ranges[Min(hits)].ptr[2] + w.off - ranges[Min(hits)].off>>
                          ELSE <<w.m, w.off>>)
    BY <1>4 DEF CachedPtr
  <2>2. Min(hits) \in hits
    <3>1. hits \subseteq Nat
      BY <1>1
    <3> HIDE DEF hits
    <3> QED
      BY <2>1, <3>1, LeastOf
  <2> DEFINE i == Min(hits)
  <2>3. i \in DOMAIN ranges
    BY <2>2
  <2> HIDE DEF i
  <2>4. CASE Within(w, ranges[i])
    <3> DEFINE r == ranges[i]
    <3>1. r.off \in Nat /\ r.ptr \in Int \X Nat /\ r.off <= w.off
      BY <1>1, <2>3, <2>4 DEF Within
    <3>2. p = <<r.ptr[1], r.ptr[2] + w.off - r.off>>
      BY <2>1, <2>4 DEF i
    <3> HIDE DEF r
    <3>3. r.ptr[2] + w.off - r.off = r.ptr[2] + (w.off - r.off) /\ r.ptr[2] + (w.off - r.off) \in Nat
      BY <1>2, <3>1
    <3> QED
      BY <2>3, <2>4, <3>1, <3>2, <3>3 DEF Source, PtrType, r
  <2>5. CASE ~Within(w, ranges[i])
    BY <1>2, <2>1, <2>5 DEF Source, PtrType, i
  <2> QED
    BY <2>4, <2>5
<1> QED
  BY <1>3, <1>4

-----------------------------------------------------------------------------
(* A lookup in progress. *)

\* What is known while a weight is looked up.
LEMMA LookupFacts ==
  ASSUME WeightInv, lookup.step # "none"
  PROVE  /\ lookup \in LookupType /\ lookup # NoCall /\ lookup.w \in WeightType
         /\ todo # <<>> /\ phase \in {"open", "serve"} /\ lookup.w = Next1.w /\ Next1.do \in Asking
         /\ lookup.w.m \in MappedModels /\ Next1.do \notin WithCopies
         /\ lookup.dev \in Nat \X Nat /\ lookup.copied \in Nat /\ lookup.chunk \in Nat
              /\ lookup.ptr \in PtrType
<1>1. lookup \in LookupType /\ lookup # NoCall
  BY DEF WeightInv, TypesOk, NoCall
<1>2. todo # <<>> /\ phase # "closed" /\ lookup.w = Next1.w /\ Next1.do \in Asking
  BY <1>1 DEF WeightInv, ControlOk, LookupOk, Next1
<1>3. phase \in {"open", "serve"} /\ Next1.w.m \in MappedModels
  BY <1>2, HeadFacts
<1>4. Next1.do \notin WithCopies
  BY <1>2 DEF Asking, WithCopies, Products
<1>5. /\ lookup.w \in WeightType /\ lookup.dev \in Nat \X Nat /\ lookup.copied \in Nat /\ lookup.chunk \in Nat
      /\ lookup.ptr \in PtrType
  BY <1>1 DEF LookupType
<1> QED
  BY <1>1, <1>2, <1>3, <1>4, <1>5

\* The pointer of a lookup comes from where it came from, after a step.
LEMMA SourceNext ==
  ASSUME NEW w, NEW p, lookup'.w = w, lookup'.ptr = p, Source(w, p)'
  PROVE  Source(lookup.w, lookup.ptr)'
BY DEF Source, MappedModels, Within

\* A step of a lookup leaves the rest of the operation as it is.
LEMMA LookupControl ==
  ASSUME WeightInv, UNCHANGED <<proc, phase, todo, held>>, g'.base = g.base, g'.host = g.host,
         g'.owned = g.owned,
         \A i \in DOMAIN ranges : i \in DOMAIN ranges' /\ ranges'[i] = ranges[i],
         lookup.step # "none", lookup'.w = lookup.w,
         lookup'.step \in {"ask", "fd"} => lookup'.copied = 0 /\ lookup'.chunk = 0,
         lookup'.step = "done" /\ lookup'.ptr # Null => Source(lookup.w, lookup.ptr)'
  PROVE  ControlOk'
<1>1. /\ todo # <<>> /\ phase \in {"open", "serve"} /\ lookup.w = Next1.w /\ Next1.do \in Asking
      /\ Next1.do \notin WithCopies
  BY LookupFacts
<1>2. LookupOk'
  <2>1. lookup'.w = Head(todo').w /\ todo' # <<>> /\ Head(todo').do \in Asking /\ phase' # "closed"
    BY <1>1 DEF Next1
  <2> QED
    BY <2>1 DEF LookupOk
<1>3. HeldOk'
  <2>1. \A h \in held : HoldOk(h)
    BY DEF WeightInv, ControlOk, HeldOk
  <2>2. ASSUME NEW h \in held PROVE HoldOk(h)'
    BY <1>1, <2>1, HoldStays DEF Next1
  <2> QED
    BY <2>2 DEF WeightInv, ControlOk, HeldOk
<1>4. TodoOk'
  BY <1>1, ServingStays, OpeningStays DEF WeightInv, ControlOk, TodoOk
<1> QED
  BY <1>2, <1>3, <1>4 DEF ControlOk

\* cuda_model_ptr() points into the mapping or into the base.
LEMMA ModelSource ==
  ASSUME WeightInv, NEW w \in WeightType, w.m \in MappedModels
  PROVE  ModelPtr(w) \in PtrType /\ Source(w, ModelPtr(w)) /\ <<w.m, w.off>> \in PtrType
         /\ Source(w, <<w.m, w.off>>)
<1>1. g.base \in Int /\ w.m \in Int /\ w.off \in Nat
  BY DEF WeightInv, TypesOk, GlobalsType, WeightType, Models, Main, Draft
<1> QED
  BY <1>1 DEF ModelPtr, Source, PtrType

\* cuda_model_range_ptr() looks in the base and in the ranges first.
LEMMA RangePtrKeeps ==
  ASSUME WeightInv, RangePtr
  PROVE  WeightInv'
<1>1. UNCHANGED <<proc, phase, g, ranges, arenas, wide, tmp, mem, stage, queue, todo, held>>
  BY DEF RangePtr
<1>2. lookup.step = "ask"
  BY DEF RangePtr
<1>3. lookup \in LookupType /\ lookup.w \in WeightType /\ lookup.w.m \in MappedModels
  BY <1>2, LookupFacts
<1>0. lookup.copied = 0 /\ lookup.chunk = 0
  BY <1>2 DEF WeightInv, ControlOk, LookupOk, NoCall
<1>4. \/ \E p \in PtrType : Source(lookup.w, p) /\ Served(p)
      \/ Turn("fd") \/ Turn("map")
  <2>1. CASE ReadDirectly
    BY <1>3, <2>1, ModelSource DEF RangePtr
  <2>2. CASE ~ReadDirectly /\ CachedPtr(lookup.w) # {}
    BY <1>3, <2>2, CachedSource DEF RangePtr
  <2>3. CASE ~ReadDirectly /\ CachedPtr(lookup.w) = {}
    BY <2>3 DEF RangePtr
  <2> QED
    BY <2>1, <2>2, <2>3
<1>5. /\ lookup' \in LookupType /\ lookup'.w = lookup.w /\ lookup'.step \in {"done", "fd", "map"}
      /\ lookup'.step = "done" => Source(lookup.w, lookup'.ptr)
      /\ lookup'.copied = lookup.copied /\ lookup'.chunk = lookup.chunk
  BY <1>3, <1>4 DEF Served, Turn, LookupType
<1>6. TypesOk'
  BY <1>1, <1>5 DEF WeightInv, TypesOk
<1>7. StorageOk'
  BY <1>1, StorageFrame DEF WeightInv
<1>8. TransferOk'
  <2>1. ~Uploading'
    BY <1>5 DEF Uploading
  <2> QED
    BY <1>1, <2>1, TransferFrame DEF WeightInv
<1>9. ControlOk'
  <2>1. ASSUME lookup'.step = "done" PROVE Source(lookup.w, lookup.ptr)'
    <3>1. PICK w, p : w = lookup.w /\ p = lookup'.ptr
      OBVIOUS
    <3>2. Source(w, p)
      BY <1>5, <2>1, <3>1
    <3>3. Source(w, p)'
      BY <1>1, <3>2, SourceStays
    <3> QED
      BY <1>5, <3>1, <3>3, SourceNext
  <2> QED
    BY <1>0, <1>1, <1>2, <1>5, <2>1, LookupControl
<1> QED
  BY <1>6, <1>7, <1>8, <1>9 DEF WeightInv

\* The next step of the same operation, with nothing looked up.
LEMMA NextControl ==
  ASSUME WeightInv, todo # <<>>, UNCHANGED <<proc, phase>>, g'.base = g.base, g'.host = g.host,
         g'.owned = g.owned,
         todo' = Tail(todo), lookup' = NoCall,
         \A h \in held' : HoldOk(h)', phase = "open" => held' = {}
  PROVE  ControlOk'
<1>1. /\ phase \in {"open", "serve"} /\ (phase = "serve" => Serving(Tail(todo)))
      /\ (phase = "open" => Opening(Tail(todo)))
  BY HeadFacts
<1>2. LookupOk'
  BY DEF LookupOk, NoCall
<1>3. HeldOk'
  BY <1>1 DEF HeldOk
<1>4. TodoOk'
  BY <1>1, ServingStays, OpeningStays DEF TodoOk
<1> QED
  BY <1>2, <1>3, <1>4 DEF ControlOk

\* The operation returns: nothing is left of it.
LEMMA AbortControl ==
  ASSUME WeightInv, UNCHANGED <<proc, phase>>, phase \in {"open", "serve"}, todo' = <<>>, held' = {},
         lookup' = NoCall
  PROVE  ControlOk'
BY DEF ControlOk, LookupOk, HeldOk, TodoOk, Serving, Opening, NoCall

\* The operation takes the pointer, or fails without one.
LEMMA TakeRangeKeeps ==
  ASSUME WeightInv, TakeRange
  PROVE  WeightInv'
<1>1. UNCHANGED <<proc, phase, g, ranges, arenas, wide, tmp, mem, stage, queue>>
  BY DEF TakeRange, Abort, Hold
<1>2. lookup.step = "done" /\ Next1.do = "range" /\ lookup' = NoCall
  BY DEF TakeRange
<1>3. /\ lookup \in LookupType /\ lookup.w \in WeightType /\ lookup.w = Next1.w /\ todo # <<>>
      /\ lookup.ptr \in PtrType
      /\ lookup # NoCall /\ Next1.do \notin WithCopies
  BY <1>2, LookupFacts
<1>4. /\ phase = "serve" /\ InFile(lookup.w) /\ todo \in Seq(StepType) /\ Tail(todo) \in Seq(StepType)
  BY <1>2, <1>3, HeadFacts DEF SuffixOf
<1>5. StorageOk'
  BY <1>1, StorageFrame DEF WeightInv
<1>6. TransferOk'
  <2>1. ~Uploading'
    BY <1>2 DEF Uploading, NoCall
  <2> QED
    BY <1>1, <2>1, TransferFrame DEF WeightInv
<1>7. CASE lookup.ptr = Null
  <2>1. todo' = <<>> /\ held' = {}
    BY <1>7 DEF TakeRange, Abort
  <2>2. TypesOk'
    BY <1>1, <1>2, <2>1 DEF WeightInv, TypesOk
  <2>3. ControlOk'
    BY <1>1, <1>2, <1>4, <2>1, AbortControl
  <2> QED
    BY <1>5, <1>6, <2>2, <2>3 DEF WeightInv
<1>8. CASE lookup.ptr # Null
  <2>0. PICK h0 : h0 = [w |-> lookup.w, ptr |-> lookup.ptr]
    OBVIOUS
  <2>1. todo' = Tail(todo) /\ held' = held \cup {h0}
    BY <1>8, <2>0 DEF TakeRange, Hold
  <2>2. h0 \in [w : WeightType, ptr : PtrType] /\ h0.w = lookup.w /\ h0.ptr = lookup.ptr
    BY <1>3, <2>0
  <2>3. TypesOk'
    BY <1>1, <1>2, <1>4, <2>1, <2>2 DEF WeightInv, TypesOk
  <2>4. Source(lookup.w, lookup.ptr)
    BY <1>2, <1>3, <1>8 DEF WeightInv, ControlOk, LookupOk
  <2>5. HoldOk(h0)'
    <3>1. PICK w, p : w = lookup.w /\ p = lookup.ptr
      OBVIOUS
    <3>2. Source(w, p)
      BY <2>4, <3>1
    <3>3. Source(w, p)'
      BY <1>1, <3>2, SourceStays
    <3>4. InFile(w) /\ h0.w = w /\ h0.ptr = p
      BY <1>4, <2>2, <3>1
    <3> QED
      BY <3>3, <3>4 DEF HoldOk, InFile
  <2>6. ASSUME NEW h \in held PROVE HoldOk(h)'
    <3>1. HoldOk(h)
      BY DEF WeightInv, ControlOk, HeldOk
    <3> QED
      BY <1>1, <1>3, <3>1, HoldStays DEF Next1
  <2>7. ControlOk'
    BY <1>1, <1>2, <1>3, <1>4, <2>1, <2>5, <2>6, NextControl
  <2> QED
    BY <1>5, <1>6, <2>3, <2>7 DEF WeightInv
<1> QED
  BY <1>7, <1>8

-----------------------------------------------------------------------------
(* Products over an expanded copy. *)

\* t is s with c for its first step.
Replaced(s, c, t) ==
  /\ t \in Seq(StepType) /\ t # <<>> /\ DOMAIN t = DOMAIN s /\ t[1] = c /\ Head(t) = c
  /\ \A i \in DOMAIN s : i # 1 => t[i] = s[i]

\* A product that goes on with the copy of its weight.
LEMMA HeadReplaced ==
  ASSUME NEW s \in Seq(StepType), s # <<>>, NEW c \in StepType
  PROVE  Replaced(s, c, <<c>> \o Tail(s))
<1> DEFINE a == <<c>>
           b == Tail(s)
           t == a \o b
           n == Len(s)
<1>1. a \in Seq(StepType) /\ Len(a) = 1 /\ a[1] = c
  OBVIOUS
<1>2. n \in Nat \ {0} /\ DOMAIN s = 1 .. n
  OBVIOUS
<1>3. b \in Seq(StepType) /\ Len(b) = n - 1 /\ \A i \in 1 .. n - 1 : b[i] = s[i + 1]
  OBVIOUS
<1> HIDE DEF a, b, n
<1>4. /\ t \in Seq(StepType) /\ DOMAIN t = 1 .. Len(a) + Len(b)
      /\ \A i \in 1 .. Len(a) : t[i] = a[i]
      /\ \A i \in 1 .. Len(b) : t[Len(a) + i] = b[i]
  <2>1. a \in Seq(StepType) /\ b \in Seq(StepType)
    BY <1>1, <1>3
  <2>2. Joined(StepType, a, b, t)
    BY <2>1, ConcatFacts
  <2> HIDE DEF t
  <2> QED
    BY <2>2 DEF Joined
<1> HIDE DEF t
<1>5. DOMAIN t = 1 .. n /\ t[1] = c
  BY <1>1, <1>2, <1>3, <1>4
<1>6. ASSUME NEW i \in 1 .. n, i # 1 PROVE t[i] = s[i]
  <2>1. i - 1 \in 1 .. n - 1 /\ 1 + (i - 1) = i /\ (i - 1) + 1 = i
    BY <1>2, <1>6
  <2> QED
    BY <1>1, <1>3, <1>4, <2>1
<1>7. t # <<>> /\ Head(t) = c
  BY <1>2, <1>4, <1>5
<1> QED
  BY <1>2, <1>4, <1>5, <1>6, <1>7 DEF Replaced, t, a, b

\* ... is still followed by its kernel.
LEMMA ReplacedServing ==
  ASSUME NEW s \in Seq(StepType), s # <<>>, Serving(s), s[1].do \in Products,
         NEW c \in StepType, c.do \in WithCopies, c.w = s[1].w, NEW t, Replaced(s, c, t)
  PROVE  Serving(t)
<1>1. 1 \in DOMAIN s /\ DOMAIN t = DOMAIN s /\ t[1] = c /\ \A i \in DOMAIN s : i # 1 => t[i] = s[i]
  BY DEF Replaced
<1>2. PICK k \in DOMAIN s : k > 1 /\ s[k].do = "kernel"
  BY <1>1 DEF Serving, KernelLater
<1>3. DOMAIN s \subseteq Nat
  OBVIOUS
<1>4. ASSUME NEW i \in DOMAIN t PROVE KernelLater(t, i)
  <2>1. CASE i = 1
    BY <1>1, <1>2, <1>3, <2>1 DEF KernelLater
  <2>2. CASE i # 1
    <3>1. SUFFICES ASSUME t[i].do \in Products \cup WithCopies PROVE KernelLater(t, i)
      BY DEF KernelLater
    <3>2. PICK j \in DOMAIN s : j > i /\ s[j].do = "kernel"
      BY <1>1, <2>2, <3>1 DEF Serving, KernelLater
    <3>3. j # 1
      <4>1. i >= 1 /\ i \in Nat /\ j \in Nat
        BY <1>1
      <4> QED
        BY <3>2, <4>1
    <3> QED
      BY <1>1, <3>2, <3>3 DEF KernelLater
  <2> QED
    BY <2>1, <2>2
<1>5. ASSUME NEW i \in DOMAIN t
      PROVE  /\ t[i].do \in {"range", "kernel"} \cup Products \cup WithCopies
             /\ (t[i].do \in WithCopies => i = 1)
             /\ InFile(t[i].w) /\ t[i].w.m \in MappedModels
  BY <1>1 DEF Serving
<1> QED
  BY <1>4, <1>5 DEF Serving

\* The steps that ask for an expanded copy.
WideAsked == {"preload"} \cup Products

\* The product over the expanded copy of a weight.
LEMMA WithCopyFacts ==
  ASSUME NEW s \in StepType, s.do \in Products
  PROVE  WithCopy(s) \in StepType /\ WithCopy(s).w = s.w /\ WithCopy(s).do \in WithCopies
         /\ KindOf(WithCopy(s).do) = Kind(s)
<1> DEFINE d == CASE s.do = "product32" -> "with_product32" [] s.do = "product16" -> "with_product16" [] OTHER -> "with_heads16"
<1>1. d \in WithCopies /\ KindOf(d) = Kind(s)
  BY DEF KindOf, Kind, WithCopies, Products
<1>2. WithCopy(s) = [s EXCEPT !.do = d]
  BY DEF WithCopy
<1> HIDE DEF d
<1>3. d \in Steps
  BY <1>1 DEF Steps
<1>4. WithCopy(s) \in StepType /\ WithCopy(s).w = s.w /\ WithCopy(s).do = d
  BY <1>2, <1>3 DEF StepType
<1> QED
  BY <1>1, <1>4

\* The operation goes on with the copy, which stays until its product.
LEMMA GotWideKeeps ==
  ASSUME WeightInv, todo # <<>>, Next1.do \in WideAsked, UNCHANGED <<proc, ranges>>,
         g'.base = g.base, g'.host = g.host, g'.owned = g.owned,
         NEW s, s = Next1, NEW id \in Nat, NEW k, k = Kind(s), GotWide(s, id),
         WideSource(k, s.w, <<id, 0>>)'
  PROVE  /\ ControlOk' /\ phase' = phase /\ lookup' = NoCall
         /\ todo' \in Seq(StepType) /\ \A h \in held' : h \in [w : WeightType, ptr : PtrType]
<1>1. /\ s \in StepType /\ s = todo[1] /\ phase \in {"open", "serve"} /\ todo \in Seq(StepType)
      /\ Tail(todo) \in Seq(StepType)
      /\ (phase = "serve" => Serving(todo) /\ Serving(Tail(todo)) /\ InFile(s.w))
      /\ (phase = "open" => s.do \in {"map", "managed", "span", "preload"})
      /\ (phase = "serve" => s.do \in {"range", "kernel"} \cup Products \cup WithCopies)
  BY HeadFacts DEF SuffixOf
<1>2. lookup' = NoCall /\ s.do \notin WithCopies /\ s.do \in WideAsked
  BY DEF GotWide, WideAsked, WithCopies, Products
<1>3. ASSUME NEW h \in held PROVE HoldOk(h)' /\ h \in [w : WeightType, ptr : PtrType]
  <2>1. HoldOk(h) /\ h \in [w : WeightType, ptr : PtrType]
    BY DEF WeightInv, ControlOk, HeldOk, TypesOk
  <2> QED
    BY <1>2, <2>1, HoldStays DEF Next1
<1>4. CASE s.do = "preload"
  <2>1. todo' = Tail(todo) /\ held' = held /\ phase' = phase
    BY <1>4 DEF GotWide, GoOn
  <2>2. phase = "open"
    BY <1>1, <1>4 DEF Products, WithCopies
  <2>3. held = {}
    BY <2>2 DEF WeightInv, ControlOk, HeldOk
  <2>4. ControlOk'
    BY <1>2, <2>1, <2>3, NextControl
  <2> QED
    BY <1>1, <1>2, <1>3, <2>1, <2>4
<1>5. CASE s.do # "preload"
  <2>0. s.do \in Products
    BY <1>2, <1>5 DEF WideAsked
  <2>1. PICK h0 : h0 = [w |-> s.w, ptr |-> <<id, 0>>]
    OBVIOUS
  <2>2. PICK c : c = WithCopy(s)
    OBVIOUS
  <2>3. c \in StepType /\ c.w = s.w /\ c.do \in WithCopies /\ KindOf(c.do) = k
    BY <1>1, <2>0, <2>2, WithCopyFacts
  <2>4. todo' = <<c>> \o Tail(todo) /\ held' = held \cup {h0} /\ phase' = phase
    BY <1>5, <2>1, <2>2 DEF GotWide, Hold
  <2>5. phase = "serve" /\ Serving(todo) /\ InFile(s.w)
    BY <1>1, <2>0 DEF Products
  <2>6. Replaced(todo, c, todo')
    BY <1>1, <2>3, <2>4, HeadReplaced
  <2>7. Serving(todo')
    <3>1. PICK t : t = todo'
      OBVIOUS
    <3>2. Serving(t)
      BY <1>1, <2>0, <2>3, <2>5, <2>6, <3>1, ReplacedServing
    <3> QED
      BY <3>1, <3>2
  <2>8. Serving(todo)'
    BY <2>7 DEF Serving, MappedModels, InFile, KernelLater
  <2>9. h0.w = s.w /\ h0.ptr = <<id, 0>> /\ h0 \in [w : WeightType, ptr : PtrType]
    <3>1. s.w \in WeightType
      BY <1>1 DEF StepType
    <3>2. <<id, 0>> \in PtrType
      BY DEF PtrType
    <3> QED
      BY <2>1, <3>1, <3>2
  <2>10. HoldOk(h0)'
    <3>1. todo' # <<>> /\ Head(todo').do \in WithCopies /\ KindOf(Head(todo').do) = k
      BY <2>3, <2>6 DEF Replaced
    <3>2. WideSource(k, h0.w, h0.ptr)'
      BY <2>9
    <3>3. InFile(h0.w)
      BY <2>5, <2>9
    <3> QED
      BY <3>1, <3>2, <3>3 DEF HoldOk, InFile
  <2>11. ControlOk'
    <3>1. LookupOk'
      BY <1>2 DEF LookupOk
    <3>2. HeldOk'
      BY <1>3, <2>4, <2>5, <2>10 DEF HeldOk
    <3>3. TodoOk'
      BY <2>4, <2>5, <2>8 DEF TodoOk
    <3> QED
      BY <3>1, <3>2, <3>3 DEF ControlOk
  <2> QED
    BY <1>2, <1>3, <2>4, <2>6, <2>9, <2>11 DEF Replaced
<1> QED
  BY <1>4, <1>5

\* No expanded copy is used: the product reads the quantized weight.
LEMMA NoWideKeeps ==
  ASSUME WeightInv, todo # <<>>, Next1.do \in WideAsked, UNCHANGED <<proc, ranges>>,
         g'.base = g.base, g'.host = g.host, g'.owned = g.owned, NoWide(Next1)
  PROVE  /\ ControlOk' /\ phase' = phase /\ lookup' = NoCall
         /\ todo' \in Seq(StepType) /\ \A h \in held' : h \in [w : WeightType, ptr : PtrType]
<1>1. todo' = Tail(todo) /\ held' = held /\ phase' = phase /\ lookup' = NoCall
  BY DEF NoWide, GoOn
<1>2. Tail(todo) \in Seq(StepType)
  BY HeadFacts DEF SuffixOf
<1>3. Next1.do \notin WithCopies
  BY DEF WideAsked, WithCopies, Products
<1>4. ASSUME NEW h \in held PROVE HoldOk(h)' /\ h \in [w : WeightType, ptr : PtrType]
  <2>1. HoldOk(h) /\ h \in [w : WeightType, ptr : PtrType]
    BY DEF WeightInv, ControlOk, HeldOk, TypesOk
  <2> QED
    BY <1>3, <2>1, HoldStays DEF Next1
<1>5. phase = "open" => held' = {}
  BY <1>1 DEF WeightInv, ControlOk, HeldOk
<1>6. ControlOk'
  BY <1>1, <1>4, <1>5, NextControl
<1> QED
  BY <1>1, <1>2, <1>4, <1>6

\* cuda_q8_f16_ptr() and cuda_q8_f32_ptr() find a copy, go on without one, or
\* look the weight up to expand it.
LEMMA AskWideKeeps ==
  ASSUME WeightInv, AskWide
  PROVE  WeightInv'
<1>1. UNCHANGED <<proc, g, ranges, arenas, wide, tmp, mem, stage, queue>>
  BY DEF AskWide
<1>2. todo # <<>> /\ lookup = NoCall /\ Next1.do \in WideAsked
  <2>1. lookup.step = "none" /\ todo # <<>> /\ WantsWide
    BY DEF AskWide, Idle
  <2>2. lookup = NoCall
    BY <2>1 DEF WeightInv, TypesOk, LookupType
  <2> QED
    BY <2>1, <2>2 DEF WantsWide, WideAsked, Products
<1>3. PICK s : s = Next1
  OBVIOUS
<1>4. s \in StepType /\ s.w \in WeightType /\ phase # "closed"
  BY <1>2, <1>3, HeadFacts DEF StepType
<1>5. \/ NoWide(Next1)
      \/ \E id \in WideHit(Kind(s), s.w) : GotWide(s, id)
      \/ Ask(s.w) /\ UNCHANGED <<phase, todo, held>>
  BY <1>3 DEF AskWide
<1>6. CASE Ask(s.w) /\ UNCHANGED <<phase, todo, held>>
  <2>1. lookup' = [step |-> "ask", w |-> s.w, dev |-> Null, copied |-> 0, chunk |-> 0, ptr |-> Null]
    BY <1>6 DEF Ask
  <2>2. lookup' \in LookupType /\ lookup'.step = "ask" /\ lookup'.w = s.w /\ lookup'.copied = 0
        /\ lookup'.chunk = 0
    BY <1>4, <2>1 DEF LookupType, PtrType, Null
  <2>3. TypesOk'
    BY <1>1, <1>6, <2>2 DEF WeightInv, TypesOk
  <2>4. StorageOk'
    BY <1>1, <1>6, StorageFrame DEF WeightInv
  <2>5. TransferOk'
    <3>1. ~Uploading'
      BY <2>2 DEF Uploading
    <3> QED
      BY <1>1, <3>1, TransferFrame DEF WeightInv
  <2>6. LookupOk'
    <3>1. s.do \in Asking /\ Head(todo') = s /\ todo' # <<>>
      BY <1>2, <1>3, <1>6 DEF Next1, WideAsked, Asking
    <3> QED
      BY <1>4, <1>6, <2>2, <3>1 DEF LookupOk
  <2>7. HeldOk'
    BY <1>1, <1>6 DEF WeightInv, ControlOk, HeldOk, HoldOk, Source, WideSource, MappedModels, Within, InFile
  <2>8. TodoOk'
    BY <1>1, <1>4, <1>6, ServingStays, OpeningStays DEF WeightInv, ControlOk, TodoOk
  <2> QED
    BY <2>3, <2>4, <2>5, <2>6, <2>7, <2>8 DEF WeightInv, ControlOk
<1>7. CASE NoWide(Next1) \/ \E id \in WideHit(Kind(s), s.w) : GotWide(s, id)
  <2>1. ASSUME NEW id \in WideHit(Kind(s), s.w), GotWide(s, id)
        PROVE  /\ ControlOk' /\ phase' = phase /\ lookup' = NoCall
               /\ todo' \in Seq(StepType) /\ \A h \in held' : h \in [w : WeightType, ptr : PtrType]
    <3>1. PICK k : k = Kind(s)
      OBVIOUS
    <3>2. k \in Kinds
      BY <3>1 DEF Kind, Kinds
    <3>3. PICK i \in DOMAIN wide[k] : wide[k][i].off = s.w.off /\ wide[k][i].m = s.w.m
          /\ wide[k][i].len = s.w.len /\ id = wide[k][i].id
      BY <2>1, <3>1 DEF WideHit, Newest
    <3>4. wide[k] \in Seq(WideType)
      BY <3>2 DEF WeightInv, TypesOk
    <3>5. id \in Nat
      <4>1. wide[k][i] \in WideType
        BY <3>3, <3>4
      <4> QED
        BY <3>3, <4>1 DEF WideType
    <3>6. WideSource(k, s.w, <<id, 0>>)'
      BY <1>1, <3>3 DEF WideSource
    <3> QED
      BY <1>1, <1>2, <1>3, <2>1, <3>1, <3>5, <3>6, GotWideKeeps
  <2>2. /\ ControlOk' /\ phase' = phase /\ lookup' = NoCall
        /\ todo' \in Seq(StepType) /\ \A h \in held' : h \in [w : WeightType, ptr : PtrType]
    BY <1>1, <1>2, <1>7, <2>1, NoWideKeeps
  <2>3. TypesOk'
    BY <1>1, <2>2 DEF WeightInv, TypesOk
  <2>4. StorageOk'
    BY <1>1, <2>2, StorageFrame DEF WeightInv
  <2>5. TransferOk'
    <3>1. ~Uploading'
      BY <2>2 DEF Uploading, NoCall
    <3> QED
      BY <1>1, <3>1, TransferFrame DEF WeightInv
  <2> QED
    BY <2>2, <2>3, <2>4, <2>5 DEF WeightInv
<1> QED
  BY <1>5, <1>6, <1>7

\* The types of the entries of the tables.
LEMMA EntryTypes ==
  ASSUME TypesOk
  PROVE  /\ \A i \in DOMAIN ranges :
              /\ ranges[i] \in RangeType /\ ranges[i].m \in Models /\ ranges[i].off \in Nat
                   /\ ranges[i].len \in Nat
              /\ ranges[i].ptr \in Int \X Nat /\ ranges[i].kind \in {"copy", "host", "arena"}
         /\ \A i \in DOMAIN arenas :
              arenas[i] \in ArenaType /\ arenas[i].id \in Nat \ {0} /\ arenas[i].units \in Nat
                /\ arenas[i].used \in Nat
         /\ \A i \in DOMAIN queue :
              /\ queue[i] \in CopyType /\ queue[i].dst \in (Nat \ {0}) \X Nat
                   /\ queue[i].bi \in 0 .. Stages - 1
              /\ queue[i].delta \in Nat /\ queue[i].n \in Nat \ {0}
         /\ \A k \in Kinds : \A i \in DOMAIN wide[k] :
              /\ wide[k][i] \in WideType /\ wide[k][i].id \in Nat \ {0} /\ wide[k][i].len \in Nat
<1>1. \A i \in DOMAIN ranges : ranges[i] \in RangeType
  BY DEF TypesOk
<1>2. \A i \in DOMAIN arenas : arenas[i] \in ArenaType
  BY DEF TypesOk
<1>3. \A i \in DOMAIN queue : queue[i] \in CopyType
  BY DEF TypesOk
<1>4. \A k \in Kinds : \A i \in DOMAIN wide[k] : wide[k][i] \in WideType
  <2> SUFFICES ASSUME NEW k \in Kinds PROVE \A i \in DOMAIN wide[k] : wide[k][i] \in WideType
    OBVIOUS
  <2>1. wide[k] \in Seq(WideType)
    BY DEF TypesOk
  <2> QED
    BY <2>1
<1>5. \A x \in RangeType : /\ x.m \in Models /\ x.off \in Nat /\ x.len \in Nat
                           /\ x.ptr \in Int \X Nat /\ x.kind \in {"copy", "host", "arena"}
  BY DEF RangeType, PtrType
<1>6. \A x \in ArenaType : x.id \in Nat \ {0} /\ x.units \in Nat /\ x.used \in Nat
  BY DEF ArenaType
<1>7. \A x \in CopyType : x.dst \in (Nat \ {0}) \X Nat /\ x.bi \in 0 .. Stages - 1 /\ x.delta \in Nat
                          /\ x.n \in Nat \ {0}
  BY DEF CopyType
<1>8. \A x \in WideType : x.id \in Nat \ {0} /\ x.len \in Nat
  BY DEF WideType
<1> QED
  BY <1>1, <1>2, <1>3, <1>4, <1>5, <1>6, <1>7, <1>8

-----------------------------------------------------------------------------
(* The end of a product. *)

\* A product ends and nothing is held.
LEMMA RestControl ==
  ASSUME proc' = proc, phase' = phase, phase = "serve", NEW t, Serving(t), todo' = t, held' = {},
         lookup' = NoCall
  PROVE  ControlOk'
<1>1. Serving(todo)'
  BY ServingStays DEF Serving, MappedModels, InFile, KernelLater
<1> QED
  BY <1>1 DEF ControlOk, LookupOk, HeldOk, TodoOk

\* What follows the kernel that an expanded copy replaces.
LEMMA AfterServing ==
  ASSUME WeightInv, todo # <<>>, Next1.do \in WithCopies
  PROVE  phase = "serve" /\ AfterProduct \in Seq(StepType) /\ Serving(AfterProduct)
<1>1. /\ phase = "serve" /\ Serving(todo) /\ todo \in Seq(StepType) /\ Next1 = todo[1] /\ 1 \in DOMAIN todo
  BY HeadFacts DEF WithCopies
<1> DEFINE K == {i \in DOMAIN todo : todo[i].do = "kernel"}
<1>2. K # {}
  BY <1>1 DEF Serving, KernelLater
<1>3. K \subseteq Nat /\ K \subseteq 1 .. Len(todo)
  BY <1>1
<1>4. Min(K) \in 1 .. Len(todo)
  <2> HIDE DEF K
  <2> QED
    BY <1>2, <1>3, LeastOf
<1>5. PICK k \in 1 .. Len(todo) : k = Min(K)
  BY <1>4
<1>6. AfterProduct = SubSeq(todo, 1 + k, Len(todo))
  BY <1>5 DEF AfterProduct
<1>7. SuffixOf(AfterProduct, todo, k)
  BY <1>1, <1>6, SubSeqSuffix
<1> QED
  BY <1>1, <1>7, SuffixServing DEF SuffixOf

\* No weight is being looked up.
LEMMA IdleFacts ==
  ASSUME WeightInv, Idle
  PROVE  lookup = NoCall /\ todo # <<>> /\ ~Uploading
<1>1. lookup.step = "none" /\ todo # <<>>
  BY DEF Idle
<1> QED
  BY <1>1 DEF WeightInv, TypesOk, LookupType, Uploading

\* A product over an f32 copy.
LEMMA Product32Keeps ==
  ASSUME WeightInv, Product32
  PROVE  WeightInv'
<1>1. UNCHANGED <<proc, g, ranges, arenas, wide, tmp, mem, stage, queue, lookup>> /\ phase' = phase
  BY DEF Product32, Abort
<1>2. todo # <<>> /\ lookup = NoCall /\ Next1.do \in WithCopies /\ ~Uploading
  BY IdleFacts DEF Product32, WithCopies
<1>3. phase = "serve" /\ AfterProduct \in Seq(StepType) /\ Serving(AfterProduct)
  BY <1>2, AfterServing
<1>4. held' = {} /\ (todo' = AfterProduct \/ todo' = <<>>)
  BY DEF Product32, Abort
<1>5. TypesOk'
  <2>1. todo' \in Seq(StepType)
    <3>1. <<>> \in Seq(StepType)
      OBVIOUS
    <3> QED
      BY <1>3, <1>4, <3>1
  <2> QED
    BY <1>1, <1>4, <2>1 DEF WeightInv, TypesOk
<1>6. StorageOk'
  BY <1>1, StorageFrame DEF WeightInv
<1>7. TransferOk'
  <2>1. ~Uploading'
    BY <1>1, <1>2 DEF Uploading
  <2> QED
    BY <1>1, <2>1, TransferFrame DEF WeightInv
<1>8. ControlOk'
  BY <1>1, <1>2, <1>3, <1>4, RestControl, AbortControl
<1> QED
  BY <1>5, <1>6, <1>7, <1>8 DEF WeightInv

-----------------------------------------------------------------------------
(* An upload. *)

\* The stage holds the chunk, delta units after its start.
LEMMA FillFacts ==
  ASSUME WeightAssumption, NEW off \in Nat, NEW n \in Nat \ {0}, n <= CopyChunk,
         NEW d, d = DirectRead(off, n)
  PROVE  /\ d.first \in Nat /\ d.size \in Nat /\ d.delta \in Nat /\ d.first + d.delta = off
         /\ d.fits => d.delta + n <= d.size /\ d.size <= StageUnits
         /\ n <= StageUnits /\ StageUnits \in Nat
<1>1. CopyChunk \in Nat \ {0} /\ Align \in Nat \ {0}
  BY DEF WeightAssumption
<1> DEFINE first == RoundedDown(off, Align)
           delta == off - first
           size == RoundedUp(delta + n, Align)
<1>2. first \in Nat /\ first <= off
  BY <1>1, RoundedFacts
<1> HIDE DEF first
<1>3. delta \in Nat /\ first + delta = off /\ delta + n \in Nat
  BY <1>2
<1> HIDE DEF delta
<1>4. size \in Nat /\ delta + n <= size
  <2> DEFINE v == delta + n
  <2>1. v \in Nat
    BY <1>3
  <2> HIDE DEF v
  <2>2. RoundedUp(v, Align) \in Nat /\ v <= RoundedUp(v, Align)
    BY <1>1, <2>1, RoundedFacts
  <2> QED
    BY <2>2 DEF v
<1>5. d.first = first /\ d.delta = delta /\ d.size = size /\ (d.fits => d.size <= StageUnits)
  BY DEF DirectRead, first, delta
<1> HIDE DEF size
<1> QED
  BY <1>1, <1>2, <1>3, <1>4, <1>5 DEF StageUnits

\* A part of the area of an upload.
LEMMA PartOfArea ==
  ASSUME TypesOk, NEW b, NEW at \in Nat, NEW len \in Nat, NEW k \in Nat, NEW n \in Nat, k + n <= len
  PROVE  /\ InArena(<<b, at>>, len) => InArena(<<b, at + k>>, n)
         /\ OffRanges(<<b, at>>, len) => OffRanges(<<b, at + k>>, n)
<1>1. ASSUME InArena(<<b, at>>, len) PROVE InArena(<<b, at + k>>, n)
  <2>1. PICK a \in DOMAIN arenas : arenas[a].id = b /\ at + len <= arenas[a].used
    BY <1>1 DEF InArena
  <2>2. arenas[a].used \in Nat
    BY EntryTypes
  <2>3. (at + k) + n <= arenas[a].used
    BY <2>1, <2>2
  <2> QED
    BY <2>1, <2>3 DEF InArena
<1>2. ASSUME OffRanges(<<b, at>>, len) PROVE OffRanges(<<b, at + k>>, n)
  <2>1. SUFFICES ASSUME NEW i \in DOMAIN ranges, ranges[i].kind # "host"
                 PROVE  Disjoint(ranges[i].ptr, ranges[i].len, <<b, at + k>>, n)
    BY DEF OffRanges
  <2>2. ranges[i].ptr[2] \in Nat /\ ranges[i].len \in Nat
    BY EntryTypes
  <2>3. Disjoint(ranges[i].ptr, ranges[i].len, <<b, at>>, len)
    BY <1>2, <2>1 DEF OffRanges
  <2> QED
    BY <2>2, <2>3 DEF Disjoint
<1> QED
  BY <1>1, <1>2

\* cuda_model_copy_chunked_from_fd(): a chunk is read into a stage and its copy is queued.
LEMMA UploadChunkKeeps ==
  ASSUME WeightAssumption, WeightInv, UploadChunk
  PROVE  WeightInv'
<1>1. UNCHANGED <<proc, phase, ranges, arenas, wide, tmp, mem, todo, held>>
  BY DEF UploadChunk
<1>2. /\ lookup.step = "upload" /\ lookup.copied < lookup.w.len
  BY DEF UploadChunk
<1>3. /\ lookup \in LookupType /\ lookup.w \in WeightType /\ lookup.dev \in Nat \X Nat
      /\ lookup.copied \in Nat
      /\ lookup.chunk \in Nat
  BY <1>2, LookupFacts
<1>4. PICK w, dev, copied, chunk : w = lookup.w /\ dev = lookup.dev /\ copied = lookup.copied
      /\ chunk = lookup.chunk
  OBVIOUS
<1>5. w.off \in Nat /\ w.len \in Nat /\ copied < w.len /\ copied \in Nat /\ chunk \in Nat
      /\ dev \in Nat \X Nat
  BY <1>2, <1>3, <1>4 DEF WeightType
<1>6. PICK n : n = Min({CopyChunk, w.len - copied})
  OBVIOUS
<1>7. n \in Nat \ {0} /\ n <= CopyChunk /\ n <= w.len - copied
  <2>1. CopyChunk \in Nat \ {0} /\ w.len - copied \in Nat \ {0}
    BY <1>5 DEF WeightAssumption
  <2> DEFINE left == w.len - copied
  <2> HIDE DEF left
  <2>2. Min({CopyChunk, left}) \in {CopyChunk, left} /\ Min({CopyChunk, left}) <= CopyChunk
        /\ Min({CopyChunk, left}) <= left
    BY <2>1, LeastOfTwo DEF left
  <2>3. n = Min({CopyChunk, left})
    BY <1>6 DEF left
  <2> QED
    BY <2>1, <2>2, <2>3 DEF left
<1>8. PICK bi : bi = chunk % Stages
  OBVIOUS
<1>9. bi \in 0 .. Stages - 1 /\ (chunk < Stages => bi = chunk)
  <2>1. Stages \in Nat \ {0}
    BY DEF WeightAssumption
  <2> QED
    BY <1>5, <1>8, <2>1
<1>10. PICK off : off = w.off + copied
  OBVIOUS
<1>11. off \in Nat
  BY <1>5, <1>10
<1>12. PICK d : d = DirectRead(off, n)
  OBVIOUS
<1>13. /\ d.first \in Nat /\ d.size \in Nat /\ d.delta \in Nat /\ d.first + d.delta = off
       /\ d.fits => d.delta + n <= d.size /\ d.size <= StageUnits
       /\ n <= StageUnits /\ StageUnits \in Nat
  BY <1>7, <1>11, <1>12, FillFacts
<1>14. /\ StageFree(bi)
       /\ \/ d.fits /\ Fill(bi, d.first, d.size) /\ Copy(bi, d.delta, n) /\ g' = g
          \/ Fill(bi, off, n) /\ Copy(bi, 0, n) /\ (g' = g \/ g' = [g EXCEPT !.direct = FALSE])
          \/ Turn("map") /\ g' = g /\ queue' = queue
       /\ \/ stage' = stage \/ \E f, s : Fill(bi, f, s)
  BY <1>4, <1>6, <1>8, <1>10, <1>12 DEF UploadChunk
<1>15. g' \in GlobalsType /\ g'.host = g.host /\ g'.base = g.base /\ g'.owned = g.owned
  <2>1. g \in GlobalsType
    BY DEF WeightInv, TypesOk
  <2> QED
    BY <1>14, <2>1 DEF GlobalsType
<1>16. DOMAIN stage' = 0 .. Stages - 1
  BY <1>14 DEF Fill, WeightInv, TypesOk
<1>17. StorageOk'
  BY <1>1, <1>15, StorageFrame DEF WeightInv
<1>18. CASE Turn("map") /\ queue' = queue
  <2>1. lookup' \in LookupType /\ lookup'.step = "map" /\ lookup'.w = lookup.w
    BY <1>3, <1>18 DEF Turn, LookupType
  <2>2. TypesOk'
    BY <1>1, <1>15, <1>16, <1>18, <2>1 DEF WeightInv, TypesOk
  <2>3. TransferOk'
    <3>1. ~Uploading'
      BY <2>1 DEF Uploading
    <3> QED
      BY <1>1, <1>18, <3>1, TransferFrame DEF WeightInv
  <2>4. ControlOk'
    BY <1>1, <1>2, <1>15, <2>1, LookupControl
  <2> QED
    BY <1>17, <2>2, <2>3, <2>4 DEF WeightInv
<1>19. CASE \E first \in Nat, size \in Nat, delta \in Nat :
              /\ first + delta = off /\ delta + n <= size /\ size <= StageUnits
              /\ Fill(bi, first, size) /\ Copy(bi, delta, n)
  <2>1. PICK first \in Nat, size \in Nat, delta \in Nat :
              /\ first + delta = off /\ delta + n <= size /\ size <= StageUnits
              /\ Fill(bi, first, size) /\ Copy(bi, delta, n)
    BY <1>19
  <2>2. PICK c : c = [dst |-> <<dev[1], dev[2] + copied>>, bi |-> bi, delta |-> delta, n |-> n]
    OBVIOUS
  <2>3. /\ c.dst = <<dev[1], dev[2] + copied>> /\ c.bi = bi /\ c.delta = delta /\ c.n = n
        /\ queue' = Append(queue, c)
    BY <1>4, <2>1, <2>2 DEF Copy
  <2>4. /\ lookup' \in LookupType /\ lookup'.step = "upload" /\ lookup'.w = w /\ lookup'.dev = dev
        /\ lookup'.copied = copied + n /\ lookup'.chunk = chunk + 1
    <3>1. lookup' = [lookup EXCEPT !.copied = @ + n, !.chunk = @ + 1]
      BY <2>1 DEF Copy
    <3>2. copied + n \in Nat /\ chunk + 1 \in Nat
      BY <1>5, <1>7
    <3> QED
      BY <1>2, <1>3, <1>4, <3>1, <3>2 DEF LookupType
  <2>5. \A j \in 0 .. n - 1 : stage'[bi][delta + j] = <<w.m, w.off + (copied + j)>>
    <3> SUFFICES ASSUME NEW j \in 0 .. n - 1 PROVE stage'[bi][delta + j] = <<w.m, w.off + (copied + j)>>
      OBVIOUS
    <3>1. stage'[bi] = [i \in 0 .. StageUnits - 1 |-> IF i < size THEN <<w.m, first + i>> ELSE stage[bi][i]]
      BY <1>4, <1>9, <2>1 DEF Fill, WeightInv, TypesOk
    <3> DEFINE i == delta + j
    <3>2. i \in 0 .. StageUnits - 1 /\ i < size /\ first + i = w.off + (copied + j)
      BY <1>5, <1>7, <1>10, <1>13, <2>1
    <3> HIDE DEF i
    <3>3. stage'[bi][i] = <<w.m, first + i>>
      BY <3>1, <3>2
    <3> QED
      BY <3>2, <3>3 DEF i
  <2>6. \A b \in 0 .. Stages - 1 : b # bi => stage'[b] = stage[b]
    BY <2>1 DEF Fill, WeightInv, TypesOk
  <2>7. queue \in Seq(CopyType) /\ Uploading /\ Uploading' /\ QueueOk /\ UploadOk
    BY <1>2, <2>4 DEF WeightInv, TypesOk, Uploading, TransferOk
  <2>8. UploadOk /\ InArena(dev, w.len) /\ OffRanges(dev, w.len)
    BY <1>4, <2>7 DEF UploadOk
  <2>9. dev[1] \in Nat \ {0} /\ dev[2] \in Nat /\ dev = <<dev[1], dev[2]>>
    <3>1. PICK a \in DOMAIN arenas : arenas[a].id = dev[1]
      BY <2>8 DEF InArena
    <3> QED
      BY <1>5, <3>1, EntryTypes DEF WeightInv
  <2>10. c \in CopyType
    <3>1. <<dev[1], dev[2] + copied>> \in (Nat \ {0}) \X Nat
      BY <1>5, <2>9
    <3> QED
      BY <1>7, <1>9, <2>1, <2>2, <3>1 DEF CopyType
  <2>11. queue' \in Seq(CopyType) /\ \A i \in DOMAIN queue' : (i \in DOMAIN queue /\ queue'[i] = queue[i])
                                                              \/ queue'[i] = c
    <3>1. Appended(CopyType, queue, c, queue')
      BY <2>3, <2>7, AppendFacts
    <3> QED
      BY <2>10, <3>1 DEF Appended
  <2>12. TypesOk'
    BY <1>1, <1>15, <1>16, <2>4, <2>11 DEF WeightInv, TypesOk
  <2>13. ASSUME NEW q, NEW i \in DOMAIN queue, q = queue[i], Part(q) PROVE Part(q)'
    <3>1. q.bi # bi
      <4>1. q.bi < chunk /\ q.bi \in Nat
        BY <1>4, <2>13, EntryTypes DEF Part, WeightInv
      <4>2. CASE chunk >= Stages
        BY <1>4, <1>14, <2>13, <4>2 DEF StageFree
      <4>3. CASE chunk < Stages
        BY <1>9, <4>1, <4>3
      <4>4. Stages \in Nat
        BY DEF WeightAssumption
      <4> QED
        BY <1>5, <4>2, <4>3, <4>4
    <3>2. q.bi \in 0 .. Stages - 1 /\ q.dst[2] \in Nat /\ q.n \in Nat
      BY <2>13, EntryTypes DEF WeightInv
    <3>3. stage'[q.bi] = stage[q.bi]
      BY <2>6, <3>1, <3>2
    <3>4. /\ q.dst[1] = dev[1] /\ dev[2] <= q.dst[2] /\ q.dst[2] + q.n <= dev[2] + copied /\ q.bi < chunk
          /\ \A j \in 0 .. q.n - 1 : stage[q.bi][q.delta + j] = <<w.m, w.off + (q.dst[2] - dev[2]) + j>>
      BY <1>4, <2>13 DEF Part
    <3>5. q.dst[2] + q.n <= dev[2] + (copied + n) /\ q.bi < chunk + 1
      BY <1>5, <1>7, <2>9, <3>2, <3>4
    <3> QED
      BY <1>16, <2>4, <3>2, <3>3, <3>4, <3>5 DEF Part
  <2>14. Part(c)'
    <3>1. /\ c.dst[1] = dev[1] /\ c.dst[2] = dev[2] + copied /\ c.dst[2] - dev[2] = copied
          /\ dev[2] <= c.dst[2] /\ c.dst[2] + n <= dev[2] + (copied + n) /\ bi < chunk + 1
      <4> DEFINE at == dev[2]
      <4>1. c.dst[1] = dev[1] /\ c.dst[2] = at + copied
        BY <2>3
      <4>2. at \in Nat
        BY <2>9
      <4> HIDE DEF at
      <4>3. (at + copied) - at = copied /\ at <= at + copied /\ (at + copied) + n <= at + (copied + n)
        BY <1>5, <1>7, <4>2
      <4>4. bi < chunk + 1
        <5>1. Stages \in Nat \ {0}
          BY DEF WeightAssumption
        <5> QED
          BY <1>5, <1>9, <5>1
      <4> QED
        BY <4>1, <4>3, <4>4 DEF at
    <3>2. \A j \in 0 .. n - 1 : w.off + (copied + j) = w.off + copied + j
      BY <1>5
    <3>3. bi \in DOMAIN stage'
      BY <1>9, <1>16
    <3>4. \A j \in 0 .. n - 1 : stage'[bi][delta + j] = <<w.m, w.off + copied + j>>
      BY <2>5, <3>2
    <3>5. c.bi = bi /\ c.delta = delta /\ c.n = n
      BY <2>3
    <3>6. lookup'.w = w /\ lookup'.dev = dev /\ lookup'.copied = copied + n /\ lookup'.chunk = chunk + 1
      BY <2>4
    <3> QED
      BY <3>1, <3>3, <3>4, <3>5, <3>6 DEF Part
  <2>15. ASSUME NEW q, NEW i \in DOMAIN queue, q = queue[i] PROVE CopyOk(q)'
    <3>1. CopyOk(q)
      BY <2>7, <2>15 DEF QueueOk
    <3>2. InArena(q.dst, q.n)' /\ OffRanges(q.dst, q.n)'
      BY <1>1, <3>1 DEF CopyOk, InArena, OffRanges, Disjoint
    <3>3. Disjoint(q.dst, q.n, dev, w.len) \/ Part(q)
      BY <1>4, <2>7, <3>1 DEF CopyOk
    <3>4. Disjoint(q.dst, q.n, lookup.dev, lookup.w.len)' \/ Part(q)'
      BY <2>4, <2>13, <2>15, <3>3 DEF Disjoint
    <3> QED
      BY <3>2, <3>4 DEF CopyOk
  <2>16. CopyOk(c)'
    <3>1. InArena(c.dst, c.n) /\ OffRanges(c.dst, c.n)
      <4> DEFINE b == dev[1]
                 at == dev[2]
                 len == w.len
      <4>1. at \in Nat /\ len \in Nat /\ copied + n <= len
        BY <1>5, <1>7, <2>9
      <4>2. InArena(<<b, at>>, len) /\ OffRanges(<<b, at>>, len)
        BY <2>8, <2>9
      <4> HIDE DEF b, at, len
      <4>3. InArena(<<b, at + copied>>, n) /\ OffRanges(<<b, at + copied>>, n)
        BY <1>5, <1>7, <4>1, <4>2, PartOfArea DEF WeightInv
      <4> QED
        BY <2>3, <4>3 DEF b, at
    <3>2. InArena(c.dst, c.n)' /\ OffRanges(c.dst, c.n)'
      BY <1>1, <3>1 DEF InArena, OffRanges, Disjoint
    <3> QED
      BY <2>14, <3>2 DEF CopyOk
  <2>17. QueueOk'
    BY <2>11, <2>15, <2>16 DEF QueueOk
  <2>18. ASSUME NEW j \in 0 .. copied + n - 1 PROVE Arrives(j)'
    <3>1. CASE j < copied
      <4>1. Arrives(j)
        BY <1>4, <1>5, <2>7, <3>1 DEF UploadOk
      <4>2. CASE mem[dev[1]][dev[2] + j] = <<w.m, w.off + j>>
        BY <1>1, <2>4, <4>2 DEF Arrives
      <4>3. CASE \E i \in DOMAIN queue : Part(queue[i]) /\ Covers(queue[i], dev[2] + j)
        <5>1. PICK i \in DOMAIN queue : Part(queue[i]) /\ Covers(queue[i], dev[2] + j)
          BY <4>3
        <5>2. PICK q : q = queue[i]
          OBVIOUS
        <5>3. Part(q)' /\ Covers(q, dev[2] + j)
          BY <2>13, <5>1, <5>2
        <5>4. i \in DOMAIN queue' /\ queue'[i] = q
          <6>1. Appended(CopyType, queue, c, queue')
            BY <2>3, <2>7, AppendFacts
          <6> QED
            BY <5>2, <6>1 DEF Appended
        <5> QED
          BY <2>4, <5>3, <5>4 DEF Arrives, Part, Covers
      <4> QED
        BY <1>4, <4>1, <4>2, <4>3 DEF Arrives
    <3>2. CASE j >= copied
      <4>1. Covers(c, dev[2] + j)
        <5>1. c.dst[2] = dev[2] + copied /\ c.n = n /\ dev[2] \in Nat
          BY <2>3, <2>9
        <5>2. j < copied + n /\ j \in Nat
          BY <1>5, <1>7
        <5>3. dev[2] + copied <= dev[2] + j /\ dev[2] + j < (dev[2] + copied) + n
          BY <1>5, <1>7, <3>2, <5>1, <5>2
        <5> QED
          BY <5>1, <5>3 DEF Covers
      <4>2. PICK i \in DOMAIN queue' : queue'[i] = c
        <5>1. Len(queue) + 1 \in DOMAIN queue' /\ queue'[Len(queue) + 1] = c
          <6>1. Appended(CopyType, queue, c, queue')
            BY <2>3, <2>7, AppendFacts
          <6> QED
            BY <6>1 DEF Appended
        <5> QED
          BY <5>1
      <4> QED
        BY <2>4, <2>14, <4>1, <4>2 DEF Arrives, Part, Covers
    <3> QED
      BY <1>5, <1>7, <3>1, <3>2
  <2>19. UploadOk'
    <3>1. InArena(dev, w.len)' /\ OffRanges(dev, w.len)'
      BY <1>1, <2>8 DEF InArena, OffRanges, Disjoint
    <3>2. InArena(lookup.dev, lookup.w.len)' /\ OffRanges(lookup.dev, lookup.w.len)'
      BY <1>1, <2>4, <2>8 DEF InArena, OffRanges, Disjoint
    <3>3. copied + n <= w.len
      BY <1>5, <1>7
    <3>4. lookup'.copied <= lookup'.w.len
      BY <2>4, <3>3
    <3>5. \A j \in 0 .. lookup'.copied - 1 : Arrives(j)'
      <4>1. 0 .. lookup'.copied - 1 = 0 .. copied + n - 1
        <5>1. PICK x : x = lookup'.copied
          OBVIOUS
        <5>2. x = copied + n
          BY <2>4, <5>1
        <5> QED
          BY <1>5, <1>7, <5>1, <5>2
      <4>2. \A j \in 0 .. copied + n - 1 : Arrives(j)'
        BY <2>18
      <4> QED
        BY <4>1, <4>2
    <3> QED
      BY <3>2, <3>4, <3>5 DEF UploadOk
  <2>20. ControlOk'
    BY <1>1, <1>2, <1>4, <1>15, <2>4, LookupControl
  <2> QED
    BY <1>17, <2>12, <2>17, <2>19, <2>20 DEF WeightInv, TransferOk
<1>20. QED
  <2>1. ASSUME Fill(bi, off, n), Copy(bi, 0, n)
        PROVE  \E first \in Nat, size \in Nat, delta \in Nat :
              /\ first + delta = off /\ delta + n <= size /\ size <= StageUnits
              /\ Fill(bi, first, size) /\ Copy(bi, delta, n)
    <3>1. off + 0 = off /\ 0 + n <= n /\ 0 \in Nat /\ n \in Nat
      BY <1>7, <1>11
    <3> QED
      BY <1>11, <1>13, <2>1, <3>1
  <2>2. ASSUME d.fits, Fill(bi, d.first, d.size), Copy(bi, d.delta, n)
        PROVE  \E first \in Nat, size \in Nat, delta \in Nat :
              /\ first + delta = off /\ delta + n <= size /\ size <= StageUnits
              /\ Fill(bi, first, size) /\ Copy(bi, delta, n)
    BY <1>13, <2>2
  <2> QED
    BY <1>14, <1>18, <1>19, <2>1, <2>2

-----------------------------------------------------------------------------
(* A copy lands. *)

\* The tables name the buffers they named.
LEMMA OwnedKept ==
  ASSUME UNCHANGED <<ranges, arenas, wide, tmp>>, g'.base = g.base, g'.owned = g.owned
  PROVE  /\ RangeBuffers' = RangeBuffers /\ ArenaBuffers' = ArenaBuffers /\ Scratches' = Scratches
         /\ OwnedBase' = OwnedBase
         /\ WideBuffers("f16")' = WideBuffers("f16") /\ WideBuffers("f32")' = WideBuffers("f32")
         /\ OwnedBuffers' = OwnedBuffers
BY DEF RangeBuffers, ArenaBuffers, Scratches, OwnedBase, WideBuffers, OwnedBuffers

\* The buffers of the tables, in one family each.
LEMMA FamilyFacts ==
  ASSUME TypesOk, StorageOk
  PROVE  /\ \A i \in DOMAIN arenas : arenas[i].id \in ArenaBuffers /\ arenas[i].id \in DOMAIN mem
         /\ \A i \in DOMAIN ranges : ranges[i].kind = "copy" => ranges[i].ptr[1] \in RangeBuffers
         /\ \A i \in DOMAIN ranges : ranges[i].kind = "arena" => ranges[i].ptr[1] \in ArenaBuffers
         /\ \A k \in Kinds : \A i \in DOMAIN wide[k] : wide[k][i].id \in WideBuffers(k)
                                                       /\ wide[k][i].id \in DOMAIN mem
         /\ g.owned => g.base \in OwnedBase
         /\ \A b \in ArenaBuffers :
              b \in Nat \ {0} /\ b \notin RangeBuffers /\ b \notin OwnedBase
                /\ \A k \in Kinds : b \notin WideBuffers(k)
         /\ \A b \in MappedModels : b \in Int /\ b < 0
<1>1. OwnedBuffers \subseteq DOMAIN mem
      /\ Apart(RangeBuffers, ArenaBuffers, WideBuffers("f16"), WideBuffers("f32"), Scratches, OwnedBase)
  BY DEF StorageOk, BuffersOk
<1>2. /\ \A i \in DOMAIN arenas : arenas[i].id \in ArenaBuffers
      /\ \A b \in ArenaBuffers : b \in Nat \ {0}
  BY EntryTypes DEF ArenaBuffers
<1>3. \A i \in DOMAIN ranges : ranges[i].kind = "copy" => ranges[i].ptr[1] \in RangeBuffers
  BY DEF RangeBuffers
<1>4. \A i \in DOMAIN ranges : ranges[i].kind = "arena" => ranges[i].ptr[1] \in ArenaBuffers
  BY DEF StorageOk, ArenaRanges, InArena, ArenaBuffers
<1>5. \A k \in Kinds : \A i \in DOMAIN wide[k] : wide[k][i].id \in WideBuffers(k)
  BY DEF WideBuffers
<1>6. \A k \in Kinds : WideBuffers(k) \subseteq OwnedBuffers /\ ArenaBuffers \subseteq OwnedBuffers
  BY DEF Kinds, OwnedBuffers
<1>7. \A b \in ArenaBuffers : b \notin RangeBuffers /\ b \notin OwnedBase
                              /\ \A k \in Kinds : b \notin WideBuffers(k)
  BY <1>1 DEF Apart, Kinds
<1>8. \A b \in MappedModels : b \in Int /\ b < 0
  BY DEF MappedModels, Main, Draft
<1>9. g.owned => g.base \in OwnedBase
  BY DEF OwnedBase
<1>10. \A i \in DOMAIN arenas : arenas[i].id \in DOMAIN mem
  BY <1>1, <1>2 DEF OwnedBuffers
<1>11. \A k \in Kinds : \A i \in DOMAIN wide[k] : wide[k][i].id \in DOMAIN mem
  BY <1>1, <1>5, <1>6
<1>12. /\ \A i \in DOMAIN arenas : arenas[i].id \in ArenaBuffers /\ arenas[i].id \in DOMAIN mem
       /\ \A k \in Kinds : \A i \in DOMAIN wide[k] : wide[k][i].id \in WideBuffers(k)
                                                     /\ wide[k][i].id \in DOMAIN mem
  BY <1>2, <1>5, <1>10, <1>11
<1>13. \A b \in ArenaBuffers :
         b \in Nat \ {0} /\ b \notin RangeBuffers /\ b \notin OwnedBase
           /\ \A k \in Kinds : b \notin WideBuffers(k)
  BY <1>2, <1>7
<1> QED
  BY <1>3, <1>4, <1>8, <1>9, <1>12, <1>13

\* A buffer after a copy has landed in it.
LEMMA LandedFacts ==
  ASSUME TypesOk, StorageOk, NEW q, q.dst[1] \in DOMAIN mem, mem' = AfterCopy(mem, q)
  PROVE  /\ DOMAIN mem' = DOMAIN mem
         /\ \A b \in DOMAIN mem : b # q.dst[1] => mem'[b] = mem[b]
         /\ DOMAIN mem'[q.dst[1]] = DOMAIN mem[q.dst[1]]
         /\ \A i \in DOMAIN mem[q.dst[1]] :
              mem'[q.dst[1]][i] = IF i \in q.dst[2] .. q.dst[2] + q.n - 1 THEN stage[q.bi][q.delta + i - q.dst[2]]
                                  ELSE mem[q.dst[1]][i]
<1> DEFINE b == q.dst[1]
           image == [i \in DOMAIN mem[b] |-> IF i \in q.dst[2] .. q.dst[2] + q.n - 1
                                             THEN stage[q.bi][q.delta + i - q.dst[2]] ELSE mem[b][i]]
<1>1. mem' = [mem EXCEPT ![b] = image]
  BY DEF AfterCopy
<1>2. mem'[b] = image
  BY <1>1
<1>3. /\ DOMAIN image = DOMAIN mem[b]
      /\ \A i \in DOMAIN mem[b] : image[i] = IF i \in q.dst[2] .. q.dst[2] + q.n - 1
                                             THEN stage[q.bi][q.delta + i - q.dst[2]] ELSE mem[b][i]
  OBVIOUS
<1> HIDE DEF image, b
<1>4. DOMAIN mem' = DOMAIN mem /\ \A c \in DOMAIN mem : c # b => mem'[c] = mem[c]
  BY <1>1
<1> QED
  BY <1>2, <1>3, <1>4 DEF b

\* A queued copy writes where no range is.
LEMMA CopyLandsStores ==
  ASSUME WeightInv, CopyLands
  PROVE  StorageOk'
<1>1. UNCHANGED <<proc, phase, g, ranges, arenas, wide, tmp, stage>>
  BY DEF CopyLands
<1>2. PICK q : q = Head(queue)
  OBVIOUS
<1>3. mem' = AfterCopy(mem, q) /\ 1 \in DOMAIN queue /\ q = queue[1]
  BY <1>2 DEF CopyLands, WeightInv, TypesOk
<1>4. TypesOk /\ StorageOk /\ CopyOk(q) /\ q.dst \in (Nat \ {0}) \X Nat /\ q.n \in Nat \ {0}
  BY <1>3, EntryTypes DEF WeightInv, TransferOk, QueueOk
<1>5. PICK b, at, n : b = q.dst[1] /\ at = q.dst[2] /\ n = q.n
  OBVIOUS
<1>6. b \in ArenaBuffers /\ b \in DOMAIN mem /\ b \in Nat \ {0} /\ at \in Nat /\ n \in Nat \ {0}
  BY <1>4, <1>5, FamilyFacts DEF CopyOk, InArena
<1>7. /\ DOMAIN mem' = DOMAIN mem
      /\ \A c \in DOMAIN mem : c # b => mem'[c] = mem[c]
      /\ DOMAIN mem'[b] = DOMAIN mem[b]
      /\ \A i \in DOMAIN mem[b] : i \notin at .. at + n - 1 => mem'[b][i] = mem[b][i]
  BY <1>3, <1>4, <1>5, <1>6, LandedFacts
<1>8. BuffersOk'
  <2>1. /\ RangeBuffers' = RangeBuffers /\ ArenaBuffers' = ArenaBuffers /\ Scratches' = Scratches
        /\ OwnedBase' = OwnedBase
        /\ WideBuffers("f16")' = WideBuffers("f16") /\ WideBuffers("f32")' = WideBuffers("f32")
        /\ OwnedBuffers' = OwnedBuffers
    BY <1>1, OwnedKept
  <2> QED
    BY <1>1, <1>4, <1>7, <2>1 DEF StorageOk, BuffersOk, Apart
<1>9. b \notin MappedModels /\ b \notin OwnedBase /\ b \notin RangeBuffers
      /\ \A k \in Kinds : b \notin WideBuffers(k)
  BY <1>4, <1>6, FamilyFacts
<1>10. MapsHold' /\ BaseHolds'
  <2>1. MappedModels' = MappedModels
    BY <1>1 DEF MappedModels
  <2>2. MapsHold'
    BY <1>1, <1>4, <1>7, <1>9, <2>1 DEF StorageOk, MapsHold
  <2>3. BaseHolds /\ (g.base # 0 => g.base # b)
    BY <1>4, <1>9, FamilyFacts DEF StorageOk, BaseHolds
  <2>4. BaseHolds'
    BY <1>1, <1>7, <2>1, <2>3 DEF BaseHolds
  <2> QED
    BY <2>2, <2>4
<1>11. RangesHold'
  <2>1. SUFFICES ASSUME NEW i \in DOMAIN ranges, NEW r, r = ranges[i] PROVE RangeHolds(r)'
    BY <1>1 DEF RangesHold
  <2>2. RangeHolds(r) /\ r.ptr \in Int \X Nat /\ r.len \in Nat /\ r.kind \in {"copy", "host", "arena"}
    BY <1>4, <2>1, EntryTypes DEF StorageOk, RangesHold
  <2>3. CASE r.kind = "host"
    BY <1>1, <2>2, <2>3 DEF RangeHolds, MappedModels
  <2>4. CASE r.kind # "host" /\ r.ptr[1] # b
    BY <1>7, <2>2, <2>4 DEF RangeHolds, HeldAt
  <2>5. CASE r.kind # "host" /\ r.ptr[1] = b
    <3>1. Disjoint(r.ptr, r.len, q.dst, q.n)
      BY <1>4, <2>1, <2>5 DEF CopyOk, OffRanges
    <3>2. r.ptr[2] + r.len <= at \/ at + n <= r.ptr[2]
      BY <1>5, <2>5, <3>1 DEF Disjoint
    <3>3. \A j \in 0 .. r.len - 1 : r.ptr[2] + j \notin at .. at + n - 1
      BY <1>6, <2>2, <3>2
    <3>4. HeldAt(mem[b], r.ptr[2], r)
      BY <2>2, <2>5 DEF RangeHolds
    <3>5. HeldAt(mem[b], r.ptr[2], r)'
      <4>1. \A j \in 0 .. r.len - 1 : r.ptr[2] + j \in DOMAIN mem[b]
                                      /\ mem[b][r.ptr[2] + j] = <<r.m, r.off + j>>
        BY <3>4 DEF HeldAt
      <4>2. \A j \in 0 .. r.len - 1 : r.ptr[2] + j \in DOMAIN mem'[b]
                                      /\ mem'[b][r.ptr[2] + j] = <<r.m, r.off + j>>
        BY <1>7, <3>3, <4>1
      <4> QED
        BY <4>2 DEF HeldAt
    <3> QED
      BY <1>6, <1>7, <2>5, <3>5 DEF RangeHolds
  <2> QED
    BY <2>3, <2>4, <2>5
<1>12. WidesHold'
  <2>1. SUFFICES ASSUME NEW k \in Kinds, NEW i \in DOMAIN wide[k], NEW x, x = wide[k][i] PROVE WideHolds(x)'
    BY <1>1 DEF WidesHold
  <2>2. WideHolds(x) /\ x.id # b /\ x.id \in DOMAIN mem
    BY <1>4, <1>9, <2>1, FamilyFacts DEF StorageOk, WidesHold
  <2> QED
    BY <1>7, <2>2 DEF WideHolds, HeldAt
<1>13. ArenasHold'
  <2>1. SUFFICES ASSUME NEW i \in DOMAIN arenas, NEW a, a = arenas[i] PROVE ArenaHolds(a)'
    BY <1>1 DEF ArenasHold
  <2>2. ArenaHolds(a) /\ a.id \in DOMAIN mem
    BY <1>4, <2>1, FamilyFacts DEF StorageOk, ArenasHold
  <2>3. DOMAIN mem'[a.id] = DOMAIN mem[a.id]
    BY <1>7, <2>2
  <2> QED
    BY <2>2, <2>3 DEF ArenaHolds
<1>14. ArenaRanges'
  BY <1>1, <1>4 DEF StorageOk, ArenaRanges, InArena
<1> QED
  BY <1>8, <1>10, <1>11, <1>12, <1>13, <1>14 DEF StorageOk

\* The stream runs a queued copy: the upload it is part of gets its units.
LEMMA CopyLandsKeeps ==
  ASSUME WeightInv, CopyLands
  PROVE  WeightInv'
<1>1. UNCHANGED <<proc, phase, g, ranges, arenas, wide, tmp, stage, lookup, todo, held>>
      /\ queue' = Tail(queue)
  BY DEF CopyLands
<1>2. PICK q : q = Head(queue)
  OBVIOUS
<1>3. mem' = AfterCopy(mem, q) /\ 1 \in DOMAIN queue /\ q = queue[1] /\ queue \in Seq(CopyType)
      /\ queue # <<>>
  BY <1>2 DEF CopyLands, WeightInv, TypesOk
<1>4. /\ queue' \in Seq(CopyType)
      /\ \A i \in DOMAIN queue' : i + 1 \in DOMAIN queue /\ queue'[i] = queue[i + 1]
      /\ \A i \in DOMAIN queue : i # 1 => i - 1 \in DOMAIN queue' /\ queue'[i - 1] = queue[i]
  <2>1. Len(queue) \in Nat \ {0} /\ DOMAIN queue = 1 .. Len(queue)
    BY <1>3
  <2>2. queue' \in Seq(CopyType) /\ Len(queue') = Len(queue) - 1
        /\ \A i \in 1 .. Len(queue) - 1 : queue'[i] = queue[i + 1]
    BY <1>1, <1>3
  <2>3. DOMAIN queue' = 1 .. Len(queue) - 1
    BY <2>2
  <2> DEFINE l == Len(queue)
  <2> HIDE DEF l
  <2>4. \A i \in 1 .. l : i # 1 => i - 1 \in 1 .. l - 1 /\ (i - 1) + 1 = i
    BY <2>1 DEF l
  <2>5. \A i \in 1 .. l - 1 : i + 1 \in 1 .. l
    BY <2>1 DEF l
  <2> QED
    BY <2>1, <2>2, <2>3, <2>4, <2>5 DEF l
<1>5. TypesOk'
  BY <1>1, <1>4 DEF WeightInv, TypesOk
<1>6. StorageOk'
  BY CopyLandsStores
<1>7. TransferOk'
  <2>1. ASSUME NEW c, NEW i \in DOMAIN queue, c = queue[i]
        PROVE  CopyOk(c)' /\ (Part(c) => Part(c)')
    <3>1. CopyOk(c)
      BY <2>1 DEF WeightInv, TransferOk, QueueOk
    <3> QED
      BY <1>1, <3>1 DEF CopyOk, InArena, OffRanges, Disjoint, Part, Uploading
  <2>2. QueueOk'
    BY <1>4, <2>1 DEF QueueOk
  <2>3. ASSUME Uploading PROVE UploadOk'
    <3>1. /\ UploadOk /\ lookup.dev \in Nat \X Nat /\ lookup.w \in WeightType /\ lookup.copied \in Nat
          /\ InArena(lookup.dev, lookup.w.len) /\ lookup.copied <= lookup.w.len
      BY <2>3, LookupFacts DEF WeightInv, TransferOk, UploadOk, Uploading
    <3>2. PICK w, dev, copied : w = lookup.w /\ dev = lookup.dev /\ copied = lookup.copied
      OBVIOUS
    <3>3. w.len \in Nat /\ w.off \in Nat
      BY <3>1, <3>2 DEF WeightType
    <3>4. /\ CopyOk(q) /\ q.dst \in (Nat \ {0}) \X Nat /\ q.n \in Nat \ {0} /\ q.delta \in Nat
      BY <1>3, EntryTypes DEF WeightInv, TransferOk, QueueOk
    <3>5. q.dst[1] \in DOMAIN mem
      BY <3>4, FamilyFacts DEF CopyOk, InArena, WeightInv
    <3>6. /\ DOMAIN mem' = DOMAIN mem
          /\ \A b \in DOMAIN mem : b # q.dst[1] => mem'[b] = mem[b]
          /\ \A i \in DOMAIN mem[q.dst[1]] :
              mem'[q.dst[1]][i] = IF i \in q.dst[2] .. q.dst[2] + q.n - 1 THEN stage[q.bi][q.delta + i - q.dst[2]]
                                  ELSE mem[q.dst[1]][i]
      BY <1>3, <3>5, LandedFacts DEF WeightInv
    <3>7. dev[1] \in DOMAIN mem /\ \A j \in 0 .. w.len - 1 : dev[2] + j \in DOMAIN mem[dev[1]]
      <4>1. PICK a \in DOMAIN arenas : arenas[a].id = dev[1] /\ dev[2] + w.len <= arenas[a].used
        BY <3>1, <3>2 DEF InArena
      <4>2. DOMAIN mem[dev[1]] = 0 .. arenas[a].units - 1 /\ arenas[a].used <= arenas[a].units
        BY <4>1 DEF WeightInv, StorageOk, ArenasHold, ArenaHolds
      <4>3. arenas[a].units \in Nat /\ arenas[a].used \in Nat /\ dev[1] \in DOMAIN mem
        <5>1. TypesOk /\ StorageOk
          BY DEF WeightInv
        <5>2. arenas[a].units \in Nat /\ arenas[a].used \in Nat
          BY <4>1, <5>1, EntryTypes
        <5>3. arenas[a].id \in DOMAIN mem
          BY <4>1, <5>1, FamilyFacts
        <5> QED
          BY <4>1, <5>2, <5>3
      <4>4. \A j \in 0 .. w.len - 1 : dev[2] + j \in 0 .. arenas[a].units - 1
        <5>1. PICK at, len, used, units : at = dev[2] /\ len = w.len /\ used = arenas[a].used /\ units = arenas[a].units
          OBVIOUS
        <5>2. at \in Nat
          BY <3>1, <3>2, <5>1
        <5>3. len \in Nat /\ used \in Nat /\ units \in Nat
          BY <3>3, <4>3, <5>1
        <5>4. at + len <= used /\ used <= units
          BY <4>1, <4>2, <5>1
        <5>5. \A j \in 0 .. len - 1 : at + j \in 0 .. units - 1
          BY <5>2, <5>3, <5>4
        <5> QED
          BY <5>1, <5>5
      <4> QED
        BY <4>2, <4>3, <4>4
    <3>8. ASSUME NEW j \in 0 .. copied - 1 PROVE Arrives(j)'
      <4>0. j \in 0 .. w.len - 1 /\ dev[2] \in Nat
        BY <3>1, <3>2, <3>3
      <4> DEFINE x == dev[2] + j
      <4>1. x \in Nat /\ x \in DOMAIN mem[dev[1]]
        BY <3>7, <4>0
      <4>2. Arrives(j)
        BY <2>3, <3>1, <3>2 DEF UploadOk
      <4>3. CASE \E i \in DOMAIN queue : i # 1 /\ Part(queue[i]) /\ Covers(queue[i], x)
        <5>1. PICK i \in DOMAIN queue : i # 1 /\ Part(queue[i]) /\ Covers(queue[i], x)
          BY <4>3
        <5>2. PICK c : c = queue[i]
          OBVIOUS
        <5>3. Part(c)' /\ Covers(c, x) /\ i - 1 \in DOMAIN queue' /\ queue'[i - 1] = c
          BY <1>4, <2>1, <5>1, <5>2
        <5> QED
          BY <1>1, <3>2, <5>3 DEF Arrives, Part, Covers
      <4>4. CASE Part(q) /\ Covers(q, x)
        <5>1. /\ q.dst[1] = dev[1] /\ dev[2] <= q.dst[2]
              /\ \A k \in 0 .. q.n - 1 : stage[q.bi][q.delta + k] = <<w.m, w.off + (q.dst[2] - dev[2]) + k>>
          BY <3>2, <4>4 DEF Part
        <5> DEFINE k == x - q.dst[2]
        <5>2. k \in 0 .. q.n - 1 /\ x \in q.dst[2] .. q.dst[2] + q.n - 1
          BY <3>4, <4>1, <4>4 DEF Covers
        <5>3. w.off + (q.dst[2] - dev[2]) + k = w.off + j /\ q.delta + x - q.dst[2] = q.delta + k
          BY <3>3, <3>4, <4>0
        <5> HIDE DEF x, k
        <5>4. mem'[dev[1]][x] = <<w.m, w.off + j>>
          BY <3>6, <4>1, <5>1, <5>2, <5>3
        <5> QED
          BY <1>1, <3>2, <5>4 DEF Arrives, x
      <4>5. CASE mem[dev[1]][x] = <<w.m, w.off + j>> /\ ~(Part(q) /\ Covers(q, x))
        <5>1. q.dst[1] # dev[1] \/ x \notin q.dst[2] .. q.dst[2] + q.n - 1
          <6>1. Disjoint(q.dst, q.n, dev, w.len) \/ Part(q)
            BY <2>3, <3>2, <3>4 DEF CopyOk
          <6>2. CASE Part(q)
            BY <3>4, <4>1, <4>5, <6>2 DEF Covers
          <6>3. CASE Disjoint(q.dst, q.n, dev, w.len)
            <7>1. dev[2] <= x /\ x < dev[2] + w.len
              BY <3>3, <4>0
            <7> HIDE DEF x
            <7> QED
              BY <3>3, <3>4, <4>0, <4>1, <6>3, <7>1 DEF Disjoint
          <6> QED
            BY <6>1, <6>2, <6>3
        <5> HIDE DEF x
        <5>2. mem'[dev[1]][x] = <<w.m, w.off + j>>
          BY <3>6, <3>7, <4>1, <4>5, <5>1
        <5> QED
          BY <1>1, <3>2, <5>2 DEF Arrives, x
      <4> QED
        <5>1. \/ mem[dev[1]][x] = <<w.m, w.off + j>>
              \/ \E i \in DOMAIN queue : Part(queue[i]) /\ Covers(queue[i], x)
          BY <3>2, <4>2 DEF Arrives
        <5> HIDE DEF x
        <5> QED
          BY <1>3, <4>3, <4>4, <4>5, <5>1
    <3>9. InArena(lookup.dev, lookup.w.len)' /\ OffRanges(lookup.dev, lookup.w.len)'
          /\ lookup'.copied <= lookup'.w.len
      BY <1>1, <2>3, <3>1 DEF UploadOk, InArena, OffRanges, Disjoint
    <3>10. \A j \in 0 .. lookup'.copied - 1 : Arrives(j)'
      BY <1>1, <3>2, <3>8
    <3> QED
      BY <3>9, <3>10 DEF UploadOk
  <2>4. ASSUME ~Uploading PROVE UploadOk'
    BY <1>1, <2>4 DEF UploadOk, Uploading
  <2> QED
    BY <2>2, <2>3, <2>4 DEF TransferOk
<1>8. ControlOk'
  <2>1. LookupOk' /\ HeldOk'
    BY <1>1 DEF WeightInv, ControlOk, LookupOk, HeldOk, HoldOk, Source, WideSource, MappedModels, Within,
       InFile
  <2>2. TodoOk'
    <3>1. phase = "closed" => queue = <<>>
      BY DEF WeightInv, ControlOk, TodoOk
    <3> QED
      BY <1>1, <1>3, <3>1, ServingStays, OpeningStays DEF WeightInv, ControlOk, TodoOk
  <2> QED
    BY <2>1, <2>2 DEF ControlOk
<1> QED
  BY <1>5, <1>6, <1>7, <1>8 DEF WeightInv

-----------------------------------------------------------------------------
(* Live buffers that an action keeps. *)

\* Buffer b stays, with what it holds.
Kept(b) == b \in DOMAIN mem' /\ mem'[b] = mem[b]

\* The mappings and the base, when their buffers are kept.
LEMMA MapsKept ==
  ASSUME StorageOk, UNCHANGED <<proc, phase>>, g'.host = g.host, g'.base = g.base, g'.owned = g.owned,
         phase # "closed", \A b \in MappedModels \cup OwnedBase : Kept(b)
  PROVE  MapsHold' /\ BaseHolds'
<1>1. MappedModels' = MappedModels
  BY DEF MappedModels
<1>2. MapsHold'
  BY <1>1 DEF StorageOk, MapsHold, Kept
<1>3. g.base # 0 => g.base \in MappedModels \cup OwnedBase
  BY DEF StorageOk, BaseHolds, OwnedBase
<1>4. BaseHolds'
  BY <1>1, <1>3 DEF StorageOk, BaseHolds, Kept
<1> QED
  BY <1>2, <1>4

\* A range, when its buffer is kept.
LEMMA RangeStays ==
  ASSUME NEW r, RangeHolds(r), proc' = proc, r.kind # "host" => Kept(r.ptr[1])
  PROVE  RangeHolds(r)'
BY DEF RangeHolds, MappedModels, Kept, HeldAt

\* An expanded copy, when its buffer is kept.
LEMMA WideStays ==
  ASSUME NEW x, WideHolds(x), Kept(x.id)
  PROVE  WideHolds(x)'
BY DEF WideHolds, HeldAt, Kept

\* An arena, when its buffer is kept.
LEMMA ArenaStays ==
  ASSUME NEW a, ArenaHolds(a), Kept(a.id)
  PROVE  ArenaHolds(a)'
BY DEF ArenaHolds, Kept

\* An area in the used part of an arena.
LEMMA InArenaStays ==
  ASSUME arenas' = arenas, NEW p, NEW n, InArena(p, n)
  PROVE  InArena(p, n)'
BY DEF InArena

\* A table of an action that leaves it alone.
LEMMA RangesStay ==
  ASSUME TypesOk, StorageOk, UNCHANGED <<proc, ranges>>, \A b \in RangeBuffers \cup ArenaBuffers : Kept(b)
  PROVE  RangesHold'
<1>1. ASSUME NEW i \in DOMAIN ranges, NEW r, r = ranges[i] PROVE RangeHolds(r)'
  <2>1. RangeHolds(r) /\ r.kind \in {"copy", "host", "arena"}
    BY <1>1, EntryTypes DEF StorageOk, RangesHold
  <2>2. r.kind # "host" => r.ptr[1] \in RangeBuffers \cup ArenaBuffers
    BY <1>1, <2>1, FamilyFacts
  <2> QED
    BY <2>1, <2>2, RangeStays
<1> QED
  BY <1>1 DEF RangesHold

\* The tables of expanded copies.
LEMMA WidesStay ==
  ASSUME TypesOk, StorageOk, wide' = wide, \A b \in WideBuffers("f16") \cup WideBuffers("f32") : Kept(b)
  PROVE  WidesHold'
<1>1. ASSUME NEW k \in Kinds, NEW i \in DOMAIN wide[k], NEW x, x = wide[k][i] PROVE WideHolds(x)'
  <2>1. WideHolds(x) /\ x.id \in WideBuffers(k)
    BY <1>1, FamilyFacts DEF StorageOk, WidesHold
  <2>2. Kept(x.id)
    BY <2>1 DEF Kinds
  <2> QED
    BY <2>1, <2>2, WideStays
<1> QED
  BY <1>1 DEF WidesHold

\* The table of arenas.
LEMMA ArenasStay ==
  ASSUME TypesOk, StorageOk, arenas' = arenas, \A b \in ArenaBuffers : Kept(b)
  PROVE  ArenasHold'
<1>1. ASSUME NEW i \in DOMAIN arenas, NEW a, a = arenas[i] PROVE ArenaHolds(a)'
  <2>1. ArenaHolds(a) /\ Kept(a.id)
    BY <1>1, FamilyFacts DEF StorageOk, ArenasHold
  <2> QED
    BY <2>1, ArenaStays
<1> QED
  BY <1>1 DEF ArenasHold

\* A new buffer is shared with no table.
LEMMA ApartAdd ==
  ASSUME NEW r, NEW a, NEW w, NEW x, NEW t, NEW b, Apart(r, a, w, x, t, b),
         NEW id, id \notin r \cup a \cup w \cup x \cup t \cup b
  PROVE  /\ Apart(r \cup {id}, a, w, x, t, b)
         /\ Apart(r, a \cup {id}, w, x, t, b)
         /\ Apart(r, a, w \cup {id}, x, t, b)
         /\ Apart(r, a, w, x \cup {id}, t, b)
         /\ Apart(r, a, w, x, {id}, b)
<1>1. /\ r \cap a = {} /\ (r \cup a) \cap w = {} /\ (r \cup a \cup w) \cap x = {}
      /\ (r \cup a \cup w \cup x) \cap t = {} /\ (r \cup a \cup w \cup x \cup t) \cap b = {}
  BY DEF Apart
<1>2. Apart(r \cup {id}, a, w, x, t, b)
  BY <1>1 DEF Apart
<1>3. Apart(r, a \cup {id}, w, x, t, b)
  BY <1>1 DEF Apart
<1>4. Apart(r, a, w \cup {id}, x, t, b)
  BY <1>1 DEF Apart
<1>5. Apart(r, a, w, x \cup {id}, t, b)
  BY <1>1 DEF Apart
<1>6. Apart(r, a, w, x, {id}, b)
  BY <1>1 DEF Apart
<1> QED
  BY <1>2, <1>3, <1>4, <1>5, <1>6

\* A buffer with a new name leaves the others alone.
LEMMA AddedKept ==
  ASSUME BuffersOk, NEW image, mem' = With(mem, NewId, image)
  PROVE  /\ \A b \in DOMAIN mem : Kept(b)
         /\ DOMAIN mem' = DOMAIN mem \cup {NewId} /\ mem'[NewId] = image
         /\ IsFiniteSet(DOMAIN mem') /\ DOMAIN mem' \subseteq Int \ {0}
<1>1. NewId \in Nat \ {0} /\ NewId \notin DOMAIN mem
  BY NewIdFacts
<1>2. /\ DOMAIN mem' = DOMAIN mem \cup {NewId} /\ mem'[NewId] = image
      /\ \A b \in DOMAIN mem : b # NewId => mem'[b] = mem[b]
  <2>1. PICK id : id = NewId
    OBVIOUS
  <2>2. mem' = With(mem, id, image)
    BY <2>1
  <2>3. /\ DOMAIN With(mem, id, image) = DOMAIN mem \cup {id}
        /\ With(mem, id, image)[id] = image
        /\ \A b \in DOMAIN mem : b # id => With(mem, id, image)[b] = mem[b]
    BY DEF With
  <2> QED
    BY <2>1, <2>2, <2>3
<1>3. IsFiniteSet(DOMAIN mem')
  BY <1>2, FS_AddElement DEF BuffersOk
<1>4. DOMAIN mem' \subseteq Int \ {0}
  BY <1>1, <1>2 DEF BuffersOk
<1>5. \A b \in DOMAIN mem : Kept(b)
  BY <1>1, <1>2 DEF Kept
<1> QED
  BY <1>2, <1>3, <1>4, <1>5

\* The buffers that a state names.
LEMMA NamedLive ==
  ASSUME StorageOk, phase # "closed"
  PROVE  /\ MappedModels \cup OwnedBase \subseteq DOMAIN mem
         /\ RangeBuffers \cup ArenaBuffers \subseteq DOMAIN mem
         /\ WideBuffers("f16") \cup WideBuffers("f32") \subseteq DOMAIN mem
BY DEF StorageOk, MapsHold, BuffersOk, OwnedBuffers

-----------------------------------------------------------------------------
(* A range is added to the table. *)

\* The table of ranges has one more entry, r.
RangeAdded(r, w, p, kind) ==
  /\ r.m = w.m /\ r.off = w.off /\ r.len = w.len /\ r.ptr = p /\ r.kind = kind
  /\ ranges' = Append(ranges, r) /\ ranges' \in Seq(RangeType)
  /\ DOMAIN ranges' = DOMAIN ranges \cup {Len(ranges) + 1}
  /\ \A i \in DOMAIN ranges : i \in DOMAIN ranges' /\ ranges'[i] = ranges[i]
  /\ Len(ranges) + 1 \notin DOMAIN ranges /\ ranges'[Len(ranges) + 1] = r

\* g_model_ranges gets an entry.
LEMMA AddedRange ==
  ASSUME WeightAssumption, TypesOk, NEW w \in WeightType, NEW p \in PtrType,
         NEW kind \in {"copy", "host", "arena"},
         AddRange(w, p, kind)
  PROVE  \E r \in RangeType : RangeAdded(r, w, p, kind)
<1> DEFINE page0 == RoundedDown(w.off, Page)
           pages == RoundedUp(w.off - page0 + w.len, Page)
           r == [m |-> w.m, off |-> w.off, len |-> w.len, ptr |-> p, kind |-> kind, page0 |-> page0, pages |-> pages]
<1>1. w.m \in Models /\ w.off \in Nat /\ w.len \in Nat /\ Page \in Nat \ {0}
  BY DEF WeightType, WeightAssumption
<1>2. page0 \in Nat /\ page0 <= w.off
  BY <1>1, RoundedFacts
<1>3. pages \in Nat
  <2> DEFINE v == w.off - page0 + w.len
  <2> HIDE DEF page0
  <2>1. v \in Nat
    BY <1>1, <1>2
  <2> HIDE DEF v
  <2> QED
    BY <1>1, <2>1, RoundedFacts DEF v
<1>4. ranges' = Append(ranges, r)
  BY DEF AddRange
<1> HIDE DEF page0, pages
<1>5. r \in RangeType /\ r.m = w.m /\ r.off = w.off /\ r.len = w.len /\ r.ptr = p /\ r.kind = kind
  BY <1>1, <1>2, <1>3 DEF RangeType
<1> HIDE DEF r
<1>6. ranges \in Seq(RangeType)
  BY DEF TypesOk
<1>7. /\ ranges' \in Seq(RangeType) /\ Len(ranges) \in Nat /\ DOMAIN ranges = 1 .. Len(ranges)
      /\ DOMAIN ranges' = 1 .. Len(ranges) + 1
      /\ \A i \in 1 .. Len(ranges) : ranges'[i] = ranges[i]
      /\ ranges'[Len(ranges) + 1] = r
  <2>1. Appended(RangeType, ranges, r, ranges')
    BY <1>4, <1>6, AppendFacts
  <2> QED
    BY <1>5, <2>1 DEF Appended
<1>8. DOMAIN ranges' = DOMAIN ranges \cup {Len(ranges) + 1} /\ Len(ranges) + 1 \notin DOMAIN ranges
  <2>1. Appended(RangeType, ranges, r, ranges')
    BY <1>4, <1>6, AppendFacts
  <2> QED
    BY <2>1 DEF Appended
<1> QED
  BY <1>4, <1>5, <1>7, <1>8 DEF RangeAdded

\* ... and the request is served with it.
LEMMA AddedSource ==
  ASSUME NEW w \in WeightType, NEW p \in PtrType, NEW r, NEW i \in DOMAIN ranges', r = ranges'[i],
         r.m = w.m, r.off = w.off, r.len = w.len, r.ptr = p
  PROVE  Source(w, p)'
<1>1. w.off \in Nat /\ w.len \in Nat /\ p[2] \in Nat /\ p = <<p[1], p[2]>>
  BY DEF WeightType, PtrType
<1>2. p[2] + (w.off - w.off) = p[2] /\ w.off <= w.off /\ w.off + w.len <= w.off + w.len
  BY <1>1
<1> QED
  BY <1>1, <1>2 DEF Source, Within

\* The tables with a range more.
LEMMA AddedRangeStores ==
  ASSUME TypesOk, StorageOk, UNCHANGED <<proc, phase, arenas, wide, tmp>>, phase # "closed",
         g'.host = g.host, g'.base = g.base, g'.owned = g.owned,
         \A b \in DOMAIN mem : Kept(b),
         IsFiniteSet(DOMAIN mem'), DOMAIN mem' \subseteq Int \ {0},
         NEW r, DOMAIN ranges' = DOMAIN ranges \cup {Len(ranges) + 1},
         \A i \in DOMAIN ranges : i \in DOMAIN ranges' /\ ranges'[i] = ranges[i],
         Len(ranges) + 1 \notin DOMAIN ranges, ranges'[Len(ranges) + 1] = r,
         RangeHolds(r)',
         r.kind = "arena" => InArena(r.ptr, r.len),
         r.kind = "copy" => r.ptr[1] \in Nat \ {0} /\ r.ptr[1] \notin OwnedBuffers /\ r.ptr[1] \in DOMAIN mem'
  PROVE  StorageOk'
<1>1. /\ ArenaBuffers' = ArenaBuffers /\ Scratches' = Scratches /\ OwnedBase' = OwnedBase
      /\ WideBuffers("f16")' = WideBuffers("f16") /\ WideBuffers("f32")' = WideBuffers("f32")
  BY DEF ArenaBuffers, Scratches, OwnedBase, WideBuffers
<1>2. RangeBuffers' = RangeBuffers \cup (IF r.kind = "copy" THEN {r.ptr[1]} ELSE {})
  BY DEF RangeBuffers
<1>3. BuffersOk /\ DOMAIN mem \subseteq DOMAIN mem'
  BY DEF StorageOk, Kept
<1>4. /\ OwnedBuffers' = OwnedBuffers \cup (IF r.kind = "copy" THEN {r.ptr[1]} ELSE {})
  BY <1>1, <1>2 DEF OwnedBuffers
<1>5. Apart(RangeBuffers, ArenaBuffers, WideBuffers("f16"), WideBuffers("f32"), Scratches, OwnedBase)'
  <2>1. CASE r.kind = "copy"
    <3> DEFINE id == r.ptr[1]
    <3>1. id \notin OwnedBuffers
      BY <2>1
    <3> HIDE DEF id
    <3>2. Apart(RangeBuffers \cup {id}, ArenaBuffers, WideBuffers("f16"), WideBuffers("f32"), Scratches, OwnedBase)
      BY <1>3, <3>1, ApartAdd DEF BuffersOk, OwnedBuffers
    <3>3. RangeBuffers' = RangeBuffers \cup {id}
      BY <1>2, <2>1 DEF id
    <3> QED
      BY <1>1, <3>2, <3>3 DEF Apart
  <2>2. CASE r.kind # "copy"
    BY <1>1, <1>2, <1>3, <2>2 DEF BuffersOk, Apart
  <2> QED
    BY <2>1, <2>2
<1>6. BuffersOk'
  <2>1. RangeBuffers' \subseteq Nat \ {0}
    BY <1>2, <1>3 DEF BuffersOk
  <2>2. OwnedBuffers' \subseteq DOMAIN mem'
    BY <1>3, <1>4 DEF BuffersOk
  <2> QED
    BY <1>3, <1>5, <2>1, <2>2 DEF BuffersOk
<1>7. MapsHold' /\ BaseHolds'
  BY NamedLive, MapsKept
<1>8. RangesHold'
  <2>1. ASSUME NEW i \in DOMAIN ranges, NEW q, q = ranges[i] PROVE RangeHolds(q)'
    <3>1. RangeHolds(q)
      BY <2>1 DEF StorageOk, RangesHold
    <3>2. q.kind # "host" => q.ptr[1] \in DOMAIN mem
      BY <3>1 DEF RangeHolds
    <3> QED
      BY <3>1, <3>2, RangeStays
  <2> QED
    BY <2>1 DEF RangesHold
<1>9. WidesHold' /\ ArenasHold'
  BY NamedLive, WidesStay, ArenasStay
<1>10. ArenaRanges'
  <2>1. \A i \in DOMAIN ranges : ranges[i].kind = "arena" => InArena(ranges[i].ptr, ranges[i].len)
    BY DEF StorageOk, ArenaRanges
  <2> QED
    BY <2>1 DEF ArenaRanges, InArena
<1> QED
  BY <1>6, <1>7, <1>8, <1>9, <1>10 DEF StorageOk

-----------------------------------------------------------------------------
(* The end of a lookup. *)

\* An area in the used part of an arena can be read.
LEMMA AreaLive ==
  ASSUME TypesOk, StorageOk, NEW b, NEW at \in Nat, NEW n \in Nat, InArena(<<b, at>>, n)
  PROVE  b \in ArenaBuffers /\ b \in DOMAIN mem /\ \A j \in 0 .. n - 1 : at + j \in DOMAIN mem[b]
<1>1. PICK a \in DOMAIN arenas : arenas[a].id = b /\ at + n <= arenas[a].used
  BY DEF InArena
<1>2. DOMAIN mem[b] = 0 .. arenas[a].units - 1 /\ arenas[a].used <= arenas[a].units
  BY <1>1 DEF StorageOk, ArenasHold, ArenaHolds
<1>3. arenas[a].units \in Nat /\ arenas[a].used \in Nat /\ b \in DOMAIN mem /\ b \in ArenaBuffers
  BY <1>1, EntryTypes, FamilyFacts
<1>4. \A j \in 0 .. n - 1 : at + j \in 0 .. arenas[a].units - 1
  BY <1>1, <1>2, <1>3
<1> QED
  BY <1>2, <1>3, <1>4

\* Only the lookup and a flag change.
LEMMA TurnKeeps ==
  ASSUME WeightInv, lookup.step # "none",
         UNCHANGED <<proc, phase, ranges, arenas, wide, tmp, mem, queue, todo, held>>,
         g' \in GlobalsType, g'.base = g.base, g'.host = g.host, g'.owned = g.owned,
         DOMAIN stage' = DOMAIN stage,
         \/ Turn("map")
         \/ \E p \in PtrType : Served(p) /\ (p # Null => Source(lookup.w, p))
  PROVE  WeightInv'
<1>1. lookup \in LookupType /\ phase \in {"open", "serve"} /\ lookup # NoCall
  BY LookupFacts
<1>2. lookup' \in LookupType /\ lookup'.w = lookup.w /\ lookup'.step \in {"map", "done"} /\ ~Uploading'
  BY <1>1 DEF Turn, Served, LookupType, Uploading
<1>3. TypesOk'
  BY <1>2 DEF WeightInv, TypesOk
<1>4. StorageOk'
  BY <1>1, StorageFrame DEF WeightInv
<1>5. TransferOk'
  BY <1>2, TransferFrame DEF WeightInv
<1>6. ControlOk'
  <2>1. ASSUME lookup'.step = "done", lookup'.ptr # Null PROVE Source(lookup.w, lookup.ptr)'
    <3>1. PICK p \in PtrType : Served(p) /\ (p # Null => Source(lookup.w, p))
      BY <1>1, <2>1 DEF Turn, LookupType
    <3>2. lookup'.ptr = p
      BY <1>1, <3>1 DEF Served, LookupType
    <3>3. PICK w : w = lookup.w
      OBVIOUS
    <3>4. Source(w, p)'
      BY <2>1, <3>1, <3>2, <3>3, SourceStays
    <3> QED
      BY <1>2, <3>2, <3>3, <3>4, SourceNext
  <2> QED
    BY <1>2, <2>1, LookupControl
<1> QED
  BY <1>3, <1>4, <1>5, <1>6 DEF WeightInv

\* The last copies have landed: the range of the upload holds its units, or the
\* upload fails.
LEMMA UploadDoneKeeps ==
  ASSUME WeightAssumption, WeightInv, UploadDone
  PROVE  WeightInv'
<1>1. /\ lookup.step = "upload" /\ lookup.copied = lookup.w.len
      /\ UNCHANGED <<proc, phase, arenas, wide, tmp, mem, stage, queue, todo, held>>
  BY DEF UploadDone
<1>2. /\ lookup \in LookupType /\ lookup # NoCall /\ lookup.w \in WeightType /\ phase \in {"open", "serve"}
      /\ lookup.dev \in Nat \X Nat /\ lookup.copied \in Nat
  BY <1>1, LookupFacts
<1>3. CASE Turn("map") /\ UNCHANGED <<g, ranges>>
  <2>1. g' \in GlobalsType
    BY <1>3 DEF WeightInv, TypesOk
  <2> QED
    BY <1>1, <1>3, <2>1, TurnKeeps
<1>4. CASE /\ queue = <<>>
           /\ AddRange(lookup.w, lookup.dev, "arena") /\ Served(lookup.dev)
           /\ g' = [g EXCEPT !.range_bytes = @ + lookup.w.len]
  <2>1. PICK w, b, at : w = lookup.w /\ lookup.dev = <<b, at>> /\ b \in Nat /\ at \in Nat
    BY <1>2
  <2>2. w.len \in Nat /\ w \in WeightType
    BY <1>2, <2>1 DEF WeightType
  <2>3. <<b, at>> \in PtrType /\ AddRange(w, <<b, at>>, "arena")
    BY <1>4, <2>1 DEF PtrType
  <2>4. PICK r \in RangeType :
           /\ r.m = w.m /\ r.off = w.off /\ r.len = w.len /\ r.ptr = <<b, at>> /\ r.kind = "arena"
           /\ ranges' = Append(ranges, r) /\ ranges' \in Seq(RangeType)
           /\ DOMAIN ranges' = DOMAIN ranges \cup {Len(ranges) + 1}
           /\ \A i \in DOMAIN ranges : i \in DOMAIN ranges' /\ ranges'[i] = ranges[i]
           /\ Len(ranges) + 1 \notin DOMAIN ranges /\ ranges'[Len(ranges) + 1] = r
    <3>1. \E r \in RangeType : RangeAdded(r, w, <<b, at>>, "arena")
      <4>1. "arena" \in {"copy", "host", "arena"} /\ TypesOk
        BY DEF WeightInv
      <4> QED
        BY <2>2, <2>3, <4>1, AddedRange
    <3> QED
      BY <3>1 DEF RangeAdded
  <2>5. TypesOk /\ StorageOk /\ InArena(<<b, at>>, w.len) /\ \A j \in 0 .. w.len - 1 : Arrives(j)
    BY <1>1, <2>1 DEF WeightInv, TransferOk, UploadOk, Uploading
  <2>6. b \in DOMAIN mem /\ \A j \in 0 .. w.len - 1 : at + j \in DOMAIN mem[b]
    BY <2>1, <2>2, <2>5, AreaLive
  <2>7. \A j \in 0 .. w.len - 1 : mem[b][at + j] = <<w.m, w.off + j>>
    <3>1. queue = <<>> /\ lookup.dev[1] = b /\ lookup.dev[2] = at /\ lookup.w = w
      BY <1>4, <2>1
    <3> QED
      BY <2>5, <3>1 DEF Arrives
  <2>8. RangeHolds(r)'
    <3>1. HeldAt(mem[b], at, r)
      BY <2>4, <2>6, <2>7 DEF HeldAt
    <3>2. r.kind # "host" /\ r.ptr[1] = b /\ r.ptr[2] = at
      BY <2>4
    <3>3. HeldAt(mem[b], at, r)'
      BY <1>1, <3>1 DEF HeldAt
    <3> QED
      BY <1>1, <2>6, <3>2, <3>3 DEF RangeHolds, HeldAt
  <2>9. g' \in GlobalsType /\ g'.base = g.base /\ g'.host = g.host /\ g'.owned = g.owned
    <3>1. PICK n : n = g.range_bytes + w.len
      OBVIOUS
    <3>2. g \in GlobalsType /\ g.range_bytes \in Nat
      BY DEF WeightInv, TypesOk, GlobalsType
    <3>3. n \in Nat
      BY <2>2, <3>1, <3>2
    <3>4. lookup.w.len = w.len
      BY <2>1
    <3>5. g' = [g EXCEPT !.range_bytes = g.range_bytes + lookup.w.len]
      BY <1>4
    <3>6. g' = [g EXCEPT !.range_bytes = n]
      BY <3>1, <3>4, <3>5
    <3> QED
      BY <3>2, <3>3, <3>6 DEF GlobalsType
  <2>10. StorageOk'
    <3>1. (\A c \in DOMAIN mem : Kept(c)) /\ IsFiniteSet(DOMAIN mem') /\ DOMAIN mem' \subseteq Int \ {0}
      BY <1>1, <2>5 DEF Kept, StorageOk, BuffersOk
    <3> QED
      BY <1>1, <1>2, <2>4, <2>5, <2>8, <2>9, <3>1, AddedRangeStores
  <2>11. /\ lookup' \in LookupType /\ lookup'.w = w /\ lookup'.ptr = <<b, at>> /\ lookup'.step = "done"
         /\ ~Uploading'
    <3>1. lookup' = [lookup EXCEPT !.step = "done", !.ptr = <<b, at>>]
      BY <1>4, <2>1 DEF Served
    <3> QED
      BY <1>2, <2>1, <2>3, <3>1 DEF LookupType, Uploading
  <2>12. TypesOk'
    BY <1>1, <2>4, <2>5, <2>9, <2>11 DEF TypesOk
  <2>13. TransferOk'
    BY <1>1, <1>4, <2>11 DEF TransferOk, QueueOk, UploadOk
  <2>14. ControlOk'
    <3>1. Source(w, <<b, at>>)'
      BY <2>2, <2>3, <2>4, AddedSource
    <3>2. Source(lookup.w, lookup.ptr)'
      BY <2>11, <3>1, SourceNext
    <3> QED
      BY <1>1, <2>1, <2>4, <2>9, <2>11, <3>2, LookupControl
  <2> QED
    BY <2>10, <2>12, <2>13, <2>14 DEF WeightInv
<1> QED
  BY <1>3, <1>4 DEF UploadDone

\* cuda_model_range_ptr() without a file: the host pages are registered or copied.
LEMMA MapOrCopyKeeps ==
  ASSUME WeightAssumption, WeightInv, MapOrCopy
  PROVE  WeightInv'
<1>1. /\ lookup.step = "map"
      /\ UNCHANGED <<proc, phase, arenas, wide, tmp, stage, queue, todo, held>>
  BY DEF MapOrCopy
<1>2. /\ lookup \in LookupType /\ lookup # NoCall /\ lookup.w \in WeightType /\ phase \in {"open", "serve"}
      /\ lookup.w.m \in MappedModels /\ TypesOk /\ StorageOk /\ TransferOk /\ g \in GlobalsType
  BY <1>1, LookupFacts DEF WeightInv, TypesOk
<1>3. PICK w : w = lookup.w /\ w \in WeightType /\ w.m \in MappedModels
  BY <1>2
<1>4. w.len \in Nat /\ w.off \in Nat /\ w.m \in Int
  BY <1>3 DEF WeightType, Models, Main, Draft
<1>5. PICK id : id = NewId /\ id \in Nat \ {0} /\ id \notin DOMAIN mem /\ id \notin OwnedBuffers
  BY <1>2, NewIdFacts DEF StorageOk
\* a range at p, whether it registers pages or owns a copy of them
<1>6. ASSUME NEW p \in PtrType, NEW kind \in {"copy", "host"}, AddRange(w, p, kind), Served(p),
             g' \in GlobalsType, g'.base = g.base, g'.host = g.host, g'.owned = g.owned,
             \A b \in DOMAIN mem : Kept(b), IsFiniteSet(DOMAIN mem'), DOMAIN mem' \subseteq Int \ {0},
             kind = "host" => p = <<w.m, w.off>>,
             kind = "copy" => p = <<id, 0>> /\ id \in DOMAIN mem' /\ mem'[id] = UnitsOf(w)
      PROVE  WeightInv'
  <2>1. PICK r \in RangeType :
           /\ r.m = w.m /\ r.off = w.off /\ r.len = w.len /\ r.ptr = p /\ r.kind = kind
           /\ ranges' = Append(ranges, r) /\ ranges' \in Seq(RangeType)
           /\ DOMAIN ranges' = DOMAIN ranges \cup {Len(ranges) + 1}
           /\ \A i \in DOMAIN ranges : i \in DOMAIN ranges' /\ ranges'[i] = ranges[i]
           /\ Len(ranges) + 1 \notin DOMAIN ranges /\ ranges'[Len(ranges) + 1] = r
    <3>1. kind \in {"copy", "host", "arena"}
      OBVIOUS
    <3>2. \E r \in RangeType : RangeAdded(r, w, p, kind)
      BY <1>2, <1>3, <1>6, <3>1, AddedRange
    <3> QED
      BY <3>2 DEF RangeAdded
  <2>2. RangeHolds(r)'
    <3>1. CASE kind = "host"
      BY <1>1, <1>3, <1>6, <2>1, <3>1 DEF RangeHolds, MappedModels
    <3>2. CASE kind = "copy"
      <4>1. \A j \in 0 .. w.len - 1 : 0 + j = j /\ j \in DOMAIN UnitsOf(w)
                                      /\ UnitsOf(w)[j] = <<w.m, w.off + j>>
        BY <1>4, UnitsFacts
      <4>2. HeldAt(mem[id], 0, r)'
        BY <1>6, <2>1, <3>2, <4>1 DEF HeldAt
      <4>3. r.ptr[1] = id /\ r.ptr[2] = 0 /\ r.kind # "host"
        BY <1>6, <2>1, <3>2
      <4> QED
        BY <1>6, <3>2, <4>2, <4>3 DEF RangeHolds, HeldAt
    <3> QED
      BY <3>1, <3>2
  <2>3. r.kind = "copy" => r.ptr[1] \in Nat \ {0} /\ r.ptr[1] \notin OwnedBuffers /\ r.ptr[1] \in DOMAIN mem'
    BY <1>5, <1>6, <2>1
  <2>4. StorageOk'
    BY <1>1, <1>2, <1>6, <2>1, <2>2, <2>3, AddedRangeStores
  <2>5. /\ lookup' \in LookupType /\ lookup'.w = w /\ lookup'.ptr = p /\ lookup'.step = "done" /\ ~Uploading'
    <3>1. lookup' = [lookup EXCEPT !.step = "done", !.ptr = p]
      BY <1>6 DEF Served
    <3> QED
      BY <1>2, <1>3, <3>1 DEF LookupType, Uploading
  <2>6. TypesOk'
    BY <1>1, <1>2, <1>6, <2>1, <2>5 DEF TypesOk
  <2>7. TransferOk'
    <3>1. ASSUME NEW q, NEW i \in DOMAIN queue, q = queue[i] PROVE CopyOk(q)'
      <4>1. CopyOk(q) /\ InArena(q.dst, q.n)
        BY <1>2, <3>1 DEF TransferOk, QueueOk, CopyOk
      <4>2. q.dst[1] \in OwnedBuffers
        BY <1>2, <4>1, FamilyFacts DEF InArena, OwnedBuffers
      <4>3. r.kind # "host" => r.ptr[1] # q.dst[1]
        <5>1. kind = "copy" => p[1] = id
          BY <1>6
        <5>2. r.kind = kind /\ r.ptr = p /\ (kind = "host" \/ kind = "copy")
          BY <1>6, <2>1
        <5>3. id # q.dst[1]
          BY <1>5, <4>2
        <5> QED
          BY <5>1, <5>2, <5>3
      <4>4. OffRanges(q.dst, q.n)'
        BY <2>1, <4>1, <4>3 DEF CopyOk, OffRanges, Disjoint
      <4> QED
        BY <1>1, <2>5, <4>1, <4>4, InArenaStays DEF CopyOk
    <3> QED
      BY <1>1, <2>5, <3>1 DEF TransferOk, QueueOk, UploadOk
  <2>8. ControlOk'
    <3>1. Source(w, p)'
      BY <1>3, <2>1, AddedSource
    <3>2. Source(lookup.w, lookup.ptr)'
      BY <2>5, <3>1, SourceNext
    <3> QED
      BY <1>1, <1>3, <1>6, <2>1, <2>5, <3>2, LookupControl
  <2> QED
    BY <2>4, <2>6, <2>7, <2>8 DEF WeightInv
<1>7. CASE AddRange(w, <<w.m, w.off>>, "host") /\ Served(<<w.m, w.off>>) /\ UNCHANGED <<g, mem>>
  <2>1. \A b \in DOMAIN mem : Kept(b)
    BY <1>7 DEF Kept
  <2>2. IsFiniteSet(DOMAIN mem') /\ DOMAIN mem' \subseteq Int \ {0}
    BY <1>2, <1>7 DEF StorageOk, BuffersOk
  <2>3. <<w.m, w.off>> \in PtrType
    BY <1>4 DEF PtrType
  <2> QED
    BY <1>2, <1>6, <1>7, <2>1, <2>2, <2>3
<1>8. CASE /\ AddRange(w, <<id, 0>>, "copy") /\ Served(<<id, 0>>)
           /\ mem' = With(mem, NewId, UnitsOf(w))
           /\ g' = [g EXCEPT !.range_bytes = @ + w.len, !.mapping = @ /\ proc.register # "never"]
  <2>1. /\ \A b \in DOMAIN mem : Kept(b)
        /\ DOMAIN mem' = DOMAIN mem \cup {NewId} /\ mem'[NewId] = UnitsOf(w)
        /\ IsFiniteSet(DOMAIN mem') /\ DOMAIN mem' \subseteq Int \ {0}
    BY <1>2, <1>8, AddedKept DEF StorageOk
  <2>2. g' \in GlobalsType /\ g'.base = g.base /\ g'.host = g.host /\ g'.owned = g.owned
    <3>1. PICK n, x : n = g.range_bytes + w.len /\ x = (g.mapping /\ proc.register # "never")
      OBVIOUS
    <3>2. g.range_bytes \in Nat /\ g.mapping \in BOOLEAN
      BY <1>2 DEF GlobalsType
    <3>3. n \in Nat /\ x \in BOOLEAN
      BY <1>4, <3>1, <3>2
    <3>4. g' = [g EXCEPT !.range_bytes = n, !.mapping = x]
      BY <1>8, <3>1
    <3> QED
      BY <1>2, <3>3, <3>4 DEF GlobalsType
  <2>3. <<id, 0>> \in PtrType
    BY <1>5 DEF PtrType
  <2> QED
    BY <1>5, <1>6, <1>8, <2>1, <2>2, <2>3
<1>9. CASE Served(Null) /\ g' = [g EXCEPT !.mapping = @ /\ proc.register # "never"]
      /\ UNCHANGED <<ranges, mem>>
  <2>1. g' \in GlobalsType /\ g'.base = g.base /\ g'.host = g.host /\ g'.owned = g.owned
    BY <1>2, <1>9 DEF GlobalsType
  <2>2. Null \in PtrType
    BY DEF Null, PtrType
  <2> QED
    BY <1>1, <1>9, <2>1, <2>2, TurnKeeps
<1> QED
  BY <1>3, <1>5, <1>7, <1>8, <1>9 DEF MapOrCopy

-----------------------------------------------------------------------------
(* A lookup reads from the file. *)

\* The area of an upload is new in its arena.
LEMMA UploadStarts ==
  ASSUME WeightInv, lookup.step = "fd", UNCHANGED <<proc, phase, g, ranges, queue, todo, held>>,
         NEW b \in Nat \ {0}, NEW at \in Nat, Upload(<<b, at>>),
         \A p, n : InArena(p, n) /\ p[2] \in Nat /\ n \in Nat => InArena(p, n)',
         \A p, n : InArena(p, n) /\ p[2] \in Nat /\ n \in Nat => p[1] # b \/ p[2] + n <= at,
         b \notin RangeBuffers, InArena(<<b, at>>, lookup.w.len)'
  PROVE  TransferOk' /\ ControlOk' /\ lookup' \in LookupType
<1>1. lookup \in LookupType /\ lookup # NoCall /\ lookup.w \in WeightType /\ lookup.copied = 0
  BY LookupFacts DEF WeightInv, ControlOk, LookupOk
<1>2. PICK w : w = lookup.w /\ w \in WeightType /\ w.len \in Nat
  BY <1>1 DEF WeightType
<1>3. /\ lookup' \in LookupType /\ lookup'.w = w /\ lookup'.dev = <<b, at>> /\ lookup'.step = "upload"
      /\ lookup'.copied = 0
      /\ lookup'.ptr = lookup.ptr
  <2>1. lookup' = [lookup EXCEPT !.step = "upload", !.dev = <<b, at>>] /\ <<b, at>> \in Nat \X Nat
    BY DEF Upload
  <2> QED
    BY <1>1, <1>2, <2>1 DEF LookupType
<1>4. TypesOk /\ StorageOk /\ TransferOk
  BY DEF WeightInv
<1>5. QueueOk'
  <2>1. ASSUME NEW q, NEW i \in DOMAIN queue, q = queue[i] PROVE CopyOk(q)'
    <3>1. CopyOk(q) /\ q.dst \in (Nat \ {0}) \X Nat /\ q.n \in Nat
      BY <1>4, <2>1, EntryTypes DEF TransferOk, QueueOk
    <3>2. InArena(q.dst, q.n) /\ OffRanges(q.dst, q.n) /\ q.dst[2] \in Nat
      BY <3>1 DEF CopyOk
    <3>3. InArena(q.dst, q.n)'
      BY <3>1, <3>2
    <3>4. OffRanges(q.dst, q.n)'
      BY <3>2 DEF OffRanges, Disjoint
    <3>5. q.dst[1] # b \/ q.dst[2] + q.n <= at
      BY <3>1, <3>2
    <3>6. Disjoint(q.dst, q.n, lookup.dev, lookup.w.len)'
      BY <1>3, <3>5 DEF Disjoint
    <3> QED
      BY <3>3, <3>4, <3>6 DEF CopyOk
  <2> QED
    BY <2>1 DEF QueueOk
<1>6. UploadOk'
  <2>1. ASSUME NEW i \in DOMAIN ranges, NEW r, r = ranges[i], r.kind # "host"
        PROVE Disjoint(r.ptr, r.len, <<b, at>>, w.len)
    <3>1. r.ptr \in Int \X Nat /\ r.len \in Nat /\ r.kind \in {"copy", "arena"}
      BY <1>4, <2>1, EntryTypes
    <3>2. CASE r.kind = "copy"
      <4>1. r.ptr[1] # b
        BY <1>4, <2>1, <3>2, FamilyFacts
      <4> QED
        BY <4>1 DEF Disjoint
    <3>3. CASE r.kind = "arena"
      <4>1. InArena(r.ptr, r.len) /\ r.ptr[2] \in Nat
        BY <1>4, <2>1, <3>1, <3>3 DEF StorageOk, ArenaRanges
      <4>2. r.ptr[1] # b \/ r.ptr[2] + r.len <= at
        BY <3>1, <4>1
      <4> QED
        BY <4>2 DEF Disjoint
    <3> QED
      BY <3>1, <3>2, <3>3
  <2>2. OffRanges(lookup.dev, lookup.w.len)'
    BY <1>3, <2>1 DEF OffRanges, Disjoint
  <2>3. InArena(lookup.dev, lookup.w.len)'
    BY <1>2, <1>3 DEF InArena
  <2>4. lookup'.copied <= lookup'.w.len
    BY <1>2, <1>3
  <2>5. \A j \in 0 .. lookup'.copied - 1 : Arrives(j)'
    BY <1>3
  <2> QED
    BY <2>2, <2>3, <2>4, <2>5 DEF UploadOk
<1>7. ControlOk'
  BY <1>2, <1>3, LookupControl
<1> QED
  BY <1>3, <1>5, <1>6, <1>7 DEF TransferOk

\* The tables with a grown or a new arena.
LEMMA GrownStores ==
  ASSUME TypesOk, StorageOk, UNCHANGED <<proc, phase, g, ranges, wide, tmp>>, phase # "closed",
         \A b \in DOMAIN mem : Kept(b),
         IsFiniteSet(DOMAIN mem'), DOMAIN mem' \subseteq Int \ {0},
         \A p, n : InArena(p, n) /\ p[2] \in Nat /\ n \in Nat => InArena(p, n)',
         NEW new, ArenaBuffers' = ArenaBuffers \cup new,
         \A id \in new : id \notin OwnedBuffers /\ id \in DOMAIN mem' /\ new = {id},
         \A i, j \in DOMAIN arenas' : arenas'[i].id = arenas'[j].id => i = j,
         ArenasHold'
  PROVE  StorageOk'
<1>1. /\ RangeBuffers' = RangeBuffers /\ Scratches' = Scratches /\ OwnedBase' = OwnedBase
      /\ WideBuffers("f16")' = WideBuffers("f16") /\ WideBuffers("f32")' = WideBuffers("f32")
  BY DEF RangeBuffers, Scratches, OwnedBase, WideBuffers
<1>2. BuffersOk /\ DOMAIN mem \subseteq DOMAIN mem'
  BY DEF StorageOk, Kept
<1>3. OwnedBuffers' = OwnedBuffers \cup new
  BY <1>1 DEF OwnedBuffers
<1>4. Apart(RangeBuffers, ArenaBuffers, WideBuffers("f16"), WideBuffers("f32"), Scratches, OwnedBase)'
  <2>1. Apart(RangeBuffers, ArenaBuffers \cup new, WideBuffers("f16"), WideBuffers("f32"), Scratches, OwnedBase)
    <3>1. CASE new = {}
      <4>1. ArenaBuffers \cup new = ArenaBuffers
        BY <3>1
      <4> QED
        BY <1>2, <4>1 DEF BuffersOk
    <3>2. CASE new # {}
      <4>1. PICK id : new = {id} /\ id \notin OwnedBuffers
        BY <3>2
      <4>2. Apart(RangeBuffers, ArenaBuffers \cup {id}, WideBuffers("f16"), WideBuffers("f32"), Scratches, OwnedBase)
        BY <1>2, <4>1, ApartAdd DEF BuffersOk, OwnedBuffers
      <4> QED
        BY <4>1, <4>2
    <3> QED
      BY <3>1, <3>2
  <2> QED
    BY <1>1, <2>1 DEF Apart
<1>5. BuffersOk'
  <2>1. OwnedBuffers' \subseteq DOMAIN mem'
    BY <1>2, <1>3 DEF BuffersOk
  <2> QED
    BY <1>1, <1>2, <1>4, <2>1 DEF BuffersOk
<1>6. MapsHold' /\ BaseHolds'
  BY NamedLive, MapsKept
<1>7. RangesHold' /\ WidesHold'
  BY NamedLive, RangesStay, WidesStay
<1>8. ArenaRanges'
  <2>1. ASSUME NEW i \in DOMAIN ranges, ranges[i].kind = "arena" PROVE InArena(ranges[i].ptr, ranges[i].len)'
    <3>1. PICK p, n : p = ranges[i].ptr /\ n = ranges[i].len
      OBVIOUS
    <3>2. InArena(p, n) /\ p[2] \in Nat /\ n \in Nat
      BY <2>1, <3>1, EntryTypes DEF StorageOk, ArenaRanges
    <3>3. InArena(p, n)'
      BY <3>2
    <3> QED
      BY <3>1, <3>3 DEF InArena
  <2> QED
    BY <2>1 DEF ArenaRanges
<1> QED
  BY <1>5, <1>6, <1>7, <1>8 DEF StorageOk

\* cuda_model_arena_alloc() finds room in an arena.
LEMMA RoomyKeeps ==
  ASSUME WeightAssumption, WeightInv, lookup.step = "fd",
         UNCHANGED <<proc, phase, g, ranges, wide, tmp, mem, stage, queue, todo, held>>,
         NEW n \in Nat, lookup.w.len <= n,
         NEW i \in DOMAIN arenas, n <= arenas[i].units - arenas[i].used,
         arenas' = [arenas EXCEPT ![i].used = @ + n], Upload(<<arenas[i].id, arenas[i].used>>)
  PROVE  WeightInv'
<1>1. TypesOk /\ StorageOk /\ phase \in {"open", "serve"} /\ lookup.w \in WeightType
  BY LookupFacts DEF WeightInv
<1>2. arenas[i] \in ArenaType /\ arenas[i].id \in Nat \ {0} /\ arenas[i].units \in Nat
      /\ arenas[i].used \in Nat
  BY <1>1, EntryTypes
<1>3. PICK id, units, used : id = arenas[i].id /\ units = arenas[i].units /\ used = arenas[i].used
  OBVIOUS
<1>4. PICK a : a = [arenas[i] EXCEPT !.used = used + n]
  OBVIOUS
<1>5. a \in ArenaType /\ a.id = id /\ a.units = units /\ a.used = used + n /\ used + n <= units
  BY <1>2, <1>3, <1>4 DEF ArenaType
<1>6. arenas' = [arenas EXCEPT ![i] = a]
  BY <1>3, <1>4
<1>7. /\ DOMAIN arenas' = DOMAIN arenas /\ arenas' \in Seq(ArenaType) /\ arenas'[i] = a
      /\ \A j \in DOMAIN arenas : j # i => arenas'[j] = arenas[j]
  <2>1. arenas \in Seq(ArenaType)
    BY <1>1 DEF TypesOk
  <2>2. DOMAIN arenas' = DOMAIN arenas /\ arenas'[i] = a /\ \A j \in DOMAIN arenas : j # i
                                                              => arenas'[j] = arenas[j]
    <3>1. DOMAIN arenas' = DOMAIN arenas /\ \A j \in DOMAIN arenas : j # i => arenas'[j] = arenas[j]
      BY <1>6
    <3>2. arenas'[i] = a
      BY <1>6
    <3> QED
      BY <3>1, <3>2
  <2>3. i \in 1 .. Len(arenas)
    BY <2>1
  <2>4. PICK s : s = arenas
    OBVIOUS
  <2>5. s \in Seq(ArenaType) /\ i \in 1 .. Len(s)
    BY <2>1, <2>3, <2>4
  <2>6. [s EXCEPT ![i] = a] \in Seq(ArenaType)
    BY <1>5, <2>5, ExceptSeq
  <2>7. arenas' \in Seq(ArenaType)
    BY <1>6, <2>4, <2>6
  <2> QED
    BY <2>2, <2>7
<1>8. \A j \in DOMAIN arenas : arenas'[j].id = arenas[j].id /\ arenas[j].used <= arenas'[j].used
                               /\ arenas[j].used \in Nat
                               /\ arenas'[j].used \in Nat
  <2>1. \A j \in DOMAIN arenas : arenas[j].used \in Nat
    BY <1>1, EntryTypes
  <2>2. arenas'[i].id = arenas[i].id /\ arenas[i].used <= arenas'[i].used /\ arenas'[i].used \in Nat
    <3>1. used \in Nat /\ used <= used + n /\ used + n \in Nat
      BY <1>2, <1>3
    <3> QED
      BY <1>3, <1>5, <1>7, <3>1
  <2>3. ASSUME NEW j \in DOMAIN arenas, j # i
        PROVE  arenas'[j].id = arenas[j].id /\ arenas[j].used <= arenas'[j].used
    <3>1. arenas'[j] = arenas[j] /\ arenas[j].used \in Nat
      BY <1>7, <2>1, <2>3
    <3>2. arenas[j].used <= arenas[j].used
      BY <3>1
    <3> QED
      BY <3>1, <3>2
  <2> QED
    BY <1>7, <2>1, <2>2, <2>3
<1>9. \A j \in DOMAIN arenas : arenas[j].id = id => j = i
  BY <1>1, <1>3 DEF StorageOk, BuffersOk
<1>10. ASSUME NEW p, NEW k, p[2] \in Nat, k \in Nat, InArena(p, k) PROVE p[1] # id \/ p[2] + k <= used
  BY <1>3, <1>9, <1>10 DEF InArena
<1>11. ASSUME NEW p, NEW k, p[2] \in Nat, k \in Nat, InArena(p, k) PROVE InArena(p, k)'
  <2>1. PICK j \in DOMAIN arenas : arenas[j].id = p[1] /\ p[2] + k <= arenas[j].used
    BY <1>11 DEF InArena
  <2>2. PICK top : top = p[2] + k /\ top \in Nat
    BY <1>11
  <2>3. arenas[j].used \in Nat /\ arenas'[j].used \in Nat /\ top <= arenas[j].used
        /\ arenas[j].used <= arenas'[j].used
    BY <1>8, <2>1, <2>2
  <2>4. top <= arenas'[j].used
    BY <2>2, <2>3
  <2>5. arenas'[j].id = p[1] /\ j \in DOMAIN arenas'
    BY <1>7, <1>8, <2>1
  <2> QED
    BY <2>2, <2>4, <2>5 DEF InArena
<1>12. ArenaBuffers' = ArenaBuffers
  <2>1. \A j : j \in DOMAIN arenas' <=> j \in DOMAIN arenas
    BY <1>7
  <2>2. \A j \in DOMAIN arenas : arenas'[j].id = arenas[j].id
    BY <1>8
  <2>3. \A b : b \in ArenaBuffers' <=> b \in ArenaBuffers
    BY <2>1, <2>2 DEF ArenaBuffers
  <2> QED
    BY <2>3
<1>13. ArenasHold'
  <2>1. ASSUME NEW j \in DOMAIN arenas, NEW c, c = arenas'[j] PROVE ArenaHolds(c)'
    <3>1. ArenaHolds(arenas[j])
      BY <1>1 DEF StorageOk, ArenasHold
    <3>2. CASE j = i
      BY <1>2, <1>3, <1>5, <1>7, <2>1, <3>1, <3>2 DEF ArenaHolds
    <3>3. CASE j # i
      BY <1>7, <2>1, <3>1, <3>3 DEF ArenaHolds
    <3> QED
      BY <3>2, <3>3
  <2> QED
    BY <1>7, <2>1 DEF ArenasHold
<1>14. StorageOk'
  <2>1. (\A b \in DOMAIN mem : Kept(b)) /\ IsFiniteSet(DOMAIN mem') /\ DOMAIN mem' \subseteq Int \ {0}
    BY <1>1 DEF Kept, StorageOk, BuffersOk
  <2>2. ArenaBuffers' = ArenaBuffers \cup {}
    BY <1>12
  <2>3. \A j, k \in DOMAIN arenas' : arenas'[j].id = arenas'[k].id => j = k
    BY <1>1, <1>7, <1>8 DEF StorageOk, BuffersOk
  <2>4. \A p, k : InArena(p, k) /\ p[2] \in Nat /\ k \in Nat => InArena(p, k)'
    BY <1>11
  <2> DEFINE new == {}
  <2>5. ArenaBuffers' = ArenaBuffers \cup new /\ \A b \in new : b \notin OwnedBuffers /\ b \in DOMAIN mem'
                                                              /\ new = {b}
    BY <2>2
  <2> HIDE DEF new
  <2> QED
    BY <1>1, <1>13, <2>1, <2>3, <2>4, <2>5, GrownStores
<1>15. TransferOk' /\ ControlOk' /\ lookup' \in LookupType
  <2>1. Upload(<<id, used>>) /\ id \in Nat \ {0} /\ used \in Nat
    BY <1>2, <1>3
  <2>2. id \notin RangeBuffers
    BY <1>1, <1>3, FamilyFacts
  <2>3. InArena(<<id, used>>, lookup.w.len)'
    <3>1. PICK len : len = lookup.w.len /\ len \in Nat /\ len <= n
      BY <1>1 DEF WeightType
    <3>2. used + len <= used + n
      BY <1>2, <1>3, <3>1
    <3>3. lookup'.w.len = len
      <4>1. lookup \in LookupType
        BY LookupFacts
      <4> QED
        BY <3>1, <4>1 DEF Upload, LookupType
    <3>4. arenas'[i].id = id /\ used + len <= arenas'[i].used /\ i \in DOMAIN arenas'
      BY <1>5, <1>7, <3>2
    <3>5. PICK p : p = <<id, used>>
      OBVIOUS
    <3>6. p[1] = id /\ p[2] = used
      BY <3>5
    <3>7. InArena(p, len)'
      BY <3>4, <3>6 DEF InArena
    <3> QED
      BY <3>3, <3>5, <3>7 DEF InArena
  <2> QED
    BY <1>10, <1>11, <2>1, <2>2, <2>3, UploadStarts
<1>16. TypesOk'
  BY <1>1, <1>7, <1>15 DEF TypesOk
<1> QED
  BY <1>14, <1>15, <1>16 DEF WeightInv

\* ... or allocates an arena.
LEMMA NewArenaKeeps ==
  ASSUME WeightAssumption, WeightInv, lookup.step = "fd",
         UNCHANGED <<proc, phase, g, ranges, wide, tmp, stage, queue, todo, held>>,
         NEW n \in Nat, lookup.w.len <= n, NEW size \in Nat, n <= size,
         Upload(<<NewId, 0>>),
         arenas' = Append(arenas, [id |-> NewId, units |-> size, used |-> n]),
         mem' = With(mem, NewId, Zeroed(size))
  PROVE  WeightInv'
<1>1. TypesOk /\ StorageOk /\ BuffersOk /\ phase \in {"open", "serve"} /\ lookup.w \in WeightType
  BY LookupFacts DEF WeightInv, StorageOk
<1>2. PICK id : id = NewId /\ id \in Nat \ {0} /\ id \notin DOMAIN mem /\ id \notin OwnedBuffers
  <2>1. NewId \in Nat \ {0} /\ NewId \notin DOMAIN mem /\ NewId \notin OwnedBuffers
    BY <1>1, NewIdFacts
  <2> QED
    BY <2>1
<1>3. PICK a : a = [id |-> id, units |-> size, used |-> n] /\ a \in ArenaType
  BY <1>2 DEF ArenaType
<1>4. a.id = id /\ a.units = size /\ a.used = n
  BY <1>3
<1>5. /\ arenas' \in Seq(ArenaType) /\ Len(arenas) + 1 \notin DOMAIN arenas
      /\ DOMAIN arenas' = DOMAIN arenas \cup {Len(arenas) + 1}
      /\ arenas'[Len(arenas) + 1] = a /\ \A i \in DOMAIN arenas : arenas'[i] = arenas[i]
  <2>1. arenas \in Seq(ArenaType) /\ arenas' = Append(arenas, a)
    BY <1>1, <1>2, <1>3 DEF TypesOk
  <2>2. /\ arenas' \in Seq(ArenaType) /\ Len(arenas) \in Nat /\ DOMAIN arenas = 1 .. Len(arenas)
        /\ DOMAIN arenas' = 1 .. Len(arenas) + 1
        /\ \A i \in 1 .. Len(arenas) : arenas'[i] = arenas[i]
        /\ arenas'[Len(arenas) + 1] = a
    <3>1. Appended(ArenaType, arenas, a, arenas')
      BY <2>1, AppendFacts
    <3> QED
      BY <1>3, <3>1 DEF Appended
  <2>3. DOMAIN arenas' = DOMAIN arenas \cup {Len(arenas) + 1} /\ Len(arenas) + 1 \notin DOMAIN arenas
    <3>1. Appended(ArenaType, arenas, a, arenas')
      BY <2>1, AppendFacts
    <3> QED
      BY <3>1 DEF Appended
  <2> QED
    BY <2>2, <2>3
<1>6. /\ \A b \in DOMAIN mem : Kept(b)
      /\ DOMAIN mem' = DOMAIN mem \cup {id} /\ mem'[id] = Zeroed(size)
      /\ IsFiniteSet(DOMAIN mem') /\ DOMAIN mem' \subseteq Int \ {0}
  <2>1. /\ \A b \in DOMAIN mem : Kept(b)
        /\ DOMAIN mem' = DOMAIN mem \cup {NewId} /\ mem'[NewId] = Zeroed(size)
        /\ IsFiniteSet(DOMAIN mem') /\ DOMAIN mem' \subseteq Int \ {0}
    BY <1>1, AddedKept
  <2> QED
    BY <1>2, <2>1
<1>7. \A p, k : InArena(p, k) => InArena(p, k)'
  BY <1>5 DEF InArena
<1>8. id \notin ArenaBuffers /\ id \notin RangeBuffers
  BY <1>2 DEF OwnedBuffers
<1>9. \A p, k : InArena(p, k) => p[1] # id
  BY <1>8 DEF InArena, ArenaBuffers
<1>10. ArenaBuffers' = ArenaBuffers \cup {id}
  <2>1. \A j \in DOMAIN arenas : arenas'[j].id = arenas[j].id
    BY <1>5
  <2>2. arenas'[Len(arenas) + 1].id = id
    BY <1>4, <1>5
  <2>3. \A j : j \in DOMAIN arenas' <=> j \in DOMAIN arenas \/ j = Len(arenas) + 1
    BY <1>5
  <2>4. \A b : b \in ArenaBuffers' <=> b \in ArenaBuffers \/ b = id
    BY <2>1, <2>2, <2>3 DEF ArenaBuffers
  <2> QED
    BY <2>4
<1>11. ArenasHold'
  <2>1. ASSUME NEW j \in DOMAIN arenas', NEW c, c = arenas'[j] PROVE ArenaHolds(c)'
    <3>1. CASE j \in DOMAIN arenas
      <4>1. ArenaHolds(c) /\ c.id \in DOMAIN mem
        BY <1>1, <1>5, <2>1, <3>1, FamilyFacts DEF StorageOk, ArenasHold
      <4> QED
        BY <1>6, <4>1, ArenaStays
    <3>2. CASE j = Len(arenas) + 1
      BY <1>4, <1>5, <1>6, <2>1, <3>2 DEF ArenaHolds, Zeroed
    <3> QED
      BY <1>5, <3>1, <3>2
  <2> QED
    BY <2>1 DEF ArenasHold
<1>12. StorageOk'
  <2>1. \A j, k \in DOMAIN arenas' : arenas'[j].id = arenas'[k].id => j = k
    <3>1. \A j \in DOMAIN arenas : arenas[j].id # id
      BY <1>8 DEF ArenaBuffers
    <3>2. \A j, k \in DOMAIN arenas : arenas[j].id = arenas[k].id => j = k
      BY <1>1 DEF BuffersOk
    <3>3. PICK l : l = Len(arenas) + 1
      OBVIOUS
    <3>4. /\ arenas'[l].id = id /\ \A j \in DOMAIN arenas : arenas'[j].id = arenas[j].id
          /\ \A j \in DOMAIN arenas' : j \in DOMAIN arenas \/ j = l
      BY <1>4, <1>5, <3>3
    <3>5. ASSUME NEW j \in DOMAIN arenas', NEW k \in DOMAIN arenas', arenas'[j].id = arenas'[k].id PROVE j = k
      <4>1. CASE j \in DOMAIN arenas /\ k \in DOMAIN arenas
        BY <3>2, <3>4, <3>5, <4>1
      <4>2. CASE j \in DOMAIN arenas /\ k = l
        BY <3>1, <3>4, <3>5, <4>2
      <4>3. CASE k \in DOMAIN arenas /\ j = l
        BY <3>1, <3>4, <3>5, <4>3
      <4> QED
        BY <3>4, <4>1, <4>2, <4>3
    <3> QED
      BY <3>5
  <2> DEFINE new == {id}
  <2>2. ArenaBuffers' = ArenaBuffers \cup new /\ \A b \in new : b \notin OwnedBuffers /\ b \in DOMAIN mem'
                                                              /\ new = {b}
    BY <1>2, <1>6, <1>10
  <2> HIDE DEF new
  <2> QED
    BY <1>1, <1>6, <1>7, <1>11, <2>1, <2>2, GrownStores
<1>13. TransferOk' /\ ControlOk' /\ lookup' \in LookupType
  <2>1. PICK len : len = lookup.w.len /\ len \in Nat /\ len <= n
    BY <1>1 DEF WeightType
  <2>2. lookup'.w.len = len
    <3>1. lookup \in LookupType
      BY LookupFacts
    <3> QED
      BY <2>1, <3>1 DEF Upload, LookupType
  <2>3. InArena(<<id, 0>>, lookup.w.len)'
    <3>1. Len(arenas) + 1 \in DOMAIN arenas' /\ arenas'[Len(arenas) + 1] = a /\ 0 + len <= n
      <4>1. Len(arenas) + 1 \in DOMAIN arenas' /\ arenas'[Len(arenas) + 1] = a
        BY <1>5, Zenon
      <4>2. 0 + len <= n
        BY <2>1
      <4> QED
        BY <4>1, <4>2
    <3>2. arenas'[Len(arenas) + 1].id = id /\ arenas'[Len(arenas) + 1].used = n
      BY <1>4, <3>1
    <3> QED
      BY <2>2, <3>1, <3>2 DEF InArena
  <2>4. Upload(<<id, 0>>) /\ 0 \in Nat
    BY <1>2
  <2> QED
    BY <1>2, <1>7, <1>8, <1>9, <2>3, <2>4, UploadStarts
<1>14. TypesOk'
  BY <1>1, <1>5, <1>13 DEF TypesOk
<1> QED
  BY <1>12, <1>13, <1>14 DEF WeightInv

\* cuda_model_range_ptr_from_fd() starts an upload.
LEMMA FromFdKeeps ==
  ASSUME WeightAssumption, WeightInv, FromFd
  PROVE  WeightInv'
<1> DEFINE n == RoundedUp(lookup.w.len, ArenaAlign)
           size == RoundedUp(n, ArenaChunk)
<1>1. /\ lookup.step = "fd"
      /\ UNCHANGED <<proc, phase, ranges, wide, tmp, stage, queue, todo, held>>
  BY DEF FromFd
<1>2. /\ lookup \in LookupType /\ lookup.w \in WeightType /\ lookup.w.m \in MappedModels
      /\ lookup.w.len \in Nat
  BY <1>1, LookupFacts DEF WeightType
<1>3. n \in Nat /\ lookup.w.len <= n
  BY <1>2, RoundedFacts DEF WeightAssumption
<1>4. size \in Nat /\ n <= size
  <2> HIDE DEF n
  <2> QED
    BY <1>3, RoundedFacts DEF WeightAssumption
<1>5. ModelPtr(lookup.w) \in PtrType /\ Source(lookup.w, ModelPtr(lookup.w))
  <2>1. PICK w : w = lookup.w
    OBVIOUS
  <2>2. ModelPtr(w) \in PtrType /\ Source(w, ModelPtr(w))
    BY <1>2, <2>1, ModelSource
  <2> QED
    BY <2>1, <2>2
<1>6. ASSUME Turn("map") \/ Served(ModelPtr(lookup.w)), UNCHANGED <<arenas, mem>>,
             g' = g \/ g' = [g EXCEPT !.full = TRUE]
      PROVE  WeightInv'
  <2>1. g' \in GlobalsType /\ g'.base = g.base /\ g'.host = g.host /\ g'.owned = g.owned
    BY <1>6 DEF WeightInv, TypesOk, GlobalsType
  <2> QED
    BY <1>1, <1>5, <1>6, <2>1, TurnKeeps
<1>7. ASSUME Refused(lookup.w), UNCHANGED <<arenas, mem>>, g' = g \/ g' = [g EXCEPT !.full = TRUE]
      PROVE  WeightInv'
  BY <1>6, <1>7 DEF Refused
<1>8. ASSUME Roomy(n) # {}, NEW i, i = Min(Roomy(n)), arenas' = [arenas EXCEPT ![i].used = @ + n],
             Upload(<<arenas[i].id, arenas[i].used>>), UNCHANGED <<g, mem>>
      PROVE  WeightInv'
  <2> HIDE DEF n
  <2>1. DOMAIN arenas \subseteq Nat
    <3>1. arenas \in Seq(ArenaType)
      BY DEF WeightInv, TypesOk
    <3>2. DOMAIN arenas = 1 .. Len(arenas)
      BY <3>1
    <3> QED
      BY <3>2
  <2> DEFINE T == Roomy(n)
  <2>2. T \subseteq Nat /\ T # {}
    BY <1>8, <2>1 DEF Roomy
  <2> HIDE DEF T
  <2>3. i \in T
    BY <1>8, <2>2, LeastOf DEF T
  <2>4. i \in DOMAIN arenas /\ n <= arenas[i].units - arenas[i].used
    BY <2>3 DEF T, Roomy
  <2> QED
    BY <1>1, <1>3, <1>8, <2>4, RoomyKeeps
<1>9. ASSUME Upload(<<NewId, 0>>), arenas' = Append(arenas, [id |-> NewId, units |-> size, used |-> n]),
             mem' = With(mem, NewId, Zeroed(size)), UNCHANGED g
      PROVE  WeightInv'
  <2> HIDE DEF n, size
  <2> QED
    BY <1>1, <1>3, <1>4, <1>9, NewArenaKeeps
<1> HIDE DEF n, size
<1>10. \/ Served(ModelPtr(lookup.w)) /\ UNCHANGED <<g, arenas, mem>>
       \/ Refused(lookup.w) /\ UNCHANGED <<arenas, mem>> /\ (g' = g \/ g' = [g EXCEPT !.full = TRUE])
       \/ Roomy(n) # {} /\ \E i : /\ i = Min(Roomy(n)) /\ arenas' = [arenas EXCEPT ![i].used = @ + n]
                                   /\ Upload(<<arenas[i].id, arenas[i].used>>) /\ UNCHANGED <<g, mem>>
       \/ /\ Upload(<<NewId, 0>>) /\ arenas' = Append(arenas, [id |-> NewId, units |-> size, used |-> n])
          /\ mem' = With(mem, NewId, Zeroed(size)) /\ UNCHANGED g
  BY DEF FromFd, n, size
<1> QED
  BY <1>6, <1>7, <1>8, <1>9, <1>10

-----------------------------------------------------------------------------
(* The scratch buffer. *)

\* Everything but the scratch buffer is kept.
LEMMA TablesKept ==
  ASSUME TypesOk, StorageOk, UNCHANGED <<proc, phase, ranges, arenas, wide>>, phase # "closed",
         g'.host = g.host, g'.base = g.base, g'.owned = g.owned,
         \A b \in DOMAIN mem \ Scratches : Kept(b)
  PROVE  MapsHold' /\ BaseHolds' /\ RangesHold' /\ WidesHold' /\ ArenasHold' /\ ArenaRanges'
<1>1. /\ OwnedBuffers \subseteq DOMAIN mem
      /\ Apart(RangeBuffers, ArenaBuffers, WideBuffers("f16"), WideBuffers("f32"), Scratches, OwnedBase)
  BY DEF StorageOk, BuffersOk
<1>2. tmp.id \in Nat
  BY DEF TypesOk
<1>3. \A b \in MappedModels : b \notin Scratches
  <2>1. \A b \in Scratches : b \in Nat
    BY <1>2 DEF Scratches
  <2>2. \A b \in MappedModels : b \notin Nat
    BY DEF MappedModels, Main, Draft
  <2> QED
    BY <2>1, <2>2
<1>4. \A b \in MappedModels \cup OwnedBase : Kept(b)
  <2>1. \A b \in OwnedBase : b \notin Scratches
    BY <1>1 DEF Apart
  <2> QED
    BY <1>3, <2>1, NamedLive
<1>5. \A b \in RangeBuffers \cup ArenaBuffers : b \notin Scratches
  BY <1>1 DEF Apart
<1>6. \A b \in WideBuffers("f16") \cup WideBuffers("f32") : b \notin Scratches
  BY <1>1 DEF Apart
<1>7. MapsHold' /\ BaseHolds'
  BY <1>4, MapsKept
<1>8. RangesHold' /\ ArenasHold'
  BY <1>5, NamedLive, RangesStay, ArenasStay
<1>9. WidesHold'
  BY <1>6, NamedLive, WidesStay
<1>10. ArenaRanges'
  BY DEF StorageOk, ArenaRanges, InArena
<1> QED
  BY <1>7, <1>8, <1>9, <1>10

\* cuda_tmp_alloc() keeps, replaces or loses the scratch buffer.
LEMMA ScratchStores ==
  ASSUME TypesOk, StorageOk, UNCHANGED <<proc, phase, g, ranges, arenas, wide>>, phase # "closed",
         NEW n \in Nat, NEW o \in Scratch(n), mem' = o.mem, tmp' = o.tmp
  PROVE  StorageOk' /\ tmp' \in [id : Nat, units : Nat]
<1> DEFINE left == Freed(mem, {tmp.id})
           id == FreshId(DOMAIN left)
<1>1. tmp \in [id : Nat, units : Nat] /\ BuffersOk
  BY DEF TypesOk, StorageOk
<1>2. \/ mem' = mem /\ tmp' = tmp
      \/ mem' = With(left, id, Zeroed(n)) /\ tmp' = [id |-> id, units |-> n]
      \/ mem' = left /\ tmp' = [id |-> 0, units |-> 0]
  BY DEF Scratch
<1>3. /\ DOMAIN left = DOMAIN mem \ Scratches /\ \A b \in DOMAIN left : left[b] = mem[b]
  <2>1. 0 \notin DOMAIN mem
    BY <1>1 DEF BuffersOk
  <2>2. DOMAIN left = DOMAIN mem \ {tmp.id} /\ \A b \in DOMAIN left : left[b] = mem[b]
    BY DEF Freed
  <2> HIDE DEF left
  <2> QED
    BY <2>1, <2>2 DEF Scratches
<1> HIDE DEF left
<1>4. IsFiniteSet(DOMAIN left) /\ DOMAIN left \subseteq Int \ {0}
  BY <1>1, <1>3, FS_Subset DEF BuffersOk
<1>5. id \in Nat \ {0} /\ id \notin DOMAIN left
  BY <1>4, FreshFacts
<1> HIDE DEF id
<1>6. /\ RangeBuffers' = RangeBuffers /\ ArenaBuffers' = ArenaBuffers /\ OwnedBase' = OwnedBase
      /\ WideBuffers("f16")' = WideBuffers("f16") /\ WideBuffers("f32")' = WideBuffers("f32")
  BY DEF RangeBuffers, ArenaBuffers, OwnedBase, WideBuffers
<1> DEFINE rest == RangeBuffers \cup ArenaBuffers \cup WideBuffers("f16") \cup WideBuffers("f32") \cup OwnedBase
<1>7. rest \subseteq DOMAIN left
  <2>1. rest \subseteq DOMAIN mem
    BY <1>1 DEF BuffersOk, OwnedBuffers
  <2>2. rest \cap Scratches = {}
    BY <1>1 DEF BuffersOk, Apart
  <2> QED
    BY <1>3, <2>1, <2>2
<1>8. Apart(RangeBuffers, ArenaBuffers, WideBuffers("f16"), WideBuffers("f32"), {}, OwnedBase)
  BY <1>1 DEF BuffersOk, Apart
<1>9. OwnedBuffers' = rest \cup Scratches'
  BY <1>6 DEF OwnedBuffers
<1>10. ASSUME NEW t, Scratches' = t, IsFiniteSet(DOMAIN mem'), DOMAIN mem' \subseteq Int \ {0},
              DOMAIN left \cup t \subseteq DOMAIN mem', \A b \in DOMAIN left : mem'[b] = left[b],
              Apart(RangeBuffers, ArenaBuffers, WideBuffers("f16"), WideBuffers("f32"), t, OwnedBase)
       PROVE  StorageOk'
  <2>1. OwnedBuffers' \subseteq DOMAIN mem'
    BY <1>7, <1>9, <1>10
  <2>2. BuffersOk'
    BY <1>1, <1>6, <1>10, <2>1 DEF BuffersOk, Apart
  <2>3. \A b \in DOMAIN mem \ Scratches : Kept(b)
    BY <1>3, <1>10 DEF Kept
  <2> QED
    BY <2>2, <2>3, TablesKept DEF StorageOk
<1>11. CASE mem' = mem /\ tmp' = tmp
  <2>1. Scratches' = Scratches
    BY <1>11 DEF Scratches
  <2>2. Apart(RangeBuffers, ArenaBuffers, WideBuffers("f16"), WideBuffers("f32"), Scratches, OwnedBase)
    BY <1>1 DEF BuffersOk
  <2>3. Scratches \subseteq DOMAIN mem
    BY <1>1 DEF BuffersOk, OwnedBuffers
  <2>4. StorageOk'
    BY <1>1, <1>3, <1>10, <1>11, <2>1, <2>2, <2>3 DEF BuffersOk
  <2> QED
    BY <1>1, <1>11, <2>4
<1>12. CASE mem' = With(left, id, Zeroed(n)) /\ tmp' = [id |-> id, units |-> n]
  <2>1. DOMAIN mem' = DOMAIN left \cup {id} /\ \A b \in DOMAIN left : mem'[b] = left[b]
    BY <1>5, <1>12 DEF With
  <2>2. Scratches' = {id}
    BY <1>5, <1>12 DEF Scratches
  <2>3. Apart(RangeBuffers, ArenaBuffers, WideBuffers("f16"), WideBuffers("f32"), {id}, OwnedBase)
    <3>1. id \notin rest
      BY <1>5, <1>7
    <3> QED
      BY <1>8, <3>1 DEF Apart
  <2>4. IsFiniteSet(DOMAIN mem') /\ DOMAIN mem' \subseteq Int \ {0}
    BY <1>4, <1>5, <2>1, FS_AddElement
  <2>5. StorageOk'
    BY <1>10, <2>1, <2>2, <2>3, <2>4
  <2> QED
    BY <1>5, <1>12, <2>5
<1>13. CASE mem' = left /\ tmp' = [id |-> 0, units |-> 0]
  <2>1. Scratches' = {}
    BY <1>13 DEF Scratches
  <2>2. StorageOk'
    BY <1>4, <1>8, <1>10, <1>13, <2>1
  <2> QED
    BY <1>13, <2>2
<1> QED
  BY <1>2, <1>11, <1>12, <1>13

\* Nothing but the scratch buffer changes before what is left of the operation.
LEMMA WithScratchKeeps ==
  ASSUME WeightInv, todo # <<>>, phase = "serve",
         UNCHANGED <<proc, g, ranges, arenas, wide, stage, queue, lookup>>, lookup = NoCall,
         NEW n \in Nat, NEW rest \in Seq(StepType), Serving(rest), WithScratch(n, rest)
  PROVE  WeightInv'
<1>1. PICK o \in Scratch(n) :
        /\ mem' = o.mem /\ tmp' = o.tmp
        /\ IF o.ok THEN Works /\ todo' = rest /\ held' = {} /\ UNCHANGED phase ELSE Fails /\ Abort
  BY DEF WithScratch
<1>2. phase' = phase /\ held' = {} /\ (todo' = rest \/ todo' = <<>>)
  BY <1>1 DEF Abort
<1>3. StorageOk' /\ tmp' \in [id : Nat, units : Nat]
  BY <1>1, <1>2, ScratchStores DEF WeightInv
<1>4. TypesOk'
  <2>1. todo' \in Seq(StepType)
    <3>1. rest \in Seq(StepType) /\ <<>> \in Seq(StepType)
      OBVIOUS
    <3> QED
      BY <1>2, <3>1
  <2> QED
    BY <1>2, <1>3, <2>1 DEF WeightInv, TypesOk
<1>5. TransferOk'
  <2>1. ~Uploading'
    BY DEF Uploading, NoCall
  <2> QED
    BY <2>1, TransferFrame DEF WeightInv
<1>6. ControlOk'
  <2>1. CASE todo' = rest
    BY <1>2, <2>1, RestControl
  <2>2. CASE todo' = <<>>
    BY <1>2, <2>2, AbortControl
  <2> QED
    BY <1>2, <2>1, <2>2
<1> QED
  BY <1>3, <1>4, <1>5, <1>6 DEF WeightInv

\* The operation gives up.
LEMMA AbortKeeps ==
  ASSUME WeightInv, Abort, phase \in {"open", "serve"},
         UNCHANGED <<proc, ranges, arenas, wide, tmp, mem, stage, queue>>,
         g' = g, lookup' = NoCall
  PROVE  WeightInv'
<1>1. todo' = <<>> /\ held' = {} /\ phase' = phase
  BY DEF Abort
<1>2. TypesOk'
  <2>1. todo' \in Seq(StepType)
    BY <1>1
  <2> QED
    BY <1>1, <2>1 DEF WeightInv, TypesOk
<1>3. StorageOk'
  BY <1>1, StorageFrame DEF WeightInv
<1>4. TransferOk'
  <2>1. ~Uploading'
    BY DEF Uploading, NoCall
  <2> QED
    BY <2>1, TransferFrame DEF WeightInv
<1>5. ControlOk'
  BY <1>1, AbortControl
<1> QED
  BY <1>2, <1>3, <1>4, <1>5 DEF WeightInv

\* A kernel runs over the pointers the operation holds.
LEMMA RunKernelKeeps ==
  ASSUME WeightInv, RunKernel
  PROVE  WeightInv'
<1>1. Idle /\ Next1.do = "kernel" /\ UNCHANGED <<proc, g, ranges, arenas, wide, stage, queue, lookup>>
  BY DEF RunKernel
<1>2. lookup = NoCall /\ todo # <<>>
  BY <1>1, IdleFacts
<1>3. /\ Next1 \in StepType /\ phase = "serve" /\ Serving(Tail(todo)) /\ SuffixOf(Tail(todo), todo, 1)
  BY <1>1, <1>2, HeadFacts
<1>4. CASE WithScratch(Next1.need, Tail(todo))
  <2>1. PICK n, rest : n = Next1.need /\ rest = Tail(todo)
    OBVIOUS
  <2>2. n \in Nat /\ rest \in Seq(StepType) /\ Serving(rest) /\ WithScratch(n, rest)
    BY <1>3, <1>4, <2>1 DEF StepType, SuffixOf
  <2> QED
    BY <1>1, <1>2, <1>3, <2>2, WithScratchKeeps
<1>5. CASE Abort /\ UNCHANGED <<tmp, mem>>
  BY <1>1, <1>2, <1>3, <1>5, AbortKeeps
<1> QED
  BY <1>4, <1>5 DEF RunKernel

-----------------------------------------------------------------------------
(* The expanded copies. *)

\* The copies in f16 go.
LEMMA Disable16Stores ==
  ASSUME TypesOk, StorageOk, UNCHANGED <<proc, phase, ranges, arenas, tmp>>, phase # "closed",
         g'.host = g.host, g'.base = g.base, g'.owned = g.owned, Disable16
  PROVE  StorageOk' /\ wide' \in [Kinds -> Seq(WideType)]
<1> DEFINE gone == WideBuffers("f16")
<1>1. wide' = [wide EXCEPT !["f16"] = <<>>] /\ mem' = Freed(mem, gone) /\ wide \in [Kinds -> Seq(WideType)]
      /\ BuffersOk
  BY DEF Disable16, TypesOk, StorageOk
<1>2. wide' \in [Kinds -> Seq(WideType)] /\ wide'["f16"] = <<>> /\ wide'["f32"] = wide["f32"]
  BY <1>1 DEF Kinds
<1>3. DOMAIN mem' = DOMAIN mem \ gone /\ \A b \in DOMAIN mem \ gone : Kept(b)
  BY <1>1 DEF Freed, Kept
<1>4. /\ RangeBuffers' = RangeBuffers /\ ArenaBuffers' = ArenaBuffers /\ OwnedBase' = OwnedBase
      /\ Scratches' = Scratches
      /\ WideBuffers("f16")' = {} /\ WideBuffers("f32")' = WideBuffers("f32")
  BY <1>2 DEF RangeBuffers, ArenaBuffers, OwnedBase, WideBuffers, Scratches
<1>5. Apart(RangeBuffers, ArenaBuffers, gone, WideBuffers("f32"), Scratches, OwnedBase)
      /\ OwnedBuffers \subseteq DOMAIN mem
  BY <1>1 DEF BuffersOk
<1>6. /\ RangeBuffers \cap gone = {} /\ ArenaBuffers \cap gone = {} /\ WideBuffers("f32") \cap gone = {}
      /\ Scratches \cap gone = {} /\ OwnedBase \cap gone = {}
  BY <1>5 DEF Apart
<1>7. /\ RangeBuffers \subseteq DOMAIN mem /\ ArenaBuffers \subseteq DOMAIN mem
      /\ WideBuffers("f32") \subseteq DOMAIN mem
      /\ Scratches \subseteq DOMAIN mem /\ OwnedBase \subseteq DOMAIN mem
  BY <1>5 DEF OwnedBuffers
<1>8. \A b \in MappedModels : b \in DOMAIN mem \ gone
  <2>1. \A b \in MappedModels : b \notin Nat
    BY DEF MappedModels, Main, Draft
  <2>2. \A b \in gone : b \in Nat
    BY EntryTypes DEF WideBuffers, Kinds
  <2> QED
    BY <2>1, <2>2, NamedLive
<1> HIDE DEF gone
<1>9. BuffersOk'
  <2>1. IsFiniteSet(DOMAIN mem') /\ DOMAIN mem' \subseteq Int \ {0}
    BY <1>1, <1>3, FS_Subset DEF BuffersOk
  <2>2. OwnedBuffers' \subseteq DOMAIN mem'
    <3>1. OwnedBuffers' = RangeBuffers \cup ArenaBuffers \cup WideBuffers("f32") \cup Scratches \cup OwnedBase
      BY <1>4 DEF OwnedBuffers
    <3> QED
      BY <1>3, <1>6, <1>7, <3>1
  <2>3. Apart(RangeBuffers, ArenaBuffers, WideBuffers("f16"), WideBuffers("f32"), Scratches, OwnedBase)'
    BY <1>4, <1>5 DEF Apart
  <2>4. \A k \in Kinds : \A i, j \in DOMAIN wide'[k] : wide'[k][i].id = wide'[k][j].id => i = j
    BY <1>1, <1>2 DEF BuffersOk, Kinds
  <2> QED
    BY <1>1, <1>4, <2>1, <2>2, <2>3, <2>4 DEF BuffersOk
<1>10. MapsHold' /\ BaseHolds'
  BY <1>3, <1>6, <1>7, <1>8, MapsKept
<1>11. RangesHold' /\ ArenasHold'
  BY <1>3, <1>6, <1>7, RangesStay, ArenasStay
<1>12. WidesHold'
  <2>1. ASSUME NEW i \in DOMAIN wide["f32"], NEW x, x = wide["f32"][i] PROVE WideHolds(x)'
    <3>1. WideHolds(x) /\ x.id \in WideBuffers("f32")
      BY <2>1 DEF StorageOk, WidesHold, WideBuffers, Kinds
    <3>2. Kept(x.id)
      BY <1>3, <1>6, <1>7, <3>1
    <3> QED
      BY <3>1, <3>2, WideStays
  <2> QED
    BY <1>2, <2>1 DEF WidesHold, Kinds
<1>13. ArenaRanges'
  BY DEF StorageOk, ArenaRanges, InArena
<1> QED
  BY <1>2, <1>9, <1>10, <1>11, <1>12, <1>13 DEF StorageOk

\* A copy is added.
LEMMA AddedCopyStores ==
  ASSUME TypesOk, StorageOk, UNCHANGED <<proc, phase, ranges, arenas, tmp>>, phase # "closed",
         g'.host = g.host, g'.base = g.base, g'.owned = g.owned,
         NEW kind \in Kinds, NEW x \in WideType, x.id = NewId,
         \E image : mem' = With(mem, NewId, image) /\ HeldAt(image, 0, x),
         wide' = [wide EXCEPT ![kind] = Append(@, x)]
  PROVE  /\ StorageOk' /\ wide' \in [Kinds -> Seq(WideType)]
         /\ \E i \in DOMAIN wide'[kind] : wide'[kind][i] = x
<1>0. PICK id, image : id = NewId /\ x.id = id /\ mem' = With(mem, NewId, image) /\ HeldAt(image, 0, x)
  OBVIOUS
<1>1. BuffersOk /\ wide \in [Kinds -> Seq(WideType)] /\ wide[kind] \in Seq(WideType)
  BY DEF TypesOk, StorageOk
<1>2. id \in Nat \ {0} /\ id \notin DOMAIN mem /\ id \notin OwnedBuffers
  BY <1>0, <1>1, NewIdFacts
<1>3. /\ \A b \in DOMAIN mem : Kept(b)
      /\ DOMAIN mem' = DOMAIN mem \cup {id} /\ mem'[id] = image
      /\ IsFiniteSet(DOMAIN mem') /\ DOMAIN mem' \subseteq Int \ {0}
  <2>1. /\ \A b \in DOMAIN mem : Kept(b)
        /\ DOMAIN mem' = DOMAIN mem \cup {NewId} /\ mem'[NewId] = image
        /\ IsFiniteSet(DOMAIN mem') /\ DOMAIN mem' \subseteq Int \ {0}
    BY <1>0, <1>1, AddedKept
  <2> QED
    BY <1>0, <2>1
<1>4. PICK s, l : s = wide[kind] /\ l = Len(s) + 1
  OBVIOUS
<1>5. s \in Seq(WideType)
  BY <1>1, <1>4
<1>6. PICK t : t = Append(s, x)
  OBVIOUS
<1>7. /\ t \in Seq(WideType) /\ DOMAIN t = DOMAIN s \cup {l} /\ l \notin DOMAIN s /\ t[l] = x
      /\ \A i \in DOMAIN s : t[i] = s[i]
  <2>1. /\ t \in Seq(WideType) /\ Len(s) \in Nat /\ DOMAIN s = 1 .. Len(s) /\ DOMAIN t = 1 .. Len(s) + 1
        /\ t[Len(s) + 1] = x /\ \A i \in 1 .. Len(s) : t[i] = s[i]
    BY <1>5, <1>6
  <2>2. DOMAIN t = DOMAIN s \cup {Len(s) + 1} /\ Len(s) + 1 \notin DOMAIN s
    BY <2>1
  <2> QED
    BY <1>4, <2>1, <2>2
<1>8. /\ wide' \in [Kinds -> Seq(WideType)] /\ wide'[kind] = t /\ \A k \in Kinds : k # kind
                                                            => wide'[k] = wide[k]
  <2>1. wide' = [wide EXCEPT ![kind] = t]
    BY <1>4, <1>6
  <2> QED
    BY <1>1, <1>7, <2>1
<1>9. /\ RangeBuffers' = RangeBuffers /\ ArenaBuffers' = ArenaBuffers /\ OwnedBase' = OwnedBase
      /\ Scratches' = Scratches
  BY DEF RangeBuffers, ArenaBuffers, OwnedBase, Scratches
<1>10. \A k \in Kinds : WideBuffers(k)' = IF k = kind THEN WideBuffers(k) \cup {id} ELSE WideBuffers(k)
  <2>1. ASSUME NEW k \in Kinds, k # kind PROVE WideBuffers(k)' = WideBuffers(k)
    BY <1>8, <2>1 DEF WideBuffers
  <2>2. WideBuffers(kind)' = WideBuffers(kind) \cup {id}
    <3>1. \A b : b \in {t[i].id : i \in DOMAIN t} <=> b \in {s[i].id : i \in DOMAIN s} \/ b = id
      BY <1>0, <1>7
    <3>2. WideBuffers(kind)' = {t[i].id : i \in DOMAIN t} /\ WideBuffers(kind) = {s[i].id : i \in DOMAIN s}
      BY <1>4, <1>8 DEF WideBuffers
    <3> QED
      BY <3>1, <3>2
  <2> QED
    BY <2>1, <2>2
<1>11. Apart(RangeBuffers, ArenaBuffers, WideBuffers("f16"), WideBuffers("f32"), Scratches, OwnedBase)'
  <2>1. Apart(RangeBuffers, ArenaBuffers, WideBuffers("f16"), WideBuffers("f32"), Scratches, OwnedBase)
    BY <1>1 DEF BuffersOk
  <2>2. /\ Apart(RangeBuffers, ArenaBuffers, WideBuffers("f16") \cup {id}, WideBuffers("f32"), Scratches, OwnedBase)
        /\ Apart(RangeBuffers, ArenaBuffers, WideBuffers("f16"), WideBuffers("f32") \cup {id}, Scratches, OwnedBase)
    BY <1>2, <2>1, ApartAdd DEF OwnedBuffers
  <2>3. CASE kind = "f16"
    <3>1. WideBuffers("f16")' = WideBuffers("f16") \cup {id} /\ WideBuffers("f32")' = WideBuffers("f32")
      BY <1>10, <2>3 DEF Kinds
    <3> QED
      BY <1>9, <2>2, <3>1 DEF Apart
  <2>4. CASE kind = "f32"
    <3>1. WideBuffers("f32")' = WideBuffers("f32") \cup {id} /\ WideBuffers("f16")' = WideBuffers("f16")
      BY <1>10, <2>4 DEF Kinds
    <3> QED
      BY <1>9, <2>2, <3>1 DEF Apart
  <2> QED
    BY <2>3, <2>4 DEF Kinds
<1>12. OwnedBuffers' \subseteq OwnedBuffers \cup {id}
  <2>1. WideBuffers("f16")' \subseteq WideBuffers("f16") \cup {id}
        /\ WideBuffers("f32")' \subseteq WideBuffers("f32") \cup {id}
    BY <1>10 DEF Kinds
  <2> QED
    BY <1>9, <2>1 DEF OwnedBuffers
<1>13. ASSUME NEW k \in Kinds, NEW i \in DOMAIN wide'[k], NEW j \in DOMAIN wide'[k],
       wide'[k][i].id = wide'[k][j].id PROVE i = j
  <2>1. \A m, n \in DOMAIN wide[k] : wide[k][m].id = wide[k][n].id => m = n
    BY <1>1 DEF BuffersOk
  <2>2. CASE k # kind
    BY <1>8, <1>13, <2>1, <2>2
  <2>3. CASE k = kind
    <3>1. \A m \in DOMAIN s : s[m].id # id
      <4>1. WideBuffers(kind) \subseteq OwnedBuffers
        BY DEF OwnedBuffers, Kinds
      <4> QED
        BY <1>2, <1>4, <4>1 DEF WideBuffers
    <3>2. i \in DOMAIN t /\ j \in DOMAIN t /\ t[i].id = t[j].id /\ \A m, n \in DOMAIN s : s[m].id = s[n].id
                                                                => m = n
      BY <1>4, <1>8, <1>13, <2>1, <2>3
    <3>3. CASE i \in DOMAIN s /\ j \in DOMAIN s
      BY <1>7, <3>2, <3>3
    <3>4. CASE i = l /\ j \in DOMAIN s
      BY <1>0, <1>7, <3>1, <3>2, <3>4
    <3>5. CASE j = l /\ i \in DOMAIN s
      BY <1>0, <1>7, <3>1, <3>2, <3>5
    <3> QED
      BY <1>7, <3>2, <3>3, <3>4, <3>5
  <2> QED
    BY <2>2, <2>3
<1>14. BuffersOk'
  <2>1. OwnedBuffers' \subseteq DOMAIN mem'
    BY <1>1, <1>3, <1>12 DEF BuffersOk
  <2> QED
    BY <1>1, <1>3, <1>9, <1>11, <1>13, <2>1 DEF BuffersOk
<1>15. MapsHold' /\ BaseHolds' /\ RangesHold' /\ ArenasHold'
  BY <1>3, NamedLive, MapsKept, RangesStay, ArenasStay
<1>16. WidesHold'
  <2>1. ASSUME NEW k \in Kinds, NEW i \in DOMAIN wide[k], NEW y, y = wide[k][i] PROVE WideHolds(y)'
    <3>1. WideHolds(y) /\ y.id \in DOMAIN mem
      BY <2>1, FamilyFacts DEF StorageOk, WidesHold
    <3> QED
      BY <1>3, <3>1, WideStays
  <2>2. WideHolds(x)'
    BY <1>0, <1>3 DEF WideHolds, HeldAt
  <2>3. ASSUME NEW k \in Kinds, NEW i \in DOMAIN wide'[k], NEW y, y = wide'[k][i] PROVE WideHolds(y)'
    <3>1. CASE k # kind
      BY <1>8, <2>1, <2>3, <3>1
    <3>2. CASE k = kind /\ i = l
      BY <1>7, <1>8, <2>2, <2>3, <3>2
    <3>3. CASE k = kind /\ i \in DOMAIN s
      BY <1>4, <1>7, <1>8, <2>1, <2>3, <3>3
    <3> QED
      BY <1>7, <1>8, <3>1, <3>2, <3>3
  <2> QED
    BY <2>3 DEF WidesHold
<1>17. ArenaRanges'
  BY DEF StorageOk, ArenaRanges, InArena
<1> QED
  BY <1>7, <1>8, <1>14, <1>15, <1>16, <1>17 DEF StorageOk

\* A product over an f16 copy needs the scratch buffer.
LEMMA Product16Keeps ==
  ASSUME WeightInv, Product16
  PROVE  WeightInv'
<1>1. Idle /\ Next1.do \in {"with_product16", "with_heads16"}
      /\ UNCHANGED <<proc, ranges, arenas, stage, queue, lookup>>
  BY DEF Product16
<1>2. lookup = NoCall /\ todo # <<>> /\ ~Uploading /\ ~Uploading'
  BY <1>1, IdleFacts DEF Uploading
<1>3. /\ Next1 \in StepType /\ phase = "serve" /\ AfterProduct \in Seq(StepType) /\ Serving(AfterProduct)
      /\ Serving(Tail(todo)) /\ SuffixOf(Tail(todo), todo, 1) /\ KindOf(Head(todo).do) = "f16"
  BY <1>1, <1>2, HeadFacts, AfterServing DEF WithCopies, KindOf, Next1
<1>4. CASE WithScratch(Next1.need, AfterProduct) /\ UNCHANGED <<g, wide>>
  <2>1. PICK n, rest : n = Next1.need /\ rest = AfterProduct
    OBVIOUS
  <2>2. n \in Nat /\ rest \in Seq(StepType) /\ Serving(rest) /\ WithScratch(n, rest)
    BY <1>3, <1>4, <2>1 DEF StepType
  <2> QED
    BY <1>1, <1>2, <1>3, <1>4, <2>2, WithScratchKeeps
<1>5. CASE Abort /\ UNCHANGED <<g, wide, mem, tmp>>
  BY <1>1, <1>2, <1>3, <1>5, AbortKeeps
<1>6. CASE /\ g' = Disabled16(g) /\ Disable16
           /\ todo' = Tail(todo) /\ held' = {h \in held : h.ptr[1] \notin WideBuffers("f16")}
           /\ UNCHANGED <<phase, tmp>>
  <2>1. g' \in GlobalsType /\ g'.host = g.host /\ g'.base = g.base /\ g'.owned = g.owned
    BY <1>6 DEF WeightInv, TypesOk, GlobalsType, Disabled16
  <2>2. StorageOk' /\ wide' \in [Kinds -> Seq(WideType)]
    BY <1>1, <1>3, <1>6, <2>1, Disable16Stores DEF WeightInv
  <2>3. TypesOk'
    <3>1. todo' \in Seq(StepType)
      BY <1>3, <1>6 DEF SuffixOf
    <3> QED
      BY <1>1, <1>2, <1>6, <2>1, <2>2, <3>1 DEF WeightInv, TypesOk
  <2>4. TransferOk'
    BY <1>1, <1>2, TransferFrame DEF WeightInv
  <2>5. ControlOk'
    <3>1. ASSUME NEW h \in held' PROVE HoldOk(h)'
      <4>1. h \in held /\ h.ptr[1] \notin WideBuffers("f16") /\ HoldOk(h)
        BY <1>6 DEF WeightInv, ControlOk, HeldOk
      <4>2. ~WideSource("f16", h.w, h.ptr)
        BY <4>1 DEF WideSource, WideBuffers
      <4>3. PICK w, p : w = h.w /\ p = h.ptr
        OBVIOUS
      <4>4. InFile(w) /\ Source(w, p)
        BY <1>3, <4>1, <4>2, <4>3 DEF HoldOk
      <4>5. Source(w, p)'
        BY <1>1, <2>1, <4>4, SourceStays
      <4> QED
        BY <4>3, <4>4, <4>5 DEF HoldOk
    <3> QED
      BY <1>1, <1>2, <1>3, <1>6, <2>1, <3>1, NextControl
  <2> QED
    BY <2>2, <2>3, <2>4, <2>5 DEF WeightInv
<1> QED
  BY <1>4, <1>5, <1>6 DEF Product16

\* The globals after an expansion that failed.
LEMMA GiveUpFacts ==
  ASSUME g \in GlobalsType, NEW s, GiveUpPreload(s, g) \/ GiveUpPreload(s, Disabled16(g))
  PROVE  g' \in GlobalsType /\ g'.host = g.host /\ g'.base = g.base /\ g'.owned = g.owned
BY DEF GlobalsType, GiveUpPreload, Disabled16

\* cuda_q8_f16_ptr() and cuda_q8_f32_ptr() expand a weight, or disable the copies.
LEMMA ExpandKeeps ==
  ASSUME WeightAssumption, WeightInv, Expand
  PROVE  WeightInv'
<1>1. lookup.step = "done" /\ WantsWide /\ UNCHANGED <<proc, ranges, arenas, tmp, stage, queue>>
  BY DEF Expand
<1>2. /\ lookup \in LookupType /\ lookup # NoCall /\ todo # <<>> /\ phase \in {"open", "serve"}
      /\ lookup.w = Next1.w
      /\ Next1.do \in WideAsked /\ lookup.ptr \in PtrType /\ g \in GlobalsType /\ TypesOk /\ StorageOk
  BY <1>1, LookupFacts DEF WantsWide, WideAsked, Products, WeightInv, TypesOk
<1>3. PICK s, kind : s = Next1 /\ kind = Kind(s)
  OBVIOUS
<1>4. kind \in Kinds /\ s \in StepType /\ s.w \in WeightType /\ InFile(s.w) /\ s.w = lookup.w
  <2>1. InFile(s.w)
    BY <1>2, <1>3, HeadFacts DEF Opening, WideAsked, Products
  <2> QED
    BY <1>2, <1>3, <2>1, HeadFacts DEF StepType, Kind, Kinds
\* what the control of either outcome leaves
<1>5. ASSUME ControlOk', StorageOk', g' \in GlobalsType, wide' \in [Kinds -> Seq(WideType)],
             phase' = phase, lookup' = NoCall, todo' \in Seq(StepType),
               \A h \in held' : h \in [w : WeightType, ptr : PtrType]
      PROVE  WeightInv'
  <2>1. TypesOk'
    BY <1>1, <1>2, <1>5 DEF TypesOk
  <2>2. TransferOk'
    <3>1. ~Uploading'
      BY <1>5 DEF Uploading, NoCall
    <3> QED
      BY <1>1, <3>1, TransferFrame DEF WeightInv
  <2> QED
    BY <1>5, <2>1, <2>2 DEF WeightInv
<1>6. wide \in [Kinds -> Seq(WideType)]
  BY <1>2 DEF TypesOk
<1>7. ASSUME NoWide(s), g' \in GlobalsType, g'.host = g.host, g'.base = g.base, g'.owned = g.owned,
             UNCHANGED <<wide, mem>> \/ Disable16
      PROVE  WeightInv'
  <2>1. NoWide(Next1)
    BY <1>3, <1>7
  <2>2. /\ ControlOk' /\ phase' = phase /\ lookup' = NoCall
        /\ todo' \in Seq(StepType) /\ \A h \in held' : h \in [w : WeightType, ptr : PtrType]
    BY <1>1, <1>2, <1>7, <2>1, NoWideKeeps
  <2>3. CASE UNCHANGED <<wide, mem>>
    <3>1. StorageOk'
      BY <1>1, <1>2, <1>7, <2>2, <2>3, StorageFrame
    <3> QED
      BY <1>5, <1>6, <1>7, <2>2, <2>3, <3>1
  <2>4. CASE Disable16
    <3>1. StorageOk' /\ wide' \in [Kinds -> Seq(WideType)]
      BY <1>1, <1>2, <1>7, <2>2, <2>4, Disable16Stores
    <3> QED
      BY <1>5, <1>7, <2>2, <3>1
  <2> QED
    BY <1>7, <2>3, <2>4
<1>8. ASSUME lookup.ptr # Null, mem' = With(mem, NewId, UnitsAt(lookup.ptr, s.w.len)),
             wide' = [wide EXCEPT ![kind] = Append(@, [m |-> s.w.m, off |-> s.w.off, len |-> s.w.len,
                                                       shape |-> s.w.shape, id |-> NewId])],
             GotWide(s, NewId), UNCHANGED g
      PROVE  WeightInv'
  <2>1. PICK id, p : id = NewId /\ p = lookup.ptr
    OBVIOUS
  <2>2. id \in Nat \ {0}
    BY <1>2, <2>1, NewIdFacts DEF StorageOk
  <2>3. PICK x : x = [m |-> s.w.m, off |-> s.w.off, len |-> s.w.len, shape |-> s.w.shape, id |-> id]
    OBVIOUS
  <2>4. x \in WideType /\ x.id = id /\ x.m = s.w.m /\ x.off = s.w.off /\ x.len = s.w.len
    BY <1>4, <2>2, <2>3 DEF WeightType, WideType
  <2>5. Source(s.w, p)
    <3>1. Source(lookup.w, lookup.ptr)
      BY <1>1, <1>2, <1>8 DEF WeightInv, ControlOk, LookupOk
    <3> QED
      BY <1>4, <2>1, <3>1
  <2>6. UnitsAt(p, s.w.len) = UnitsOf(s.w)
    <3>1. PICK w : w = s.w
      OBVIOUS
    <3>2. p \in PtrType /\ w \in WeightType /\ InFile(w) /\ Source(w, p) /\ phase # "closed"
      BY <1>2, <1>4, <2>1, <2>5, <3>1
    <3>3. UnitsAt(p, w.len) = UnitsOf(w)
      BY <1>2, <3>2, SourceReads
    <3> QED
      BY <3>1, <3>3
  <2>7. PICK image : image = UnitsOf(s.w)
    OBVIOUS
  <2>8. HeldAt(image, 0, x)
    <3>1. s.w.len \in Nat
      BY <1>4 DEF WeightType
    <3>2. \A j \in 0 .. s.w.len - 1 : 0 + j = j /\ j \in DOMAIN image /\ image[j] = <<s.w.m, s.w.off + j>>
      BY <2>7, <3>1, UnitsFacts
    <3> QED
      BY <2>4, <3>2 DEF HeldAt
  <2>9. mem' = With(mem, NewId, image) /\ wide' = [wide EXCEPT ![kind] = Append(@, x)] /\ phase' = phase
    BY <1>8, <2>1, <2>3, <2>6, <2>7 DEF GotWide, GoOn
  <2>10. /\ StorageOk' /\ wide' \in [Kinds -> Seq(WideType)]
         /\ \E i \in DOMAIN wide'[kind] : wide'[kind][i] = x
    <3>1. g'.host = g.host /\ g'.base = g.base /\ g'.owned = g.owned /\ phase # "closed"
      BY <1>2, <1>8
    <3>2. x.id = NewId /\ \E i : mem' = With(mem, NewId, i) /\ HeldAt(i, 0, x)
      BY <2>1, <2>4, <2>8, <2>9
    <3> QED
      BY <1>1, <1>2, <1>4, <2>4, <2>9, <3>1, <3>2, AddedCopyStores
  <2>11. WideSource(kind, s.w, <<id, 0>>)'
    BY <2>4, <2>10 DEF WideSource
  <2>12. GotWide(s, id) /\ g'.base = g.base /\ g'.host = g.host /\ g'.owned = g.owned /\ id \in Nat
    BY <1>8, <2>1, <2>2
  <2>13. /\ ControlOk' /\ phase' = phase /\ lookup' = NoCall
         /\ todo' \in Seq(StepType) /\ \A h \in held' : h \in [w : WeightType, ptr : PtrType]
    BY <1>1, <1>2, <1>3, <2>11, <2>12, GotWideKeeps
  <2> QED
    BY <1>2, <1>5, <1>8, <2>10, <2>13
<1>9. \/ NoWide(s) /\ GiveUpPreload(s, g) /\ UNCHANGED <<wide, mem>>
      \/ NoWide(s) /\ GiveUpPreload(s, Disabled16(g)) /\ Disable16
      \/ /\ lookup.ptr # Null /\ mem' = With(mem, NewId, UnitsAt(lookup.ptr, s.w.len))
         /\ wide' = [wide EXCEPT ![kind] = Append(@, [m |-> s.w.m, off |-> s.w.off, len |-> s.w.len,
                                                      shape |-> s.w.shape, id |-> NewId])]
         /\ GotWide(s, NewId) /\ UNCHANGED g
  BY <1>3 DEF Expand
<1> QED
  BY <1>2, <1>7, <1>8, <1>9, GiveUpFacts

-----------------------------------------------------------------------------
(* The engine opens and closes. *)

\* The empty tables of copies.
LEMMA NoCopiesType == NoCopies \in [Kinds -> Seq(WideType)] /\ NoCopies["f16"] = <<>>
  /\ NoCopies["f32"] = <<>>
<1>1. DOMAIN NoCopies = Kinds /\ NoCopies["f16"] = <<>> /\ NoCopies["f32"] = <<>>
  BY DEF NoCopies, Kinds
<1>2. NoCopies = [k \in Kinds |-> <<>>]
  BY DEF NoCopies, Kinds
<1>3. <<>> \in Seq(WideType)
  OBVIOUS
<1> QED
  BY <1>1, <1>2, <1>3

\* Every table is empty.
LEMMA EmptiedTables ==
  ASSUME ranges' = <<>>, arenas' = <<>>, wide' = NoCopies
  PROVE  /\ RangeBuffers' = {} /\ ArenaBuffers' = {} /\ WideBuffers("f16")' = {} /\ WideBuffers("f32")' = {}
         /\ OwnedBuffers' = Scratches' \cup OwnedBase'
         /\ RangesHold' /\ WidesHold' /\ ArenasHold' /\ ArenaRanges'
         /\ ranges' \in Seq(RangeType) /\ arenas' \in Seq(ArenaType) /\ wide' \in [Kinds -> Seq(WideType)]
<1>1. DOMAIN ranges' = {} /\ DOMAIN arenas' = {}
  OBVIOUS
<1>2. \A k \in Kinds : DOMAIN wide'[k] = {}
  BY NoCopiesType DEF Kinds
<1>3. RangeBuffers' = {} /\ ArenaBuffers' = {}
  BY <1>1 DEF RangeBuffers, ArenaBuffers
<1>4. WideBuffers("f16")' = {} /\ WideBuffers("f32")' = {}
  BY <1>2 DEF WideBuffers, Kinds
<1>5. OwnedBuffers' = Scratches' \cup OwnedBase'
  BY <1>3, <1>4 DEF OwnedBuffers
<1>6. RangesHold' /\ ArenasHold' /\ ArenaRanges'
  BY <1>1 DEF RangesHold, ArenasHold, ArenaRanges
<1>7. WidesHold'
  BY <1>2 DEF WidesHold
<1>8. ranges' \in Seq(RangeType) /\ arenas' \in Seq(ArenaType)
  OBVIOUS
<1>9. wide' \in [Kinds -> Seq(WideType)]
  BY NoCopiesType
<1> QED
  BY <1>3, <1>4, <1>5, <1>6, <1>7, <1>8, <1>9

\* The tables after everything was released.
LEMMA EmptiedOk ==
  ASSUME BuffersOk, ranges' = <<>>, arenas' = <<>>, wide' = NoCopies,
         IsFiniteSet(DOMAIN mem'), DOMAIN mem' \subseteq Int \ {0},
         Scratches' \cup OwnedBase' \subseteq DOMAIN mem', Scratches' \cap OwnedBase' = {}
  PROVE  BuffersOk'
<1>1. /\ RangeBuffers' = {} /\ ArenaBuffers' = {} /\ WideBuffers("f16")' = {} /\ WideBuffers("f32")' = {}
      /\ OwnedBuffers' = Scratches' \cup OwnedBase'
  BY EmptiedTables
<1>2. Apart(RangeBuffers, ArenaBuffers, WideBuffers("f16"), WideBuffers("f32"), Scratches, OwnedBase)'
  BY <1>1 DEF Apart
<1>3. DOMAIN arenas' = {} /\ \A k \in Kinds : DOMAIN wide'[k] = {}
  BY NoCopiesType DEF Kinds
<1> QED
  BY <1>1, <1>2, <1>3 DEF BuffersOk

\* ds4_gpu_cleanup() releases every buffer.
LEMMA CleanupKeeps ==
  ASSUME WeightInv, Cleanup, UNCHANGED <<proc, stage>>, lookup' = NoCall
  PROVE  WeightInv'
<1>1. /\ phase' = "closed" /\ todo' = <<>> /\ held' = {}
      /\ ranges' = <<>> /\ arenas' = <<>> /\ wide' = NoCopies /\ queue' = <<>>
      /\ tmp' = [id |-> 0, units |-> 0]
      /\ g' = [g EXCEPT !.owned = FALSE, !.base = 0, !.host = 0]
      /\ DOMAIN mem' \subseteq DOMAIN mem
  BY DEF Cleanup, Freed
<1>2. g \in GlobalsType /\ BuffersOk
  BY DEF WeightInv, TypesOk, StorageOk
<1>3. g' \in GlobalsType /\ ~g'.owned /\ g'.base = 0 /\ tmp'.id = 0
  <2>1. tmp'.id = 0
    BY <1>1
  <2>2. ~g'.owned /\ g'.base = 0
    BY <1>1, <1>2 DEF GlobalsType
  <2>3. PICK r : r = [g EXCEPT !.owned = FALSE, !.base = 0]
    OBVIOUS
  <2>4. r \in GlobalsType
    <3>1. PICK r1 : r1 = [g EXCEPT !.owned = FALSE]
      OBVIOUS
    <3>2. r1 \in GlobalsType
      BY <1>2, <3>1 DEF GlobalsType
    <3>3. r = [r1 EXCEPT !.base = 0]
      BY <2>3, <3>1
    <3> QED
      BY <3>2, <3>3 DEF GlobalsType
  <2>5. g' = [r EXCEPT !.host = 0]
    BY <1>1, <2>3
  <2>6. g' \in GlobalsType
    BY <2>4, <2>5 DEF GlobalsType
  <2> QED
    BY <2>1, <2>2, <2>6
<1>4. Scratches' = {} /\ OwnedBase' = {}
  BY <1>3 DEF Scratches, OwnedBase
<1>5. BuffersOk'
  <2>1. IsFiniteSet(DOMAIN mem') /\ DOMAIN mem' \subseteq Int \ {0}
    BY <1>1, <1>2, FS_Subset DEF BuffersOk
  <2> QED
    BY <1>1, <1>2, <1>4, <2>1, EmptiedOk
<1>6. MapsHold' /\ BaseHolds'
  BY <1>1, <1>3 DEF MapsHold, BaseHolds
<1>7. StorageOk'
  BY <1>1, <1>5, <1>6, EmptiedTables DEF StorageOk
<1>8. TypesOk'
  <2>1. tmp' \in [id : Nat, units : Nat] /\ queue' \in Seq(CopyType) /\ todo' \in Seq(StepType) /\ held' = {}
        /\ phase' \in {"open", "serve", "closed"}
    BY <1>1
  <2>2. ranges' \in Seq(RangeType) /\ arenas' \in Seq(ArenaType) /\ wide' \in [Kinds -> Seq(WideType)]
    BY <1>1, EmptiedTables
  <2> QED
    BY <1>3, <2>1, <2>2 DEF WeightInv, TypesOk
<1>9. TransferOk'
  BY <1>1 DEF TransferOk, QueueOk, UploadOk, Uploading, NoCall
<1>10. ControlOk'
  BY <1>1, <1>3 DEF ControlOk, LookupOk, HeldOk, TodoOk
<1> QED
  BY <1>7, <1>8, <1>9, <1>10 DEF WeightInv

\* ds4_engine_close() after the last operation.
LEMMA CloseKeeps ==
  ASSUME WeightInv, Close
  PROVE  WeightInv'
<1>1. todo = <<>> /\ Cleanup /\ UNCHANGED <<proc, stage, lookup>>
  BY DEF Close
<1>2. lookup = NoCall
  BY <1>1 DEF WeightInv, ControlOk, LookupOk
<1> QED
  BY <1>1, <1>2, CleanupKeeps

\* The preload of a span is over.
LEMMA TakeSpanKeeps ==
  ASSUME WeightInv, TakeSpan
  PROVE  WeightInv'
<1>1. lookup.step = "done" /\ lookup' = NoCall /\ UNCHANGED <<proc, stage>> /\ Next1.do = "span"
  BY DEF TakeSpan
<1>2. CASE GoOn /\ UNCHANGED <<g, ranges, arenas, wide, tmp, mem, queue>>
  <2>1. todo' = Tail(todo) /\ phase' = phase /\ held' = held
    BY <1>2 DEF GoOn
  <2>2. todo # <<>> /\ phase \in {"open", "serve"}
    BY <1>1, LookupFacts
  <2>3. phase = "open" /\ SuffixOf(Tail(todo), todo, 1)
    BY <1>1, <2>2, HeadFacts DEF Products, WithCopies
  <2>4. held = {}
    BY <2>3 DEF WeightInv, ControlOk, HeldOk
  <2>5. TypesOk'
    <3>1. todo' \in Seq(StepType)
      BY <2>1, <2>3 DEF SuffixOf
    <3> QED
      BY <1>1, <1>2, <2>1, <3>1 DEF WeightInv, TypesOk
  <2>6. StorageOk'
    BY <1>1, <1>2, <2>1, StorageFrame DEF WeightInv
  <2>7. TransferOk'
    <3>1. ~Uploading'
      BY <1>1 DEF Uploading, NoCall
    <3> QED
      BY <1>2, <3>1, TransferFrame DEF WeightInv
  <2>8. ControlOk'
    BY <1>1, <1>2, <2>1, <2>2, <2>4, NextControl
  <2> QED
    BY <2>5, <2>6, <2>7, <2>8 DEF WeightInv
<1>3. CASE Cleanup
  BY <1>1, <1>3, CleanupKeeps
<1> QED
  BY <1>2, <1>3 DEF TakeSpan

-----------------------------------------------------------------------------
(* A model is mapped. *)

\* What a call that maps model m leaves, when the buffers of kept go on.
OutcomeOk(o, m, kept) ==
  /\ o.g \in GlobalsType /\ o.g.host = m
  /\ IsFiniteSet(DOMAIN o.mem) /\ DOMAIN o.mem \subseteq Int \ {0}
  /\ kept \subseteq DOMAIN o.mem /\ \A b \in kept : o.mem[b] = mem[b]
  /\ IF o.g.owned THEN o.g.base \in Nat \ {0} /\ o.g.base \in DOMAIN o.mem /\ o.g.base \notin kept
                       /\ o.mem[o.g.base] = FileImage(m)
     ELSE o.g.base = m

\* ds4_gpu_set_model_map(): the base is the mapping or a copy of the file.
LEMMA SetMapFacts ==
  ASSUME g \in GlobalsType, BuffersOk, NEW m \in Models, g.host # m,
         NEW kept, kept \subseteq DOMAIN ReleaseAll(mem), NEW o \in SetModelMap(m)
  PROVE  OutcomeOk(o, m, kept)
<1> DEFINE left == ReleaseAll(mem)
           id == FreshId(DOMAIN left)
<1>1. \/ o = Outcome(Mapped(m, m, FALSE, proc.register = "map"), left, Env("COPY_MODEL"))
      \/ o = Outcome(Mapped(m, id, TRUE, FALSE), With(left, id, FileImage(m)), FALSE)
  BY DEF SetModelMap
<1>2. DOMAIN left \subseteq DOMAIN mem /\ \A b \in DOMAIN left : left[b] = mem[b]
  BY DEF ReleaseAll, Freed
<1>3. IsFiniteSet(DOMAIN left) /\ DOMAIN left \subseteq Int \ {0}
  BY <1>2, FS_Subset DEF BuffersOk
<1>4. id \in Nat \ {0} /\ id \notin DOMAIN left
  BY <1>3, FreshFacts
<1>5. kept \subseteq DOMAIN left
  OBVIOUS
<1> HIDE DEF left, id
<1>6. ASSUME NEW b \in Int, NEW owned \in BOOLEAN, NEW registered \in BOOLEAN
      PROVE  /\ Mapped(m, b, owned, registered) \in GlobalsType
             /\ Mapped(m, b, owned, registered).host = m /\ Mapped(m, b, owned, registered).base = b
             /\ Mapped(m, b, owned, registered).owned = owned
  <2>1. m \in Int /\ g.fd_base \in Int
    BY DEF Models, Main, Draft, GlobalsType
  <2>2. PICK fd : fd = IF g.fd_base = 0 THEN m ELSE g.fd_base
    OBVIOUS
  <2>3. fd \in Int
    BY <2>1, <2>2
  <2>4. Mapped(m, b, owned, registered) =
          [g EXCEPT !.host = m, !.base = b, !.owned = owned, !.registered = registered,
            !.mapping = TRUE, !.hmm = FALSE, !.full = FALSE, !.off16 = FALSE, !.range_bytes = 0,
            !.fd_base = fd]
    BY <2>2 DEF Mapped
  <2>5. PICK r1 : r1 = [g EXCEPT !.host = m, !.base = b, !.owned = owned, !.registered = registered]
    OBVIOUS
  <2>6. r1 \in GlobalsType /\ r1.host = m /\ r1.base = b /\ r1.owned = owned
    BY <2>5 DEF GlobalsType
  <2>7. PICK r2 : r2 = [r1 EXCEPT !.mapping = TRUE, !.hmm = FALSE, !.full = FALSE]
    OBVIOUS
  <2>8. r2 \in GlobalsType /\ r2.host = m /\ r2.base = b /\ r2.owned = owned
    BY <2>6, <2>7 DEF GlobalsType
  <2>9. PICK r3 : r3 = [r2 EXCEPT !.off16 = FALSE, !.range_bytes = 0, !.fd_base = fd]
    OBVIOUS
  <2>10. r3 \in GlobalsType /\ r3.host = m /\ r3.base = b /\ r3.owned = owned
    BY <2>3, <2>8, <2>9 DEF GlobalsType
  <2>11. Mapped(m, b, owned, registered) = r3
    BY <2>4, <2>5, <2>7, <2>9
  <2> QED
    BY <2>10, <2>11
<1>7. CASE o = Outcome(Mapped(m, m, FALSE, proc.register = "map"), left, Env("COPY_MODEL"))
  <2>1. m \in Int /\ (proc.register = "map") \in BOOLEAN
    BY DEF Models, Main, Draft
  <2>2. PICK reg \in BOOLEAN : reg = (proc.register = "map")
    BY <2>1
  <2>3. PICK r : r = Mapped(m, m, FALSE, reg)
    OBVIOUS
  <2>4. r \in GlobalsType /\ r.host = m /\ r.base = m /\ ~r.owned
    BY <1>6, <2>1, <2>3
  <2>5. o.g = r /\ o.mem = left
    BY <1>7, <2>2, <2>3 DEF Outcome
  <2> QED
    BY <1>2, <1>3, <1>5, <2>4, <2>5 DEF OutcomeOk
<1>8. CASE o = Outcome(Mapped(m, id, TRUE, FALSE), With(left, id, FileImage(m)), FALSE)
  <2>1. PICK r, image : r = Mapped(m, id, TRUE, FALSE) /\ image = With(left, id, FileImage(m))
    OBVIOUS
  <2>2. r \in GlobalsType /\ r.host = m /\ r.base = id /\ r.owned
    <3>1. id \in Int /\ TRUE \in BOOLEAN /\ FALSE \in BOOLEAN
      BY <1>4
    <3>2. /\ Mapped(m, id, TRUE, FALSE) \in GlobalsType
          /\ Mapped(m, id, TRUE, FALSE).host = m /\ Mapped(m, id, TRUE, FALSE).base = id
          /\ Mapped(m, id, TRUE, FALSE).owned = TRUE
      BY <1>6, <3>1
    <3> QED
      BY <2>1, <3>2
  <2>3. o.g = r /\ o.mem = image
    BY <1>8, <2>1 DEF Outcome
  <2>4. DOMAIN image = DOMAIN left \cup {id} /\ image[id] = FileImage(m)
        /\ \A b \in DOMAIN left : image[b] = left[b]
    BY <1>4, <2>1 DEF With
  <2>5. IsFiniteSet(DOMAIN image) /\ DOMAIN image \subseteq Int \ {0}
    BY <1>3, <1>4, <2>4, FS_AddElement
  <2> QED
    BY <1>2, <1>4, <1>5, <2>2, <2>3, <2>4, <2>5 DEF OutcomeOk
<1> QED
  BY <1>1, <1>7, <1>8

\* ds4_gpu_managed_prefetch() or the copy in chunks: what the base becomes.
LEMMA CopyChunkedFacts ==
  ASSUME NEW q, NEW m \in Models, NEW kept, OutcomeOk(q, m, kept), NEW o \in CopyChunked(q) \cup Prefetch(q)
  PROVE  OutcomeOk(o, m, kept)
<1> DEFINE id == FreshId(DOMAIN q.mem)
<1>1. \/ o = q
      \/ /\ ~q.g.owned
         /\ o = Outcome([q.g EXCEPT !.base = id, !.owned = TRUE, !.hmm = FALSE], With(q.mem, id, FileImage(q.g.host)), q.failed)
      \/ o = Outcome([q.g EXCEPT !.hmm = TRUE], q.mem, q.failed)
  BY DEF CopyChunked, Prefetch
<1>2. id \in Nat \ {0} /\ id \notin DOMAIN q.mem
  BY FreshFacts DEF OutcomeOk
<1> HIDE DEF id
<1>3. CASE o = q
  BY <1>3
<1>4. CASE o = Outcome([q.g EXCEPT !.base = id, !.owned = TRUE, !.hmm = FALSE], With(q.mem, id, FileImage(q.g.host)), q.failed)
  <2>1. PICK r, image : r = [q.g EXCEPT !.base = id, !.owned = TRUE, !.hmm = FALSE]
        /\ image = With(q.mem, id, FileImage(m))
    OBVIOUS
  <2>2. r \in GlobalsType /\ r.host = m /\ r.base = id /\ r.owned
    <3>1. q.g \in GlobalsType /\ q.g.host = m
      BY DEF OutcomeOk
    <3>2. PICK r1 : r1 = [q.g EXCEPT !.base = id]
      OBVIOUS
    <3>3. r1 \in GlobalsType /\ r1.host = m /\ r1.base = id
      BY <1>2, <3>1, <3>2 DEF GlobalsType
    <3>4. r = [r1 EXCEPT !.owned = TRUE, !.hmm = FALSE]
      BY <2>1, <3>2
    <3> QED
      BY <3>3, <3>4 DEF GlobalsType
  <2>3. o.g = r /\ o.mem = image
    BY <1>4, <2>1 DEF Outcome, OutcomeOk
  <2>4. DOMAIN image = DOMAIN q.mem \cup {id} /\ image[id] = FileImage(m)
        /\ \A b \in DOMAIN q.mem : image[b] = q.mem[b]
    BY <1>2, <2>1 DEF With
  <2>5. IsFiniteSet(DOMAIN image) /\ DOMAIN image \subseteq Int \ {0}
    BY <1>2, <2>4, FS_AddElement DEF OutcomeOk
  <2> QED
    BY <1>2, <2>2, <2>3, <2>4, <2>5 DEF OutcomeOk
<1>5. CASE o = Outcome([q.g EXCEPT !.hmm = TRUE], q.mem, q.failed)
  <2>1. PICK r : r = [q.g EXCEPT !.hmm = TRUE]
    OBVIOUS
  <2>2. r \in GlobalsType /\ r.host = q.g.host /\ r.base = q.g.base /\ r.owned = q.g.owned
    BY <2>1 DEF OutcomeOk, GlobalsType
  <2>3. o.g = r /\ o.mem = q.mem
    BY <1>5, <2>1 DEF Outcome
  <2> QED
    BY <2>2, <2>3 DEF OutcomeOk
<1> QED
  BY <1>1, <1>3, <1>4, <1>5

\* The state after a model is mapped.
LEMMA MappedKeeps ==
  ASSUME WeightInv, phase = "open", Idle, NEW m \in MappedModels, g.host # m,
         NEW s, s = Next1, s.w.m = m, s.do = "map" \/ proc.managed,
         UNCHANGED <<proc, phase, tmp, stage, lookup, held>>, todo' = Tail(todo),
         ranges' = <<>>, arenas' = <<>>, wide' = NoCopies, queue' = <<>>,
         g' \in GlobalsType, g'.host = m,
         IsFiniteSet(DOMAIN mem'), DOMAIN mem' \subseteq Int \ {0},
         \A b \in MappedModels \cup Scratches : Kept(b),
         IF g'.owned THEN \/ g'.base \in Nat \ {0} /\ g'.base \in DOMAIN mem' /\ g'.base \notin Scratches
                             /\ mem'[g'.base] = FileImage(m)
                          \/ proc.managed /\ g'.base = Main /\ m = Main
         ELSE g'.base = m
  PROVE  WeightInv'
<1>1. lookup = NoCall /\ todo # <<>> /\ ~Uploading /\ ~Uploading'
  BY IdleFacts DEF Uploading
<1>2. /\ todo \in Seq(StepType) /\ SuffixOf(Tail(todo), todo, 1) /\ Opening(todo) /\ Opening(Tail(todo))
      /\ Next1 = todo[1] /\ 1 \in DOMAIN todo
  BY <1>1, HeadFacts
<1>3. TypesOk /\ StorageOk /\ held = {}
  BY DEF WeightInv, ControlOk, HeldOk
<1>4. Scratches' = Scratches /\ OwnedBase' = (IF g'.owned THEN {g'.base} ELSE {})
      /\ MappedModels' = MappedModels
  BY DEF Scratches, OwnedBase, MappedModels
<1>5. \A b \in MappedModels : b \notin Scratches
  <2>1. \A b \in Scratches : b \in Nat
    BY <1>3 DEF Scratches, TypesOk
  <2>2. \A b \in MappedModels : b \notin Nat
    BY DEF MappedModels, Main, Draft
  <2> QED
    BY <2>1, <2>2
<1>6. MapsHold /\ \A b \in MappedModels : mem[b] = FileImage(b)
  BY <1>3 DEF StorageOk, MapsHold
<1>7. BuffersOk'
  <2>1. Scratches' \cup OwnedBase' \subseteq DOMAIN mem'
    BY <1>4 DEF Kept, MappedModels
  <2>2. Scratches' \cap OwnedBase' = {}
    BY <1>4, <1>5 DEF MappedModels
  <2> QED
    BY <1>3, <2>1, <2>2, EmptiedOk DEF StorageOk
<1>8. MapsHold' /\ BaseHolds'
  <2>1. MapsHold'
    BY <1>4, <1>6 DEF MapsHold, Kept
  <2>2. g'.base \in DOMAIN mem' /\ mem'[g'.base] = FileImage(m)
    BY <1>6 DEF Kept
  <2>3. (g'.owned => g'.base \in Nat \ {0} \/ (proc.managed /\ g'.base = Main))
        /\ (~g'.owned => g'.base = g'.host)
    OBVIOUS
  <2>4. BaseHolds'
    BY <1>4, <2>2, <2>3 DEF BaseHolds
  <2> QED
    BY <2>1, <2>4
<1>9. StorageOk'
  BY <1>7, <1>8, EmptiedTables DEF StorageOk
<1>10. TypesOk'
  <2>1. todo' \in Seq(StepType) /\ queue' \in Seq(CopyType)
    BY <1>2 DEF SuffixOf
  <2>2. ranges' \in Seq(RangeType) /\ arenas' \in Seq(ArenaType) /\ wide' \in [Kinds -> Seq(WideType)]
    BY EmptiedTables
  <2> QED
    BY <1>1, <1>3, <2>1, <2>2 DEF TypesOk
<1>11. TransferOk'
  BY <1>1 DEF TransferOk, QueueOk, UploadOk
<1>12. PICK t : t = Tail(todo)
  OBVIOUS
<1>13. Opening(t)'
  <2>1. /\ Opening(t)
        /\ \A i \in DOMAIN t : i + 1 \in DOMAIN todo /\ t[i] = todo[i + 1] /\ i + 1 # 1
    <3>1. Len(todo) \in Nat
      BY <1>2
    <3>2. DOMAIN t = 1 .. Len(todo) - 1 /\ \A i \in 1 .. Len(todo) - 1 : i + 1 \in DOMAIN todo
                                                                /\ t[i] = todo[i + 1]
      BY <1>2, <1>12 DEF SuffixOf
    <3> QED
      BY <1>2, <1>12, <3>1, <3>2
  <2>2. ASSUME NEW i \in DOMAIN t
        PROVE t[i].do # "managed" /\ (t[i].do = "map" => ~proc.managed /\ t[i].w.m # m)
    <3>1. t[i] = todo[i + 1] /\ i + 1 \in DOMAIN todo /\ i + 1 # 1
      BY <2>1
    <3>2. t[i].do # "managed" /\ (t[i].do = "map" => ~proc.managed)
      BY <1>2, <3>1 DEF Opening
    <3>3. ASSUME t[i].do = "map" PROVE t[i].w.m # m
      <4>1. todo[1].do = "map" /\ todo[1].w.m = m
        BY <1>2, <3>2, <3>3
      <4> QED
        BY <1>2, <3>1, <3>3, <4>1 DEF Opening
    <3> QED
      BY <3>2, <3>3
  <2> QED
    BY <1>4, <2>1, <2>2 DEF Opening, InFile
<1>14. ControlOk'
  <2>1. TodoOk'
    <3>1. Opening(todo)'
      BY <1>12, <1>13 DEF Opening, InFile, MappedModels
    <3> QED
      BY <3>1 DEF TodoOk
  <2> QED
    BY <1>1, <1>3, <2>1 DEF ControlOk, LookupOk, HeldOk
<1> QED
  BY <1>9, <1>10, <1>11, <1>14 DEF WeightInv

\* A model is mapped at the start: what an earlier map kept is released.
LEMMA MapModelKeeps ==
  ASSUME WeightAssumption, WeightInv, MapModel
  PROVE  WeightInv'
<1>1. /\ Idle /\ Next1.do \in {"map", "managed"} /\ GoOn
      /\ UNCHANGED <<proc, tmp, stage, lookup>>
  BY DEF MapModel
<1>2. PICK s, m : s = Next1 /\ m = s.w.m
  OBVIOUS
<1>3. /\ todo # <<>> /\ m \in MappedModels /\ m \in Models /\ phase = "open" /\ Opening(todo) /\ s = todo[1]
      /\ 1 \in DOMAIN todo
  BY <1>1, <1>2, IdleFacts, HeadFacts DEF Products, WithCopies, MappedModels, Models
<1>4. /\ s.do = "managed" => g.host = 0 /\ proc.managed /\ m = Main
      /\ s.do = "map" => ~proc.managed /\ m # g.host
  BY <1>2, <1>3 DEF Opening
<1>5. g.host # m /\ s.do \in {"map", "managed"}
  BY <1>1, <1>2, <1>3, <1>4 DEF Models, Main, Draft
<1>6. g \in GlobalsType /\ StorageOk /\ BuffersOk /\ TypesOk
  BY DEF WeightInv, TypesOk, StorageOk
<1>7. ranges' = <<>> /\ arenas' = <<>> /\ wide' = NoCopies /\ queue' = <<>>
  BY <1>2, <1>5 DEF MapModel
<1> DEFINE kept == MappedModels \cup Scratches
           left == ReleaseAll(mem)
\* the maps are not freed: what a global owns is a copy of a file
<1>8. kept \subseteq DOMAIN left /\ \A b \in DOMAIN left : left[b] = mem[b]
  <2>1. \A b \in MappedModels : b \notin Nat
    BY DEF MappedModels, Main, Draft
  <2>2. \A b \in OwnedBase : b \in Nat
    <3>1. g.owned => g.base \in Nat \/ (proc.managed /\ g.base = Main /\ g.host \in MappedModels)
      BY <1>6 DEF StorageOk, BaseHolds, Main
    <3>2. g.owned /\ proc.managed /\ g.base = Main => g.host # 0
      BY <3>1 DEF MappedModels, Main, Draft
    <3>3. proc.managed => g.host = 0
      BY <1>4, <1>5
    <3>4. g.owned => g.base \in Nat
      BY <1>6, <3>1, <3>3 DEF StorageOk, BaseHolds, Main, MappedModels, Draft
    <3> QED
      BY <3>4 DEF OwnedBase
  <2>3. \A b \in ArenaBuffers \cup WideBuffers("f16") \cup WideBuffers("f32") : b \in Nat
    BY <1>6, EntryTypes DEF ArenaBuffers, WideBuffers, Kinds
  <2>4. \A b \in RangeBuffers : b \in Nat
    BY <1>6 DEF BuffersOk
  <2>5. MappedModels \subseteq DOMAIN mem /\ Scratches \subseteq DOMAIN mem
    BY <1>3, <1>6, NamedLive DEF BuffersOk, OwnedBuffers
  <2>6. Scratches \cap (RangeBuffers \cup ArenaBuffers \cup WideBuffers("f16") \cup WideBuffers("f32") \cup OwnedBase) = {}
    BY <1>6 DEF BuffersOk, Apart
  <2>7. DOMAIN left = DOMAIN mem \ (RangeBuffers \cup ArenaBuffers \cup WideBuffers("f16") \cup WideBuffers("f32") \cup OwnedBase)
        /\ \A b \in DOMAIN left : left[b] = mem[b]
    BY DEF ReleaseAll, Freed
  <2> HIDE DEF left
  <2> QED
    BY <2>1, <2>2, <2>3, <2>4, <2>5, <2>6, <2>7
<1> HIDE DEF left, kept
<1>9. ASSUME NEW q, OutcomeOk(q, m, kept), g' = q.g \/ (s.do = "managed" /\ g' = ManagedPrefetch(q).g),
      mem' = q.mem
      PROVE  WeightInv'
  <2>1. \A b \in MappedModels \cup Scratches : Kept(b)
    BY <1>9 DEF OutcomeOk, Kept, kept
  <2>2. IsFiniteSet(DOMAIN mem') /\ DOMAIN mem' \subseteq Int \ {0}
    BY <1>9 DEF OutcomeOk
  <2>3. g' \in GlobalsType /\ g'.host = m
    <3>1. q.g \in GlobalsType /\ q.g.host = m
      BY <1>9 DEF OutcomeOk
    <3>2. CASE g' = q.g
      BY <3>1, <3>2
    <3>3. CASE g' = ManagedPrefetch(q).g
      <4>1. m \in Int
        BY <1>3 DEF Models, Main, Draft
      <4>2. PICK r1 : r1 = [q.g EXCEPT !.base = m]
        OBVIOUS
      <4>3. r1 \in GlobalsType /\ r1.host = m
        BY <3>1, <4>1, <4>2 DEF GlobalsType
      <4>4. g' = [r1 EXCEPT !.owned = TRUE, !.registered = FALSE, !.hmm = FALSE]
        BY <3>1, <3>3, <4>2 DEF ManagedPrefetch, Outcome
      <4> QED
        BY <4>3, <4>4 DEF GlobalsType
    <3> QED
      BY <1>9, <3>2, <3>3
  <2>4. IF g'.owned THEN \/ g'.base \in Nat \ {0} /\ g'.base \in DOMAIN mem' /\ g'.base \notin Scratches
                            /\ mem'[g'.base] = FileImage(m)
                         \/ proc.managed /\ g'.base = Main /\ m = Main
        ELSE g'.base = m
    <3>1. CASE g' = q.g
      BY <1>9, <3>1 DEF OutcomeOk, kept
    <3>2. CASE s.do = "managed" /\ g' = ManagedPrefetch(q).g
      <4>1. q.g \in GlobalsType /\ q.g.host = m
        BY <1>9 DEF OutcomeOk
      <4>2. g'.base = m /\ g'.owned
        BY <3>2, <4>1 DEF ManagedPrefetch, Outcome, GlobalsType
      <4> QED
        BY <1>4, <3>2, <4>2
    <3> QED
      BY <1>9, <3>1, <3>2
  <2>5. todo' = Tail(todo) /\ phase' = phase /\ held' = held
    BY <1>1 DEF GoOn
  <2>6. s.do = "map" \/ proc.managed
    BY <1>4, <1>5
  <2> QED
    BY <1>1, <1>2, <1>3, <1>5, <1>7, <2>1, <2>2, <2>3, <2>4, <2>5, <2>6, MappedKeeps
<1>10. \A q \in SetModelMap(m) : OutcomeOk(q, m, kept)
  BY <1>3, <1>5, <1>6, <1>8, SetMapFacts DEF left
<1>11. CASE s.do = "map"
  <2>1. PICK o \in SetModelMapRange(m) : g' = o.g /\ mem' = o.mem
    BY <1>2, <1>11 DEF MapModel
  <2>2. OutcomeOk(o, m, kept)
    <3>1. CASE o \in SetModelMap(m)
      BY <1>10, <3>1
    <3>2. CASE \E q \in SetModelMap(m) : o \in CopyChunked(q) \cup Prefetch(q)
      BY <1>3, <1>10, <3>2, CopyChunkedFacts
    <3> QED
      BY <2>1, <3>1, <3>2 DEF SetModelMapRange
  <2> QED
    BY <1>9, <2>1, <2>2
<1>12. CASE s.do = "managed"
  <2>1. PICK q \in SetModelMap(m) : g' = ManagedPrefetch(q).g /\ mem' = ManagedPrefetch(q).mem
    BY <1>2, <1>4, <1>12 DEF MapModel
  <2>2. mem' = q.mem
    BY <2>1 DEF ManagedPrefetch, Outcome
  <2> QED
    BY <1>9, <1>10, <1>12, <2>1, <2>2
<1> QED
  BY <1>5, <1>11, <1>12

-----------------------------------------------------------------------------
(* The start. *)

\* The start, put together from its parts.
LEMMA OpeningConcat ==
  ASSUME NEW a \in Seq(StepType), NEW b \in Seq(StepType), Opening(a), Opening(b),
         \A i \in DOMAIN b : b[i].do # "managed",
         \A i \in DOMAIN a, j \in DOMAIN b : a[i].do = "map" /\ b[j].do = "map" => a[i].w.m # b[j].w.m
  PROVE  Opening(a \o b) /\ a \o b \in Seq(StepType)
<1> DEFINE c == a \o b
           m == Len(a)
           n == Len(b)
<1>1. /\ c \in Seq(StepType) /\ m \in Nat /\ n \in Nat
      /\ DOMAIN a = 1 .. m /\ DOMAIN b = 1 .. n /\ DOMAIN c = 1 .. m + n
      /\ \A i \in 1 .. m : c[i] = a[i]
      /\ \A i \in 1 .. n : c[m + i] = b[i]
      /\ \A i \in 1 .. m + n : i \in 1 .. m \/ \E k \in 1 .. n : i = m + k
  <2>1. Joined(StepType, a, b, c)
    BY ConcatFacts
  <2> HIDE DEF c
  <2> QED
    BY <2>1 DEF Joined
<1> HIDE DEF c, m, n
<1>2. ASSUME NEW i \in DOMAIN c
      PROVE  /\ c[i].do \in {"map", "managed", "span", "preload"}
             /\ c[i].w.m \in MappedModels
             /\ c[i].do = "preload" => InFile(c[i].w)
             /\ c[i].do = "managed" => i = 1 /\ g.host = 0 /\ proc.managed /\ c[i].w.m = Main
             /\ c[i].do = "map" => ~proc.managed /\ c[i].w.m # g.host
  <2>1. CASE i \in 1 .. m
    BY <1>1, <2>1 DEF Opening
  <2>2. CASE \E k \in 1 .. n : i = m + k
    <3>1. PICK k \in 1 .. n : i = m + k
      BY <2>2
    <3>2. k \in DOMAIN b /\ c[i] = b[k]
      BY <1>1, <3>1
    <3>3. b[k].do # "managed"
      BY <3>2
    <3> QED
      BY <3>2, <3>3 DEF Opening
  <2> QED
    BY <1>1, <2>1, <2>2
<1>3. ASSUME NEW i \in DOMAIN c, NEW j \in DOMAIN c, c[i].do = "map", c[j].do = "map", c[i].w.m = c[j].w.m
      PROVE  i = j
  <2>1. CASE i \in 1 .. m /\ j \in 1 .. m
    BY <1>1, <1>3, <2>1 DEF Opening
  <2>2. CASE i \in 1 .. m /\ \E k \in 1 .. n : j = m + k
    BY <1>1, <1>3, <2>2
  <2>3. CASE j \in 1 .. m /\ \E k \in 1 .. n : i = m + k
    <3>1. PICK k \in 1 .. n : i = m + k
      BY <2>3
    <3>2. k \in DOMAIN b /\ c[i] = b[k] /\ j \in DOMAIN a /\ c[j] = a[j]
      BY <1>1, <2>3, <3>1
    <3>3. a[j].w.m # b[k].w.m
      BY <1>3, <3>2
    <3> QED
      BY <1>3, <3>2, <3>3
  <2>4. CASE (\E k \in 1 .. n : i = m + k) /\ (\E k \in 1 .. n : j = m + k)
    <3>1. PICK k \in 1 .. n, l \in 1 .. n : i = m + k /\ j = m + l
      BY <2>4
    <3>2. k \in DOMAIN b /\ c[i] = b[k] /\ l \in DOMAIN b /\ c[j] = b[l]
      BY <1>1, <3>1
    <3>3. b[k].do = "map" /\ b[l].do = "map" /\ b[k].w.m = b[l].w.m
      BY <1>3, <3>2
    <3>4. k = l
      BY <3>2, <3>3 DEF Opening
    <3> QED
      BY <3>1, <3>4
  <2> QED
    BY <1>1, <2>1, <2>2, <2>3, <2>4
<1> QED
  BY <1>1, <1>2, <1>3 DEF Opening, c

\* Steps over the main model.
LEMMA OpeningSteps ==
  ASSUME NEW ws, MainWeights(ws), NEW do \in {"span", "preload"}, do = "preload"
         => \A i \in DOMAIN ws : InFile(ws[i])
  PROVE  LET s == [i \in DOMAIN ws |-> Step(do, ws[i], 0)]
         IN Opening(s) /\ s \in Seq(StepType) /\ \A i \in DOMAIN s : s[i].do \notin {"map", "managed"}
<1> DEFINE s == [i \in DOMAIN ws |-> Step(do, ws[i], 0)]
<1>1. ws \in Seq(WeightType) /\ DOMAIN ws = 1 .. Len(ws) /\ Len(ws) \in Nat
      /\ \A i \in DOMAIN ws : ws[i] \in WeightType /\ ws[i].m = Main
  BY DEF MainWeights
<1>2. ASSUME NEW i \in DOMAIN ws PROVE s[i] \in StepType /\ s[i].do = do /\ s[i].w = ws[i]
  BY <1>1, <1>2 DEF Step, StepType, Steps
<1>3. DOMAIN s = DOMAIN ws
  OBVIOUS
<1>4. s \in Seq(StepType)
  <2>1. PICK n : n = Len(ws) /\ n \in Nat
    BY <1>1
  <2>2. s = [i \in 1 .. n |-> s[i]] /\ \A i \in 1 .. n : s[i] \in StepType
    BY <1>1, <1>2, <2>1
  <2> HIDE DEF s
  <2> QED
    BY <2>1, <2>2
<1> HIDE DEF s
<1>5. Opening(s)
  BY <1>1, <1>2, <1>3 DEF Opening, MappedModels
<1> QED
  BY <1>2, <1>3, <1>4, <1>5 DEF s

\* ds4_engine_open() maps every file once, and the managed one before any other.
LEMMA StartupOpening ==
  ASSUME WeightAssumption, TensorsAssumption, ProcessesAssumption, OneFileManaged,
         proc \in Processes, g.host = 0
  PROVE  Opening(StartupSteps(proc)) /\ StartupSteps(proc) \in Seq(StepType)
<1> DEFINE first == <<Step(IF proc.managed THEN "managed" ELSE "map", Weight(Main, 0, 0, "map", "map"), 0)>>
           second == IF proc.draft THEN <<Step("map", Weight(Draft, 0, 0, "map", "map"), 0)>> ELSE <<>>
           spans == [i \in DOMAIN Spans |-> Step("span", Spans[i], 0)]
           preloads == [i \in DOMAIN Tensors |-> Step("preload", Tensors[i], 0)]
           cache == CacheSteps(proc)
<1>1. ~(proc.draft /\ proc.managed) /\ proc.draft \in BOOLEAN /\ proc.managed \in BOOLEAN
  BY DEF OneFileManaged, ProcessesAssumption
<1>2. ASSUME NEW m \in Models, NEW do \in {"map", "managed"}
      PROVE  LET s == Step(do, Weight(m, 0, 0, "map", "map"), 0)
             IN s \in StepType /\ s.do = do /\ s.w.m = m
  BY DEF Step, StepType, Steps, Weight, WeightType, Labels, Shapes
<1>3. Opening(first) /\ first \in Seq(StepType) /\ first[1].w.m = Main /\ DOMAIN first = {1}
  <2>1. PICK do \in {"map", "managed"} : do = IF proc.managed THEN "managed" ELSE "map"
    OBVIOUS
  <2>2. PICK s : s = Step(do, Weight(Main, 0, 0, "map", "map"), 0)
    OBVIOUS
  <2>3. s \in StepType /\ s.do = do /\ s.w.m = Main
    BY <1>2, <2>2 DEF Models
  <2>4. first = <<s>>
    BY <2>1, <2>2
  <2> HIDE DEF first
  <2>5. first \in Seq(StepType) /\ DOMAIN first = {1} /\ first[1] = s
    BY <2>3, <2>4
  <2>6. Main # 0 /\ Main \in MappedModels
    BY DEF Main, MappedModels
  <2>7. Opening(first)
    BY <1>1, <2>1, <2>3, <2>5, <2>6 DEF Opening
  <2> QED
    BY <2>3, <2>5, <2>7
<1>4. /\ Opening(second) /\ second \in Seq(StepType)
      /\ \A i \in DOMAIN second : second[i].do # "managed" /\ second[i].w.m = Draft
  <2>1. CASE proc.draft
    <3>1. PICK s : s = Step("map", Weight(Draft, 0, 0, "map", "map"), 0)
      OBVIOUS
    <3>2. s \in StepType /\ s.do = "map" /\ s.w.m = Draft
      BY <1>2, <3>1 DEF Models
    <3>3. second = <<s>>
      BY <2>1, <3>1
    <3> HIDE DEF second
    <3>4. second \in Seq(StepType) /\ DOMAIN second = {1} /\ second[1] = s
      BY <3>2, <3>3
    <3>5. Draft # 0 /\ Draft \in MappedModels
      BY <2>1 DEF Draft, MappedModels
    <3> QED
      BY <1>1, <2>1, <3>2, <3>4, <3>5 DEF Opening
  <2>2. CASE ~proc.draft
    <3>1. second = <<>>
      BY <2>2
    <3> HIDE DEF second
    <3> QED
      BY <3>1 DEF Opening
  <2> QED
    BY <2>1, <2>2
<1>5. Opening(cache) /\ cache \in Seq(StepType)
      /\ \A i \in DOMAIN cache : cache[i].do \notin {"map", "managed"}
  <2>1. Opening(spans) /\ spans \in Seq(StepType)
        /\ \A i \in DOMAIN spans : spans[i].do \notin {"map", "managed"}
    <3>1. PICK ws : ws = Spans
      OBVIOUS
    <3>2. MainWeights(ws) /\ "span" \in {"span", "preload"}
      BY <3>1, SpansAreMain
    <3>3. LET s == [i \in DOMAIN ws |-> Step("span", ws[i], 0)]
          IN Opening(s) /\ s \in Seq(StepType) /\ \A i \in DOMAIN s : s[i].do \notin {"map", "managed"}
      BY <3>2, OpeningSteps
    <3> QED
      BY <3>1, <3>3
  <2>2. Opening(preloads) /\ preloads \in Seq(StepType)
        /\ \A i \in DOMAIN preloads : preloads[i].do \notin {"map", "managed"}
    <3>1. MainWeights(Tensors) /\ \A i \in DOMAIN Tensors : InFile(Tensors[i])
      BY DEF TensorsAssumption, MainWeights
    <3>2. LET s == [i \in DOMAIN Tensors |-> Step("preload", Tensors[i], 0)]
          IN Opening(s) /\ s \in Seq(StepType) /\ \A i \in DOMAIN s : s[i].do \notin {"map", "managed"}
      BY <3>1, OpeningSteps
    <3> QED
      BY <3>2
  <2>3. /\ Opening(<<>>) /\ <<>> \in Seq(StepType)
    BY DEF Opening
  <2>4. cache \in {<<>>, spans \o <<>>, spans \o preloads}
    BY DEF CacheSteps
  <2> HIDE DEF spans, preloads, cache
  <2>5. ASSUME NEW b \in Seq(StepType), Opening(b), \A i \in DOMAIN b : b[i].do \notin {"map", "managed"},
        cache = spans \o b
        PROVE  Opening(cache) /\ cache \in Seq(StepType)
               /\ \A i \in DOMAIN cache : cache[i].do \notin {"map", "managed"}
    <3>1. Opening(spans \o b) /\ spans \o b \in Seq(StepType)
      BY <2>1, <2>5, OpeningConcat
    <3>2. ASSUME NEW i \in DOMAIN cache PROVE cache[i].do \notin {"map", "managed"}
      <4> DEFINE m == Len(spans)
                 n == Len(b)
                 c == spans \o b
      <4>1. /\ m \in Nat /\ n \in Nat
            /\ DOMAIN spans = 1 .. m /\ DOMAIN b = 1 .. n /\ DOMAIN c = 1 .. m + n
            /\ \A k \in 1 .. m : c[k] = spans[k]
            /\ \A k \in 1 .. n : c[m + k] = b[k]
            /\ \A k \in 1 .. m + n : k \in 1 .. m \/ \E l \in 1 .. n : k = m + l
        <5>1. Joined(StepType, spans, b, c)
          BY <2>1, <2>5, ConcatFacts
        <5> HIDE DEF c
        <5> QED
          BY <5>1 DEF Joined
      <4>2. cache = c
        BY <2>5
      <4> HIDE DEF m, n, c
      <4>3. CASE i \in 1 .. m
        BY <2>1, <4>1, <4>2, <4>3
      <4>4. CASE \E l \in 1 .. n : i = m + l
        <5>1. PICK l \in 1 .. n : i = m + l
          BY <4>4
        <5>2. l \in DOMAIN b /\ cache[i] = b[l]
          BY <4>1, <4>2, <5>1
        <5> QED
          BY <2>5, <5>2
      <4> QED
        BY <4>1, <4>2, <4>3, <4>4
    <3> QED
      BY <2>5, <3>1, <3>2
  <2>6. \A i \in DOMAIN <<>> : <<>>[i].do \notin {"map", "managed"}
    OBVIOUS
  <2> DEFINE none == <<>>
  <2>7. Opening(none) /\ none \in Seq(StepType) /\ \A i \in DOMAIN none : none[i].do \notin {"map", "managed"}
    BY <2>3, <2>6
  <2>8. cache \in {none, spans \o none, spans \o preloads}
    BY <2>4
  <2> HIDE DEF none
  <2> QED
    BY <2>2, <2>5, <2>7, <2>8
<1>6. StartupSteps(proc) = (first \o second) \o cache
  BY DEF StartupSteps
<1> HIDE DEF first, second, cache
<1>7. Opening(first \o second) /\ first \o second \in Seq(StepType)
  <2>1. \A i \in DOMAIN second : second[i].do # "managed"
    BY <1>4
  <2>2. \A i \in DOMAIN first, j \in DOMAIN second :
           first[i].do = "map" /\ second[j].do = "map" => first[i].w.m # second[j].w.m
    <3>1. Main # Draft
      BY DEF Main, Draft
    <3> QED
      BY <1>3, <1>4, <3>1
  <2> QED
    BY <1>3, <1>4, <2>1, <2>2, OpeningConcat
<1> DEFINE both == first \o second
<1>8. StartupSteps(proc) = both \o cache /\ Opening(both) /\ both \in Seq(StepType)
  BY <1>6, <1>7
<1> HIDE DEF both
<1>9. Opening(both \o cache) /\ both \o cache \in Seq(StepType)
  BY <1>5, <1>8, OpeningConcat
<1> QED
  BY <1>8, <1>9

\* The state of a process that starts.
LEMMA StartsOk ==
  ASSUME WeightAssumption, TensorsAssumption, ProcessesAssumption, OneFileManaged, WeightInit
  PROVE  WeightInv
<1>1. /\ proc \in Processes /\ phase = "open" /\ todo = StartupSteps(proc)
      /\ g = [host |-> 0, base |-> 0, owned |-> FALSE, registered |-> FALSE, mapping |-> TRUE, hmm |-> FALSE,
              fd_base |-> 0, direct |-> ~("NO_DIRECT_IO" \in proc.env), full |-> FALSE, no_preload |-> FALSE,
              off16 |-> FALSE, range_bytes |-> 0]
      /\ ranges = <<>> /\ arenas = <<>> /\ wide = NoCopies /\ queue = <<>>
      /\ tmp = [id |-> 0, units |-> 0]
      /\ mem = [m \in MappedModels |-> FileImage(m)]
      /\ stage = [bi \in 0 .. Stages - 1 |-> Zeroed(StageUnits)]
      /\ lookup = NoCall /\ held = {}
  BY DEF WeightInit, MappedModels
<1>2. g \in GlobalsType /\ g.host = 0 /\ g.base = 0 /\ ~g.owned
  <2>1. PICK d \in BOOLEAN : d = ~("NO_DIRECT_IO" \in proc.env)
    OBVIOUS
  <2>2. g = [host |-> 0, base |-> 0, owned |-> FALSE, registered |-> FALSE, mapping |-> TRUE, hmm |-> FALSE,
              fd_base |-> 0, direct |-> d, full |-> FALSE, no_preload |-> FALSE, off16 |-> FALSE,
                range_bytes |-> 0]
    BY <1>1, <2>1
  <2> QED
    BY <2>2 DEF GlobalsType
<1>3. Opening(todo) /\ todo \in Seq(StepType)
  BY <1>1, <1>2, StartupOpening
<1>4. DOMAIN ranges = {} /\ DOMAIN arenas = {} /\ DOMAIN queue = {} /\ \A k \in Kinds : wide[k] = <<>>
                                                            /\ DOMAIN wide[k] = {}
  BY <1>1, NoCopiesType DEF Kinds
<1>5. TypesOk
  <2>1. /\ ranges \in Seq(RangeType) /\ arenas \in Seq(ArenaType) /\ queue \in Seq(CopyType)
        /\ wide \in [Kinds -> Seq(WideType)]
        /\ tmp \in [id : Nat, units : Nat] /\ DOMAIN stage = 0 .. Stages - 1
    BY <1>1, NoCopiesType
  <2> QED
    BY <1>1, <1>2, <1>3, <2>1 DEF TypesOk
<1>6. /\ RangeBuffers = {} /\ ArenaBuffers = {} /\ WideBuffers("f16") = {} /\ WideBuffers("f32") = {}
      /\ Scratches = {} /\ OwnedBase = {}
  <2>1. RangeBuffers = {} /\ ArenaBuffers = {}
    BY <1>4 DEF RangeBuffers, ArenaBuffers
  <2>2. WideBuffers("f16") = {} /\ WideBuffers("f32") = {}
    BY <1>4 DEF WideBuffers, Kinds
  <2>3. Scratches = {} /\ OwnedBase = {}
    BY <1>1, <1>2 DEF Scratches, OwnedBase
  <2> QED
    BY <2>1, <2>2, <2>3
<1>7. BuffersOk
  <2>1. DOMAIN mem = MappedModels /\ MappedModels \subseteq Int \ {0}
    BY <1>1 DEF MappedModels, Main, Draft
  <2>2. IsFiniteSet(MappedModels)
    <3>1. MappedModels \subseteq {Main} \cup {Draft} /\ IsFiniteSet({Main} \cup {Draft})
      BY FS_Singleton, FS_AddElement, FS_Union DEF MappedModels
    <3> QED
      BY <3>1, FS_Subset
  <2>3. OwnedBuffers = {}
    BY <1>6 DEF OwnedBuffers
  <2>4. Apart(RangeBuffers, ArenaBuffers, WideBuffers("f16"), WideBuffers("f32"), Scratches, OwnedBase)
    BY <1>6 DEF Apart
  <2> QED
    BY <1>4, <1>6, <2>1, <2>2, <2>3, <2>4 DEF BuffersOk
<1>8. MapsHold /\ BaseHolds
  BY <1>1, <1>2 DEF MapsHold, BaseHolds
<1>9. RangesHold /\ ArenasHold /\ ArenaRanges /\ WidesHold
  BY <1>4 DEF RangesHold, ArenasHold, ArenaRanges, WidesHold
<1>10. TransferOk
  BY <1>1, <1>4 DEF TransferOk, QueueOk, UploadOk, Uploading, NoCall
<1>11. ControlOk
  BY <1>1, <1>3 DEF ControlOk, LookupOk, HeldOk, TodoOk
<1> QED
  BY <1>5, <1>7, <1>8, <1>9, <1>10, <1>11 DEF WeightInv, StorageOk

\* Every step of every process keeps the invariant.
LEMMA WeightStep ==
  ASSUME WeightAssumption, KnownOperations, WeightInv, [WeightNext]_weightVars
  PROVE  WeightInv'
<1>1. CASE UNCHANGED weightVars
  <2>1. UNCHANGED <<proc, phase, g, ranges, arenas, wide, tmp, mem, stage, queue, lookup, todo, held>>
    BY <1>1 DEF weightVars
  <2>2. TypesOk'
    BY <2>1 DEF WeightInv, TypesOk
  <2>3. StorageOk'
    BY <2>1, StorageFrame DEF WeightInv
  <2>4. TransferOk'
    BY <2>1 DEF WeightInv, TransferOk, QueueOk, UploadOk, Uploading, CopyOk, InArena, OffRanges, Disjoint,
       Part, Arrives, Covers
  <2>5. ControlOk'
    <3>1. LookupOk /\ HeldOk
      BY DEF WeightInv, ControlOk
    <3>2. LookupOk'
      BY <2>1, <3>1 DEF LookupOk, Source, MappedModels
    <3>3. HeldOk'
      BY <2>1, <3>1 DEF HeldOk, HoldOk, Source, WideSource, MappedModels
    <3>4. TodoOk'
      BY <2>1, ServingStays, OpeningStays DEF WeightInv, ControlOk, TodoOk
    <3> QED
      BY <3>2, <3>3, <3>4 DEF ControlOk
  <2> QED
    BY <2>2, <2>3, <2>4, <2>5 DEF WeightInv
<1>2. CASE MapModel
  BY <1>2, MapModelKeeps
<1>3. CASE Opened
  BY <1>3, OpenedKeeps
<1>4. ASSUME NEW op \in Operations, Run(op) PROVE WeightInv'
  BY <1>4, RunKeeps
<1>5. CASE Close
  BY <1>5, CloseKeeps
<1>6. CASE AskRange \/ RangePtr \/ TakeRange
  BY <1>6, AskRangeKeeps, RangePtrKeeps, TakeRangeKeeps
<1>7. CASE MapOrCopy \/ FromFd \/ UploadChunk
  BY <1>7, MapOrCopyKeeps, FromFdKeeps, UploadChunkKeeps
<1>8. CASE CopyLands \/ UploadDone
  BY <1>8, CopyLandsKeeps, UploadDoneKeeps
<1>9. CASE TakeSpan \/ AskWide \/ Expand
  BY <1>9, TakeSpanKeeps, AskWideKeeps, ExpandKeeps
<1>10. CASE Product32 \/ Product16 \/ RunKernel
  BY <1>10, Product32Keeps, Product16Keeps, RunKernelKeeps
<1> QED
  BY <1>1, <1>2, <1>3, <1>4, <1>5, <1>6, <1>7, <1>8, <1>9, <1>10 DEF WeightNext

\* ... and so it holds of every run.
LEMMA WeightInvariant ==
  ASSUME OneFileManaged, KnownOperations
  PROVE  WeightSpec => []WeightInv
<1>1. WeightInit => WeightInv
  BY StartsOk, WeightAssumption, TensorsAssumption, ProcessesAssumption
<1>2. WeightInv /\ [WeightNext]_weightVars => WeightInv'
  BY WeightStep, WeightAssumption
<1> QED
  BY <1>1, <1>2, PTL DEF WeightSpec

\* Every kernel of the matmul entry points reads the units of the tensors it
\* was called for, wherever cuda_model_range_ptr() and the expansions found
\* them: in the mapping, in a copy of the file, in a range or in a copy.
THEOREM WeightsAreRead ==
  ASSUME OneFileManaged, KnownOperations
  PROVE  WeightSpec => []WeightsRead
<1>1. WeightInv => WeightsRead
  BY HeldReads, WeightAssumption
<1> QED
  BY <1>1, WeightInvariant, PTL

-----------------------------------------------------------------------------
(* No buffer is lost. *)

\* ds4_gpu_managed_prefetch() names the map itself over a copy that
\* ds4_gpu_set_model_map() made for DS4_CUDA_COPY_MODEL.
OneCopy == \A p \in Processes : ~(p.managed /\ "COPY_MODEL" \in p.env)

\* As many buffers are allocated as the tables gain.
LEMMA StillNoneLost ==
  ASSUME NoneLost, proc' = proc, phase # "closed", phase' # "closed",
         \E new : OwnedBuffers' = OwnedBuffers \cup new /\ DOMAIN mem' = DOMAIN mem \cup new
  PROVE  NoneLost'
BY DEF NoneLost, MappedModels

\* No buffer is allocated or freed.
LEMMA SameNoneLost ==
  ASSUME NoneLost, UNCHANGED <<proc, ranges, arenas, wide, tmp>>, phase # "closed", phase' # "closed",
         g'.base = g.base, g'.owned = g.owned, DOMAIN mem' = DOMAIN mem
  PROVE  NoneLost'
<1>1. OwnedBuffers' = OwnedBuffers
  BY OwnedKept
<1> QED
  BY <1>1 DEF NoneLost, MappedModels

\* A range owns its buffer when it is a copy.
LEMMA AddedRangeOwned ==
  ASSUME NEW r, NEW w, NEW p, NEW kind, RangeAdded(r, w, p, kind), UNCHANGED <<arenas, wide, tmp>>,
         g'.base = g.base, g'.owned = g.owned
  PROVE  OwnedBuffers' = OwnedBuffers \cup (IF kind = "copy" THEN {p[1]} ELSE {})
<1>1. /\ ArenaBuffers' = ArenaBuffers /\ Scratches' = Scratches /\ OwnedBase' = OwnedBase
      /\ WideBuffers("f16")' = WideBuffers("f16") /\ WideBuffers("f32")' = WideBuffers("f32")
  BY DEF ArenaBuffers, Scratches, OwnedBase, WideBuffers
<1>2. PICK l : l = Len(ranges) + 1
  OBVIOUS
<1>3. /\ DOMAIN ranges' = DOMAIN ranges \cup {l} /\ \A i \in DOMAIN ranges : ranges'[i] = ranges[i]
      /\ l \notin DOMAIN ranges /\ ranges'[l].kind = kind /\ ranges'[l].ptr = p
  BY <1>2 DEF RangeAdded
<1>4. RangeBuffers' = RangeBuffers \cup (IF kind = "copy" THEN {p[1]} ELSE {})
  BY <1>3 DEF RangeBuffers
<1> QED
  BY <1>1, <1>4 DEF OwnedBuffers

\* cuda_model_range_ptr() frees the buffer of a copy that fails.
LEMMA MapOrCopyLosesNone ==
  ASSUME WeightAssumption, WeightInv, NoneLost, MapOrCopy
  PROVE  NoneLost'
<1>1. lookup.step = "map" /\ UNCHANGED <<proc, phase, arenas, wide, tmp>>
  BY DEF MapOrCopy
<1>2. /\ lookup.w \in WeightType /\ phase \in {"open", "serve"} /\ lookup.w.m \in MappedModels
      /\ TypesOk /\ BuffersOk /\ g \in GlobalsType
  BY <1>1, LookupFacts DEF WeightInv, TypesOk, StorageOk
<1>3. PICK w : w = lookup.w /\ w \in WeightType /\ w.m \in MappedModels
  BY <1>2
<1>4. w.len \in Nat /\ w.off \in Nat /\ w.m \in Int
  BY <1>3 DEF WeightType, Models, Main, Draft
<1>5. PICK id : id = NewId /\ id \in Nat \ {0}
  BY <1>2, NewIdFacts
<1>6. ASSUME NEW p \in PtrType, NEW kind \in {"copy", "host"}, AddRange(w, p, kind),
             g'.base = g.base, g'.owned = g.owned,
               DOMAIN mem' = DOMAIN mem \cup (IF kind = "copy" THEN {p[1]} ELSE {})
      PROVE  NoneLost'
  <2>1. kind \in {"copy", "host", "arena"}
    OBVIOUS
  <2>2. PICK r \in RangeType : RangeAdded(r, w, p, kind)
    BY <1>2, <1>3, <1>6, <2>1, AddedRange
  <2>3. OwnedBuffers' = OwnedBuffers \cup (IF kind = "copy" THEN {p[1]} ELSE {})
    BY <1>1, <1>6, <2>2, AddedRangeOwned
  <2> QED
    BY <1>1, <1>2, <1>6, <2>3, StillNoneLost
<1>7. CASE AddRange(w, <<w.m, w.off>>, "host") /\ UNCHANGED <<g, mem>>
  <2>1. <<w.m, w.off>> \in PtrType
    BY <1>4 DEF PtrType
  <2> QED
    BY <1>6, <1>7, <2>1
<1>8. CASE /\ AddRange(w, <<id, 0>>, "copy") /\ mem' = With(mem, id, UnitsOf(w))
           /\ g' = [g EXCEPT !.range_bytes = @ + w.len, !.mapping = @ /\ proc.register # "never"]
  <2>1. g'.base = g.base /\ g'.owned = g.owned
    BY <1>2, <1>8 DEF GlobalsType
  <2>2. DOMAIN mem' = DOMAIN mem \cup {id}
    BY <1>8 DEF With
  <2>3. <<id, 0>> \in PtrType /\ <<id, 0>>[1] = id
    BY <1>5 DEF PtrType
  <2> QED
    BY <1>6, <1>8, <2>1, <2>2, <2>3
<1>9. CASE g' = [g EXCEPT !.mapping = @ /\ proc.register # "never"] /\ UNCHANGED <<ranges, mem>>
  <2>1. g'.base = g.base /\ g'.owned = g.owned
    BY <1>2, <1>9 DEF GlobalsType
  <2> QED
    BY <1>1, <1>2, <1>9, <2>1, SameNoneLost
<1> QED
  BY <1>3, <1>5, <1>7, <1>8, <1>9 DEF MapOrCopy

\* The range of an upload is in an arena.
LEMMA UploadDoneLosesNone ==
  ASSUME WeightAssumption, WeightInv, NoneLost, UploadDone
  PROVE  NoneLost'
<1>1. lookup.step = "upload" /\ UNCHANGED <<proc, phase, arenas, wide, tmp, mem>>
  BY DEF UploadDone
<1>2. /\ lookup \in LookupType /\ lookup.w \in WeightType /\ phase \in {"open", "serve"} /\ TypesOk
      /\ g \in GlobalsType
  BY <1>1, LookupFacts DEF WeightInv, TypesOk
<1>3. CASE g' = g /\ ranges' = ranges
  BY <1>1, <1>2, <1>3, SameNoneLost
<1>4. CASE AddRange(lookup.w, lookup.dev, "arena") /\ g' = [g EXCEPT !.range_bytes = @ + lookup.w.len]
  <2>1. g'.base = g.base /\ g'.owned = g.owned
    BY <1>2, <1>4 DEF GlobalsType
  <2>2. PICK w, p : w = lookup.w /\ p = lookup.dev
    OBVIOUS
  <2>3. w \in WeightType /\ p \in PtrType /\ AddRange(w, p, "arena") /\ "arena" \in {"copy", "host", "arena"}
    BY <1>2, <1>4, <2>2 DEF LookupType, PtrType
  <2>4. PICK r \in RangeType : RangeAdded(r, w, p, "arena")
    BY <1>2, <2>3, AddedRange
  <2>5. OwnedBuffers' = OwnedBuffers \cup (IF "arena" = "copy" THEN {p[1]} ELSE {})
    BY <1>1, <2>1, <2>4, AddedRangeOwned
  <2>6. OwnedBuffers' = OwnedBuffers \cup {} /\ DOMAIN mem' = DOMAIN mem \cup {}
    BY <1>1, <2>5
  <2> QED
    BY <1>1, <1>2, <2>6, StillNoneLost
<1> QED
  BY <1>3, <1>4 DEF UploadDone

\* The arenas own what was allocated.
LEMMA ArenasOwned ==
  ASSUME UNCHANGED <<ranges, wide, tmp>>, g'.base = g.base, g'.owned = g.owned,
         \E new : ArenaBuffers' = ArenaBuffers \cup new /\ DOMAIN mem' = DOMAIN mem \cup new
  PROVE  \E new : OwnedBuffers' = OwnedBuffers \cup new /\ DOMAIN mem' = DOMAIN mem \cup new
<1>1. /\ RangeBuffers' = RangeBuffers /\ Scratches' = Scratches /\ OwnedBase' = OwnedBase
      /\ WideBuffers("f16")' = WideBuffers("f16") /\ WideBuffers("f32")' = WideBuffers("f32")
  BY DEF RangeBuffers, Scratches, OwnedBase, WideBuffers
<1>2. PICK new : ArenaBuffers' = ArenaBuffers \cup new /\ DOMAIN mem' = DOMAIN mem \cup new
  OBVIOUS
<1>3. OwnedBuffers' = OwnedBuffers \cup new
  BY <1>1, <1>2 DEF OwnedBuffers
<1> QED
  BY <1>2, <1>3

\* cuda_model_range_ptr_from_fd() allocates nothing but arenas.
LEMMA FromFdLosesNone ==
  ASSUME WeightAssumption, WeightInv, NoneLost, FromFd
  PROVE  NoneLost'
<1> DEFINE n == RoundedUp(lookup.w.len, ArenaAlign)
           size == RoundedUp(n, ArenaChunk)
<1>1. lookup.step = "fd" /\ UNCHANGED <<proc, phase, ranges, wide, tmp>>
  BY DEF FromFd
<1>2. phase \in {"open", "serve"} /\ TypesOk /\ g \in GlobalsType /\ arenas \in Seq(ArenaType)
  BY <1>1, LookupFacts DEF WeightInv, TypesOk
<1>3. \/ UNCHANGED <<g, arenas, mem>>
      \/ g' = [g EXCEPT !.full = TRUE] /\ UNCHANGED <<arenas, mem>>
      \/ \E i : arenas' = [arenas EXCEPT ![i].used = @ + n] /\ UNCHANGED <<g, mem>>
      \/ /\ arenas' = Append(arenas, [id |-> NewId, units |-> size, used |-> n])
         /\ mem' = With(mem, NewId, Zeroed(size)) /\ UNCHANGED g
  BY DEF FromFd
<1>4. g'.base = g.base /\ g'.owned = g.owned
  BY <1>2, <1>3 DEF GlobalsType
<1>5. ASSUME \E new : ArenaBuffers' = ArenaBuffers \cup new /\ DOMAIN mem' = DOMAIN mem \cup new
                      PROVE NoneLost'
  BY <1>1, <1>2, <1>4, <1>5, ArenasOwned, StillNoneLost
<1> HIDE DEF n, size
<1>6. CASE UNCHANGED <<arenas, mem>>
  BY <1>1, <1>2, <1>4, <1>6, SameNoneLost
<1>7. CASE \E i : arenas' = [arenas EXCEPT ![i].used = @ + n] /\ UNCHANGED <<g, mem>>
  <2>1. PICK i : arenas' = [arenas EXCEPT ![i].used = @ + n] /\ mem' = mem
    BY <1>7
  <2>2. PICK a : a = [arenas[i] EXCEPT !.used = arenas[i].used + n]
    OBVIOUS
  <2>3. arenas' = [arenas EXCEPT ![i] = a]
    BY <2>1, <2>2
  <2>4. DOMAIN arenas' = DOMAIN arenas
    BY <2>3
  <2>5. \A j \in DOMAIN arenas : arenas'[j].id = arenas[j].id
    <3>1. \A j \in DOMAIN arenas : arenas[j] \in ArenaType
      BY <1>2
    <3>2. ASSUME NEW j \in DOMAIN arenas, j = i PROVE arenas'[j].id = arenas[j].id
      <4>1. arenas'[j] = a /\ arenas[j] \in ArenaType
        BY <2>3, <3>1, <3>2
      <4>2. a.id = arenas[i].id
        BY <2>2, <3>2, <4>1 DEF ArenaType
      <4> QED
        BY <3>2, <4>1, <4>2
    <3>3. ASSUME NEW j \in DOMAIN arenas, j # i PROVE arenas'[j].id = arenas[j].id
      BY <2>3, <3>3
    <3> QED
      BY <3>2, <3>3
  <2>6. \A b : b \in ArenaBuffers' <=> b \in ArenaBuffers
    BY <2>4, <2>5 DEF ArenaBuffers
  <2>7. ArenaBuffers' = ArenaBuffers \cup {} /\ DOMAIN mem' = DOMAIN mem \cup {}
    BY <2>1, <2>6
  <2> QED
    BY <1>5, <2>7
<1>8. CASE /\ arenas' = Append(arenas, [id |-> NewId, units |-> size, used |-> n])
           /\ mem' = With(mem, NewId, Zeroed(size))
  <2>1. PICK id, a : id = NewId /\ a = [id |-> id, units |-> size, used |-> n]
    OBVIOUS
  <2>2. arenas' = Append(arenas, a) /\ a.id = id /\ DOMAIN mem' = DOMAIN mem \cup {id}
    BY <1>8, <2>1 DEF With
  <2>3. /\ Len(arenas) \in Nat /\ DOMAIN arenas = 1 .. Len(arenas) /\ DOMAIN arenas' = 1 .. Len(arenas) + 1
        /\ \A i \in 1 .. Len(arenas) : arenas'[i] = arenas[i]
        /\ arenas'[Len(arenas) + 1] = a
    BY <1>2, <2>2
  <2>4. \A i : i \in DOMAIN arenas' <=> i \in DOMAIN arenas \/ i = Len(arenas) + 1
    BY <2>3
  <2>5. \A b : b \in ArenaBuffers' <=> b \in ArenaBuffers \/ b = id
    BY <2>2, <2>3, <2>4 DEF ArenaBuffers
  <2>6. ArenaBuffers' = ArenaBuffers \cup {id}
    BY <2>5
  <2> QED
    BY <1>5, <2>2, <2>6
<1> QED
  BY <1>3, <1>6, <1>7, <1>8

\* Disabling the f16 copies frees them.
LEMMA Disable16LosesNone ==
  ASSUME WeightInv, NoneLost, UNCHANGED <<proc, ranges, arenas, tmp>>, phase # "closed", phase' # "closed",
         g'.base = g.base, g'.owned = g.owned, Disable16
  PROVE  NoneLost'
<1> DEFINE gone == WideBuffers("f16")
<1>1. wide' = [wide EXCEPT !["f16"] = <<>>] /\ mem' = Freed(mem, gone) /\ wide \in [Kinds -> Seq(WideType)]
      /\ TypesOk /\ BuffersOk
  BY DEF Disable16, TypesOk, WeightInv, StorageOk
<1>2. wide'["f16"] = <<>> /\ wide'["f32"] = wide["f32"]
  BY <1>1 DEF Kinds
<1>3. DOMAIN mem' = DOMAIN mem \ gone
  BY <1>1 DEF Freed
<1>4. /\ RangeBuffers' = RangeBuffers /\ ArenaBuffers' = ArenaBuffers /\ OwnedBase' = OwnedBase
      /\ Scratches' = Scratches
      /\ WideBuffers("f16")' = {} /\ WideBuffers("f32")' = WideBuffers("f32") /\ MappedModels' = MappedModels
  BY <1>2 DEF RangeBuffers, ArenaBuffers, OwnedBase, WideBuffers, Scratches, MappedModels
<1>5. Apart(RangeBuffers, ArenaBuffers, gone, WideBuffers("f32"), Scratches, OwnedBase)
  BY <1>1 DEF BuffersOk
<1>6. MappedModels \cap gone = {}
  <2>1. \A b \in MappedModels : b \notin Nat
    BY DEF MappedModels, Main, Draft
  <2>2. \A b \in gone : b \in Nat
    BY <1>1, EntryTypes DEF WideBuffers, Kinds
  <2> QED
    BY <2>1, <2>2
<1> HIDE DEF gone
<1>7. OwnedBuffers' = RangeBuffers \cup ArenaBuffers \cup WideBuffers("f32") \cup Scratches \cup OwnedBase
  BY <1>4 DEF OwnedBuffers
<1>8. OwnedBuffers = RangeBuffers \cup ArenaBuffers \cup gone \cup WideBuffers("f32") \cup Scratches \cup OwnedBase
  BY DEF OwnedBuffers, gone
<1>9. OwnedBuffers' = OwnedBuffers \ gone
  BY <1>5, <1>7, <1>8 DEF Apart
<1> QED
  BY <1>3, <1>4, <1>6, <1>9 DEF NoneLost

\* cuda_tmp_alloc() frees the buffer it replaces.
LEMMA ScratchLosesNone ==
  ASSUME WeightInv, NoneLost, UNCHANGED <<proc, g, ranges, arenas, wide>>, phase # "closed",
         phase' # "closed",
         NEW n, WithScratch(n, AfterProduct) \/ WithScratch(n, Tail(todo))
  PROVE  NoneLost'
<1> DEFINE left == Freed(mem, {tmp.id})
           id == FreshId(DOMAIN left)
<1>1. TypesOk /\ BuffersOk
  BY DEF WeightInv, StorageOk
<1>2. PICK o \in Scratch(n) : mem' = o.mem /\ tmp' = o.tmp
  BY DEF WithScratch
<1>3. \/ mem' = mem /\ tmp' = tmp
      \/ mem' = With(left, id, Zeroed(n)) /\ tmp' = [id |-> id, units |-> n]
      \/ mem' = left /\ tmp' = [id |-> 0, units |-> 0]
  BY <1>2 DEF Scratch
<1>4. DOMAIN left = DOMAIN mem \ Scratches
  BY <1>1 DEF Freed, BuffersOk, Scratches
<1> HIDE DEF left
<1>5. id \in Nat \ {0}
  <2>1. IsFiniteSet(DOMAIN left)
    BY <1>1, <1>4, FS_Subset DEF BuffersOk
  <2> QED
    BY <2>1, FreshFacts
<1> HIDE DEF id
<1> DEFINE rest == RangeBuffers \cup ArenaBuffers \cup WideBuffers("f16") \cup WideBuffers("f32") \cup OwnedBase
<1>6. OwnedBuffers = rest \cup Scratches /\ rest \cap Scratches = {}
  BY <1>1 DEF OwnedBuffers, BuffersOk, Apart
<1>7. /\ RangeBuffers' = RangeBuffers /\ ArenaBuffers' = ArenaBuffers /\ OwnedBase' = OwnedBase
      /\ WideBuffers("f16")' = WideBuffers("f16") /\ WideBuffers("f32")' = WideBuffers("f32")
           /\ MappedModels' = MappedModels
  BY DEF RangeBuffers, ArenaBuffers, OwnedBase, WideBuffers, MappedModels
<1>8. OwnedBuffers' = rest \cup Scratches'
  BY <1>7 DEF OwnedBuffers
<1>9. MappedModels \cap Scratches = {}
  <2>1. \A b \in Scratches : b \in Nat
    BY <1>1 DEF Scratches, TypesOk
  <2>2. \A b \in MappedModels : b \notin Nat
    BY DEF MappedModels, Main, Draft
  <2> QED
    BY <2>1, <2>2
<1>10. DOMAIN mem = rest \cup Scratches \cup MappedModels
  BY <1>6 DEF NoneLost
<1> HIDE DEF rest
<1>11. DOMAIN left = rest \cup MappedModels
  BY <1>4, <1>6, <1>9, <1>10
<1>12. DOMAIN mem' = rest \cup Scratches' \cup MappedModels
  <2>1. CASE mem' = mem /\ tmp' = tmp
    <3>1. Scratches' = Scratches
      BY <2>1 DEF Scratches
    <3> QED
      BY <1>10, <2>1, <3>1
  <2>2. CASE mem' = With(left, id, Zeroed(n)) /\ tmp' = [id |-> id, units |-> n]
    <3>1. Scratches' = {id}
      BY <1>5, <2>2 DEF Scratches
    <3>2. DOMAIN mem' = DOMAIN left \cup {id}
      BY <2>2 DEF With
    <3> QED
      BY <1>11, <3>1, <3>2
  <2>3. CASE mem' = left /\ tmp' = [id |-> 0, units |-> 0]
    <3>1. Scratches' = {}
      BY <2>3 DEF Scratches
    <3> QED
      BY <1>11, <2>3, <3>1
  <2> QED
    BY <1>3, <2>1, <2>2, <2>3
<1> QED
  BY <1>7, <1>8, <1>12 DEF NoneLost

\* An expansion that fails frees its buffer.
LEMMA ExpandLosesNone ==
  ASSUME WeightAssumption, WeightInv, NoneLost, Expand
  PROVE  NoneLost'
<1>1. lookup.step = "done" /\ UNCHANGED <<proc, ranges, arenas, tmp>>
  BY DEF Expand
<1>2. phase \in {"open", "serve"} /\ TypesOk /\ g \in GlobalsType /\ wide \in [Kinds -> Seq(WideType)]
      /\ phase' = phase
  BY <1>1, LookupFacts DEF WeightInv, TypesOk, Expand, NoWide, GotWide, GoOn
<1>3. PICK s, kind : s = Next1 /\ kind = Kind(s) /\ kind \in Kinds
  BY DEF Kind, Kinds
<1>4. \/ GiveUpPreload(s, g) /\ UNCHANGED <<wide, mem>>
      \/ GiveUpPreload(s, Disabled16(g)) /\ Disable16
      \/ \E x : /\ mem' = With(mem, NewId, UnitsAt(lookup.ptr, s.w.len)) /\ x.id = NewId
                /\ wide' = [wide EXCEPT ![kind] = Append(@, x)] /\ UNCHANGED g
  <2>1. \/ GiveUpPreload(s, g) /\ UNCHANGED <<wide, mem>>
        \/ GiveUpPreload(s, Disabled16(g)) /\ Disable16
        \/ /\ mem' = With(mem, NewId, UnitsAt(lookup.ptr, s.w.len))
           /\ wide' = [wide EXCEPT ![kind] = Append(@, [m |-> s.w.m, off |-> s.w.off, len |-> s.w.len,
                                                        shape |-> s.w.shape, id |-> NewId])]
           /\ UNCHANGED g
    BY <1>3 DEF Expand
  <2>2. \A id : [m |-> s.w.m, off |-> s.w.off, len |-> s.w.len, shape |-> s.w.shape, id |-> id].id = id
    OBVIOUS
  <2> QED
    BY <2>1, <2>2
<1>5. CASE GiveUpPreload(s, g) /\ UNCHANGED <<wide, mem>>
  <2>1. g'.base = g.base /\ g'.owned = g.owned
    BY <1>2, <1>5, GiveUpFacts
  <2> QED
    BY <1>1, <1>2, <1>5, <2>1, SameNoneLost
<1>6. CASE GiveUpPreload(s, Disabled16(g)) /\ Disable16
  <2>1. g'.base = g.base /\ g'.owned = g.owned
    BY <1>2, <1>6, GiveUpFacts
  <2> QED
    BY <1>1, <1>2, <1>6, <2>1, Disable16LosesNone
<1>7. CASE \E x : /\ mem' = With(mem, NewId, UnitsAt(lookup.ptr, s.w.len)) /\ x.id = NewId
                  /\ wide' = [wide EXCEPT ![kind] = Append(@, x)] /\ UNCHANGED g
  <2>1. PICK x, id : id = NewId /\ mem' = With(mem, id, UnitsAt(lookup.ptr, s.w.len)) /\ x.id = id
                     /\ wide' = [wide EXCEPT ![kind] = Append(@, x)] /\ g' = g
    BY <1>7
  <2>2. DOMAIN mem' = DOMAIN mem \cup {id}
    BY <2>1 DEF With
  <2>3. PICK c, t : c = wide[kind] /\ t = Append(c, x)
    OBVIOUS
  <2>4. c \in Seq(WideType)
    BY <1>2, <1>3, <2>3
  <2>5. /\ Len(c) \in Nat /\ DOMAIN c = 1 .. Len(c) /\ DOMAIN t = 1 .. Len(c) + 1
        /\ \A i \in 1 .. Len(c) : t[i] = c[i]
        /\ t[Len(c) + 1] = x
    <3>1. Appended(WideType, c, x, t)
      BY <2>3, <2>4, AppendFacts
    <3> QED
      BY <3>1 DEF Appended
  <2>6. \A i : i \in DOMAIN t <=> i \in DOMAIN c \/ i = Len(c) + 1
    BY <2>5
  <2>7. \A b : b \in {t[i].id : i \in DOMAIN t} <=> b \in {c[i].id : i \in DOMAIN c} \/ b = id
    BY <2>1, <2>5, <2>6
  <2>8. wide' = [wide EXCEPT ![kind] = t]
    BY <2>1, <2>3
  <2>9. wide'[kind] = t /\ \A k \in Kinds : k # kind => wide'[k] = wide[k]
    BY <1>2, <1>3, <2>8
  <2>10. WideBuffers(kind)' = WideBuffers(kind) \cup {id}
    <3>1. WideBuffers(kind)' = {t[i].id : i \in DOMAIN t} /\ WideBuffers(kind) = {c[i].id : i \in DOMAIN c}
      BY <2>3, <2>9 DEF WideBuffers
    <3> QED
      BY <2>7, <3>1
  <2>11. \A k \in Kinds : k # kind => WideBuffers(k)' = WideBuffers(k)
    BY <2>9 DEF WideBuffers
  <2>12. WideBuffers("f16")' \cup WideBuffers("f32")' = WideBuffers("f16") \cup WideBuffers("f32") \cup {id}
    BY <1>3, <2>10, <2>11 DEF Kinds
  <2>13. /\ RangeBuffers' = RangeBuffers /\ ArenaBuffers' = ArenaBuffers /\ Scratches' = Scratches
         /\ OwnedBase' = OwnedBase
    BY <1>1, <2>1 DEF RangeBuffers, ArenaBuffers, Scratches, OwnedBase
  <2>14. OwnedBuffers' = OwnedBuffers \cup {id}
    BY <2>12, <2>13 DEF OwnedBuffers
  <2> QED
    BY <1>1, <1>2, <2>2, <2>14, StillNoneLost
<1> QED
  BY <1>4, <1>5, <1>6, <1>7

\* ds4_gpu_cleanup() leaves nothing but the mappings.
LEMMA CleanupLosesNone ==
  ASSUME WeightInv, NoneLost, Cleanup
  PROVE  NoneLost'
<1>1. TypesOk /\ BuffersOk /\ g \in GlobalsType
  BY DEF WeightInv, TypesOk, StorageOk
<1>2. /\ phase' = "closed" /\ ranges' = <<>> /\ arenas' = <<>> /\ wide' = NoCopies
      /\ tmp' = [id |-> 0, units |-> 0]
      /\ g' = [g EXCEPT !.owned = FALSE, !.base = 0, !.host = 0]
      /\ DOMAIN mem' = DOMAIN mem \ (RangeBuffers \cup ArenaBuffers \cup WideBuffers("f16") \cup WideBuffers("f32") \cup OwnedBase
                                     \cup {tmp.id} \cup {Main, Draft})
  BY DEF Cleanup, Freed
<1>3. DOMAIN mem' = {}
  BY <1>2 DEF NoneLost, OwnedBuffers, Scratches, MappedModels
<1>4. Scratches' = {} /\ OwnedBase' = {}
  <2>1. tmp'.id = 0 /\ ~g'.owned
    BY <1>1, <1>2 DEF GlobalsType
  <2> QED
    BY <2>1 DEF Scratches, OwnedBase
<1>5. OwnedBuffers' = {}
  BY <1>2, <1>4, EmptiedTables
<1> QED
  BY <1>2, <1>3, <1>5 DEF NoneLost

\* A model is mapped: what lives afterwards is what lived on and the copy.
Leaves(o, kept) == o.g \in GlobalsType /\ DOMAIN o.mem = kept \cup (IF o.g.owned THEN {o.g.base} ELSE {})

\* ds4_gpu_set_model_map() owns the copy it makes.
LEMMA SetMapLeaves ==
  ASSUME g \in GlobalsType, NEW m, NEW o \in SetModelMap(m), g.host # m, o.g \in GlobalsType
  PROVE  Leaves(o, DOMAIN ReleaseAll(mem)) /\ (o.g.owned => Env("COPY_MODEL"))
<1> DEFINE left == ReleaseAll(mem)
           id == FreshId(DOMAIN left)
<1>1. \/ o = Outcome(Mapped(m, m, FALSE, proc.register = "map"), left, Env("COPY_MODEL"))
      \/ o = Outcome(Mapped(m, id, TRUE, FALSE), With(left, id, FileImage(m)), FALSE) /\ Env("COPY_MODEL")
  BY DEF SetModelMap
<1> HIDE DEF left, id
<1>2. ASSUME NEW b, NEW owned \in BOOLEAN, NEW registered \in BOOLEAN
      PROVE  Mapped(m, b, owned, registered).base = b /\ Mapped(m, b, owned, registered).owned = owned
  <2>1. PICK fd : fd = IF g.fd_base = 0 THEN m ELSE g.fd_base
    OBVIOUS
  <2>2. Mapped(m, b, owned, registered) =
          [g EXCEPT !.host = m, !.base = b, !.owned = owned, !.registered = registered,
            !.mapping = TRUE, !.hmm = FALSE, !.full = FALSE, !.off16 = FALSE, !.range_bytes = 0,
            !.fd_base = fd]
    BY <2>1 DEF Mapped
  <2>3. PICK r1 : r1 = [g EXCEPT !.host = m, !.base = b, !.owned = owned, !.registered = registered]
    OBVIOUS
  <2>4. DOMAIN r1 = DOMAIN g /\ r1.base = b /\ r1.owned = owned
    BY <2>3 DEF GlobalsType
  <2>5. Mapped(m, b, owned, registered) =
          [r1 EXCEPT !.mapping = TRUE, !.hmm = FALSE, !.full = FALSE, !.off16 = FALSE, !.range_bytes = 0, !.fd_base = fd]
    BY <2>2, <2>3
  <2> QED
    BY <2>4, <2>5
<1>3. CASE o = Outcome(Mapped(m, m, FALSE, proc.register = "map"), left, Env("COPY_MODEL"))
  <2>1. PICK reg \in BOOLEAN : reg = (proc.register = "map")
    OBVIOUS
  <2>2. PICK r : r = Mapped(m, m, FALSE, reg)
    OBVIOUS
  <2>3. r.owned = FALSE
    BY <1>2, <2>2
  <2>4. o.g = r /\ o.mem = left
    BY <1>3, <2>1, <2>2 DEF Outcome
  <2> QED
    BY <2>3, <2>4 DEF Leaves, left
<1>4. CASE o = Outcome(Mapped(m, id, TRUE, FALSE), With(left, id, FileImage(m)), FALSE) /\ Env("COPY_MODEL")
  <2>1. PICK r, image : r = Mapped(m, id, TRUE, FALSE) /\ image = With(left, id, FileImage(m))
    OBVIOUS
  <2>2. o.g = r /\ o.mem = image /\ r.owned = TRUE /\ r.base = id
    <3>1. TRUE \in BOOLEAN /\ FALSE \in BOOLEAN
      OBVIOUS
    <3>2. Mapped(m, id, TRUE, FALSE).base = id /\ Mapped(m, id, TRUE, FALSE).owned = TRUE
      BY <1>2, <3>1
    <3>3. o.g = r /\ o.mem = image
      BY <1>4, <2>1 DEF Outcome
    <3> QED
      BY <2>1, <3>2, <3>3
  <2>3. DOMAIN image = DOMAIN left \cup {id}
    BY <2>1 DEF With
  <2> QED
    BY <1>4, <2>2, <2>3 DEF Leaves, left
<1> QED
  BY <1>1, <1>3, <1>4

\* ... and a copy in chunks that fails is freed.
LEMMA CopyChunkedLeaves ==
  ASSUME NEW q, NEW kept, Leaves(q, kept), NEW o \in CopyChunked(q) \cup Prefetch(q), o.g \in GlobalsType
  PROVE  Leaves(o, kept)
<1> DEFINE id == FreshId(DOMAIN q.mem)
<1>1. \/ o = q
      \/ /\ ~q.g.owned
         /\ o = Outcome([q.g EXCEPT !.base = id, !.owned = TRUE, !.hmm = FALSE], With(q.mem, id, FileImage(q.g.host)), q.failed)
      \/ o = Outcome([q.g EXCEPT !.hmm = TRUE], q.mem, q.failed)
  BY DEF CopyChunked, Prefetch
<1> HIDE DEF id
<1>2. q.g \in GlobalsType
  BY DEF Leaves
<1>3. CASE ~q.g.owned
      /\ o = Outcome([q.g EXCEPT !.base = id, !.owned = TRUE, !.hmm = FALSE], With(q.mem, id, FileImage(q.g.host)), q.failed)
  <2>1. PICK r, image : r = [q.g EXCEPT !.base = id, !.owned = TRUE, !.hmm = FALSE]
        /\ image = With(q.mem, id, FileImage(q.g.host))
    OBVIOUS
  <2>2. r.owned = TRUE /\ r.base = id
    BY <1>2, <2>1 DEF GlobalsType
  <2>3. o.g = r /\ o.mem = image /\ DOMAIN image = DOMAIN q.mem \cup {id} /\ DOMAIN q.mem = kept
    BY <1>3, <2>1 DEF Outcome, With, Leaves
  <2> QED
    BY <2>2, <2>3 DEF Leaves
<1>4. CASE o = Outcome([q.g EXCEPT !.hmm = TRUE], q.mem, q.failed)
  <2>1. PICK r : r = [q.g EXCEPT !.hmm = TRUE]
    OBVIOUS
  <2>2. r.owned = q.g.owned /\ r.base = q.g.base
    BY <1>2, <2>1 DEF GlobalsType
  <2>3. o.g = r /\ o.mem = q.mem
    BY <1>4, <2>1 DEF Outcome
  <2> QED
    BY <2>2, <2>3 DEF Leaves
<1> QED
  BY <1>1, <1>3, <1>4

\* Mapping a model loses no buffer where the prefetch does not overwrite the base.
LEMMA MapModelLosesNone ==
  ASSUME WeightAssumption, ~(proc.managed /\ Env("COPY_MODEL")), WeightInv, NoneLost, MapModel
  PROVE  NoneLost'
<1>1. Idle /\ Next1.do \in {"map", "managed"} /\ GoOn /\ UNCHANGED <<proc, tmp>>
  BY DEF MapModel
<1>2. PICK s, m : s = Next1 /\ m = s.w.m
  OBVIOUS
<1>3. /\ todo # <<>> /\ m \in MappedModels /\ m \in Models /\ phase = "open" /\ Opening(todo) /\ s = todo[1]
      /\ 1 \in DOMAIN todo
  BY <1>1, <1>2, IdleFacts, HeadFacts DEF Products, WithCopies, MappedModels, Models
<1>4. /\ s.do = "managed" => g.host = 0 /\ proc.managed /\ m = Main
      /\ s.do = "map" => ~proc.managed /\ m # g.host
  BY <1>2, <1>3 DEF Opening
<1>5. g.host # m /\ s.do \in {"map", "managed"}
  BY <1>1, <1>2, <1>3, <1>4 DEF Models, Main, Draft
<1>6. g \in GlobalsType /\ StorageOk /\ BuffersOk /\ TypesOk
  BY DEF WeightInv, TypesOk, StorageOk
<1>7. ranges' = <<>> /\ arenas' = <<>> /\ wide' = NoCopies /\ phase' = phase
  BY <1>1, <1>2, <1>5 DEF MapModel, GoOn
<1> DEFINE kept == MappedModels \cup Scratches
           left == ReleaseAll(mem)
           tables == RangeBuffers \cup ArenaBuffers \cup WideBuffers("f16") \cup WideBuffers("f32") \cup OwnedBase
<1>8. DOMAIN left = kept
  <2>1. \A b \in MappedModels : b \notin Nat
    BY DEF MappedModels, Main, Draft
  <2>2. \A b \in OwnedBase : b \in Nat
    <3>1. g.owned => g.base \in Nat \/ (proc.managed /\ g.base = Main /\ g.host \in MappedModels)
      BY <1>6 DEF StorageOk, BaseHolds, Main
    <3>2. g.owned /\ proc.managed /\ g.base = Main => g.host # 0
      BY <3>1 DEF MappedModels, Main, Draft
    <3>3. proc.managed => g.host = 0
      BY <1>4, <1>5
    <3>4. g.owned => g.base \in Nat
      BY <1>6, <3>1, <3>3 DEF StorageOk, BaseHolds, Main, MappedModels, Draft
    <3> QED
      BY <3>4 DEF OwnedBase
  <2>3. \A b \in ArenaBuffers \cup WideBuffers("f16") \cup WideBuffers("f32") : b \in Nat
    BY <1>6, EntryTypes DEF ArenaBuffers, WideBuffers, Kinds
  <2>4. \A b \in RangeBuffers : b \in Nat
    BY <1>6 DEF BuffersOk
  <2>5. \A b \in tables : b \notin MappedModels
    BY <2>1, <2>2, <2>3, <2>4
  <2>6. OwnedBuffers = tables \cup Scratches /\ tables \cap Scratches = {}
    BY <1>6 DEF BuffersOk, Apart, OwnedBuffers
  <2>7. DOMAIN left = DOMAIN mem \ tables
    BY DEF ReleaseAll, Freed
  <2>8. DOMAIN mem = OwnedBuffers \cup MappedModels
    BY <1>3 DEF NoneLost
  <2> HIDE DEF left, tables
  <2> QED
    BY <2>5, <2>6, <2>7, <2>8
<1> HIDE DEF left, tables
<1>9. Scratches' = Scratches /\ MappedModels' = MappedModels /\ OwnedBuffers' = Scratches' \cup OwnedBase'
  BY <1>1, <1>7, EmptiedTables DEF Scratches, MappedModels
<1>10. ASSUME DOMAIN mem' = kept \cup OwnedBase' PROVE NoneLost'
  BY <1>3, <1>7, <1>9, <1>10 DEF NoneLost
<1> DEFINE keeps == MappedModels \cup Scratches
<1>11. keeps \subseteq DOMAIN ReleaseAll(mem) /\ DOMAIN ReleaseAll(mem) = kept
  BY <1>8 DEF left
<1> HIDE DEF keeps, kept
<1>12. \A q \in SetModelMap(m) : OutcomeOk(q, m, keeps) /\ Leaves(q, kept) /\ (q.g.owned => Env("COPY_MODEL"))
  <2>1. ASSUME NEW q \in SetModelMap(m)
        PROVE OutcomeOk(q, m, keeps) /\ Leaves(q, kept) /\ (q.g.owned => Env("COPY_MODEL"))
    <3>1. OutcomeOk(q, m, keeps)
      BY <1>3, <1>5, <1>6, <1>11, SetMapFacts
    <3>2. q.g \in GlobalsType
      BY <3>1 DEF OutcomeOk
    <3>3. Leaves(q, DOMAIN ReleaseAll(mem)) /\ (q.g.owned => Env("COPY_MODEL"))
      BY <1>5, <1>6, <3>2, SetMapLeaves
    <3> QED
      BY <1>11, <3>1, <3>3
  <2> QED
    BY <2>1
<1>13. CASE s.do = "map"
  <2>1. PICK o \in SetModelMapRange(m) : g' = o.g /\ mem' = o.mem
    BY <1>2, <1>13 DEF MapModel
  <2>2. Leaves(o, kept)
    <3>1. CASE o \in SetModelMap(m)
      BY <1>12, <3>1
    <3>2. CASE \E q \in SetModelMap(m) : o \in CopyChunked(q) \cup Prefetch(q)
      <4>1. PICK q \in SetModelMap(m) : o \in CopyChunked(q) \cup Prefetch(q)
        BY <3>2
      <4>2. OutcomeOk(q, m, keeps) /\ Leaves(q, kept)
        BY <1>12
      <4>3. OutcomeOk(o, m, keeps)
        BY <1>3, <4>1, <4>2, CopyChunkedFacts
      <4> QED
        BY <4>1, <4>2, <4>3, CopyChunkedLeaves DEF OutcomeOk
    <3> QED
      BY <2>1, <3>1, <3>2 DEF SetModelMapRange
  <2>3. DOMAIN mem' = kept \cup OwnedBase'
    BY <2>1, <2>2 DEF Leaves, OwnedBase
  <2> QED
    BY <1>10, <2>3
<1>14. CASE s.do = "managed"
  <2>1. PICK q \in SetModelMap(m) : g' = ManagedPrefetch(q).g /\ mem' = ManagedPrefetch(q).mem
    BY <1>2, <1>4, <1>14 DEF MapModel
  <2>2. OutcomeOk(q, m, keeps) /\ Leaves(q, kept) /\ ~q.g.owned
    BY <1>4, <1>12, <1>14
  <2>3. q.g \in GlobalsType /\ q.g.host = m
    BY <2>2 DEF OutcomeOk
  <2>4. mem' = q.mem
        /\ g' = [q.g EXCEPT !.base = q.g.host, !.owned = TRUE, !.registered = FALSE, !.hmm = FALSE]
    BY <2>1 DEF ManagedPrefetch, Outcome
  <2>5. g'.base = m /\ g'.owned
    BY <2>3, <2>4 DEF GlobalsType
  <2>6. OwnedBase' = {m}
    BY <2>5 DEF OwnedBase
  <2>7. DOMAIN mem' = kept /\ m \in kept
    BY <1>3, <2>2, <2>4 DEF Leaves, kept
  <2> QED
    BY <1>10, <2>6, <2>7
<1> QED
  BY <1>5, <1>13, <1>14

\* No step loses a buffer.
LEMMA StepLosesNone ==
  ASSUME WeightAssumption, OneCopy, WeightInv, NoneLost, [WeightNext]_weightVars
  PROVE  NoneLost'
<1>0. g \in GlobalsType /\ proc \in Processes
  BY DEF WeightInv, TypesOk
<1>1. CASE UNCHANGED weightVars
  BY <1>1 DEF weightVars, NoneLost, OwnedBuffers, RangeBuffers, ArenaBuffers, WideBuffers, Scratches,
     OwnedBase, MappedModels
<1>2. CASE MapModel
  <2>1. ~(proc.managed /\ Env("COPY_MODEL"))
    BY <1>0 DEF OneCopy, Env
  <2> QED
    BY <1>2, <2>1, MapModelLosesNone
<1>3. CASE Opened
  <2>1. phase # "closed" /\ phase' # "closed"
    BY <1>3 DEF Opened
  <2> QED
    BY <1>3, <2>1, SameNoneLost DEF Opened
<1>4. ASSUME NEW op \in Operations, Run(op) PROVE NoneLost'
  <2>1. phase # "closed" /\ phase' # "closed"
    BY <1>4 DEF Run
  <2> QED
    BY <1>4, <2>1, SameNoneLost DEF Run
<1>5. CASE Close
  BY <1>5, CleanupLosesNone DEF Close
<1>6. CASE AskRange
  <2>1. phase # "closed" /\ phase' # "closed"
    BY <1>6, IdleFacts, HeadFacts DEF AskRange
  <2> QED
    BY <1>6, <2>1, SameNoneLost DEF AskRange
<1>7. CASE RangePtr
  <2>1. phase # "closed" /\ phase' # "closed"
    BY <1>7, LookupFacts DEF RangePtr
  <2> QED
    BY <1>7, <2>1, SameNoneLost DEF RangePtr
<1>8. CASE TakeRange
  <2>1. phase # "closed" /\ phase' # "closed"
    BY <1>8, LookupFacts DEF TakeRange, Abort
  <2> QED
    BY <1>8, <2>1, SameNoneLost DEF TakeRange
<1>9. CASE MapOrCopy
  BY <1>9, MapOrCopyLosesNone
<1>10. CASE FromFd
  BY <1>10, FromFdLosesNone
<1>11. CASE UploadChunk
  <2>1. phase # "closed" /\ phase' # "closed"
    BY <1>11, LookupFacts DEF UploadChunk
  <2>2. g' = g \/ g' = [g EXCEPT !.direct = FALSE]
    BY <1>11 DEF UploadChunk
  <2>3. g'.base = g.base /\ g'.owned = g.owned
    BY <1>0, <2>2 DEF GlobalsType
  <2>4. UNCHANGED <<proc, ranges, arenas, wide, tmp, mem>>
    BY <1>11 DEF UploadChunk
  <2> QED
    BY <2>1, <2>3, <2>4, SameNoneLost
<1>12. CASE CopyLands
  <2>1. DOMAIN mem' = DOMAIN mem
    BY <1>12 DEF CopyLands, AfterCopy
  <2>2. phase # "closed" /\ phase' # "closed"
    BY <1>12 DEF CopyLands, WeightInv, ControlOk, TodoOk
  <2> QED
    BY <1>12, <2>1, <2>2, SameNoneLost DEF CopyLands
<1>13. CASE UploadDone
  BY <1>13, UploadDoneLosesNone
<1>14. CASE TakeSpan
  <2>1. CASE Cleanup
    BY <2>1, CleanupLosesNone
  <2>2. CASE GoOn /\ UNCHANGED <<g, ranges, arenas, wide, tmp, mem, queue>>
    <3>1. phase # "closed" /\ phase' # "closed"
      BY <1>14, <2>2, LookupFacts DEF TakeSpan, GoOn
    <3> QED
      BY <1>14, <2>2, <3>1, SameNoneLost DEF TakeSpan
  <2> QED
    BY <1>14, <2>1, <2>2 DEF TakeSpan
<1>15. CASE AskWide
  <2>1. phase # "closed" /\ phase' # "closed"
    BY <1>15, IdleFacts, HeadFacts DEF AskWide, NoWide, GotWide, GoOn
  <2> QED
    BY <1>15, <2>1, SameNoneLost DEF AskWide
<1>16. CASE Expand
  BY <1>16, ExpandLosesNone
<1>17. CASE Product32
  <2>1. phase # "closed" /\ phase' # "closed"
    BY <1>17, IdleFacts, HeadFacts DEF Product32, Abort
  <2> QED
    BY <1>17, <2>1, SameNoneLost DEF Product32
<1>18. CASE Product16
  <2>1. phase # "closed"
    BY <1>18, IdleFacts, HeadFacts DEF Product16
  <2>2. phase' # "closed"
    BY <1>18, <2>1 DEF Product16, WithScratch, Abort
  <2>3. UNCHANGED <<proc, ranges, arenas>>
    BY <1>18 DEF Product16
  <2>4. CASE WithScratch(Next1.need, AfterProduct) /\ UNCHANGED <<g, wide>>
    <3>1. PICK n : n = Next1.need
      OBVIOUS
    <3>2. WithScratch(n, AfterProduct)
      BY <2>4, <3>1
    <3> QED
      BY <2>1, <2>2, <2>3, <2>4, <3>2, ScratchLosesNone
  <2>5. CASE UNCHANGED <<g, wide, mem, tmp>>
    BY <2>1, <2>2, <2>3, <2>5, SameNoneLost
  <2>6. CASE g' = Disabled16(g) /\ Disable16 /\ tmp' = tmp
    <3>1. g'.base = g.base /\ g'.owned = g.owned
      BY <1>0, <2>6 DEF Disabled16, GlobalsType
    <3> QED
      BY <2>1, <2>2, <2>3, <2>6, <3>1, Disable16LosesNone
  <2> QED
    BY <1>18, <2>4, <2>5, <2>6 DEF Product16
<1>19. CASE RunKernel
  <2>1. phase # "closed"
    BY <1>19, IdleFacts, HeadFacts DEF RunKernel
  <2>2. phase' # "closed"
    BY <1>19, <2>1 DEF RunKernel, WithScratch, Abort
  <2>3. UNCHANGED <<proc, g, ranges, arenas, wide>>
    BY <1>19 DEF RunKernel
  <2>4. CASE WithScratch(Next1.need, Tail(todo))
    <3>1. PICK n : n = Next1.need
      OBVIOUS
    <3>2. WithScratch(n, Tail(todo))
      BY <2>4, <3>1
    <3> QED
      BY <2>1, <2>2, <2>3, <3>2, ScratchLosesNone
  <2>5. CASE UNCHANGED <<mem, tmp>>
    BY <2>1, <2>2, <2>3, <2>5, SameNoneLost
  <2> QED
    BY <1>19, <2>4, <2>5 DEF RunKernel
<1> QED
  BY <1>1, <1>2, <1>3, <1>4, <1>5, <1>6, <1>7, <1>8, <1>9, <1>10, <1>11, <1>12, <1>13, <1>14, <1>15, <1>16,
     <1>17, <1>18, <1>19
  DEF WeightNext

\* A process that starts has its mappings alone.
LEMMA StartLosesNone ==
  ASSUME WeightInit
  PROVE  NoneLost
<1>1. /\ phase = "open" /\ ranges = <<>> /\ arenas = <<>> /\ wide = NoCopies /\ tmp.id = 0 /\ ~g.owned
      /\ DOMAIN mem = MappedModels
  BY DEF WeightInit, MappedModels
<1>2. RangeBuffers = {} /\ ArenaBuffers = {} /\ WideBuffers("f16") = {} /\ WideBuffers("f32") = {}
      /\ Scratches = {} /\ OwnedBase = {}
  <2>1. DOMAIN ranges = {} /\ DOMAIN arenas = {} /\ \A k \in Kinds : DOMAIN wide[k] = {}
    BY <1>1, NoCopiesType DEF Kinds
  <2> QED
    BY <1>1, <2>1 DEF RangeBuffers, ArenaBuffers, WideBuffers, Kinds, Scratches, OwnedBase
<1>3. OwnedBuffers = {}
  BY <1>2 DEF OwnedBuffers
<1> QED
  BY <1>1, <1>3 DEF NoneLost

\* As many entries as buffers.
LEMMA OneEach ==
  ASSUME NEW S, NEW s \in Seq(S), \A i, j \in DOMAIN s : s[i].id = s[j].id => i = j
  PROVE  /\ IsFiniteSet({s[i].id : i \in DOMAIN s})
         /\ Cardinality({s[i].id : i \in DOMAIN s}) = Len(s)
<1> DEFINE n == Len(s)
           T == {s[i].id : i \in DOMAIN s}
           f == [i \in 1 .. n |-> s[i].id]
<1>1. n \in Nat /\ DOMAIN s = 1 .. n
  OBVIOUS
<1>2. IsFiniteSet(1 .. n) /\ Cardinality(1 .. n) = n
  <2> HIDE DEF n
  <2>1. 1 \in Int /\ n \in Int
    BY <1>1
  <2>2. IsFiniteSet(1 .. n) /\ Cardinality(1 .. n) = IF 1 > n THEN 0 ELSE n - 1 + 1
    BY <2>1, FS_Interval
  <2> QED
    BY <1>1, <2>2
<1> HIDE DEF n
<1>3. f \in Bijection(1 .. n, T)
  <2>1. f \in [1 .. n -> T]
    BY <1>1
  <2>2. \A i, j \in 1 .. n : f[i] = f[j] => i = j
    BY <1>1
  <2>3. \A t \in T : \E i \in 1 .. n : f[i] = t
    BY <1>1
  <2> HIDE DEF f, T
  <2>4. f \in Injection(1 .. n, T)
    BY <2>1, <2>2 DEF Injection, IsInjective
  <2>5. f \in Surjection(1 .. n, T)
    BY <2>1, <2>3 DEF Surjection
  <2> QED
    BY <2>4, <2>5 DEF Bijection
<1>4. ExistsBijection(1 .. n, T)
  BY <1>3 DEF ExistsBijection
<1> HIDE DEF T
<1>5. IsFiniteSet(T) /\ Cardinality(T) = Cardinality(1 .. n)
  BY <1>2, <1>4, FS_Bijection
<1> QED
  BY <1>2, <1>5 DEF T, n

\* Tables that share nothing have the sum of their sizes.
LEMMA DisjointCount ==
  ASSUME NEW A, NEW B, IsFiniteSet(A), IsFiniteSet(B), A \cap B = {}
  PROVE  IsFiniteSet(A \cup B) /\ Cardinality(A \cup B) = Cardinality(A) + Cardinality(B)
<1>1. /\ IsFiniteSet(A \cup B)
      /\ Cardinality(A \cup B) = Cardinality(A) + Cardinality(B) - Cardinality(A \cap B)
  BY FS_Union
<1>2. Cardinality(A \cap B) = 0
  BY FS_EmptySet
<1>3. Cardinality(A) \in Nat /\ Cardinality(B) \in Nat
  BY FS_CardinalityType
<1> QED
  BY <1>1, <1>2, <1>3

\* Every live buffer has one entry: what BuffersOwned counts.
LEMMA OwnedCount ==
  ASSUME WeightInv, NoneLost
  PROVE  BuffersOwned
<1>1. BuffersOk /\ arenas \in Seq(ArenaType) /\ wide["f16"] \in Seq(WideType) /\ wide["f32"] \in Seq(WideType)
  BY DEF WeightInv, StorageOk, TypesOk, Kinds
<1>2. IsFiniteSet(ArenaBuffers) /\ Cardinality(ArenaBuffers) = Len(arenas)
  <2>1. \A i, j \in DOMAIN arenas : arenas[i].id = arenas[j].id => i = j
    BY <1>1 DEF BuffersOk
  <2> QED
    BY <1>1, <2>1, OneEach DEF ArenaBuffers
<1>3. ASSUME NEW k \in Kinds PROVE IsFiniteSet(WideBuffers(k)) /\ Cardinality(WideBuffers(k)) = Len(wide[k])
  <2>1. \A i, j \in DOMAIN wide[k] : wide[k][i].id = wide[k][j].id => i = j
    BY <1>1 DEF BuffersOk
  <2>2. PICK s : s = wide[k]
    OBVIOUS
  <2>3. s \in Seq(WideType) /\ \A i, j \in DOMAIN s : s[i].id = s[j].id => i = j
    BY <1>1, <1>3, <2>1, <2>2 DEF Kinds
  <2>4. IsFiniteSet({s[i].id : i \in DOMAIN s}) /\ Cardinality({s[i].id : i \in DOMAIN s}) = Len(s)
    BY <2>3, OneEach
  <2> QED
    BY <2>2, <2>4 DEF WideBuffers
<1>4. /\ IsFiniteSet(WideBuffers("f16")) /\ Cardinality(WideBuffers("f16")) = Len(wide.f16)
      /\ IsFiniteSet(WideBuffers("f32")) /\ Cardinality(WideBuffers("f32")) = Len(wide.f32)
  BY <1>3 DEF Kinds
<1>5. IsFiniteSet(RangeBuffers) /\ IsFiniteSet(Scratches) /\ IsFiniteSet(OwnedBase)
  <2>1. RangeBuffers \subseteq DOMAIN mem /\ Scratches \subseteq DOMAIN mem /\ OwnedBase \subseteq DOMAIN mem
    BY <1>1 DEF BuffersOk, OwnedBuffers
  <2> QED
    BY <1>1, <2>1, FS_Subset DEF BuffersOk
<1>6. PICK r, a, w, x, t, b : r = RangeBuffers /\ a = ArenaBuffers /\ w = WideBuffers("f16")
      /\ x = WideBuffers("f32")
                              /\ t = Scratches /\ b = OwnedBase
  OBVIOUS
<1>7. /\ r \cap a = {} /\ (r \cup a) \cap w = {} /\ (r \cup a \cup w) \cap x = {}
      /\ (r \cup a \cup w \cup x) \cap t = {} /\ (r \cup a \cup w \cup x \cup t) \cap b = {}
  BY <1>1, <1>6 DEF BuffersOk, Apart
<1>8. IsFiniteSet(r) /\ IsFiniteSet(a) /\ IsFiniteSet(w) /\ IsFiniteSet(x) /\ IsFiniteSet(t) /\ IsFiniteSet(b)
  BY <1>2, <1>4, <1>5, <1>6
<1>9. Cardinality(r \cup a \cup w \cup x \cup t \cup b)
        = Cardinality(r) + Cardinality(a) + Cardinality(w) + Cardinality(x) + Cardinality(t) + Cardinality(b)
  <2>1. IsFiniteSet(r \cup a) /\ Cardinality(r \cup a) = Cardinality(r) + Cardinality(a)
    BY <1>7, <1>8, DisjointCount
  <2>2. IsFiniteSet(r \cup a \cup w) /\ Cardinality(r \cup a \cup w) = Cardinality(r \cup a) + Cardinality(w)
    BY <1>7, <1>8, <2>1, DisjointCount
  <2>3. IsFiniteSet(r \cup a \cup w \cup x)
        /\ Cardinality(r \cup a \cup w \cup x) = Cardinality(r \cup a \cup w) + Cardinality(x)
    BY <1>7, <1>8, <2>2, DisjointCount
  <2>4. IsFiniteSet(r \cup a \cup w \cup x \cup t)
        /\ Cardinality(r \cup a \cup w \cup x \cup t) = Cardinality(r \cup a \cup w \cup x) + Cardinality(t)
    BY <1>7, <1>8, <2>3, DisjointCount
  <2>5. Cardinality(r \cup a \cup w \cup x \cup t \cup b) = Cardinality(r \cup a \cup w \cup x \cup t) + Cardinality(b)
    BY <1>7, <1>8, <2>4, DisjointCount
  <2> QED
    BY <2>1, <2>2, <2>3, <2>4, <2>5
<1>10. /\ Cardinality(r) \in Nat /\ Cardinality(a) \in Nat /\ Cardinality(w) \in Nat /\ Cardinality(x) \in Nat
       /\ Cardinality(t) \in Nat /\ Cardinality(b) \in Nat
  BY <1>8, FS_CardinalityType
<1>11. Cardinality(a) + Cardinality(w) + Cardinality(x) + Cardinality(r) + Cardinality(t) + Cardinality(b)
         = Cardinality(r \cup a \cup w \cup x \cup t \cup b)
  BY <1>9, <1>10
<1>12. Len(arenas) + Len(wide.f16) + Len(wide.f32) + Cardinality(RangeBuffers) + Cardinality(Scratches)
         + Cardinality(OwnedBase) = Cardinality(OwnedBuffers)
  BY <1>2, <1>4, <1>6, <1>11 DEF OwnedBuffers
<1>13. DOMAIN mem \ {Main, Draft} = OwnedBuffers \ {Main, Draft}
  BY DEF NoneLost, MappedModels
<1> QED
  BY <1>12, <1>13 DEF BuffersOwned, OwnedBuffers, Scratches

\* Every buffer on the device belongs to one entry of one table, so that nothing
\* is lost and nothing is freed twice before ds4_gpu_cleanup().
THEOREM BuffersAreOwned ==
  ASSUME OneFileManaged, OneCopy, KnownOperations
  PROVE  WeightSpec => []BuffersOwned
<1>1. WeightInit => NoneLost
  BY StartLosesNone
<1>2. WeightInv /\ WeightInv' /\ NoneLost /\ [WeightNext]_weightVars => NoneLost'
  BY StepLosesNone, WeightAssumption
<1>3. WeightInv /\ NoneLost => BuffersOwned
  BY OwnedCount
<1> QED
  BY <1>1, <1>2, <1>3, WeightInvariant, PTL DEF WeightSpec
=============================================================================
