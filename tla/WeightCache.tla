---- MODULE WeightCache ----
(* Where the CUDA side reads weights from (ds4_cuda.cu): the ways the map of *)
(* a model is made readable, the cache of ranges filled from the file        *)
(* through pinned stages, the expanded copies of Q8 matrices, the scratch    *)
(* buffer, and the operations that hold pointers into them.                  *)
(*                                                                           *)
(* A file is a row of units; unit i of model m is <<m, i>>. A buffer is a    *)
(* function from offsets to units, the map of model m the buffer m. Kernels  *)
(* run in order and cudaFree() waits for them, so a kernel reads its         *)
(* operands when it is launched; copies of the upload stream land later.     *)
EXTENDS Integers, Sequences, FiniteSets, SequencesExt, FiniteSetsExt

CONSTANTS FileUnits,   \* model -> units of its file
          Tensors,     \* tensors of the main model in file order, each a Weight
          Processes,   \* settings [env, limit, limit16, draft, managed, register]
          Operations,  \* sequences of steps [do, w, need]
          CopyChunk, Stages, Align, Page, ArenaAlign, ArenaChunk, MaxSpan, SpanGap,
          MaxFaults,   \* bound on failures
          MaxOps       \* bound on operations

Main == -1
Draft == -2

ASSUME WeightAssumption ==
  /\ {CopyChunk, Stages, Align, Page, ArenaAlign, ArenaChunk, MaxSpan} \subseteq Nat \ {0}
  /\ {SpanGap, MaxFaults, MaxOps} \subseteq Nat
  /\ FileUnits \in [{Main, Draft} -> Nat \ {0}]

\* The table of tensors of a file is refused when one of them passes its end.
Models == {Main, Draft}
Labels == {"attn_output", "attn_q_b", "shexp", "other", "span", "map"}
Shapes == {"listed", "q_b", "other", "span", "map"}
WeightType == [m : Models, off : Nat, len : Nat, label : Labels, shape : Shapes]
InFile(w) == w.len > 0 /\ w.off + w.len <= FileUnits[w.m]
ASSUME TensorsAssumption ==
  /\ Tensors \in Seq(WeightType)
  /\ \A i \in DOMAIN Tensors : Tensors[i].m = Main /\ InFile(Tensors[i])
ASSUME ProcessesAssumption == \A p \in Processes : {p.draft, p.managed} \subseteq BOOLEAN

VARIABLES proc,    \* the settings of this process
          phase,   \* "open", "serve" or "closed"
          g,       \* the scalar globals of ds4_cuda.cu
          ranges,  \* g_model_ranges
          arenas,  \* g_model_arenas
          wide,    \* g_q8_f16_ranges and g_q8_f32_ranges, by kind
          tmp,     \* g_cuda_tmp
          mem,     \* live buffers
          stage,   \* the pinned stages
          queue,   \* copies issued on the upload stream
          lookup,  \* cuda_model_range_ptr() in progress
          todo,    \* steps left of the operation in progress
          held,    \* pointers the operation holds: [w, ptr]
          faults,  \* failures so far
          ops      \* operations so far

weightVars == <<proc, phase, g, ranges, arenas, wide, tmp, mem, stage, queue, lookup, todo, held, faults, ops>>

Null == <<0, 0>>
NoCall == [step |-> "none"]
Env(name) == name \in proc.env
Fails == faults < MaxFaults /\ faults' = faults + 1
Works == UNCHANGED faults
Weight(m, off, len, label, shape) == [m |-> m, off |-> off, len |-> len, label |-> label, shape |-> shape]
Step(do, w, need) == [do |-> do, w |-> w, need |-> need]
RoundedUp(v, a) == ((v + a - 1) \div a) * a
RoundedDown(v, a) == (v \div a) * a

FileImage(m) == [i \in 0 .. FileUnits[m] - 1 |-> <<m, i>>]
Zeroed(n) == [i \in 0 .. n - 1 |-> Null]
FreshId(live) == Min({i \in 1 .. Cardinality(live) + 1 : i \notin live})
NewId == FreshId(DOMAIN mem)
With(m, id, image) == [i \in DOMAIN m \cup {id} |-> IF i = id THEN image ELSE m[i]]
Freed(m, ids) == [i \in DOMAIN m \ ids |-> m[i]]
\* what the n units at p hold, or nothing
UnitsAt(p, n) ==
  IF p[1] \in DOMAIN mem /\ p[2] + n - 1 \in DOMAIN mem[p[1]]
  THEN [i \in 0 .. n - 1 |-> mem[p[1]][p[2] + i]] ELSE <<>>
UnitsOf(w) == [i \in 0 .. w.len - 1 |-> <<w.m, w.off + i>>]

(***************************************************************************)
(* The map of a model                                                      *)
(***************************************************************************)
RangeBuffers == {ranges[i].ptr[1] : i \in {j \in DOMAIN ranges : ranges[j].kind = "copy"}}
ArenaBuffers == {arenas[i].id : i \in DOMAIN arenas}
NoCopies == [f16 |-> <<>>, f32 |-> <<>>]
WideBuffers(kind) == {wide[kind][i].id : i \in DOMAIN wide[kind]}
OwnedBase == IF g.owned THEN {g.base} ELSE {}

\* ds4_gpu_set_model_map() forgets everything of the previous map ...
ReleaseAll(m) == Freed(m, RangeBuffers \cup ArenaBuffers \cup WideBuffers("f16") \cup WideBuffers("f32") \cup OwnedBase)
Mapped(m, base, owned, registered) ==
  [g EXCEPT !.host = m, !.base = base, !.owned = owned, !.registered = registered,
            !.mapping = TRUE, !.hmm = FALSE, !.full = FALSE, !.off16 = FALSE, !.range_bytes = 0,
            !.fd_base = IF @ = 0 THEN m ELSE @]
\* ... and copies, registers or just names the new one. The outcomes of a call:
\* the globals and the live buffers after it, and whether something failed.
Outcome(r, m, failed) == [g |-> r, mem |-> m, failed |-> failed]
SetModelMap(m) ==
  LET kept == ReleaseAll(mem)
      id == FreshId(DOMAIN kept)
  IN IF g.host = m THEN {Outcome(g, mem, FALSE)}
     ELSE {Outcome(Mapped(m, m, FALSE, proc.register = "map"), kept, Env("COPY_MODEL"))}
          \cup (IF Env("COPY_MODEL") THEN {Outcome(Mapped(m, id, TRUE, FALSE), With(kept, id, FileImage(m)), FALSE)} ELSE {})

\* cuda_model_copy_chunked()
CopyChunked(o) ==
  LET id == FreshId(DOMAIN o.mem)
  IN IF {"NO_MODEL_COPY", "DIRECT_MODEL", "WEIGHT_CACHE", "WEIGHT_PRELOAD"} \cap proc.env # {} THEN {}
     ELSE IF o.g.owned \/ o.g.registered THEN {o}
     ELSE {Outcome([o.g EXCEPT !.base = id, !.owned = TRUE, !.hmm = FALSE],
                   With(o.mem, id, FileImage(o.g.host)), o.failed)}
\* cuda_model_prefetch_range()
Prefetch(o) ==
  {o} \cup (IF {"NO_MODEL_PREFETCH", "COPY_MODEL", "WEIGHT_CACHE", "WEIGHT_PRELOAD"} \cap proc.env # {} THEN {}
            ELSE {Outcome([o.g EXCEPT !.hmm = TRUE], o.mem, o.failed)})
\* ds4_gpu_set_model_map_range(): a copy that fails leaves the prefetch.
SetModelMapRange(m) ==
  IF Env("COPY_MODEL_CHUNKED") THEN UNION {CopyChunked(o) \cup Prefetch(o) : o \in SetModelMap(m)} ELSE SetModelMap(m)
\* ds4_gpu_managed_prefetch()
ManagedPrefetch(o) ==
  Outcome([o.g EXCEPT !.base = o.g.host, !.owned = TRUE, !.registered = FALSE, !.hmm = FALSE], o.mem, o.failed)

(***************************************************************************)
(* cuda_model_range_ptr()                                                  *)
(***************************************************************************)
\* cuda_model_ptr()
ModelPtr(w) == IF w.m = g.host /\ g.base # 0 THEN <<g.base, w.off>> ELSE <<w.m, w.off>>
ReadDirectly ==
  \/ g.owned \/ g.registered
  \/ g.hmm /\ {"WEIGHT_CACHE", "WEIGHT_PRELOAD"} \cap proc.env = {}
  \/ Env("DIRECT_MODEL")

Within(w, r) == w.m = r.m /\ r.off <= w.off /\ w.off + w.len <= r.off + r.len
\* pages of a registered range, which may hold more than the range
OnPages(w, r) == r.kind = "host" /\ w.m = r.m /\ r.page0 <= w.off /\ w.off + w.len <= r.page0 + r.pages
Newest(rs, off) == {i \in DOMAIN rs : rs[i].off = off /\ \A j \in DOMAIN rs : rs[j].off = off => j <= i}
\* The range last stored for the offset if it is long enough, else the first
\* one that holds the request.
CachedPtr(w) ==
  LET exact == {i \in Newest(ranges, w.off) : ranges[i].m = w.m /\ w.len <= ranges[i].len}
      hits == {i \in DOMAIN ranges : Within(w, ranges[i]) \/ OnPages(w, ranges[i])}
  IN IF exact # {} THEN {ranges[i].ptr : i \in exact}
     ELSE IF hits = {} THEN {}
     ELSE LET r == ranges[Min(hits)]
          IN {IF Within(w, r) THEN <<r.ptr[1], r.ptr[2] + w.off - r.off>> ELSE <<w.m, w.off>>}
\* cuda_model_range_is_cached()
IsCached(w) ==
  \/ g.owned \/ g.registered
  \/ \E i \in DOMAIN ranges : Within(w, ranges[i]) \/ OnPages(w, ranges[i])

Served(p) == lookup' = [lookup EXCEPT !.step = "done", !.ptr = p]
Turn(step) == lookup' = [lookup EXCEPT !.step = step]

RangePtr ==
  /\ lookup.step = "ask"
  /\ LET w == lookup.w
     IN IF ReadDirectly THEN Served(ModelPtr(w))
        ELSE IF CachedPtr(w) # {} THEN \E p \in CachedPtr(w) : Served(p)
        ELSE Turn(IF ~Env("NO_FD_CACHE") /\ g.fd_base \in {0, w.m} THEN "fd" ELSE "map")
  /\ UNCHANGED <<ops, proc, phase, g, ranges, arenas, wide, tmp, mem, stage, queue, todo, held, faults>>

\* a registered range reads the map itself
AddRange(w, ptr, kind) ==
  LET page0 == RoundedDown(w.off, Page)
  IN ranges' = Append(ranges, [m |-> w.m, off |-> w.off, len |-> w.len, ptr |-> ptr, kind |-> kind,
                               page0 |-> page0, pages |-> RoundedUp(w.off - page0 + w.len, Page)])

\* Pages are registered once; where they cannot be, the range is copied.
MapOrCopy ==
  /\ lookup.step = "map"
  /\ LET w == lookup.w
         free == \A i \in DOMAIN ranges : ranges[i].kind = "host" /\ ranges[i].m = w.m =>
                   \/ RoundedUp(w.off + w.len, Page) <= ranges[i].page0
                   \/ ranges[i].page0 + ranges[i].pages <= RoundedDown(w.off, Page)
         registers == g.mapping /\ proc.register = "pages" /\ free
     IN \/ /\ registers /\ Works
           /\ AddRange(w, <<w.m, w.off>>, "host") /\ Served(<<w.m, w.off>>)
           /\ UNCHANGED <<g, mem>>
        \/ /\ IF registers THEN Fails ELSE Works
           /\ AddRange(w, <<NewId, 0>>, "copy") /\ Served(<<NewId, 0>>)
           /\ mem' = With(mem, NewId, UnitsOf(w))
           /\ g' = [g EXCEPT !.range_bytes = @ + w.len, !.mapping = @ /\ proc.register # "never"]
        \/ /\ ~registers /\ Fails /\ Served(Null)
           /\ g' = [g EXCEPT !.mapping = @ /\ proc.register # "never"]
           /\ UNCHANGED <<ranges, mem>>
  /\ UNCHANGED <<ops, proc, phase, arenas, wide, tmp, stage, queue, todo, held>>

(***************************************************************************)
(* cuda_model_range_ptr_from_fd()                                          *)
(***************************************************************************)
OverLimit(n) == g.range_bytes > proc.limit \/ n > proc.limit - g.range_bytes
\* arenas that still hold n units
Roomy(n) == {i \in DOMAIN arenas : n <= arenas[i].units - arenas[i].used}
\* Not cached: read the map itself, unless the cache is strict.
Refused(w) == IF Env("STRICT_WEIGHT_CACHE") THEN Turn("map") ELSE Served(ModelPtr(w))
Upload(dev) == lookup' = [lookup EXCEPT !.step = "upload", !.dev = dev]

\* cuda_model_arena_alloc() and cuda_model_stage_pool_alloc()
FromFd ==
  /\ lookup.step = "fd"
  /\ LET w == lookup.w
         n == RoundedUp(w.len, ArenaAlign)
         size == RoundedUp(n, ArenaChunk)
     IN CASE OverLimit(w.len) -> Served(ModelPtr(w)) /\ Works /\ UNCHANGED <<g, arenas, mem>>
          [] ~OverLimit(w.len) /\ g.full -> Refused(w) /\ Works /\ UNCHANGED <<g, arenas, mem>>
          [] ~OverLimit(w.len) /\ ~g.full /\ Roomy(n) # {} ->
               LET i == Min(Roomy(n))
               IN /\ arenas' = [arenas EXCEPT ![i].used = @ + n]
                  /\ Upload(<<arenas[i].id, arenas[i].used>>)
                  /\ Works /\ UNCHANGED <<g, mem>>
          [] OTHER ->
               \/ OverLimit(n) /\ Refused(w) /\ Works /\ UNCHANGED <<g, arenas, mem>>
               \/ /\ ~OverLimit(n) /\ Works /\ Upload(<<NewId, 0>>)
                  /\ arenas' = Append(arenas, [id |-> NewId, units |-> size, used |-> n])
                  /\ mem' = With(mem, NewId, Zeroed(size))
                  /\ UNCHANGED g
               \/ ~OverLimit(n) /\ Fails /\ Refused(w) /\ g' = [g EXCEPT !.full = TRUE] /\ UNCHANGED <<arenas, mem>>
  /\ UNCHANGED <<ops, proc, phase, ranges, wide, tmp, stage, queue, todo, held>>

StageUnits == CopyChunk + Align
\* cuda_model_stage_read(): aligned blocks around the chunk, unless they pass the
\* end of the file; the payload starts delta units into the stage.
DirectRead(off, n) ==
  LET first == RoundedDown(off, Align)
      size == RoundedUp(off - first + n, Align)
  IN [fits |-> g.direct /\ Align > 1 /\ size <= StageUnits /\ size <= FileUnits[lookup.w.m] - first,
      first |-> first, size |-> size, delta |-> off - first]
Fill(bi, first, n) == stage' = [stage EXCEPT ![bi] = [i \in 0 .. StageUnits - 1 |-> IF i < n THEN <<lookup.w.m, first + i>> ELSE @[i]]]
\* cudaMemcpyAsync() and the event of the stage
Copy(bi, delta, n) ==
  /\ queue' = Append(queue, [dst |-> <<lookup.dev[1], lookup.dev[2] + lookup.copied>>, bi |-> bi, delta |-> delta, n |-> n])
  /\ lookup' = [lookup EXCEPT !.copied = @ + n, !.chunk = @ + 1]

\* Faulty variant for the checks: a stage is refilled as soon as its turn comes.
StageFreeAtOnce(bi) == TRUE
\* cudaEventSynchronize(): from the second round of an upload on, a stage is
\* refilled only once its last copy has landed.
StageFree(bi) == lookup.chunk >= Stages => \A i \in DOMAIN queue : queue[i].bi # bi

UploadChunk ==
  /\ lookup.step = "upload" /\ lookup.copied < lookup.w.len
  /\ LET n == Min({CopyChunk, lookup.w.len - lookup.copied})
         bi == lookup.chunk % Stages
         off == lookup.w.off + lookup.copied
         d == DirectRead(off, n)
     IN /\ StageFree(bi)
        /\ \/ d.fits /\ Fill(bi, d.first, d.size) /\ Copy(bi, d.delta, n) /\ Works /\ UNCHANGED g
           \/ ~d.fits /\ Fill(bi, off, n) /\ Copy(bi, 0, n) /\ Works /\ UNCHANGED g
           \* the direct read is refused: buffered reads from here on
           \/ d.fits /\ Fails /\ Fill(bi, off, n) /\ Copy(bi, 0, n) /\ g' = [g EXCEPT !.direct = FALSE]
           \* the read, the copy or the wait for the stage fails
           \/ Fails /\ Turn("map") /\ UNCHANGED <<g, stage, queue>>
           \/ Fails /\ Fill(bi, off, n) /\ Turn("map") /\ UNCHANGED <<g, queue>>
  /\ UNCHANGED <<ops, proc, phase, ranges, arenas, wide, tmp, mem, todo, held>>

\* The oldest copy of the upload stream lands with what its stage holds then.
AfterCopy(m, q) ==
  [m EXCEPT ![q.dst[1]] = [i \in DOMAIN @ |-> IF i \in q.dst[2] .. q.dst[2] + q.n - 1
                                              THEN stage[q.bi][q.delta + i - q.dst[2]] ELSE @[i]]]
CopyLands ==
  /\ queue # <<>>
  /\ mem' = AfterCopy(mem, Head(queue)) /\ queue' = Tail(queue)
  /\ UNCHANGED <<ops, proc, phase, g, ranges, arenas, wide, tmp, stage, lookup, todo, held, faults>>

\* cudaStreamSynchronize(), then the range can be found.
UploadDone ==
  /\ lookup.step = "upload" /\ lookup.copied = lookup.w.len
  /\ \/ /\ queue = <<>> /\ Works
        /\ AddRange(lookup.w, lookup.dev, "arena") /\ Served(lookup.dev)
        /\ g' = [g EXCEPT !.range_bytes = @ + lookup.w.len]
     \/ Fails /\ Turn("map") /\ UNCHANGED <<g, ranges>>
  /\ UNCHANGED <<ops, proc, phase, arenas, wide, tmp, mem, stage, queue, todo, held>>

(***************************************************************************)
(* Expanded copies of Q8 matrices                                          *)
(***************************************************************************)
\* cuda_q8_f16_cache_allowed()
Allowed16(w) ==
  /\ ~Env("QUALITY") /\ ~g.off16 /\ ~Env("NO_Q8_F16_CACHE") /\ proc.limit16 # 0
  /\ \/ Env("Q8_F16_ALL")
     \/ w.label = "attn_output" /\ ~Env("NO_ATTENTION_OUTPUT_F16_CACHE")
     \/ w.label = "attn_q_b" /\ ~Env("NO_ATTN_Q_B_F16_CACHE")
     \/ w.label = "shexp"
     \/ w.label = "other" /\ \/ w.shape = "listed"
                             \/ w.shape = "q_b" /\ ~Env("NO_ATTN_Q_B_F16_CACHE")
\* cuda_q8_f16_preload_allowed()
PreloadAllowed16(w) ==
  /\ w.label = "attn_output" => Env("ATTENTION_OUTPUT_PRELOAD") \/ Env("Q8_F16_ALL")
  /\ Allowed16(w)
\* cuda_q8_f32_cache_allowed()
Allowed32(w) ==
  /\ ~Env("NO_Q8_F32_CACHE")
  /\ \/ Env("Q8_F32_ALL")
     \/ w.label = "attn_q_b" /\ Env("ATTN_Q_B_F32_CACHE")
     \/ w.label # "attn_q_b" /\ Env("Q8_F32_LARGE") /\ w.shape = "q_b"
Bytes16 == FoldLeft(LAMBDA s, r : s + r.len, 0, wide.f16)
\* cuda_q8_f16_cache_has_budget(): the limit; what the device has free is its own affair.
InBudget(n) == Bytes16 <= proc.limit16 /\ n <= proc.limit16 - Bytes16

WideHit(kind, w) ==
  {wide[kind][i].id : i \in {j \in Newest(wide[kind], w.off) :
     wide[kind][j].m = w.m /\ wide[kind][j].len = w.len /\ wide[kind][j].shape = w.shape}}
Disabled16(r) == [r EXCEPT !.off16 = TRUE]
\* Faulty variant for the checks: the list is cleared before its buffers are freed.
Disable16Lost == wide' = [wide EXCEPT !.f16 = <<>>] /\ UNCHANGED mem
\* cuda_q8_f16_cache_disable_after_failure(): every copy in f16 goes.
Disable16 == wide' = [wide EXCEPT !.f16 = <<>>] /\ mem' = Freed(mem, WideBuffers("f16"))

(***************************************************************************)
(* Steps of an operation                                                   *)
(***************************************************************************)
Next1 == Head(todo)
Ask(w) == lookup' = [step |-> "ask", w |-> w, dev |-> Null, copied |-> 0, chunk |-> 0, ptr |-> Null]
Hold(w, p) == held' = held \cup {[w |-> w, ptr |-> p]}
GoOn == todo' = Tail(todo) /\ UNCHANGED <<phase, held>>
\* the operation returns 0
Abort == todo' = <<>> /\ held' = {} /\ UNCHANGED phase
\* a matrix product is done: what is left of it is skipped
AfterProduct == SubSeq(todo, 1 + Min({i \in DOMAIN todo : todo[i].do = "kernel"}), Len(todo))

\* ds4_gpu_cleanup(), after the files are unmapped
Cleanup ==
  /\ phase' = "closed" /\ todo' = <<>> /\ held' = {}
  /\ mem' = Freed(mem, RangeBuffers \cup ArenaBuffers \cup WideBuffers("f16") \cup WideBuffers("f32") \cup OwnedBase
                        \cup {tmp.id} \cup {Main, Draft})
  /\ ranges' = <<>> /\ arenas' = <<>> /\ wide' = NoCopies /\ queue' = <<>>
  /\ tmp' = [id |-> 0, units |-> 0]
  /\ g' = [g EXCEPT !.owned = FALSE, !.base = 0, !.host = 0]

\* cuda_tmp_alloc(): the buffer only grows, and the old one goes first.
Scratch(n) ==
  LET left == Freed(mem, {tmp.id})
      id == FreshId(DOMAIN left)
  IN IF n <= tmp.units THEN {[mem |-> mem, tmp |-> tmp, ok |-> TRUE]}
     ELSE {[mem |-> With(left, id, Zeroed(n)), tmp |-> [id |-> id, units |-> n], ok |-> TRUE],
           [mem |-> left, tmp |-> [id |-> 0, units |-> 0], ok |-> FALSE]}
\* What follows the allocation of the scratch buffer.
WithScratch(n, rest) ==
  \E o \in Scratch(n) :
    /\ mem' = o.mem /\ tmp' = o.tmp
    /\ IF o.ok THEN Works /\ todo' = rest /\ held' = {} /\ UNCHANGED phase ELSE Fails /\ Abort

Idle == lookup.step = "none" /\ todo # <<>>

\* A step that needs a range asks for it, and takes what it gets.
AskRange ==
  /\ Idle /\ Next1.do \in {"range", "span"} /\ Ask(Next1.w)
  /\ UNCHANGED <<ops, proc, phase, g, ranges, arenas, wide, tmp, mem, stage, queue, todo, held, faults>>
TakeRange ==
  /\ lookup.step = "done" /\ Next1.do = "range"
  /\ lookup' = NoCall
  /\ IF lookup.ptr = Null THEN Abort ELSE Hold(lookup.w, lookup.ptr) /\ todo' = Tail(todo) /\ UNCHANGED phase
  /\ UNCHANGED <<ops, proc, g, ranges, arenas, wide, tmp, mem, stage, queue, faults>>
\* ds4_gpu_cache_model_range(): startup fails unless the span is in the cache.
TakeSpan ==
  /\ lookup.step = "done" /\ Next1.do = "span"
  /\ lookup' = NoCall
  /\ IF lookup.ptr # Null /\ IsCached(lookup.w)
     THEN GoOn /\ UNCHANGED <<g, ranges, arenas, wide, tmp, mem, queue>>
     ELSE Cleanup
  /\ UNCHANGED <<ops, proc, stage, faults>>

\* The expanded copies: cuda_q8_f32_ptr() before a product in f32,
\* cuda_q8_f16_ptr() before one in f16, either of them at startup.
Kind(s) == IF s.do = "product32" \/ (s.do = "preload" /\ Env("Q8_F32_PRELOAD") /\ Allowed32(s.w)) THEN "f32" ELSE "f16"
WantsWide == Next1.do \in {"product32", "product16", "heads16", "preload"}
AllowedWide(s) ==
  CASE Kind(s) = "f32" -> Allowed32(s.w)
    [] s.do = "preload" -> PreloadAllowed16(s.w)
    [] OTHER -> Allowed16(s.w)
\* without a copy a product goes on with the Q8 weights, and startup stops preloading
NoWide(s) == GoOn /\ lookup' = NoCall
WithCopy(s) ==
  [s EXCEPT !.do = CASE @ = "product32" -> "with_product32" [] @ = "product16" -> "with_product16" [] OTHER -> "with_heads16"]
GotWide(s, id) ==
  /\ lookup' = NoCall
  /\ IF s.do = "preload" THEN GoOn
     ELSE Hold(s.w, <<id, 0>>) /\ todo' = <<WithCopy(s)>> \o Tail(todo) /\ UNCHANGED phase
GiveUpPreload(s, r) == g' = IF s.do = "preload" THEN [r EXCEPT !.no_preload = TRUE] ELSE r

AskWide ==
  /\ Idle /\ WantsWide
  /\ LET s == Next1
         hit == WideHit(Kind(s), s.w)
     IN CASE s.do = "preload" /\ g.no_preload -> NoWide(s)
          [] hit # {} -> \E id \in hit : GotWide(s, id)
          [] hit = {} /\ ~AllowedWide(s) -> NoWide(s)
          [] OTHER -> Ask(s.w) /\ UNCHANGED <<phase, todo, held>>
  /\ UNCHANGED <<ops, proc, g, ranges, arenas, wide, tmp, mem, stage, queue, faults>>

Expand ==
  /\ lookup.step = "done" /\ WantsWide
  /\ LET s == Next1
         kind == Kind(s)
     IN \/ /\ \/ lookup.ptr = Null
              \/ kind = "f16"   \* the budget, or the memory left
           /\ NoWide(s) /\ GiveUpPreload(s, g) /\ Works /\ UNCHANGED <<wide, mem>>
        \/ /\ lookup.ptr # Null /\ (kind = "f16" => InBudget(s.w.len)) /\ Works
           /\ mem' = With(mem, NewId, UnitsAt(lookup.ptr, s.w.len))
           /\ wide' = [wide EXCEPT ![kind] = Append(@, [m |-> s.w.m, off |-> s.w.off, len |-> s.w.len,
                                                        shape |-> s.w.shape, id |-> NewId])]
           /\ GotWide(s, NewId) /\ UNCHANGED g
        \* the allocation or the launch fails
        \/ /\ lookup.ptr # Null /\ Fails /\ NoWide(s)
           /\ IF kind = "f32" THEN GiveUpPreload(s, g) /\ UNCHANGED <<wide, mem>>
              ELSE /\ InBudget(s.w.len)
                   /\ GiveUpPreload(s, Disabled16(g)) /\ Disable16
  /\ UNCHANGED <<ops, proc, ranges, arenas, tmp, stage, queue>>

(***************************************************************************)
(* Operations                                                              *)
(***************************************************************************)
\* cuda_matmul_q8_0_tensor_labeled(): a batch tries the copies in f32 and f16
\* before the Q8 kernel, which quantizes its input into the scratch buffer.
MatmulQ8(w, tokens, cublas) ==
  <<Step("range", w, 0)>>
  \o (IF cublas /\ tokens > 1 THEN <<Step("product32", w, 0), Step("product16", w, tokens)>> ELSE <<>>)
  \o <<Step("kernel", w, tokens)>>
\* ds4_gpu_matmul_q8_0_pair_tensor()
MatmulQ8Pair(w0, w1, tokens, cublas) ==
  IF tokens # 1 THEN MatmulQ8(w0, tokens, cublas) \o MatmulQ8(w1, tokens, cublas)
  ELSE <<Step("range", w0, 0), Step("range", w1, 0), Step("kernel", w1, 1)>>
\* cuda_matmul_q8_0_hc_expand_tensor_labeled()
MatmulQ8Expand(w) == <<Step("range", w, 0), Step("kernel", w, 1)>>
\* ds4_gpu_matmul_f16_tensor(): cuBLAS reads a batch converted into the scratch buffer.
MatmulF16(w, tokens, cublas) == <<Step("range", w, 0), Step("kernel", w, IF cublas /\ tokens > 1 THEN tokens ELSE 0)>>
\* ds4_gpu_matmul_f16_pair_tensor()
MatmulF16Pair(w0, w1, tokens, cublas) ==
  IF tokens # 1 THEN MatmulF16(w0, tokens, cublas) \o MatmulF16(w1, tokens, cublas)
  ELSE <<Step("range", w0, 0), Step("range", w1, 0), Step("kernel", w1, 0)>>
\* ds4_gpu_matmul_f32_tensor()
MatmulF32(w) == <<Step("range", w, 0), Step("kernel", w, 0)>>
\* ds4_gpu_attention_output_q8_batch_tensor(): the heads are packed with their
\* products in the scratch buffer.
AttentionOutput(a, b, tokens, cublas) ==
  <<Step("range", a, 0), Step("range", b, 0)>>
  \o (IF cublas /\ tokens > 1 THEN <<Step("heads16", a, 2 * tokens)>> ELSE <<>>)
  \o <<Step("kernel", a, tokens)>> \o MatmulQ8(b, tokens, cublas)
\* ds4_gpu_attention_output_low_q8_tensor()
AttentionOutputLow(a) == <<Step("range", a, 0), Step("kernel", a, 1)>>

\* The product over the copy in f32: cublasSgemm().
Product32 ==
  /\ Idle /\ Next1.do = "with_product32"
  /\ \/ Works /\ todo' = AfterProduct /\ held' = {} /\ UNCHANGED phase
     \/ Fails /\ Abort
  /\ UNCHANGED <<ops, proc, g, ranges, arenas, wide, tmp, mem, stage, queue, lookup>>

\* The product over the copy in f16. One that cuBLAS rejects is repeated with
\* the Q8 weights, except for the attention heads.
Product16 ==
  /\ Idle /\ Next1.do \in {"with_product16", "with_heads16"}
  /\ \/ WithScratch(Next1.need, AfterProduct) /\ UNCHANGED <<g, wide>>
     \/ /\ Fails /\ Next1.need <= tmp.units
        /\ IF Next1.do = "with_heads16" THEN Abort /\ UNCHANGED <<g, wide, mem>>
           ELSE /\ g' = Disabled16(g) /\ Disable16
                /\ todo' = Tail(todo) /\ held' = {h \in held : h.ptr[1] \notin WideBuffers("f16")}
                /\ UNCHANGED phase
        /\ UNCHANGED tmp
  /\ UNCHANGED <<ops, proc, ranges, arenas, stage, queue, lookup>>

\* A kernel over the weights themselves.
RunKernel ==
  /\ Idle /\ Next1.do = "kernel"
  /\ \/ WithScratch(Next1.need, Tail(todo))
     \/ Fails /\ Abort /\ UNCHANGED <<tmp, mem>>
  /\ UNCHANGED <<ops, proc, g, ranges, arenas, wide, stage, queue, lookup>>

(***************************************************************************)
(* The engine                                                              *)
(***************************************************************************)
\* accelerator_cache_model_tensor_spans(): neighbours share a span, and a long
\* span is cut.
JoinSpan(acc, t) ==
  LET last == acc[Len(acc)]
      joins == acc # <<>> /\ t.off <= last[2] + SpanGap /\ t.off + t.len - last[1] <= MaxSpan
  IN IF joins THEN [acc EXCEPT ![Len(acc)] = <<@[1], Max({@[2], t.off + t.len})>>]
     ELSE Append(acc, <<t.off, t.off + t.len>>)
CutSpan(acc, s) ==
  acc \o [i \in 1 .. (s[2] - s[1] + MaxSpan - 1) \div MaxSpan |->
            Weight(Main, s[1] + (i - 1) * MaxSpan, Min({MaxSpan, s[2] - s[1] - (i - 1) * MaxSpan}), "span", "span")]
Spans == FoldLeft(CutSpan, <<>>, FoldLeft(JoinSpan, <<>>, Tensors))
\* accelerator_cache_model_tensors()
CacheSteps(p) ==
  IF p.draft \/ p.managed \/ "DIRECT_MODEL" \in p.env THEN <<>>
  ELSE [i \in DOMAIN Spans |-> Step("span", Spans[i], 0)]
       \o (IF {"Q8_F16_PRELOAD", "Q8_F32_PRELOAD"} \cap p.env = {} THEN <<>>
           ELSE [i \in DOMAIN Tensors |-> Step("preload", Tensors[i], 0)])
\* ds4_engine_open()
StartupSteps(p) ==
  <<Step(IF p.managed THEN "managed" ELSE "map", Weight(Main, 0, 0, "map", "map"), 0)>>
  \o (IF p.draft THEN <<Step("map", Weight(Draft, 0, 0, "map", "map"), 0)>> ELSE <<>>)
  \o CacheSteps(p)

WeightInit ==
  /\ proc \in Processes /\ phase = "open" /\ todo = StartupSteps(proc)
  /\ g = [host |-> 0, base |-> 0, owned |-> FALSE, registered |-> FALSE, mapping |-> TRUE, hmm |-> FALSE,
          fd_base |-> 0, direct |-> ~("NO_DIRECT_IO" \in proc.env), full |-> FALSE, no_preload |-> FALSE,
          off16 |-> FALSE, range_bytes |-> 0]
  /\ ranges = <<>> /\ arenas = <<>> /\ wide = NoCopies /\ queue = <<>>
  /\ tmp = [id |-> 0, units |-> 0]
  /\ mem = [m \in {Main} \cup (IF proc.draft THEN {Draft} ELSE {}) |-> FileImage(m)]
  /\ stage = [bi \in 0 .. Stages - 1 |-> Zeroed(StageUnits)]
  /\ lookup = NoCall /\ held = {} /\ faults = 0 /\ ops = 0

MapModel ==
  /\ Idle /\ Next1.do \in {"map", "managed"}
  /\ \E o \in IF Next1.do = "map" THEN SetModelMapRange(Next1.w.m) ELSE {ManagedPrefetch(q) : q \in SetModelMap(Main)} :
       /\ g' = o.g /\ mem' = o.mem
       /\ IF o.failed THEN Fails ELSE Works
  /\ IF g.host = Next1.w.m THEN UNCHANGED <<ranges, arenas, wide, queue>>
     ELSE ranges' = <<>> /\ arenas' = <<>> /\ wide' = NoCopies /\ queue' = <<>>
  /\ GoOn
  /\ UNCHANGED <<ops, proc, tmp, stage, lookup>>
Opened ==
  /\ phase = "open" /\ todo = <<>>
  /\ phase' = "serve"
  /\ UNCHANGED <<ops, proc, g, ranges, arenas, wide, tmp, mem, stage, queue, lookup, todo, held, faults>>
Run(op) ==
  /\ phase = "serve" /\ todo = <<>> /\ lookup = NoCall
  /\ \A i \in DOMAIN op : op[i].w.m = Draft => proc.draft
  /\ ops < MaxOps /\ ops' = ops + 1
  /\ todo' = op /\ held' = {}
  /\ UNCHANGED <<proc, phase, g, ranges, arenas, wide, tmp, mem, stage, queue, lookup, faults>>
Close ==
  /\ phase = "serve" /\ todo = <<>> /\ Cleanup
  /\ UNCHANGED <<ops, proc, stage, lookup, faults>>

WeightNext ==
  \/ MapModel \/ Opened \/ (\E op \in Operations : Run(op)) \/ Close
  \/ AskRange \/ RangePtr \/ MapOrCopy \/ FromFd \/ UploadChunk \/ CopyLands \/ UploadDone
  \/ TakeRange \/ TakeSpan \/ AskWide \/ Expand \/ Product32 \/ Product16 \/ RunKernel

WeightSpec == WeightInit /\ [][WeightNext]_weightVars

\* cuda_model_range_ptr(), cuda_q8_f16_ptr(), cuda_q8_f32_ptr(): whatever an
\* operation holds until its kernel reads, for every way the pointer was
\* obtained and whatever failed or was freed since, the units of its own tensor
\* are there.
WeightsRead == \A h \in held : UnitsAt(h.ptr, h.w.len) = UnitsOf(h.w)

\* ds4_gpu_cleanup(), ds4_gpu_set_model_map(): the live buffers are exactly the
\* ones a table or a global still names, so that all of them are freed once.
BuffersOwned ==
  LET scratch == {tmp.id} \ {0}
      owned == RangeBuffers \cup ArenaBuffers \cup WideBuffers("f16") \cup WideBuffers("f32") \cup scratch \cup OwnedBase
  IN /\ DOMAIN mem \ {Main, Draft} = owned \ {Main, Draft}
     /\ Len(arenas) + Len(wide.f16) + Len(wide.f32) + Cardinality(RangeBuffers) + Cardinality(scratch)
          + Cardinality(OwnedBase) = Cardinality(owned)
====
