------------------------------ MODULE KVServer ------------------------------
(***************************************************************************)
(* The inference worker of ds4_server.c: generate_job() over the live      *)
(* session (module Session) and the disk KV cache.                         *)
(*                                                                         *)
(* A text is a sequence of characters and a token is the nonempty text it  *)
(* stands for, so a text has several tokenizations and the model may       *)
(* sample one the tokenizer would not produce.  A cache file is named by   *)
(* the text of its tokens.  Chat requests that think end in ThinkOpen.     *)
(*                                                                         *)
(* Only this thread touches the session and the files, so a step ends      *)
(* where a file changes, a call may fail, or a callback runs.  The process *)
(* may crash between any two steps; files survive.                         *)
(*                                                                         *)
(* A "faulty variant" is no part of the specification: it is the           *)
(* definition below it with one plausible bug, kept to show that a         *)
(* property which holds of the code would notice the bug.                  *)
(***************************************************************************)
EXTENDS Session, SequencesExt

CONSTANTS
  Tokenize(_),   \* ds4_tokenize_rendered_chat()
  Requests,      \* texts of the prompts clients send
  Sampled,       \* tokens the model may sample, Eos apart
  ThinkOpen, ThinkClose, Eos,    \* special tokens
  MinTokens, ColdMax, Interval, Trim, Align,   \* kv_cache_options
  Budget,        \* kv.budget_bytes, in the unit of FileSize
  FileOverhead,  \* the part of a file that does not grow with its tokens
  MaxTokens,     \* max_tokens of every request
  MaxJobs, MaxFaults, MaxHits,   \* bounds of the model
  NoJob

ASSUME KVAssumption ==
  /\ MinTokens \in Nat \ {0} /\ ColdMax \in Nat /\ Interval \in Nat
  /\ Trim \in Nat /\ Align \in Nat /\ Budget \in Nat /\ FileOverhead \in Nat
  /\ MaxTokens \in Nat /\ MaxJobs \in Nat /\ MaxFaults \in Nat /\ MaxHits \in Nat

VARIABLES
  pc,          \* what the worker does next
  job,         \* the request being served, or NoJob
  store,       \* arguments and continuation of kv_cache_store_live_prefix()
  lastStore,   \* kv.continued_last_store_tokens
  lastEvicted, \* server.last_evicted_tokens
  disk,        \* the cache files
  jobs,        \* requests taken since the beginning (bounded by MaxJobs)
  faults       \* the kinds of fault so far (at most MaxFaults)

kvVars == <<pc, job, store, lastStore, lastEvicted, disk, jobs, faults>>
vars == <<sessionVars, kvVars>>

-----------------------------------------------------------------------------
(* Texts and files *)

\* render_tokens_text()
Text(tokens) == FlattenSeq(tokens)

Drop(s, n) == SubSeq(s, n + 1, Len(s))
EndsIn(text, token) ==
  Len(token) <= Len(text) /\ Drop(text, Len(text) - Len(token)) = token

\* Faulty variant: the tokens of the whole text are cut at the history's length.
ContinueByTokens(tokens, text) == tokens \o Drop(Tokenize(text), Len(tokens))

\* build_prompt_from_exact_prefix_and_text_suffix(): the token history is kept
\* as it is and only the rest of the text is tokenized.
Continue(tokens, text) == tokens \o Tokenize(Drop(text, Len(Text(tokens))))

FileText(f) == Text(f.tokens)
FileSize(f) == FileOverhead + Len(f.tokens)
DiskSize == MapThenSumSet(FileSize, disk)
FileNamed(text) == {f \in disk : FileText(f) = text}

\* A file is the payload of the live session and a hit counter.
LiveFile == [tokens |-> checkpoint, graph |-> graph,
             ctx |-> conf.ctx, cap |-> conf.cap, hits |-> 0]

NoStore == [tokens |-> <<>>, note |-> FALSE, next |-> "idle"]

Init == /\ SessionInit
        /\ pc = "idle"
        /\ job = NoJob
        /\ store = NoStore
        /\ lastStore = 0
        /\ lastEvicted = <<>>
        /\ disk = {}
        /\ jobs = 0
        /\ faults = {}

\* Something fails that need not: a read or a write ("io"), an unlink ("unlink"),
\* a backend command ("backend"), the process ("crash").  Each kind once.
Fault(kind) == /\ kind \notin faults /\ Cardinality(faults) < MaxFaults
               /\ faults' = faults \cup {kind}

\* generate_job() returns; the session stays as it is.
EndJob == pc' = "idle" /\ job' = NoJob

\* kv_cache_store_live_prefix(), to continue at "next".
CallStore(tokens, note, next) ==
  /\ pc' = "store"
  /\ store' = [tokens |-> tokens, note |-> note, next |-> next]

Return == pc' = store.next /\ store' = NoStore

-----------------------------------------------------------------------------
(* kv_cache_store_live_prefix() and kv_cache_evict() *)

\* The session must hold exactly the tokens to store, be valid, and the prefix
\* be long enough.
Storable == /\ Len(store.tokens) >= MinTokens
            /\ checkpoint = store.tokens
            /\ CanSave

\* kv_cache_existing_compatible()
Compatible(f) == f.ctx <= conf.ctx

\* kv_cache_note_store(), for the callers that note what they stored.
NoteStore == lastStore' = IF store.note /\ Len(store.tokens) > lastStore
                            THEN Len(store.tokens) ELSE lastStore

StoreSkipped ==
  /\ pc = "store" /\ ~Storable
  /\ Return
  /\ UNCHANGED <<sessionVars, job, lastStore, lastEvicted, disk, jobs, faults>>

\* A compatible file of that text is there already.
StoreExists ==
  /\ pc = "store" /\ Storable
  /\ \E f \in FileNamed(Text(store.tokens)) : Compatible(f)
  /\ NoteStore
  /\ Return
  /\ UNCHANGED <<sessionVars, job, lastEvicted, disk, jobs, faults>>

\* An incompatible file is unlinked, or cannot be.
StoreReplaces ==
  /\ pc = "store" /\ Storable
  /\ \A f \in FileNamed(Text(store.tokens)) : ~Compatible(f)
  /\ \/ disk' = disk \ FileNamed(Text(store.tokens)) /\ UNCHANGED faults
     \/ Fault("unlink") /\ UNCHANGED disk
  /\ pc' = "write"
  /\ UNCHANGED <<sessionVars, job, store, lastStore, lastEvicted, jobs>>

\* The file is written under a temporary name and renamed; on any error the
\* temporary file is removed.
StoreWrite ==
  /\ pc = "write"
  /\ \/ /\ disk' = (disk \ FileNamed(Text(store.tokens))) \cup {LiveFile}
        /\ NoteStore
        /\ pc' = "evict"
        /\ UNCHANGED <<store, faults>>
     \/ /\ Fault("io")
        /\ Return
        /\ UNCHANGED <<disk, lastStore>>
  /\ UNCHANGED <<sessionVars, job, lastEvicted, jobs>>

\* kv_entry_eviction_score(f) <= kv_entry_eviction_score(g)
WorthNoMore(f, g) ==
  (f.hits + 1) * Len(f.tokens) * FileSize(g) <= (g.hits + 1) * Len(g.tokens) * FileSize(f)

\* The files of the least score; the code breaks ties by a clock of one second.
Victims == {f \in disk : \A g \in disk : WorthNoMore(f, g)}

\* One round of kv_cache_evict(); an unlink that fails ends it.
Evict ==
  /\ pc = "evict"
  /\ IF DiskSize <= Budget
       THEN Return /\ UNCHANGED <<disk, faults>>
       ELSE \/ \E f \in Victims : disk' = disk \ {f} /\ UNCHANGED <<pc, store, faults>>
            \/ Fault("unlink") /\ Return /\ UNCHANGED disk
  /\ UNCHANGED <<sessionVars, job, lastStore, lastEvicted, jobs>>

Store == StoreSkipped \/ StoreExists \/ StoreReplaces \/ StoreWrite \/ Evict

\* kv_cache_continued_store_target() is not zero: the session stands at an
\* absolute aligned frontier beyond the last one stored.
ContinuedStep ==
  IF Interval = 0 THEN 0
  ELSE IF Align = 0 THEN Interval
  ELSE ((Interval + Align - 1) \div Align) * Align

ContinuedDue == /\ ContinuedStep > 0
                /\ Pos >= MinTokens
                /\ Pos % ContinuedStep = 0
                /\ Pos > lastStore

-----------------------------------------------------------------------------
(* generate_job(): where the prompt's prefix comes from *)

\* A request is taken from the queue; client_main() has tokenized it.
Request(text) ==
  /\ pc = "idle" /\ jobs < MaxJobs
  /\ pc' = "lookup"
  /\ job' = [text |-> text, prompt |-> Tokenize(text), cached |-> 0, cold |-> 0,
             output |-> <<>>, phase |-> "prefix"]
  /\ jobs' = jobs + 1
  /\ UNCHANGED <<sessionVars, store, lastStore, lastEvicted, disk, faults>>

TokenHit == Pos > 0 /\ CommonPrefix(job.prompt) = Pos
\* live_text_prefix_prompt()
TextHit == Pos > 0 /\ StartsWith(job.text, Text(checkpoint))

\* The live session is a prefix of the prompt, token by token or as text.
LookupLive ==
  /\ pc = "lookup" /\ (TokenHit \/ TextHit)
  /\ job' = [job EXCEPT !.cached = Pos,
                        !.prompt = IF TokenHit THEN @ ELSE Continue(checkpoint, job.text)]
  /\ pc' = "plan"
  /\ UNCHANGED <<sessionVars, store, lastStore, lastEvicted, disk, jobs, faults>>

\* Faulty variant: a session no longer than the last noted store counts as stored.
LookupElsewhereTrustsNote ==
  /\ pc = "lookup" /\ ~TokenHit /\ ~TextHit
  /\ lastStore' = 0
  /\ IF Pos >= MinTokens /\ Pos > lastStore
       THEN CallStore(checkpoint, FALSE, "load") /\ lastEvicted' = checkpoint
       ELSE pc' = "load" /\ UNCHANGED <<store, lastEvicted>>
  /\ UNCHANGED <<sessionVars, job, disk, jobs, faults>>

\* It is not: it will be replaced, so it is saved first if it is worth it.
LookupElsewhere ==
  /\ pc = "lookup" /\ ~TokenHit /\ ~TextHit
  /\ lastStore' = 0
  /\ IF Pos >= MinTokens
       THEN CallStore(checkpoint, FALSE, "load") /\ lastEvicted' = checkpoint
       ELSE pc' = "load" /\ UNCHANGED <<store, lastEvicted>>
  /\ UNCHANGED <<sessionVars, job, disk, jobs, faults>>

\* kv_cache_try_load_text(): the longest file whose text is a prefix of the
\* wanted text.  It serves a request, or the canonical form of a finished one.
Wanted == IF job.phase = "canon" THEN Text(job.prompt) ELSE job.text
Candidates == {f \in disk : /\ StartsWith(Wanted, FileText(f))
                            /\ Len(f.tokens) >= MinTokens
                            /\ Compatible(f)}
Best == CHOOSE f \in Candidates :
          \A g \in Candidates : Len(FileText(g)) <= Len(FileText(f))

AfterMiss == IF job.phase = "canon" THEN "full" ELSE "evicted"

\* No file, or one that cannot be opened.  Canonicalization then discards the
\* session itself.
LoadMisses ==
  /\ pc = "load"
  /\ \/ Candidates = {} /\ UNCHANGED faults
     \/ Candidates # {} /\ Fault("io")
  /\ IF job.phase = "canon" THEN ds4_session_invalidate ELSE UNCHANGED sessionVars
  /\ pc' = AfterMiss
  /\ UNCHANGED <<job, store, lastStore, lastEvicted, disk, jobs>>

\* The payload does not suit this session, or cannot be read.
LoadFails ==
  /\ pc = "load" /\ Candidates # {}
  /\ \/ ~Loadable(Best) /\ UNCHANGED faults
     \/ Fault("io")
  /\ LoadPayloadFails
  /\ pc' = AfterMiss
  /\ UNCHANGED <<job, store, lastStore, lastEvicted, disk, jobs>>

\* A hit: a long file is consumed, a short one is touched.
LoadHits ==
  /\ pc = "load" /\ Candidates # {}
  /\ LoadPayload(Best)
  /\ LET f == Best
         touched == [f EXCEPT !.hits = Min2(@ + 1, MaxHits)]
     IN  /\ job' = [job EXCEPT !.cached = IF job.phase = "canon" THEN @ ELSE Len(f.tokens),
                               !.prompt = Continue(f.tokens, Wanted)]
         /\ lastStore' = Len(f.tokens)
         /\ \/ /\ disk' = (disk \ {f}) \cup
                          (IF ColdMax > 0 /\ Len(f.tokens) > ColdMax THEN {} ELSE {touched})
               /\ UNCHANGED faults
            \/ Fault("io") /\ UNCHANGED disk
  /\ pc' = IF job.phase = "canon" THEN "full" ELSE "plan"
  /\ UNCHANGED <<store, lastEvicted, jobs>>

\* kv_cache_try_load_evicted(): the session last saved as "evict", if its
\* tokens are a prefix of the request's.
EvictedFiles ==
  IF lastEvicted # <<>> /\ StartsWith(job.prompt, lastEvicted)
    THEN {f \in FileNamed(Text(lastEvicted)) : Len(f.tokens) = Len(lastEvicted)}
    ELSE {}

LoadEvicted ==
  /\ pc = "evicted"
  /\ \/ /\ \/ EvictedFiles = {} /\ UNCHANGED faults
           \/ EvictedFiles # {} /\ Fault("io")
        /\ UNCHANGED <<sessionVars, job>>
     \/ \E f \in EvictedFiles :
          \/ /\ LoadPayload(f)
             /\ job' = [job EXCEPT !.cached = Len(f.tokens)]
             /\ UNCHANGED faults
          \/ /\ \/ ~Loadable(f) /\ UNCHANGED faults
                \/ Fault("io")
             /\ LoadPayloadFails
             /\ UNCHANGED job
  /\ pc' = "plan"
  /\ UNCHANGED <<store, lastStore, lastEvicted, disk, jobs>>

-----------------------------------------------------------------------------
(* generate_job(): prefill *)

\* kv_cache_store_len(): a cold prompt is cut back from its unstable end to an
\* aligned length, unless too little would be left.
StoreLen(n) ==
  LET stable == (n - Trim) - (IF Align = 0 THEN 0 ELSE (n - Trim) % Align)
  IN  IF n > MinTokens + Trim /\ stable >= MinTokens THEN stable ELSE n

ColdLen == IF job.cached = 0 /\ Len(job.prompt) \in MinTokens..ColdMax
             THEN StoreLen(Len(job.prompt)) ELSE 0

\* Faulty variant: the result of ds4_session_sync() is not looked at.
SyncUnchecked(prompt) ==
  /\ pc' = "sync"
  /\ IF SyncAccepts(prompt)
       THEN SyncBegin(prompt, job.phase # "canon") ELSE UNCHANGED sessionVars

\* ds4_session_sync() begins, with the progress callback set unless the
\* session is being rewritten; or it refuses the prompt and the job ends (a
\* 500, or a canonicalization given up).
SyncOrEnd(prompt) ==
  \/ /\ SyncBegin(prompt, job.phase # "canon")
     /\ pc' = IF sync'.progress THEN "progress" ELSE "sync"
  \/ /\ ~SyncAccepts(prompt)
     /\ pc' = "idle"
     /\ UNCHANGED sessionVars

\* A cold prompt is first prefilled to the length that will be stored.
Plan ==
  /\ pc = "plan"
  /\ LET cold == ColdLen
     IN  IF cold >= MinTokens /\ cold < Len(job.prompt)
           THEN /\ SyncOrEnd(Take(job.prompt, cold))
                /\ job' = IF pc' = "idle" THEN NoJob ELSE [job EXCEPT !.cold = cold]
           ELSE /\ pc' = "full"
                /\ job' = [job EXCEPT !.cold = cold, !.phase = "full"]
                /\ UNCHANGED sessionVars
  /\ UNCHANGED <<store, lastStore, lastEvicted, disk, jobs, faults>>

SyncPrompt ==
  /\ pc = "full"
  /\ SyncOrEnd(job.prompt)
  /\ job' = IF pc' = "idle" THEN NoJob
            ELSE [job EXCEPT !.phase = IF @ = "prefix" THEN "full" ELSE @]
  /\ UNCHANGED <<store, lastStore, lastEvicted, disk, jobs, faults>>

\* server_progress_cb(), before the first chunk and after each.
Progress ==
  /\ pc = "progress"
  /\ IF sync.pos > job.cached /\ ContinuedDue
       THEN CallStore(checkpoint, TRUE, "sync")
       ELSE pc' = "sync" /\ UNCHANGED store
  /\ UNCHANGED <<sessionVars, job, lastStore, lastEvicted, disk, jobs, faults>>

Prefill ==
  /\ pc = "sync"
  /\ SyncStep
  /\ pc' = IF sync.progress THEN "progress" ELSE "sync"
  /\ UNCHANGED <<job, store, lastStore, lastEvicted, disk, jobs, faults>>

PrefillFails ==
  /\ pc = "sync"
  /\ SyncFail
  /\ Fault("backend")
  /\ EndJob
  /\ UNCHANGED <<store, lastStore, lastEvicted, disk, jobs>>

\* The prefix, or a whole cold prompt, is stored; a canonicalization is done.
PrefillDone ==
  /\ pc = "sync"
  /\ SyncReturn
  /\ \/ /\ job.phase = "prefix"
        /\ CallStore(sync.prompt, TRUE, "full")
        /\ UNCHANGED job
     \/ /\ job.phase = "full"
        /\ IF job.cold = Len(job.prompt)
             THEN CallStore(job.prompt, TRUE, "decode")
             ELSE pc' = "decode" /\ UNCHANGED store
        /\ UNCHANGED job
     \/ /\ job.phase = "canon"
        /\ EndJob
        /\ UNCHANGED store
  /\ UNCHANGED <<lastStore, lastEvicted, disk, jobs, faults>>

-----------------------------------------------------------------------------
(* generate_job(): decoding and the end of the turn *)

\* The head of the loop: at the token limit the turn ends with "length".
Decode ==
  /\ pc = "decode"
  /\ IF Len(job.output) >= MaxTokens \/ Pos >= conf.ctx
       THEN EndJob /\ UNCHANGED store
       ELSE /\ IF ContinuedDue
                 THEN CallStore(checkpoint, TRUE, "sample")
                 ELSE pc' = "sample" /\ UNCHANGED store
            /\ UNCHANGED job
  /\ UNCHANGED <<sessionVars, lastStore, lastEvicted, disk, jobs, faults>>

SampleToken(token) ==
  /\ pc = "sample"
  /\ Eval(token)
  /\ job' = [job EXCEPT !.output = Append(@, token)]
  /\ pc' = "decode"
  /\ UNCHANGED <<store, lastStore, lastEvicted, disk, jobs, faults>>

SampleEos ==
  /\ pc = "sample"
  /\ pc' = "finish"
  /\ UNCHANGED <<sessionVars, job, store, lastStore, lastEvicted, disk, jobs, faults>>

SampleFails ==
  /\ pc = "sample"
  /\ EvalFail
  /\ Fault("backend")
  /\ EndJob
  /\ UNCHANGED <<store, lastStore, lastEvicted, disk, jobs>>

\* The token just decoded completes a stop string: the session holds text the
\* client will not see, and is invalidated.
StopHit ==
  /\ pc = "decode" /\ job.output # <<>>
  /\ ds4_session_invalidate
  /\ pc' = "finish"
  /\ UNCHANGED <<job, store, lastStore, lastEvicted, disk, jobs, faults>>

\* The client is gone or the server is stopping: the turn ends with "error".
Abandon ==
  /\ pc = "decode"
  /\ EndJob
  /\ UNCHANGED <<sessionVars, store, lastStore, lastEvicted, disk, jobs, faults>>

\* canonicalize_thinking_checkpoint(): later prompts show this turn without its
\* reasoning.  If the session follows the prompt at least to its stable part,
\* and must be rewritten behind its end, it is reloaded or rebuilt.
Thinks == EndsIn(job.text, ThinkOpen) /\ ThinkClose \in ToSet(job.output)
StableText == Take(job.text, Len(job.text) - Len(ThinkOpen))
Content == LET close == CHOOSE i \in 1..Len(job.output) :
                          /\ job.output[i] = ThinkClose
                          /\ \A k \in 1..(i - 1) : job.output[k] # ThinkClose
           IN  Text(Drop(job.output, close))
Canonical == Tokenize(StableText \o ThinkClose \o Content \o Eos)

Rewritable == /\ CommonPrefix(Canonical) >= Len(Tokenize(StableText))
              /\ SyncAccepts(Canonical) /\ valid

Finish ==
  /\ pc = "finish"
  /\ IF Thinks /\ Rewritable
       THEN /\ job' = [job EXCEPT !.prompt = Canonical, !.phase = "canon"]
            /\ pc' = "load"
       ELSE EndJob
  /\ UNCHANGED <<sessionVars, store, lastStore, lastEvicted, disk, jobs, faults>>

-----------------------------------------------------------------------------
(* The end of the process, and the next one *)

\* main() after the worker has ended.
Shutdown ==
  /\ pc = "idle"
  /\ IF Pos >= MinTokens
       THEN CallStore(checkpoint, FALSE, "down")
       ELSE pc' = "down" /\ UNCHANGED store
  /\ UNCHANGED <<sessionVars, job, lastStore, lastEvicted, disk, jobs, faults>>

\* What the process held in memory is gone.
Forget ==
  /\ checkpoint' = <<>> /\ valid' = FALSE /\ graph' = Broken /\ sync' = NoSync
  /\ job' = NoJob
  /\ store' = NoStore
  /\ lastStore' = 0 /\ lastEvicted' = <<>>

Crash ==
  /\ pc # "down"
  /\ Fault("crash")
  /\ pc' = "down"
  /\ Forget
  /\ UNCHANGED <<conf, disk, jobs>>

\* Faulty variant: opening the cache does not trim it.
RestartUntrimmed ==
  /\ pc = "down"
  /\ conf' \in Configs
  /\ Forget
  /\ pc' = "idle"
  /\ UNCHANGED <<disk, jobs, faults>>

\* A new process creates a session and opens the cache, which trims it.
Restart ==
  /\ pc = "down"
  /\ conf' \in Configs
  /\ Forget
  /\ pc' = "evict"
  /\ UNCHANGED <<disk, jobs, faults>>

Worker == \/ Store \/ LookupLive \/ LookupElsewhere
          \/ LoadMisses \/ LoadFails \/ LoadHits \/ LoadEvicted
          \/ Plan \/ SyncPrompt \/ Progress \/ Prefill \/ PrefillFails \/ PrefillDone
          \/ Decode \/ SampleEos \/ SampleFails \/ StopHit \/ Abandon \/ Finish
          \/ \E token \in Sampled : SampleToken(token)

Next == \/ Worker
        \/ \E text \in Requests : Request(text)
        \/ Shutdown \/ Crash \/ Restart

Spec == Init /\ [][Next]_vars /\ WF_vars(Worker)
-----------------------------------------------------------------------------
(* Properties *)

Pcs == {"idle", "lookup", "store", "write", "evict", "load", "evicted", "plan",
        "full", "progress", "sync", "decode", "sample", "finish", "down"}

\* The variables have their types.
TypeOK ==
  /\ conf \in Configs
  /\ checkpoint \in Seq(Token)
  /\ valid \in BOOLEAN
  /\ graph \in Seq(Token) \cup {Broken}
  /\ pc \in Pcs
  /\ pc \in {"progress", "sync"} => sync # NoSync
  /\ store.tokens \in Seq(Token) /\ store.next \in Pcs
  /\ lastStore \in Nat
  /\ lastEvicted \in Seq(Token)
  /\ \A f \in disk : /\ f.tokens \in Seq(Token) /\ f.graph \in Seq(Token) \cup {Broken}
                     /\ f.hits \in 0..MaxHits
  /\ job # NoJob => /\ job.prompt \in Seq(Token) /\ job.output \in Seq(Token)
                    /\ job.cached \in Nat /\ job.cold \in Nat

\* Every file holds the backend state of exactly the tokens whose text names
\* it, and a text has one file: also after a crash, a failed load, a failed
\* prefill, and from inside the progress callback.
FilesExact ==
  \A f \in disk : /\ f.graph = f.tokens
                  /\ Len(f.tokens) >= MinTokens
                  /\ \A g \in disk : FileText(f) = FileText(g) => f = g

\* Whatever the prompt's prefix came from (memory, as tokens or as text, a file,
\* a cold prefill cut in two), decoding continues from a valid backend state
\* that stands for the bytes of the request and of the answer so far.
ServedExactly ==
  pc \in {"decode", "sample"} =>
    /\ valid /\ graph = checkpoint
    /\ Text(checkpoint) = job.text \o Text(job.output)

\* "Disk budget": between requests the files fit the budget, unless an unlink
\* failed.  A restart after a crash in the middle of a store trims them again.
BudgetKept == pc = "idle" /\ "unlink" \notin faults => DiskSize <= Budget

\* Before the live session is replaced, or the process ends in the orderly way,
\* a file of its text exists, unless it could not be written, is larger than the
\* budget or had to give way to files worth more ("otherwise a cache hit for an
\* older prefix would silently discard the newer conversation state").
SessionSaved ==
  /\ \/ pc = "load" /\ job.phase # "canon"
     \/ pc = "down" /\ "crash" \notin faults
  /\ valid /\ Pos >= MinTokens /\ faults \cap {"io", "unlink"} = {}
  => \/ FileNamed(Text(checkpoint)) # {}
     \/ FileSize(LiveFile) > Budget
     \/ disk # {} /\ \A f \in disk : WorthNoMore(LiveFile, f)

\* A request ends, and so do the start and the end of the process.
WorkDone == (pc \notin {"idle", "down"}) ~> (pc \in {"idle", "down"})

-----------------------------------------------------------------------------
(* What comments of the code say and the code does not do *)

\* "The live graph is authoritative" (live_text_prefix_prompt): what is
\* reported as cached is in the session.
CachedIsReal == pc = "plan" /\ job.cached > 0 => valid

\* "If the existing file cannot be used by this server, replace it so this
\* context can still populate its own cache" (kv_cache_existing_compatible):
\* a file that is left in place can be loaded.
KeptFilesUsable ==
  [][StoreExists => \A f \in FileNamed(Text(store.tokens)) : Loadable(f)]_vars

\* "Save only at absolute aligned frontiers, not relative to the last
\* cold/evict file" (kv_cache_continued_store_target): a generation that stands
\* at an aligned frontier is stored, unless that frontier was stored just now.
FrontiersStored ==
  [][pc = "decode" /\ pc' = "sample" /\ ContinuedStep > 0 /\ Pos >= MinTokens
       => Pos % ContinuedStep # 0 \/ lastStore = Pos]_vars

\* "A just-written checkpoint does not get deleted immediately just because its
\* persisted hit counter is still 0" (kv_entry_eviction_score): a file is evicted
\* by its own store only if it would be with all counters equal.
FreshFileKept ==
  [][\A f \in disk :
       pc = "evict" /\ f \notin disk' /\ f.tokens = store.tokens =>
         \A g \in disk : Len(f.tokens) * FileSize(g) <= Len(g.tokens) * FileSize(f)]_vars
=============================================================================
