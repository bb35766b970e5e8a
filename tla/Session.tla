------------------------------ MODULE Session ------------------------------
(***************************************************************************)
(* One ds4_session on a GPU backend (core/ds4_session.inc): the token      *)
(* checkpoint the rest of the program reasons about, and the backend state *)
(* behind it.  The backend state (raw and compressed KV rows, compressor   *)
(* frontiers, logits) is abstracted to the token sequence it was computed  *)
(* from; after a failed command or a broken payload it is Broken.          *)
(*                                                                         *)
(* ds4_session_sync() is a call of several steps: a batched prefill runs   *)
(* in chunks, reports each chunk to the caller's progress callback, and    *)
(* may fail at each.  Everything else is one action.                       *)
(*                                                                         *)
(* A "faulty variant" is no part of the specification: it is the           *)
(* definition below it with one plausible bug, kept to show that a         *)
(* property which holds of the code would notice the bug.                  *)
(***************************************************************************)
EXTENDS Integers, Sequences

CONSTANTS
  Token,       \* the vocabulary
  Configs,     \* the sizes a session may be created with: records of
               \*   ctx  (ctx_size),
               \*   cap  (prefill_cap, the rows of one prefill batch) and
               \*   raw  (raw_cap, the rows of the raw sliding-window cache)
  ResumeMin,   \* shortest suffix that is prefilled rather than decoded
  Broken,      \* backend state that belongs to no token sequence
  NoSync       \* no ds4_session_sync() in progress

\* ds4_session_sync() in progress: the prompt, where it started and how far it
\* is, whether the caller watches, and how it evaluates.
SyncCalls == [prompt : Seq(Token), start : Nat, pos : Nat, progress : BOOLEAN,
              mode : {"resume", "decode", "cold", "whole"}]

ASSUME SessionAssumption ==
  /\ Configs \subseteq [ctx : Nat, cap : Nat \ {0}, raw : Nat \ {0}]
  /\ ResumeMin \in Nat
  /\ NoSync \notin SyncCalls

VARIABLES
  conf,        \* the configuration of this session
  checkpoint,  \* ds4_session.checkpoint
  valid,       \* ds4_session.checkpoint_valid
  graph,       \* the tokens the backend state stands for, or Broken
  sync         \* the ds4_session_sync() in progress, or NoSync

sessionVars == <<conf, checkpoint, valid, graph, sync>>

Min2(a, b) == IF a < b THEN a ELSE b
Take(s, n) == SubSeq(s, 1, n)
StartsWith(s, p) == Len(p) <= Len(s) /\ Take(s, Len(p)) = p

\* Longest common prefix of two token sequences.
CommonLen(s, t) ==
  CHOOSE n \in 0..Min2(Len(s), Len(t)) :
    /\ Take(s, n) = Take(t, n)
    /\ n < Min2(Len(s), Len(t)) => s[n + 1] # t[n + 1]

\* ds4_session_common_prefix() and ds4_session_pos(): the first looks at
\* checkpoint_valid, the second does not.
CommonPrefix(prompt) == IF valid THEN CommonLen(checkpoint, prompt) ELSE 0
Pos == Len(checkpoint)

SessionInit == /\ conf \in Configs
               /\ checkpoint = <<>>
               /\ valid = FALSE
               /\ graph = Broken
               /\ sync = NoSync

-----------------------------------------------------------------------------
(* ds4_session_sync(prompt), with or without a progress callback *)

SyncAccepts(prompt) == Len(prompt) \in 1..(conf.ctx - 1)

\* Faulty variant: a checkpoint that is no longer valid is extended.
ExtendsStale(prompt) == StartsWith(prompt, checkpoint)

Extends(prompt) == valid /\ StartsWith(prompt, checkpoint)

\* A matching prefix is extended by batched prefill or by single-token
\* decode, anything else starts again from token zero; a cold prompt that fits
\* one batch is prefilled without reporting progress.
SyncMode(prompt) ==
  LET suffix == Len(prompt) - Pos
  IN  IF Extends(prompt)
        THEN IF suffix > 0 /\ suffix >= ResumeMin THEN "resume" ELSE "decode"
        ELSE IF conf.cap < Len(prompt) THEN "cold" ELSE "whole"

SyncBegin(prompt, progress) ==
  /\ sync = NoSync
  /\ SyncAccepts(prompt)
  /\ LET mode  == SyncMode(prompt)
         start == IF Extends(prompt) THEN Pos ELSE 0
     IN  sync' = [prompt |-> prompt, mode |-> mode, start |-> start,
                  pos |-> start,
                  progress |-> progress /\ mode \in {"resume", "cold"}]
  /\ UNCHANGED <<conf, checkpoint, valid, graph>>

\* Faulty variants: no realignment, and a full batch cut to nothing where the
\* position is already aligned.
ChunkLenUnaligned ==
  Min2(Len(sync.prompt) - sync.pos,
       IF sync.start # 0 THEN Min2(conf.cap, conf.raw) ELSE conf.cap)
ChunkLenStalls ==
  LET cap == IF sync.start # 0 THEN Min2(conf.cap, conf.raw) ELSE conf.cap
      toBoundary == (conf.cap - (sync.pos % conf.cap)) % conf.cap
  IN  Min2(Len(sync.prompt) - sync.pos,
           IF sync.start # 0 THEN Min2(cap, toBoundary) ELSE cap)

\* Rows of the next batch: a resumed prefill is realigned to the absolute
\* prefill_cap boundaries of a cold one and may not exceed the raw ring.
ChunkLen ==
  LET cap   == IF sync.start # 0 THEN Min2(conf.cap, conf.raw) ELSE conf.cap
      local == IF sync.start # 0
                 THEN Min2(cap, conf.cap - (sync.pos % conf.cap))
                 ELSE cap
  IN  Min2(Len(sync.prompt) - sync.pos, local)

StepLen == CASE sync.mode = "decode" -> 1
             [] sync.mode = "whole"  -> Len(sync.prompt)
             [] OTHER                -> ChunkLen

\* One batch, or one decoded token.  The backend state now stands for the
\* prompt up to the new position; single-token decode and the progress note
\* move the checkpoint along.
SyncStep ==
  /\ sync # NoSync /\ sync.pos < Len(sync.prompt)
  /\ LET pos  == sync.pos + StepLen
         done == Take(sync.prompt, pos)
     IN  /\ graph' = IF sync.pos = 0 \/ graph = Take(sync.prompt, sync.pos)
                       THEN done ELSE Broken
         /\ sync' = [sync EXCEPT !.pos = pos]
         /\ IF sync.mode = "decode" \/ sync.progress
              THEN checkpoint' = done ELSE UNCHANGED checkpoint
         /\ IF sync.progress THEN valid' = TRUE ELSE UNCHANGED valid
  /\ UNCHANGED conf

\* Faulty variant: the checkpoint stays valid.
SyncFailKeepsValid ==
  /\ sync # NoSync
  /\ sync.pos < Len(sync.prompt) \/ sync.mode \in {"resume", "cold"}
  /\ graph' = Broken
  /\ sync' = NoSync
  /\ UNCHANGED <<conf, checkpoint, valid>>

\* A backend command fails, the output head behind the last chunk included: the
\* checkpoint is no longer valid, and its tokens stay where they are.
SyncFail ==
  /\ sync # NoSync
  /\ sync.pos < Len(sync.prompt) \/ sync.mode \in {"resume", "cold"}
  /\ valid' = FALSE
  /\ graph' = Broken
  /\ sync' = NoSync
  /\ UNCHANGED <<conf, checkpoint>>

\* The call returns 0.
SyncReturn ==
  /\ sync # NoSync /\ sync.pos = Len(sync.prompt)
  /\ checkpoint' = sync.prompt
  /\ valid' = TRUE
  /\ sync' = NoSync
  /\ UNCHANGED <<conf, graph>>

-----------------------------------------------------------------------------
(* The other calls *)

\* ds4_session_eval(): one decoded token.
Eval(token) ==
  /\ sync = NoSync /\ Pos < conf.ctx
  /\ checkpoint' = Append(checkpoint, token)
  /\ graph' = IF graph = checkpoint THEN Append(graph, token) ELSE Broken
  /\ UNCHANGED <<conf, valid, sync>>

EvalFail ==
  /\ sync = NoSync
  /\ valid' = FALSE
  /\ graph' = Broken
  /\ UNCHANGED <<conf, checkpoint, sync>>

ds4_session_invalidate ==
  /\ sync = NoSync
  /\ valid' = FALSE
  /\ checkpoint' = <<>>
  /\ UNCHANGED <<conf, graph, sync>>

\* What ds4_session_save_payload() writes; ds4_session_payload_bytes() is 0
\* unless the checkpoint is valid.
Payload == [tokens |-> checkpoint, graph |-> graph,
            ctx |-> conf.ctx, cap |-> conf.cap]
CanSave == valid

\* ds4_session_load_payload() accepts a payload that fits the context and was
\* written with the same batch size.
Loadable(p) == /\ p.ctx <= conf.ctx
               /\ Len(p.tokens) < conf.ctx
               /\ p.cap = conf.cap

LoadPayload(p) ==
  /\ sync = NoSync
  /\ Loadable(p)
  /\ checkpoint' = p.tokens
  /\ graph' = p.graph
  /\ valid' = TRUE
  /\ UNCHANGED <<conf, sync>>

\* Faulty variant: the caller does not invalidate the session.
LoadPayloadFailsSilently ==
  /\ sync = NoSync
  /\ graph' = Broken
  /\ UNCHANGED <<conf, checkpoint, valid, sync>>

\* The payload is refused or cannot be read to its end, when tensors may have
\* been overwritten; every caller then invalidates the session.
LoadPayloadFails ==
  /\ sync = NoSync
  /\ checkpoint' = <<>>
  /\ valid' = FALSE
  /\ graph' = Broken
  /\ UNCHANGED <<conf, sync>>

-----------------------------------------------------------------------------
(* What every caller may rely on *)

TokenSeqs == Seq(Token)

SessionType ==
  /\ conf \in Configs
  /\ checkpoint \in TokenSeqs
  /\ valid \in BOOLEAN
  /\ graph \in TokenSeqs \cup {Broken}
  /\ sync \in SyncCalls \cup {NoSync}

\* Where the caller may look at the session: between calls, and in the
\* progress callback, which runs before the first chunk and after each.
Observable == sync # NoSync => sync.progress

\* Wherever the caller can look, a valid checkpoint names exactly the tokens
\* the backend state was computed from: after a failed batch, a failed load,
\* in the middle of a chunked prefill and after a restart alike.
GraphExact == Observable /\ valid => graph = checkpoint

\* What a call in progress has reached.
SyncProgress ==
  sync # NoSync =>
    /\ sync.start <= sync.pos /\ sync.pos <= Len(sync.prompt)
    /\ sync.mode \in {"cold", "whole"} => sync.start = 0
    /\ sync.mode = "cold" => (sync.pos % conf.cap) = 0 \/ sync.pos = Len(sync.prompt)
    /\ sync.mode \in {"resume", "decode"} => valid
    /\ sync.mode = "resume" => sync.start > 0
    /\ sync.pos > 0 => graph = Take(sync.prompt, sync.pos)
    /\ sync.mode = "whole" => sync.pos \in {0, Len(sync.prompt)}
    /\ sync.progress => sync.mode \in {"resume", "cold"}
    /\ sync.mode = "decode" \/ (sync.progress /\ sync.pos > 0) =>
         checkpoint = Take(sync.prompt, sync.pos)
    /\ Len(sync.prompt) > 0

\* The inductive invariant of a session whose caller follows the rules.
SessionInv ==
  /\ SessionType
  /\ SyncProgress
  /\ valid => checkpoint # <<>>
  /\ GraphExact
=============================================================================
