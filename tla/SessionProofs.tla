--------------------------- MODULE SessionProofs ---------------------------
(***************************************************************************)
(* Proofs about Session for every vocabulary and every session size: each  *)
(* call keeps SessionInv, whoever makes it.  Then, for the caller that     *)
(* SessionCalls describes: a valid checkpoint and every saved payload name *)
(* the tokens their backend state was computed from.                       *)
(***************************************************************************)
EXTENDS SessionCalls, TLAPS

-----------------------------------------------------------------------------
(* Sequences and chunks. *)

LEMMA EmptyCheckpoint == <<>> \in TokenSeqs
BY DEF TokenSeqs

\* A prefix of a token sequence is one, and the whole is its own prefix.
LEMMA TakeFacts ==
  ASSUME NEW s \in TokenSeqs, NEW n \in 0..Len(s)
  PROVE  /\ Take(s, n) \in TokenSeqs
         /\ Len(Take(s, n)) = n
         /\ n = Len(s) => Take(s, n) = s
         /\ n > 0 => Take(s, n) # <<>>
<1>1. Take(s, n) \in TokenSeqs /\ Len(Take(s, n)) = n
  BY DEF Take, TokenSeqs
<1>2. \A i \in 1..n : Take(s, n)[i] = s[i]
  BY DEF Take, TokenSeqs
<1>3. n = Len(s) => Take(s, n) = s
  BY <1>1, <1>2 DEF TokenSeqs
<1>4. QED
  BY <1>1, <1>3

\* Where the session is sized as SessionAssumption says.
LEMMA Sizes ==
  ASSUME SessionType
  PROVE  conf.ctx \in Nat /\ conf.cap \in Nat \ {0} /\ conf.raw \in Nat \ {0}
BY SessionAssumption DEF SessionType

\* Division with remainder, and the boundary behind a position.
LEMMA Remainder ==
  ASSUME NEW n \in Nat, NEW d \in Nat \ {0}
  PROVE  /\ n % d \in 0..(d - 1)
         /\ n = d * (n \div d) + (n % d)
         /\ n + (d - (n % d)) = (n \div d + 1) * d
<1>1. n % d \in 0..(d - 1) /\ n \div d \in Nat /\ n = d * (n \div d) + (n % d)
  OBVIOUS
<1>2. (n \div d + 1) * d = d * (n \div d) + d
  BY <1>1
<1>3. QED
  BY <1>1, <1>2

LEMMA Multiple ==
  ASSUME NEW d \in Nat \ {0}, NEW k \in Nat
  PROVE  (k * d) % d = 0
OBVIOUS

LEMMA NextBoundary ==
  ASSUME NEW n \in Nat, NEW d \in Nat \ {0}, n % d = 0
  PROVE  (n + d) % d = 0
<1>1. n \div d + 1 \in Nat /\ n + d = (n \div d + 1) * d
  BY Remainder
<1>2. QED
  BY <1>1, Multiple

\* A batch has at least one row and stays inside the prompt.
LEMMA StepLenFacts ==
  ASSUME SessionType, SyncProgress, sync # NoSync, sync.pos < Len(sync.prompt)
  PROVE  /\ StepLen \in Nat \ {0}
         /\ sync.pos + StepLen <= Len(sync.prompt)
<1>1. /\ sync.pos \in Nat /\ sync.prompt \in TokenSeqs /\ Len(sync.prompt) \in Nat
      /\ sync.mode \in {"resume", "decode", "cold", "whole"}
  BY DEF SessionType, TokenSeqs, SyncCalls
<1>2. sync.pos % conf.cap \in 0..(conf.cap - 1)
  BY <1>1, Sizes, Remainder
<1>3. CASE sync.mode = "decode"
  BY <1>1, <1>3 DEF StepLen
<1>4. CASE sync.mode = "whole"
  <2>1. sync.pos = 0
    BY <1>1, <1>4 DEF SyncProgress
  <2>2. QED
    BY <1>1, <1>4, <2>1 DEF StepLen
<1>5. CASE sync.mode \in {"resume", "cold"}
  <2>1. /\ ChunkLen \in Nat \ {0}
        /\ sync.pos + ChunkLen <= Len(sync.prompt)
    BY <1>1, <1>2, Sizes DEF ChunkLen, Min2
  <2>2. StepLen = ChunkLen
    BY <1>5 DEF StepLen
  <2>3. QED
    BY <2>1, <2>2
<1>6. QED
  BY <1>1, <1>3, <1>4, <1>5

-----------------------------------------------------------------------------
(* ds4_session_sync(). *)

\* What a session between two calls knows about its checkpoint.
LEMMA Idle ==
  ASSUME SessionInv, sync = NoSync, valid
  PROVE  graph = checkpoint /\ checkpoint # <<>> /\ Len(checkpoint) \in Nat \ {0}
<1>1. graph = checkpoint /\ checkpoint # <<>> /\ checkpoint \in TokenSeqs
  BY DEF SessionInv, GraphExact, Observable, SessionType
<1>2. QED
  BY <1>1 DEF TokenSeqs

LEMMA SyncBegin_SessionInv ==
  ASSUME SessionInv, NEW prompt \in TokenSeqs, NEW progress \in BOOLEAN, SyncBegin(prompt, progress)
  PROVE  SessionInv'
<1> DEFINE start == IF Extends(prompt) THEN Pos ELSE 0
           mode == SyncMode(prompt)
<1>1. /\ sync = NoSync /\ Len(prompt) \in Nat \ {0} /\ prompt \in TokenSeqs
      /\ sync' = [prompt |-> prompt, mode |-> mode, start |-> start, pos |-> start,
                  progress |-> progress /\ mode \in {"resume", "cold"}]
      /\ UNCHANGED <<conf, checkpoint, valid, graph>>
  BY DEF SyncBegin, SyncAccepts, TokenSeqs
<1> HIDE DEF start, mode
<1>2. /\ sync'.prompt = prompt /\ sync'.start = start /\ sync'.pos = start
       /\ sync'.mode = mode /\ (sync'.progress => mode \in {"resume", "cold"})
  BY <1>1
<1>3. checkpoint \in TokenSeqs /\ Pos \in Nat
  BY DEF SessionInv, SessionType, TokenSeqs, Pos
<1>4. CASE Extends(prompt)
  <2>1. /\ valid /\ Pos <= Len(prompt) /\ Take(prompt, Pos) = checkpoint
        /\ graph = checkpoint /\ Pos \in Nat \ {0}
        /\ start = Pos /\ mode \in {"resume", "decode"}
    BY <1>1, <1>4, Idle DEF Extends, StartsWith, SyncMode, Pos, start, mode
  <2>2. SessionType'
    BY <1>1, <1>3, <2>1 DEF SessionInv, SessionType, SyncCalls, TokenSeqs
  <2>3. SyncProgress'
    BY <1>1, <1>2, <2>1, Sizes DEF SessionInv, SyncProgress
  <2>4. QED
    BY <1>1, <2>1, <2>2, <2>3 DEF SessionInv, GraphExact
<1>5. CASE ~Extends(prompt)
  <2>1. start = 0 /\ mode \in {"cold", "whole"}
    BY <1>5 DEF SyncMode, start, mode
  <2>2. SessionType'
    BY <1>1, <1>3, <2>1 DEF SessionInv, SessionType, SyncCalls, TokenSeqs
  <2>3. SyncProgress'
    BY <1>1, <1>2, <2>1, Sizes DEF SessionInv, SyncProgress
  <2>4. QED
    BY <1>1, <2>2, <2>3 DEF SessionInv, GraphExact, Observable
<1>6. QED
  BY <1>4, <1>5

LEMMA SyncStep_SessionInv ==
  ASSUME SessionInv, SyncStep
  PROVE  SessionInv'
<1> DEFINE pos == sync.pos + StepLen
           done == Take(sync.prompt, pos)
<1>1. /\ sync # NoSync /\ sync.pos \in Nat /\ sync.prompt \in TokenSeqs
      /\ sync \in SyncCalls
      /\ sync.pos < Len(sync.prompt) /\ Len(sync.prompt) \in Nat
  BY DEF SessionInv, SessionType, SyncStep, TokenSeqs, SyncCalls
<1>2. pos \in 1..Len(sync.prompt) /\ StepLen \in Nat \ {0}
  BY <1>1, StepLenFacts DEF SessionInv
<1>3. done \in TokenSeqs /\ done # <<>>
  BY <1>1, <1>2, TakeFacts
<1>4. graph' = done
  BY <1>1 DEF SyncStep, SessionInv, SyncProgress
<1>5. /\ sync' = [sync EXCEPT !.pos = pos]
      /\ sync'.pos = pos /\ sync'.prompt = sync.prompt /\ sync'.start = sync.start
      /\ sync'.mode = sync.mode /\ sync'.progress = sync.progress
      /\ conf' = conf /\ sync' \in SyncCalls /\ sync' # NoSync
  BY <1>1, <1>2, SessionAssumption DEF SyncStep, SyncCalls
<1>6. /\ checkpoint' = IF sync.mode = "decode" \/ sync.progress THEN done ELSE checkpoint
      /\ valid' = IF sync.progress THEN TRUE ELSE valid
  BY DEF SyncStep
<1>7. SessionType'
  BY <1>1, <1>2, <1>3, <1>4, <1>5, <1>6 DEF SessionInv, SessionType
<1>8. SyncProgress'
  <2>1. sync.mode = "whole" => pos = Len(sync.prompt)
    BY <1>1, <1>2 DEF StepLen
  <2> HIDE DEF pos, done
  <2>2. sync'.mode = "decode" \/ (sync'.progress /\ sync'.pos > 0)
          => checkpoint' = Take(sync'.prompt, sync'.pos)
    BY <1>5, <1>6 DEF done
  <2>3. sync'.pos > 0 => graph' = Take(sync'.prompt, sync'.pos)
    BY <1>4, <1>5 DEF done
  <2>4. sync'.mode \in {"resume", "decode"} => valid'
    BY <1>1, <1>5, <1>6 DEF SessionInv, SyncProgress
  <2>5. sync.start <= sync.pos /\ sync.start <= pos /\ pos <= Len(sync.prompt)
    BY <1>1, <1>2 DEF SessionInv, SyncProgress, SyncCalls, pos
  <2>6. sync.mode = "cold" => pos % conf.cap = 0 \/ pos = Len(sync.prompt)
    <3>1. HAVE sync.mode = "cold"
    <3>2. sync.start = 0 /\ sync.pos % conf.cap = 0
      BY <1>1, <3>1 DEF SessionInv, SyncProgress, SyncCalls
    <3>3. StepLen = Min2(Len(sync.prompt) - sync.pos, conf.cap)
      BY <3>1, <3>2 DEF StepLen, ChunkLen
    <3>4. (sync.pos + conf.cap) % conf.cap = 0
      BY <1>1, <3>2, Sizes, NextBoundary DEF SessionInv
    <3>5. QED
      BY <1>1, <3>3, <3>4, Sizes DEF SessionInv, Min2, pos
  <2>7. QED
    BY <1>1, <1>5, <2>1, <2>2, <2>3, <2>4, <2>5, <2>6 DEF SessionInv, SyncProgress
<1>9. valid' => checkpoint' # <<>>
  BY <1>3, <1>5, <1>6 DEF SessionInv, SyncProgress
<1>10. GraphExact'
  BY <1>4, <1>5, <1>6 DEF GraphExact, Observable
<1>11. QED
  BY <1>5, <1>7, <1>8, <1>9, <1>10 DEF SessionInv

LEMMA SyncFail_SessionInv ==
  ASSUME SessionInv, SyncFail
  PROVE  SessionInv'
BY DEF SessionInv, SessionType, SyncProgress, GraphExact, SyncFail

LEMMA SyncReturn_Graph ==
  ASSUME SessionInv, SyncReturn
  PROVE  graph = sync.prompt /\ sync.prompt \in TokenSeqs /\ sync.prompt # <<>>
<1>1. /\ sync.prompt \in TokenSeqs /\ Len(sync.prompt) \in Nat \ {0}
      /\ graph = Take(sync.prompt, Len(sync.prompt))
  BY DEF SessionInv, SessionType, SyncProgress, SyncReturn, TokenSeqs, SyncCalls
<1>2. QED
  BY <1>1, TakeFacts DEF TokenSeqs

LEMMA SyncReturn_SessionInv ==
  ASSUME SessionInv, SyncReturn
  PROVE  SessionInv'
<1>1. /\ graph' = checkpoint' /\ checkpoint' \in TokenSeqs /\ checkpoint' # <<>>
      /\ sync' = NoSync /\ valid' = TRUE /\ graph' = graph /\ conf' = conf
  BY SyncReturn_Graph DEF SyncReturn
<1>2. QED
  BY <1>1 DEF SessionInv, SessionType, SyncProgress, GraphExact

-----------------------------------------------------------------------------
(* The other calls. *)

LEMMA Eval_SessionInv ==
  ASSUME SessionInv, valid, NEW token \in Token, Eval(token)
  PROVE  SessionInv'
<1>1. sync = NoSync /\ graph = checkpoint /\ checkpoint \in TokenSeqs
  BY Idle DEF Eval, SessionInv, SessionType
<1>2. /\ checkpoint' = Append(checkpoint, token) /\ graph' = checkpoint'
      /\ UNCHANGED <<conf, valid, sync>>
  BY <1>1 DEF Eval
<1>3. checkpoint' \in TokenSeqs /\ checkpoint' # <<>>
  BY <1>1, <1>2 DEF TokenSeqs
<1>4. QED
  BY <1>1, <1>2, <1>3 DEF SessionInv, SessionType, SyncProgress, GraphExact

LEMMA EvalFail_SessionInv ==
  ASSUME SessionInv, EvalFail
  PROVE  SessionInv'
BY DEF EvalFail, SessionInv, SessionType, SyncProgress, GraphExact

LEMMA Invalidate_SessionInv ==
  ASSUME SessionInv, ds4_session_invalidate
  PROVE  SessionInv'
BY EmptyCheckpoint DEF ds4_session_invalidate, SessionInv, SessionType, SyncProgress, GraphExact

\* A payload whose state is that of its tokens is safe to load.
LEMMA LoadPayload_SessionInv ==
  ASSUME SessionInv, NEW p, LoadPayload(p),
         p.tokens \in TokenSeqs, p.graph = p.tokens, p.tokens # <<>>
  PROVE  SessionInv'
BY DEF LoadPayload, SessionInv, SessionType, SyncProgress, GraphExact

LEMMA LoadPayloadFails_SessionInv ==
  ASSUME SessionInv, LoadPayloadFails
  PROVE  SessionInv'
BY EmptyCheckpoint DEF LoadPayloadFails, SessionInv, SessionType, SyncProgress, GraphExact

\* A new session.
LEMMA New_SessionInv ==
  ASSUME conf' \in Configs, checkpoint' = <<>>, valid' = FALSE, graph' = Broken, sync' = NoSync
  PROVE  SessionInv'
BY EmptyCheckpoint DEF SessionInv, SessionType, SyncProgress, GraphExact

LEMMA Init_SessionInv ==
  ASSUME SessionInit
  PROVE  SessionInv
BY EmptyCheckpoint DEF SessionInit, SessionInv, SessionType, SyncProgress, GraphExact

LEMMA Unchanged_SessionInv ==
  ASSUME SessionInv, UNCHANGED sessionVars
  PROVE  SessionInv'
BY DEF sessionVars, SessionInv, SessionType, SyncProgress, GraphExact, Observable

-----------------------------------------------------------------------------
(* The calls of SessionCalls. *)

\* A step of the session that leaves the saved payloads alone.
LEMMA SavedAlone ==
  ASSUME CallsInv, SessionInv', UNCHANGED payloads
  PROVE  CallsInv'
BY DEF CallsInv, SessionInv, CallsType, NeverEmpty, SavedExact

LEMMA SyncCall_CallsInv ==
  ASSUME CallsInv, NEW prompt \in Prompts, NEW progress \in BOOLEAN, SyncCall(prompt, progress)
  PROVE  CallsInv'
<1>1. prompt \in TokenSeqs
  BY CallsAssumption DEF TokenSeqs
<1>2. SessionInv'
  BY <1>1, SyncBegin_SessionInv DEF SyncCall, CallsInv
<1> QED
  BY <1>2, SavedAlone DEF SyncCall

LEMMA SyncRuns_CallsInv ==
  ASSUME CallsInv, SyncRuns
  PROVE  CallsInv'
<1>1. SessionInv'
  BY SyncStep_SessionInv, SyncFail_SessionInv, SyncReturn_SessionInv DEF SyncRuns, CallsInv
<1> QED
  BY <1>1, SavedAlone DEF SyncRuns

LEMMA DecodeCall_CallsInv ==
  ASSUME CallsInv, NEW token \in Token, DecodeCall(token)
  PROVE  CallsInv'
<1>1. SessionInv'
  BY Eval_SessionInv, EvalFail_SessionInv DEF DecodeCall, CallsInv
<1> QED
  BY <1>1, SavedAlone DEF DecodeCall

LEMMA Invalidate_CallsInv ==
  ASSUME CallsInv, Invalidate
  PROVE  CallsInv'
<1>1. SessionInv'
  BY Invalidate_SessionInv DEF Invalidate, CallsInv
<1> QED
  BY <1>1, SavedAlone DEF Invalidate

LEMMA SaveCall_CallsInv ==
  ASSUME CallsInv, SaveCall
  PROVE  CallsInv'
<1>1. /\ payloads' = payloads \cup {Payload} /\ UNCHANGED sessionVars
      /\ valid /\ graph = checkpoint /\ checkpoint # <<>>
  BY DEF SaveCall, CanSave, CallsInv, SessionInv, GraphExact
<1>2. Payload \in [tokens : TokenSeqs, graph : TokenSeqs \cup {Broken}, ctx : Nat, cap : Nat]
  BY Sizes DEF CallsInv, SessionInv, SessionType, Payload
<1>3. Payload.graph = Payload.tokens /\ Payload.tokens # <<>>
  BY <1>1 DEF Payload
<1>4. SessionInv'
  BY <1>1, Unchanged_SessionInv DEF CallsInv
<1> QED
  BY <1>1, <1>2, <1>3, <1>4 DEF CallsInv, SessionInv, CallsType, NeverEmpty, SavedExact

LEMMA LoadCall_CallsInv ==
  ASSUME CallsInv, NEW p \in payloads, LoadCall(p)
  PROVE  CallsInv'
<1>1. p.tokens \in TokenSeqs /\ p.graph = p.tokens /\ p.tokens # <<>>
  BY DEF CallsInv, CallsType, NeverEmpty, SavedExact
<1>2. SessionInv'
  BY <1>1, LoadPayload_SessionInv DEF LoadCall, CallsInv
<1> QED
  BY <1>2, SavedAlone DEF LoadCall

LEMMA LoadCallFails_CallsInv ==
  ASSUME CallsInv, LoadCallFails
  PROVE  CallsInv'
<1>1. SessionInv'
  BY LoadPayloadFails_SessionInv DEF LoadCallFails, CallsInv
<1> QED
  BY <1>1, SavedAlone DEF LoadCallFails

LEMMA RestartCall_CallsInv ==
  ASSUME CallsInv, RestartCall
  PROVE  CallsInv'
<1>1. SessionInv'
  BY New_SessionInv DEF RestartCall
<1> QED
  BY <1>1, SavedAlone DEF RestartCall

-----------------------------------------------------------------------------
(* The invariant. *)

LEMMA CallsInit_CallsInv == CallsInit => CallsInv
BY Init_SessionInv DEF CallsInit, CallsInv, SessionInv, CallsType, NeverEmpty, SavedExact

LEMMA CallsNext_CallsInv == CallsInv /\ [CallsNext]_callVars => CallsInv'
<1> SUFFICES ASSUME CallsInv, [CallsNext]_callVars PROVE CallsInv'
  OBVIOUS
<1>1. ASSUME NEW prompt \in Prompts, NEW progress \in BOOLEAN, SyncCall(prompt, progress)
      PROVE  CallsInv'
  BY <1>1, SyncCall_CallsInv
<1>2. CASE SyncRuns
  BY <1>2, SyncRuns_CallsInv
<1>3. ASSUME NEW token \in Token, DecodeCall(token)
      PROVE  CallsInv'
  BY <1>3, DecodeCall_CallsInv
<1>4. CASE Invalidate
  BY <1>4, Invalidate_CallsInv
<1>5. CASE SaveCall
  BY <1>5, SaveCall_CallsInv
<1>6. ASSUME NEW p \in payloads, LoadCall(p)
      PROVE  CallsInv'
  BY <1>6, LoadCall_CallsInv
<1>7. CASE LoadCallFails
  BY <1>7, LoadCallFails_CallsInv
<1>8. CASE RestartCall
  BY <1>8, RestartCall_CallsInv
<1>9. CASE UNCHANGED callVars
  <2>1. SessionInv'
    BY <1>9, Unchanged_SessionInv DEF callVars, CallsInv
  <2> QED
    BY <1>9, <2>1, SavedAlone DEF callVars
<1>10. QED
  BY <1>1, <1>2, <1>3, <1>4, <1>5, <1>6, <1>7, <1>8, <1>9 DEF CallsNext

\* The inductive invariant holds of every sequence of session calls, with
\* failing batches, failing loads and restarts.
THEOREM CallsInvAlways == CallsSpec => []CallsInv
BY CallsInit_CallsInv, CallsNext_CallsInv, PTL DEF CallsSpec

\* The variables of ds4_session and the payloads keep their types.
THEOREM CallsTypeCorrect == CallsSpec => []CallsType
BY CallsInvAlways, PTL DEF CallsInv

\* checkpoint_valid means that the backend state was computed from the tokens
\* of the checkpoint, wherever a caller can look.
THEOREM CheckpointExact == CallsSpec => []GraphExact
BY CallsInvAlways, PTL DEF CallsInv, SessionInv

\* What ds4_session_save_payload() writes is the state of the tokens it names.
THEOREM PayloadsExact == CallsSpec => []SavedExact
BY CallsInvAlways, PTL DEF CallsInv

\* ds4_session_sync() returns 0 only with the prompt in place, in the
\* checkpoint and in the backend.
THEOREM SyncCorrect == CallsSpec => SyncDelivers
<1>1. CallsInv /\ [CallsNext]_callVars =>
        [SyncReturn => checkpoint' = sync.prompt /\ graph' = sync.prompt]_callVars
  BY SyncReturn_Graph DEF SyncReturn, CallsInv
<1>2. QED
  BY <1>1, CallsInvAlways, PTL DEF CallsSpec, SyncDelivers

\* No batch of a chunked prefill crosses an absolute prefill_cap boundary.
THEOREM BatchesStayAligned == CallsSpec => BatchesAligned
<1>1. ASSUME CallsInv, SyncStep
      PROVE  \/ sync.mode \in {"decode", "whole"}
             \/ sync'.pos <= (sync.pos \div conf.cap + 1) * conf.cap
  <2>1. /\ sync \in SyncCalls /\ sync # NoSync /\ sync.pos \in Nat
        /\ Len(sync.prompt) \in Nat /\ sync.pos < Len(sync.prompt)
        /\ sync'.pos = sync.pos + StepLen
    BY <1>1 DEF CallsInv, SessionInv, SessionType, SyncStep, SyncCalls
  <2>2. CASE sync.mode \in {"resume", "cold"}
    <3>1. StepLen = ChunkLen
      BY <2>2 DEF StepLen
    <3>2. /\ sync.pos % conf.cap \in 0..(conf.cap - 1)
          /\ sync.pos + (conf.cap - (sync.pos % conf.cap)) = (sync.pos \div conf.cap + 1) * conf.cap
      BY <1>1, <2>1, Sizes, Remainder DEF CallsInv, SessionInv
    <3>3. sync.start = 0 => sync.pos % conf.cap = 0
      BY <1>1, <2>1, <2>2 DEF CallsInv, SessionInv, SyncProgress
    <3>4. ChunkLen <= conf.cap - (sync.pos % conf.cap)
      <4> DEFINE past == sync.pos % conf.cap
                 left == Len(sync.prompt) - sync.pos
      <4>1. /\ past \in 0..(conf.cap - 1) /\ left \in Int
            /\ conf.cap \in Nat \ {0} /\ conf.raw \in Nat \ {0}
        BY <1>1, <2>1, <3>2, Sizes DEF CallsInv, SessionInv
      <4>2. ChunkLen = IF sync.start # 0
                         THEN Min2(left, Min2(Min2(conf.cap, conf.raw), conf.cap - past))
                         ELSE Min2(left, conf.cap)
        BY DEF ChunkLen
      <4> HIDE DEF past, left
      <4>3. CASE sync.start # 0
        BY <4>1, <4>2, <4>3 DEF Min2, past
      <4>4. CASE sync.start = 0
        BY <3>3, <4>1, <4>2, <4>4 DEF Min2, past
      <4>5. QED
        BY <4>3, <4>4
    <3>5. ChunkLen \in Nat
      BY <1>1, <2>1, <3>1, StepLenFacts DEF CallsInv, SessionInv
    <3>6. QED
      BY <1>1, <2>1, <3>1, <3>2, <3>4, <3>5, Sizes DEF CallsInv, SessionInv
  <2>3. QED
    BY <2>1, <2>2 DEF SyncCalls
<1>2. CallsInv /\ [CallsNext]_callVars =>
        [SyncStep => \/ sync.mode \in {"decode", "whole"}
                     \/ sync'.pos <= (sync.pos \div conf.cap + 1) * conf.cap]_callVars
  BY <1>1
<1>3. QED
  BY <1>2, CallsInvAlways, PTL DEF CallsSpec, BatchesAligned
=============================================================================
