---------------------------- MODULE SessionCalls ----------------------------
(***************************************************************************)
(* A session driven by any caller that follows the calling rules of        *)
(* ds4.h: one call at a time, decoding only on a valid checkpoint, saving  *)
(* from outside a call or from inside the progress callback of a prefill,  *)
(* and invalidating the session after a load that failed.  Payloads        *)
(* survive a restart of the process, which may choose another session      *)
(* configuration.                                                          *)
(***************************************************************************)
EXTENDS Session, FiniteSets

CONSTANTS Prompts,    \* the prompts the caller may sync to
          MaxSaved    \* bound: payloads kept at a time

ASSUME CallsAssumption == Prompts \subseteq Seq(Token) /\ MaxSaved \in Nat

VARIABLE payloads     \* payloads on disk

callVars == <<sessionVars, payloads>>

CallsInit == SessionInit /\ payloads = {}

SaveCall == /\ Observable /\ CanSave
            /\ Cardinality(payloads) < MaxSaved
            /\ payloads' = payloads \cup {Payload}
            /\ UNCHANGED sessionVars

LoadCall(p) == LoadPayload(p) /\ UNCHANGED payloads
LoadCallFails == payloads # {} /\ LoadPayloadFails /\ UNCHANGED payloads

SyncCall(prompt, progress) == SyncBegin(prompt, progress) /\ UNCHANGED payloads
SyncRuns == (SyncStep \/ SyncFail \/ SyncReturn) /\ UNCHANGED payloads
DecodeCall(token) == valid /\ (Eval(token) \/ EvalFail) /\ UNCHANGED payloads
Invalidate == ds4_session_invalidate /\ UNCHANGED payloads

\* The process ends and a new session is created.
RestartCall == /\ conf' \in Configs
               /\ checkpoint' = <<>> /\ valid' = FALSE
               /\ graph' = Broken /\ sync' = NoSync
               /\ UNCHANGED payloads

CallsNext == \/ \E prompt \in Prompts, progress \in BOOLEAN : SyncCall(prompt, progress)
             \/ SyncRuns
             \/ \E token \in Token : DecodeCall(token)
             \/ Invalidate
             \/ SaveCall
             \/ \E p \in payloads : LoadCall(p)
             \/ LoadCallFails
             \/ RestartCall

CallsSpec == CallsInit /\ [][CallsNext]_callVars
             /\ WF_callVars(SyncStep /\ UNCHANGED payloads)
             /\ WF_callVars(SyncReturn /\ UNCHANGED payloads)

-----------------------------------------------------------------------------
(* Properties *)

\* The variables have their types.
CallsType ==
  /\ SessionType
  /\ payloads \subseteq [tokens : TokenSeqs, graph : TokenSeqs \cup {Broken},
                         ctx : Nat, cap : Nat]

\* Every payload on disk holds the backend state of its own tokens.
SavedExact == \A p \in payloads : p.graph = p.tokens

\* A sync that returns 0 leaves exactly the prompt behind, in the checkpoint
\* and in the backend ("bring the live backend state to exactly the supplied
\* token prefix").
SyncDelivers ==
  [][SyncReturn => checkpoint' = sync.prompt /\ graph' = sync.prompt]_callVars

\* A batch never crosses an absolute prefill_cap boundary, whether the prefill
\* is cold or resumed ("resumed chunks are aligned to the same absolute
\* prefill-cap boundaries used by a cold full prompt").
BatchesAligned ==
  [][SyncStep => \/ sync.mode \in {"decode", "whole"}
                 \/ sync'.pos <= (sync.pos \div conf.cap + 1) * conf.cap]_callVars

\* A sync returns: the chunk schedule always makes progress.
SyncTerminates == (sync # NoSync) ~> (sync = NoSync)

\* The inductive invariant of the proofs.
NeverEmpty == \A p \in payloads : p.tokens # <<>>

CallsInv == SessionInv /\ CallsType /\ NeverEmpty /\ SavedExact
=============================================================================
