--------------------------- MODULE MCSessionCalls ---------------------------
(* Small instances of SessionCalls for TLC. *)
EXTENDS SessionCalls

\* One long prompt with its prefixes, and one that leaves it after a token.
Long == <<1, 1, 2, 1>>
MCPrompts == {Take(Long, n) : n \in 1..4} \cup {<<1, 2>>}

\* Sessions whose raw ring is larger and smaller than the batch.
MCConfigs == {[ctx |-> 5, cap |-> 2, raw |-> 5], [ctx |-> 5, cap |-> 3, raw |-> 2]}
=============================================================================
