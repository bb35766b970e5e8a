--------------------------- MODULE RequestService ---------------------------
(***************************************************************************)
(* What the server promises its HTTP clients, without threads, locks or    *)
(* condition variables: a request that reaches the inference stage is      *)
(* either refused because the service is closing, or it is served, one at  *)
(* a time and in the order of submission.  A service that has terminated   *)
(* in the orderly way owes nobody an answer.                               *)
(***************************************************************************)
EXTENDS Naturals, Sequences

CONSTANTS Clients,   \* the connections, one request each
          None       \* "nobody is being served"

VARIABLES pending,   \* submitted requests, oldest first
          serving,   \* the request the model is working on, or None
          outcome,   \* [Clients -> {"none", "served", "refused"}]
          mode       \* "open", "closing", "over" (orderly end) or "killed"

vars == <<pending, serving, outcome, mode>>

Init == /\ pending = <<>>
        /\ serving = None
        /\ outcome = [c \in Clients |-> "none"]
        /\ mode = "open"

Submit(c) == /\ mode = "open"
             /\ outcome[c] = "none"
             /\ c # serving
             /\ \A i \in 1..Len(pending) : pending[i] # c
             /\ pending' = Append(pending, c)
             /\ UNCHANGED <<serving, outcome, mode>>

Refuse(c) == /\ mode = "closing"
             /\ outcome[c] = "none"
             /\ c # serving
             /\ \A i \in 1..Len(pending) : pending[i] # c
             /\ outcome' = [outcome EXCEPT ![c] = "refused"]
             /\ UNCHANGED <<pending, serving, mode>>

Start == /\ mode \in {"open", "closing"}
         /\ serving = None
         /\ pending # <<>>
         /\ serving' = Head(pending)
         /\ pending' = Tail(pending)
         /\ UNCHANGED <<outcome, mode>>

Serve == /\ mode \in {"open", "closing"}
         /\ serving # None
         /\ outcome' = [outcome EXCEPT ![serving] = "served"]
         /\ serving' = None
         /\ UNCHANGED <<pending, mode>>

Close == /\ mode = "open"
         /\ mode' = "closing"
         /\ UNCHANGED <<pending, serving, outcome>>

Over == /\ mode = "closing"
        /\ pending = <<>>
        /\ serving = None
        /\ mode' = "over"
        /\ UNCHANGED <<pending, serving, outcome>>

Kill == /\ mode \in {"open", "closing"}
        /\ mode' = "killed"
        /\ UNCHANGED <<pending, serving, outcome>>

Next == \/ \E c \in Clients : Submit(c) \/ Refuse(c)
        \/ Start \/ Serve \/ Close \/ Over \/ Kill

Spec == Init /\ [][Next]_vars
=============================================================================
