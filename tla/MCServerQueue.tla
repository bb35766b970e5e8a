--------------------------- MODULE MCServerQueue ---------------------------
(* Small instances of ServerQueue for TLC. *)
EXTENDS ServerQueue, TLC

\* The connections are interchangeable (used by the safety run only).
ClientSymmetry == Permutations(Clients)
=============================================================================
