--------------------------- MODULE MCAuthSessions ---------------------------
(* AuthSessions on small sets of requests and accounts. *)
EXTENDS AuthSessions, TLC

\* Requests differ only by the row ids they stand for.
Symmetry == Permutations(Requests)
=============================================================================
