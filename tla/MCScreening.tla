----------------------------- MODULE MCScreening -----------------------------
(* Screening on small sets of requests and applications. *)
EXTENDS Screening, TLC

\* Requests differ only by their names, which are also the names of their rows.
Symmetry == Permutations(Screenings)
=============================================================================
