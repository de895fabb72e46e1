----------------------------- MODULE MCMigrations -----------------------------
(* Migrations with two people and two organizations. *)
EXTENDS Migrations, TLC

\* People and organizations are interchangeable; roles are not.
Symmetry == Permutations(Users) \cup Permutations(Orgs)
===============================================================================
