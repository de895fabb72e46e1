---------------------------- MODULE MCRecruitment ----------------------------
(* Recruitment on small sets of jobs, submissions and staff requests. *)
EXTENDS Recruitment, TLC

\* Rows and requests of one kind differ only by name.
Symmetry == Permutations(Submissions) \cup Permutations(Ops) \cup Permutations(Orgs)
            \cup Permutations(Jobs)
=============================================================================
