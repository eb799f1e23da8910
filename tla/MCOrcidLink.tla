----------------------------- MODULE MCOrcidLink ----------------------------
(***************************************************************************)
(* Instances of OrcidLink for TLC.                                         *)
(***************************************************************************)
EXTENDS OrcidLink, TLC

(* No definition tells two users, two sessions, two ORCID accounts or two  *)
(* slots apart.  Not for the liveness runs.                                *)
Symmetry ==
    Permutations(Users) \cup Permutations(SessionIds) \cup Permutations(Orcids)
        \cup Permutations(Workers)
=============================================================================
