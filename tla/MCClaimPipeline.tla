--------------------------- MODULE MCClaimPipeline ---------------------------
(***************************************************************************)
(* Small instances of ClaimPipeline.  Agents 1 and 2 (Intake, Policy) halt *)
(* a run; agents 5 and 6 (Eligibility, Decision) feed the gate, which also *)
(* reads the severity of the claim: a failing severity is a failing 6.     *)
(***************************************************************************)
EXTENDS ClaimPipeline, TLC

Symmetry == Permutations(Claims) \cup Permutations(Workers)
              \cup Permutations(Callers)
=============================================================================
