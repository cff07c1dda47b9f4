------------------------------ MODULE MCClaimRow ------------------------------
(* Small instances of ClaimRow.                                            *)
EXTENDS ClaimRow, TLC
=============================================================================
