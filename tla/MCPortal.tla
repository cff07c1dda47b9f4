------------------------------ MODULE MCPortal ------------------------------
(***************************************************************************)
(* Small instances of Portal: three stages, of which the first may halt.   *)
(***************************************************************************)
EXTENDS Portal, TLC
=============================================================================
