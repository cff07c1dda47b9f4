----------------------------- MODULE MCSessions -----------------------------
(***************************************************************************)
(* Small instances of Sessions: a browser with two tabs, the first of      *)
(* which has data requests open.                                           *)
(***************************************************************************)
EXTENDS Sessions, TLC

InTheFirstTab == [r \in Requests |-> 1]
=============================================================================
