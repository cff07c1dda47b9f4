------------------------------ MODULE MCAdjudication ------------------------------
(* Small instances of Adjudication.                                        *)
EXTENDS Adjudication, TLC

\* One incident inside the policy period and low-severity, one after both the
\* period and today; "Theft on 5" is the first one in a spelling of its own.
MCReadings == {<<"theft5", "theft5">>, <<"Theft on 5", "theft5">>,
               <<"fire9", "fire9">>}
MCTypeOf == [i \in Incidents |->
  CASE i = "theft5" -> "theft" [] i = "fire9" -> "fire" [] OTHER -> "theft on"]
MCDateOf == [i \in Incidents |-> IF i = "fire9" THEN 9 ELSE 5]
MCPolicies ==
  { [status |-> "active", covered |-> {"theft", "fire"}, limit |-> 10,
     deductible |-> 1, start |-> 6, end |-> 8],
    [status |-> "lapsed", covered |-> {"theft"}, limit |-> 10,
     deductible |-> 3, start |-> 1, end |-> 4],
    [status |-> "expired", covered |-> {"theft", "fire"}, limit |-> 10,
     deductible |-> 1, start |-> 1, end |-> 4] }
MCEvidence ==
  { [consistency |-> "consistent", redFlags |-> 1],
    [consistency |-> "consistent", redFlags |-> 4],
    [consistency |-> "contradicts", redFlags |-> 0] }
MCPriors == { {}, {"theft5"} }
MCSymmetry == Permutations(Claims)
=============================================================================
