---------------------------- MODULE MCAgentCalls ----------------------------
(***************************************************************************)
(* Small instances of AgentCalls.  Stage 1 stands for Policy, stage 2 for  *)
(* the fraud agent and stage 3 for Decision; fraud has a model of its own. *)
(***************************************************************************)
EXTENDS AgentCalls, TLC

MCModelOf == <<"sonnet", "haiku", "sonnet">>
MCModes == {Live} \cup FixtureFaults
=============================================================================
