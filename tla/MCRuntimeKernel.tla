-------------------------- MODULE MCRuntimeKernel --------------------------
(***************************************************************************)
(* Instances of RuntimeKernel for TLC.                                      *)
(***************************************************************************)
EXTENDS RuntimeKernel

OneConfig == {"c1"}
TwoConfigs == {"c1", "c2"}
OneCall == {"call1"}
TwoCalls == {"call1", "call2"}

TwoStages == {"BeforeResponse", "AfterFirstEvent"}
AllStages == Stages
=============================================================================
