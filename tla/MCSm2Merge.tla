------------------------------ MODULE MCSm2Merge ------------------------------
(***************************************************************************)
(* An instance of Sm2Merge for TLC.                                        *)
(***************************************************************************)
EXTENDS Sm2Merge

AllSaved == [w \in Words |-> "saved"]
TwoAnswers == [n \in 1..MaxSessions |-> 2]
==============================================================================
