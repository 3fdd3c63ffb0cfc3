----------------------------- MODULE MCPractice -----------------------------
(***************************************************************************)
(* Instances of Practice for TLC.                                          *)
(***************************************************************************)
EXTENDS Practice, TLC

CONSTANTS w1, w2

OneLearned == [w \in Words |-> IF w = w1 THEN "learned" ELSE "saved"]

(* Three answers to one session, two once there is a second one.           *)
FewerAnswers == <<3, 2>>
FourAnswers == [n \in 1..MaxSessions |-> 4]
TwoAnswers == [n \in 1..MaxSessions |-> 2]

TabSymmetry == Permutations(Tabs)
==============================================================================
