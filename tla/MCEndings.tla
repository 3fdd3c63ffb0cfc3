------------------------------ MODULE MCEndings ------------------------------
(***************************************************************************)
(* What must come to an end, for TLC: a reservation whose handler died, a  *)
(* practice session left alone, an account or a profile that is due. The   *)
(* three components share nothing, so a behaviour is one of them: part     *)
(* says which, and the others stay as they began, where none of their fair *)
(* actions is enabled.                                                     *)
(***************************************************************************)
EXTENDS Idempotency, Practice, Erasure, TLC

CONSTANTS w1, w2

VARIABLE part

(* Practice: two words, three answers to one session, two once there is a  *)
(* second one.                                                             *)
OneLearned == [w \in Words |-> IF w = w1 THEN "learned" ELSE "saved"]
FewerAnswers == <<3, 1>>

AnyKey == CHOOSE k \in Keys : TRUE

EndingVars == <<part, reservationVars, vars, erasureVars>>

EndingsInit ==
  /\ part \in {"reservation", "practice", "erasure"}
  /\ ReservationInit /\ Init /\ ErasureInit
  /\ part # "reservation" => \A r \in Requests : ReservationKey(r) = AnyKey

EndingsNext ==
  /\ UNCHANGED part
  /\ \/ part = "reservation" /\ ReservationNext /\ UNCHANGED <<vars, erasureVars>>
     \/ part = "practice" /\ Next /\ UNCHANGED <<reservationVars, erasureVars>>
     \/ part = "erasure" /\ ErasureNext /\ UNCHANGED <<reservationVars, vars>>

EndingsSpec ==
  /\ EndingsInit /\ [][EndingsNext]_EndingVars
  /\ WF_reservationVars(WindowPasses) /\ Fairness /\ ErasureFairness
==============================================================================
