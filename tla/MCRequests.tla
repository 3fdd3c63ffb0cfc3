------------------------------ MODULE MCRequests ------------------------------
(***************************************************************************)
(* What requests and jobs that race do to state they share, for TLC:       *)
(* answers of two tabs, writes that carry one idempotency key, posts       *)
(* against one limit, jobs of one queue. The four components share no      *)
(* state, so a behaviour is one of them: part says which, and the others   *)
(* stay as they began.                                                     *)
(***************************************************************************)
EXTENDS Practice, Idempotency, RateLimit, JobQueue, TLC

CONSTANTS w1

VARIABLE part

OneLearned == [w \in Words |-> IF w = w1 THEN "learned" ELSE "saved"]
FourAnswers == [n \in 1..MaxSessions |-> 4]
AnyKey == CHOOSE k \in Keys : TRUE

TabSymmetry == Permutations(Tabs)

partVars == <<part, vars, reservationVars, rateVars, queueVars>>

RequestsInit ==
  /\ part \in {"practice", "reservation", "rate", "queue"}
  /\ Init /\ ReservationInit /\ RateInit /\ QueueInit
  /\ part # "reservation" => \A r \in Requests : ReservationKey(r) = AnyKey

RequestsNext ==
  /\ UNCHANGED part
  /\ \/ /\ part = "practice" /\ Next
        /\ UNCHANGED <<reservationVars, rateVars, queueVars>>
     \/ /\ part = "reservation" /\ ReservationNext
        /\ UNCHANGED <<vars, rateVars, queueVars>>
     \/ /\ part = "rate" /\ RateNext
        /\ UNCHANGED <<vars, reservationVars, queueVars>>
     \/ /\ part = "queue" /\ QueueNext
        /\ UNCHANGED <<vars, reservationVars, rateVars>>

RequestsSpec == RequestsInit /\ [][RequestsNext]_partVars

(* The values every variable ranges over.                                  *)
RequestsTypeOK == TypeOK /\ ReservationTypeOK /\ RateTypeOK /\ QueueTypeOK
==============================================================================
