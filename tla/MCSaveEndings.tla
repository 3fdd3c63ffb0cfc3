---------------------------- MODULE MCSaveEndings ----------------------------
(***************************************************************************)
(* The liveness of SaveState, for TLC: two instances in one run, told apart*)
(* by who has already finished at the start. Either two sign-ins race with *)
(* a request, and there is no job, nor a second value of the clock; or two *)
(* requests race with one sign-in, the job and a clock that moves, which   *)
(* only concern u1.                                                        *)
(***************************************************************************)
EXTENDS MCSaveState

CONSTANTS u1, u2, l2, r2, job

Without(absent) ==
  tx = [x \in Txs |-> IF x \in absent THEN [Blank EXCEPT !.pc = "done"] ELSE Blank]

(* The viewer of r2, who never comes in the first case, tells the two apart*)
(* for good.                                                               *)
JobRuns == viewer[r2].user # u2

TwoSignIns ==
  /\ Without({r2, job}) /\ ~JobRuns
  /\ clock = MaxClock

OneSignIn ==
  /\ Without({l2})
  /\ clock = 0
  /\ \A x \in Requests \cup Links : viewer[x].user \in {u1, Unbound}

EndingsInit == Empty /\ (TwoSignIns \/ OneSignIn)

EndingsSpec ==
  /\ EndingsInit /\ [][Next]_vars
  /\ HandlerFairness /\ \A o \in Owners \ {u2} : JobFairness(job, o)

(* Whatever late saves, links and clocks left behind, where the nightly job*)
(* runs (reconcileSaveState) rows and log end in agreement, for good.      *)
DriftEnds == <>[](JobRuns => NoDrift)
==============================================================================
