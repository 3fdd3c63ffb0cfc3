--------------------------------- MODULE Sm2 ---------------------------------
(***************************************************************************)
(* SM-2 scheduling (services/sm2.service.js). Ease factors are counted in  *)
(* thousandths, the precision of their column; the product of the code     *)
(* computes them, and the interval, in floating point and rounds.          *)
(***************************************************************************)
EXTENDS Integers

CONSTANT Day   \* a day, in ticks of the clock

ASSUME DayAssumption == Day \in Nat \ {0}

Ratings == {"right", "wrong"}
Quality(rating) == IF rating = "right" THEN 5 ELSE 2

InitialSm2 == [repetitions |-> 0, ease |-> 2500, interval |-> 0]

(* The ease factors the CHECK of V11 admits.                               *)
Eases == {n \in Nat : n >= 1300}

(* EF + 0.1 - lapse * (0.08 + lapse * 0.02), never below 1.3; broken: no   *)
(* floor.                                                                  *)
EasedFreely(ease, quality) ==
  LET lapse == 5 - quality
  IN  ease + 100 - lapse * (80 + lapse * 20)

Eased(ease, quality) ==
  LET lapse == 5 - quality
      eased == ease + 100 - lapse * (80 + lapse * 20)
  IN  IF eased < 1300 THEN 1300 ELSE eased

(* applySm2Review: the interval grows by the ease as it stood before.      *)
Review(state, quality) ==
  [repetitions |-> IF quality >= 3 THEN state.repetitions + 1 ELSE 0,
   ease        |-> Eased(state.ease, quality),
   interval    |-> IF quality < 3 \/ state.repetitions = 0 THEN 1
                   ELSE IF state.repetitions = 1 THEN 6
                   ELSE (state.interval * state.ease + 500) \div 1000]

NextDueAt(reviewedAt, interval) == reviewedAt + interval * Day
==============================================================================
