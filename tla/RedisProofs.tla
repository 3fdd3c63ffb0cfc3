----------------------------- MODULE RedisProofs -----------------------------
(***************************************************************************)
(* Proofs about the three components whose state is in Redis alone:        *)
(* JobQueue, RateLimit and Idempotency, for any jobs, attempts, requests,  *)
(* limits, delays, viewers, keys and window.                               *)
(***************************************************************************)
EXTENDS JobQueue, RateLimit, Idempotency, FiniteSetTheorems, WellFoundedInduction, TLAPS

------------------------------------------------------------------------------
(* JobQueue.                                                               *)

(* The job in the worker's hands is there, and still taken until it ends.  *)
InHand ==
  /\ worker.pc \in {"running", "event"} => worker.ticket \in Tickets
  /\ worker.pc = "running" => tickets[worker.ticket].state = "active"

(* Of each job: it is run only while its stalls allow it, and what         *)
(* GivenUpIsReported says of it.                                           *)
JobInv(t) ==
  /\ tickets[t].state = "active" => tickets[t].stalls <= MaxStalled
  /\ t \in alerted => tickets[t].state = "failed" /\ tickets[t].made = JobAttempts
  /\ tickets[t].state = "failed" =>
       \/ tickets[t].made = JobAttempts /\ Reported(t)
       \/ tickets[t].made < JobAttempts /\ tickets[t].stalls > MaxStalled
  /\ tickets[t].made = JobAttempts => tickets[t].state = "failed"

(* Registration comes after the old schedules are removed.                 *)
Registered ==
  /\ worker.pc = "upsert" => schedules \subseteq JobNames
  /\ worker.pc \in {"ready", "running", "event"} => schedules = JobNames

QueueInv == QueueTypeOK /\ InHand /\ Registered /\ \A t \in Tickets : JobInv(t)

(* The actions, of which a proof about a step treats each.                 *)
LEMMA QueueStepCases ==
  ASSUME [QueueNext]_queueVars, NEW G,
         \A n \in JobNames \cup RetiredNames : Fire(n) => G,
         \A t \in Tickets : BackoffEnds(t) => G,
         \A t \in Tickets : Stalled(t) => G,
         \A t \in Tickets : Take(t) => G,
         \A t \in Tickets : FailStalled(t) => G,
         StartWorker => G, RemoveScheduler => G, UpsertScheduler => G,
         CompleteJob => G, FailJob => G, FailedEvent => G, Stop => G, Kill => G,
         UNCHANGED queueVars => G
  PROVE  G
BY DEF QueueNext, WorkerStep, QueueStep

(* The state of one job changes, and perhaps its attempts.                 *)
LEMMA StateType ==
  ASSUME QueueTypeOK, NEW t \in Tickets,
         NEW state \in {"none", "waiting", "active", "delayed", "completed", "failed"}
  PROVE  [tickets EXCEPT ![t].state = state] \in [Tickets -> Ticket]
BY DEF QueueTypeOK, Ticket

LEMMA AttemptType ==
  ASSUME QueueTypeOK, NEW t \in Tickets, NEW made \in 0..JobAttempts,
         NEW state \in {"none", "waiting", "active", "delayed", "completed", "failed"}
  PROVE  [tickets EXCEPT ![t].made = made, ![t].state = state] \in [Tickets -> Ticket]
BY DEF QueueTypeOK, Ticket

LEMMA StallType ==
  ASSUME QueueTypeOK, NEW t \in Tickets, NEW stalls \in 0..MaxStalled + 1
  PROVE  [tickets EXCEPT ![t].state = "waiting", ![t].stalls = stalls] \in [Tickets -> Ticket]
BY DEF QueueTypeOK, Ticket

(* The invariant, action by action: each changes one job or none.          *)
LEMMA QueueInvStep ==
  ASSUME QueueInv, [QueueNext]_queueVars
  PROVE  QueueInv'
<1>0. /\ QueueTypeOK /\ InHand /\ Registered /\ \A t \in Tickets : JobInv(t)
      /\ tickets \in [Tickets -> Ticket]
  BY DEF QueueInv, QueueTypeOK
<1> USE JobQueueAssumption
<1>1. ASSUME NEW n \in JobNames \cup RetiredNames, Fire(n)
      PROVE  QueueInv'
  <2>1. PICK t \in Tickets :
          /\ tickets[t].state = "none"
          /\ tickets' = [tickets EXCEPT ![t] =
                           [name |-> n, state |-> "waiting", made |-> 0, stalls |-> 0]]
    BY <1>1 DEF Fire
  <2>2. UNCHANGED <<schedules, worker, alerted, lost>>
    BY <1>1 DEF Fire
  <2>3. tickets' \in [Tickets -> Ticket]
    BY <1>0, <2>1 DEF Ticket
  <2>4. \A q \in Tickets : JobInv(q)'
    BY <1>0, <2>1, <2>2 DEF JobInv, Reported
  <2>5. QED
    BY <1>0, <2>1, <2>2, <2>3, <2>4 DEF QueueInv, QueueTypeOK, InHand, Registered
<1>2. ASSUME NEW t \in Tickets, BackoffEnds(t)
      PROVE  QueueInv'
  <2>1. /\ tickets[t].state = "delayed" /\ UNCHANGED <<schedules, worker, alerted, lost>>
        /\ tickets' = [tickets EXCEPT ![t].state = "waiting"]
    BY <1>2 DEF BackoffEnds
  <2>2. tickets' \in [Tickets -> Ticket]
    BY <1>0, <2>1, StateType
  <2>3. \A q \in Tickets : JobInv(q)'
    BY <1>0, <2>1 DEF JobInv, Reported, Ticket
  <2>4. QED
    BY <1>0, <2>1, <2>2, <2>3 DEF QueueInv, QueueTypeOK, InHand, Registered
<1>3. ASSUME NEW t \in Tickets, Stalled(t)
      PROVE  QueueInv'
  <2> DEFINE stalls == tickets[t].stalls + 1
  <2>1. /\ tickets[t].state = "active" /\ worker.ticket # t
        /\ UNCHANGED <<schedules, worker, alerted, lost>>
        /\ tickets' = [tickets EXCEPT ![t].state = "waiting", ![t].stalls = stalls]
    BY <1>3 DEF Stalled
  <2>2. stalls \in 0..MaxStalled + 1
    BY <1>0, <2>1 DEF JobInv, Ticket
  <2>3. tickets' \in [Tickets -> Ticket]
    <3>1. [tickets EXCEPT ![t].state = "waiting", ![t].stalls = stalls] \in [Tickets -> Ticket]
      <4> HIDE DEF stalls
      <4>1. QED
        BY <1>0, <2>2, StallType
    <3> HIDE DEF stalls
    <3>2. QED
      BY <2>1, <3>1
  <2>4. \A q \in Tickets : JobInv(q)'
    BY <1>0, <2>1, <2>2 DEF JobInv, Reported, Ticket
  <2>5. QED
    BY <1>0, <2>1, <2>3, <2>4 DEF QueueInv, QueueTypeOK, InHand, Registered
<1>4. ASSUME NEW t \in Tickets, Take(t)
      PROVE  QueueInv'
  <2>1. /\ worker.pc = "ready" /\ tickets[t].state = "waiting" /\ ~StalledTooOften(t)
        /\ tickets' = [tickets EXCEPT ![t].state = "active"]
        /\ worker' = [pc |-> "running", ticket |-> t]
        /\ UNCHANGED <<schedules, alerted, lost>>
    BY <1>4 DEF Take
  <2>2. tickets' \in [Tickets -> Ticket]
    BY <1>0, <2>1, StateType
  <2>3. \A q \in Tickets : JobInv(q)'
    BY <1>0, <2>1 DEF JobInv, Reported, StalledTooOften, Ticket
  <2>4. QED
    BY <1>0, <2>1, <2>2, <2>3 DEF QueueInv, QueueTypeOK, InHand, Registered, Worker, Ticket
<1>5. ASSUME StartWorker
      PROVE  QueueInv'
  <2>1. \A q \in Tickets : JobInv(q)'
    BY <1>0, <1>5 DEF JobInv, Reported, StartWorker, QueueTypeOK, Worker
  <2>2. QED
    BY <1>0, <1>5, <2>1
    DEF StartWorker, QueueInv, QueueTypeOK, InHand, Registered, Worker
<1>6. ASSUME RemoveScheduler
      PROVE  QueueInv'
  <2>1. \A q \in Tickets : JobInv(q)'
    BY <1>0, <1>6 DEF JobInv, Reported, RemoveScheduler, QueueTypeOK, Worker
  <2>2. QED
    BY <1>0, <1>6, <2>1
    DEF RemoveScheduler, Retired, QueueInv, QueueTypeOK, InHand, Registered, Worker
<1>7. ASSUME UpsertScheduler
      PROVE  QueueInv'
  <2>1. \A q \in Tickets : JobInv(q)'
    BY <1>0, <1>7 DEF JobInv, Reported, UpsertScheduler, QueueTypeOK, Worker
  <2>2. QED
    BY <1>0, <1>7, <2>1
    DEF UpsertScheduler, QueueInv, QueueTypeOK, InHand, Registered, Worker
<1>8. ASSUME CompleteJob
      PROVE  QueueInv'
  <2> DEFINE t == worker.ticket
  <2>1. /\ t \in Tickets /\ worker.pc = "running" /\ tickets[t].state = "active"
        /\ tickets' = [tickets EXCEPT ![t].state = "completed"]
        /\ worker' = [pc |-> "ready", ticket |-> NoTicket]
        /\ UNCHANGED <<schedules, alerted, lost>>
    BY <1>0, <1>8 DEF CompleteJob, InHand
  <2> HIDE DEF t
  <2>2. tickets' \in [Tickets -> Ticket]
    BY <1>0, <2>1, StateType
  <2>3. \A q \in Tickets : JobInv(q)'
    BY <1>0, <2>1 DEF JobInv, Reported, Ticket
  <2>4. QED
    BY <1>0, <2>1, <2>2, <2>3 DEF QueueInv, QueueTypeOK, InHand, Registered, Worker
<1>9. ASSUME FailJob
      PROVE  QueueInv'
  <2> DEFINE t == worker.ticket
             made == tickets[t].made + 1
             state == IF made >= JobAttempts THEN "failed" ELSE "delayed"
  <2>1. /\ t \in Tickets /\ worker.pc = "running" /\ tickets[t].state = "active"
        /\ tickets' = [tickets EXCEPT ![t].made = made, ![t].state = state]
        /\ worker' = [pc |-> "event", ticket |-> t]
        /\ UNCHANGED <<schedules, alerted, lost>>
    BY <1>0, <1>9 DEF FailJob, InHand, QueueTypeOK, Worker
  <2> HIDE DEF t
  <2>2. tickets[t].made \in 0..JobAttempts /\ tickets[t].made # JobAttempts
    BY <1>0, <2>1 DEF JobInv, Ticket
  <2>3. tickets' \in [Tickets -> Ticket]
    <3>1. made \in 0..JobAttempts /\ state \in {"failed", "delayed"}
      BY <2>2
    <3>2. [tickets EXCEPT ![t].made = made, ![t].state = state] \in [Tickets -> Ticket]
      <4> HIDE DEF made, state
      <4>1. QED
        BY <1>0, <2>1, <3>1, AttemptType
    <3>3. QED
      BY <2>1, <3>2
  <2>4. \A q \in Tickets : JobInv(q)'
    <3>1. /\ tickets'[t].made = made /\ tickets'[t].state = state
          /\ \A q \in Tickets \ {t} : tickets'[q] = tickets[q]
      BY <1>0, <2>1 DEF Ticket
    <3>2. QED
      BY <1>0, <2>1, <2>2, <3>1 DEF JobInv, Reported
  <2>5. QED
    BY <1>0, <2>1, <2>3, <2>4 DEF QueueInv, QueueTypeOK, InHand, Registered, Worker
<1>10. ASSUME FailedEvent
       PROVE  QueueInv'
  <2>1. \A q \in Tickets : JobInv(q)'
    BY <1>0, <1>10 DEF JobInv, Reported, FailedEvent, Exhausted, QueueTypeOK, InHand, Worker, Ticket
  <2>2. QED
    BY <1>0, <1>10, <2>1
    DEF FailedEvent, QueueInv, QueueTypeOK, InHand, Registered, Worker
<1>11. ASSUME Stop
       PROVE  QueueInv'
  <2>1. \A q \in Tickets : JobInv(q)'
    BY <1>0, <1>11 DEF JobInv, Reported, Stop, QueueTypeOK, InHand, Worker, Ticket
  <2>2. QED
    BY <1>0, <1>11, <2>1
    DEF Stop, QueueInv, QueueTypeOK, InHand, Registered, Worker
<1>12. ASSUME Kill
       PROVE  QueueInv'
  <2>1. \A q \in Tickets : JobInv(q)'
    BY <1>0, <1>12 DEF JobInv, Reported, Kill, QueueTypeOK, InHand, Worker, Ticket
  <2>2. QED
    BY <1>0, <1>12, <2>1
    DEF Kill, QueueInv, QueueTypeOK, InHand, Registered, Worker
<1>13. ASSUME NEW t \in Tickets, FailStalled(t)
       PROVE  QueueInv'
  <2>1. PICK made \in {tickets[t].made, tickets[t].made + 1} :
          tickets' = [tickets EXCEPT ![t].state = "failed", ![t].made = made]
    BY <1>13 DEF FailStalled
  <2>2. /\ tickets[t].state = "waiting" /\ tickets[t].stalls > MaxStalled
        /\ worker' = [pc |-> "event", ticket |-> t]
        /\ worker.pc = "ready" /\ UNCHANGED <<schedules, alerted, lost>>
    BY <1>13 DEF FailStalled, StalledTooOften
  <2>3. made \in 0..JobAttempts
    BY <1>0, <2>1, <2>2 DEF JobInv, Ticket
  <2>4. tickets' \in [Tickets -> Ticket]
    BY <1>0, <2>1, <2>3 DEF Ticket
  <2>5. /\ tickets'[t].made = made /\ tickets'[t].state = "failed"
        /\ tickets'[t].stalls = tickets[t].stalls
        /\ \A q \in Tickets \ {t} : tickets'[q] = tickets[q]
    BY <1>0, <2>1 DEF Ticket
  <2>6. \A q \in Tickets : JobInv(q)'
    BY <1>0, <2>2, <2>3, <2>5 DEF JobInv, Reported
  <2>7. QED
    BY <1>0, <2>2, <2>4, <2>6 DEF QueueInv, QueueTypeOK, InHand, Registered, Worker
<1>14. ASSUME UNCHANGED queueVars
       PROVE  QueueInv'
  <2>1. \A q \in Tickets : JobInv(q)'
    BY <1>0, <1>14 DEF queueVars, JobInv, Reported
  <2>2. QED
    BY <1>0, <1>14, <2>1 DEF queueVars, QueueInv, QueueTypeOK, InHand, Registered
<1>15. QED
  BY <1>1, <1>2, <1>3, <1>4, <1>5, <1>6, <1>7, <1>8, <1>9, <1>10, <1>11, <1>12, <1>13, <1>14,
     QueueStepCases

(* No job is out when the queue begins.                                    *)
LEMMA QueueInvInit == QueueInit => QueueInv
BY JobQueueAssumption
DEF QueueInit, QueueInv, QueueTypeOK, InHand, JobInv, Registered, Reported, Ticket, Worker

(* Schedules, jobs and the worker keep their form.                         *)
THEOREM QueueTypes == QueueSpec => []QueueTypeOK
<1>1. QueueInit => QueueInv
  BY QueueInvInit
<1>2. QueueInv /\ [QueueNext]_queueVars => QueueInv'
  BY QueueInvStep
<1>3. QueueInv => QueueTypeOK
  BY DEF QueueInv
<1>4. QED
  BY <1>1, <1>2, <1>3, PTL DEF QueueSpec

(* A job whose attempts are used up is reported, and no other is, unless   *)
(* the process dies on the event; a job failed before that had stalled too *)
(* often; a started worker has left no old schedule.                       *)
THEOREM GivenUpReported == QueueSpec => []GivenUpIsReported
<1>1. QueueInit => QueueInv
  BY QueueInvInit
<1>2. QueueInv /\ [QueueNext]_queueVars => QueueInv'
  BY QueueInvStep
<1>3. QueueInv => GivenUpIsReported
  BY DEF QueueInv, Registered, JobInv, GivenUpIsReported, StalledTooOften
<1>4. QED
  BY <1>1, <1>2, <1>3, PTL DEF QueueSpec

------------------------------------------------------------------------------
(* The earliest and the latest of a set of times.                          *)

(* A set of numbers that is not empty has a least one.                     *)
LEMMA Least ==
  ASSUME NEW T \in SUBSET Nat, T # {}
  PROVE  \E x \in T : \A y \in T : x <= y
<1> DEFINE Below(x) == 0..x
           downs == {Below(x) : x \in T}
           R == StrictSubsetOrdering(Nat)
<1>1. downs \subseteq FiniteSubsetsOf(Nat) /\ downs # {}
  <2>1. \A x \in T : Below(x) \in SUBSET Nat /\ IsFiniteSet(Below(x))
    BY FS_Interval
  <2>2. QED
    BY <2>1 DEF FiniteSubsetsOf
<1>2. PICK d \in downs : \A e \in downs : <<e, d>> \notin R
  <2> HIDE DEF downs, R
  <2>1. QED
    BY <1>1, FS_StrictSubsetOrderingWellFounded, WFMin DEF R
<1>3. PICK x \in T : d = Below(x)
  OBVIOUS
<1>4. ASSUME NEW y \in T, y < x
      PROVE  FALSE
  <2>1. Below(y) \subseteq Below(x) /\ Below(y) # Below(x)
    BY <1>4
  <2>2. <<Below(y), Below(x)>> \in R
    BY <2>1 DEF StrictSubsetOrdering
  <2>3. QED
    BY <1>2, <1>3, <2>2
<1>5. QED
  BY <1>4

(* Min is a least time.                                                    *)
LEMMA MinIsLeast ==
  ASSUME NEW T \in SUBSET Nat, T # {}
  PROVE  Min(T) \in T /\ \A y \in T : Min(T) <= y
BY Least DEF Min

(* Max is a latest one, when the times are bounded.                        *)
LEMMA MaxIsGreatest ==
  ASSUME NEW n \in Nat, NEW T \in SUBSET (0..n), T # {}
  PROVE  Max(T) \in T /\ \A y \in T : Max(T) >= y
<1> DEFINE U == {n - x : x \in T}
<1>1. U \in SUBSET Nat /\ U # {}
  <2>1. \A x \in T : n - x \in Nat
    OBVIOUS
  <2>2. QED
    BY <2>1
<1>2. PICK u \in U : \A v \in U : u <= v
  BY <1>1, Least
<1>3. PICK x \in T : u = n - x
  OBVIOUS
<1>4. \A y \in T : n - x <= n - y
  BY <1>2, <1>3
<1>5. \A y \in T : x >= y
  BY <1>4
<1>6. QED
  BY <1>5 DEF Max

------------------------------------------------------------------------------
(* RateLimit.                                                              *)

(* A script runs at most MaxDelay after the clock it carries was read.     *)
ClocksRead ==
  \A p \in Posts : /\ post[p].now <= tick
                   /\ post[p].pc = "sent" => tick <= post[p].now + MaxDelay

(* Who was admitted and counted has left, and nobody else is in the set.   *)
CountedLeft ==
  /\ admitted \subseteq passed /\ IsFiniteSet(passed)
  /\ \A p \in passed : post[p].pc = "next"

(* The key outlives the window of everybody who was counted ...            *)
KeyOutlives ==
  /\ expires <= tick + RateWindow
  /\ \A p \in passed : post[p].now + RateWindow <= expires

(* ... so whoever is no longer in the set has been out of the window by the*)
(* clock of the process whose script took him out, hence by all clocks.    *)
OutIsOver ==
  \A p \in passed \ admitted : post[p].now + RateWindow <= tick

RateInv ==
  RateTypeOK /\ ClocksRead /\ CountedLeft /\ KeyOutlives /\ OutIsOver /\ LimitHolds

(* What is trimmed is over.                                                *)
LEMMA TrimmedIsOver ==
  ASSUME RateInv, NEW p \in Posts, post[p].pc = "sent",
         NEW q \in passed \ Trimmed(post[p].now)
  PROVE  post[q].now + RateWindow <= tick
<1> USE RateLimitAssumption
    DEF RateInv, RateTypeOK, LimitedPost, Ticks
<1>1. q \in Posts /\ post[q].now \in Nat /\ post[p].now \in Nat /\ tick \in Nat
  OBVIOUS
<1>2. CASE q \notin admitted
  BY <1>2 DEF OutIsOver
<1>3. CASE q \in admitted /\ tick >= expires
  BY <1>1, <1>3 DEF KeyOutlives
<1>4. CASE q \in admitted /\ ~(tick >= expires)
  <2>1. ~(post[q].now + RateWindow > post[p].now)
    BY <1>4 DEF Trimmed
  <2>2. QED
    BY <1>1, <2>1 DEF ClocksRead
<1>5. QED
  BY <1>2, <1>3, <1>4

(* More than Limit requests with p among them, when what is in the window  *)
(* of p is fewer than Limit: one of the others is out of that window.      *)
LEMMA SomebodyIsOut ==
  ASSUME NEW P, IsFiniteSet(P), NEW used \in SUBSET P, Cardinality(used) < Limit,
         NEW p, NEW S \in SUBSET (P \cup {p}), p \in S, Cardinality(S) > Limit
  PROVE  \E q \in S : q \in P \ used
<1> USE RateLimitAssumption
<1>1. IsFiniteSet(P \cup {p})
  BY FS_AddElement
<1>2. IsFiniteSet(S) /\ Cardinality(S) \in Nat
  BY <1>1, FS_Subset, FS_CardinalityType
<1>3. IsFiniteSet(S \ {p}) /\ Cardinality(S \ {p}) = Cardinality(S) - 1
  BY <1>2, FS_RemoveElement
<1>4. IsFiniteSet(used) /\ Cardinality(used) \in Nat
  BY FS_Subset, FS_CardinalityType
<1>5. ~(S \ {p} \subseteq used)
  <2> SUFFICES ASSUME S \ {p} \subseteq used
               PROVE  FALSE
    OBVIOUS
  <2>1. Cardinality(S \ {p}) <= Cardinality(used)
    BY <1>4, FS_Subset
  <2>2. QED
    BY <1>2, <1>3, <1>4, <2>1
<1>6. QED
  BY <1>5

(* The times of some of those who were counted.                            *)
LEMMA TimesType ==
  ASSUME RateTypeOK, NEW S \in SUBSET Posts
  PROVE  Times(S) \in SUBSET (0..MaxTick) /\ \A p \in S : post[p].now \in Times(S)
BY DEF RateTypeOK, LimitedPost, Ticks, Times

(* The wait a refused request is told is positive and not beyond a window. *)
LEMMA RetryType ==
  ASSUME RateInv, NEW p \in Posts, post[p].pc = "sent",
         NEW S \in SUBSET admitted, S # {},
         \A q \in S : post[q].now + RateWindow > post[p].now
  PROVE  Retry(post[p].now, S) \in 0..(RateWindow + MaxDelay)
<1> USE RateLimitAssumption
<1> DEFINE m == Min(Times(S))
<1>1. S \subseteq Posts /\ Times(S) # {}
  BY DEF RateInv, RateTypeOK, Times
<1>2. Times(S) \in SUBSET Nat
  BY <1>1, TimesType DEF RateInv
<1>3. m \in Times(S)
  BY <1>1, <1>2, MinIsLeast
<1>4. PICK q \in S : m = post[q].now
  BY <1>3 DEF Times
<1>5. /\ m \in Nat /\ post[p].now \in Nat /\ m + RateWindow > post[p].now
      /\ m <= tick /\ tick <= post[p].now + MaxDelay /\ tick \in Nat
  BY <1>1, <1>2, <1>3, <1>4 DEF RateInv, ClocksRead, RateTypeOK, LimitedPost, Ticks
<1> HIDE DEF m
<1>6. QED
  BY <1>5 DEF Retry, m

(* One script.                                                             *)
LEMMA ScriptStep ==
  ASSUME RateInv, NEW p \in Posts, Script(p)
  PROVE  RateInv'
<1> USE RateLimitAssumption
<1> DEFINE now == post[p].now
           used == Trimmed(now)
<1>0. /\ post[p].pc = "sent" /\ tick' = tick
      /\ used \subseteq admitted /\ admitted \subseteq passed /\ passed \subseteq Posts
      /\ now \in Nat /\ tick \in Nat /\ now <= tick /\ tick <= now + MaxDelay
      /\ p \notin passed /\ IsFiniteSet(passed)
  BY DEF Script, Trimmed, RateInv, ClocksRead, CountedLeft, RateTypeOK, LimitedPost, Ticks
<1>1. \A q \in passed \ used : post[q].now + RateWindow <= tick
  BY <1>0, TrimmedIsOver
<1>2. CASE Cardinality(used) >= Limit
  <2>1. /\ post' = [post EXCEPT ![p].pc = "refused", ![p].retry = Retry(now, used)]
        /\ admitted' = used /\ expires' = expires /\ passed' = passed
    BY <1>2 DEF Script
  <2>2. used # {}
    BY <1>2, FS_EmptySet
  <2>3. \A q \in used : post[q].now + RateWindow > now
    BY DEF Trimmed
  <2>4. Retry(now, used) \in 0..(RateWindow + MaxDelay)
    BY <1>0, <2>2, <2>3, RetryType
  <2>5. post' \in [Posts -> LimitedPost]
    <3> DEFINE w == Retry(now, used)
    <3> HIDE DEF w
    <3>1. post' = [post EXCEPT ![p].pc = "refused", ![p].retry = w]
      BY <2>1 DEF w
    <3>2. w \in 0..(RateWindow + MaxDelay)
      BY <2>4 DEF w
    <3>3. QED
      BY <3>1, <3>2 DEF RateInv, RateTypeOK, LimitedPost
  <2>6. /\ \A q \in Posts : post'[q].now = post[q].now
        /\ post'[p].pc = "refused" /\ \A q \in Posts \ {p} : post'[q].pc = post[q].pc
    BY <2>1 DEF RateInv, RateTypeOK, LimitedPost
  <2>7. RateTypeOK'
    BY <1>0, <2>1, <2>5 DEF RateInv, RateTypeOK
  <2>8. ClocksRead' /\ CountedLeft' /\ KeyOutlives'
    BY <1>0, <2>1, <2>6 DEF RateInv, RateTypeOK, ClocksRead, CountedLeft, KeyOutlives
  <2>9. OutIsOver'
    BY <1>0, <1>1, <2>1, <2>6 DEF OutIsOver
  <2>10. \A S \in SUBSET passed : Times(S)' = Times(S)
    BY <1>0, <2>6 DEF Times
  <2>11. LimitHolds'
    BY <2>1, <2>10 DEF RateInv, LimitHolds
  <2>12. QED
    BY <2>7, <2>8, <2>9, <2>11 DEF RateInv
<1>3. CASE ~(Cardinality(used) >= Limit)
  <2>1. /\ post' = [post EXCEPT ![p].pc = "next"]
        /\ admitted' = used \cup {p} /\ expires' = tick + RateWindow
        /\ passed' = passed \cup {p}
    BY <1>3 DEF Script
  <2>2. /\ post' \in [Posts -> LimitedPost]
        /\ \A q \in Posts : post'[q].now = post[q].now
        /\ post'[p].pc = "next" /\ \A q \in Posts \ {p} : post'[q].pc = post[q].pc
    BY <2>1 DEF RateInv, RateTypeOK, LimitedPost
  <2>3. RateTypeOK'
    BY <1>0, <2>1, <2>2 DEF RateInv, RateTypeOK, Ticks
  <2>4. ClocksRead'
    BY <1>0, <2>2 DEF RateInv, ClocksRead
  <2>5. CountedLeft'
    BY <1>0, <2>1, <2>2, FS_AddElement DEF RateInv, CountedLeft
  <2>6. KeyOutlives'
    <3>1. \A q \in passed \cup {p} : post[q].now <= tick /\ post[q].now \in Nat
      BY <1>0 DEF RateInv, ClocksRead, RateTypeOK, LimitedPost, Ticks
    <3>2. QED
      BY <1>0, <2>1, <2>2, <3>1 DEF KeyOutlives
  <2>7. OutIsOver'
    BY <1>0, <1>1, <2>1, <2>2 DEF OutIsOver
  <2>8. ASSUME NEW S \in SUBSET (passed \cup {p}), Cardinality(S) > Limit
        PROVE  Max(Times(S)) - Min(Times(S)) + MaxDelay >= RateWindow
    <3>1. CASE p \notin S
      BY <2>8, <3>1 DEF RateInv, LimitHolds
    <3>2. CASE p \in S
      <4>1. S \subseteq Posts /\ Times(S) \in SUBSET (0..MaxTick) /\ now \in Times(S)
        BY <1>0, <3>2, TimesType DEF RateInv
      <4>2. Cardinality(used) \in Nat /\ Cardinality(used) < Limit
        BY <1>0, <1>3, FS_Subset, FS_CardinalityType
      <4>3. PICK q \in S : q \in passed \ used
        BY <1>0, <2>8, <3>2, <4>2, SomebodyIsOut
      <4>4. post[q].now + RateWindow <= tick /\ post[q].now \in Times(S)
        BY <1>1, <4>1, <4>3, TimesType DEF RateInv
      <4>5. Max(Times(S)) >= now /\ Max(Times(S)) \in Nat
        <5> DEFINE T == Times(S)
        <5> HIDE DEF T
        <5>1. T \in SUBSET (0..MaxTick) /\ T # {} /\ now \in T /\ MaxTick \in Nat
          BY <4>1 DEF T
        <5>2. Max(T) \in T /\ \A y \in T : Max(T) >= y
          BY <5>1, MaxIsGreatest
        <5>3. QED
          BY <5>1, <5>2 DEF T
      <4>6. Min(Times(S)) <= post[q].now /\ Min(Times(S)) \in Nat /\ post[q].now \in Nat
        BY <4>1, <4>4, MinIsLeast
      <4>7. QED
        BY <1>0, <4>4, <4>5, <4>6
    <3>3. QED
      BY <3>1, <3>2
  <2>9. \A S \in SUBSET (passed \cup {p}) : Times(S)' = Times(S)
    BY <1>0, <2>2 DEF Times
  <2>10. LimitHolds'
    BY <2>1, <2>8, <2>9 DEF LimitHolds
  <2>11. QED
    BY <2>3, <2>4, <2>5, <2>6, <2>7, <2>10 DEF RateInv
<1>4. QED
  BY <1>2, <1>3

(* Any step.                                                               *)
LEMMA RateInvStep ==
  ASSUME RateInv, [RateNext]_rateVars
  PROVE  RateInv'
<1> USE RateLimitAssumption
<1>1. ASSUME NEW p \in Posts, Consume(p)
      PROVE  RateInv'
  <2>1. /\ post' \in [Posts -> LimitedPost]
        /\ post'[p].now = tick /\ post[p].pc = "idle" /\ post'[p].pc = "sent"
        /\ \A q \in Posts \ {p} : post'[q] = post[q]
    BY <1>1 DEF Consume, RateInv, RateTypeOK, LimitedPost, Ticks
  <2>2. p \notin passed /\ passed \subseteq Posts
    BY <2>1 DEF RateInv, CountedLeft, RateTypeOK
  <2>3. UNCHANGED <<tick, admitted, expires, passed>>
    BY <1>1 DEF Consume
  <2>4. \A S \in SUBSET passed : Times(S)' = Times(S)
    BY <2>1, <2>2 DEF Times
  <2>5. RateTypeOK' /\ CountedLeft' /\ KeyOutlives' /\ OutIsOver'
    BY <2>1, <2>2, <2>3 DEF RateInv, RateTypeOK, CountedLeft, KeyOutlives, OutIsOver
  <2>6. ClocksRead'
    BY <2>1, <2>3 DEF RateInv, ClocksRead, RateTypeOK, Ticks
  <2>7. LimitHolds'
    BY <2>3, <2>4 DEF RateInv, LimitHolds
  <2>8. QED
    BY <2>5, <2>6, <2>7 DEF RateInv
<1>2. ASSUME NEW p \in Posts, LetThrough(p)
      PROVE  RateInv'
  <2>1. /\ post' \in [Posts -> LimitedPost]
        /\ \A q \in Posts : post'[q].now = post[q].now
        /\ post'[p].pc = "next" /\ \A q \in Posts \ {p} : post'[q] = post[q]
    BY <1>2 DEF LetThrough, RateInv, RateTypeOK, LimitedPost
  <2>2. UNCHANGED <<tick, admitted, expires, passed>> /\ passed \subseteq Posts
    BY <1>2 DEF LetThrough, RateInv, RateTypeOK
  <2>3. \A S \in SUBSET passed : Times(S)' = Times(S)
    BY <2>1, <2>2 DEF Times
  <2>4. RateTypeOK' /\ CountedLeft' /\ KeyOutlives' /\ OutIsOver' /\ ClocksRead'
    BY <2>1, <2>2 DEF RateInv, RateTypeOK, CountedLeft, KeyOutlives, OutIsOver, ClocksRead
  <2>5. LimitHolds'
    BY <2>2, <2>3 DEF RateInv, LimitHolds
  <2>6. QED
    BY <2>4, <2>5 DEF RateInv
<1>3. CASE LoseData
  <2>1. admitted' = {} /\ passed' = {} /\ expires' = 0 /\ tick' = tick /\ post' = post
    BY <1>3 DEF LoseData
  <2>2. LimitHolds'
    BY <2>1, FS_EmptySet DEF LimitHolds
  <2>3. QED
    BY <2>1, <2>2, FS_EmptySet DEF RateInv, RateTypeOK, CountedLeft, KeyOutlives, OutIsOver,
       ClocksRead, Ticks
<1>4. CASE TickPasses
  <2>1. /\ tick \in Nat /\ tick' = tick + 1 /\ tick' \in Ticks
        /\ post' = post /\ admitted' = admitted /\ expires' = expires /\ passed' = passed
        /\ expires \in Nat /\ passed \subseteq Posts
        /\ \A p \in Posts : post[p].now \in Nat
        /\ \A p \in Posts : post[p].pc = "sent" => tick - post[p].now < MaxDelay
    BY <1>4 DEF TickPasses, RateInv, RateTypeOK, Ticks, LimitedPost
  <2>2. RateTypeOK' /\ ClocksRead'
    BY <2>1 DEF RateInv, RateTypeOK, ClocksRead
  <2>3. CountedLeft' /\ KeyOutlives' /\ OutIsOver'
    BY <2>1 DEF RateInv, CountedLeft, KeyOutlives, OutIsOver
  <2>4. LimitHolds'
    BY <2>1 DEF RateInv, LimitHolds, Times
  <2>5. QED
    BY <2>2, <2>3, <2>4 DEF RateInv
<1>5. CASE UNCHANGED rateVars
  BY <1>5 DEF rateVars, RateInv, RateTypeOK, CountedLeft, KeyOutlives, OutIsOver,
     ClocksRead, LimitHolds, Times
<1>6. QED
  BY <1>1, <1>2, <1>3, <1>4, <1>5, ScriptStep DEF RateNext

(* Nobody has been counted yet.                                            *)
LEMMA RateInvInit == RateInit => RateInv
<1> SUFFICES ASSUME RateInit PROVE RateInv
  OBVIOUS
<1> USE RateLimitAssumption, FS_EmptySet DEF RateInit
<1>1. RateTypeOK /\ ClocksRead
  BY DEF RateTypeOK, ClocksRead, LimitedPost, Ticks
<1>2. CountedLeft /\ KeyOutlives /\ OutIsOver
  BY DEF CountedLeft, KeyOutlives, OutIsOver
<1>3. LimitHolds
  BY DEF LimitHolds
<1>4. QED
  BY <1>1, <1>2, <1>3 DEF RateInv

(* The sorted set, the clocks and the waits that are told keep their form. *)
THEOREM RateTypes == RateSpec => []RateTypeOK
<1>1. RateInv /\ [RateNext]_rateVars => RateInv'
  BY RateInvStep
<1>2. RateInv => RateTypeOK
  BY DEF RateInv
<1>3. QED
  BY <1>1, <1>2, RateInvInit, PTL DEF RateSpec

(* No more than Limit requests of one identity are counted in within a     *)
(* window, less the delay by which scripts may overtake one another.       *)
THEOREM LimitKept == RateSpec => []LimitHolds
<1>1. RateInv /\ [RateNext]_rateVars => RateInv'
  BY RateInvStep
<1>2. RateInv => LimitHolds
  BY DEF RateInv
<1>3. QED
  BY <1>1, <1>2, RateInvInit, PTL DEF RateSpec

------------------------------------------------------------------------------
(* Idempotency: keys and entries.                                          *)

(* Every request has a key of the store.                                   *)
LEMMA KeyType ==
  ASSUME ReservationTypeOK, NEW r \in Requests
  PROVE  ReservationKey(r) \in Keys
BY DEF ReservationTypeOK, ReservationKey, Keys

(* A key does not change hands: a step leaves whose request it is alone.   *)
LEMMA KeysStay ==
  ASSUME ReservationNext
  PROVE  /\ viewer' = viewer /\ key' = key
         /\ \A r \in Requests : ReservationKey(r)' = ReservationKey(r)
BY DEF ReservationNext, Step, WindowPasses, Reserve, LoseReserve, Replay, Conflict,
       FailOpen, CommitWrite, Throw, Complete, Release, ReservationKey

(* What SET NX EX stores is an entry.                                      *)
LEMMA FreshType == FreshPending \in Entry /\ FreshPending # Absent
BY WindowAssumption, StoreAssumption DEF FreshPending, Entry

(* What complete stores is an entry with the time the old one had.         *)
LEMMA KeptType ==
  ASSUME NEW e \in Entry \cup {Absent}, NEW r \in Requests
  PROVE  /\ Kept(e, r) \in Entry
         /\ Kept(e, r) # Absent
         /\ Kept(e, r).value = r
         /\ e # Absent => Kept(e, r).ttl = e.ttl
BY StoreAssumption DEF Kept, Entry

(* A tick takes one from the time that is left, or the entry away.         *)
LEMMA AgedType ==
  ASSUME NEW e \in Entry \cup {Absent}
  PROVE  /\ Aged(e) \in Entry \cup {Absent}
         /\ Aged(e) # Absent => e # Absent /\ Aged(e).value = e.value
         /\ e # Absent /\ e.ttl \in Nat /\ e.ttl > 1 =>
              Aged(e) # Absent /\ Aged(e).ttl = e.ttl - 1
<1>1. CASE e = Absent
  BY <1>1 DEF Aged
<1>2. CASE e # Absent /\ e.ttl = Forever
  BY <1>2, WindowAssumption DEF Aged, Entry
<1>3. CASE e # Absent /\ e.ttl # Forever
  <2>1. e \in Entry /\ e.ttl \in 1..Window
    BY <1>3 DEF Entry
  <2>2. CASE e.ttl = 1
    BY <1>3, <2>1, <2>2 DEF Aged
  <2>3. CASE e.ttl # 1
    <3>1. Aged(e) = [e EXCEPT !.ttl = @ - 1]
      BY <1>3, <2>3 DEF Aged
    <3>2. e.ttl - 1 \in 1..Window
      BY <2>1, <2>3, WindowAssumption
    <3>3. Aged(e) \in Entry /\ Aged(e).value = e.value /\ Aged(e).ttl = e.ttl - 1
      BY <2>1, <3>1, <3>2 DEF Entry
    <3>4. QED
      BY <1>3, <3>3, StoreAssumption
  <2>4. QED
    BY <2>2, <2>3
<1>4. QED
  BY <1>1, <1>2, <1>3

------------------------------------------------------------------------------
(* Types.                                                                  *)

(* Writing an entry or deleting one keeps the store typed.                 *)
LEMMA StoreType ==
  ASSUME ReservationTypeOK, NEW k, NEW e \in Entry \cup {Absent}
  PROVE  [store EXCEPT ![k] = e] \in [Keys -> Entry \cup {Absent}]
BY DEF ReservationTypeOK

(* A handler that ends, late or not, is still a handler.                   *)
LEMMA LateType ==
  ASSUME ReservationTypeOK, NEW r \in Requests, NEW label \in {"done", "failed"}
  PROVE  [req EXCEPT ![r].pc = label, ![r].late = Late(r)] \in [Requests -> Handler]
<1> DEFINE late == Late(r)
<1>1. late \in BOOLEAN
  BY DEF Late, ReservationTypeOK, Handler
<1> HIDE DEF late
<1>2. PICK row : row = [req[r] EXCEPT !.pc = label, !.late = late]
  OBVIOUS
<1>3. row \in Handler
  <2>1. req[r] \in Handler
    BY DEF ReservationTypeOK
  <2>2. \A h \in Handler : [h EXCEPT !.pc = label, !.late = late] \in Handler
    BY <1>1 DEF Handler
  <2>3. QED
    BY <1>2, <2>1, <2>2
<1>4. [req EXCEPT ![r] = row] \in [Requests -> Handler]
  BY <1>3 DEF ReservationTypeOK
<1>5. [req EXCEPT ![r].pc = label, ![r].late = late] = [req EXCEPT ![r] = row]
  BY <1>2 DEF ReservationTypeOK
<1>6. QED
  BY <1>4, <1>5 DEF late

(* A step keeps the types.                                                 *)
LEMMA TypeStep ==
  ASSUME ReservationTypeOK, [ReservationNext]_reservationVars
  PROVE  ReservationTypeOK'
<1> USE DEF ReservationTypeOK
<1>1. CASE WindowPasses
  <2>1. store' \in [Keys -> Entry \cup {Absent}]
    BY <1>1, AgedType DEF WindowPasses
  <2>2. ASSUME NEW r \in Requests
        PROVE  req'[r] \in Handler
    <3> DEFINE h == req[r]
               left == IF h.left = 0 THEN 0 ELSE h.left - 1
    <3>1. h \in Handler
      OBVIOUS
    <3>2. left \in 0..Window
      BY <3>1, WindowAssumption DEF Handler
    <3>3. req'[r] = [h EXCEPT !.left = left]
      BY <1>1 DEF WindowPasses
    <3>4. QED
      BY <3>1, <3>2, <3>3 DEF Handler
  <2>3. req' = [r \in Requests |-> req'[r]]
    BY <1>1 DEF WindowPasses
  <2>4. QED
    BY <1>1, <2>1, <2>2, <2>3 DEF WindowPasses
<1>2. ASSUME NEW r \in Requests, Step(r)
      PROVE  ReservationTypeOK'
  <2> DEFINE k == ReservationKey(r)
  <2>0. store[k] \in Entry \cup {Absent}
    BY KeyType
  <2>1. CASE Reserve(r)
    <3>1. \A h \in Handler : [h EXCEPT !.owns = TRUE] \in Handler
      BY Zenon DEF Handler
    <3>2. \A h \in Handler : [h EXCEPT !.pc = "writing"] \in Handler
      BY DEF Handler
    <3>3. \A h \in Handler : [h EXCEPT !.left = Window] \in Handler
      BY WindowAssumption DEF Handler
    <3>4. \A q \in Requests : req'[q] = IF q = r
            THEN [[[req[r] EXCEPT !.pc = "writing"] EXCEPT !.owns = TRUE] EXCEPT !.left = Window]
            ELSE req[q]
      BY <2>1, Zenon DEF Reserve
    <3>5. req' \in [Requests -> Handler]
      BY <2>1, <3>1, <3>2, <3>3, <3>4 DEF Reserve
    <3>6. QED
      BY <2>1, <3>5, FreshType, StoreType DEF Reserve
  <2>2. CASE LoseReserve(r)
    BY <2>2 DEF LoseReserve, Proceed, Handler
  <2>3. CASE Replay(r)
    <3>1. store[k].value \in Requests
      BY <2>0, <2>3 DEF Replay, HasResult, Entry
    <3>2. PICK held \in Requests : req' = [req EXCEPT ![r].pc = "replayed", ![r].from = held]
      BY <2>3, <3>1 DEF Replay
    <3>3. \A h \in Handler : [[h EXCEPT !.pc = "replayed"] EXCEPT !.from = held] \in Handler
      BY DEF Handler
    <3>4. req' = [req EXCEPT ![r] = [[req[r] EXCEPT !.pc = "replayed"] EXCEPT !.from = held]]
      BY <3>2
    <3>5. req' \in [Requests -> Handler]
      BY <3>3, <3>4
    <3>6. QED
      BY <2>3, <3>5 DEF Replay
  <2>4. CASE Conflict(r)
    BY <2>4 DEF Conflict, Proceed, Handler
  <2>5. CASE FailOpen(r)
    BY <2>5, FreshType, StoreType DEF FailOpen, Proceed, Handler
  <2>6. CASE CommitWrite(r)
    BY <2>6 DEF CommitWrite, Proceed, Handler
  <2>7. CASE Throw(r)
    BY <2>7 DEF Throw, Proceed, Handler
  <2>8. CASE Complete(r)
    <3>1. req' \in [Requests -> Handler]
      BY <2>8, LateType DEF Complete
    <3>2. Kept(store[k], r) \in Entry
      BY <2>0, KeptType
    <3>3. store' \in [Keys -> Entry \cup {Absent}]
      BY <2>8, <3>2, StoreType DEF Complete
    <3>4. QED
      BY <2>8, <3>1, <3>3 DEF Complete
  <2>9. CASE Release(r)
    <3>1. req' \in [Requests -> Handler]
      BY <2>9, LateType DEF Release
    <3>2. QED
      BY <2>9, <3>1, StoreType DEF Release
  <2>10. QED
    BY <1>2, <2>1, <2>2, <2>3, <2>4, <2>5, <2>6, <2>7, <2>8, <2>9 DEF Step
<1>3. CASE UNCHANGED reservationVars
  BY <1>3 DEF reservationVars
<1>4. QED
  BY <1>1, <1>2, <1>3 DEF ReservationNext

(* Keys, entries and handlers keep their form through failures and ticks.  *)
THEOREM ReservationTypes == ReservationSpec => []ReservationTypeOK
<1>1. ReservationInit => ReservationTypeOK
  BY WindowAssumption DEF ReservationInit, ReservationTypeOK, Handler
<1>2. ReservationTypeOK /\ [ReservationNext]_reservationVars => ReservationTypeOK'
  BY TypeStep
<1>3. QED
  BY <1>1, <1>2, PTL DEF ReservationSpec

------------------------------------------------------------------------------
(* Whose result is replayed.                                               *)

(* A stored result is of a committed request of that key, which is over;   *)
(* so is every replayed one.                                               *)
ResultsAreOwn ==
  \A k \in Keys :
    HasResult(store[k]) =>
      /\ ReservationKey(store[k].value) = k
      /\ req[store[k].value].pc = "done"

ReplayInv == ResultsAreOwn /\ ReplaysOwnResult

(* What a step does to the results: one may be added by the handler that   *)
(* committed it, the others stay or go.                                    *)
LEMMA ResultStep ==
  ASSUME ReservationTypeOK, [ReservationNext]_reservationVars,
         NEW k \in Keys, HasResult(store'[k])
  PROVE  \/ HasResult(store[k]) /\ store'[k].value = store[k].value
         \/ \E r \in Requests : Complete(r) /\ ReservationKey(r) = k /\ store'[k].value = r
<1> USE DEF HasResult
<1>0. store[k] \in Entry \cup {Absent}
  BY DEF ReservationTypeOK
<1>1. CASE WindowPasses
  BY <1>0, <1>1, AgedType DEF WindowPasses
<1>2. ASSUME NEW r \in Requests, Complete(r)
      PROVE  \/ HasResult(store[k]) /\ store'[k].value = store[k].value
             \/ Complete(r) /\ ReservationKey(r) = k /\ store'[k].value = r
  <2>1. CASE ReservationKey(r) = k /\ store' # store
    <3>1. store'[k] = Kept(store[k], r)
      BY <1>2, <2>1 DEF Complete, ReservationTypeOK
    <3>2. QED
      BY <1>0, <1>2, <2>1, <3>1, KeptType
  <2>2. CASE ~(ReservationKey(r) = k /\ store' # store)
    <3>1. store'[k] = store[k]
      BY <1>2, <2>2 DEF Complete, ReservationTypeOK
    <3>2. QED
      BY <3>1
  <2>3. QED
    BY <2>1, <2>2
<1>3. ASSUME NEW r \in Requests, Step(r), ~Complete(r)
      PROVE  HasResult(store[k]) /\ store'[k] = store[k]
  <2>1. \/ store' = store
        \/ store' = [store EXCEPT ![ReservationKey(r)] = FreshPending]
        \/ store' = [store EXCEPT ![ReservationKey(r)] = Absent]
    BY <1>3 DEF Step, Reserve, LoseReserve, Replay, Conflict, FailOpen, CommitWrite,
                Throw, Release
  <2>2. ~HasResult(FreshPending) /\ ~HasResult(Absent)
    BY DEF FreshPending
  <2>3. QED
    BY <2>1, <2>2 DEF ReservationTypeOK
<1>4. CASE UNCHANGED reservationVars
  BY <1>4 DEF reservationVars
<1>5. QED
  BY <1>1, <1>2, <1>3, <1>4 DEF ReservationNext

(* A handler that is done or has replayed stays so.                        *)
LEMMA EndsStay ==
  ASSUME ReservationTypeOK, [ReservationNext]_reservationVars, NEW r \in Requests
  PROVE  /\ req[r].pc \in {"done", "replayed"} => req'[r].pc = req[r].pc /\ req'[r].from = req[r].from
         /\ req'[r].pc = "replayed" => req[r].pc = "replayed" \/ Replay(r)
<1> USE DEF ReservationTypeOK, Handler
<1>1. CASE WindowPasses
  BY <1>1 DEF WindowPasses
<1>2. ASSUME NEW q \in Requests, Step(q), q # r
      PROVE  req'[r] = req[r]
  BY <1>2 DEF Step, Reserve, LoseReserve, Replay, Conflict, FailOpen, CommitWrite,
              Throw, Complete, Release, Proceed
<1>3. CASE Reserve(r) \/ LoseReserve(r) \/ Conflict(r) \/ FailOpen(r)
  BY <1>3 DEF Reserve, LoseReserve, Conflict, FailOpen, Proceed
<1>4. CASE CommitWrite(r) \/ Throw(r) \/ Complete(r) \/ Release(r)
  BY <1>4 DEF CommitWrite, Throw, Complete, Release, Proceed
<1>5. CASE Replay(r)
  BY <1>5 DEF Replay
<1>6. CASE UNCHANGED reservationVars
  BY <1>6 DEF reservationVars
<1>7. QED
  BY <1>1, <1>2, <1>3, <1>4, <1>5, <1>6 DEF ReservationNext, Step

(* Results and replays stay their owners'.                                 *)
LEMMA ReplayStep ==
  ASSUME ReservationTypeOK, ReplayInv, [ReservationNext]_reservationVars
  PROVE  ReplayInv'
<1>1. viewer' = viewer /\ key' = key
  BY KeysStay DEF reservationVars
<1>2. ResultsAreOwn'
  <2> SUFFICES ASSUME NEW k \in Keys, HasResult(store'[k])
               PROVE  /\ ReservationKey(store'[k].value) = k
                      /\ req'[store'[k].value].pc = "done"
    BY <1>1 DEF ResultsAreOwn, ReservationKey, HasResult
  <2>1. CASE HasResult(store[k]) /\ store'[k].value = store[k].value
    <3>1. store[k].value \in Requests
      BY <2>1 DEF HasResult, ReservationTypeOK, Entry
    <3>2. QED
      BY <2>1, <3>1, EndsStay DEF ReplayInv, ResultsAreOwn
  <2>2. ASSUME NEW r \in Requests, Complete(r), ReservationKey(r) = k, store'[k].value = r
        PROVE  req'[r].pc = "done"
    BY <2>2 DEF Complete, ReservationTypeOK, Handler
  <2>3. QED
    BY <2>1, <2>2, ResultStep
<1>3. ReplaysOwnResult'
  <2> SUFFICES ASSUME NEW r \in Requests, req'[r].pc = "replayed"
               PROVE  /\ viewer[req'[r].from] = viewer[r] /\ key[req'[r].from] = key[r]
                      /\ req'[req'[r].from].pc = "done"
    BY <1>1 DEF ReplaysOwnResult
  <2>1. CASE req[r].pc = "replayed"
    <3>1. req[r].from \in Requests
      BY DEF ReservationTypeOK, Handler
    <3>2. QED
      BY <2>1, <3>1, EndsStay DEF ReplayInv, ReplaysOwnResult
  <2>2. CASE Replay(r)
    <3> DEFINE held == store[ReservationKey(r)]
    <3>1. req'[r].from = held.value /\ HasResult(held)
      BY <2>2 DEF Replay, ReservationTypeOK, Handler
    <3>2. held.value \in Requests
      BY <3>1, KeyType DEF HasResult, ReservationTypeOK, Entry
    <3>3. ReservationKey(held.value) = ReservationKey(r) /\ req[held.value].pc = "done"
      BY <3>1, KeyType DEF ReplayInv, ResultsAreOwn
    <3>4. req'[held.value].pc = "done"
      BY <3>2, <3>3, EndsStay
    <3>5. QED
      BY <3>1, <3>3, <3>4 DEF ReservationKey
  <2>3. QED
    BY <2>1, <2>2, EndsStay
<1>4. QED
  BY <1>2, <1>3 DEF ReplayInv

(* A key replays only a committed result of its own viewer, whatever fails,*)
(* expires or is deleted by a stranger to the reservation.                 *)
THEOREM ReplaysAreOwn == ReservationSpec => []ReplaysOwnResult
<1>1. ReservationInit => ReplayInv
  BY DEF ReservationInit, ReplayInv, ResultsAreOwn, HasResult, ReplaysOwnResult
<1>2. ReservationTypeOK /\ ReplayInv /\ [ReservationNext]_reservationVars => ReplayInv'
  BY ReplayStep
<1>3. ReplayInv => ReplaysOwnResult
  BY DEF ReplayInv
<1>4. QED
  BY <1>1, <1>2, <1>3, ReservationTypes, PTL DEF ReservationSpec

------------------------------------------------------------------------------
(* One writer in a window.                                                 *)

(* r reserved its key, has not released it, and its window is not over.    *)
Holds(r) == req[r].owns /\ req[r].left > 0 /\ req[r].pc # "failed"

Duplicates(k) == {r \in Requests : ReservationKey(r) = k}

(* Among handlers of which none strayed, whoever holds the key is alone,   *)
(* and the entry in Redis lives exactly as long as that window.            *)
EntryIsHolders(k) ==
  (\A r \in Duplicates(k) : ~Stray(r)) =>
    \A r \in Duplicates(k) :
      Holds(r) => /\ store[k] # Absent /\ store[k].ttl = req[r].left
                  /\ \A q \in Duplicates(k) : Holds(q) => q = r

(* Before its reservation a handler owns nothing.                          *)
OwnsByReserving ==
  \A r \in Requests : req[r].pc \in {"idle", "held"} => ~req[r].owns

WindowInv == OwnsByReserving /\ \A k \in Keys : EntryIsHolders(k)

(* Who has strayed stays astray: unreserved is for good, and so is late.   *)
LEMMA StrayStays ==
  ASSUME ReservationTypeOK, [ReservationNext]_reservationVars,
         NEW r \in Requests, Stray(r)
  PROVE  Stray(r)'
<1> USE DEF ReservationTypeOK, Handler, Stray, Late
<1>1. CASE WindowPasses
  <2>1. /\ req'[r].pc = req[r].pc /\ req'[r].owns = req[r].owns
        /\ req'[r].late = req[r].late
    BY <1>1 DEF WindowPasses
  <2>2. QED
    BY <2>1
<1>2. ASSUME NEW q \in Requests, Step(q), q # r
      PROVE  req'[r] = req[r]
  BY <1>2 DEF Step, Reserve, LoseReserve, Replay, Conflict, FailOpen, CommitWrite,
              Throw, Complete, Release, Proceed
<1>3. CASE Reserve(r) \/ LoseReserve(r) \/ Conflict(r) \/ FailOpen(r)
  BY <1>3 DEF Reserve, LoseReserve, Conflict, FailOpen, Proceed
<1>4. CASE CommitWrite(r) \/ Throw(r) \/ Complete(r) \/ Release(r)
  BY <1>4 DEF CommitWrite, Throw, Complete, Release, Proceed
<1>5. CASE Replay(r)
  BY <1>5 DEF Replay
<1>6. CASE UNCHANGED reservationVars
  BY <1>6 DEF reservationVars
<1>7. QED
  BY <1>1, <1>2, <1>3, <1>4, <1>5, <1>6 DEF ReservationNext, Step

(* A handler's step leaves other handlers and other keys alone.            *)
LEMMA OthersStay ==
  ASSUME ReservationTypeOK, NEW r \in Requests, Step(r)
  PROVE  /\ \A q \in Requests \ {r} : req'[q] = req[q]
         /\ \A k \in Keys \ {ReservationKey(r)} : store'[k] = store[k]
<1> USE DEF ReservationTypeOK
<1>1. \A q \in Requests \ {r} : req'[q] = req[q]
  BY DEF Step, Reserve, LoseReserve, Replay, Conflict, FailOpen, CommitWrite, Throw,
         Complete, Release, Proceed
<1>2. \A k \in Keys \ {ReservationKey(r)} : store'[k] = store[k]
  BY DEF Step, Reserve, LoseReserve, Replay, Conflict, FailOpen, CommitWrite, Throw,
         Complete, Release
<1>3. QED
  BY <1>1, <1>2

(* The holder's time and its entry's run out together.                     *)
LEMMA WindowTicks ==
  ASSUME ReservationTypeOK, WindowPasses, NEW k \in Keys, NEW r \in Requests
  PROVE  /\ Holds(r)' => Holds(r)
         /\ Holds(r)' /\ store[k] # Absent /\ store[k].ttl = req[r].left =>
              store'[k] # Absent /\ store'[k].ttl = req'[r].left
<1> USE DEF ReservationTypeOK, Handler
<1> DEFINE left == req[r].left
<1>1. /\ req'[r].pc = req[r].pc /\ req'[r].owns = req[r].owns
      /\ req'[r].left = IF left = 0 THEN 0 ELSE left - 1
  BY DEF WindowPasses
<1>2. left \in Nat
  BY WindowAssumption
<1>3. Holds(r)' => Holds(r) /\ left > 1 /\ req'[r].left = left - 1
  BY <1>1, <1>2 DEF Holds
<1>4. store'[k] = Aged(store[k]) /\ store[k] \in Entry \cup {Absent}
  BY DEF WindowPasses
<1>5. QED
  BY <1>2, <1>3, <1>4, AgedType

(* The steps of one handler, seen from a key on which nobody strays.       *)
LEMMA WindowStep ==
  ASSUME ReservationTypeOK, WindowInv, [ReservationNext]_reservationVars
  PROVE  WindowInv'
<1> USE DEF ReservationTypeOK, Handler
<1>0. \A r \in Requests : ReservationKey(r)' = ReservationKey(r) /\ ReservationKey(r) \in Keys
  BY KeysStay, KeyType DEF reservationVars, ReservationKey
<1>1. OwnsByReserving'
  <2> USE DEF OwnsByReserving, WindowInv
  <2>1. CASE WindowPasses
    <3>1. \A r \in Requests : req'[r].pc = req[r].pc /\ req'[r].owns = req[r].owns
      BY <2>1 DEF WindowPasses
    <3>2. QED
      BY <3>1
  <2>2. ASSUME NEW r \in Requests, Step(r), NEW q \in Requests
        PROVE  (req[q].pc \in {"idle", "held"} => ~req[q].owns)'
    <3>1. CASE q # r
      <4>1. req'[q] = req[q]
        BY <2>2, <3>1 DEF Step, Reserve, LoseReserve, Replay, Conflict, FailOpen,
                          CommitWrite, Throw, Complete, Release, Proceed
      <4>2. QED
        BY <4>1
    <3>2. CASE q = r /\ LoseReserve(r)
      BY <3>2 DEF LoseReserve, Proceed
    <3>3. CASE q = r /\ ~LoseReserve(r)
      <4>1. req'[q].pc \notin {"idle", "held"}
        BY <2>2, <3>3 DEF Step, Reserve, Replay, Conflict, FailOpen,
                          CommitWrite, Throw, Complete, Release, Proceed
      <4>2. QED
        BY <4>1
    <3>4. QED
      BY <3>1, <3>2, <3>3
  <2>3. CASE UNCHANGED reservationVars
    BY <2>3 DEF reservationVars
  <2>4. QED
    BY <2>1, <2>2, <2>3 DEF ReservationNext
<1>2. ASSUME NEW k \in Keys
      PROVE  EntryIsHolders(k)'
  <2>0. EntryIsHolders(k)
    BY DEF WindowInv
  <2> SUFFICES ASSUME \A r \in Duplicates(k) : ~Stray(r)'
               PROVE  \A r \in Duplicates(k) :
                        Holds(r)' => /\ store'[k] # Absent /\ store'[k].ttl = req'[r].left
                                     /\ \A q \in Duplicates(k) : Holds(q)' => q = r
    BY <1>0 DEF EntryIsHolders, Duplicates
  <2>1. \A r \in Duplicates(k) : ~Stray(r)
    BY StrayStays DEF Duplicates
  <2>2. \A r \in Duplicates(k) :
          Holds(r) => /\ store[k] # Absent /\ store[k].ttl = req[r].left
                      /\ \A q \in Duplicates(k) : Holds(q) => q = r
    BY <2>0, <2>1 DEF EntryIsHolders
  <2>3. CASE WindowPasses
    <3>1. \A r \in Duplicates(k) :
            /\ Holds(r)' => Holds(r)
            /\ Holds(r)' => store'[k] # Absent /\ store'[k].ttl = req'[r].left
      BY <2>2, <2>3, WindowTicks DEF Duplicates
    <3>2. QED
      BY <2>2, <3>1
  <2>4. ASSUME NEW r \in Requests \ Duplicates(k), Step(r)
        PROVE  store'[k] = store[k] /\ \A q \in Duplicates(k) : req'[q] = req[q]
    BY <2>4, OthersStay DEF Duplicates
  <2>5. ASSUME NEW r \in Duplicates(k), Step(r)
        PROVE  \A q \in Duplicates(k) \ {r} : req'[q] = req[q]
    BY <2>5, OthersStay DEF Duplicates
  <2>6. ASSUME NEW r \in Duplicates(k), Reserve(r)
        PROVE  /\ store'[k] # Absent /\ store'[k].ttl = req'[r].left
               /\ \A q \in Duplicates(k) \ {r} : ~Holds(q)
    <3>1. store[k] = Absent /\ store'[k] = FreshPending /\ req'[r].left = Window
      BY <2>6 DEF Reserve, Duplicates
    <3>2. QED
      BY <2>2, <3>1, FreshType DEF FreshPending
  <2>7. ASSUME NEW r \in Duplicates(k),
               LoseReserve(r) \/ Replay(r) \/ Conflict(r) \/ CommitWrite(r) \/ Throw(r)
        PROVE  store' = store /\ req'[r].left = req[r].left /\ (Holds(r)' => Holds(r))
    BY <2>7 DEF LoseReserve, Replay, Conflict, CommitWrite, Throw, Proceed, Holds, Duplicates
  <2>8. ASSUME NEW r \in Duplicates(k), FailOpen(r)
        PROVE  FALSE
    BY <2>8 DEF FailOpen, Proceed, Stray, WindowInv, OwnsByReserving, Duplicates
  <2>9. ASSUME NEW r \in Duplicates(k), Complete(r) \/ Release(r)
        PROVE  Holds(r) /\ req'[r].left = req[r].left
    BY <2>1, <2>9 DEF Complete, Release, Stray, Late, Holds, Duplicates
  <2>10. ASSUME NEW r \in Duplicates(k), Complete(r)
         PROVE  store'[k] # Absent /\ store'[k].ttl = store[k].ttl
    <3>1. store[k] # Absent /\ (store'[k] = store[k] \/ store'[k] = Kept(store[k], r))
      <4>1. store[k] # Absent /\ k = ReservationKey(r)
        BY <2>2, <2>9, <2>10 DEF Duplicates
      <4>2. store' = store \/ store' = [store EXCEPT ![k] = Kept(store[k], r)]
        BY <2>10, <4>1 DEF Complete
      <4>3. QED
        BY <4>1, <4>2
    <3>2. QED
      BY <3>1, KeptType DEF Duplicates
  <2>11. ASSUME NEW r \in Duplicates(k), Release(r)
         PROVE  ~Holds(r)'
    BY <2>11 DEF Release, Holds, Duplicates
  <2>12. CASE UNCHANGED reservationVars
    BY <2>2, <2>12 DEF reservationVars, Holds
  <2>13. ASSUME NEW r \in Duplicates(k), Step(r)
         PROVE  \A q \in Duplicates(k) :
                  Holds(q)' => /\ store'[k] # Absent /\ store'[k].ttl = req'[q].left
                               /\ \A p \in Duplicates(k) : Holds(p)' => p = q
    <3>1. \A q \in Duplicates(k) \ {r} : Holds(q)' <=> Holds(q)
      BY <2>5, <2>13 DEF Holds
    <3>2. CASE Reserve(r)
      BY <2>6, <3>1, <3>2
    <3>3. CASE LoseReserve(r) \/ Replay(r) \/ Conflict(r) \/ CommitWrite(r) \/ Throw(r)
      BY <2>2, <2>5, <2>7, <2>13, <3>1, <3>3
    <3>4. CASE FailOpen(r)
      BY <2>8, <3>4
    <3>5. CASE Complete(r)
      BY <2>2, <2>9, <2>10, <3>1, <3>5
    <3>6. CASE Release(r)
      BY <2>2, <2>9, <2>11, <3>1, <3>6
    <3>7. QED
      BY <2>13, <3>2, <3>3, <3>4, <3>5, <3>6 DEF Step
  <2>14. ASSUME NEW r \in Requests \ Duplicates(k), Step(r)
         PROVE  \A q \in Duplicates(k) :
                  Holds(q)' => /\ store'[k] # Absent /\ store'[k].ttl = req'[q].left
                               /\ \A p \in Duplicates(k) : Holds(p)' => p = q
    BY <2>2, <2>4, <2>14 DEF Holds
  <2>15. QED
    BY <2>3, <2>12, <2>13, <2>14 DEF ReservationNext
<1>3. QED
  BY <1>1, <1>2 DEF WindowInv

(* SDD 5.2: of the duplicates of a request at most one is admitted in a    *)
(* window, unless one of them wrote unreserved or outlived its window.     *)
THEOREM AdmittedOnce == ReservationSpec => []OnceAWindow
<1>1. ReservationInit => WindowInv
  BY DEF ReservationInit, WindowInv, OwnsByReserving, EntryIsHolders, Holds, Duplicates
<1>2. ReservationTypeOK /\ WindowInv /\ [ReservationNext]_reservationVars => WindowInv'
  BY WindowStep
<1>3. WindowInv => OnceAWindow
  BY DEF WindowInv, EntryIsHolders, OnceAWindow, Admitted, Holds, Duplicates
<1>4. QED
  BY <1>1, <1>2, <1>3, ReservationTypes, PTL DEF ReservationSpec
==============================================================================
