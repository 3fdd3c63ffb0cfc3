------------------------------- MODULE JobQueue -------------------------------
(***************************************************************************)
(* The background workers: startJobWorker of job-queue.js and runWorker,   *)
(* over the queue BullMQ keeps in Redis. A worker process registers the    *)
(* schedules of its release and removes those of the last, takes one job at*)
(* a time, and may be killed between any two commands; a failed job waits  *)
(* and is tried again, up to JOB_ATTEMPTS times. BullMQ itself fails a job *)
(* that stalls more often than maxStalledCount, however few its attempts.  *)
(***************************************************************************)
EXTENDS Naturals, FiniteSets

CONSTANTS JobNames,     \* the jobs of this release
          RetiredNames, \* jobs of an earlier release
          Tickets,      \* the job instances the queue may ever hold
          JobAttempts,  \* JOB_ATTEMPTS
          MaxStalled,   \* BullMQ's maxStalledCount, left at its default
          NoName,       \* a ticket not drawn yet
          NoTicket      \* the worker has nothing in hand

ASSUME JobQueueAssumption == JobAttempts \in Nat \ {0} /\ MaxStalled \in Nat

VARIABLES
  schedules,  \* the job schedulers in Redis
  tickets,    \* the jobs in Redis
  worker,     \* the process
  alerted,    \* failures handed to onExhausted
  lost        \* failures whose event died with the process

queueVars == <<schedules, tickets, worker, alerted, lost>>

Ticket == [name : JobNames \cup RetiredNames \cup {NoName},
           state : {"none", "waiting", "active", "delayed", "completed", "failed"},
           made : 0..JobAttempts, stalls : 0..MaxStalled + 1]
Worker == [pc : {"down", "prune", "upsert", "ready", "running", "event"},
           ticket : Tickets \cup {NoTicket}]

QueueInit ==
  /\ schedules = RetiredNames
  /\ tickets = [t \in Tickets |->
                  [name |-> NoName, state |-> "none", made |-> 0, stalls |-> 0]]
  /\ worker = [pc |-> "down", ticket |-> NoTicket]
  /\ alerted = {} /\ lost = {}

------------------------------------------------------------------------------
(* BullMQ: a schedule adds its next job once the last one has been taken.  *)
Fire(n) ==
  /\ n \in schedules
  /\ \A t \in Tickets : ~(tickets[t].name = n /\ tickets[t].state = "waiting")
  /\ \E t \in Tickets :
       /\ tickets[t].state = "none"
       /\ tickets' = [tickets EXCEPT ![t] =
                        [name |-> n, state |-> "waiting", made |-> 0, stalls |-> 0]]
  /\ UNCHANGED <<schedules, worker, alerted, lost>>

(* The end of the backoff.                                                 *)
BackoffEnds(t) ==
  /\ tickets[t].state = "delayed"
  /\ tickets' = [tickets EXCEPT ![t].state = "waiting"]
  /\ UNCHANGED <<schedules, worker, alerted, lost>>

(* A job whose worker died goes back to the queue, and the stall is counted*)
Stalled(t) ==
  /\ tickets[t].state = "active" /\ worker.ticket # t
  /\ tickets' = [tickets EXCEPT ![t].state = "waiting", ![t].stalls = @ + 1]
  /\ UNCHANGED <<schedules, worker, alerted, lost>>

(* One that stalled too often is failed instead of run, with an attempt    *)
(* counted for it or not, and the worker hears of it as of any failure.    *)
StalledTooOften(t) == tickets[t].stalls > MaxStalled

FailStalled(t) ==
  /\ worker.pc = "ready"
  /\ tickets[t].state = "waiting" /\ StalledTooOften(t)
  /\ \E made \in {tickets[t].made, tickets[t].made + 1} :
       tickets' = [tickets EXCEPT ![t].state = "failed", ![t].made = made]
  /\ worker' = [pc |-> "event", ticket |-> t]
  /\ UNCHANGED <<schedules, alerted, lost>>

------------------------------------------------------------------------------
(* The process.                                                            *)
StartWorker ==
  /\ worker.pc = "down"
  /\ worker' = [pc |-> "prune", ticket |-> NoTicket]
  /\ UNCHANGED <<schedules, tickets, alerted, lost>>

(* A schedule this release has no job for is removed, one at a time;       *)
(* broken: none is.                                                        *)
NoneRetired == {}
Retired == schedules \ JobNames

RemoveScheduler ==
  /\ worker.pc = "prune"
  /\ IF Retired = {}
     THEN worker' = [worker EXCEPT !.pc = "upsert"] /\ UNCHANGED schedules
     ELSE /\ \E n \in Retired : schedules' = schedules \ {n}
          /\ UNCHANGED worker
  /\ UNCHANGED <<tickets, alerted, lost>>

UpsertScheduler ==
  /\ worker.pc = "upsert"
  /\ IF JobNames \subseteq schedules
     THEN worker' = [worker EXCEPT !.pc = "ready"] /\ UNCHANGED schedules
     ELSE /\ \E n \in JobNames \ schedules : schedules' = schedules \cup {n}
          /\ UNCHANGED worker
  /\ UNCHANGED <<tickets, alerted, lost>>

Take(t) ==
  /\ worker.pc = "ready"
  /\ tickets[t].state = "waiting" /\ ~StalledTooOften(t)
  /\ tickets' = [tickets EXCEPT ![t].state = "active"]
  /\ worker' = [pc |-> "running", ticket |-> t]
  /\ UNCHANGED <<schedules, alerted, lost>>

(* The job is done; one without a handler is done at once.                 *)
CompleteJob ==
  /\ worker.pc = "running"
  /\ tickets' = [tickets EXCEPT ![worker.ticket].state = "completed"]
  /\ worker' = [pc |-> "ready", ticket |-> NoTicket]
  /\ UNCHANGED <<schedules, alerted, lost>>

FailJob ==
  LET t == worker.ticket
      made == tickets[t].made + 1
  IN  /\ worker.pc = "running"
      /\ tickets[t].name \in JobNames
      /\ tickets' = [tickets EXCEPT ![t].made = made,
           ![t].state = IF made >= JobAttempts THEN "failed" ELSE "delayed"]
      /\ worker' = [worker EXCEPT !.pc = "event"]
      /\ UNCHANGED <<schedules, alerted, lost>>

(* The 'failed' event: what has attempts left is only logged, as one that  *)
(* will be retried. Broken: one attempt too many is waited for.            *)
OneMore(t) == tickets[t].made > JobAttempts
Exhausted(t) == tickets[t].made >= JobAttempts

FailedEvent ==
  /\ worker.pc = "event"
  /\ alerted' = IF Exhausted(worker.ticket) THEN alerted \cup {worker.ticket} ELSE alerted
  /\ worker' = [pc |-> "ready", ticket |-> NoTicket]
  /\ UNCHANGED <<schedules, tickets, lost>>

(* SIGTERM between two jobs: no other is taken. It also ends a start.      *)
Stop ==
  /\ worker.pc \in {"prune", "upsert", "ready"}
  /\ worker' = [worker EXCEPT !.pc = "down"]
  /\ UNCHANGED <<schedules, tickets, alerted, lost>>

Kill ==
  /\ worker.pc \in {"running", "event"}
  /\ worker' = [pc |-> "down", ticket |-> NoTicket]
  /\ lost' = IF worker.pc = "event" THEN lost \cup {worker.ticket} ELSE lost
  /\ UNCHANGED <<schedules, tickets, alerted>>

------------------------------------------------------------------------------
WorkerStep ==
  \/ StartWorker \/ RemoveScheduler \/ UpsertScheduler
  \/ CompleteJob \/ FailJob \/ FailedEvent
  \/ \E t \in Tickets : Take(t) \/ FailStalled(t)

QueueStep(t) == BackoffEnds(t) \/ Stalled(t)

QueueNext ==
  \/ WorkerStep \/ Stop \/ Kill
  \/ \E n \in JobNames \cup RetiredNames : Fire(n)
  \/ \E t \in Tickets : QueueStep(t)

QueueSpec == QueueInit /\ [][QueueNext]_queueVars

------------------------------------------------------------------------------
(* Properties.                                                             *)

(* The values every variable ranges over.                                  *)
QueueTypeOK ==
  /\ schedules \subseteq JobNames \cup RetiredNames
  /\ tickets \in [Tickets -> Ticket]
  /\ worker \in Worker
  /\ alerted \subseteq Tickets /\ lost \subseteq Tickets

(* A job whose attempts are used up is reported, and only such a job,      *)
(* whatever was killed in between, unless the process died on the very     *)
(* event; a job is failed with attempts left only for its stalls, which is *)
(* not reported but logged as a failure that will be retried; and once a   *)
(* worker has started, no schedule of an earlier release comes due again.  *)
Reported(t) == t \in alerted \cup lost \/ (worker.pc = "event" /\ worker.ticket = t)

GivenUpIsReported ==
  /\ \A t \in Tickets :
       /\ t \in alerted => tickets[t].state = "failed" /\ tickets[t].made = JobAttempts
       /\ tickets[t].state = "failed" =>
            \/ tickets[t].made = JobAttempts /\ Reported(t)
            \/ tickets[t].made < JobAttempts /\ StalledTooOften(t)
       /\ tickets[t].made = JobAttempts => tickets[t].state = "failed"
  /\ worker.pc \in {"ready", "running", "event"} => schedules = JobNames
==============================================================================
