------------------------------ MODULE SaveState ------------------------------
(***************************************************************************)
(* The save and tag write, the LINK of an anonymous identity at sign-in,   *)
(* and the nightly reconciliation, as concurrent MySQL transactions        *)
(* (services/save-state.service.js, account.service.js,                    *)
(* state-reconciliation.service.js, repositories/progress.repository.js,   *)
(* identity-bindings.repository.js, transaction.js).                       *)
(*                                                                         *)
(* Every statement that another transaction can tell apart is a step. No   *)
(* isolation level is set, so InnoDB runs REPEATABLE READ:                 *)
(*   - the first plain SELECT fixes what later plain SELECTs see, while    *)
(*     FOR UPDATE, INSERT and the upserts act on the latest rows;          *)
(*   - FOR UPDATE on a row that exists locks it; on a row that does not,   *)
(*     it locks the gap, which several transactions may hold at once and   *)
(*     which makes each other's INSERT wait;                               *)
(*   - the profile upsert locks the profile row, and the foreign key of    *)
(*     identity_bindings makes LINK wait for that lock, and conversely;    *)
(*   - a waiting transaction may be the deadlock victim or time out: it is *)
(*     rolled back and run again, at most TRANSACTION_ATTEMPTS times;      *)
(*   - AUTO_INCREMENT ids are handed out at INSERT and never rolled back.  *)
(* The last statement of a transaction and its COMMIT are one step: only   *)
(* the locks it already holds exist between them.                          *)
(***************************************************************************)
EXTENDS SaveTransitions

CONSTANTS Requests,      \* save requests, each handled once
          Links,         \* sign-ins that carry an anonymous identity
          Reconcilers,   \* the reconciliation job (one, or none)
          Offered,       \* the commands requests choose from
          MaxClock,      \* bound on the clock
          Attempts       \* TRANSACTION_ATTEMPTS

ASSUME ProcessAssumption ==
  /\ Requests \cap Links = {} /\ Requests \cap Reconcilers = {}
  /\ Links \cap Reconcilers = {}
  /\ Offered \subseteq Commands
  /\ MaxClock \in Nat
  /\ Attempts \in Nat \ {0}

Txs == Requests \cup Links \cup Reconcilers

VARIABLES
  events, rows, binding, profiles,  \* committed tables
  nextId,                           \* AUTO_INCREMENT of user_activity_events
  clock,                            \* the server's clock
  rowLocks, profileLock,            \* lock holders
  viewer, command,                  \* what each request and sign-in asks
  tx                                \* where each handler stands, what it read

database == <<events, rows, binding, profiles>>
locks == <<rowLocks, profileLock>>
inputs == <<viewer, command>>
vars == <<database, nextId, clock, locks, inputs, tx>>

Viewers == [user : Users \cup {Unbound}, anon : Anons]

Ended == {"done", "refused", "failed"}
Labels == {"idle", "again", "touch", "lock", "decide", "project", "bind",
           "derive", "repair"} \cup Ended

(* A handler's local state: its label, the attempt it is on, the binding   *)
(* its snapshot holds, the clock it read, the owner it writes for, the     *)
(* state it locked, the id of its event, and the rows it derived.          *)
Local == [pc : Labels, attempt : 1..Attempts, seen : Users \cup {Unbound},
          now : Nat, owner : Owners \cup {Unbound}, current : SaveStates,
          eventId : Nat, expected : [Targets -> Row]]

Blank == [pc |-> "idle", attempt |-> 1, seen |-> Unbound, now |-> 0,
          owner |-> Unbound, current |-> "unsaved", eventId |-> 0,
          expected |-> [t \in Targets |-> NoRow]]

(* A sign-in has an account.                                               *)
SignIns == \A l \in Links : viewer[l].user \in Users

(* Empty tables, no lock, and what everybody is going to ask.              *)
Empty ==
  /\ events = {}
  /\ rows = [o \in Owners |-> [t \in Targets |-> NoRow]]
  /\ binding = [a \in Anons |-> Unbound]
  /\ profiles = {}
  /\ nextId = 1
  /\ rowLocks = [o \in Owners |-> [t \in Targets |-> {}]]
  /\ profileLock = [a \in Anons |-> {}]
  /\ viewer \in [Requests \cup Links -> Viewers]
  /\ SignIns
  /\ command \in [Requests -> Offered]

Init ==
  /\ Empty
  /\ clock = 0
  /\ tx = [x \in Txs |-> Blank]

------------------------------------------------------------------------------
(* InnoDB's locks, and the end of a transaction.                           *)

Free(holders, x) == holders \subseteq {x}

(* SELECT ... FOR UPDATE of owner o's row for target t; broken: a plain    *)
(* SELECT, which waits for nobody.                                         *)
CanRead(x, o, t) == TRUE
CanLock(x, o, t) == HasRow(rows[o][t]) => Free(rowLocks[o][t], x)

(* INSERT into the gap that o's row for t would fill; broken: no gap locks.*)
CanFill(x, o, t) == TRUE
CanInsert(x, o, t) == Free(rowLocks[o][t], x)

ReleaseAll(x) ==
  /\ rowLocks' = [o \in Owners |-> [t \in Targets |-> rowLocks[o][t] \ {x}]]
  /\ profileLock' = [a \in Anons |-> profileLock[a] \ {x}]

(* The handler leaves its transaction: locks and local state are gone.     *)
End(x, label) ==
  /\ ReleaseAll(x)
  /\ tx' = [tx EXCEPT ![x] = [Blank EXCEPT !.pc = label]]

(* The job goes back to its schedule; a request or a sign-in has failed.   *)
GiveUp(x) == End(x, IF x \in Reconcilers THEN "idle" ELSE "failed")

------------------------------------------------------------------------------
(* applySaveAction, from its reservation to its answer.                    *)

(* BEGIN; targetExists is the first plain SELECT and fixes the snapshot,   *)
(* of which only the binding is read later; then clock() is read. An       *)
(* unknown target is refused with 404.                                     *)
FirstWait(r) ==
  CASE command[r].target \notin Catalogue -> "refused"
    [] viewer[r].user # Unbound           -> "lock"
    [] OTHER                              -> "touch"

Begin(r) ==
  /\ tx[r].pc \in {"idle", "again"}
  /\ tx' = [tx EXCEPT ![r].pc = FirstWait(r),
                      ![r].seen = binding[viewer[r].anon],
                      ![r].now = clock,
                      ![r].owner = viewer[r].user]
  /\ UNCHANGED <<database, nextId, clock, locks, inputs>>

(* resolveAnonymousOwner: the profile upsert takes the profile's row lock, *)
(* and findBoundUserId answers from the snapshot.                          *)
Touch(r) ==
  LET a == viewer[r].anon
  IN  /\ tx[r].pc = "touch"
      /\ Free(profileLock[a], r)
      /\ profileLock' = [profileLock EXCEPT ![a] = {r}]
      /\ tx' = [tx EXCEPT
                  ![r].pc = "lock",
                  ![r].owner = IF tx[r].seen = Unbound THEN a ELSE tx[r].seen]
      /\ UNCHANGED <<database, nextId, clock, rowLocks, inputs>>

(* The profile a committing save leaves behind.                            *)
Touched(r) == IF viewer[r].user = Unbound THEN {viewer[r].anon} ELSE {}

(* lockTargetState waits for the row, reads it, and holds it.              *)
Lock(r) ==
  LET o == tx[r].owner
      t == command[r].target
  IN  /\ tx[r].pc = "lock"
      /\ CanLock(r, o, t)
      /\ rowLocks' = [rowLocks EXCEPT ![o][t] = @ \cup {r}]
      /\ tx' = [tx EXCEPT ![r].pc = "decide", ![r].current = rows[o][t].state]
      /\ UNCHANGED <<database, nextId, clock, profileLock, inputs>>

(* decideTransition throws: the transaction rolls back.                    *)
Refuse(r) ==
  /\ tx[r].pc = "decide"
  /\ Refused(tx[r].current, command[r])
  /\ End(r, "refused")
  /\ UNCHANGED <<database, nextId, clock, inputs>>

(* decideTransition finds nothing to change: only the profile is written.  *)
Keep(r) ==
  /\ tx[r].pc = "decide"
  /\ NoOp(tx[r].current, command[r])
  /\ profiles' = profiles \cup Touched(r)
  /\ End(r, "done")
  /\ UNCHANGED <<events, rows, binding, nextId, clock, inputs>>

(* insertActivityEvent: the event gets its id, still uncommitted.          *)
Append(r) ==
  /\ tx[r].pc = "decide"
  /\ ~Refused(tx[r].current, command[r])
  /\ ~NoOp(tx[r].current, command[r])
  /\ tx' = [tx EXCEPT ![r].pc = "project", ![r].eventId = nextId]
  /\ nextId' = nextId + 1
  /\ UNCHANGED <<database, clock, locks, inputs>>

NewEvent(r) ==
  [id     |-> tx[r].eventId,
   owner  |-> tx[r].owner,
   target |-> command[r].target,
   type   |-> EventType(command[r]),
   value  |-> EventValue(command[r]),
   at     |-> tx[r].now]

(* upsertTargetState: a row that reflects a later event is left alone.     *)
Projected(row, state, id) ==
  IF id > row.last THEN [state |-> state, last |-> id] ELSE row

(* upsertTargetState and COMMIT.                                           *)
Project(r) ==
  LET o == tx[r].owner
      t == command[r].target
  IN  /\ tx[r].pc = "project"
      /\ CanInsert(r, o, t)
      /\ events' = events \cup {NewEvent(r)}
      /\ rows' = [rows EXCEPT ![o][t] =
                    Projected(@, NextState(command[r]), tx[r].eventId)]
      /\ profiles' = profiles \cup Touched(r)
      /\ End(r, "done")
      /\ UNCHANGED <<binding, nextId, clock, inputs>>

------------------------------------------------------------------------------
(* recomputeOwnerStates, inside a LINK or a reconciliation transaction.    *)

(* lockOwnerStates takes every row of the owner; then the events and the   *)
(* rows are read, so nothing is seen of a transaction still holding one.   *)
LockAndDerive(x, bound) ==
  LET o == tx[x].owner
  IN  /\ \A t \in Targets : CanLock(x, o, t)
      /\ rowLocks' = [rowLocks EXCEPT ![o] =
                        [t \in Targets |-> rowLocks[o][t] \cup {x}]]
      /\ tx' = [tx EXCEPT
                  ![x].pc = "repair",
                  ![x].expected =
                     [t \in Targets |-> Derive(EventsOf(o, events, bound), t)]]
      /\ UNCHANGED <<database, nextId, clock, profileLock, inputs>>

(* diffStates: a missing or a mismatched row drifts; a row that no event   *)
(* explains is reported and left in place.                                 *)
Drifted(want, have) == HasRow(want) /\ want # have

(* repairTargetState sets each drifted row to exactly what was derived.    *)
CanRepair(x) ==
  \A t \in Targets :
    Drifted(tx[x].expected[t], rows[tx[x].owner][t])
      => CanInsert(x, tx[x].owner, t)

RepairRows(x) ==
  rows' = [rows EXCEPT ![tx[x].owner] =
            [t \in Targets |->
               IF Drifted(tx[x].expected[t], rows[tx[x].owner][t])
               THEN tx[x].expected[t]
               ELSE rows[tx[x].owner][t]]]

------------------------------------------------------------------------------
(* mergeAnonymousIdentity: LINK at sign-in.                                *)

WithBinding(l) == [binding EXCEPT ![viewer[l].anon] = viewer[l].user]

(* anonymousProfileExists and findBoundUserId, outside the transaction.    *)
CheckProfile(l) ==
  LET a == viewer[l].anon
  IN  /\ tx[l].pc = "idle"
      /\ tx' = [tx EXCEPT
                  ![l].pc = IF a \in profiles /\ binding[a] = Unbound
                            THEN "bind" ELSE "done",
                  ![l].owner = viewer[l].user]
      /\ UNCHANGED <<database, nextId, clock, locks, inputs>>

(* The unique key of identity_bindings; broken: no such key.               *)
AlwaysLinkable(a) == TRUE
Linkable(a) == binding[a] = Unbound

(* insertLinkBinding: the unique key and the profile's foreign key wait    *)
(* for whoever holds that identity.                                        *)
Bind(l) ==
  LET a == viewer[l].anon
  IN  /\ tx[l].pc \in {"bind", "again"}
      /\ Free(profileLock[a], l)
      /\ Linkable(a)
      /\ profileLock' = [profileLock EXCEPT ![a] = {l}]
      /\ tx' = [tx EXCEPT ![l].pc = "derive"]
      /\ UNCHANGED <<database, nextId, clock, rowLocks, inputs>>

(* ER_DUP_ENTRY: another sign-in linked it first; nothing is written.      *)
AlreadyBound(l) ==
  LET a == viewer[l].anon
  IN  /\ tx[l].pc \in {"bind", "again"}
      /\ Free(profileLock[a], l)
      /\ ~Linkable(a)
      /\ End(l, "done")
      /\ UNCHANGED <<database, nextId, clock, inputs>>

DeriveLink(l) ==
  /\ tx[l].pc = "derive"
  /\ LockAndDerive(l, WithBinding(l))

CommitLink(l) ==
  /\ tx[l].pc = "repair"
  /\ CanRepair(l)
  /\ RepairRows(l)
  /\ binding' = WithBinding(l)
  /\ End(l, "done")
  /\ UNCHANGED <<events, profiles, nextId, clock, inputs>>

------------------------------------------------------------------------------
(* reconcileSaveState({ apply: true }), one owner per transaction.         *)

(* listReconciliationOwners names every owner with a state event or a row; *)
(* broken: only those with a row.                                          *)
HasSomeRow(o) == \E t \in Targets : HasRow(rows[o][t])
HasHistory(o) ==
  EventsOf(o, events, binding) # {} \/ \E t \in Targets : HasRow(rows[o][t])

StartOwner(j, o) ==
  /\ tx[j].pc = "idle"
  /\ HasHistory(o)
  /\ tx' = [tx EXCEPT ![j].pc = "derive", ![j].owner = o]
  /\ UNCHANGED <<database, nextId, clock, locks, inputs>>

DeriveOwner(j) ==
  /\ tx[j].pc \in {"derive", "again"}
  /\ LockAndDerive(j, binding)

CommitOwner(j) ==
  /\ tx[j].pc = "repair"
  /\ CanRepair(j)
  /\ RepairRows(j)
  /\ End(j, "idle")
  /\ UNCHANGED <<events, binding, profiles, nextId, clock, inputs>>

------------------------------------------------------------------------------
(* withTransaction's retry, a lost connection, and time.                   *)

(* The statements at which a handler waits for a lock; broken: a save waits*)
(* only at its locking reads, never at the upsert's INSERT.                *)
SaveWaitsToRead(r) ==
  \/ tx[r].pc = "touch" /\ ~Free(profileLock[viewer[r].anon], r)
  \/ tx[r].pc = "lock" /\ ~CanLock(r, tx[r].owner, command[r].target)

SaveWaits(r) ==
  \/ tx[r].pc = "touch" /\ ~Free(profileLock[viewer[r].anon], r)
  \/ tx[r].pc = "lock" /\ ~CanLock(r, tx[r].owner, command[r].target)
  \/ tx[r].pc = "project" /\ ~CanInsert(r, tx[r].owner, command[r].target)

LinkWaits(l) ==
  \/ tx[l].pc \in {"bind", "again"} /\ ~Free(profileLock[viewer[l].anon], l)
  \/ tx[l].pc = "derive" /\ \E t \in Targets : ~CanLock(l, tx[l].owner, t)
  \/ tx[l].pc = "repair" /\ ~CanRepair(l)

JobWaits(j) ==
  \/ tx[j].pc \in {"derive", "again"}
       /\ \E t \in Targets : ~CanLock(j, tx[j].owner, t)
  \/ tx[j].pc = "repair" /\ ~CanRepair(j)

Waiting(x) ==
  \/ x \in Requests /\ SaveWaits(x)
  \/ x \in Links /\ LinkWaits(x)
  \/ x \in Reconcilers /\ JobWaits(x)

(* The retry loop's bound; broken: one attempt too many.                   *)
MayRetryOnceMore(x) == tx[x].attempt <= Attempts
MayRetry(x) == tx[x].attempt < Attempts

(* ER_LOCK_DEADLOCK or ER_LOCK_WAIT_TIMEOUT: rolled back and run again.    *)
Retry(x) ==
  /\ Waiting(x)
  /\ MayRetry(x)
  /\ ReleaseAll(x)
  /\ tx' = [tx EXCEPT ![x] = [Blank EXCEPT !.pc = "again",
                                           !.attempt = tx[x].attempt + 1,
                                           !.owner = tx[x].owner]]
  /\ UNCHANGED <<database, nextId, clock, inputs>>

OutOfAttempts(x) ==
  /\ Waiting(x)
  /\ ~MayRetry(x)
  /\ GiveUp(x)
  /\ UNCHANGED <<database, nextId, clock, inputs>>

(* The connection or the process dies: InnoDB rolls the transaction back.  *)
Crash(x) ==
  /\ tx[x].pc \notin {"idle"} \cup Ended
  /\ GiveUp(x)
  /\ UNCHANGED <<database, nextId, clock, inputs>>

Tick ==
  /\ clock < MaxClock
  /\ clock' = clock + 1
  /\ UNCHANGED <<database, nextId, locks, inputs, tx>>

(* Every request has been answered: the only way for all to stand still.   *)
Finished ==
  /\ \A x \in Requests \cup Links : tx[x].pc \in Ended
  /\ \A j \in Reconcilers : tx[j].pc = "idle"
  /\ UNCHANGED vars

------------------------------------------------------------------------------
SaveStep(r) ==
  \/ Begin(r) \/ Touch(r) \/ Lock(r)
  \/ Refuse(r) \/ Keep(r) \/ Append(r) \/ Project(r)

LinkStep(l) ==
  CheckProfile(l) \/ Bind(l) \/ AlreadyBound(l) \/ DeriveLink(l) \/ CommitLink(l)

LoseLockRace(x) == Retry(x) \/ OutOfAttempts(x)

Next ==
  \/ \E r \in Requests : SaveStep(r)
  \/ \E l \in Links : LinkStep(l)
  \/ \E j \in Reconcilers :
        DeriveOwner(j) \/ CommitOwner(j) \/ \E o \in Owners : StartOwner(j, o)
  \/ \E x \in Txs : LoseLockRace(x) \/ Crash(x)
  \/ Tick
  \/ Finished

Spec == Init /\ [][Next]_vars

(* A request that has begun and a sign-in that has reached its merge are   *)
(* driven to the end by the event loop, and InnoDB breaks every wait. The  *)
(* job is run every night over every owner, and is not killed every night. *)
HandlerFairness ==
  /\ \A r \in Requests :
        WF_vars(tx[r].pc # "idle" /\ (SaveStep(r) \/ LoseLockRace(r)))
  /\ \A l \in Links :
        WF_vars(tx[l].pc # "idle" /\ (LinkStep(l) \/ LoseLockRace(l)))

JobFairness(j, o) ==
  /\ SF_vars(StartOwner(j, o))
  /\ SF_vars(tx[j].owner = o /\ DeriveOwner(j))
  /\ SF_vars(tx[j].owner = o /\ CommitOwner(j))

Fairness == HandlerFairness /\ \A j \in Reconcilers, o \in Owners : JobFairness(j, o)

FairSpec == Spec /\ Fairness

------------------------------------------------------------------------------
(* Properties.                                                             *)

(* The values every variable ranges over.                                  *)
TypeOK ==
  /\ events \subseteq Event
  /\ rows \in [Owners -> [Targets -> Row]]
  /\ binding \in [Anons -> Users \cup {Unbound}]
  /\ profiles \subseteq Anons
  /\ nextId \in Nat \ {0}
  /\ clock \in Nat
  /\ rowLocks \in [Owners -> [Targets -> SUBSET Txs]]
  /\ profileLock \in [Anons -> SUBSET Txs]
  /\ viewer \in [Requests \cup Links -> Viewers] /\ SignIns
  /\ command \in [Requests -> Offered]
  /\ tx \in [Txs -> Local]

(* Every derived row is the projection of an event of the log that belongs *)
(* to the row's owner, directly or through a binding, whatever mix of live *)
(* writes, merges and repairs set it last.                                 *)
RowExplained ==
  \A o \in Owners, t \in Targets :
    HasRow(rows[o][t]) =>
      \E e \in events :
        /\ e.target = t
        /\ RowOf(e) = rows[o][t]
        /\ e.owner = o \/ (e.owner \in Anons /\ binding[e.owner] = o)

(* The transactions implement the atomic log: no lost update under any     *)
(* interleaving, retry or crash; an event appears together with its        *)
(* projection; a LINK happens once and folds in all the identity wrote.    *)
Log == INSTANCE SaveLog WITH events <- events, rows <- rows, binding <- binding
ImplementsLog == Log!Spec

(* Rows and log disagree: what a dry-run reconciliation would report and   *)
(* an applied one repair.                                                  *)
Drift(o) ==
  {t \in Targets : Drifted(Derive(EventsOf(o, events, binding), t), rows[o][t])}

NoDrift == \A o \in Owners : Drift(o) = {}

(* insertActivityEvent and upsertTargetState: of two events of one owner   *)
(* and target, the later id does not carry an earlier occurred_at.         *)
IdsFollowTime ==
  \A e, f \in events :
    e.owner = f.owner /\ e.target = f.target /\ e.id < f.id => e.at <= f.at

(* No wait in a save or a sign-in is for ever: profile locks, row locks    *)
(* and gap locks taken in different orders are always resolved.            *)
EveryRequestAnswered ==
  \A x \in Requests \cup Links :
    tx[x].pc # "idle" ~> tx[x].pc \in Ended

==============================================================================
