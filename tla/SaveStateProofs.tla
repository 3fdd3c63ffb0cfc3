--------------------------- MODULE SaveStateProofs ---------------------------
(***************************************************************************)
(* Proofs about SaveState, for any sets of users, identities, targets,     *)
(* requests, sign-ins and jobs, any clock and any number of attempts: it is*)
(* well typed, its invariant is inductive, and it implements the atomic log*)
(* of SaveLog.                                                             *)
(***************************************************************************)
EXTENDS SaveStateInv, TLAPS

USE IdentityAssumption, ProcessAssumption

------------------------------------------------------------------------------
(* Types.                                                                  *)

(* What a command decides has the type of a row and of an event.           *)
LEMMA DecisionType ==
  ASSUME NEW c \in Commands
  PROVE  /\ NextState(c) \in SaveStates
         /\ EventType(c) \in {"save", "unsave", "tag_change"}
         /\ EventValue(c) \in Tags
  BY DEF Commands, NextState, EventType, EventValue, SaveStates, Tags

(* A single event derives a row.                                           *)
LEMMA RowOfType ==
  ASSUME NEW e \in Event
  PROVE  RowOf(e) \in Row /\ HasRow(RowOf(e))
  BY DEF Event, RowOf, Row, HasRow, SaveStates, Tags

(* A derived row is no row, or the row of an event it was derived from.    *)
LEMMA DeriveExplained ==
  ASSUME NEW E, NEW t
  PROVE  \/ Derive(E, t) = NoRow
         \/ \E e \in E : e.target = t /\ RowOf(e) = Derive(E, t)
  <1> DEFINE latest == LatestIn({e \in E : e.target = t})
  <1>1. CASE latest = {}
    BY <1>1 DEF Derive
  <1>2. CASE latest # {}
    <2>1. PICK e : e = CHOOSE f \in latest : TRUE
      OBVIOUS
    <2>2. e \in latest
      BY <1>2, <2>1
    <2>3. e \in E /\ e.target = t
      BY <2>2 DEF LatestIn
    <2>4. Derive(E, t) = RowOf(e)
      BY <1>2, <2>1 DEF Derive
    <2> QED
      BY <2>3, <2>4
  <1> QED
    BY <1>1, <1>2

LEMMA DeriveType ==
  ASSUME NEW E \in SUBSET Event, NEW t
  PROVE  Derive(E, t) \in Row
  BY DeriveExplained, RowOfType DEF Row, NoRow, SaveStates

LEMMA BlankType == Blank \in Local
  BY DEF Blank, Local, Labels, SaveStates, NoRow, Row

------------------------------------------------------------------------------
(* A handler that uses its owner has resolved it, and an event to be       *)
(* committed has its id. TypeOK needs this: a row looked up for nobody has *)
(* no type.                                                                *)
OwnerKnown ==
  /\ \A r \in Requests :
        /\ tx[r].pc \in {"lock", "decide", "project"} => tx[r].owner \in Owners
        /\ tx[r].pc = "project" => tx[r].eventId # 0
  /\ \A x \in Links \cup Reconcilers :
        tx[x].pc \in {"bind", "again", "derive", "repair"} => tx[x].owner \in Owners

TypeInv == TypeOK /\ OwnerKnown

(* Replacing one handler's local state by a local state with a known owner *)
(* keeps both parts of TypeInv.                                            *)
LEMMA LocalUpdate ==
  ASSUME TypeInv, NEW x \in Txs, NEW after \in Local,
         tx' = [tx EXCEPT ![x] = after],
         after.pc \in {"idle"} \cup Ended \/ after.owner \in Owners
                      \/ (x \in Requests /\ after.pc \in {"touch", "again"}),
         x \in Requests /\ after.pc = "project" => after.eventId # 0
  PROVE  tx' \in [Txs -> Local] /\ OwnerKnown'
  BY DEF TypeInv, TypeOK, OwnerKnown, Txs, Ended

LEMMA EndType ==
  ASSUME TypeInv, NEW x \in Txs, NEW label \in {"idle"} \cup Ended, End(x, label)
  PROVE  /\ rowLocks' \in [Owners -> [Targets -> SUBSET Txs]]
         /\ profileLock' \in [Anons -> SUBSET Txs]
         /\ tx' \in [Txs -> Local]
         /\ OwnerKnown'
  <1> DEFINE after == [Blank EXCEPT !.pc = label]
  <1>1. /\ after \in Local /\ after.pc = label
        /\ label # "project"
    BY BlankType DEF Local, Labels, Ended
  <1>2. tx' = [tx EXCEPT ![x] = after]
    BY DEF End
  <1>3. tx' \in [Txs -> Local] /\ OwnerKnown'
    BY <1>1, <1>2, LocalUpdate
  <1> QED
    BY <1>3 DEF End, ReleaseAll, TypeInv, TypeOK

LEMMA GiveUpType ==
  ASSUME TypeInv, NEW x \in Txs, GiveUp(x)
  PROVE  /\ rowLocks' \in [Owners -> [Targets -> SUBSET Txs]]
         /\ profileLock' \in [Anons -> SUBSET Txs]
         /\ tx' \in [Txs -> Local]
         /\ OwnerKnown'
  BY EndType DEF GiveUp, Ended

(* One lemma per kind of handler, then the theorem.                        *)
LEMMA SaveStepType ==
  ASSUME TypeInv, NEW r \in Requests, SaveStep(r)
  PROVE  TypeInv'
  <1> USE DEF database, locks, inputs, TypeInv, TypeOK, SignIns
  <1>0. /\ r \in Txs /\ r \notin Links \cup Reconcilers
        /\ command[r] \in Commands /\ viewer[r] \in Viewers
        /\ tx[r] \in Local
        /\ tx[r].pc \in {"lock", "decide", "project"} => tx[r].owner \in Owners
        /\ tx[r].pc = "project" => tx[r].eventId # 0
    BY DEF Txs, OwnerKnown
  <1>1. CASE Begin(r)
    <2> DEFINE l == FirstWait(r)
               after == [tx[r] EXCEPT !.pc = l, !.seen = binding[viewer[r].anon],
                                      !.now = clock, !.owner = viewer[r].user]
    <2>1. /\ l \in {"refused", "lock", "touch"} /\ l \in Labels
          /\ l = "lock" => viewer[r].user \in Owners
      BY <1>0 DEF FirstWait, Labels, Ended, Viewers, Owners
    <2>2. tx' = [tx EXCEPT ![r] = after]
      BY <1>1 DEF Begin
    <2>3. after \in Local /\ after.pc = l /\ after.owner = viewer[r].user
      BY <1>0, <2>1 DEF Local, Owners, Viewers
    <2>5. tx' \in [Txs -> Local] /\ OwnerKnown'
      BY <1>0, <2>1, <2>2, <2>3, LocalUpdate DEF Ended
    <2> QED
      BY <1>1, <2>5 DEF Begin
  <1>2. CASE Touch(r)
    <2> DEFINE a == viewer[r].anon
               o == IF tx[r].seen = Unbound THEN a ELSE tx[r].seen
               after == [tx[r] EXCEPT !.pc = "lock", !.owner = o]
    <2>1. tx' = [tx EXCEPT ![r] = after]
      BY <1>2 DEF Touch
    <2>2. "lock" \in Labels /\ o \in Owners
      BY <1>0 DEF Labels, Owners, Viewers, Local
    <2>3. after \in Local /\ after.owner = o /\ after.pc = "lock"
      BY <1>0, <2>2 DEF Local
    <2>4. tx' \in [Txs -> Local] /\ OwnerKnown'
      BY <1>0, <2>1, <2>2, <2>3, LocalUpdate
    <2>5. profileLock' \in [Anons -> SUBSET Txs]
      BY <1>2, <1>0 DEF Touch
    <2> QED
      BY <1>2, <2>4, <2>5 DEF Touch
  <1>3. CASE Lock(r)
    <2> DEFINE o == tx[r].owner
               t == command[r].target
               after == [tx[r] EXCEPT !.pc = "decide", !.current = rows[o][t].state]
    <2>1. o \in Owners /\ t \in Targets /\ "decide" \in Labels
      BY <1>3, <1>0 DEF Lock, Commands, Labels
    <2>2. rows[o][t].state \in SaveStates
      BY <2>1 DEF Row
    <2>3. tx' = [tx EXCEPT ![r] = after]
      BY <1>3 DEF Lock
    <2>4. after \in Local /\ after.owner = o /\ after.pc = "decide"
      BY <1>0, <2>1, <2>2 DEF Local
    <2>5. tx' \in [Txs -> Local] /\ OwnerKnown'
      BY <1>0, <2>1, <2>3, <2>4, LocalUpdate
    <2>6. rowLocks' \in [Owners -> [Targets -> SUBSET Txs]]
      BY <1>3, <1>0, <2>1 DEF Lock
    <2> QED
      BY <1>3, <2>5, <2>6 DEF Lock
  <1>4. CASE Refuse(r)
    BY <1>4, <1>0, EndType DEF Refuse, Ended
  <1>5. CASE Keep(r)
    <2>1. Touched(r) \subseteq Anons
      BY <1>0 DEF Touched, Viewers
    <2> QED
      BY <1>5, <1>0, EndType, <2>1 DEF Keep, Ended
  <1>6. CASE Append(r)
    <2> DEFINE after == [tx[r] EXCEPT !.pc = "project", !.eventId = nextId]
    <2>1. tx' = [tx EXCEPT ![r] = after]
      BY <1>6 DEF Append
    <2>2. "project" \in Labels /\ tx[r].owner \in Owners
      BY <1>6, <1>0 DEF Labels, Append
    <2>3. after \in Local /\ after.owner = tx[r].owner /\ after.eventId # 0
      BY <1>0, <2>2 DEF Local
    <2>4. tx' \in [Txs -> Local] /\ OwnerKnown'
      BY <1>0, <2>1, <2>2, <2>3, LocalUpdate
    <2> QED
      BY <1>6, <2>4 DEF Append
  <1>7. CASE Project(r)
    <2> DEFINE o == tx[r].owner
               t == command[r].target
    <2>1. Touched(r) \subseteq Anons
      BY <1>0 DEF Touched, Viewers
    <2>2. o \in Owners /\ t \in Targets /\ tx[r].eventId \in Nat \ {0}
      BY <1>7, <1>0 DEF Project, Commands, Local
    <2>3. NewEvent(r) \in Event
      BY <1>0, <2>2, DecisionType DEF NewEvent, Event, Local
    <2>4. Projected(rows[o][t], NextState(command[r]), tx[r].eventId) \in Row
      BY <1>0, <2>2, DecisionType DEF Projected, Row
    <2>5. rows' \in [Owners -> [Targets -> Row]]
      BY <1>7, <2>2, <2>4 DEF Project
    <2> QED
      BY <1>7, <1>0, EndType, <2>1, <2>3, <2>5 DEF Project, Ended
  <1> QED
    BY <1>1, <1>2, <1>3, <1>4, <1>5, <1>6, <1>7 DEF SaveStep

(* LockAndDerive and the repair, for a sign-in or a job.                   *)
LEMMA DeriveStepType ==
  ASSUME TypeInv, NEW x \in Links \cup Reconcilers, NEW bound,
         tx[x].owner \in Owners, LockAndDerive(x, bound)
  PROVE  TypeInv'
  <1> USE DEF TypeInv, TypeOK, SignIns
  <1> DEFINE derived == [t \in Targets |->
                           Derive(EventsOf(tx[x].owner, events, bound), t)]
             after == [tx[x] EXCEPT !.pc = "repair", !.expected = derived]
  <1>1. derived \in [Targets -> Row]
    BY DeriveType DEF EventsOf
  <1>2. tx' = [tx EXCEPT ![x] = after]
    BY DEF LockAndDerive
  <1>3. tx[x] \in Local /\ "repair" \in Labels /\ x \in Txs /\ x \notin Requests
    BY DEF Txs, Labels
  <1>4. after \in Local /\ after.owner \in Owners
    <2> HIDE DEF derived
    <2> QED
      BY <1>1, <1>3 DEF Local
  <1>5. tx' \in [Txs -> Local] /\ OwnerKnown'
    <2> HIDE DEF after
    <2> QED
      BY <1>2, <1>3, <1>4, LocalUpdate
  <1>6. rowLocks' \in [Owners -> [Targets -> SUBSET Txs]]
    BY <1>3 DEF LockAndDerive
  <1> QED
    BY <1>5, <1>6 DEF LockAndDerive, database, inputs

LEMMA RepairRowsType ==
  ASSUME TypeInv, NEW x \in Links \cup Reconcilers, tx[x].owner \in Owners,
         RepairRows(x)
  PROVE  rows' \in [Owners -> [Targets -> Row]]
  <1>1. tx[x].expected \in [Targets -> Row]
    BY DEF TypeInv, TypeOK, Local, Txs
  <1> QED
    BY <1>1 DEF RepairRows, TypeInv, TypeOK

LEMMA LinkStepType ==
  ASSUME TypeInv, NEW l \in Links, LinkStep(l)
  PROVE  TypeInv'
  <1> USE DEF database, locks, inputs, TypeInv, TypeOK, SignIns
  <1>0. /\ l \in Txs /\ l \notin Requests /\ l \in Links \cup Reconcilers
        /\ viewer[l] \in Viewers /\ viewer[l].user \in Users
        /\ tx[l] \in Local
        /\ tx[l].pc \in {"bind", "again", "derive", "repair"}
             => tx[l].owner \in Owners
    BY DEF Txs, OwnerKnown
  <1>1. CASE CheckProfile(l)
    <2> DEFINE a == viewer[l].anon
               label == IF a \in profiles /\ binding[a] = Unbound
                        THEN "bind" ELSE "done"
               after == [tx[l] EXCEPT !.pc = label, !.owner = viewer[l].user]
    <2>1. tx' = [tx EXCEPT ![l] = after]
      BY <1>1 DEF CheckProfile
    <2>2. label \in {"bind", "done"} /\ label \in Labels
      BY DEF Labels, Ended
    <2>3. viewer[l].user \in Owners
      BY <1>0 DEF Owners
    <2>4. after \in Local /\ after.owner = viewer[l].user
      <3> HIDE DEF label
      <3> QED
        BY <1>0, <2>2, <2>3 DEF Local
    <2>5. tx' \in [Txs -> Local] /\ OwnerKnown'
      BY <1>0, <2>1, <2>3, <2>4, LocalUpdate
    <2> QED
      BY <1>1, <2>5 DEF CheckProfile
  <1>2. CASE Bind(l)
    <2> DEFINE after == [tx[l] EXCEPT !.pc = "derive"]
    <2>1. tx' = [tx EXCEPT ![l] = after]
      BY <1>2 DEF Bind
    <2>2. "derive" \in Labels /\ tx[l].owner \in Owners
      BY <1>2, <1>0 DEF Labels, Bind
    <2>3. after \in Local /\ after.owner = tx[l].owner
      BY <1>0, <2>2 DEF Local
    <2>4. tx' \in [Txs -> Local] /\ OwnerKnown'
      BY <1>0, <2>1, <2>2, <2>3, LocalUpdate
    <2>5. profileLock' \in [Anons -> SUBSET Txs]
      BY <1>2, <1>0 DEF Bind
    <2> QED
      BY <1>2, <2>4, <2>5 DEF Bind
  <1>3. CASE AlreadyBound(l)
    BY <1>3, <1>0, EndType DEF AlreadyBound, Ended
  <1>4. CASE DeriveLink(l)
    BY <1>4, <1>0, DeriveStepType DEF DeriveLink
  <1>5. CASE CommitLink(l)
    <2>1. rows' \in [Owners -> [Targets -> Row]]
      BY <1>5, <1>0, RepairRowsType DEF CommitLink
    <2>2. binding' \in [Anons -> Users \cup {Unbound}]
      BY <1>5, <1>0 DEF CommitLink, WithBinding, Viewers
    <2> QED
      BY <1>5, <1>0, <2>1, <2>2, EndType DEF CommitLink, Ended
  <1> QED
    BY <1>1, <1>2, <1>3, <1>4, <1>5 DEF LinkStep

LEMMA JobStepType ==
  ASSUME TypeInv, NEW j \in Reconcilers, NEW o \in Owners,
         DeriveOwner(j) \/ CommitOwner(j) \/ StartOwner(j, o)
  PROVE  TypeInv'
  <1> USE DEF database, locks, inputs, TypeInv, TypeOK, SignIns
  <1>0. /\ j \in Txs /\ j \notin Requests /\ j \in Links \cup Reconcilers
        /\ tx[j] \in Local
        /\ tx[j].pc \in {"bind", "again", "derive", "repair"}
             => tx[j].owner \in Owners
    BY DEF Txs, OwnerKnown
  <1>1. CASE DeriveOwner(j)
    BY <1>1, <1>0, DeriveStepType DEF DeriveOwner
  <1>2. CASE CommitOwner(j)
    <2>1. rows' \in [Owners -> [Targets -> Row]]
      BY <1>2, <1>0, RepairRowsType DEF CommitOwner
    <2> QED
      BY <1>2, <1>0, <2>1, EndType DEF CommitOwner
  <1>3. CASE StartOwner(j, o)
    <2> DEFINE after == [tx[j] EXCEPT !.pc = "derive", !.owner = o]
    <2>1. tx' = [tx EXCEPT ![j] = after]
      BY <1>3 DEF StartOwner
    <2>2. "derive" \in Labels
      BY DEF Labels
    <2>3. after \in Local /\ after.owner = o
      BY <1>0, <2>2 DEF Local
    <2>4. tx' \in [Txs -> Local] /\ OwnerKnown'
      BY <1>0, <2>1, <2>3, LocalUpdate
    <2> QED
      BY <1>3, <2>4 DEF StartOwner
  <1> QED
    BY <1>1, <1>2, <1>3

LEMMA FailureType ==
  ASSUME TypeInv, NEW x \in Txs, LoseLockRace(x) \/ Crash(x)
  PROVE  TypeInv'
  <1> USE DEF database, locks, inputs, TypeInv, TypeOK, SignIns
  <1>1. CASE Retry(x)
    <2> DEFINE after == [Blank EXCEPT !.pc = "again",
                                      !.attempt = tx[x].attempt + 1,
                                      !.owner = tx[x].owner]
    <2>1. tx' = [tx EXCEPT ![x] = after]
      BY <1>1 DEF Retry
    <2>2. tx[x] \in Local /\ "again" \in Labels
      BY DEF Labels
    <2>3. tx[x].attempt + 1 \in 1..Attempts
      BY <1>1, <2>2 DEF Retry, MayRetry, Local
    <2>4. after \in Local /\ after.pc = "again" /\ after.owner = tx[x].owner
      BY <2>2, <2>3, BlankType DEF Local
    <2>5. x \notin Requests => tx[x].owner \in Owners
      BY <1>1 DEF Retry, Waiting, LinkWaits, JobWaits, OwnerKnown, Txs
    <2>6. tx' \in [Txs -> Local] /\ OwnerKnown'
      BY <2>1, <2>4, <2>5, LocalUpdate
    <2> QED
      BY <1>1, <2>6 DEF Retry, ReleaseAll
  <1>2. CASE OutOfAttempts(x)
    BY <1>2, GiveUpType DEF OutOfAttempts
  <1>3. CASE Crash(x)
    BY <1>3, GiveUpType DEF Crash
  <1> QED
    BY <1>1, <1>2, <1>3 DEF LoseLockRace

LEMMA NextType == TypeInv /\ [Next]_vars => TypeInv'
  <1> SUFFICES ASSUME TypeInv, [Next]_vars PROVE TypeInv'
    OBVIOUS
  <1>1. ASSUME NEW r \in Requests, SaveStep(r) PROVE TypeInv'
    BY <1>1, SaveStepType
  <1>2. ASSUME NEW l \in Links, LinkStep(l) PROVE TypeInv'
    BY <1>2, LinkStepType
  <1>3. ASSUME NEW j \in Reconcilers, DeriveOwner(j) \/ CommitOwner(j)
        PROVE  TypeInv'
    <2>1. Owners # {} => TypeInv'
      BY <1>3, JobStepType
    <2>2. tx[j].owner \in Owners
      BY <1>3 DEF DeriveOwner, CommitOwner, TypeInv, OwnerKnown
    <2> QED
      BY <2>1, <2>2
  <1>4. ASSUME NEW j \in Reconcilers, NEW o \in Owners, StartOwner(j, o)
        PROVE  TypeInv'
    BY <1>4, JobStepType
  <1>5. ASSUME NEW x \in Txs, LoseLockRace(x) \/ Crash(x) PROVE TypeInv'
    BY <1>5, FailureType
  <1>6. CASE Tick
    BY <1>6 DEF Tick, TypeInv, TypeOK, SignIns, OwnerKnown, database, locks, inputs
  <1>7. CASE UNCHANGED vars
    BY <1>7 DEF vars, TypeInv, TypeOK, SignIns, OwnerKnown, database, locks, inputs
  <1> QED
    BY <1>1, <1>2, <1>3, <1>4, <1>5, <1>6, <1>7 DEF Next, Finished

LEMMA InitType == Init => TypeInv
  <1> SUFFICES ASSUME Init PROVE TypeInv
    OBVIOUS
  <1>1. rows \in [Owners -> [Targets -> Row]]
    BY DEF Init, Empty, Row, NoRow, SaveStates
  <1>2. tx \in [Txs -> Local]
    BY BlankType DEF Init, Empty
  <1>3. OwnerKnown
    BY DEF Init, Empty, OwnerKnown, Blank, Txs
  <1> QED
    BY <1>1, <1>2, <1>3 DEF Init, Empty, TypeInv, TypeOK, Viewers

(* The variables of the save, link and reconcile transactions never leave  *)
(* their types: no row is read or written for an unresolved owner.         *)
THEOREM TypeCorrect == Spec => []TypeOK
  <1>1. Spec => []TypeInv
    BY InitType, NextType, PTL DEF Spec
  <1> QED
    BY <1>1, PTL DEF TypeInv

------------------------------------------------------------------------------
(* The invariant.                                                          *)

OutOfTransaction == {"idle", "again"} \cup Ended

(* What a recompute derived stays derived from the log while its owner's   *)
(* own events and those of the identity it links do not grow, and bindings *)
(* are only added.                                                         *)
LEMMA DerivationFrame ==
  ASSUME TypeInv, NEW x \in Recomputers, DerivationCurrent(x),
         tx'[x] = tx[x], UNCHANGED viewer,
         events \subseteq events',
         \A e \in events' \ events : e.owner \notin Sources(x),
         \A a \in Anons : BoundFor(x)[a] # Unbound => BoundFor(x)'[a] = BoundFor(x)[a]
  PROVE  DerivationCurrent(x)'
  <1> SUFFICES ASSUME tx[x].pc = "repair"
               PROVE  DerivationCurrent(x)'
    BY DEF DerivationCurrent
  <1>0. x \in Txs /\ x \notin Requests /\ tx[x].owner \in Owners
    BY DEF Recomputers, Txs, TypeInv, OwnerKnown
  <1>1. CASE x \in Reconcilers /\ \A t \in Targets : tx[x].expected[t] = NoRow
    BY <1>1 DEF DerivationCurrent
  <1>2. ASSUME NEW seen \in SUBSET events, DerivedFrom(x, seen)
        PROVE  DerivationCurrent(x)'
    <2>1. Sources(x)' = Sources(x)
      BY DEF Sources
    <2>2. seen \subseteq CountedFor(tx[x].owner, BoundFor(x))'
      <3> SUFFICES ASSUME NEW e \in seen
                   PROVE  e \in CountedFor(tx[x].owner, BoundFor(x))'
        OBVIOUS
      <3>1. e \in events' /\ Unbound \notin Owners
        BY DEF Owners
      <3>2. e.owner = tx[x].owner
              \/ (e.owner \in Anons /\ BoundFor(x)[e.owner] = tx[x].owner)
        BY <1>2 DEF DerivedFrom, CountedFor
      <3>3. e.owner = tx'[x].owner
              \/ (e.owner \in Anons /\ BoundFor(x)'[e.owner] = tx'[x].owner)
        BY <3>1, <3>2, <1>0
      <3> QED
        BY <3>1, <3>3 DEF CountedFor
    <2>3. {e \in events' : e.owner \in Sources(x)} \subseteq seen
      BY <1>2 DEF DerivedFrom
    <2>4. DerivedFrom(x, seen)'
      BY <1>2, <2>1, <2>2, <2>3 DEF DerivedFrom
    <2> QED
      BY <2>4 DEF DerivationCurrent
  <1> QED
    BY <1>1, <1>2 DEF DerivationCurrent

(* A step of x that touches neither the log nor a binding.                 *)
LEMMA DerivedFrame ==
  ASSUME TypeInv, DerivedCurrent, NEW x \in Txs,
         \A y \in Txs \ {x} : tx'[y] = tx[y], tx'[x].pc # "repair",
         UNCHANGED <<events, binding, viewer>>
  PROVE  DerivedCurrent'
  <1> SUFFICES ASSUME NEW y \in Recomputers
               PROVE  DerivationCurrent(y)'
    BY DEF DerivedCurrent
  <1>1. CASE y = x
    BY <1>1 DEF DerivationCurrent
  <1>2. CASE y # x
    <2>1. DerivationCurrent(y) /\ tx'[y] = tx[y]
      BY <1>2 DEF DerivedCurrent, Recomputers, Txs
    <2>2. \A a \in Anons : BoundFor(y)'[a] = BoundFor(y)[a]
      BY DEF BoundFor, WithBinding
    <2> QED
      BY <2>1, <2>2, DerivationFrame
  <1> QED
    BY <1>1, <1>2

(* A step of x that assigns no event id and writes no table.               *)
LEMMA IdsFrame ==
  ASSUME IdsInOrder, NEW x, \A y \in Requests \ {x} : tx'[y] = tx[y],
         tx'[x].pc # "project" \/ x \notin Requests,
         UNCHANGED <<events, rows, nextId, command>>
  PROVE  IdsInOrder'
  <1>1. \A y \in Requests : tx'[y].pc = "project" => y # x /\ tx'[y] = tx[y]
    OBVIOUS
  <1>2. /\ \A e \in events' : e.id < nextId'
        /\ \A o \in Owners, t \in Targets : rows'[o][t].last < nextId'
    BY DEF IdsInOrder
  <1>3. ASSUME NEW q \in Requests, tx'[q].pc = "project"
        PROVE  /\ tx'[q].eventId < nextId'
               /\ rows'[tx'[q].owner][command'[q].target].last < tx'[q].eventId
               /\ \A e \in events' :
                     /\ e.id # tx'[q].eventId
                     /\ e.owner = tx'[q].owner /\ e.target = command'[q].target
                          => e.id < tx'[q].eventId
    BY <1>1, <1>3 DEF IdsInOrder
  <1>4. ASSUME NEW p \in Requests, NEW q \in Requests, p # q,
               tx'[p].pc = "project", tx'[q].pc = "project"
        PROVE  tx'[p].eventId # tx'[q].eventId
    BY <1>1, <1>4 DEF IdsInOrder
  <1> QED
    BY <1>2, <1>3, <1>4 DEF IdsInOrder

(* A step of a save: every recompute keeps its locks.                      *)
LEMMA RecomputeFrame ==
  ASSUME TypeInv, RecomputeHolds, UNCHANGED <<binding, viewer>>,
         \A x \in Recomputers :
            /\ tx'[x] = tx[x]
            /\ \A o \in Owners, t \in Targets :
                  x \in rowLocks[o][t] => x \in rowLocks'[o][t]
            /\ \A a \in Anons : x \in profileLock[a] => x \in profileLock'[a]
  PROVE  RecomputeHolds'
  <1>1. ASSUME NEW x \in Recomputers, tx'[x].pc = "repair", NEW t \in Targets
        PROVE  x \in rowLocks'[tx'[x].owner][t]
    <2>1. tx[x].pc = "repair" /\ tx[x].owner \in Owners
      BY <1>1 DEF TypeInv, OwnerKnown, Recomputers
    <2> QED
      BY <1>1, <2>1 DEF RecomputeHolds
  <1>2. ASSUME NEW l \in Links
        PROVE  /\ tx'[l].pc \in {"bind", "again", "derive", "repair"}
                    => tx'[l].owner = viewer'[l].user
               /\ tx'[l].pc \in {"derive", "repair"}
                    => /\ l \in profileLock'[viewer'[l].anon]
                       /\ binding'[viewer'[l].anon] = Unbound
    <2>1. viewer[l].anon \in Anons /\ l \in Recomputers
      BY DEF TypeInv, TypeOK, Viewers, Recomputers
    <2> QED
      BY <2>1 DEF RecomputeHolds
  <1> QED
    BY <1>1, <1>2 DEF RecomputeHolds

(* A handler leaves its transaction without a change to the tables.        *)
LEMMA LeaveInv ==
  ASSUME TypeInv, Inv, NEW x \in Txs, NEW after,
         ReleaseAll(x), tx' = [tx EXCEPT ![x] = after],
         after.pc \in OutOfTransaction,
         x \in Links /\ after.pc = "again" => after.owner = viewer[x].user,
         UNCHANGED <<events, rows, binding, nextId, inputs>>
  PROVE  Inv'
  <1> USE DEF TypeInv, TypeOK
  <1>1. /\ \A y \in Txs \ {x} : tx'[y] = tx[y]
        /\ tx'[x] = after
        /\ after.pc \notin Holding /\ after.pc \notin {"touch", "bind", "derive", "repair"}
        /\ \A o \in Owners, t \in Targets : rowLocks'[o][t] = rowLocks[o][t] \ {x}
        /\ \A a \in Anons : profileLock'[a] = profileLock[a] \ {x}
        /\ Requests \subseteq Txs /\ Links \subseteq Txs /\ Recomputers \subseteq Txs
        /\ UNCHANGED <<viewer, command>>
    BY DEF ReleaseAll, OutOfTransaction, Ended, Holding, Txs, Recomputers, inputs
  <1>2. OneHolder'
    BY <1>1 DEF Inv, OneHolder
  <1>3. SaverHolds'
    BY <1>1 DEF Inv, SaverHolds, Holding, Deciding, OwnerKnown, Commands, Viewers
  <1>4. IdsInOrder'
    BY <1>1, IdsFrame DEF Inv, Holding
  <1>5. RecomputeHolds'
    BY <1>1 DEF Inv, RecomputeHolds, Recomputers, OwnerKnown, Viewers
  <1>6. DerivedCurrent'
    BY <1>1, DerivedFrame DEF Inv
  <1>7. RowExplained'
    BY DEF Inv, RowExplained
  <1> QED
    BY <1>2, <1>3, <1>4, <1>5, <1>6, <1>7 DEF Inv

------------------------------------------------------------------------------
(* One lemma per statement of a save that stays in its transaction.        *)
LEMMA BeginInv ==
  ASSUME TypeInv, Inv, NEW r \in Requests, Begin(r)
  PROVE  Inv'
  <1> USE DEF TypeInv, TypeOK
  <1>1. /\ r \in Txs /\ r \notin Recomputers
        /\ \A y \in Txs \ {r} : tx'[y] = tx[y]
        /\ tx'[r].pc = FirstWait(r) /\ tx'[r].owner = viewer[r].user
        /\ viewer[r].user \in Users \cup {Unbound}
        /\ UNCHANGED <<events, rows, binding, nextId, rowLocks, profileLock,
                       viewer, command>>
    BY DEF Begin, Txs, Recomputers, Local, database, locks, inputs, Viewers
  <1>2. /\ tx'[r].pc \in {"refused", "lock", "touch"}
        /\ tx'[r].pc = "touch" => viewer[r].user = Unbound
        /\ tx'[r].pc = "lock" => viewer[r].user # Unbound
    BY <1>1 DEF FirstWait
  <1>3. OneHolder'
    BY <1>1 DEF Inv, OneHolder
  <1>4. SaverHolds'
    BY <1>1, <1>2 DEF Inv, SaverHolds, Holding, Deciding, Txs
  <1>5. IdsInOrder'
    BY <1>1, <1>2, IdsFrame DEF Inv, Txs
  <1>6. RecomputeHolds'
    BY <1>1 DEF Inv, RecomputeHolds, Recomputers, Txs
  <1>7. DerivedCurrent'
    BY <1>1, <1>2, DerivedFrame DEF Inv
  <1>8. RowExplained'
    BY <1>1 DEF Inv, RowExplained
  <1> QED
    BY <1>3, <1>4, <1>5, <1>6, <1>7, <1>8 DEF Inv

LEMMA TouchInv ==
  ASSUME TypeInv, Inv, NEW r \in Requests, Touch(r)
  PROVE  Inv'
  <1> USE DEF TypeInv, TypeOK
  <1> DEFINE a == viewer[r].anon
  <1>1. /\ r \in Txs /\ r \notin Recomputers
        /\ \A y \in Txs \ {r} : tx'[y] = tx[y]
        /\ tx[r].pc = "touch" /\ tx'[r].pc = "lock"
        /\ tx'[r].owner = a \/ tx'[r].owner \in Users
        /\ a \in Anons
        /\ profileLock[a] \subseteq {r}
        /\ profileLock'[a] = {r}
        /\ \A b \in Anons \ {a} : profileLock'[b] = profileLock[b]
        /\ UNCHANGED <<events, rows, binding, nextId, rowLocks, viewer, command>>
    BY DEF Touch, Free, Txs, Recomputers, Local, database, inputs, Viewers
  <1>3. OneHolder'
    BY <1>1 DEF Inv, OneHolder
  <1>4. SaverHolds'
    BY <1>1 DEF Inv, SaverHolds, Holding, Deciding, Txs, Viewers
  <1>5. IdsInOrder'
    BY <1>1, IdsFrame DEF Inv, Txs
  <1>6. RecomputeHolds'
    BY <1>1 DEF Inv, RecomputeHolds, Recomputers, Txs, Viewers
  <1>7. DerivedCurrent'
    BY <1>1, DerivedFrame DEF Inv
  <1>8. RowExplained'
    BY <1>1 DEF Inv, RowExplained
  <1> QED
    BY <1>3, <1>4, <1>5, <1>6, <1>7, <1>8 DEF Inv

LEMMA LockInv ==
  ASSUME TypeInv, Inv, NEW r \in Requests, Lock(r)
  PROVE  Inv'
  <1> USE DEF TypeInv, TypeOK
  <1> DEFINE o == tx[r].owner
             t == command[r].target
  <1>1. /\ r \in Txs /\ r \notin Recomputers
        /\ \A y \in Txs \ {r} : tx'[y] = tx[y]
        /\ tx[r].pc = "lock" /\ tx'[r].pc = "decide"
        /\ tx'[r].owner = o /\ tx'[r].current = rows[o][t].state
        /\ o \in Owners /\ t \in Targets
        /\ HasRow(rows[o][t]) => rowLocks[o][t] \subseteq {r}
        /\ rowLocks' = [rowLocks EXCEPT ![o][t] = @ \cup {r}]
        /\ UNCHANGED <<events, rows, binding, nextId, profileLock, viewer, command>>
    BY DEF Lock, CanLock, Free, Txs, Recomputers, Local, Commands, OwnerKnown,
           database, inputs
  <1>2. /\ rowLocks'[o][t] = rowLocks[o][t] \cup {r}
        /\ \A p \in Owners, s \in Targets :
              /\ rowLocks[p][s] \subseteq rowLocks'[p][s]
              /\ p # o \/ s # t => rowLocks'[p][s] = rowLocks[p][s]
    BY <1>1
  <1>3. OneHolder'
    BY <1>1, <1>2 DEF Inv, OneHolder
  <1>4. SaverHolds'
    BY <1>1, <1>2 DEF Inv, SaverHolds, Holding, Deciding, Txs, OwnerKnown, Commands
  <1>5. IdsInOrder'
    BY <1>1, IdsFrame DEF Inv, Txs
  <1>6. RecomputeHolds'
    <2>1. \A x \in Recomputers : x \in Txs \ {r} /\ tx'[x] = tx[x]
      BY <1>1 DEF Recomputers, Txs
    <2> QED
      BY <1>1, <1>2, <2>1, RecomputeFrame DEF Inv
  <1>7. DerivedCurrent'
    BY <1>1, DerivedFrame DEF Inv
  <1>8. RowExplained'
    BY <1>1 DEF Inv, RowExplained
  <1> QED
    BY <1>3, <1>4, <1>5, <1>6, <1>7, <1>8 DEF Inv

LEMMA AppendInv ==
  ASSUME TypeInv, Inv, NEW r \in Requests, Append(r)
  PROVE  Inv'
  <1> USE DEF TypeInv, TypeOK
  <1>1. /\ r \in Txs /\ r \notin Recomputers
        /\ \A y \in Txs \ {r} : tx'[y] = tx[y]
        /\ tx[r].pc = "decide" /\ tx'[r].pc = "project"
        /\ tx'[r].owner = tx[r].owner /\ tx'[r].current = tx[r].current
        /\ tx'[r].eventId = nextId /\ nextId' = nextId + 1
        /\ ~Refused(tx[r].current, command[r]) /\ ~NoOp(tx[r].current, command[r])
        /\ UNCHANGED <<events, rows, binding, rowLocks, profileLock, viewer, command>>
    BY DEF Append, Txs, Recomputers, Local, database, locks, inputs
  <1>2. /\ tx[r].owner \in Owners /\ command[r].target \in Targets
        /\ \A q \in Requests : tx[q].eventId \in Nat
        /\ \A e \in events : e.id \in Nat
        /\ \A o \in Owners, t \in Targets : rows[o][t].last \in Nat
        /\ nextId \in Nat
    BY <1>1 DEF OwnerKnown, Commands, Local, Txs, Event, Row
  <1>3. OneHolder'
    BY <1>1 DEF Inv, OneHolder
  <1>4. SaverHolds'
    BY <1>1 DEF Inv, SaverHolds, Holding, Deciding, Txs
  <1>5. IdsInOrder'
    <2>1. /\ \A e \in events' : e.id < nextId'
          /\ \A o \in Owners, t \in Targets : rows'[o][t].last < nextId'
      BY <1>1, <1>2 DEF Inv, IdsInOrder
    <2>2. ASSUME NEW q \in Requests, tx'[q].pc = "project"
          PROVE  /\ tx'[q].eventId < nextId'
                 /\ rows'[tx'[q].owner][command'[q].target].last < tx'[q].eventId
                 /\ \A e \in events' :
                       /\ e.id # tx'[q].eventId
                       /\ e.owner = tx'[q].owner /\ e.target = command'[q].target
                            => e.id < tx'[q].eventId
      <3>1. CASE q = r
        BY <3>1, <1>1, <1>2 DEF Inv, IdsInOrder
      <3>2. CASE q # r
        BY <3>2, <2>2, <1>1, <1>2 DEF Inv, IdsInOrder, Txs
      <3> QED
        BY <3>1, <3>2
    <2>3. ASSUME NEW p \in Requests, NEW q \in Requests, p # q,
                 tx'[p].pc = "project", tx'[q].pc = "project"
          PROVE  tx'[p].eventId # tx'[q].eventId
      BY <2>3, <1>1, <1>2 DEF Inv, IdsInOrder, Txs
    <2> QED
      BY <2>1, <2>2, <2>3 DEF IdsInOrder
  <1>6. RecomputeHolds'
    BY <1>1 DEF Inv, RecomputeHolds, Recomputers, Txs
  <1>7. DerivedCurrent'
    BY <1>1, DerivedFrame DEF Inv
  <1>8. RowExplained'
    BY <1>1 DEF Inv, RowExplained
  <1> QED
    BY <1>3, <1>4, <1>5, <1>6, <1>7, <1>8 DEF Inv
(* The event of a decided command derives the row the upsert writes.       *)
LEMMA NewEventRow ==
  ASSUME NEW r \in Requests, command[r] \in Commands,
         ~Refused(tx[r].current, command[r])
  PROVE  RowOf(NewEvent(r)) = [state |-> NextState(command[r]), last |-> tx[r].eventId]
  BY DEF RowOf, NewEvent, NextState, EventType, EventValue, Commands, Tags

(* What a save that projects its event may assume: its row is its own, so  *)
(* nobody else decides on that row or recomputes it.                       *)
LEMMA ProjectAlone ==
  ASSUME TypeInv, Inv, NEW r \in Requests, Project(r)
  PROVE  LET o == tx[r].owner
             t == command[r].target
         IN  /\ \A q \in Requests \ {r} :
                  tx[q].pc \in Deciding => tx[q].owner # o \/ command[q].target # t
             /\ \A x \in Recomputers :
                  tx[x].pc = "repair" => o \notin Sources(x)
             /\ Projected(rows[o][t], NextState(command[r]), tx[r].eventId)
                  = RowOf(NewEvent(r))
  <1> USE DEF TypeInv, TypeOK
  <1> DEFINE o == tx[r].owner
             t == command[r].target
  <1>1. /\ r \in Txs /\ r \notin Recomputers
        /\ tx[r].pc = "project" /\ rowLocks[o][t] \subseteq {r}
        /\ o \in Owners /\ t \in Targets /\ command[r] \in Commands
    BY DEF Project, CanInsert, Free, Txs, Recomputers, OwnerKnown, Commands
  <1>2. ASSUME NEW q \in Requests \ {r}, tx[q].pc \in Deciding
        PROVE  tx[q].owner # o \/ command[q].target # t
    BY <1>1, <1>2 DEF Inv, SaverHolds
  <1>3. ASSUME NEW x \in Recomputers, tx[x].pc = "repair"
        PROVE  o \notin Sources(x)
    <2>1. tx[x].owner # o
      BY <1>1, <1>3 DEF Inv, RecomputeHolds
    <2>2. ASSUME x \in Links, viewer[x].anon = o
          PROVE  FALSE
      <3>1. o \in Anons /\ x \in profileLock[o]
        BY <1>3, <2>2 DEF Inv, RecomputeHolds, Viewers
      <3>2. r \in profileLock[o]
        BY <1>1, <3>1 DEF Inv, SaverHolds, Holding
      <3> QED
        BY <1>1, <3>1, <3>2 DEF Inv, OneHolder
    <2> QED
      BY <2>1, <2>2 DEF Sources
  <1>4. Projected(rows[o][t], NextState(command[r]), tx[r].eventId)
          = RowOf(NewEvent(r))
    <2>1. ~Refused(tx[r].current, command[r])
      BY <1>1 DEF Inv, SaverHolds
    <2>2. rows[o][t].last < tx[r].eventId /\ rows[o][t].last \in Nat
          /\ tx[r].eventId \in Nat
      BY <1>1 DEF Inv, IdsInOrder, Row, Local
    <2> QED
      BY <1>1, <2>1, <2>2, NewEventRow DEF Projected
  <1> QED
    BY <1>2, <1>3, <1>4

LEMMA ProjectInv ==
  ASSUME TypeInv, Inv, NEW r \in Requests, Project(r)
  PROVE  Inv'
  <1> USE DEF TypeInv, TypeOK
  <1> DEFINE o == tx[r].owner
             t == command[r].target
             new == NewEvent(r)
  <1>1. /\ r \in Txs /\ r \notin Recomputers
        /\ \A y \in Txs \ {r} : tx'[y] = tx[y]
        /\ tx[r].pc = "project" /\ tx'[r].pc = "done"
        /\ rowLocks[o][t] \subseteq {r}
        /\ o \in Owners /\ t \in Targets
        /\ events' = events \cup {new}
        /\ new.id = tx[r].eventId /\ new.owner = o /\ new.target = t
        /\ \A p \in Owners, s \in Targets : rowLocks'[p][s] = rowLocks[p][s] \ {r}
        /\ \A a \in Anons : profileLock'[a] = profileLock[a] \ {r}
        /\ UNCHANGED <<binding, nextId, viewer, command>>
        /\ Requests \subseteq Txs /\ Links \subseteq Txs /\ Recomputers \subseteq Txs
    BY DEF Project, End, Blank, ReleaseAll, CanInsert, Free, Txs, Recomputers,
           OwnerKnown, Commands, NewEvent, inputs
  <1>2. /\ \A q \in Requests \ {r} :
              tx[q].pc \in Deciding => tx[q].owner # o \/ command[q].target # t
        /\ \A x \in Recomputers : tx[x].pc = "repair" => o \notin Sources(x)
        /\ rows' = [rows EXCEPT ![o][t] = RowOf(new)]
    BY ProjectAlone DEF Project
  <1>3. /\ rows'[o][t] = RowOf(new) /\ rows'[o][t].last = tx[r].eventId
        /\ \A p \in Owners, s \in Targets :
              p # o \/ s # t => rows'[p][s] = rows[p][s]
    BY <1>1, <1>2 DEF RowOf
  <1> HIDE DEF new
  <1>4. OneHolder'
    BY <1>1, <1>3 DEF Inv, OneHolder
  <1>5. ASSUME NEW q \in Requests, tx'[q].pc \in Holding
        PROVE  /\ q # r /\ q \in Txs /\ tx'[q] = tx[q]
               /\ tx[q].owner \in Owners /\ command[q].target \in Targets
               /\ tx[q].pc \in Deciding
                    => rows'[tx[q].owner][command[q].target]
                         = rows[tx[q].owner][command[q].target]
    <2>1. q # r /\ q \in Txs /\ tx'[q] = tx[q]
      BY <1>1, <1>5 DEF Holding
    <2>2. tx[q].owner \in Owners /\ command[q].target \in Targets
      BY <2>1, <1>5 DEF Holding, OwnerKnown, Commands
    <2> QED
      BY <1>2, <1>3, <2>1, <2>2
  <1>6. SaverHolds'
    <2> SUFFICES ASSUME NEW q \in Requests
                 PROVE  /\ tx'[q].pc = "touch" => viewer'[q].user = Unbound
                        /\ tx'[q].pc \in Holding /\ viewer'[q].user = Unbound
                             => q \in profileLock'[viewer'[q].anon]
                        /\ tx'[q].pc \in Holding /\ tx'[q].owner \in Anons
                             => viewer'[q].user = Unbound
                                /\ tx'[q].owner = viewer'[q].anon
                        /\ tx'[q].pc \in Deciding
                             => /\ q \in rowLocks'[tx'[q].owner][command'[q].target]
                                /\ tx'[q].current =
                                     rows'[tx'[q].owner][command'[q].target].state
                        /\ tx'[q].pc = "project"
                             => ~Refused(tx'[q].current, command'[q])
                                /\ ~NoOp(tx'[q].current, command'[q])
      BY DEF SaverHolds
    <2>1. CASE tx'[q].pc = "touch"
      BY <2>1, <1>1 DEF Inv, SaverHolds, Holding, Deciding
    <2>2. CASE tx'[q].pc \in Holding
      <3>1. viewer[q].anon \in Anons
        BY DEF Viewers
      <3> QED
        BY <2>2, <3>1, <1>1, <1>5 DEF Inv, SaverHolds, Holding, Deciding
    <2> QED
      BY <2>1, <2>2 DEF Holding, Deciding
  <1>7. IdsInOrder'
    <2>1. tx[r].eventId < nextId
      BY <1>1 DEF Inv, IdsInOrder
    <2>2. /\ \A e \in events' : e.id < nextId'
          /\ \A p \in Owners, s \in Targets : rows'[p][s].last < nextId'
      <3>1. ASSUME NEW e \in events' PROVE e.id < nextId'
        BY <1>1, <2>1 DEF Inv, IdsInOrder
      <3>2. ASSUME NEW p \in Owners, NEW s \in Targets
            PROVE  rows'[p][s].last < nextId'
        <4>1. CASE p = o /\ s = t
          BY <4>1, <1>1, <1>3, <2>1
        <4>2. CASE p # o \/ s # t
          BY <4>2, <1>1, <1>3 DEF Inv, IdsInOrder
        <4> QED
          BY <4>1, <4>2
      <3> QED
        BY <3>1, <3>2
    <2>3. ASSUME NEW q \in Requests, tx'[q].pc = "project"
          PROVE  /\ tx'[q].eventId < nextId'
                 /\ rows'[tx'[q].owner][command'[q].target].last < tx'[q].eventId
                 /\ \A e \in events' :
                       /\ e.id # tx'[q].eventId
                       /\ e.owner = tx'[q].owner /\ e.target = command'[q].target
                            => e.id < tx'[q].eventId
      <3>1. q # r /\ tx'[q] = tx[q] /\ tx[q].pc \in Deciding
            /\ rows'[tx[q].owner][command[q].target]
                 = rows[tx[q].owner][command[q].target]
        BY <2>3, <1>5 DEF Holding, Deciding
      <3>2. tx[q].owner # o \/ command[q].target # t
        BY <3>1, <1>2
      <3>3. tx[q].eventId # tx[r].eventId
        BY <2>3, <3>1, <1>1 DEF Inv, IdsInOrder
      <3> QED
        BY <2>3, <3>1, <3>2, <3>3, <1>1 DEF Inv, IdsInOrder
    <2>4. ASSUME NEW p \in Requests, NEW q \in Requests, p # q,
                 tx'[p].pc = "project", tx'[q].pc = "project"
          PROVE  tx'[p].eventId # tx'[q].eventId
      BY <2>4, <1>5 DEF Inv, IdsInOrder, Holding
    <2> QED
      BY <2>2, <2>3, <2>4 DEF IdsInOrder
  <1>8. RecomputeHolds'
    <2>1. \A x \in Recomputers : x # r /\ tx'[x] = tx[x]
      BY <1>1
    <2> QED
      BY <1>1, <2>1, RecomputeFrame DEF Inv
  <1>9. DerivedCurrent'
    <2> SUFFICES ASSUME NEW x \in Recomputers, tx[x].pc = "repair"
                 PROVE  DerivationCurrent(x)'
      BY <1>1 DEF DerivedCurrent, DerivationCurrent
    <2>1. tx'[x] = tx[x] /\ DerivationCurrent(x)
      BY <1>1 DEF Inv, DerivedCurrent
    <2>2. \A a \in Anons : BoundFor(x)'[a] = BoundFor(x)[a]
      BY <1>1 DEF BoundFor, WithBinding
    <2>3. events \subseteq events' /\ \A e \in events' \ events : e.owner \notin Sources(x)
      BY <1>1, <1>2
    <2> QED
      BY <1>1, <2>1, <2>2, <2>3, DerivationFrame
  <1>10. RowExplained'
    <2> SUFFICES ASSUME NEW p \in Owners, NEW s \in Targets, HasRow(rows'[p][s])
                 PROVE  \E e \in events' :
                          /\ e.target = s /\ RowOf(e) = rows'[p][s]
                          /\ e.owner = p \/ (e.owner \in Anons /\ binding'[e.owner] = p)
      BY DEF RowExplained
    <2>1. CASE p = o /\ s = t
      BY <2>1, <1>1, <1>3
    <2>2. CASE p # o \/ s # t
      BY <2>2, <1>1, <1>3 DEF Inv, RowExplained
    <2> QED
      BY <2>1, <2>2
  <1> QED
    BY <1>4, <1>6, <1>7, <1>8, <1>9, <1>10 DEF Inv
------------------------------------------------------------------------------
(* A sign-in or the job: the steps that take no row lock.                  *)
LEMMA SaversFrame ==
  ASSUME TypeInv, Inv, NEW x \in Recomputers,
         \A y \in Txs \ {x} : tx'[y] = tx[y],
         \A o \in Owners, t \in Targets : rowLocks[o][t] \ {x} \subseteq rowLocks'[o][t],
         \A a \in Anons : profileLock[a] \ {x} \subseteq profileLock'[a],
         UNCHANGED <<viewer, command>>,
         \A r \in Requests :
            tx[r].pc \in Deciding =>
              rows'[tx[r].owner][command[r].target] = rows[tx[r].owner][command[r].target]
  PROVE  SaverHolds'
  <1> USE DEF TypeInv, TypeOK
  <1> SUFFICES ASSUME NEW q \in Requests
               PROVE  /\ tx'[q].pc = "touch" => viewer'[q].user = Unbound
                      /\ tx'[q].pc \in Holding /\ viewer'[q].user = Unbound
                           => q \in profileLock'[viewer'[q].anon]
                      /\ tx'[q].pc \in Holding /\ tx'[q].owner \in Anons
                           => viewer'[q].user = Unbound
                              /\ tx'[q].owner = viewer'[q].anon
                      /\ tx'[q].pc \in Deciding
                           => /\ q \in rowLocks'[tx'[q].owner][command'[q].target]
                              /\ tx'[q].current =
                                   rows'[tx'[q].owner][command'[q].target].state
                      /\ tx'[q].pc = "project"
                           => ~Refused(tx'[q].current, command'[q])
                              /\ ~NoOp(tx'[q].current, command'[q])
    BY DEF SaverHolds
  <1>1. /\ q \in Txs \ {x} /\ tx'[q] = tx[q] /\ viewer[q].anon \in Anons
        /\ tx[q].pc \in Deciding =>
              tx[q].owner \in Owners /\ command[q].target \in Targets
    BY DEF Recomputers, Txs, Viewers, OwnerKnown, Deciding, Commands
  <1> QED
    BY <1>1 DEF Inv, SaverHolds, Deciding

LEMMA CheckProfileInv ==
  ASSUME TypeInv, Inv, NEW l \in Links, CheckProfile(l)
  PROVE  Inv'
  <1> USE DEF TypeInv, TypeOK
  <1>1. /\ l \in Txs /\ l \in Recomputers /\ l \notin Requests
        /\ \A y \in Txs \ {l} : tx'[y] = tx[y]
        /\ tx'[l].pc \in {"bind", "done"} /\ tx'[l].owner = viewer[l].user
        /\ UNCHANGED <<events, rows, binding, nextId, rowLocks, profileLock,
                       viewer, command>>
        /\ Requests \subseteq Txs \ {l} /\ Recomputers \subseteq Txs
    BY DEF CheckProfile, Txs, Recomputers, Local, database, locks, inputs
  <1>2. OneHolder'
    BY <1>1 DEF Inv, OneHolder
  <1>3. SaverHolds'
    BY <1>1, SaversFrame
  <1>4. IdsInOrder'
    BY <1>1, IdsFrame DEF Inv
  <1>5. RecomputeHolds'
    BY <1>1 DEF Inv, RecomputeHolds, Recomputers
  <1>6. DerivedCurrent'
    BY <1>1, DerivedFrame DEF Inv
  <1>7. RowExplained'
    BY <1>1 DEF Inv, RowExplained
  <1> QED
    BY <1>2, <1>3, <1>4, <1>5, <1>6, <1>7 DEF Inv

LEMMA BindInv ==
  ASSUME TypeInv, Inv, NEW l \in Links, Bind(l)
  PROVE  Inv'
  <1> USE DEF TypeInv, TypeOK
  <1> DEFINE a == viewer[l].anon
  <1>1. /\ l \in Txs /\ l \in Recomputers /\ l \notin Requests
        /\ \A y \in Txs \ {l} : tx'[y] = tx[y]
        /\ tx[l].pc \in {"bind", "again"} /\ tx'[l].pc = "derive"
        /\ tx'[l].owner = tx[l].owner
        /\ a \in Anons /\ binding[a] = Unbound
        /\ profileLock[a] \subseteq {l} /\ profileLock'[a] = {l}
        /\ \A b \in Anons \ {a} : profileLock'[b] = profileLock[b]
        /\ UNCHANGED <<events, rows, binding, nextId, rowLocks, viewer, command>>
        /\ Requests \subseteq Txs \ {l} /\ Recomputers \subseteq Txs
    BY DEF Bind, Linkable, Free, Txs, Recomputers, Local, database, inputs, Viewers
  <1>2. OneHolder'
    <2>1. ASSUME NEW b \in Anons, NEW x \in profileLock'[b], NEW y \in profileLock'[b]
          PROVE  x = y
      <3>1. CASE b = a
        BY <2>1, <3>1, <1>1
      <3>2. CASE b # a
        BY <2>1, <3>2, <1>1 DEF Inv, OneHolder
      <3> QED
        BY <3>1, <3>2
    <2>2. \A o \in Owners, t \in Targets :
             HasRow(rows'[o][t]) => \A x, y \in rowLocks'[o][t] : x = y
      BY <1>1 DEF Inv, OneHolder
    <2> QED
      BY <2>1, <2>2 DEF OneHolder
  <1>3. SaverHolds'
    BY <1>1, SaversFrame
  <1>4. IdsInOrder'
    BY <1>1, IdsFrame DEF Inv
  <1>5. RecomputeHolds'
    <2>1. ASSUME NEW x \in Recomputers, tx'[x].pc = "repair", NEW t \in Targets
          PROVE  x \in rowLocks'[tx'[x].owner][t]
      <3>1. x # l /\ tx'[x] = tx[x]
        BY <1>1, <2>1
      <3> QED
        BY <1>1, <2>1, <3>1 DEF Inv, RecomputeHolds
    <2>2. ASSUME NEW m \in Links, tx'[m].pc \in {"bind", "again", "derive", "repair"}
          PROVE  tx'[m].owner = viewer'[m].user
      BY <1>1, <2>2 DEF Inv, RecomputeHolds, Recomputers
    <2>3. ASSUME NEW m \in Links, tx'[m].pc \in {"derive", "repair"}
          PROVE  /\ m \in profileLock'[viewer'[m].anon]
                 /\ binding'[viewer'[m].anon] = Unbound
      <3>1. CASE m = l
        BY <3>1, <1>1
      <3>2. CASE m # l
        <4>1. /\ tx'[m] = tx[m] /\ viewer[m].anon \in Anons
              /\ m \in profileLock[viewer[m].anon]
              /\ binding[viewer[m].anon] = Unbound
          BY <1>1, <2>3, <3>2 DEF Inv, RecomputeHolds, Recomputers, Viewers
        <4> QED
          BY <1>1, <3>2, <4>1
      <3> QED
        BY <3>1, <3>2
    <2> QED
      BY <2>1, <2>2, <2>3 DEF RecomputeHolds
  <1>6. DerivedCurrent'
    BY <1>1, DerivedFrame DEF Inv
  <1>7. RowExplained'
    BY <1>1 DEF Inv, RowExplained
  <1> QED
    BY <1>2, <1>3, <1>4, <1>5, <1>6, <1>7 DEF Inv

LEMMA StartOwnerInv ==
  ASSUME TypeInv, Inv, NEW j \in Reconcilers, NEW o \in Owners, StartOwner(j, o)
  PROVE  Inv'
  <1> USE DEF TypeInv, TypeOK
  <1>1. /\ j \in Txs /\ j \in Recomputers /\ j \notin Requests /\ j \notin Links
        /\ \A y \in Txs \ {j} : tx'[y] = tx[y]
        /\ tx'[j].pc = "derive"
        /\ UNCHANGED <<events, rows, binding, nextId, rowLocks, profileLock,
                       viewer, command>>
        /\ Requests \subseteq Txs \ {j} /\ Recomputers \subseteq Txs
    BY DEF StartOwner, Txs, Recomputers, Local, database, locks, inputs
  <1>2. OneHolder'
    BY <1>1 DEF Inv, OneHolder
  <1>3. SaverHolds'
    BY <1>1, SaversFrame
  <1>4. IdsInOrder'
    BY <1>1, IdsFrame DEF Inv
  <1>5. RecomputeHolds'
    BY <1>1 DEF Inv, RecomputeHolds, Recomputers
  <1>6. DerivedCurrent'
    BY <1>1, DerivedFrame DEF Inv
  <1>7. RowExplained'
    BY <1>1 DEF Inv, RowExplained
  <1> QED
    BY <1>2, <1>3, <1>4, <1>5, <1>6, <1>7 DEF Inv

(* The events the derivation reads are those of the recompute's owner and  *)
(* sources; an identity that is bound derives nothing for itself.          *)
LEMMA EventsOfSources ==
  ASSUME TypeInv, NEW x \in Recomputers, tx[x].owner \in Owners,
         x \in Links => tx[x].owner = viewer[x].user
  PROVE  LET bound == IF x \in Links THEN WithBinding(x) ELSE binding
             seen == EventsOf(tx[x].owner, events, bound)
         IN  \/ /\ seen \subseteq CountedFor(tx[x].owner, bound)
                /\ {e \in events : e.owner \in Sources(x)} \subseteq seen
             \/ x \in Reconcilers /\ seen = {}
  <1> USE DEF TypeInv, TypeOK, SignIns
  <1> DEFINE o == tx[x].owner
             bound == IF x \in Links THEN WithBinding(x) ELSE binding
             seen == EventsOf(o, events, bound)
  <1>1. bound \in [Anons -> Users \cup {Unbound}] /\ Unbound \notin Owners
    BY DEF WithBinding, Viewers, Owners
  <1>2. seen \subseteq CountedFor(o, bound)
    BY DEF EventsOf, CountedFor
  <1>3. CASE x \in Links
    <2>1. o \in Users /\ viewer[x].anon \in Anons /\ bound[viewer[x].anon] = o
          /\ o # Unbound
      BY <1>3 DEF WithBinding, Viewers
    <2>2. {e \in events : e.owner \in Sources(x)} \subseteq seen
      BY <1>3, <2>1 DEF Sources, EventsOf
    <2> QED
      BY <1>2, <2>2
  <1>4. CASE x \notin Links /\ (o \in Users \/ bound[o] = Unbound)
    BY <1>2, <1>4 DEF Sources, EventsOf
  <1>5. CASE x \notin Links /\ o \in Anons /\ bound[o] # Unbound
    <2>1. seen = {}
      BY <1>1, <1>5 DEF EventsOf
    <2> QED
      BY <2>1, <1>5 DEF Recomputers
  <1> QED
    BY <1>3, <1>4, <1>5 DEF Owners

LEMMA LockAndDeriveInv ==
  ASSUME TypeInv, Inv, NEW x \in Recomputers, tx[x].owner \in Owners,
         tx[x].pc \in {"derive", "again"},
         x \in Links => tx[x].pc = "derive",
         LockAndDerive(x, IF x \in Links THEN WithBinding(x) ELSE binding)
  PROVE  Inv'
  <1> USE DEF TypeInv, TypeOK
  <1> DEFINE o == tx[x].owner
             bound == IF x \in Links THEN WithBinding(x) ELSE binding
             seen == EventsOf(o, events, bound)
             derived == [t \in Targets |-> Derive(seen, t)]
  <1>1. /\ x \in Txs /\ x \notin Requests
        /\ \A y \in Txs \ {x} : tx'[y] = tx[y]
        /\ tx'[x].pc = "repair" /\ tx'[x].owner = o /\ tx'[x].expected = derived
        /\ \A t \in Targets : HasRow(rows[o][t]) => rowLocks[o][t] \subseteq {x}
        /\ rowLocks' = [rowLocks EXCEPT ![o] = [t \in Targets |-> rowLocks[o][t] \cup {x}]]
        /\ UNCHANGED <<events, rows, binding, nextId, profileLock, viewer, command>>
        /\ Requests \subseteq Txs \ {x} /\ Recomputers \subseteq Txs
    BY DEF LockAndDerive, CanLock, Free, Txs, Recomputers, Local, database, inputs
  <1>2. \A p \in Owners, t \in Targets :
           /\ rowLocks[p][t] \subseteq rowLocks'[p][t]
           /\ p = o => rowLocks'[p][t] = rowLocks[p][t] \cup {x}
           /\ p # o => rowLocks'[p][t] = rowLocks[p][t]
    BY <1>1
  <1>3. OneHolder'
    BY <1>1, <1>2 DEF Inv, OneHolder
  <1>4. SaverHolds'
    BY <1>1, <1>2, SaversFrame
  <1>5. IdsInOrder'
    BY <1>1, IdsFrame DEF Inv
  <1>6. RecomputeHolds'
    <2>1. ASSUME NEW y \in Recomputers, tx'[y].pc = "repair", NEW t \in Targets
          PROVE  y \in rowLocks'[tx'[y].owner][t]
      <3>1. CASE y = x
        BY <3>1, <1>1, <1>2
      <3>2. CASE y # x
        <4>1. tx'[y] = tx[y] /\ tx[y].owner \in Owners
          BY <2>1, <3>2, <1>1 DEF OwnerKnown, Recomputers
        <4> QED
          BY <2>1, <4>1, <1>2 DEF Inv, RecomputeHolds
      <3> QED
        BY <3>1, <3>2
    <2>2. ASSUME NEW l \in Links
          PROVE  /\ tx'[l].pc \in {"bind", "again", "derive", "repair"}
                      => tx'[l].owner = viewer'[l].user
                 /\ tx'[l].pc \in {"derive", "repair"}
                      => /\ l \in profileLock'[viewer'[l].anon]
                         /\ binding'[viewer'[l].anon] = Unbound
      BY <1>1 DEF Inv, RecomputeHolds, Recomputers
    <2> QED
      BY <2>1, <2>2 DEF RecomputeHolds
  <1>7. DerivedCurrent'
    <2> SUFFICES ASSUME NEW y \in Recomputers
                 PROVE  DerivationCurrent(y)'
      BY DEF DerivedCurrent
    <2>1. CASE y # x
      <3>1. DerivationCurrent(y) /\ tx'[y] = tx[y]
        BY <1>1, <2>1 DEF Inv, DerivedCurrent
      <3>2. \A a \in Anons : BoundFor(y)'[a] = BoundFor(y)[a]
        BY <1>1 DEF BoundFor, WithBinding
      <3> QED
        BY <3>1, <3>2, <1>1, DerivationFrame
    <2>2. CASE y = x
      <3>1. x \in Links => tx[x].owner = viewer[x].user
        BY DEF Inv, RecomputeHolds
      <3>2. /\ Sources(x)' = Sources(x)
            /\ CountedFor(tx[x].owner, BoundFor(x))' = CountedFor(o, bound)
        BY <1>1 DEF Sources, CountedFor, BoundFor, WithBinding
      <3>3. seen \subseteq events'
        BY <1>1 DEF EventsOf
      <3>4. CASE /\ seen \subseteq CountedFor(o, bound)
                 /\ {e \in events : e.owner \in Sources(x)} \subseteq seen
        <4>1. PICK s : s = seen
          OBVIOUS
        <4>2. DerivedFrom(x, s)'
          BY <3>2, <3>4, <4>1, <1>1 DEF DerivedFrom
        <4> QED
          BY <2>2, <3>3, <4>1, <4>2 DEF DerivationCurrent
      <3>5. CASE x \in Reconcilers /\ seen = {}
        <4>1. \A t \in Targets : tx'[x].expected[t] = NoRow
          BY <3>5, <1>1, DeriveExplained
        <4> QED
          BY <2>2, <3>5, <4>1 DEF DerivationCurrent
      <3> QED
        BY <3>1, <3>4, <3>5, EventsOfSources
    <2> QED
      BY <2>1, <2>2
  <1>8. RowExplained'
    BY <1>1 DEF Inv, RowExplained
  <1> QED
    BY <1>3, <1>4, <1>5, <1>6, <1>7, <1>8 DEF Inv
------------------------------------------------------------------------------
(* RepairRows and COMMIT, by a sign-in that also commits its binding, or by*)
(* the job.                                                                *)

(* A repaired row is explained by an event its recompute counted, and no   *)
(* row that a save has decided on is repaired.                             *)
LEMMA RepairedRows ==
  ASSUME TypeInv, Inv, NEW x \in Recomputers, tx[x].pc = "repair",
         CanRepair(x), RepairRows(x), NEW t \in Targets
  PROVE  LET o == tx[x].owner
         IN  \/ rows'[o][t] = rows[o][t]
             \/ /\ HasRow(rows'[o][t]) /\ rows'[o][t] = tx[x].expected[t]
                /\ rowLocks[o][t] \subseteq {x}
                /\ \E e \in CountedFor(o, BoundFor(x)) :
                      e.target = t /\ RowOf(e) = rows'[o][t]
  <1> USE DEF TypeInv, TypeOK
  <1> DEFINE o == tx[x].owner
  <1>1. o \in Owners /\ x \in Txs
    BY DEF OwnerKnown, Recomputers, Txs
  <1>2. rows'[o][t] = IF Drifted(tx[x].expected[t], rows[o][t])
                      THEN tx[x].expected[t] ELSE rows[o][t]
    BY <1>1 DEF RepairRows
  <1>3. CASE Drifted(tx[x].expected[t], rows[o][t])
    <2>1. /\ rows'[o][t] = tx[x].expected[t] /\ HasRow(tx[x].expected[t])
          /\ rowLocks[o][t] \subseteq {x}
      BY <1>2, <1>3 DEF CanRepair, CanInsert, Free, Drifted
    <2>2. PICK seen \in SUBSET events : DerivedFrom(x, seen)
      BY <2>1 DEF Inv, DerivedCurrent, DerivationCurrent, HasRow, NoRow
    <2>3. Derive(seen, t) = tx[x].expected[t] /\ Derive(seen, t) # NoRow
      BY <2>1, <2>2 DEF DerivedFrom, HasRow, NoRow
    <2>4. \E e \in seen : e.target = t /\ RowOf(e) = tx[x].expected[t]
      BY <2>3, DeriveExplained
    <2> QED
      BY <2>1, <2>2, <2>4 DEF DerivedFrom
  <1>4. CASE ~Drifted(tx[x].expected[t], rows[o][t])
    BY <1>2, <1>4
  <1> QED
    BY <1>3, <1>4

LEMMA RepairInv ==
  ASSUME TypeInv, Inv, NEW x \in Recomputers, tx[x].pc = "repair",
         NEW label \in {"idle", "done"},
         CanRepair(x), RepairRows(x), End(x, label),
         binding' = BoundFor(x),
         UNCHANGED <<events, nextId, inputs>>
  PROVE  Inv'
  <1> DEFINE o == tx[x].owner
  <1>0. \A t \in Targets :
           \/ rows'[o][t] = rows[o][t]
           \/ /\ HasRow(rows'[o][t]) /\ rowLocks[o][t] \subseteq {x}
              /\ \E e \in CountedFor(o, BoundFor(x)) :
                    e.target = t /\ RowOf(e) = rows'[o][t]
    BY RepairedRows
  <1> USE DEF TypeInv, TypeOK
  <1>1. /\ x \in Txs /\ x \notin Requests /\ o \in Owners
        /\ \A y \in Txs \ {x} : tx'[y] = tx[y]
        /\ tx'[x].pc \in {"idle", "done"}
        /\ \A p \in Owners, t \in Targets : rowLocks'[p][t] = rowLocks[p][t] \ {x}
        /\ \A a \in Anons : profileLock'[a] = profileLock[a] \ {x}
        /\ UNCHANGED <<events, nextId, viewer, command>>
        /\ Requests \subseteq Txs \ {x} /\ Recomputers \subseteq Txs
    BY DEF End, Blank, ReleaseAll, Txs, Recomputers, OwnerKnown, inputs
  <1>2. \A p \in Owners \ {o} : rows'[p] = rows[p]
    BY <1>1 DEF RepairRows
  <1>4. /\ binding' \in [Anons -> Users \cup {Unbound}]
        /\ \A a \in Anons : binding[a] # Unbound => binding'[a] = binding[a]
        /\ \A a \in Anons :
              binding'[a] # binding[a] => x \in Links /\ a = viewer[x].anon
    BY DEF Inv, RecomputeHolds, BoundFor, WithBinding, Viewers, SignIns
  <1>5. OneHolder'
    <2>1. ASSUME NEW p \in Owners, NEW t \in Targets, HasRow(rows'[p][t]),
                 NEW y \in rowLocks'[p][t], NEW z \in rowLocks'[p][t]
          PROVE  y = z
      <3>1. y \in rowLocks[p][t] \ {x} /\ z \in rowLocks[p][t] \ {x}
        BY <2>1, <1>1
      <3>2. rows'[p][t] = rows[p][t]
        BY <1>2, <1>0, <3>1
      <3>3. HasRow(rows[p][t])
        BY <2>1, <3>2
      <3> QED
        BY <3>1, <3>3 DEF Inv, OneHolder
    <2>2. \A a \in Anons : \A y, z \in profileLock'[a] : y = z
      BY <1>1 DEF Inv, OneHolder
    <2> QED
      BY <2>1, <2>2 DEF OneHolder
  <1>6. \A r \in Requests :
           tx[r].pc \in Deciding =>
             rows'[tx[r].owner][command[r].target] = rows[tx[r].owner][command[r].target]
    <2> SUFFICES ASSUME NEW r \in Requests, tx[r].pc \in Deciding
                 PROVE  rows'[tx[r].owner][command[r].target]
                          = rows[tx[r].owner][command[r].target]
      OBVIOUS
    <2>1. /\ tx[r].owner \in Owners /\ command[r].target \in Targets /\ r # x
          /\ r \in rowLocks[tx[r].owner][command[r].target]
      BY <1>1 DEF OwnerKnown, Deciding, Commands, Inv, SaverHolds
    <2> QED
      BY <2>1, <1>2, <1>0
  <1>7. SaverHolds'
    BY <1>1, <1>6, SaversFrame
  <1>8. IdsInOrder'
    <2>1. ASSUME NEW p \in Owners, NEW t \in Targets
          PROVE  rows'[p][t].last < nextId
      <3>1. CASE rows'[p][t] = rows[p][t]
        BY <3>1 DEF Inv, IdsInOrder
      <3>2. CASE rows'[p][t] # rows[p][t]
        <4>1. p = o
          BY <3>2, <1>2
        <4>2. PICK e \in events : RowOf(e) = rows'[p][t]
          BY <3>2, <4>1, <1>0 DEF CountedFor
        <4> QED
          BY <4>2 DEF RowOf, Inv, IdsInOrder
      <3> QED
        BY <3>1, <3>2
    <2>2. \A r \in Requests :
             tx'[r].pc = "project" => tx'[r] = tx[r] /\ tx[r].pc \in Deciding
      BY <1>1 DEF Deciding
    <2>3. ASSUME NEW q \in Requests, tx'[q].pc = "project"
          PROVE  /\ tx'[q].eventId < nextId'
                 /\ rows'[tx'[q].owner][command'[q].target].last < tx'[q].eventId
                 /\ \A e \in events' :
                       /\ e.id # tx'[q].eventId
                       /\ e.owner = tx'[q].owner /\ e.target = command'[q].target
                            => e.id < tx'[q].eventId
      BY <2>2, <2>3, <1>1, <1>6 DEF Inv, IdsInOrder
    <2>4. ASSUME NEW p \in Requests, NEW q \in Requests, p # q,
                 tx'[p].pc = "project", tx'[q].pc = "project"
          PROVE  tx'[p].eventId # tx'[q].eventId
      BY <2>2, <2>4 DEF Inv, IdsInOrder
    <2>5. \A e \in events' : e.id < nextId'
      BY <1>1 DEF Inv, IdsInOrder
    <2> QED
      BY <2>1, <2>3, <2>4, <2>5, <1>1 DEF IdsInOrder
  <1>9. \A l \in Links \ {x} :
           tx[l].pc \in {"derive", "repair"} => binding'[viewer[l].anon] = Unbound
    <2> SUFFICES ASSUME NEW l \in Links \ {x}, tx[l].pc \in {"derive", "repair"},
                        binding'[viewer[l].anon] # Unbound
                 PROVE  FALSE
      OBVIOUS
    <2>1. /\ viewer[l].anon \in Anons
          /\ l \in profileLock[viewer[l].anon] /\ binding[viewer[l].anon] = Unbound
      BY DEF Inv, RecomputeHolds, Viewers
    <2>2. x \in Links /\ viewer[x].anon = viewer[l].anon
      BY <2>1, <1>4
    <2>3. x \in profileLock[viewer[l].anon]
      BY <2>2 DEF Inv, RecomputeHolds
    <2> QED
      BY <2>1, <2>3 DEF Inv, OneHolder
  <1>10. RecomputeHolds'
    <2>1. ASSUME NEW y \in Recomputers, tx'[y].pc = "repair", NEW t \in Targets
          PROVE  y \in rowLocks'[tx'[y].owner][t]
      <3>1. y # x /\ tx'[y] = tx[y] /\ tx[y].owner \in Owners
        BY <1>1, <2>1 DEF OwnerKnown, Recomputers
      <3> QED
        BY <1>1, <2>1, <3>1 DEF Inv, RecomputeHolds
    <2>2. ASSUME NEW l \in Links, tx'[l].pc \in {"bind", "again", "derive", "repair"}
          PROVE  /\ tx'[l].owner = viewer'[l].user
                 /\ tx'[l].pc \in {"derive", "repair"}
                      => /\ l \in profileLock'[viewer'[l].anon]
                         /\ binding'[viewer'[l].anon] = Unbound
      <3>1. l # x /\ tx'[l] = tx[l] /\ viewer[l].anon \in Anons
        BY <1>1, <2>2 DEF Recomputers, Viewers
      <3> QED
        BY <1>1, <1>9, <2>2, <3>1 DEF Inv, RecomputeHolds
    <2> QED
      BY <2>1, <2>2 DEF RecomputeHolds
  <1>11. DerivedCurrent'
    <2> SUFFICES ASSUME NEW y \in Recomputers, tx'[y].pc = "repair"
                 PROVE  DerivationCurrent(y)'
      BY DEF DerivedCurrent, DerivationCurrent
    <2>1. y # x /\ tx'[y] = tx[y] /\ DerivationCurrent(y)
      BY <1>1 DEF Inv, DerivedCurrent
    <2>2. CASE y \in Links
      <3>1. /\ binding'[viewer[y].anon] = Unbound /\ binding[viewer[y].anon] = Unbound
            /\ viewer[y].anon \in Anons
        BY <1>9, <2>1, <2>2 DEF Inv, RecomputeHolds, Viewers
      <3>2. /\ BoundFor(y) = [binding EXCEPT ![viewer[y].anon] = viewer[y].user]
            /\ BoundFor(y)' = [binding' EXCEPT ![viewer[y].anon] = viewer[y].user]
        BY <1>1, <2>2 DEF BoundFor, WithBinding
      <3>3. ASSUME NEW a \in Anons, BoundFor(y)[a] # Unbound
            PROVE  BoundFor(y)'[a] = BoundFor(y)[a]
        BY <1>4, <3>1, <3>2, <3>3
      <3> QED
        BY <1>1, <2>1, <3>3, DerivationFrame
    <2>3. CASE y \notin Links
      <3>1. BoundFor(y) = binding /\ BoundFor(y)' = binding'
        BY <2>3 DEF BoundFor
      <3> QED
        BY <1>1, <1>4, <2>1, <3>1, DerivationFrame
    <2> QED
      BY <2>2, <2>3
  <1>12. RowExplained'
    <2> SUFFICES ASSUME NEW p \in Owners, NEW t \in Targets, HasRow(rows'[p][t])
                 PROVE  \E e \in events' :
                          /\ e.target = t /\ RowOf(e) = rows'[p][t]
                          /\ e.owner = p \/ (e.owner \in Anons /\ binding'[e.owner] = p)
      BY DEF RowExplained
    <2>1. CASE rows'[p][t] = rows[p][t]
      <3>1. PICK e \in events :
               /\ e.target = t /\ RowOf(e) = rows[p][t]
               /\ e.owner = p \/ (e.owner \in Anons /\ binding[e.owner] = p)
        BY <2>1 DEF Inv, RowExplained
      <3>2. p # Unbound
        BY DEF Owners
      <3> QED
        BY <2>1, <3>1, <3>2, <1>1, <1>4
    <2>2. CASE rows'[p][t] # rows[p][t]
      <3>1. p = o
        BY <2>2, <1>2
      <3> QED
        BY <2>2, <3>1, <1>1, <1>0 DEF CountedFor
    <2> QED
      BY <2>1, <2>2
  <1> QED
    BY <1>5, <1>7, <1>8, <1>10, <1>11, <1>12 DEF Inv
------------------------------------------------------------------------------
(* A handler that ends without a commit of its own, and the way back to    *)
(* the start of a transaction.                                             *)
LEMMA EndInv ==
  ASSUME TypeInv, Inv, NEW x \in Txs, NEW label \in {"idle"} \cup Ended,
         End(x, label), UNCHANGED <<events, rows, binding, nextId, inputs>>
  PROVE  Inv'
  <1> DEFINE after == [Blank EXCEPT !.pc = label]
  <1>1. after.pc = label /\ tx' = [tx EXCEPT ![x] = after] /\ ReleaseAll(x)
    BY DEF End, Blank
  <1>2. after.pc \in OutOfTransaction /\ after.pc # "again"
    BY <1>1 DEF OutOfTransaction, Ended
  <1> HIDE DEF after
  <1> QED
    BY <1>1, <1>2, LeaveInv

LEMMA RetryInv ==
  ASSUME TypeInv, Inv, NEW x \in Txs, Retry(x)
  PROVE  Inv'
  <1> DEFINE after == [Blank EXCEPT !.pc = "again",
                                    !.attempt = tx[x].attempt + 1,
                                    !.owner = tx[x].owner]
  <1>1. /\ after.pc = "again" /\ after.owner = tx[x].owner
        /\ tx' = [tx EXCEPT ![x] = after] /\ ReleaseAll(x)
        /\ UNCHANGED <<events, rows, binding, nextId, inputs>>
    BY DEF Retry, Blank, database
  <1>2. x \in Links => tx[x].owner = viewer[x].user
    BY DEF Retry, Waiting, LinkWaits, JobWaits, Inv, RecomputeHolds
  <1>3. after.pc \in OutOfTransaction
    BY <1>1 DEF OutOfTransaction
  <1> HIDE DEF after
  <1> QED
    BY <1>1, <1>2, <1>3, LeaveInv

LEMMA NextInv == TypeInv /\ Inv /\ [Next]_vars => Inv'
  <1> SUFFICES ASSUME TypeInv, Inv, [Next]_vars PROVE Inv'
    OBVIOUS
  <1> USE DEF database
  <1>1. ASSUME NEW r \in Requests, SaveStep(r) PROVE Inv'
    <2>0. r \in Txs /\ "refused" \in Ended /\ "done" \in Ended
      BY DEF Txs, Ended
    <2>1. CASE Begin(r)
      BY <2>1, BeginInv
    <2>2. CASE Touch(r)
      BY <2>2, TouchInv
    <2>3. CASE Lock(r)
      BY <2>3, LockInv
    <2>4. CASE Refuse(r)
      BY <2>0, <2>4, EndInv DEF Refuse
    <2>5. CASE Keep(r)
      BY <2>0, <2>5, EndInv DEF Keep
    <2>6. CASE Append(r)
      BY <2>6, AppendInv
    <2>7. CASE Project(r)
      BY <2>7, ProjectInv
    <2> QED
      BY <1>1, <2>1, <2>2, <2>3, <2>4, <2>5, <2>6, <2>7 DEF SaveStep
  <1>2. ASSUME NEW l \in Links, LinkStep(l) PROVE Inv'
    <2>0. l \in Txs /\ l \in Recomputers /\ "done" \in Ended
      BY DEF Txs, Ended, Recomputers
    <2>1. CASE CheckProfile(l)
      BY <2>1, CheckProfileInv
    <2>2. CASE Bind(l)
      BY <2>2, BindInv
    <2>3. CASE AlreadyBound(l)
      BY <2>0, <2>3, EndInv DEF AlreadyBound
    <2>4. CASE DeriveLink(l)
      <3>1. tx[l].owner \in Owners /\ tx[l].pc = "derive"
        BY <2>4 DEF DeriveLink, TypeInv, OwnerKnown
      <3> QED
        BY <2>0, <2>4, <3>1, LockAndDeriveInv DEF DeriveLink
    <2>5. CASE CommitLink(l)
      BY <2>0, <2>5, RepairInv DEF CommitLink, BoundFor
    <2> QED
      BY <1>2, <2>1, <2>2, <2>3, <2>4, <2>5 DEF LinkStep
  <1>3. ASSUME NEW j \in Reconcilers, DeriveOwner(j) \/ CommitOwner(j)
        PROVE  Inv'
    <2>0. j \in Txs /\ j \in Recomputers /\ j \notin Links
      BY DEF Txs, Recomputers
    <2>1. CASE DeriveOwner(j)
      <3>1. tx[j].owner \in Owners /\ tx[j].pc \in {"derive", "again"}
        BY <2>1 DEF DeriveOwner, TypeInv, OwnerKnown
      <3> QED
        BY <2>0, <2>1, <3>1, LockAndDeriveInv DEF DeriveOwner
    <2>2. CASE CommitOwner(j)
      BY <2>0, <2>2, RepairInv DEF CommitOwner, BoundFor
    <2> QED
      BY <1>3, <2>1, <2>2
  <1>4. ASSUME NEW j \in Reconcilers, NEW o \in Owners, StartOwner(j, o)
        PROVE  Inv'
    BY <1>4, StartOwnerInv
  <1>5. ASSUME NEW x \in Txs, LoseLockRace(x) \/ Crash(x)
        PROVE  Inv'
    <2>1. CASE Retry(x)
      BY <2>1, RetryInv
    <2>2. CASE OutOfAttempts(x) \/ Crash(x)
      BY <2>2, EndInv DEF OutOfAttempts, Crash, GiveUp, Ended
    <2> QED
      BY <1>5, <2>1, <2>2 DEF LoseLockRace
  <1>6. ASSUME UNCHANGED <<events, rows, binding, nextId, rowLocks, profileLock,
                           viewer, command, tx>>
        PROVE  Inv'
    <2>1. \A x \in Recomputers : BoundFor(x)' = BoundFor(x) /\ Sources(x)' = Sources(x)
      BY <1>6 DEF BoundFor, WithBinding, Sources
    <2>2. DerivedCurrent'
      BY <1>6, <2>1 DEF Inv, DerivedCurrent, DerivationCurrent, DerivedFrom, CountedFor
    <2>3. OneHolder' /\ SaverHolds' /\ IdsInOrder' /\ RowExplained'
      BY <1>6 DEF Inv, OneHolder, SaverHolds, IdsInOrder, RowExplained
    <2>4. RecomputeHolds'
      BY <1>6 DEF Inv, RecomputeHolds
    <2> QED
      BY <2>2, <2>3, <2>4 DEF Inv
  <1>7. CASE Tick
    BY <1>6, <1>7 DEF Tick, locks, inputs
  <1>8. CASE UNCHANGED vars
    BY <1>6, <1>8 DEF vars, locks, inputs
  <1> QED
    BY <1>1, <1>2, <1>3, <1>4, <1>5, <1>7, <1>8 DEF Next, Finished

LEMMA InitInv == Init => Inv
  <1> SUFFICES ASSUME Init PROVE Inv
    OBVIOUS
  <1>1. /\ \A x \in Txs : tx[x] = Blank
        /\ Requests \subseteq Txs /\ Links \subseteq Txs /\ Recomputers \subseteq Txs
        /\ Blank.pc = "idle" /\ Blank.owner = Unbound
    BY DEF Init, Empty, Blank, Txs, Recomputers
  <1>2. OneHolder /\ RowExplained
    BY DEF Init, Empty, OneHolder, RowExplained, HasRow, NoRow
  <1>3. SaverHolds /\ RecomputeHolds
    BY <1>1 DEF SaverHolds, Holding, Deciding, RecomputeHolds
  <1>4. IdsInOrder
    BY <1>1 DEF Init, Empty, IdsInOrder, NoRow
  <1>5. DerivedCurrent
    BY <1>1 DEF DerivedCurrent, DerivationCurrent
  <1> QED
    BY <1>2, <1>3, <1>4, <1>5 DEF Inv

(* The lock discipline of the save, link and reconcile transactions, and   *)
(* what it buys: a decided row does not change under its decision, event   *)
(* ids are projected in order, and a recompute commits what the log still  *)
(* says.                                                                   *)
THEOREM LocksProtect == Spec => []Inv
  <1>1. TypeInv /\ [Next]_vars => TypeInv'
    BY NextType
  <1>2. Init => TypeInv
    BY InitType
  <1> QED
    BY <1>1, <1>2, NextInv, InitInv, PTL DEF Spec

(* Every state row is the projection of an event of its owner, directly or *)
(* through a binding, however saves, links and repairs interleave.         *)
THEOREM RowsExplained == Spec => []RowExplained
  <1>1. Inv => RowExplained
    BY DEF Inv
  <1> QED
    BY <1>1, LocksProtect, PTL

------------------------------------------------------------------------------
(* SaveState implements SaveLog: each transaction that commits a change is *)
(* one atomic step of the log, everything else is a stutter.               *)

(* SaveLog's copies of the shared operators are the operators.             *)
LEMMA LogOperators ==
  /\ Log!Owners = Owners
  /\ Log!NoRow = NoRow
  /\ \A row : Log!HasRow(row) <=> HasRow(row)
  /\ \A e : Log!RowOf(e) = RowOf(e)
  /\ \A E, t : Log!Derive(E, t) = Derive(E, t)
  <1>1. \A e, f : Log!Before(e, f) <=> Before(e, f)
    BY DEF Log!Before, Before
  <1>2. \A E : Log!LatestIn(E) = LatestIn(E)
    BY <1>1 DEF Log!LatestIn, LatestIn
  <1>3. /\ Log!NoRow = NoRow /\ Log!Owners = Owners
        /\ \A e : Log!RowOf(e) = RowOf(e)
        /\ \A row : Log!HasRow(row) <=> HasRow(row)
    BY DEF Log!NoRow, NoRow, Log!Owners, Owners, Log!RowOf, RowOf, Log!HasRow, HasRow
  <1>4. \A E, t : Log!Derive(E, t) = Derive(E, t)
    <2> SUFFICES ASSUME NEW E, NEW t PROVE Log!Derive(E, t) = Derive(E, t)
      OBVIOUS
    <2> DEFINE S == {e \in E : e.target = t}
               there == Log!LatestIn(S)
               here == LatestIn(S)
    <2>1. there = here
      BY <1>2
    <2>2. Log!Derive(E, t) = IF there = {} THEN Log!NoRow
                             ELSE Log!RowOf(CHOOSE e \in there : TRUE)
      BY DEF Log!Derive
    <2>3. Derive(E, t) = IF here = {} THEN NoRow ELSE RowOf(CHOOSE e \in here : TRUE)
      BY DEF Derive
    <2> HIDE DEF there, here
    <2> QED
      BY <1>3, <2>1, <2>2, <2>3
  <1> QED
    BY <1>3, <1>4

LEMMA InitRefines == Init => Log!Init
  BY LogOperators DEF Init, Empty, Log!Init

(* A decision that is neither refused nor a no-op is legal.                *)
LEMMA DecidedIsLegal ==
  ASSUME NEW current \in SaveStates, NEW c \in Commands,
         ~Refused(current, c), ~NoOp(current, c)
  PROVE  Log!Legal(current, EventType(c), NextState(c))
  BY DEF Log!Legal, Refused, NoOp, EventType, NextState, Commands, SaveStates, Tags

LEMMA ProjectRefines ==
  ASSUME TypeInv, Inv, NEW r \in Requests, Project(r)
  PROVE  Log!Next
  <1> USE DEF TypeInv, TypeOK
  <1> DEFINE o == tx[r].owner
             t == command[r].target
             new == NewEvent(r)
  <1>1. /\ tx[r].pc = "project" /\ r \in Txs
        /\ o \in Owners /\ t \in Targets /\ command[r] \in Commands
        /\ events' = events \cup {new} /\ binding' = binding
    BY DEF Project, Txs, OwnerKnown, Commands
  <1>2. /\ new.id = tx[r].eventId /\ new.owner = o /\ new.target = t
        /\ new.type = EventType(command[r])
    BY DEF NewEvent
  <1>3. /\ tx[r].current = rows[o][t].state
        /\ ~Refused(tx[r].current, command[r]) /\ ~NoOp(tx[r].current, command[r])
    BY <1>1 DEF Inv, SaverHolds, Deciding
  <1>4. RowOf(new) = [state |-> NextState(command[r]), last |-> tx[r].eventId]
    BY <1>1, <1>3, NewEventRow
  <1>5. Log!Legal(rows[new.owner][new.target].state, new.type, RowOf(new).state)
    <2>1. rows[o][t].state \in SaveStates
      BY <1>1 DEF Row
    <2> QED
      BY <1>1, <1>2, <1>3, <1>4, <2>1, DecidedIsLegal
  <1>6. /\ rows[new.owner][new.target].last < new.id
        /\ \A f \in events : f.id # new.id
        /\ \A f \in events :
              f.owner = new.owner /\ f.target = new.target => f.id < new.id
    BY <1>1, <1>2 DEF Inv, IdsInOrder
  <1>7. rows' = [rows EXCEPT ![new.owner][new.target] = RowOf(new)]
    BY <1>2, ProjectAlone DEF Project
  <1> HIDE DEF new
  <1>8. Log!Write(new)
    BY <1>1, <1>5, <1>6, <1>7, LogOperators DEF Log!Write
  <1> QED
    BY <1>1, <1>8 DEF Log!Next

(* What a recompute commits is a derivation of the abstract log.           *)
LEMMA RepairRefines ==
  ASSUME TypeInv, Inv, NEW x \in Recomputers, tx[x].pc = "repair", RepairRows(x)
  PROVE  \/ Log!Rederive(tx[x].owner, Sources(x), BoundFor(x))
         \/ x \in Reconcilers /\ rows' = rows
  <1> USE DEF TypeInv, TypeOK
  <1> DEFINE o == tx[x].owner
  <1>1. x \in Txs /\ o \in Owners
    BY DEF Recomputers, Txs, OwnerKnown
  <1>2. ASSUME NEW seen \in SUBSET events, DerivedFrom(x, seen)
        PROVE  Log!Rederive(o, Sources(x), BoundFor(x))
    <2>1. /\ seen \in SUBSET Log!Counted(o, BoundFor(x))
          /\ {e \in events : e.owner \in Sources(x)} \subseteq seen
      BY <1>2 DEF DerivedFrom, CountedFor, Log!Counted
    <2>2. \A t \in Targets :
             (IF Drifted(tx[x].expected[t], rows[o][t])
              THEN tx[x].expected[t] ELSE rows[o][t])
             = (IF HasRow(Derive(seen, t)) THEN Derive(seen, t) ELSE rows[o][t])
      BY <1>2 DEF DerivedFrom, Drifted
    <2>3. rows' = [rows EXCEPT ![o] =
                     [t \in Targets |-> IF HasRow(Derive(seen, t)) THEN Derive(seen, t)
                                                                   ELSE rows[o][t]]]
      BY <2>2 DEF RepairRows
    <2> QED
      BY <2>1, <2>3, LogOperators DEF Log!Rederive
  <1>3. ASSUME x \in Reconcilers, \A t \in Targets : tx[x].expected[t] = NoRow
        PROVE  rows' = rows
    <2>1. \A t \in Targets : ~Drifted(tx[x].expected[t], rows[o][t])
      BY <1>3 DEF Drifted, HasRow, NoRow
    <2>2. rows' = [rows EXCEPT ![o] = [t \in Targets |-> rows[o][t]]]
      BY <2>1 DEF RepairRows
    <2> QED
      BY <1>1, <2>2
  <1> QED
    BY <1>2, <1>3 DEF Inv, DerivedCurrent, DerivationCurrent

LEMMA CommitLinkRefines ==
  ASSUME TypeInv, Inv, NEW l \in Links, CommitLink(l)
  PROVE  Log!Next
  <1> USE DEF TypeInv, TypeOK, SignIns
  <1>1. /\ l \in Recomputers /\ l \notin Reconcilers /\ tx[l].pc = "repair"
        /\ viewer[l].anon \in Anons /\ viewer[l].user \in Users
        /\ tx[l].owner = viewer[l].user
        /\ binding[viewer[l].anon] = Unbound
    BY DEF CommitLink, Recomputers, Viewers, Inv, RecomputeHolds
  <1>2. /\ binding' = [binding EXCEPT ![viewer[l].anon] = viewer[l].user]
        /\ BoundFor(l) = binding' /\ events' = events
        /\ Sources(l) = {viewer[l].user, viewer[l].anon}
    BY <1>1 DEF CommitLink, WithBinding, BoundFor, Sources
  <1>3. Log!Rederive(viewer[l].user, {viewer[l].user, viewer[l].anon}, binding')
    <2>1. RepairRows(l)
      BY DEF CommitLink
    <2>2. Log!Rederive(tx[l].owner, Sources(l), BoundFor(l))
      BY <1>1, <2>1, RepairRefines
    <2> QED
      BY <1>1, <1>2, <2>2
  <1> QED
    BY <1>1, <1>2, <1>3 DEF Log!Next, Log!Link

LEMMA CommitOwnerRefines ==
  ASSUME TypeInv, Inv, NEW j \in Reconcilers, CommitOwner(j)
  PROVE  Log!Next \/ UNCHANGED Log!vars
  <1> USE DEF TypeInv, TypeOK
  <1>1. /\ j \in Recomputers /\ j \notin Links /\ tx[j].pc = "repair"
        /\ tx[j].owner \in Owners
        /\ UNCHANGED <<events, binding>>
        /\ BoundFor(j) = binding /\ Sources(j) = {tx[j].owner}
    BY DEF CommitOwner, Recomputers, OwnerKnown, BoundFor, Sources
  <1>2. \/ Log!Rederive(tx[j].owner, {tx[j].owner}, binding)
        \/ rows' = rows
    BY <1>1, RepairRefines DEF CommitOwner
  <1> QED
    BY <1>1, <1>2, LogOperators DEF Log!Next, Log!Reconcile, Log!vars

LEMMA NextRefines == TypeInv /\ Inv /\ [Next]_vars => [Log!Next]_(Log!vars)
  <1> SUFFICES ASSUME TypeInv, Inv, [Next]_vars
               PROVE  Log!Next \/ UNCHANGED Log!vars
    OBVIOUS
  <1> USE DEF Log!vars
  <1>1. ASSUME NEW r \in Requests, SaveStep(r)
        PROVE  Log!Next \/ UNCHANGED Log!vars
    <2>1. CASE Project(r)
      BY <2>1, ProjectRefines
    <2>2. CASE ~Project(r)
      BY <1>1, <2>2 DEF SaveStep, Begin, Touch, Lock, Refuse, Keep, Append, database
    <2> QED
      BY <2>1, <2>2
  <1>2. ASSUME NEW l \in Links, LinkStep(l)
        PROVE  Log!Next \/ UNCHANGED Log!vars
    <2>1. CASE CommitLink(l)
      BY <2>1, CommitLinkRefines
    <2>2. CASE ~CommitLink(l)
      BY <1>2, <2>2 DEF LinkStep, CheckProfile, Bind, AlreadyBound, DeriveLink,
                        LockAndDerive, database
    <2> QED
      BY <2>1, <2>2
  <1>3. ASSUME NEW j \in Reconcilers,
               DeriveOwner(j) \/ CommitOwner(j) \/ \E o \in Owners : StartOwner(j, o)
        PROVE  Log!Next \/ UNCHANGED Log!vars
    <2>1. CASE CommitOwner(j)
      BY <2>1, CommitOwnerRefines
    <2>2. CASE ~CommitOwner(j)
      BY <1>3, <2>2 DEF DeriveOwner, LockAndDerive, StartOwner, database
    <2> QED
      BY <2>1, <2>2
  <1>4. ASSUME NEW x \in Txs, LoseLockRace(x) \/ Crash(x)
        PROVE  UNCHANGED Log!vars
    BY <1>4 DEF LoseLockRace, Retry, OutOfAttempts, Crash, database
  <1>5. CASE Tick
    BY <1>5 DEF Tick, database
  <1>6. CASE UNCHANGED vars
    BY <1>6 DEF vars, database
  <1> QED
    BY <1>1, <1>2, <1>3, <1>4, <1>5, <1>6 DEF Next, Finished

(* The concurrent transactions implement the atomic log: no interleaving,  *)
(* retry or crash loses an update, splits an event from its projection, or *)
(* re-points a bound identity.                                             *)
THEOREM Refinement == Spec => ImplementsLog
  <1>1. Spec => []TypeInv
    BY InitType, NextType, PTL DEF Spec
  <1> QED
    BY <1>1, LocksProtect, InitRefines, NextRefines, PTL DEF Spec, ImplementsLog, Log!Spec
==============================================================================
