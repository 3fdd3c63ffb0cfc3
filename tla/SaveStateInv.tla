---------------------------- MODULE SaveStateInv ----------------------------
(***************************************************************************)
(* The inductive invariant of SaveState: what the row locks, the profile   *)
(* locks and the event ids guarantee between any two statements.           *)
(***************************************************************************)
EXTENDS SaveState

Holding == {"lock", "decide", "project"}
Deciding == {"decide", "project"}
Recomputers == Links \cup Reconcilers

(* A row that exists has one holder; only a gap may have several.          *)
OneHolder ==
  /\ \A o \in Owners, t \in Targets :
        HasRow(rows[o][t]) =>
          \A x, y \in rowLocks[o][t] : x = y
  /\ \A a \in Anons : \A x, y \in profileLock[a] : x = y

(* A save that has decided still holds its row, and the row still has the  *)
(* state the decision was made on. A signed-out save holds its profile.    *)
SaverHolds ==
  \A r \in Requests :
    /\ tx[r].pc = "touch" => viewer[r].user = Unbound
    /\ tx[r].pc \in Holding /\ viewer[r].user = Unbound
         => r \in profileLock[viewer[r].anon]
    /\ tx[r].pc \in Holding /\ tx[r].owner \in Anons
         => viewer[r].user = Unbound /\ tx[r].owner = viewer[r].anon
    /\ tx[r].pc \in Deciding
         => /\ r \in rowLocks[tx[r].owner][command[r].target]
            /\ tx[r].current = rows[tx[r].owner][command[r].target].state
    /\ tx[r].pc = "project"
         => ~Refused(tx[r].current, command[r]) /\ ~NoOp(tx[r].current, command[r])

(* Ids are handed out once and in order, and an event about to be          *)
(* committed is the newest of its owner and target.                        *)
IdsInOrder ==
  /\ \A e \in events : e.id < nextId
  /\ \A o \in Owners, t \in Targets : rows[o][t].last < nextId
  /\ \A r \in Requests :
        tx[r].pc = "project" =>
          /\ tx[r].eventId < nextId
          /\ rows[tx[r].owner][command[r].target].last < tx[r].eventId
          /\ \A e \in events :
                /\ e.id # tx[r].eventId
                /\ e.owner = tx[r].owner /\ e.target = command[r].target
                     => e.id < tx[r].eventId
  /\ \A r, q \in Requests :
        tx[r].pc = "project" /\ tx[q].pc = "project" /\ r # q
          => tx[r].eventId # tx[q].eventId

(* A sign-in that has inserted its binding holds the profile, and nobody   *)
(* else can have bound it; a recompute holds all of its owner's rows.      *)
RecomputeHolds ==
  /\ \A l \in Links :
        /\ tx[l].pc \in {"bind", "again", "derive", "repair"}
             => tx[l].owner = viewer[l].user
        /\ tx[l].pc \in {"derive", "repair"}
             => l \in profileLock[viewer[l].anon] /\ binding[viewer[l].anon] = Unbound
  /\ \A x \in Recomputers :
        tx[x].pc = "repair" =>
          \A t \in Targets : x \in rowLocks[tx[x].owner][t]

BoundFor(x) == IF x \in Links THEN WithBinding(x) ELSE binding
Sources(x) == {tx[x].owner} \cup (IF x \in Links THEN {viewer[x].anon} ELSE {})

(* The events that may count toward owner o under a binding.               *)
CountedFor(o, bound) ==
  {e \in events : e.owner = o \/ (e.owner \in Anons /\ bound[e.owner] = o)}

DerivedFrom(x, seen) ==
  /\ seen \subseteq CountedFor(tx[x].owner, BoundFor(x))
  /\ {e \in events : e.owner \in Sources(x)} \subseteq seen
  /\ \A t \in Targets : tx[x].expected[t] = Derive(seen, t)

(* What a recompute is about to write is still derived from every event of *)
(* its owner (and, for a LINK, of the identity it links), unless a job is  *)
(* looking at an identity that was bound and derives nothing.              *)
DerivationCurrent(x) ==
  tx[x].pc = "repair" =>
    \/ \E seen \in SUBSET events : DerivedFrom(x, seen)
    \/ x \in Reconcilers /\ \A t \in Targets : tx[x].expected[t] = NoRow

DerivedCurrent == \A x \in Recomputers : DerivationCurrent(x)

Inv == /\ OneHolder
       /\ SaverHolds
       /\ IdsInOrder
       /\ RecomputeHolds
       /\ DerivedCurrent
       /\ RowExplained
==============================================================================
