------------------------------- MODULE SaveLog -------------------------------
(***************************************************************************)
(* What the save feature promises (FR-SAVE-02..04, B1, B3): an append-only *)
(* log, a derived row per owner and target, and three atomic changes. A    *)
(* save or tag appends one event and projects it in the same instant, and  *)
(* the event is a legal transition from the state the row holds at that    *)
(* instant. A link binds an identity once and re-derives the account. A    *)
(* reconciliation re-derives an owner. There are no transactions, locks,   *)
(* snapshots, retries or crashes here: SaveState is shown to implement it. *)
(***************************************************************************)
EXTENDS SaveTransitions

VARIABLES events, rows, binding
vars == <<events, rows, binding>>

Init ==
  /\ events = {}
  /\ rows = [o \in Owners |-> [t \in Targets |-> NoRow]]
  /\ binding = [a \in Anons |-> Unbound]

(* The state machine in the words of FR-SAVE-02 (the header comment of     *)
(* save-state.service.js), stated apart from decideTransition.             *)
Legal(from, type, to) ==
  \/ type = "save" /\ from = "unsaved" /\ to = "saved"
  \/ type = "unsave" /\ from # "unsaved" /\ to = "unsaved"
  \/ type = "tag_change" /\ from # "unsaved" /\ to # from /\ to # "unsaved"

(* One owner changes one target. The new event is the last of the log for  *)
(* its owner and target, and the row reflects exactly it.                  *)
Write(e) ==
  /\ Legal(rows[e.owner][e.target].state, e.type, RowOf(e).state)
  /\ rows[e.owner][e.target].last < e.id
  /\ \A f \in events : f.id # e.id
  /\ \A f \in events :
        f.owner = e.owner /\ f.target = e.target => f.id < e.id
  /\ events' = events \cup {e}
  /\ rows' = [rows EXCEPT ![e.owner][e.target] = RowOf(e)]
  /\ UNCHANGED binding

(* The events that may count toward owner o: its own, and those of the     *)
(* identities bound to it.                                                 *)
Counted(o, bound) ==
  {e \in events : e.owner = o \/ (e.owner \in Anons /\ bound[e.owner] = o)}

(* Re-derive owner o. Every event of the given sources is counted; events  *)
(* of the other identities bound to o may be too fresh to be seen. A row   *)
(* no event explains is left alone.                                        *)
Rederive(o, sources, bound) ==
  \E seen \in SUBSET Counted(o, bound) :
    /\ {e \in events : e.owner \in sources} \subseteq seen
    /\ rows' = [rows EXCEPT ![o] =
          [t \in Targets |-> IF HasRow(Derive(seen, t)) THEN Derive(seen, t)
                                                        ELSE rows[o][t]]]

Reconcile(o) ==
  /\ Rederive(o, {o}, binding)
  /\ UNCHANGED <<events, binding>>

(* A LINK never re-points a bound identity, and folds in all it wrote.     *)
Link(a, u) ==
  /\ binding[a] = Unbound
  /\ binding' = [binding EXCEPT ![a] = u]
  /\ Rederive(u, {u, a}, binding')
  /\ UNCHANGED events

Next ==
  \/ \E e \in events' : Write(e)
  \/ \E o \in Owners : Reconcile(o)
  \/ \E a \in Anons, u \in Users : Link(a, u)

Spec == Init /\ [][Next]_vars
==============================================================================
