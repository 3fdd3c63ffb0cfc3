--------------------------- MODULE SaveTransitions ---------------------------
(***************************************************************************)
(* The data and the pure functions of the save and tag feature: the state  *)
(* machine decideTransition (services/save-state.service.js) and the       *)
(* derivation of a state row from the event log that reconciliation and    *)
(* the LINK recompute share (services/state-reconciliation.service.js).    *)
(*                                                                         *)
(* Identifiers of people and of words or phonemes are opaque; a word and a *)
(* phoneme are two targets. updated_at is not modelled: nothing reads it.  *)
(***************************************************************************)
EXTENDS Naturals

CONSTANTS Users,        \* account ids
          Anons,        \* pa_uid values (anonymous identities)
          Targets,      \* word and phoneme ids a request may name
          Catalogue,    \* those that have a row in words / phonemes
          Unbound       \* "no account": no binding row, or nobody signed in

ASSUME IdentityAssumption ==
  /\ Users \cap Anons = {}
  /\ Unbound \notin Users \cup Anons
  /\ Catalogue \subseteq Targets

Owners == Users \cup Anons

SaveStates == {"unsaved", "saved", "learning", "learned"}

(* TAG_VALUES; "none" stands for the null tag.                             *)
Tags == {"none", "learning", "learned"}

Commands == [target : Targets, action : {"save", "unsave", "tag"}, tag : Tags]

Event == [id : Nat \ {0}, owner : Owners, target : Targets,
          type : {"save", "unsave", "tag_change"}, value : Tags, at : Nat]

(* A row of user_word_states / user_phoneme_states. No row reads as        *)
(* `unsaved`, so it is the row that reflects no event: ids start at 1.     *)
Row == [state : SaveStates, last : Nat]
NoRow == [state |-> "unsaved", last |-> 0]
HasRow(row) == row.last # 0

------------------------------------------------------------------------------
(* decideTransition, as its three outcomes and the event it produces.      *)

NextState(c) ==
  CASE c.action = "save"   -> "saved"
    [] c.action = "unsave" -> "unsaved"
    [] c.action = "tag"    -> IF c.tag = "none" THEN "saved" ELSE c.tag

Refused(current, c) == c.action = "tag" /\ current = "unsaved"

NoOp(current, c) ==
  \/ c.action = "save" /\ current # "unsaved"
  \/ c.action = "unsave" /\ current = "unsaved"
  \/ c.action = "tag" /\ current # "unsaved" /\ NextState(c) = current

EventType(c) == IF c.action = "tag" THEN "tag_change" ELSE c.action
EventValue(c) == IF c.action = "tag" THEN c.tag ELSE "none"

------------------------------------------------------------------------------
(* deriveExpectedStates: the row a single state event stands for, and the  *)
(* row a set of one target's events derives, the last in C5 order          *)
(* (occurred_at, event_id) winning.                                        *)

RowOf(e) ==
  [last  |-> e.id,
   state |-> CASE e.type = "save"   -> "saved"
               [] e.type = "unsave" -> "unsaved"
               [] OTHER             -> IF e.value = "none" THEN "saved" ELSE e.value]

Before(e, f) == e.at < f.at \/ (e.at = f.at /\ e.id <= f.id)

LatestIn(E) == {e \in E : \A f \in E : Before(f, e)}

Derive(E, t) ==
  LET latest == LatestIn({e \in E : e.target = t})
  IN  IF latest = {} THEN NoRow ELSE RowOf(CHOOSE e \in latest : TRUE)

(* RECONCILE_SQL.events: the events of a resolved owner. An anonymous      *)
(* identity bound to an account belongs to the account and to nobody else. *)
(* Broken: the events written under o itself.                              *)
OwnEvents(o, log, bound) == {e \in log : e.owner = o}
EventsOf(o, log, bound) ==
  {e \in log : IF e.owner \in Anons /\ bound[e.owner] # Unbound
               THEN bound[e.owner] = o
               ELSE e.owner = o}
==============================================================================
