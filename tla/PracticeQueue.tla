---------------------------- MODULE PracticeQueue ----------------------------
(***************************************************************************)
(* The rules of the live practice queue (services/practice-queue.service.js*)
(* ). rng() is a choice: an operator that draws from it is the set of the  *)
(* queues it may return. Positions count from 0, as in the code; the       *)
(* entries are a sequence, which counts from 1.                            *)
(***************************************************************************)
EXTENDS Naturals, Sequences

CONSTANTS Words,
          MinAhead, MaxAhead   \* REINSERT_MIN_AHEAD, REINSERT_MAX_AHEAD

ASSUME AheadAssumption ==
  /\ MinAhead \in Nat \ {0}
  /\ MaxAhead \in Nat
  /\ MinAhead <= MaxAhead

WordTags == {"saved", "learning", "learned"}
QueueEntry == [word : Words, tag : WordTags]
Queue == [entries : Seq(QueueEntry), position : Nat, turnSeq : Nat]

CreateQueue(due) == [entries |-> due, position |-> 0, turnSeq |-> 0]

IsFinished(q) == q.position >= Len(q.entries)

Head0(q) == q.entries[q.position + 1]

(* Array.splice: an entry put in at, or taken from, index i.               *)
PutAt(s, i, e) == SubSeq(s, 1, i) \o <<e>> \o SubSeq(s, i + 1, Len(s))
TakenFrom(s, i) == SubSeq(s, 1, i) \o SubSeq(s, i + 2, Len(s))

(* chooseServed: a learned word at the head may give way to the first word *)
(* behind it that is not learned.                                          *)
Alternatives(q) ==
  {i \in (q.position + 1)..(Len(q.entries) - 1) : q.entries[i + 1].tag # "learned"}

Surfaced(q) ==
  LET first == CHOOSE i \in Alternatives(q) : \A j \in Alternatives(q) : i <= j
  IN  PutAt(TakenFrom(q.entries, first), q.position, q.entries[first + 1])

ChooseServed(q) ==
  IF IsFinished(q) \/ Head0(q).tag # "learned" \/ Alternatives(q) = {}
  THEN {q}
  ELSE {q, [q EXCEPT !.entries = Surfaced(q)]}

(* reinsertionIndex: MinAhead to MaxAhead turns later, never past the tail,*)
(* and at the tail when too few remain.                                    *)
ReinsertionIndexes(q) ==
  LET size == Len(q.entries)
  IN  IF size - (q.position + 1) < MinAhead
      THEN {size}
      ELSE {IF q.position + ahead < size THEN q.position + ahead ELSE size :
              ahead \in MinAhead..MaxAhead}

(* advance; broken: a wrong word is not put back.                          *)
Forgotten(q, rating) ==
  {[entries |-> q.entries, position |-> q.position + 1, turnSeq |-> q.turnSeq + 1]}

Advance(q, rating) ==
  IF IsFinished(q) THEN {q}
  ELSE {[entries |-> es, position |-> q.position + 1, turnSeq |-> q.turnSeq + 1] :
          es \in IF rating = "wrong"
                 THEN {PutAt(q.entries, i, Head0(q)) : i \in ReinsertionIndexes(q)}
                 ELSE {q.entries}}
==============================================================================
