------------------------------- MODULE Sm2Merge -------------------------------
(***************************************************************************)
(* What a LINK does to the SM-2 rows of the account: in the transaction of *)
(* the binding, recomputeAccountSm2States (practice.service.js) replays the*)
(* practice answers of the account and of the identity it now owns, while  *)
(* tabs of both go on answering. Of mergeAnonymousIdentity (account.service*)
(* .js) only this part is here; SaveState has the rest.                    *)
(*                                                                         *)
(* The answers are read from the transaction's snapshot, without a lock;   *)
(* the rows are written afterwards, each behind the answers that hold it.  *)
(***************************************************************************)
EXTENDS Practice, SequencesExt

CONSTANTS User, Anon   \* the owners: an account, and the identity linked to it

VARIABLES bound,   \* the identity is the account's
          merge    \* the transaction, and the answers it has read

mergeVars == <<vars, bound, merge>>

MergeInit ==
  /\ Init
  /\ {owner[x] : x \in Tabs} = {User, Anon}
  /\ bound = FALSE
  /\ merge = [pc |-> "ready", read |-> << >>]

------------------------------------------------------------------------------
(* An order by (occurred_at, event_id): the event ids are handed out before*)
(* the commits, so answers of two owners may be ordered otherwise than they*)
(* committed; those of one tab follow one another.                         *)
Orders(log) ==
  {s \in SetToSeqs({<<i, log[i]>> : i \in DOMAIN log}) :
     \A i, j \in DOMAIN s :
       i < j /\ s[i][2].owner = s[j][2].owner => s[i][1] < s[j][1]}

OfWord(log, w) == SelectSeq(log, LAMBDA e : e.word = w)

(* applySm2Review over one word's answers.                                 *)
Replayed(order) ==
  FoldLeft(LAMBDA state, e : Review(state, e[2].quality), InitialSm2, order)

Replays(log, w) == {Replayed(order) : order \in Orders(OfWord(log, w))}

(* insertLinkBinding, and the first plain SELECT, which fixes the snapshot.*)
LinkReads ==
  /\ merge.pc = "ready" /\ ~bound
  /\ merge' = [pc |-> "read", read |-> answers]
  /\ UNCHANGED <<vars, bound>>

(* upsertSm2State, word by word, and COMMIT. An answer of the account that *)
(* holds a row, or the gap of one, is waited for. The new due date counts  *)
(* from the last answer, whenever that was.                                *)
Held(w) == \E x \in Tabs : tab[x].pc = "write" /\ owner[x] = User /\ Word(x) = w

LinkWrites ==
  LET words == {merge.read[i].word : i \in DOMAIN merge.read}
      Rows(w) == {[state |-> state, due |-> NextDueAt(last, state.interval)] :
                    state \in Replays(merge.read, w), last \in 0..clock}
  IN  /\ merge.pc = "read"
      /\ \A w \in words : ~Held(w)
      /\ \E row \in [words -> UNION {Rows(w) : w \in words}] :
           /\ \A w \in words : row[w] \in Rows(w)
           /\ schedule' = [schedule EXCEPT ![User] = row @@ @]
      /\ bound' = TRUE
      /\ merge' = [pc |-> "done", read |-> << >>]
      /\ UNCHANGED <<sessions, attempts, answers, queues, clock, owner, tab, sweep>>

(* A lost lock race, or a lost connection.                                 *)
LinkFails ==
  /\ merge.pc = "read"
  /\ merge' = [pc |-> "ready", read |-> << >>]
  /\ UNCHANGED <<vars, bound>>

(* A bound identity is retired: requests under way go on, no other comes.  *)
Served ==
  /\ Next
  /\ \A x \in Tabs : bound /\ owner[x] = Anon /\ tab[x].pc = "home" => tab'[x].pc = "home"
  /\ UNCHANGED <<bound, merge>>

MergeNext == Served \/ LinkReads \/ LinkWrites \/ LinkFails

MergeSpec == MergeInit /\ [][MergeNext]_mergeVars

------------------------------------------------------------------------------
(* SDD 4.6: after the LINK the account's row of a word is the replay of all*)
(* answers of the account and of its identity, none of which is left out.  *)
ReplayIsWhole ==
  bound => \A w \in Words :
    OfWord(answers, w) # << >> =>
      schedule[User][w] # Gone /\ schedule[User][w].state \in Replays(answers, w)
==============================================================================
