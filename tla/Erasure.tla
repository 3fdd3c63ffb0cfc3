------------------------------- MODULE Erasure -------------------------------
(***************************************************************************)
(* Erasing people (erasure.repository.js): the purge of deleted accounts   *)
(* (account-deletion.service.js) and the pruning of dormant anonymous      *)
(* profiles (anonymous-dormancy.service.js), while saves, practice answers,*)
(* sign-ins and restores go on.                                            *)
(*                                                                         *)
(* A job lists its subjects, then erases each in one transaction: a claim  *)
(* by compare-and-set, which locks the subject's row until the end, and the*)
(* deletes of the repository, one step each, children first, for every     *)
(* foreign key of the schema is ON DELETE RESTRICT. A write of a locked    *)
(* subject waits, and then finds no parent row. What a transaction has     *)
(* deleted is invisible to others until it commits. Word requests, which   *)
(* refer to nobody by a key, are left out.                                 *)
(***************************************************************************)
EXTENDS Naturals, Sequences, FiniteSets, SequencesExt

CONSTANTS Members,     \* accounts
          Anons,       \* anonymous identities
          Purgers,     \* workers running the account purge
          Pruners,     \* workers running the dormancy prune
          MaxFailures, \* bound on the transactions that are rolled back
          MaxWrites,   \* bound on the saves, answers, consents, links and visits
          Nobody       \* no row

ASSUME ErasureAssumption ==
  /\ IsFiniteSet(Anons) /\ Members \cap Anons = {}
  /\ MaxFailures \in Nat /\ MaxWrites \in Nat

ASSUME NobodyAssumption ==
  Nobody \notin Members \cup Anons
                \cup {"none", "soft_deleted", "grace_over", "hard_delete_scheduled",
                      "seen", "idle"}

VARIABLES
  members,    \* users
  profiles,   \* anonymous_profiles: seen within two years, or idle
  bindings,   \* identity_bindings
  rows,       \* which tables hold rows of which owner
  job,        \* where each worker stands
  failures,   \* transactions rolled back so far
  writes      \* writes so far

erasureVars == <<members, profiles, bindings, rows, job, failures, writes>>

Jobs == Purgers \cup Pruners
People == Members \cup Anons

(* The tables that hold what people did, in the order PURGE_OWNER deletes; *)
(* broken: events before the state derived from them.                      *)
EventsFirst ==
  <<"events", "attempts", "sessions", "sm2", "words", "phonemes", "consents">>

PurgeOwner ==
  <<"attempts", "sessions", "sm2", "words", "phonemes", "consents", "events">>

Tables == {"attempts", "sessions", "sm2", "words", "phonemes", "consents", "events",
           "tokens", "credentials"}
Parents == {"bindings", "users", "profiles"}
Statement == [table : Tables \cup Parents, owner : People]

ErasureInit ==
  /\ members = [u \in Members |-> "none"]
  /\ profiles = [a \in Anons |-> "seen"]
  /\ bindings = [a \in Anons |-> Nobody]
  /\ rows = {"tokens", "credentials"} \X Members
  /\ job = [j \in Jobs |-> [pc |-> "idle", list |-> {}, run |-> << >>, gone |-> {}]]
  /\ failures = 0
  /\ writes = 0

------------------------------------------------------------------------------
BoundTo(u) == {a \in Anons : bindings[a] = u}

(* What a transaction of job j will do and has done.                       *)
Next0(j) == Head(job[j].run)
Remaining(j) == rows \ job[j].gone

(* The keys on a statement's rows: attempts belong to sessions, derived    *)
(* state to the last event of the word, which after a LINK may be one of an*)
(* identity bound to the account; and everything to its owner.             *)
RefersTo(row, s) ==
  \/ row = <<"attempts", s.owner>> /\ s.table = "sessions"
  \/ /\ s.table = "events"
     /\ row[1] \in {"words", "phonemes"}
     /\ \/ row[2] = s.owner
        \/ s.owner \in Anons /\ bindings[s.owner] = row[2]
  \/ s.table \in {"users", "profiles"} /\ row[2] = s.owner

StillBound(j, s) ==
  /\ s.table \in {"users", "profiles"}
  /\ \E a \in Anons : /\ bindings[a] # Nobody
                      /\ s.owner \in {a, bindings[a]}
                      /\ <<"bindings", bindings[a]>> \notin job[j].gone

Refused(j) ==
  \/ \E row \in Remaining(j) : RefersTo(row, Next0(j))
  \/ StillBound(j, Next0(j))

(* purgeOwnerData, for one owner after the other; deleteAccountRows;       *)
(* deleteAnonymousProfile.                                                 *)
DeletesOf(owners) ==
  [i \in 1..Len(PurgeOwner) * Len(owners) |->
     [table |-> PurgeOwner[((i - 1) % Len(PurgeOwner)) + 1],
      owner |-> owners[((i - 1) \div Len(PurgeOwner)) + 1]]]

(* listBoundAnonymousIds; broken: as if none were bound.                   *)
NoneBound(u) == << >>
BoundIds(u) == SetToSeq(BoundTo(u))

AccountDeletes(u) ==
  LET anons == BoundIds(u)
  IN  DeletesOf(<<u>> \o anons)
      \o <<[table |-> "tokens", owner |-> u], [table |-> "bindings", owner |-> u]>>
      \o [i \in 1..Len(anons) |-> [table |-> "profiles", owner |-> anons[i]]]
      \o <<[table |-> "credentials", owner |-> u], [table |-> "users", owner |-> u]>>

ProfileDeletes(a) == DeletesOf(<<a>>) \o <<[table |-> "profiles", owner |-> a]>>

(* The rows a transaction holds locks on: the account or profile it claimed*)
(* (its last statement), and the ranges it has deleted from.               *)
Locked(o) ==
  \E j \in Jobs : /\ job[j].run # << >>
                  /\ \/ Last(job[j].run).owner = o
                     \/ \E t \in Tables : <<t, o>> \in job[j].gone

------------------------------------------------------------------------------
(* listDuePurges, listDormantCandidates.                                   *)
Due(u) == members[u] \in {"hard_delete_scheduled", "grace_over"}
Dormant(a) == profiles[a] = "idle" /\ bindings[a] = Nobody

(* Broken: a soft delete is never listed.                                  *)
HardOnly(j) == IF j \in Purgers THEN {u \in Members : members[u] = "hard_delete_scheduled"}
               ELSE {a \in Anons : Dormant(a)}
Found(j) == IF j \in Purgers THEN {u \in Members : Due(u)} ELSE {a \in Anons : Dormant(a)}

List(j) ==
  /\ job[j].pc = "idle"
  /\ Found(j) # {}
  /\ job' = [job EXCEPT ![j].pc = "run", ![j].list = Found(j)]
  /\ UNCHANGED <<members, profiles, bindings, rows, failures, writes>>

(* claimPurge, claimDormantProfile: only what is still due; broken: what   *)
(* was listed is erased.                                                   *)
Listed(o) == TRUE
Claimable(o) == IF o \in Members THEN Due(o) ELSE Dormant(o)

Claim(j, o) ==
  /\ job[j].run = << >>
  /\ o \in job[j].list
  /\ ~Locked(o)
  /\ job' = [job EXCEPT ![j].list = @ \ {o},
       ![j].run = IF ~Claimable(o) THEN << >>
                  ELSE IF o \in Members THEN AccountDeletes(o) ELSE ProfileDeletes(o)]
  /\ UNCHANGED <<members, profiles, bindings, rows, failures, writes>>

(* One statement; one that deletes from a range another transaction has    *)
(* locked waits for it. The last one is followed by the COMMIT.            *)
Deletes(j) ==
  LET s == Next0(j)
  IN  /\ Len(job[j].run) > 1
      /\ ~Refused(j)
      /\ \A k \in Jobs \ {j} : <<s.table, s.owner>> \notin job[k].gone
      /\ job' = [job EXCEPT ![j].run = Tail(@), ![j].gone = @ \cup {<<s.table, s.owner>>}]
      /\ UNCHANGED <<members, profiles, bindings, rows, failures, writes>>

Commit(j) ==
  LET erased == job[j].gone \cup {<<Next0(j).table, Next0(j).owner>>}
  IN  /\ Len(job[j].run) = 1
      /\ ~Refused(j)
      /\ rows' = rows \ erased
      /\ members' = [u \in Members |-> IF <<"users", u>> \in erased THEN Nobody ELSE members[u]]
      /\ profiles' = [a \in Anons |-> IF <<"profiles", a>> \in erased THEN Nobody ELSE profiles[a]]
      /\ bindings' = [a \in Anons |->
           IF <<"bindings", bindings[a]>> \in erased THEN Nobody ELSE bindings[a]]
      /\ job' = [job EXCEPT ![j].run = << >>, ![j].gone = {}]
      /\ UNCHANGED <<failures, writes>>

(* A statement is refused, a lock race lost or the worker dies: everything *)
(* of the transaction is undone, and the run ends there, whatever was still*)
(* on its list.                                                            *)
RollBack(j) ==
  /\ job[j].run # << >>
  /\ Refused(j) \/ failures < MaxFailures
  /\ failures' = IF Refused(j) THEN failures ELSE failures + 1
  /\ job' = [job EXCEPT ![j] = [pc |-> "idle", list |-> {}, run |-> << >>, gone |-> {}]]
  /\ UNCHANGED <<members, profiles, bindings, rows, writes>>

EndRun(j) ==
  /\ job[j].pc = "run"
  /\ job[j].run = << >> /\ job[j].list = {}
  /\ job' = [job EXCEPT ![j].pc = "idle"]
  /\ UNCHANGED <<members, profiles, bindings, rows, failures, writes>>

------------------------------------------------------------------------------
(* What people do meanwhile.                                               *)

Writes == /\ writes < MaxWrites
          /\ writes' = writes + 1
          /\ UNCHANGED <<job, failures>>

(* A save, an answer or a consent of an account, or of an anonymous        *)
(* identity, whose profile it creates or brings up to date. Whether the    *)
(* identity is bound was asked before.                                     *)
Kinds == {{"events", "words", "phonemes"}, {"events", "sessions", "attempts", "sm2"},
          {"consents"}}

PersonWrites(o, tables) ==
  /\ Writes
  /\ ~Locked(o)
  /\ o \in Members => members[o] # Nobody
  /\ rows' = rows \cup (tables \X {o})
  /\ profiles' = IF o \in Anons THEN [profiles EXCEPT ![o] = "seen"] ELSE profiles
  /\ UNCHANGED <<members, bindings>>

(* mergeAnonymousIdentity: the account may be on its way out by then.      *)
Link(a, u) ==
  /\ Writes
  /\ profiles[a] # Nobody /\ bindings[a] = Nobody
  /\ members[u] # Nobody
  /\ ~Locked(a) /\ ~Locked(u)
  /\ bindings' = [bindings EXCEPT ![a] = u]
  /\ rows' = IF <<"events", a>> \in rows
             THEN rows \cup ({"words", "phonemes", "sm2"} \X {u}) ELSE rows
  /\ UNCHANGED <<members, profiles>>

(* requestAccountDeletion, restoreSoftDeletedAccount, and 30 days.         *)
Delete(u, state) ==
  /\ Writes
  /\ members[u] = "none"
  /\ ~Locked(u)
  /\ members' = [members EXCEPT ![u] = state]
  /\ UNCHANGED <<profiles, bindings, rows>>

RestoreMember(u) ==
  /\ members[u] = "soft_deleted"
  /\ ~Locked(u)
  /\ members' = [members EXCEPT ![u] = "none"]
  /\ UNCHANGED <<profiles, bindings, rows, job, failures, writes>>

Month(u) ==
  /\ members[u] = "soft_deleted"
  /\ members' = [members EXCEPT ![u] = "grace_over"]
  /\ UNCHANGED <<profiles, bindings, rows, job, failures, writes>>

TwoYears(a) ==
  /\ profiles[a] = "seen"
  /\ profiles' = [profiles EXCEPT ![a] = "idle"]
  /\ UNCHANGED <<members, bindings, rows, job, failures, writes>>

------------------------------------------------------------------------------
JobStep(j) == List(j) \/ Deletes(j) \/ Commit(j) \/ RollBack(j) \/ EndRun(j)
             \/ \E o \in People : Claim(j, o)

MemberStep(u) ==
  \/ \E state \in {"soft_deleted", "hard_delete_scheduled"} : Delete(u, state)
  \/ RestoreMember(u) \/ Month(u)
  \/ \E a \in Anons : Link(a, u)

ErasureNext ==
  \/ \E j \in Jobs : JobStep(j)
  \/ \E u \in Members : MemberStep(u)
  \/ \E a \in Anons : TwoYears(a)
  \/ \E o \in People, tables \in Kinds : PersonWrites(o, tables)

(* The queue starts the jobs hourly and daily, and InnoDB ends every wait. *)
ErasureFairness == \A j \in Jobs : WF_erasureVars(JobStep(j))

ErasureSpec == ErasureInit /\ [][ErasureNext]_erasureVars /\ ErasureFairness

------------------------------------------------------------------------------
(* Properties.                                                             *)

(* The values every variable ranges over.                                  *)
ErasureTypeOK ==
  /\ members \in [Members -> {"none", "soft_deleted", "grace_over",
                              "hard_delete_scheduled", Nobody}]
  /\ profiles \in [Anons -> {"seen", "idle", Nobody}]
  /\ bindings \in [Anons -> Members \cup {Nobody}]
  /\ rows \subseteq Tables \X People
  /\ \A j \in Jobs : /\ job[j].pc \in {"idle", "run"}
                     /\ job[j].list \subseteq People
                     /\ job[j].run \in Seq(Statement)
                     /\ job[j].gone \subseteq (Tables \cup Parents) \X People
  /\ failures \in 0..MaxFailures /\ writes \in 0..MaxWrites

(* No delete of a purge or a prune meets a row that still refers to what it*)
(* deletes, whatever is saved, practised or linked while it runs.          *)
NoDeleteIsRefused == \A j \in Jobs : job[j].run # << >> => ~Refused(j)

(* An account goes only while it is due, and takes everything with it: its *)
(* own rows, and the profiles and rows of every identity bound to it. A    *)
(* profile goes with its account or while it is dormant: nothing is erased *)
(* that was restored, seen again or linked since the job listed it.        *)
ErasedWhole ==
  [][/\ \A u \in Members :
          members[u] # Nobody /\ members'[u] = Nobody =>
            /\ Due(u)
            /\ \A o \in {u} \cup BoundTo(u) :
                 /\ rows' \cap (Tables \X {o}) = {}
                 /\ o \in Anons => profiles'[o] = Nobody
     /\ \A a \in Anons :
          profiles[a] # Nobody /\ profiles'[a] = Nobody =>
            \/ Dormant(a)
            \/ bindings[a] # Nobody /\ members'[bindings[a]] = Nobody]_erasureVars

(* An account that is due goes, a dormant identity goes or comes back,     *)
(* though runs end early and transactions are rolled back.                 *)
DueIsErased ==
  /\ \A u \in Members : Due(u) ~> members[u] = Nobody
  /\ \A a \in Anons : Dormant(a) ~> ~Dormant(a)
==============================================================================
