--------------------------- MODULE AccountSessions ---------------------------
(***************************************************************************)
(* Sign-in sessions and what revokes them: session.service.js and          *)
(* session-store.js, the login of account.service.js, the password change  *)
(* of account-settings.service.js, the reset of account-email.service.js,  *)
(* the deletion request and the restore of account-deletion.service.js.    *)
(*                                                                         *)
(* MySQL holds the authority (users.session_epoch, deletion_state), Redis  *)
(* the session records and an index of them by user; nothing spans both.   *)
(* A request is the sequence of its statements, which interleave with those*)
(* of others; a transaction is one step, because every one of them opens   *)
(* with a locking statement on the row or the key range it is about. A     *)
(* password is the number of the change that set it.                       *)
(***************************************************************************)
EXTENDS Naturals, FiniteSets

CONSTANTS Users,        \* password accounts
          Requests,     \* requests in flight
          MaxEpoch,     \* bound on the session epochs
          MaxSessions,  \* bound on the sessions ever created
          MaxLinks,     \* bound on the reset links ever issued
          Gone          \* no row, no record

ASSUME SessionsAssumption ==
  /\ MaxEpoch \in Nat /\ MaxSessions \in Nat /\ MaxLinks \in Nat
  /\ Users # {}

VARIABLES
  users,     \* users joined with user_accounts
  records,   \* session:<id> in Redis
  index,     \* user_sessions:<user> in Redis
  created,   \* how many session ids have been generated
  links,     \* auth_tokens of type password_reset
  proofs,    \* sessions that hold a delete-reauth nonce
  pruning,   \* users whose index the nightly prune has seen empty
  request    \* where each request stands

sessionVars == <<users, records, index, created, links, proofs, pruning, request>>

SessionIds == 1..MaxSessions
LinkIds == 1..MaxLinks
DeletionStates == {"none", "soft_deleted", "hard_delete_scheduled"}

(* due: the grace of a soft delete is over.                                *)
UserRow == [password : Nat, epoch : Nat, deletion : DeletionStates, due : BOOLEAN]

(* by and proof are not stored: how the session came about, and the        *)
(* password its browser has proven to know.                                *)
Record == [user : Users, epoch : Nat, by : {"sign-in", "change"}, proof : Nat]
ResetLink == [user : Users, open : BOOLEAN, password : Nat]

ASSUME GoneAssumption == Gone \notin UserRow \cup Record \cup ResetLink

Labels == {"home", "restore", "start", "create", "issue", "reset", "replace",
           "list", "del", "again", "take", "delete"}
SessionRequest == [pc : Labels, user : Users, epoch : Nat, proof : Nat,
                   by : {"sign-in", "change"}, keys : SUBSET SessionIds,
                   id : 0..(IF MaxLinks > MaxSessions THEN MaxLinks ELSE MaxSessions)]

AnyUser == CHOOSE u \in Users : TRUE
Idle0 == [pc |-> "home", user |-> AnyUser, epoch |-> 0, proof |-> 0,
          by |-> "sign-in", keys |-> {}, id |-> 0]

SessionInit ==
  /\ users = [u \in Users |->
       [password |-> 0, epoch |-> 0, deletion |-> "none", due |-> FALSE]]
  /\ records = [s \in SessionIds |-> Gone]
  /\ index = [u \in Users |-> {}]
  /\ created = 0
  /\ links = [k \in LinkIds |-> Gone]
  /\ proofs = {}
  /\ pruning = {}
  /\ request = [r \in Requests |-> Idle0]

------------------------------------------------------------------------------
Exists(u) == users[u] # Gone
Finish(r) == request' = [request EXCEPT ![r] = Idle0]
Go(r, label) == request' = [request EXCEPT ![r].pc = label]

(* resolveSession: the record's epoch is still the account's, and the      *)
(* account is not being deleted.                                           *)
Authorises(s) ==
  /\ records[s] # Gone
  /\ Exists(records[s].user)
  /\ users[records[s].user].deletion = "none"
  /\ users[records[s].user].epoch = records[s].epoch

(* startSession.                                                           *)

(* findSessionAuthority.                                                   *)
ReadAuthority(r) ==
  LET q == request[r]
  IN  /\ q.pc = "start"
      /\ IF /\ Exists(q.user)
            /\ users[q.user].deletion = "none"
            /\ users[q.user].epoch = q.epoch
         THEN Go(r, "create") ELSE Finish(r)
      /\ UNCHANGED <<users, records, index, created, links, proofs, pruning>>

(* The epoch a new record carries; broken: the one the account has now.    *)
CurrentEpoch(r) == IF Exists(request[r].user) THEN users[request[r].user].epoch ELSE 0
RecordEpoch(r) == request[r].epoch

(* store.create: MULTI, SET, SADD, EXEC.                                   *)
Create(r) ==
  LET q == request[r]
      s == created + 1
  IN  /\ q.pc = "create"
      /\ created < MaxSessions
      /\ created' = s
      /\ records' = [records EXCEPT ![s] =
           [user |-> q.user, epoch |-> RecordEpoch(r), by |-> q.by, proof |-> q.proof]]
      /\ index' = [index EXCEPT ![q.user] = @ \cup {s}]
      /\ Finish(r)
      /\ UNCHANGED <<users, links, proofs, pruning>>

------------------------------------------------------------------------------
(* Login: the credential is read in one statement, by username or by       *)
(* address, and verified after it.                                         *)
HasCredential(u) == Exists(u) /\ users[u].deletion \in {"none", "soft_deleted"}

Login(r, u) ==
  /\ request[r].pc = "home"
  /\ HasCredential(u)
  /\ request' = [request EXCEPT ![r] =
       [Idle0 EXCEPT !.pc = IF users[u].deletion = "none" THEN "start" ELSE "restore",
          !.user = u, !.epoch = users[u].epoch, !.proof = users[u].password]]
  /\ UNCHANGED <<users, records, index, created, links, proofs, pruning>>

(* restoreSoftDeletedAccount; an account it does not restore is refused.   *)
Restore(r) ==
  LET u == request[r].user
      restorable == Exists(u) /\ users[u].deletion = "soft_deleted" /\ ~users[u].due
  IN  /\ request[r].pc = "restore"
      /\ IF restorable
         THEN users' = [users EXCEPT ![u].deletion = "none"] /\ Go(r, "start")
         ELSE Finish(r) /\ UNCHANGED users
      /\ UNCHANGED <<records, index, created, links, proofs, pruning>>

------------------------------------------------------------------------------
(* Password changes.                                                       *)

(* replacePasswordAndEndSessions.                                          *)
Replaced(u) == [users EXCEPT ![u].password = @ + 1, ![u].epoch = @ + 1]

(* closeOpenTokens; broken: leaves them open.                              *)
LeftOpen(u) == links
Closed(u) ==
  [k \in LinkIds |->
     IF links[k] # Gone /\ links[k].user = u THEN [links[k] EXCEPT !.open = FALSE]
     ELSE links[k]]

(* changePassword: the current password is checked ...                     *)
Change(r, s) ==
  /\ request[r].pc = "home"
  /\ Authorises(s)
  /\ request' = [request EXCEPT ![r] =
       [Idle0 EXCEPT !.pc = "replace", !.user = records[s].user, !.by = "change"]]
  /\ UNCHANGED <<users, records, index, created, links, proofs, pruning>>

(* ... and replaced later. An account purged meanwhile has no row to change*)
(* and, after it, no credential to read: the request fails.                *)
Replace(r) ==
  LET u == request[r].user
  IN  /\ request[r].pc = "replace"
      /\ IF Exists(u)
         THEN /\ users[u].epoch < MaxEpoch
              /\ users' = Replaced(u)
              /\ links' = Closed(u)
              /\ request' = [request EXCEPT ![r].pc = "list",
                               ![r].proof = users[u].password + 1]
         ELSE Finish(r) /\ UNCHANGED <<users, links>>
      /\ UNCHANGED <<records, index, created, proofs, pruning>>

(* The new session is for the epoch the account has by then.               *)
Again(r) ==
  LET u == request[r].user
  IN  /\ request[r].pc = "again"
      /\ IF Exists(u)
         THEN request' = [request EXCEPT ![r].pc = "start", ![r].epoch = users[u].epoch]
         ELSE Finish(r)
      /\ UNCHANGED <<users, records, index, created, links, proofs, pruning>>

(* requestPasswordReset: the account is looked up, the link issued later.  *)
AskReset(r, u) ==
  /\ request[r].pc = "home"
  /\ Exists(u)
  /\ users[u].deletion = "none"
  /\ request' = [request EXCEPT ![r] = [Idle0 EXCEPT !.pc = "issue", !.user = u]]
  /\ UNCHANGED <<users, records, index, created, links, proofs, pruning>>

IssueLink(r) ==
  LET u == request[r].user
  IN  /\ request[r].pc = "issue"
      /\ IF Exists(u)
         THEN \E k \in LinkIds :
                /\ links[k] = Gone /\ \A j \in 1..(k - 1) : links[j] # Gone
                /\ links' = [Closed(u) EXCEPT ![k] =
                     [user |-> u, open |-> TRUE, password |-> users[u].password]]
         ELSE UNCHANGED links
      /\ Finish(r)
      /\ UNCHANGED <<users, records, index, created, proofs, pruning>>

(* resetPassword: whoever has the link follows it; it is spent, and its    *)
(* open siblings closed, with the change.                                  *)
Reset(r, k) ==
  /\ request[r].pc = "home"
  /\ links[k] # Gone
  /\ links[k].open
  /\ users[links[k].user].epoch < MaxEpoch
  /\ users' = Replaced(links[k].user)
  /\ links' = Closed(links[k].user)
  /\ request' = [request EXCEPT ![r] =
       [Idle0 EXCEPT !.pc = "list", !.user = links[k].user]]
  /\ UNCHANGED <<records, index, created, proofs, pruning>>

ExpireLink(k) ==
  /\ links[k] # Gone
  /\ links[k].open
  /\ links' = [links EXCEPT ![k].open = FALSE]
  /\ UNCHANGED <<users, records, index, created, proofs, pruning, request>>

(* endAllSessions: SMEMBERS, then DEL of what it listed and of the index.  *)
(* It may fail at either; a password change goes on all the same.          *)
Onward(r) == IF request[r].by = "change"
             THEN request' = [request EXCEPT ![r].pc = "again", ![r].keys = {}]
             ELSE Finish(r)

ListSessions(r) ==
  /\ request[r].pc = "list"
  /\ \/ request' = [request EXCEPT ![r].pc = "del", ![r].keys = index[request[r].user]]
     \/ Onward(r)
  /\ UNCHANGED <<users, records, index, created, links, proofs, pruning>>

DeleteSessions(r) ==
  /\ request[r].pc = "del"
  /\ \/ /\ records' = [s \in SessionIds |-> IF s \in request[r].keys THEN Gone ELSE records[s]]
        /\ index' = [index EXCEPT ![request[r].user] = {}]
     \/ UNCHANGED <<records, index>>
  /\ Onward(r)
  /\ UNCHANGED <<users, created, links, proofs, pruning>>

------------------------------------------------------------------------------
(* Deletion.                                                               *)

(* issueReauthNonce, for this account and this session.                    *)
Reauthenticate(s) ==
  /\ Authorises(s)
  /\ proofs' = proofs \cup {s}
  /\ UNCHANGED <<users, records, index, created, links, pruning, request>>

(* requestDeletion: the nonce is taken (GETDEL), then the account deleted. *)
AskDeletion(r, s) ==
  /\ request[r].pc = "home"
  /\ Authorises(s)
  /\ request' = [request EXCEPT ![r] =
       [Idle0 EXCEPT !.pc = "take", !.user = records[s].user, !.id = s]]
  /\ UNCHANGED <<users, records, index, created, links, proofs, pruning>>

TakeProof(r) ==
  /\ request[r].pc = "take"
  /\ IF request[r].id \in proofs THEN Go(r, "delete") ELSE Finish(r)
  /\ proofs' = proofs \ {request[r].id}
  /\ UNCHANGED <<users, records, index, created, links, pruning>>

(* requestAccountDeletion; broken: without ending the sessions.            *)
DeletedOnly(u, state) == [users EXCEPT ![u].deletion = state, ![u].due = FALSE]
Deleted(u, state) ==
  [users EXCEPT ![u].deletion = state, ![u].due = FALSE, ![u].epoch = @ + 1]

RequestDeletion(r, state) ==
  LET u == request[r].user
  IN  /\ request[r].pc = "delete"
      /\ IF Exists(u) /\ users[u].deletion = "none"
         THEN /\ users[u].epoch < MaxEpoch
              /\ users' = Deleted(u, state)
              /\ Go(r, "list")
         ELSE Finish(r) /\ UNCHANGED users
      /\ UNCHANGED <<records, index, created, links, proofs, pruning>>

GraceEnds(u) ==
  /\ Exists(u)
  /\ users[u].deletion = "soft_deleted"
  /\ ~users[u].due
  /\ users' = [users EXCEPT ![u].due = TRUE]
  /\ UNCHANGED <<records, index, created, links, proofs, pruning, request>>

(* purgeDueAccounts, as these tables see it: the account and its links go. *)
Purge(u) ==
  /\ Exists(u)
  /\ \/ users[u].deletion = "hard_delete_scheduled"
     \/ users[u].deletion = "soft_deleted" /\ users[u].due
  /\ users' = [users EXCEPT ![u] = Gone]
  /\ links' = [k \in LinkIds |->
       IF links[k] # Gone /\ links[k].user = u THEN [links[k] EXCEPT !.open = FALSE]
       ELSE links[k]]
  /\ UNCHANGED <<records, index, created, proofs, pruning, request>>

------------------------------------------------------------------------------
(* destroy: at logout, at the next sign-in of the browser, past a deadline,*)
(* or by resolveSession, which removes a record that does not authorise.   *)
Drop(s) ==
  /\ records[s] # Gone
  /\ records' = [records EXCEPT ![s] = Gone]
  /\ index' \in {index, [index EXCEPT ![records[s].user] = @ \ {s}]}
  /\ proofs' \in {proofs, proofs \ {s}}
  /\ UNCHANGED <<users, created, links, pruning, request>>

(* pruneIndexes: keys of records that are gone leave the index; one that is*)
(* then empty is deleted, in a command of its own.                         *)
Prune(u) ==
  /\ \E s \in index[u] : records[s] = Gone
  /\ index' = [index EXCEPT ![u] = {s \in @ : records[s] # Gone}]
  /\ pruning' = IF index'[u] = {} THEN pruning \cup {u} ELSE pruning
  /\ UNCHANGED <<users, records, created, links, proofs, request>>

PruneEmpty(u) ==
  /\ u \in pruning
  /\ index' = [index EXCEPT ![u] = {}]
  /\ pruning' = pruning \ {u}
  /\ UNCHANGED <<users, records, created, links, proofs, request>>

(* A statement fails, or the process dies.                                 *)
Fail(r) ==
  /\ request[r].pc # "home"
  /\ Finish(r)
  /\ UNCHANGED <<users, records, index, created, links, proofs, pruning>>

------------------------------------------------------------------------------
RequestStep(r) ==
  \/ \E u \in Users : Login(r, u) \/ AskReset(r, u)
  \/ \E s \in SessionIds : Change(r, s) \/ AskDeletion(r, s)
  \/ \E k \in LinkIds : Reset(r, k)
  \/ \E state \in DeletionStates \ {"none"} : RequestDeletion(r, state)
  \/ Restore(r) \/ ReadAuthority(r) \/ Create(r) \/ Replace(r) \/ Again(r)
  \/ IssueLink(r) \/ ListSessions(r) \/ DeleteSessions(r) \/ TakeProof(r) \/ Fail(r)

SessionNext ==
  \/ \E r \in Requests : RequestStep(r)
  \/ \E u \in Users : GraceEnds(u) \/ Purge(u) \/ Prune(u) \/ PruneEmpty(u)
  \/ \E s \in SessionIds : Reauthenticate(s) \/ Drop(s)
  \/ \E k \in LinkIds : ExpireLink(k)

SessionSpec == SessionInit /\ [][SessionNext]_sessionVars

------------------------------------------------------------------------------
(* Properties.                                                             *)

(* The values every variable ranges over.                                  *)
SessionTypeOK ==
  /\ users \in [Users -> UserRow \cup {Gone}]
  /\ records \in [SessionIds -> Record \cup {Gone}]
  /\ index \in [Users -> SUBSET SessionIds]
  /\ created \in 0..MaxSessions
  /\ links \in [LinkIds -> ResetLink \cup {Gone}]
  /\ proofs \subseteq SessionIds
  /\ pruning \subseteq Users
  /\ request \in [Requests -> SessionRequest]

(* A sign-in that raced a password change, a reset, or a deletion and a    *)
(* restore never leaves a session that authorises on a superseded password,*)
(* however late its record reaches Redis.                                  *)
SignedInWithCurrentPassword ==
  \A s \in SessionIds :
    Authorises(s) /\ records[s].by = "sign-in" =>
      records[s].proof = users[records[s].user].password

(* A session that has stopped authorising never authorises again, also when*)
(* its account is restored, and when endAllSessions failed to remove it.   *)
DeadSessionsStayDead ==
  [][\A s \in SessionIds :
       records[s] # Gone /\ ~Authorises(s) => ~Authorises(s)']_sessionVars

(* A reset link that can be followed was issued for the password the       *)
(* account has now, and it is the only one: any password change, and any   *)
(* newer link, closes the older ones.                                      *)
OldLinksAreClosed ==
  \A k \in LinkIds :
    links[k] # Gone /\ links[k].open =>
      /\ Exists(links[k].user)
      /\ links[k].password = users[links[k].user].password
      /\ \A j \in LinkIds \ {k} :
           links[j] # Gone /\ links[j].user = links[k].user => ~links[j].open

(* Every password change ends every session that is not of the one who made*)
(* it: what authorises was started with the password the account has.      *)
EverySessionEnds ==
  \A s \in SessionIds :
    Authorises(s) => records[s].proof = users[records[s].user].password
==============================================================================
