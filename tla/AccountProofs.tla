---------------------------- MODULE AccountProofs ----------------------------
(***************************************************************************)
(* Proofs about AccountSessions, for any accounts, requests and bounds:    *)
(* which sessions authorise after a change, a reset, a deletion, a restore.*)
(* And about Erasure, for any accounts, identities, workers and bounds: no *)
(* delete of a purge or a prune is refused, and an account goes whole.     *)
(***************************************************************************)
EXTENDS AccountSessions, Erasure, FiniteSetTheorems, TLAPS

USE SessionsAssumption, GoneAssumption

------------------------------------------------------------------------------
(* The inductive invariant.                                                *)

(* What a record or a request carries is no newer than the account, and a  *)
(* sign-in of the account's epoch has proved the account's password.       *)
Backed(c) ==
  Exists(c.user) =>
    /\ c.epoch <= users[c.user].epoch
    /\ c.by = "sign-in" /\ c.epoch = users[c.user].epoch => c.proof = users[c.user].password

(* While its account is deleted, it is of an older epoch.                  *)
Ended(c) ==
  Exists(c.user) /\ users[c.user].deletion # "none" => c.epoch < users[c.user].epoch

RecordsBacked ==
  \A s \in SessionIds :
    records[s] # Gone => s <= created /\ Backed(records[s]) /\ Ended(records[s])

(* What a request in hand carries; it starts no session its account has not*)
(* in this epoch, and starts one again only for who changed the password.  *)
Sound(q) ==
  /\ q.pc \in {"restore", "start", "create"} => Backed(q)
  /\ q.pc = "create" => Ended(q)
  /\ q.pc = "again" => q.by = "change"

RequestsBacked == \A r \in Requests : Sound(request[r])

SessionInv == SessionTypeOK /\ RecordsBacked /\ RequestsBacked /\ OldLinksAreClosed

------------------------------------------------------------------------------
(* Types.                                                                  *)

(* The request that has ended, and one that goes on, are typed.            *)
LEMMA IdleType == Idle0 \in SessionRequest
BY DEF Idle0, AnyUser, SessionRequest, Labels

LEMMA FinishType ==
  ASSUME SessionTypeOK, NEW r \in Requests, Finish(r)
  PROVE  request' \in [Requests -> SessionRequest]
BY IdleType DEF SessionTypeOK, Finish

LEMMA GoType ==
  ASSUME SessionTypeOK, NEW r \in Requests, NEW label \in Labels, Go(r, label)
  PROVE  request' \in [Requests -> SessionRequest]
BY DEF SessionTypeOK, Go, SessionRequest

(* The fields an action fills in.                                          *)
LEMMA FieldsType ==
  ASSUME NEW q \in SessionRequest, NEW pc \in Labels, NEW u \in Users
  PROVE  /\ [q EXCEPT !.pc = pc, !.user = u] \in SessionRequest
         /\ [q EXCEPT !.pc = pc, !.user = u, !.by = "change"] \in SessionRequest
         /\ \A s \in SessionIds : [q EXCEPT !.pc = pc, !.user = u, !.id = s] \in SessionRequest
         /\ \A e, p \in Nat : [q EXCEPT !.pc = pc, !.user = u, !.epoch = e, !.proof = p] \in SessionRequest
         /\ \A e \in Nat : /\ [q EXCEPT !.pc = pc, !.epoch = e] \in SessionRequest
                           /\ [q EXCEPT !.pc = pc, !.proof = e] \in SessionRequest
         /\ \A K \in SUBSET SessionIds : [q EXCEPT !.pc = pc, !.keys = K] \in SessionRequest
<1> USE DEF SessionRequest
<1>1. \A s \in SessionIds : s \in 0..(IF MaxLinks > MaxSessions THEN MaxLinks ELSE MaxSessions)
  BY DEF SessionIds
<1>2. [q EXCEPT !.pc = pc, !.user = u] \in SessionRequest
  OBVIOUS
<1>3. [q EXCEPT !.pc = pc, !.user = u, !.by = "change"] \in SessionRequest
  OBVIOUS
<1>4. \A s \in SessionIds : [q EXCEPT !.pc = pc, !.user = u, !.id = s] \in SessionRequest
  BY <1>1
<1>5. \A e, p \in Nat : [q EXCEPT !.pc = pc, !.user = u, !.epoch = e, !.proof = p] \in SessionRequest
  OBVIOUS
<1>6. \A e \in Nat : /\ [q EXCEPT !.pc = pc, !.epoch = e] \in SessionRequest
                     /\ [q EXCEPT !.pc = pc, !.proof = e] \in SessionRequest
  OBVIOUS
<1>7. \A K \in SUBSET SessionIds : [q EXCEPT !.pc = pc, !.keys = K] \in SessionRequest
  OBVIOUS
<1>8. QED
  BY <1>2, <1>3, <1>4, <1>5, <1>6, <1>7

(* Closing a user's links keeps them links.                                *)
LEMMA ClosedType ==
  ASSUME SessionTypeOK, NEW u \in Users
  PROVE  /\ Closed(u) \in [LinkIds -> ResetLink \cup {Gone}]
         /\ \A k \in LinkIds : links[k] = Gone <=> Closed(u)[k] = Gone
         /\ \A k \in LinkIds : links[k] # Gone =>
              /\ Closed(u)[k].user = links[k].user
              /\ Closed(u)[k].password = links[k].password
              /\ Closed(u)[k].open = (links[k].open /\ links[k].user # u)
<1> USE DEF SessionTypeOK
<1>1. ASSUME NEW k \in LinkIds
      PROVE  /\ Closed(u)[k] \in ResetLink \cup {Gone}
             /\ links[k] = Gone <=> Closed(u)[k] = Gone
             /\ links[k] # Gone =>
                  /\ Closed(u)[k].user = links[k].user
                  /\ Closed(u)[k].password = links[k].password
                  /\ Closed(u)[k].open = (links[k].open /\ links[k].user # u)
  <2>1. CASE links[k] # Gone /\ links[k].user = u
    <3>1. Closed(u)[k] = [links[k] EXCEPT !.open = FALSE] /\ links[k] \in ResetLink
      BY <2>1 DEF Closed
    <3>2. /\ [links[k] EXCEPT !.open = FALSE] \in ResetLink
          /\ [links[k] EXCEPT !.open = FALSE].open = FALSE
      BY <3>1, Zenon DEF ResetLink
    <3>3. /\ [links[k] EXCEPT !.open = FALSE].user = links[k].user
          /\ [links[k] EXCEPT !.open = FALSE].password = links[k].password
      BY <3>1 DEF ResetLink
    <3>4. QED
      BY <2>1, <3>1, <3>2, <3>3
  <2>2. CASE ~(links[k] # Gone /\ links[k].user = u)
    <3>1. Closed(u)[k] = links[k]
      BY <2>2 DEF Closed
    <3>2. links[k] # Gone => links[k].open \in BOOLEAN
      BY DEF ResetLink
    <3>3. QED
      BY <2>2, <3>1, <3>2
  <2>3. QED
    BY <2>1, <2>2
<1>2. Closed(u) = [k \in LinkIds |-> Closed(u)[k]]
  BY DEF Closed
<1>3. QED
  BY <1>1, <1>2

(* A row after a change of password, and after a deletion.                 *)
LEMMA ReplacedType ==
  ASSUME SessionTypeOK, NEW u \in Users, Exists(u)
  PROVE  /\ Replaced(u) \in [Users -> UserRow \cup {Gone}]
         /\ \A v \in Users \ {u} : Replaced(u)[v] = users[v]
         /\ Replaced(u)[u] # Gone
         /\ Replaced(u)[u].password = users[u].password + 1
         /\ Replaced(u)[u].epoch = users[u].epoch + 1
         /\ Replaced(u)[u].deletion = users[u].deletion
<1> DEFINE p == users[u].password + 1
           e == users[u].epoch + 1
           row == [users[u] EXCEPT !.password = p, !.epoch = e]
<1>1. users[u] \in UserRow
  BY DEF SessionTypeOK, Exists
<1>2. p \in Nat /\ e \in Nat
  BY <1>1 DEF UserRow
<1>3. Replaced(u) = [users EXCEPT ![u] = row]
  BY <1>1 DEF Replaced, UserRow
<1> HIDE DEF p, e
<1>4. /\ row \in UserRow
      /\ row.password = p /\ row.epoch = e /\ row.deletion = users[u].deletion
  BY <1>1, <1>2 DEF UserRow
<1> HIDE DEF row
<1>5. QED
  BY <1>3, <1>4 DEF SessionTypeOK, p, e

LEMMA DeletedType ==
  ASSUME SessionTypeOK, NEW u \in Users, Exists(u), NEW state \in DeletionStates
  PROVE  /\ Deleted(u, state) \in [Users -> UserRow \cup {Gone}]
         /\ \A v \in Users \ {u} : Deleted(u, state)[v] = users[v]
         /\ Deleted(u, state)[u] # Gone
         /\ Deleted(u, state)[u].epoch = users[u].epoch + 1
         /\ Deleted(u, state)[u].password = users[u].password
<1> DEFINE e == users[u].epoch + 1
           row == [users[u] EXCEPT !.deletion = state, !.due = FALSE, !.epoch = e]
<1>1. users[u] \in UserRow
  BY DEF SessionTypeOK, Exists
<1>2. e \in Nat
  BY <1>1 DEF UserRow
<1>3. Deleted(u, state) = [users EXCEPT ![u] = row]
  BY <1>1, Zenon DEF Deleted, UserRow
<1> HIDE DEF e
<1>4. row \in UserRow /\ row.epoch = e /\ row.password = users[u].password
  BY <1>1, <1>2 DEF UserRow
<1> HIDE DEF row
<1>5. QED
  BY <1>3, <1>4 DEF SessionTypeOK, e

(* The actions that change nothing but one request.                        *)
Asks(r) ==
  \/ \E u \in Users : Login(r, u) \/ AskReset(r, u)
  \/ \E s \in SessionIds : Change(r, s) \/ AskDeletion(r, s)
  \/ ReadAuthority(r) \/ Again(r) \/ ListSessions(r) \/ Fail(r)

(* The actions, of which a proof about a step treats each.                 *)
LEMMA SessionCases ==
  ASSUME [SessionNext]_sessionVars, NEW G,
         \A r \in Requests : Asks(r) => G,
         \A r \in Requests : Create(r) => G,
         \A r \in Requests : Restore(r) => G,
         \A r \in Requests : Replace(r) => G,
         \A r \in Requests : IssueLink(r) => G,
         \A r \in Requests, k \in LinkIds : Reset(r, k) => G,
         \A r \in Requests : DeleteSessions(r) => G,
         \A r \in Requests : TakeProof(r) => G,
         \A r \in Requests, state \in DeletionStates \ {"none"} : RequestDeletion(r, state) => G,
         \A u \in Users : GraceEnds(u) => G,
         \A u \in Users : Purge(u) => G,
         \A u \in Users : Prune(u) => G,
         \A u \in Users : PruneEmpty(u) => G,
         \A s \in SessionIds : Reauthenticate(s) => G,
         \A s \in SessionIds : Drop(s) => G,
         \A k \in LinkIds : ExpireLink(k) => G,
         UNCHANGED sessionVars => G
  PROVE  G
BY DEF SessionNext, RequestStep, Asks

(* Only a request asks: the stores stay.                                   *)
LEMMA AsksOnly ==
  ASSUME NEW r \in Requests, Asks(r)
  PROVE  UNCHANGED <<users, records, index, created, links, proofs, pruning>>
BY DEF Asks, Login, AskReset, Change, AskDeletion, ReadAuthority, Again, ListSessions, Fail

------------------------------------------------------------------------------
(* Accounts.                                                               *)

(* What a step does to an account: it goes for good, it is changed in a new*)
(* epoch, or it keeps its epoch and its password and is at most restored.  *)
UsersEvolve ==
  \A u \in Users :
    users'[u] # Gone =>
      /\ users[u] # Gone
      /\ \/ users'[u].epoch > users[u].epoch
         \/ /\ users'[u].epoch = users[u].epoch
            /\ users'[u].password = users[u].password
            /\ users'[u].deletion \in {users[u].deletion, "none"}

LEMMA UsersStep ==
  ASSUME SessionInv, [SessionNext]_sessionVars
  PROVE  users' \in [Users -> UserRow \cup {Gone}] /\ UsersEvolve
<1> DEFINE G == users' \in [Users -> UserRow \cup {Gone}] /\ UsersEvolve
<1>0. SessionTypeOK /\ \A r \in Requests : request[r].user \in Users
  BY DEF SessionInv, SessionTypeOK, SessionRequest
<1>1. ASSUME users' = users PROVE G
  BY <1>0, <1>1 DEF SessionTypeOK, UsersEvolve
<1>2. ASSUME NEW u \in Users, Exists(u), users' = Replaced(u) PROVE G
  <2>1. /\ users' \in [Users -> UserRow \cup {Gone}]
        /\ \A v \in Users \ {u} : users'[v] = users[v]
        /\ users'[u].epoch = users[u].epoch + 1
    BY <1>0, <1>2, ReplacedType
  <2>2. users[u] # Gone /\ users[u].epoch \in Nat
    BY <1>0, <1>2 DEF SessionTypeOK, Exists, UserRow
  <2>3. users'[u].epoch > users[u].epoch
    BY <2>1, <2>2
  <2>4. QED
    BY <2>1, <2>2, <2>3 DEF UsersEvolve
<1>3. ASSUME NEW u \in Users, Exists(u), NEW state \in DeletionStates,
             users' = Deleted(u, state)
      PROVE  G
  <2>1. /\ users' \in [Users -> UserRow \cup {Gone}]
        /\ \A v \in Users \ {u} : users'[v] = users[v]
        /\ users'[u].epoch = users[u].epoch + 1
    BY <1>0, <1>3, DeletedType
  <2>2. users[u] # Gone /\ users[u].epoch \in Nat
    BY <1>0, <1>3 DEF SessionTypeOK, Exists, UserRow
  <2>3. users'[u].epoch > users[u].epoch
    BY <2>1, <2>2
  <2>4. QED
    BY <2>1, <2>2, <2>3 DEF UsersEvolve
<1>4. ASSUME NEW u \in Users, users' = [users EXCEPT ![u] = Gone] PROVE G
  BY <1>0, <1>4 DEF SessionTypeOK, UsersEvolve
<1>5. ASSUME NEW u \in Users, Exists(u), users' = [users EXCEPT ![u].deletion = "none"] PROVE G
  <2>1. users[u] \in UserRow
    BY <1>0, <1>5 DEF SessionTypeOK, Exists
  <2>2. /\ [users[u] EXCEPT !.deletion = "none"] \in UserRow
        /\ [users[u] EXCEPT !.deletion = "none"].epoch = users[u].epoch
        /\ [users[u] EXCEPT !.deletion = "none"].password = users[u].password
        /\ [users[u] EXCEPT !.deletion = "none"].deletion = "none"
    BY <2>1 DEF UserRow, DeletionStates
  <2>3. users' = [users EXCEPT ![u] = [users[u] EXCEPT !.deletion = "none"]]
    BY <1>5
  <2>4. QED
    BY <1>0, <1>5, <2>2, <2>3 DEF SessionTypeOK, UsersEvolve, Exists
<1>6. ASSUME NEW u \in Users, Exists(u), users' = [users EXCEPT ![u].due = TRUE] PROVE G
  <2> DEFINE row == [users[u] EXCEPT !.due = TRUE]
  <2>1. users[u] \in UserRow
    BY <1>0, <1>6 DEF SessionTypeOK, Exists
  <2>2. row \in UserRow
    BY <2>1, Zenon DEF UserRow
  <2>3. /\ row.epoch = users[u].epoch /\ row.password = users[u].password
        /\ row.deletion = users[u].deletion
    BY <2>1 DEF UserRow
  <2>4. users' = [users EXCEPT ![u] = row]
    BY <1>6
  <2> HIDE DEF row
  <2>5. QED
    BY <1>0, <1>6, <2>2, <2>3, <2>4 DEF SessionTypeOK, UsersEvolve, Exists
<1> HIDE DEF G
<1>7. \A r \in Requests : Asks(r) => G
  BY <1>1, AsksOnly
<1>8. \A r \in Requests : Create(r) \/ IssueLink(r) \/ DeleteSessions(r) \/ TakeProof(r) => G
  BY <1>1 DEF Create, IssueLink, DeleteSessions, TakeProof
<1>9. \A r \in Requests : Restore(r) => G
  BY <1>0, <1>1, <1>5 DEF Restore
<1>10. \A r \in Requests : Replace(r) => G
  BY <1>0, <1>1, <1>2 DEF Replace
<1>11. \A r \in Requests, k \in LinkIds : Reset(r, k) => G
  <2> SUFFICES ASSUME NEW r \in Requests, NEW k \in LinkIds, Reset(r, k) PROVE G
    OBVIOUS
  <2>1. links[k].user \in Users /\ Exists(links[k].user)
    BY <1>0 DEF Reset, SessionTypeOK, ResetLink, SessionInv, OldLinksAreClosed
  <2>2. QED
    BY <1>2, <2>1 DEF Reset
<1>12. \A r \in Requests, state \in DeletionStates \ {"none"} : RequestDeletion(r, state) => G
  BY <1>0, <1>1, <1>3 DEF RequestDeletion
<1>13. \A u \in Users : GraceEnds(u) => G
  BY <1>6 DEF GraceEnds
<1>14. \A u \in Users : Purge(u) => G
  BY <1>4 DEF Purge
<1>15. \A u \in Users : Prune(u) \/ PruneEmpty(u) => G
  BY <1>1 DEF Prune, PruneEmpty
<1>16. \A s \in SessionIds : Reauthenticate(s) \/ Drop(s) => G
  BY <1>1 DEF Reauthenticate, Drop
<1>17. \A k \in LinkIds : ExpireLink(k) => G
  BY <1>1 DEF ExpireLink
<1>18. UNCHANGED sessionVars => G
  BY <1>1 DEF sessionVars
<1>19. G
  BY <1>7, <1>8, <1>9, <1>10, <1>11, <1>12, <1>13, <1>14, <1>15, <1>16, <1>17, <1>18,
     SessionCases
<1>20. QED
  BY <1>19 DEF G

(* What is backed stays backed, and what is ended stays ended.             *)
LEMMA BackedStays ==
  ASSUME SessionTypeOK, users' \in [Users -> UserRow \cup {Gone}], UsersEvolve,
         NEW c, c.user \in Users, c.epoch \in Nat, Backed(c)
  PROVE  Backed(c)' /\ (Ended(c) => Ended(c)')
<1> DEFINE u == c.user
<1>1. CASE users'[u] = Gone
  BY <1>1 DEF Backed, Ended, Exists
<1>2. CASE users'[u] # Gone
  <2>1. users[u] \in UserRow /\ users'[u] \in UserRow /\ users[u] # Gone
    BY <1>2 DEF SessionTypeOK, UsersEvolve
  <2>2. users[u].epoch \in Nat /\ users'[u].epoch \in Nat
    BY <2>1 DEF UserRow
  <2>3. CASE users'[u].epoch > users[u].epoch
    BY <2>1, <2>2, <2>3 DEF Backed, Ended, Exists
  <2>4. CASE /\ users'[u].epoch = users[u].epoch /\ users'[u].password = users[u].password
             /\ users'[u].deletion \in {users[u].deletion, "none"}
    BY <1>2, <2>1, <2>2, <2>4 DEF Backed, Ended, Exists
  <2>5. QED
    BY <1>2, <2>3, <2>4 DEF UsersEvolve
<1>3. QED
  BY <1>1, <1>2

------------------------------------------------------------------------------
(* Records.                                                                *)

(* What a step does to a record: it stays, it goes, or a request that was  *)
(* about to create it has.                                                 *)
RecordEvolves(s) ==
  \/ records'[s] \in {records[s], Gone}
  \/ \E r \in Requests :
       /\ request[r].pc = "create" /\ s = created + 1
       /\ records'[s] = [user |-> request[r].user, epoch |-> request[r].epoch,
                         by |-> request[r].by, proof |-> request[r].proof]

LEMMA RecordsStep ==
  ASSUME SessionTypeOK, [SessionNext]_sessionVars
  PROVE  /\ records' \in [SessionIds -> Record \cup {Gone}]
         /\ created' \in 0..MaxSessions /\ created' >= created
         /\ \A s \in SessionIds : RecordEvolves(s)
         /\ created' = created => \A s \in SessionIds : records'[s] \in {records[s], Gone}
<1> DEFINE G == /\ records' \in [SessionIds -> Record \cup {Gone}]
                /\ created' \in 0..MaxSessions /\ created' >= created
                /\ \A s \in SessionIds : RecordEvolves(s)
                /\ created' = created =>
                     \A s \in SessionIds : records'[s] \in {records[s], Gone}
<1>1. ASSUME records' = records, created' = created PROVE G
  BY <1>1 DEF SessionTypeOK, RecordEvolves
<1>2. ASSUME NEW K \in SUBSET SessionIds, created' = created,
             records' = [s \in SessionIds |-> IF s \in K THEN Gone ELSE records[s]]
      PROVE  G
  BY <1>2 DEF SessionTypeOK, RecordEvolves
<1>3. ASSUME NEW s \in SessionIds, records' = [records EXCEPT ![s] = Gone], created' = created
      PROVE  G
  BY <1>3 DEF SessionTypeOK, RecordEvolves
<1>4. ASSUME NEW r \in Requests, Create(r)
      PROVE  G
  <2> DEFINE c == [user |-> request[r].user, epoch |-> request[r].epoch,
                   by |-> request[r].by, proof |-> request[r].proof]
  <2>1. c \in Record
    BY DEF SessionTypeOK, SessionRequest, Record
  <2>2. /\ records' = [records EXCEPT ![created + 1] = c] /\ created' = created + 1
        /\ created < MaxSessions /\ request[r].pc = "create"
    BY <1>4 DEF Create, RecordEpoch
  <2>3. created \in Nat /\ created + 1 \in SessionIds
    BY <2>2 DEF SessionTypeOK, SessionIds
  <2>4. /\ records' \in [SessionIds -> Record \cup {Gone}]
        /\ \A s \in SessionIds : records'[s] = IF s = created + 1 THEN c ELSE records[s]
    BY <2>1, <2>2, <2>3 DEF SessionTypeOK
  <2>5. \A s \in SessionIds : RecordEvolves(s)
    BY <2>2, <2>4 DEF RecordEvolves
  <2>6. QED
    BY <2>2, <2>3, <2>4, <2>5
<1> HIDE DEF G
<1>5. \A r \in Requests : Asks(r) => G
  BY <1>1, AsksOnly
<1>6. \A r \in Requests : Restore(r) \/ Replace(r) \/ IssueLink(r) \/ TakeProof(r) => G
  BY <1>1 DEF Restore, Replace, IssueLink, TakeProof
<1>7. \A r \in Requests, k \in LinkIds : Reset(r, k) => G
  BY <1>1 DEF Reset
<1>8. \A r \in Requests : DeleteSessions(r) => G
  <2>1. \A r \in Requests : request[r].keys \in SUBSET SessionIds
    BY DEF SessionTypeOK, SessionRequest
  <2>2. QED
    BY <1>1, <1>2, <2>1 DEF DeleteSessions
<1>9. \A r \in Requests, state \in DeletionStates \ {"none"} : RequestDeletion(r, state) => G
  BY <1>1 DEF RequestDeletion
<1>10. \A u \in Users : GraceEnds(u) \/ Purge(u) \/ Prune(u) \/ PruneEmpty(u) => G
  BY <1>1 DEF GraceEnds, Purge, Prune, PruneEmpty
<1>11. \A s \in SessionIds : Reauthenticate(s) \/ Drop(s) => G
  BY <1>1, <1>3 DEF Reauthenticate, Drop
<1>12. \A k \in LinkIds : ExpireLink(k) => G
  BY <1>1 DEF ExpireLink
<1>13. UNCHANGED sessionVars => G
  BY <1>1 DEF sessionVars
<1>14. G
  BY <1>4, <1>5, <1>6, <1>7, <1>8, <1>9, <1>10, <1>11, <1>12, <1>13, SessionCases
<1>15. QED
  BY <1>14 DEF G

(* Every record stays backed, and ended while its account is deleted.      *)
LEMMA RecordsBackedStep ==
  ASSUME SessionInv, [SessionNext]_sessionVars
  PROVE  RecordsBacked'
<1> SUFFICES ASSUME NEW s \in SessionIds, records'[s] # Gone
             PROVE  s <= created' /\ (Backed(records[s]) /\ Ended(records[s]))'
  BY DEF RecordsBacked
<1>0. /\ SessionTypeOK /\ users' \in [Users -> UserRow \cup {Gone}] /\ UsersEvolve
      /\ RecordEvolves(s) /\ created \in Nat /\ created' \in Nat /\ created' >= created
  BY UsersStep, RecordsStep DEF SessionInv, SessionTypeOK
<1>1. PICK c : c = records'[s]
  OBVIOUS
<1>2. CASE records'[s] = records[s]
  <2>1. c \in Record /\ s <= created /\ Backed(c) /\ Ended(c)
    BY <1>1, <1>2 DEF SessionInv, SessionTypeOK, RecordsBacked
  <2>2. c.user \in Users /\ c.epoch \in Nat
    BY <2>1 DEF Record
  <2>3. Backed(c)' /\ Ended(c)'
    BY <1>0, <2>1, <2>2, BackedStays
  <2>4. s <= created'
    BY <1>0, <2>1 DEF SessionIds
  <2>5. QED
    BY <1>1, <2>3, <2>4 DEF Backed, Ended, Exists
<1>3. ASSUME NEW r \in Requests, request[r].pc = "create", s = created + 1,
             records'[s] = [user |-> request[r].user, epoch |-> request[r].epoch,
                            by |-> request[r].by, proof |-> request[r].proof],
             records'[s] # records[s]
      PROVE  s <= created' /\ (Backed(records[s]) /\ Ended(records[s]))'
  <2>1. c.user \in Users /\ c.epoch \in Nat
    BY <1>1, <1>3 DEF SessionInv, SessionTypeOK, SessionRequest
  <2>2. Backed(c) /\ Ended(c)
    BY <1>1, <1>3 DEF SessionInv, RequestsBacked, Sound, Backed, Ended
  <2>3. s <= created'
    <3>1. created' # created
      BY <1>3, RecordsStep DEF SessionInv
    <3>2. QED
      BY <1>0, <1>3, <3>1
  <2>4. Backed(c)' /\ Ended(c)'
    BY <1>0, <2>1, <2>2, BackedStays
  <2>5. QED
    BY <1>1, <2>3, <2>4 DEF Backed, Ended, Exists
<1>4. QED
  BY <1>0, <1>2, <1>3 DEF RecordEvolves

------------------------------------------------------------------------------
(* Requests.                                                               *)

(* Where an action leaves the one request it moves.                        *)
Moved(r, q) == q \in SessionRequest /\ Sound(q) /\ request' = [request EXCEPT ![r] = q]

LEMMA FinishMoves ==
  ASSUME NEW r \in Requests, Finish(r)
  PROVE  Moved(r, Idle0)
<1>1. Idle0.pc = "home"
  BY DEF Idle0
<1>2. QED
  BY <1>1, IdleType DEF Moved, Sound, Finish

(* The label of a request, when it is not one of the guarded.              *)
LEMMA GoMoves ==
  ASSUME SessionTypeOK, NEW r \in Requests, NEW label \in Labels, Go(r, label),
         label \notin {"restore", "start", "create", "again"}
  PROVE  Moved(r, [request[r] EXCEPT !.pc = label])
<1> DEFINE q == [request[r] EXCEPT !.pc = label]
<1>1. request[r] \in SessionRequest
  BY DEF SessionTypeOK
<1>2. q \in SessionRequest /\ q.pc = label
  BY <1>1 DEF SessionRequest
<1>3. request' = [request EXCEPT ![r] = q]
  BY DEF Go
<1> HIDE DEF q
<1>4. Moved(r, q)
  BY <1>2, <1>3 DEF Moved, Sound
<1>5. QED
  BY <1>4 DEF q

LEMMA ReadAuthorityMoves ==
  ASSUME SessionInv, NEW r \in Requests, ReadAuthority(r)
  PROVE  \E q : Moved(r, q)
<1> DEFINE c == [request[r] EXCEPT !.pc = "create"]
<1>0. request[r] \in SessionRequest /\ request[r].pc = "start"
  BY DEF SessionInv, SessionTypeOK, ReadAuthority
<1>1. CASE Go(r, "create")
  <2>1. Backed(request[r])
    BY <1>0 DEF SessionInv, RequestsBacked, Sound
  <2>2. c \in SessionRequest /\ c.pc = "create" /\ c.user = request[r].user
        /\ c.epoch = request[r].epoch /\ c.by = request[r].by /\ c.proof = request[r].proof
    BY <1>0 DEF SessionRequest, Labels
  <2>3. request' = [request EXCEPT ![r] = c]
    BY <1>1 DEF Go
  <2>4. Exists(request[r].user) /\ users[request[r].user].deletion = "none"
    <3>1. ~Finish(r)
      <4>1. SUFFICES ASSUME Finish(r) PROVE FALSE
        OBVIOUS
      <4>2. request'[r].pc = "home"
        BY <4>1 DEF Finish, Idle0, SessionInv, SessionTypeOK
      <4>3. request'[r].pc = "create"
        BY <1>0, <2>2, <2>3 DEF SessionInv, SessionTypeOK
      <4>4. QED
        BY <4>2, <4>3
    <3>2. QED
      BY <3>1 DEF ReadAuthority
  <2> HIDE DEF c
  <2>5. Sound(c)
    BY <2>1, <2>2, <2>4 DEF Sound, Backed, Ended
  <2>6. QED
    BY <2>2, <2>3, <2>5 DEF Moved
<1>2. CASE Finish(r)
  BY <1>2, FinishMoves
<1>3. QED
  BY <1>1, <1>2 DEF ReadAuthority

(* The credential is read in one statement.                                *)
LEMMA LoginMoves ==
  ASSUME SessionInv, NEW r \in Requests, NEW u \in Users, Login(r, u)
  PROVE  \E q : Moved(r, q)
<1> DEFINE label == IF users[u].deletion = "none" THEN "start" ELSE "restore"
           e == users[u].epoch
           p == users[u].password
           c == [Idle0 EXCEPT !.pc = label, !.user = u, !.epoch = e, !.proof = p]
<1>1. users[u] \in UserRow
  BY DEF SessionInv, SessionTypeOK, Login, HasCredential, Exists
<1>2. label \in Labels /\ e \in Nat /\ p \in Nat /\ label \in {"start", "restore"}
  BY <1>1 DEF UserRow, Labels
<1>3. request' = [request EXCEPT ![r] = c]
  BY DEF Login
<1> HIDE DEF label, e, p
<1>4. c \in SessionRequest
  BY <1>2, IdleType, FieldsType
<1>5. c.pc = label /\ c.user = u /\ c.epoch = e /\ c.proof = p
  BY DEF Idle0
<1> HIDE DEF c
<1>6. Sound(c)
  BY <1>1, <1>2, <1>5 DEF Sound, Backed, UserRow, e, p
<1>7. QED
  BY <1>3, <1>4, <1>6 DEF Moved

(* The new session of who changed the password is for the epoch of then.   *)
LEMMA AgainMoves ==
  ASSUME SessionInv, NEW r \in Requests, Again(r)
  PROVE  \E q : Moved(r, q)
<1> DEFINE e == users[request[r].user].epoch
           c == [request[r] EXCEPT !.pc = "start", !.epoch = e]
<1>0. /\ request[r] \in SessionRequest /\ request[r].pc = "again"
      /\ request[r].by = "change" /\ request[r].user \in Users
  BY DEF SessionInv, SessionTypeOK, Again, RequestsBacked, Sound, SessionRequest
<1>1. ASSUME Exists(request[r].user) PROVE \E q : Moved(r, q)
  <2>1. users[request[r].user] \in UserRow
    BY <1>0, <1>1 DEF SessionInv, SessionTypeOK, Exists
  <2>2. e \in Nat
    BY <2>1 DEF UserRow
  <2>3. request' = [request EXCEPT ![r] = c]
    BY <1>1 DEF Again
  <2> HIDE DEF e
  <2>4. c \in SessionRequest
    BY <1>0, <2>2, FieldsType DEF Labels
  <2>5. c.pc = "start" /\ c.user = request[r].user /\ c.epoch = e /\ c.by = "change"
    BY <1>0 DEF SessionRequest
  <2> HIDE DEF c
  <2>6. Sound(c)
    BY <2>2, <2>5 DEF Sound, Backed, e
  <2>7. QED
    BY <2>3, <2>4, <2>6 DEF Moved
<1>2. ASSUME ~Exists(request[r].user) PROVE \E q : Moved(r, q)
  BY <1>2, FinishMoves DEF Again
<1>3. QED
  BY <1>1, <1>2

LEMMA RestoreMoves ==
  ASSUME SessionInv, NEW r \in Requests, Restore(r)
  PROVE  \E q : Moved(r, q)
<1> DEFINE c == [request[r] EXCEPT !.pc = "start"]
<1>0. request[r] \in SessionRequest /\ request[r].pc = "restore"
  BY DEF SessionInv, SessionTypeOK, Restore
<1>1. CASE Go(r, "start")
  <2>1. Backed(request[r])
    BY <1>0 DEF SessionInv, RequestsBacked, Sound
  <2>2. c \in SessionRequest /\ c.pc = "start" /\ c.user = request[r].user
        /\ c.epoch = request[r].epoch /\ c.by = request[r].by /\ c.proof = request[r].proof
    BY <1>0 DEF SessionRequest, Labels
  <2>3. request' = [request EXCEPT ![r] = c]
    BY <1>1 DEF Go
  <2> HIDE DEF c
  <2>4. Sound(c)
    BY <2>1, <2>2 DEF Sound, Backed
  <2>5. QED
    BY <2>2, <2>3, <2>4 DEF Moved
<1>2. CASE Finish(r)
  BY <1>2, FinishMoves
<1>3. QED
  BY <1>1, <1>2 DEF Restore

(* The rest of the moves start nothing.                                    *)
LEMMA OnwardMoves ==
  ASSUME SessionInv, NEW r \in Requests, Onward(r)
  PROVE  \E q : Moved(r, q)
<1> DEFINE c == [request[r] EXCEPT !.pc = "again", !.keys = {}]
<1>0. request[r] \in SessionRequest
  BY DEF SessionInv, SessionTypeOK
<1>1. ASSUME request[r].by = "change" PROVE \E q : Moved(r, q)
  <2>1. request' = [request EXCEPT ![r] = c]
    BY <1>1 DEF Onward
  <2>2. c \in SessionRequest
    BY <1>0, FieldsType DEF Labels
  <2>3. c.pc = "again" /\ c.by = "change"
    BY <1>0, <1>1 DEF SessionRequest
  <2> HIDE DEF c
  <2>4. QED
    BY <2>1, <2>2, <2>3 DEF Moved, Sound
<1>2. ASSUME request[r].by # "change" PROVE \E q : Moved(r, q)
  BY <1>2, FinishMoves DEF Onward
<1>3. QED
  BY <1>1, <1>2

LEMMA ListMoves ==
  ASSUME SessionInv, NEW r \in Requests, ListSessions(r)
  PROVE  \E q : Moved(r, q)
<1> DEFINE K == index[request[r].user]
           c == [request[r] EXCEPT !.pc = "del", !.keys = K]
<1>0. request[r] \in SessionRequest /\ K \in SUBSET SessionIds
  BY DEF SessionInv, SessionTypeOK, SessionRequest
<1>1. ASSUME request' = [request EXCEPT ![r].pc = "del", ![r].keys = K] PROVE \E q : Moved(r, q)
  <2>1. request' = [request EXCEPT ![r] = c]
    BY <1>1
  <2> HIDE DEF K
  <2>2. c \in SessionRequest
    BY <1>0, FieldsType DEF Labels
  <2>3. c.pc = "del"
    BY <1>0 DEF SessionRequest
  <2> HIDE DEF c
  <2>4. QED
    BY <2>1, <2>2, <2>3 DEF Moved, Sound
<1>2. QED
  BY <1>1, OnwardMoves DEF ListSessions

LEMMA ReplaceMoves ==
  ASSUME SessionInv, NEW r \in Requests, Replace(r)
  PROVE  \E q : Moved(r, q)
<1> DEFINE p == users[request[r].user].password + 1
           c == [request[r] EXCEPT !.pc = "list", !.proof = p]
<1>0. request[r] \in SessionRequest /\ request[r].user \in Users
  BY DEF SessionInv, SessionTypeOK, SessionRequest
<1>1. ASSUME Exists(request[r].user) PROVE \E q : Moved(r, q)
  <2>1. users[request[r].user] \in UserRow
    BY <1>0, <1>1 DEF SessionInv, SessionTypeOK, Exists
  <2>2. p \in Nat
    BY <2>1 DEF UserRow
  <2>3. request' = [request EXCEPT ![r] = c]
    BY <1>1 DEF Replace
  <2> HIDE DEF p
  <2>4. c \in SessionRequest
    BY <1>0, <2>2, FieldsType DEF Labels
  <2>5. c.pc = "list"
    BY <1>0 DEF SessionRequest
  <2> HIDE DEF c
  <2>6. QED
    BY <2>3, <2>4, <2>5 DEF Moved, Sound
<1>2. ASSUME ~Exists(request[r].user) PROVE \E q : Moved(r, q)
  BY <1>2, FinishMoves DEF Replace
<1>3. QED
  BY <1>1, <1>2

(* A request begins: what the first statement has read is in its fields.   *)
LEMMA BeginMoves ==
  ASSUME SessionInv, NEW r \in Requests,
         \/ \E u \in Users : AskReset(r, u)
         \/ \E s \in SessionIds : Change(r, s) \/ AskDeletion(r, s)
         \/ \E k \in LinkIds : Reset(r, k)
  PROVE  \E q : Moved(r, q)
<1>1. ASSUME NEW u \in Users, AskReset(r, u) PROVE \E q : Moved(r, q)
  <2> DEFINE c == [Idle0 EXCEPT !.pc = "issue", !.user = u]
  <2>1. c \in SessionRequest
    BY IdleType, FieldsType DEF Labels
  <2>2. c.pc = "issue" /\ request' = [request EXCEPT ![r] = c]
    BY <1>1 DEF AskReset, Idle0
  <2> HIDE DEF c
  <2>3. QED
    BY <2>1, <2>2 DEF Moved, Sound
<1>2. ASSUME NEW s \in SessionIds, Authorises(s) PROVE records[s].user \in Users
  BY <1>2 DEF SessionInv, SessionTypeOK, Authorises, Record
<1>3. ASSUME NEW s \in SessionIds, Change(r, s) PROVE \E q : Moved(r, q)
  <2> DEFINE u == records[s].user
             c == [Idle0 EXCEPT !.pc = "replace", !.user = u, !.by = "change"]
  <2>1. u \in Users
    BY <1>2, <1>3 DEF Change
  <2>2. request' = [request EXCEPT ![r] = c]
    BY <1>3 DEF Change
  <2> HIDE DEF u
  <2>3. c \in SessionRequest
    BY <2>1, IdleType, FieldsType DEF Labels
  <2>4. c.pc = "replace"
    BY DEF Idle0
  <2> HIDE DEF c
  <2>5. QED
    BY <2>2, <2>3, <2>4 DEF Moved, Sound
<1>4. ASSUME NEW s \in SessionIds, AskDeletion(r, s) PROVE \E q : Moved(r, q)
  <2> DEFINE u == records[s].user
             c == [Idle0 EXCEPT !.pc = "take", !.user = u, !.id = s]
  <2>1. u \in Users
    BY <1>2, <1>4 DEF AskDeletion
  <2>2. request' = [request EXCEPT ![r] = c]
    BY <1>4 DEF AskDeletion
  <2> HIDE DEF u
  <2>3. c \in SessionRequest
    BY <2>1, IdleType, FieldsType DEF Labels
  <2>4. c.pc = "take"
    BY DEF Idle0
  <2> HIDE DEF c
  <2>5. QED
    BY <2>2, <2>3, <2>4 DEF Moved, Sound
<1>5. ASSUME NEW k \in LinkIds, Reset(r, k) PROVE \E q : Moved(r, q)
  <2> DEFINE u == links[k].user
             c == [Idle0 EXCEPT !.pc = "list", !.user = u]
  <2>1. u \in Users
    BY <1>5 DEF Reset, SessionInv, SessionTypeOK, ResetLink
  <2>2. request' = [request EXCEPT ![r] = c]
    BY <1>5 DEF Reset
  <2> HIDE DEF u
  <2>3. c \in SessionRequest
    BY <2>1, IdleType, FieldsType DEF Labels
  <2>4. c.pc = "list"
    BY DEF Idle0
  <2> HIDE DEF c
  <2>5. QED
    BY <2>2, <2>3, <2>4 DEF Moved, Sound
<1>6. QED
  BY <1>1, <1>3, <1>4, <1>5

(* Every step moves one request, to where it is sound, or none.            *)
LEMMA RequestsMove ==
  ASSUME SessionInv, [SessionNext]_sessionVars
  PROVE  request' = request \/ \E r \in Requests : \E q : Moved(r, q)
<1> DEFINE G == request' = request \/ \E r \in Requests : \E q : Moved(r, q)
<1>0. SessionTypeOK
  BY DEF SessionInv
<1>1. \A r \in Requests : Asks(r) => G
  BY FinishMoves, LoginMoves, BeginMoves, ReadAuthorityMoves, AgainMoves, ListMoves DEF Asks, Fail
<1>2. \A r \in Requests : Create(r) \/ IssueLink(r) => G
  BY FinishMoves DEF Create, IssueLink
<1>3. \A r \in Requests : Restore(r) \/ Replace(r) => G
  BY RestoreMoves, ReplaceMoves
<1>4. \A r \in Requests, k \in LinkIds : Reset(r, k) => G
  BY BeginMoves
<1>5. \A r \in Requests : DeleteSessions(r) => G
  BY OnwardMoves DEF DeleteSessions
<1>6. \A r \in Requests : TakeProof(r) => G
  BY <1>0, FinishMoves, GoMoves DEF TakeProof, Labels
<1>7. \A r \in Requests, state \in DeletionStates \ {"none"} : RequestDeletion(r, state) => G
  BY <1>0, FinishMoves, GoMoves DEF RequestDeletion, Labels
<1>8. \A u \in Users : GraceEnds(u) \/ Purge(u) \/ Prune(u) \/ PruneEmpty(u) => G
  BY DEF GraceEnds, Purge, Prune, PruneEmpty
<1>9. \A s \in SessionIds : Reauthenticate(s) \/ Drop(s) => G
  BY DEF Reauthenticate, Drop
<1>10. \A k \in LinkIds : ExpireLink(k) => G
  BY DEF ExpireLink
<1>11. UNCHANGED sessionVars => G
  BY DEF sessionVars
<1> HIDE DEF G
<1>12. G
  BY <1>1, <1>2, <1>3, <1>4, <1>5, <1>6, <1>7, <1>8, <1>9, <1>10, <1>11, SessionCases
<1>13. QED
  BY <1>12 DEF G

LEMMA RequestsBackedStep ==
  ASSUME SessionInv, [SessionNext]_sessionVars
  PROVE  request' \in [Requests -> SessionRequest] /\ RequestsBacked'
<1>0. /\ SessionTypeOK /\ users' \in [Users -> UserRow \cup {Gone}] /\ UsersEvolve
      /\ request \in [Requests -> SessionRequest]
  BY UsersStep DEF SessionInv, SessionTypeOK
<1>1. /\ request' \in [Requests -> SessionRequest]
      /\ \A r \in Requests : Sound(request'[r])
  <2>1. CASE request' = request
    BY <1>0, <2>1 DEF SessionInv, RequestsBacked
  <2>2. ASSUME NEW r \in Requests, NEW q, Moved(r, q)
        PROVE  /\ request' \in [Requests -> SessionRequest]
               /\ \A t \in Requests : Sound(request'[t])
    <3>1. /\ request' \in [Requests -> SessionRequest]
          /\ \A t \in Requests : request'[t] = IF t = r THEN q ELSE request[t]
      BY <1>0, <2>2 DEF Moved
    <3>2. \A t \in Requests : Sound(request[t])
      BY DEF SessionInv, RequestsBacked
    <3>3. QED
      BY <2>2, <3>1, <3>2 DEF Moved
  <2>3. QED
    BY <2>1, <2>2, RequestsMove
<1>2. ASSUME NEW r \in Requests PROVE Sound(request[r])'
  <2>1. PICK q : q = request'[r]
    OBVIOUS
  <2>2. Sound(q) /\ q.user \in Users /\ q.epoch \in Nat
    BY <1>1, <2>1 DEF SessionRequest
  <2>3. Backed(q) => Backed(q)' /\ (Ended(q) => Ended(q)')
    BY <1>0, <2>2, BackedStays
  <2>4. Sound(q)'
    BY <2>2, <2>3 DEF Sound
  <2>5. QED
    BY <2>1, <2>4 DEF Sound, Backed, Ended, Exists
<1>3. QED
  BY <1>1, <1>2 DEF RequestsBacked

------------------------------------------------------------------------------
(* Links.                                                                  *)

(* A step may close links and change accounts, but not the password of an  *)
(* account one of whose links it leaves open.                              *)
LinksOnlyClose ==
  \A k \in LinkIds :
    /\ links'[k] = Gone <=> links[k] = Gone
    /\ links[k] # Gone => /\ links'[k].user = links[k].user
                          /\ links'[k].password = links[k].password
                          /\ links'[k].open => links[k].open
    /\ links'[k] # Gone /\ links'[k].open =>
         /\ users'[links[k].user] # Gone
         /\ users'[links[k].user].password = users[links[k].user].password

LEMMA ClosingKeeps ==
  ASSUME OldLinksAreClosed, LinksOnlyClose
  PROVE  OldLinksAreClosed'
BY DEF OldLinksAreClosed, LinksOnlyClose, Exists

(* The links of a user are closed, and nobody else is changed.             *)
LEMMA ClosedOnlyClose ==
  ASSUME SessionInv, NEW u \in Users, links' = Closed(u),
         \A v \in Users \ {u} : users'[v] = users[v]
  PROVE  links' \in [LinkIds -> ResetLink \cup {Gone}] /\ LinksOnlyClose
<1>1. /\ Closed(u) \in [LinkIds -> ResetLink \cup {Gone}]
      /\ \A k \in LinkIds : links[k] = Gone <=> Closed(u)[k] = Gone
      /\ \A k \in LinkIds : links[k] # Gone =>
           /\ Closed(u)[k].user = links[k].user
           /\ Closed(u)[k].password = links[k].password
           /\ Closed(u)[k].open = (links[k].open /\ links[k].user # u)
  BY ClosedType DEF SessionInv
<1>2. ASSUME NEW k \in LinkIds, links'[k] # Gone, links'[k].open
      PROVE  /\ links[k].open
             /\ users'[links[k].user] # Gone
             /\ users'[links[k].user].password = users[links[k].user].password
  <2>1. links[k] # Gone /\ links[k].open /\ links[k].user # u
    BY <1>1, <1>2
  <2>2. links[k].user \in Users /\ Exists(links[k].user)
    BY <2>1 DEF SessionInv, SessionTypeOK, ResetLink, OldLinksAreClosed
  <2>3. QED
    BY <2>1, <2>2 DEF Exists
<1>3. QED
  BY <1>1, <1>2 DEF LinksOnlyClose

(* No link and no password is changed.                                     *)
LEMMA StayOnlyClose ==
  ASSUME SessionInv, links' = links,
         \A v \in Users : users[v] # Gone =>
           users'[v] # Gone /\ users'[v].password = users[v].password
  PROVE  links' \in [LinkIds -> ResetLink \cup {Gone}] /\ LinksOnlyClose
<1>1. ASSUME NEW k \in LinkIds, links[k] # Gone, links[k].open
      PROVE  links[k].user \in Users /\ Exists(links[k].user)
  BY <1>1 DEF SessionInv, SessionTypeOK, ResetLink, OldLinksAreClosed
<1>2. QED
  BY <1>1 DEF LinksOnlyClose, SessionInv, SessionTypeOK, Exists

LEMMA ExpireOnlyCloses ==
  ASSUME SessionInv, NEW k \in LinkIds, ExpireLink(k)
  PROVE  links' \in [LinkIds -> ResetLink \cup {Gone}] /\ LinksOnlyClose
<1> DEFINE l == [links[k] EXCEPT !.open = FALSE]
<1>1. links[k] \in ResetLink /\ links[k] # Gone /\ links[k].open
  BY DEF ExpireLink, SessionInv, SessionTypeOK
<1>2. l \in ResetLink /\ l.open = FALSE
  BY <1>1, Zenon DEF ResetLink
<1>3. l.user = links[k].user /\ l.password = links[k].password
  BY <1>1 DEF ResetLink
<1>4. links' = [links EXCEPT ![k] = l] /\ users' = users
  BY DEF ExpireLink
<1> HIDE DEF l
<1>5. /\ links' \in [LinkIds -> ResetLink \cup {Gone}]
      /\ links'[k] = l /\ \A j \in LinkIds \ {k} : links'[j] = links[j]
  BY <1>2, <1>4 DEF SessionInv, SessionTypeOK
<1>6. ASSUME NEW j \in LinkIds, links[j] # Gone, links[j].open
      PROVE  users[links[j].user] # Gone
  BY <1>6 DEF SessionInv, OldLinksAreClosed, Exists
<1>7. l # Gone
  BY <1>2
<1>8. QED
  BY <1>1, <1>2, <1>3, <1>4, <1>5, <1>6, <1>7 DEF LinksOnlyClose

(* The link that is issued is for the password read with it, and the only. *)
LEMMA IssueKeeps ==
  ASSUME SessionInv, NEW r \in Requests, IssueLink(r)
  PROVE  links' \in [LinkIds -> ResetLink \cup {Gone}] /\ OldLinksAreClosed'
<1> DEFINE u == request[r].user
<1>0. u \in Users /\ users' = users
  BY DEF SessionInv, SessionTypeOK, SessionRequest, IssueLink
<1>1. CASE ~Exists(u)
  <2>1. links' = links
    BY <1>1 DEF IssueLink
  <2>2. QED
    BY <1>0, <2>1, StayOnlyClose, ClosingKeeps DEF SessionInv
<1>2. CASE Exists(u)
  <2> DEFINE p == users[u].password
             l == [user |-> u, open |-> TRUE, password |-> p]
  <2>1. PICK k \in LinkIds : links' = [Closed(u) EXCEPT ![k] = l]
    BY <1>2 DEF IssueLink
  <2>2. p \in Nat
    BY <1>0, <1>2 DEF Exists, SessionInv, SessionTypeOK, UserRow
  <2> HIDE DEF p
  <2>3. l \in ResetLink /\ l.user = u /\ l.password = p /\ l # Gone
    <3>1. l \in ResetLink
      BY <1>0, <2>2, Zenon DEF ResetLink
    <3>2. QED
      BY <3>1
  <2> HIDE DEF l
  <2>4. /\ Closed(u) \in [LinkIds -> ResetLink \cup {Gone}]
        /\ \A j \in LinkIds : links[j] = Gone <=> Closed(u)[j] = Gone
        /\ \A j \in LinkIds : links[j] # Gone =>
             /\ Closed(u)[j].user = links[j].user
             /\ Closed(u)[j].password = links[j].password
             /\ Closed(u)[j].open = (links[j].open /\ links[j].user # u)
    BY <1>0, ClosedType DEF SessionInv
  <2>5. /\ links' \in [LinkIds -> ResetLink \cup {Gone}]
        /\ links'[k] = l /\ \A j \in LinkIds \ {k} : links'[j] = Closed(u)[j]
    BY <2>1, <2>3, <2>4
  <2>6. ASSUME NEW j \in LinkIds, j # k, links'[j] # Gone
        PROVE  /\ links[j] # Gone /\ links'[j].user = links[j].user
               /\ links'[j].password = links[j].password
               /\ links'[j].open = (links[j].open /\ links[j].user # u)
    BY <2>4, <2>5, <2>6
  <2>7. ASSUME NEW j \in LinkIds, j # k, links'[j] # Gone, links'[j].open
        PROVE  /\ links'[j].user # u /\ users[links'[j].user] # Gone
               /\ links'[j].password = users[links'[j].user].password
               /\ \A i \in LinkIds \ {j} :
                    links'[i] # Gone /\ links'[i].user = links'[j].user => ~links'[i].open
    <3>1. links[j] # Gone /\ links[j].open /\ links[j].user # u
      BY <2>6, <2>7
    <3>2. /\ users[links[j].user] # Gone /\ links[j].password = users[links[j].user].password
          /\ \A i \in LinkIds \ {j} :
               links[i] # Gone /\ links[i].user = links[j].user => ~links[i].open
      BY <3>1 DEF SessionInv, OldLinksAreClosed, Exists
    <3>3. links'[j].user = links[j].user /\ links'[j].password = links[j].password
      BY <2>6, <2>7
    <3>4. ASSUME NEW i \in LinkIds \ {j}, links'[i] # Gone, links'[i].user = links'[j].user
          PROVE  ~links'[i].open
      <4>1. i # k
        BY <2>3, <2>5, <3>1, <3>3, <3>4
      <4>2. QED
        BY <2>6, <3>2, <3>3, <3>4, <4>1
    <3>5. QED
      BY <3>1, <3>2, <3>3, <3>4
  <2>8. /\ links'[k].user = u /\ users[u] # Gone /\ links'[k].password = users[u].password
        /\ \A i \in LinkIds \ {k} : links'[i] # Gone /\ links'[i].user = u => ~links'[i].open
    BY <1>2, <2>3, <2>5, <2>6 DEF Exists, p
  <2>9. OldLinksAreClosed'
    <3> SUFFICES ASSUME NEW j \in LinkIds, links'[j] # Gone, links'[j].open
                 PROVE  /\ users'[links'[j].user] # Gone
                        /\ links'[j].password = users'[links'[j].user].password
                        /\ \A i \in LinkIds \ {j} :
                             links'[i] # Gone /\ links'[i].user = links'[j].user => ~links'[i].open
      BY DEF OldLinksAreClosed, Exists
    <3>1. QED
      BY <1>0, <2>7, <2>8
  <2>10. QED
    BY <2>5, <2>9
<1>3. QED
  BY <1>1, <1>2

(* Every step keeps at most one link of an account open, for its password. *)
LEMMA LinksStep ==
  ASSUME SessionInv, [SessionNext]_sessionVars
  PROVE  links' \in [LinkIds -> ResetLink \cup {Gone}] /\ OldLinksAreClosed'
<1> DEFINE G == links' \in [LinkIds -> ResetLink \cup {Gone}] /\ OldLinksAreClosed'
<1>0. SessionTypeOK /\ OldLinksAreClosed /\ \A r \in Requests : request[r].user \in Users
  BY DEF SessionInv, SessionTypeOK, SessionRequest
<1>1. ASSUME links' = links,
             \A v \in Users : users[v] # Gone =>
               users'[v] # Gone /\ users'[v].password = users[v].password
      PROVE  G
  BY <1>0, <1>1, StayOnlyClose, ClosingKeeps
<1>2. ASSUME links' = links, users' = users PROVE G
  BY <1>1, <1>2
<1>3. ASSUME NEW u \in Users, links' = Closed(u), \A v \in Users \ {u} : users'[v] = users[v]
      PROVE  G
  BY <1>0, <1>3, ClosedOnlyClose, ClosingKeeps
<1>4. \A r \in Requests : IssueLink(r) => G
  BY IssueKeeps
<1>5. \A k \in LinkIds : ExpireLink(k) => G
  BY <1>0, ExpireOnlyCloses, ClosingKeeps
<1> HIDE DEF G
<1>6. \A r \in Requests : Asks(r) => G
  BY <1>2, AsksOnly
<1>7. \A r \in Requests : Create(r) \/ DeleteSessions(r) \/ TakeProof(r) => G
  BY <1>2 DEF Create, DeleteSessions, TakeProof
<1>8. \A r \in Requests : Restore(r) => G
  <2> SUFFICES ASSUME NEW r \in Requests, Restore(r) PROVE G
    OBVIOUS
  <2>1. links' = links
    BY DEF Restore
  <2>2. \A v \in Users : users[v] # Gone =>
               users'[v] # Gone /\ users'[v].password = users[v].password
    <3>1. CASE users' = users
      BY <3>1
    <3>2. ASSUME Exists(request[r].user),
                 users' = [users EXCEPT ![request[r].user].deletion = "none"]
          PROVE  \A v \in Users : users[v] # Gone =>
                   users'[v] # Gone /\ users'[v].password = users[v].password
      <4> DEFINE u == request[r].user
                 row == [users[u] EXCEPT !.deletion = "none"]
      <4>1. users[u] \in UserRow /\ u \in Users
        BY <1>0, <3>2 DEF SessionTypeOK, Exists
      <4>2. row \in UserRow /\ row.password = users[u].password
        BY <4>1 DEF UserRow, DeletionStates
      <4>3. users' = [users EXCEPT ![u] = row]
        BY <3>2
      <4> HIDE DEF row
      <4>4. QED
        BY <1>0, <4>1, <4>2, <4>3 DEF SessionTypeOK
    <3>3. QED
      BY <3>1, <3>2 DEF Restore
  <2>3. QED
    BY <1>1, <2>1, <2>2
<1>9. \A r \in Requests : Replace(r) => G
  BY <1>0, <1>2, <1>3, ReplacedType DEF Replace
<1>10. \A r \in Requests, k \in LinkIds : Reset(r, k) => G
  <2> SUFFICES ASSUME NEW r \in Requests, NEW k \in LinkIds, Reset(r, k) PROVE G
    OBVIOUS
  <2>1. links[k].user \in Users /\ Exists(links[k].user)
    BY <1>0 DEF Reset, SessionTypeOK, ResetLink, OldLinksAreClosed
  <2>2. QED
    BY <1>0, <1>3, <2>1, ReplacedType DEF Reset
<1>11. \A r \in Requests, state \in DeletionStates \ {"none"} : RequestDeletion(r, state) => G
  <2> SUFFICES ASSUME NEW r \in Requests, NEW state \in DeletionStates, RequestDeletion(r, state)
               PROVE  G
    OBVIOUS
  <2>1. CASE users' = users
    BY <1>2, <2>1 DEF RequestDeletion
  <2>2. CASE Exists(request[r].user) /\ users' = Deleted(request[r].user, state)
    BY <1>0, <1>1, <2>2, DeletedType DEF RequestDeletion
  <2>3. QED
    BY <2>1, <2>2 DEF RequestDeletion
<1>12. \A u \in Users : GraceEnds(u) => G
  <2> SUFFICES ASSUME NEW u \in Users, GraceEnds(u) PROVE G
    OBVIOUS
  <2> DEFINE row == [users[u] EXCEPT !.due = TRUE]
  <2>1. users[u] \in UserRow /\ links' = links
    BY <1>0 DEF GraceEnds, SessionTypeOK, Exists
  <2>2. row \in UserRow
    BY <2>1, Zenon DEF UserRow
  <2>3. row.password = users[u].password
    BY <2>1 DEF UserRow
  <2>4. users' = [users EXCEPT ![u] = row]
    BY DEF GraceEnds
  <2> HIDE DEF row
  <2>5. \A v \in Users : users[v] # Gone =>
               users'[v] # Gone /\ users'[v].password = users[v].password
    BY <1>0, <2>1, <2>2, <2>3, <2>4 DEF SessionTypeOK
  <2>6. QED
    BY <1>1, <2>1, <2>5
<1>13. \A u \in Users : Purge(u) => G
  BY <1>0, <1>3 DEF Purge, Closed, SessionTypeOK
<1>14. \A u \in Users : Prune(u) \/ PruneEmpty(u) => G
  BY <1>2 DEF Prune, PruneEmpty
<1>15. \A s \in SessionIds : Reauthenticate(s) \/ Drop(s) => G
  BY <1>2 DEF Reauthenticate, Drop
<1>16. UNCHANGED sessionVars => G
  BY <1>2 DEF sessionVars
<1>17. G
  BY <1>4, <1>5, <1>6, <1>7, <1>8, <1>9, <1>10, <1>11, <1>12, <1>13, <1>14, <1>15, <1>16,
     SessionCases
<1>18. QED
  BY <1>17 DEF G

(* The index, the proofs and the index keys that are being pruned.         *)
LEMMA IndexStep ==
  ASSUME SessionTypeOK, [SessionNext]_sessionVars
  PROVE  /\ index' \in [Users -> SUBSET SessionIds]
         /\ proofs' \subseteq SessionIds
         /\ pruning' \subseteq Users
<1> DEFINE G == /\ index' \in [Users -> SUBSET SessionIds]
                /\ proofs' \subseteq SessionIds
                /\ pruning' \subseteq Users
<1>0. \A r \in Requests : request[r].user \in Users
  BY DEF SessionTypeOK, SessionRequest
<1>1. ASSUME index' = index, proofs' \in SUBSET SessionIds, pruning' \in SUBSET Users
      PROVE  G
  BY <1>1 DEF SessionTypeOK
<1>2. ASSUME NEW u \in Users, NEW K \in SUBSET SessionIds, index' = [index EXCEPT ![u] = K],
             proofs' \in SUBSET SessionIds, pruning' \in SUBSET Users
      PROVE  G
  BY <1>2 DEF SessionTypeOK
<1>3. index \in [Users -> SUBSET SessionIds] /\ proofs \in SUBSET SessionIds
      /\ pruning \in SUBSET Users
  BY DEF SessionTypeOK
<1> HIDE DEF G
<1>4. \A r \in Requests : Asks(r) => G
  BY <1>1, <1>3, AsksOnly
<1>5. \A r \in Requests : Create(r) => G
  <2> SUFFICES ASSUME NEW r \in Requests, Create(r) PROVE G
    OBVIOUS
  <2> DEFINE K == index[request[r].user] \cup {created + 1}
  <2>1. created + 1 \in SessionIds /\ proofs' = proofs /\ pruning' = pruning
    BY DEF Create, SessionTypeOK, SessionIds
  <2>2. K \in SUBSET SessionIds
    BY <1>0, <2>1 DEF SessionTypeOK
  <2>3. index' = [index EXCEPT ![request[r].user] = K]
    BY DEF Create
  <2> HIDE DEF K
  <2>4. QED
    BY <1>0, <1>2, <1>3, <2>1, <2>2, <2>3
<1>6. \A r \in Requests : Restore(r) \/ Replace(r) \/ IssueLink(r) => G
  BY <1>1, <1>3 DEF Restore, Replace, IssueLink
<1>7. \A r \in Requests, k \in LinkIds : Reset(r, k) => G
  BY <1>1, <1>3 DEF Reset
<1>8. \A r \in Requests : DeleteSessions(r) => G
  BY <1>0, <1>1, <1>2, <1>3 DEF DeleteSessions
<1>9. \A r \in Requests : TakeProof(r) => G
  BY <1>1, <1>3 DEF TakeProof
<1>10. \A r \in Requests, state \in DeletionStates \ {"none"} : RequestDeletion(r, state) => G
  BY <1>1, <1>3 DEF RequestDeletion
<1>11. \A u \in Users : GraceEnds(u) \/ Purge(u) => G
  BY <1>1, <1>3 DEF GraceEnds, Purge
<1>12. \A u \in Users : Prune(u) => G
  <2> SUFFICES ASSUME NEW u \in Users, Prune(u) PROVE G
    OBVIOUS
  <2> DEFINE K == {s \in index[u] : records[s] # Gone}
  <2>1. K \in SUBSET SessionIds /\ index' = [index EXCEPT ![u] = K]
    BY <1>3 DEF Prune
  <2>2. proofs' = proofs /\ pruning' \in SUBSET Users
    BY <1>3 DEF Prune
  <2> HIDE DEF K
  <2>3. QED
    BY <1>2, <1>3, <2>1, <2>2
<1>13. \A u \in Users : PruneEmpty(u) => G
  BY <1>2, <1>3 DEF PruneEmpty
<1>14. \A s \in SessionIds : Reauthenticate(s) => G
  BY <1>1, <1>3 DEF Reauthenticate
<1>15. \A s \in SessionIds : Drop(s) => G
  <2> SUFFICES ASSUME NEW s \in SessionIds, Drop(s) PROVE G
    OBVIOUS
  <2> DEFINE K == index[records[s].user] \ {s}
  <2>1. records[s].user \in Users
    BY DEF Drop, SessionTypeOK, Record
  <2>2. K \in SUBSET SessionIds
    BY <1>3, <2>1
  <2>3. index' = index \/ index' = [index EXCEPT ![records[s].user] = K]
    BY DEF Drop
  <2>4. proofs' \in SUBSET SessionIds /\ pruning' = pruning
    BY <1>3 DEF Drop
  <2> HIDE DEF K
  <2>5. QED
    BY <1>1, <1>2, <1>3, <2>1, <2>2, <2>3, <2>4
<1>16. \A k \in LinkIds : ExpireLink(k) => G
  BY <1>1, <1>3 DEF ExpireLink
<1>17. UNCHANGED sessionVars => G
  BY <1>1, <1>3 DEF sessionVars
<1>18. G
  BY <1>4, <1>5, <1>6, <1>7, <1>8, <1>9, <1>10, <1>11, <1>12, <1>13, <1>14, <1>15, <1>16, <1>17,
     SessionCases
<1>19. QED
  BY <1>18 DEF G

------------------------------------------------------------------------------
(* The invariant, and what follows from it.                                *)

LEMMA SessionInvInit == SessionInit => SessionInv
<1> SUFFICES ASSUME SessionInit PROVE SessionInv
  OBVIOUS
<1> DEFINE row == [password |-> 0, epoch |-> 0, deletion |-> "none", due |-> FALSE]
<1>1. row \in UserRow
  <2>1. "none" \in DeletionStates /\ FALSE \in BOOLEAN /\ 0 \in Nat
    BY DEF DeletionStates
  <2>2. QED
    BY <2>1, Zenon DEF UserRow
<1>2. users = [u \in Users |-> row]
  BY DEF SessionInit
<1> HIDE DEF row
<1>3. users \in [Users -> UserRow \cup {Gone}]
  BY <1>1, <1>2
<1>4. SessionTypeOK
  BY <1>3, IdleType DEF SessionInit, SessionTypeOK
<1>5. RecordsBacked /\ OldLinksAreClosed
  BY DEF SessionInit, RecordsBacked, OldLinksAreClosed
<1>6. RequestsBacked
  BY DEF SessionInit, RequestsBacked, Sound, Idle0
<1>7. QED
  BY <1>4, <1>5, <1>6 DEF SessionInv

LEMMA SessionInvNext ==
  ASSUME SessionInv, [SessionNext]_sessionVars
  PROVE  SessionInv'
<1>1. SessionTypeOK
  BY DEF SessionInv
<1>2. SessionTypeOK'
  BY <1>1, UsersStep, RecordsStep, IndexStep, LinksStep, RequestsBackedStep DEF SessionTypeOK
<1>3. QED
  BY <1>2, RecordsBackedStep, RequestsBackedStep, LinksStep DEF SessionInv

LEMMA SessionInvHolds == SessionSpec => []SessionInv
BY SessionInvInit, SessionInvNext, PTL DEF SessionSpec

(* The stores hold rows, records and links, and requests stand where the   *)
(* code can stand.                                                         *)
THEOREM SessionTypes == SessionSpec => []SessionTypeOK
<1>1. SessionInv => SessionTypeOK
  BY DEF SessionInv
<1>2. QED
  BY <1>1, SessionInvHolds, PTL

(* A session that authorises by a sign-in was started with the password its*)
(* account has: login reads password and epoch in one statement, and       *)
(* whatever changes the password changes the epoch.                        *)
THEOREM SignInsAreCurrent == SessionSpec => []SignedInWithCurrentPassword
<1>1. SessionInv => SignedInWithCurrentPassword
  BY DEF SessionInv, RecordsBacked, Backed, SignedInWithCurrentPassword, Authorises
<1>2. QED
  BY <1>1, SessionInvHolds, PTL

(* An open reset link is its account's only one, and for its password.     *)
THEOREM LinksAreClosed == SessionSpec => []OldLinksAreClosed
<1>1. SessionInv => OldLinksAreClosed
  BY DEF SessionInv
<1>2. QED
  BY <1>1, SessionInvHolds, PTL

(* What does not authorise is of an older epoch, or its account is gone, or*)
(* was deleted in a newer one: no step brings back the epoch of a record.  *)
LEMMA DeadStays ==
  ASSUME SessionInv, [SessionNext]_sessionVars, NEW s \in SessionIds,
         records[s] # Gone, ~Authorises(s)
  PROVE  ~Authorises(s)'
<1> SUFFICES ASSUME Authorises(s)' PROVE FALSE
  OBVIOUS
<1> DEFINE u == records[s].user
<1>0. /\ SessionTypeOK /\ users' \in [Users -> UserRow \cup {Gone}] /\ UsersEvolve
      /\ created' \in Nat /\ created \in Nat /\ records[s] \in Record
      /\ s <= created /\ Backed(records[s]) /\ Ended(records[s])
  BY UsersStep, RecordsStep DEF SessionInv, SessionTypeOK, RecordsBacked
<1>1. records'[s] = records[s]
  <2>1. s # created + 1
    BY <1>0 DEF SessionIds
  <2>2. records'[s] \in {records[s], Gone}
    BY <1>0, <2>1, RecordsStep DEF RecordEvolves
  <2>3. QED
    BY <2>2 DEF Authorises
<1>2. u \in Users /\ records[s].epoch \in Nat
  BY <1>0 DEF Record
<1>3. users'[u] # Gone /\ users'[u].deletion = "none" /\ users'[u].epoch = records[s].epoch
  BY <1>1 DEF Authorises, Exists
<1>4. users[u] # Gone /\ users[u] \in UserRow
  BY <1>0, <1>2, <1>3 DEF UsersEvolve, SessionTypeOK
<1>5. records[s].epoch < users[u].epoch
  <2>1. records[s].epoch <= users[u].epoch
    BY <1>0, <1>4 DEF Backed, Exists
  <2>2. CASE users[u].deletion # "none"
    BY <1>0, <1>4, <2>2 DEF Ended, Exists
  <2>3. CASE users[u].deletion = "none"
    <3>1. users[u].epoch # records[s].epoch
      BY <1>4, <2>3 DEF Authorises, Exists
    <3>2. QED
      BY <1>2, <1>4, <2>1, <3>1 DEF UserRow
  <2>4. QED
    BY <2>2, <2>3
<1>6. users'[u].epoch >= users[u].epoch
  BY <1>0, <1>2, <1>3, <1>4 DEF UsersEvolve, UserRow
<1>7. users[u].epoch \in Nat /\ users'[u].epoch \in Nat
  BY <1>0, <1>2, <1>3, <1>4 DEF UserRow
<1>8. QED
  BY <1>2, <1>3, <1>5, <1>6, <1>7

(* A session that does not authorise never does again.                     *)
THEOREM DeadStayDead == SessionSpec => DeadSessionsStayDead
<1> DEFINE A == \A s \in SessionIds : records[s] # Gone /\ ~Authorises(s) => ~Authorises(s)'
<1>1. SessionInv /\ [SessionNext]_sessionVars => A
  BY DeadStays
<1>2. SessionSpec => [][A]_sessionVars
  BY <1>1, SessionInvHolds, PTL DEF SessionSpec
<1>3. QED
  BY <1>2 DEF DeadSessionsStayDead


------------------------------------------------------------------------------
(* Erasure: what one transaction has to delete, and in which order.        *)

Purged == {"attempts", "sessions", "sm2", "words", "phonemes", "consents", "events"}
Pair(s) == <<s.table, s.owner>>

(* All that goes with t; of an account, with its identities B.             *)
RowsWith(t, B) ==
  IF t \in Members
  THEN (Purged \X ({t} \cup B)) \cup ({"tokens", "credentials", "bindings", "users"} \X {t})
       \cup ({"profiles"} \X B)
  ELSE (Purged \cup {"profiles"}) \X {t}

(* What has to be gone when s runs, so that no key refers to what it       *)
(* deletes.                                                                *)
Before(s, t, B) ==
  {x \in RowsWith(t, B) :
     \/ s.table = "sessions" /\ x = <<"attempts", s.owner>>
     \/ s.table = "events" /\ x \in {"words", "phonemes"} \X {s.owner, t}
     \/ s.table = "profiles" /\ (x \in Purged \X {s.owner} \/ x = <<"bindings", t>>)
     \/ s.table = "users" /\ x # Pair(s)}

Final(t) == [table |-> IF t \in Members THEN "users" ELSE "profiles", owner |-> t]

(* What is left to run, after what is gone: it is all of t's, it ends with *)
(* t, and nothing comes before what it has to wait for.                    *)
Has(run, n, x) == \E k \in 1..n : Pair(run[k]) = x

InOrder(run, gone, t, B) ==
  \A i \in 1..Len(run) : \A x \in Before(run[i], t, B) : x \in gone \/ Has(run, i - 1, x)

RunFits(run, gone, t, B) ==
  /\ run \in Seq(Statement) /\ run # << >> /\ run[Len(run)] = Final(t)
  /\ gone \subseteq RowsWith(t, B)
  /\ \A i \in 1..Len(run) : Pair(run[i]) \in RowsWith(t, B)
  /\ InOrder(run, gone, t, B)

(* Whom job j's transaction erases; it holds the lock, so this stays due.  *)
Target(j) == Last(job[j].run).owner

JobFits(j) ==
  IF job[j].run = << >> THEN job[j].gone = {}
  ELSE /\ Target(j) \in People /\ Claimable(Target(j))
       /\ RunFits(job[j].run, job[j].gone, Target(j), BoundTo(Target(j)))

(* No two of them erase the same.                                          *)
Apart ==
  \A j \in Jobs : \A k \in Jobs \ {j} :
    job[j].run # << >> /\ job[k].run # << >> => Target(j) # Target(k)

RowsFit == \A row \in rows : row[1] \in {"tokens", "credentials"} => row[2] \in Members

Worker == [pc : {"idle", "run"}, list : SUBSET People, run : Seq(Statement),
           gone : SUBSET ((Tables \cup Parents) \X People)]

ErasureTypes ==
  /\ members \in [Members -> {"none", "soft_deleted", "grace_over",
                              "hard_delete_scheduled", Nobody}]
  /\ profiles \in [Anons -> {"seen", "idle", Nobody}]
  /\ bindings \in [Anons -> Members \cup {Nobody}]
  /\ rows \subseteq Tables \X People
  /\ job \in [Jobs -> Worker]
  /\ failures \in 0..MaxFailures /\ writes \in 0..MaxWrites

ErasureInv ==
  /\ ErasureTypes
  /\ RowsFit
  /\ \A j \in Jobs : JobFits(j)
  /\ Apart


(* PurgeOwner names seven tables, and deletes of several owners run        *)
(* through them for one owner after the other.                             *)
LEMMA Seven ==
  /\ Len(PurgeOwner) = 7 /\ Purged \subseteq Tables
  /\ PurgeOwner[1] = "attempts" /\ PurgeOwner[2] = "sessions" /\ PurgeOwner[3] = "sm2"
  /\ PurgeOwner[4] = "words" /\ PurgeOwner[5] = "phonemes" /\ PurgeOwner[6] = "consents"
  /\ PurgeOwner[7] = "events"
  /\ \A m \in 0..6 : PurgeOwner[m + 1] \in Purged
  /\ \A x \in Purged : \E m \in 0..6 : PurgeOwner[m + 1] = x
<1>1. /\ Len(PurgeOwner) = 7
      /\ PurgeOwner[1] = "attempts" /\ PurgeOwner[2] = "sessions" /\ PurgeOwner[3] = "sm2"
      /\ PurgeOwner[4] = "words" /\ PurgeOwner[5] = "phonemes" /\ PurgeOwner[6] = "consents"
      /\ PurgeOwner[7] = "events"
  BY DEF PurgeOwner
<1>2. \A m \in 0..6 : m \in {0, 1, 2, 3, 4, 5, 6}
  OBVIOUS
<1>3. ASSUME NEW m \in 0..6 PROVE PurgeOwner[m + 1] \in Purged
  BY <1>1, <1>2 DEF Purged
<1>4. ASSUME NEW x \in Purged PROVE \E m \in 0..6 : PurgeOwner[m + 1] = x
  <2>1. \E n \in 1..7 : PurgeOwner[n] = x
    BY <1>1 DEF Purged
  <2>2. PICK n \in 1..7 : PurgeOwner[n] = x
    BY <2>1
  <2>3. n - 1 \in 0..6 /\ (n - 1) + 1 = n
    OBVIOUS
  <2>4. QED BY <2>2, <2>3
<1>5. Purged \subseteq Tables
  BY DEF Purged, Tables
<1>6. QED BY <1>1, <1>3, <1>4, <1>5

LEMMA Rounds ==
  /\ \A q \in Nat, m \in 0..6 : (7 * q + m) \div 7 = q /\ (7 * q + m) % 7 = m
  /\ \A i \in Nat : i \div 7 \in Nat /\ i % 7 \in 0..6 /\ i = 7 * (i \div 7) + (i % 7)
<1>1. ASSUME NEW i \in Nat
      PROVE  i \div 7 \in Nat /\ i % 7 \in 0..6 /\ i = 7 * (i \div 7) + (i % 7)
  OBVIOUS
<1>2. ASSUME NEW q \in Nat, NEW m \in 0..6 PROVE (7 * q + m) \div 7 = q /\ (7 * q + m) % 7 = m
  <2>1. PICK i \in Nat : i = 7 * q + m
    OBVIOUS
  <2>2. PICK p \in Nat, l \in 0..6 : p = i \div 7 /\ l = i % 7 /\ i = 7 * p + l
    BY <1>1
  <2>3. p = q /\ l = m
    BY <2>1, <2>2
  <2>4. QED BY <2>1, <2>2, <2>3
<1>3. QED BY <1>1, <1>2

RunsThrough(d, owners) ==
  /\ d \in Seq(Statement) /\ Len(d) = 7 * Len(owners)
  /\ \A q \in 0..Len(owners) - 1, m \in 0..6 :
       /\ 7 * q + m + 1 \in 1..Len(d)
       /\ d[7 * q + m + 1] = [table |-> PurgeOwner[m + 1], owner |-> owners[q + 1]]
  /\ \A i \in 1..Len(d) : \E q \in 0..Len(owners) - 1, m \in 0..6 : i = 7 * q + m + 1

LEMMA DeletesOfEach ==
  ASSUME NEW owners \in Seq(People), NEW d, d = DeletesOf(owners)
  PROVE  RunsThrough(d, owners)
<1> DEFINE n == Len(owners)
           At(i) == [table |-> PurgeOwner[((i - 1) % 7) + 1], owner |-> owners[((i - 1) \div 7) + 1]]
<1>1. n \in Nat
  OBVIOUS
<1>2. d = [i \in 1..7 * n |-> At(i)]
  BY Seven DEF DeletesOf
<1> HIDE DEF n
<1>3. 7 * n \in Nat
  BY <1>1
<1>4. ASSUME NEW i \in 1..7 * n
      PROVE  \E q \in 0..n - 1, m \in 0..6 : i = 7 * q + m + 1
  <2>1. PICK k \in Nat : k = i - 1 /\ k < 7 * n
    BY <1>3
  <2>2. k \div 7 \in Nat /\ k % 7 \in 0..6 /\ k = 7 * (k \div 7) + (k % 7)
    BY Rounds
  <2>3. PICK q \in Nat, m \in 0..6 : k = 7 * q + m
    BY <2>2
  <2>4. q \in 0..n - 1 /\ i = 7 * q + m + 1
    BY <1>1, <2>1, <2>3
  <2>5. QED BY <2>4
<1>5. ASSUME NEW q \in 0..n - 1, NEW m \in 0..6
      PROVE  /\ 7 * q + m + 1 \in 1..7 * n
             /\ d[7 * q + m + 1] = [table |-> PurgeOwner[m + 1], owner |-> owners[q + 1]]
  <2>1. PICK i : i = 7 * q + m + 1
    OBVIOUS
  <2>2. i \in 1..7 * n /\ i - 1 = 7 * q + m
    BY <1>1, <2>1
  <2>3. (7 * q + m) \div 7 = q /\ (7 * q + m) % 7 = m
    BY Rounds
  <2>4. d[i] = At(i)
    BY <1>2, <2>2
  <2>5. QED BY <2>1, <2>2, <2>3, <2>4
<1>6. ASSUME NEW i \in 1..7 * n PROVE d[i] \in Statement
  <2>1. PICK q \in 0..n - 1, m \in 0..6 : i = 7 * q + m + 1
    BY <1>4
  <2>2. d[i] = [table |-> PurgeOwner[m + 1], owner |-> owners[q + 1]]
    BY <1>5, <2>1
  <2>3. PurgeOwner[m + 1] \in Tables \cup Parents
    BY Seven
  <2>4. owners[q + 1] \in People
    BY <1>1 DEF n
  <2>5. QED BY <2>2, <2>3, <2>4 DEF Statement
<1>7. d \in Seq(Statement) /\ Len(d) = 7 * n
  <2>1. d \in [1..7 * n -> Statement]
    BY <1>2, <1>6
  <2>2. QED BY <1>3, <2>1
<1>8. QED
  BY <1>4, <1>5, <1>7 DEF n, RunsThrough

(* listBoundAnonymousIds: each identity of the account, as a sequence.     *)
LEMMA BoundIdsAre ==
  ASSUME ErasureTypes, NEW u \in Members
  PROVE  /\ BoundIds(u) \in Seq(BoundTo(u))
         /\ \A a \in BoundTo(u) : \E i \in 1..Len(BoundIds(u)) : BoundIds(u)[i] = a
<1> DEFINE S == BoundTo(u)
           f == BoundIds(u)
<1>1. IsFiniteSet(S)
  BY ErasureAssumption, FS_Subset DEF BoundTo
<1>2. PICK n \in Nat : n = Cardinality(S)
  BY <1>1, FS_CardinalityType
<1>3. \E g \in [1..n -> S] : IsInjective(g)
  BY <1>1, <1>2, FS_CardinalityType DEF ExistsBijection, Bijection, Injection
<1>4. f \in [1..n -> S] /\ IsInjective(f)
  BY <1>2, <1>3 DEF BoundIds, SetToSeq
<1> HIDE DEF S, f
<1>5. f \in Injection(1..n, S)
  BY <1>4 DEF Injection
<1>6. Cardinality(1..n) = n
  BY <1>2, FS_Interval
<1>7. f \in Surjection(1..n, S)
  BY <1>1, <1>2, <1>5, <1>6, FS_Injection
<1>8. f \in Seq(S) /\ Len(f) = n
  BY <1>2, <1>4
<1>9. QED BY <1>7, <1>8 DEF Surjection, S, f


(* One list after another.                                                 *)
Follows(z, a, b) ==
  /\ z \in Seq(Statement) /\ Len(z) = Len(a) + Len(b)
  /\ \A i \in 1..Len(a) : z[i] = a[i]
  /\ \A i \in 1..Len(b) : z[Len(a) + i] = b[i]

LEMMA Concatenated ==
  ASSUME NEW a \in Seq(Statement), NEW b \in Seq(Statement), NEW z, z = a \o b
  PROVE  Follows(z, a, b)
<1>1. z \in Seq(Statement) /\ Len(z) = Len(a) + Len(b)
  OBVIOUS
<1>2. ASSUME NEW i \in 1..Len(a) PROVE z[i] = a[i]
  BY <1>2
<1>3. ASSUME NEW i \in 1..Len(b) PROVE z[Len(a) + i] = b[i]
  BY <1>3
<1>4. QED BY <1>1, <1>2, <1>3 DEF Follows

InParts(f, d, e, p, g, c, n) ==
  /\ f \in Seq(Statement) /\ c \in Nat /\ n \in Nat /\ Len(f) = c + n + 4
  /\ \A i \in 1..c : f[i] = d[i]
  /\ f[c + 1] = e[1] /\ f[c + 2] = e[2]
  /\ \A k \in 1..n : f[c + 2 + k] = p[k]
  /\ f[c + n + 3] = g[1] /\ f[c + n + 4] = g[2]

LEMMA FourParts ==
  ASSUME NEW d \in Seq(Statement), NEW e \in Seq(Statement), NEW p \in Seq(Statement),
         NEW g \in Seq(Statement), Len(e) = 2, Len(g) = 2,
         NEW f, f = d \o e \o p \o g, NEW c, c = Len(d), NEW n, n = Len(p)
  PROVE  InParts(f, d, e, p, g, c, n)
<1>1. c \in Nat /\ n \in Nat
  OBVIOUS
<1>2. PICK x : x = d \o e
  OBVIOUS
<1>3. Follows(x, d, e)
  BY <1>2, Concatenated
<1>4. /\ x \in Seq(Statement) /\ Len(x) = c + 2 /\ \A i \in 1..c : x[i] = d[i]
      /\ x[c + 1] = e[1] /\ x[c + 2] = e[2]
  BY <1>1, <1>3 DEF Follows
<1>5. PICK y : y = x \o p
  OBVIOUS
<1>6. Follows(y, x, p)
  BY <1>4, <1>5, Concatenated
<1>7. /\ y \in Seq(Statement) /\ Len(y) = c + 2 + n
      /\ \A i \in 1..c + 2 : y[i] = x[i]
      /\ \A k \in 1..n : y[c + 2 + k] = p[k]
  BY <1>1, <1>4, <1>6 DEF Follows
<1>8. f = y \o g
  BY <1>2, <1>5
<1>9. Follows(f, y, g)
  BY <1>7, <1>8, Concatenated
<1>10. /\ f \in Seq(Statement) /\ Len(f) = c + n + 4
       /\ \A i \in 1..c + 2 + n : f[i] = y[i]
  BY <1>1, <1>7, <1>9 DEF Follows
<1>11. f[(c + 2 + n) + 1] = g[1] /\ f[(c + 2 + n) + 2] = g[2]
  BY <1>1, <1>7, <1>9 DEF Follows
<1>12. (c + 2 + n) + 1 = c + n + 3 /\ (c + 2 + n) + 2 = c + n + 4
  BY <1>1
<1>13. f[c + 1] = e[1] /\ f[c + 2] = e[2] /\ \A i \in 1..c : f[i] = d[i]
  BY <1>1, <1>4, <1>7, <1>10
<1>14. ASSUME NEW k \in 1..n PROVE f[c + 2 + k] = p[k]
  BY <1>1, <1>7, <1>10
<1>15. QED BY <1>1, <1>10, <1>11, <1>12, <1>13, <1>14 DEF InParts

(* Deletes of t and then of its identities wait for each other in order.   *)
LEMMA DeletesInOrder ==
  ASSUME NEW owners \in Seq(People), owners # << >>, NEW t, t = owners[1], NEW B,
         NEW d, d = DeletesOf(owners), NEW i \in 1..Len(d), NEW x \in Before(d[i], t, B)
  PROVE  Has(d, i - 1, x)
<1>0. RunsThrough(d, owners)
  BY DeletesOfEach
<1>1. PICK n \in Nat : n = Len(owners)
  OBVIOUS
<1>2. n >= 1
  BY <1>1
<1>3a. \E q \in 0..Len(owners) - 1, m \in 0..6 : i = 7 * q + m + 1
  BY <1>0 DEF RunsThrough
<1>3. PICK q \in 0..n - 1, m \in 0..6 : i = 7 * q + m + 1
  BY <1>1, <1>3a
<1>4a. \A r \in 0..Len(owners) - 1, l \in 0..6 :
        /\ 7 * r + l + 1 \in 1..Len(d)
        /\ d[7 * r + l + 1] = [table |-> PurgeOwner[l + 1], owner |-> owners[r + 1]]
  BY <1>0 DEF RunsThrough
<1>4. \A r \in 0..n - 1, l \in 0..6 :
        /\ 7 * r + l + 1 \in 1..Len(d)
        /\ d[7 * r + l + 1] = [table |-> PurgeOwner[l + 1], owner |-> owners[r + 1]]
  BY <1>1, <1>4a
<1>5. d[i].table = PurgeOwner[m + 1] /\ d[i].owner = owners[q + 1]
  <2>1. d[7 * q + m + 1] = [table |-> PurgeOwner[m + 1], owner |-> owners[q + 1]]
    BY <1>4, Zenon
  <2>2. d[i] = [table |-> PurgeOwner[m + 1], owner |-> owners[q + 1]]
    BY <1>3, <2>1, Zenon
  <2>3. QED BY <2>2
<1>6. ASSUME NEW r \in 0..n - 1, NEW l \in 0..6
      PROVE  Pair(d[7 * r + l + 1]) = <<PurgeOwner[l + 1], owners[r + 1]>>
  <2>1. d[7 * r + l + 1] = [table |-> PurgeOwner[l + 1], owner |-> owners[r + 1]]
    BY <1>4, Zenon
  <2>2. PICK y : y = d[7 * r + l + 1]
    OBVIOUS
  <2>3. y = [table |-> PurgeOwner[l + 1], owner |-> owners[r + 1]]
    BY <2>1, <2>2, Zenon
  <2>4. Pair(y) = <<PurgeOwner[l + 1], owners[r + 1]>>
    BY <2>3 DEF Pair
  <2>5. QED BY <2>2, <2>4, Zenon
<1>7. d[i].table \in {"sessions", "events", "profiles", "users"}
  BY DEF Before
<1>8. CASE m = 1
  <2>1. x = <<"attempts", owners[q + 1]>>
    BY <1>5, <1>8, Seven DEF Before
  <2>2. Pair(d[7 * q + 0 + 1]) = <<"attempts", owners[q + 1]>>
    <3>1. 0 \in 0..6 /\ 0 + 1 = 1
      OBVIOUS
    <3>2. Pair(d[7 * q + 0 + 1]) = <<PurgeOwner[0 + 1], owners[q + 1]>>
      BY <1>6, <3>1, Zenon
    <3>3. QED BY <3>1, <3>2, Seven, Zenon
  <2>3. 7 * q + 0 + 1 \in 1..i - 1
    BY <1>2, <1>3, <1>8
  <2>4. QED BY <2>1, <2>2, <2>3 DEF Has
<1>9. CASE m = 6
  <2>1. x \in {"words", "phonemes"} \X {owners[q + 1], t}
    BY <1>5, <1>9, Seven DEF Before
  <2>2. PICK r \in {q, 0}, l \in {3, 4} : x = <<PurgeOwner[l + 1], owners[r + 1]>>
    <3>1. PICK o \in {owners[q + 1], t}, w \in {"words", "phonemes"} : x = <<w, o>>
      BY <2>1
    <3>2. PICK r \in {q, 0} : o = owners[r + 1]
      OBVIOUS
    <3>3. PICK l \in {3, 4} : w = PurgeOwner[l + 1]
      BY Seven
    <3>4. QED BY <3>1, <3>2, <3>3
  <2>3. r \in 0..n - 1 /\ l \in 0..6
    BY <1>2
  <2>4. Pair(d[7 * r + l + 1]) = x
    BY <1>6, <2>2, <2>3
  <2>5. 7 * r + l + 1 \in 1..i - 1
    BY <1>2, <1>3, <1>9, <2>2
  <2>6. QED BY <2>4, <2>5 DEF Has
<1>10. m \in {1, 6}
  <2>1. m \in {0, 1, 2, 3, 4, 5, 6}
    OBVIOUS
  <2>2. QED BY <1>5, <1>7, <2>1, Seven
<1>11. QED BY <1>8, <1>9, <1>10

LEMMA DeletesCover ==
  ASSUME NEW owners \in Seq(People), NEW d, d = DeletesOf(owners),
         NEW T \in Purged, NEW j \in 1..Len(owners)
  PROVE  Has(d, Len(d), <<T, owners[j]>>)
<1>1. PICK l \in 0..6 : PurgeOwner[l + 1] = T
  BY Seven
<1>2. PICK q \in 0..Len(owners) - 1 : j = q + 1
  OBVIOUS
<1>0. RunsThrough(d, owners)
  BY DeletesOfEach
<1>3. /\ 7 * q + l + 1 \in 1..Len(d)
      /\ d[7 * q + l + 1] = [table |-> PurgeOwner[l + 1], owner |-> owners[q + 1]]
  BY <1>0 DEF RunsThrough
<1>4. Pair(d[7 * q + l + 1]) = <<T, owners[j]>>
  BY <1>1, <1>2, <1>3 DEF Pair
<1>5. QED BY <1>3, <1>4 DEF Has

LEMMA DeletesAre ==
  ASSUME NEW owners \in Seq(People), NEW d, d = DeletesOf(owners), NEW i \in 1..Len(d)
  PROVE  d[i].table \in Purged /\ \E j \in 1..Len(owners) : d[i].owner = owners[j]
<1>1. RunsThrough(d, owners)
  BY DeletesOfEach
<1>2. \E q \in 0..Len(owners) - 1, m \in 0..6 : i = 7 * q + m + 1
  BY <1>1 DEF RunsThrough
<1>3. PICK q \in 0..Len(owners) - 1, m \in 0..6 : i = 7 * q + m + 1
  BY <1>2
<1>4. d[7 * q + m + 1] = [table |-> PurgeOwner[m + 1], owner |-> owners[q + 1]]
  BY <1>1 DEF RunsThrough
<1>5. d[i] = [table |-> PurgeOwner[m + 1], owner |-> owners[q + 1]]
  BY <1>3, <1>4, Zenon
<1>6. q + 1 \in 1..Len(owners)
  OBVIOUS
<1>7. d[i].table = PurgeOwner[m + 1] /\ d[i].owner = owners[q + 1]
  BY <1>5
<1>8. PurgeOwner[m + 1] \in Purged
  BY Seven
<1>9. QED BY <1>6, <1>7, <1>8

(* The deletes of an account fit: everything of it, in the order the keys  *)
(* ask for.                                                                *)
LEMMA AccountDeletesFit ==
  ASSUME ErasureTypes, NEW u \in Members, NEW f, f = AccountDeletes(u)
  PROVE  RunFits(f, {}, u, BoundTo(u))
<1>1. PICK B : B = BoundTo(u)
  OBVIOUS
<1>2. PICK ids : ids = BoundIds(u)
  OBVIOUS
<1>3. ids \in Seq(B) /\ \A a \in B : \E k \in 1..Len(ids) : ids[k] = a
  BY <1>1, <1>2, BoundIdsAre
<1>4. B \subseteq Anons /\ u \notin B /\ u \in People
  BY <1>1, ErasureAssumption DEF BoundTo, People
<1>5. PICK n \in Nat : n = Len(ids)
  BY <1>3
<1>6. PICK owners : owners = <<u>> \o ids
  OBVIOUS
<1>7. /\ owners \in Seq(People) /\ Len(owners) = n + 1 /\ owners[1] = u
      /\ \A k \in 1..n : owners[k + 1] = ids[k]
  <2>1. ids \in Seq(People) /\ <<u>> \in Seq(People)
    BY <1>3, <1>4 DEF People
  <2>2. QED BY <1>5, <1>6, <2>1
<1>8. PICK d : d = DeletesOf(owners)
  OBVIOUS
<1>9. d \in Seq(Statement)
  <2>1. RunsThrough(d, owners)
    BY <1>7, <1>8, DeletesOfEach
  <2>2. QED BY <2>1 DEF RunsThrough
<1>10. PICK e : e = <<[table |-> "tokens", owner |-> u], [table |-> "bindings", owner |-> u]>>
  OBVIOUS
<1>11. PICK p : p = [k \in 1..n |-> [table |-> "profiles", owner |-> ids[k]]]
  OBVIOUS
<1>12. PICK g : g = <<[table |-> "credentials", owner |-> u], [table |-> "users", owner |-> u]>>
  OBVIOUS
<1>13. f = d \o e \o p \o g
  BY <1>2, <1>5, <1>6, <1>8, <1>10, <1>11, <1>12 DEF AccountDeletes
<1>14. e \in Seq(Statement) /\ Len(e) = 2 /\ g \in Seq(Statement) /\ Len(g) = 2
  BY <1>4, <1>10, <1>12 DEF Statement, Tables, Parents
<1>15. p \in Seq(Statement) /\ Len(p) = n
  <2>1. ASSUME NEW k \in 1..n PROVE [table |-> "profiles", owner |-> ids[k]] \in Statement
    BY <1>3, <1>4, <1>5 DEF Statement, Parents, People
  <2>2. p \in [1..n -> Statement]
    BY <1>11, <2>1
  <2>3. QED BY <2>2
<1>16. PICK c : c = Len(d)
  OBVIOUS
<1>16a. InParts(f, d, e, p, g, c, n)
  BY <1>9, <1>13, <1>14, <1>15, <1>16, FourParts
<1>17. /\ f \in Seq(Statement) /\ c \in Nat /\ Len(f) = c + n + 4
       /\ \A i \in 1..c : f[i] = d[i]
       /\ f[c + 1] = e[1] /\ f[c + 2] = e[2]
       /\ \A k \in 1..n : f[c + 2 + k] = p[k]
       /\ f[c + n + 3] = g[1] /\ f[c + n + 4] = g[2]
  BY <1>16a DEF InParts
<1>18. /\ f[c + 1] = [table |-> "tokens", owner |-> u]
       /\ f[c + 2] = [table |-> "bindings", owner |-> u]
       /\ \A k \in 1..n : f[c + 2 + k] = [table |-> "profiles", owner |-> ids[k]]
       /\ f[c + n + 3] = [table |-> "credentials", owner |-> u]
       /\ f[c + n + 4] = [table |-> "users", owner |-> u]
  BY <1>10, <1>11, <1>12, <1>17
<1>19. \A i \in 1..Len(f) :
         \/ i \in 1..c \/ i = c + 1 \/ i = c + 2 \/ i = c + n + 3 \/ i = c + n + 4
         \/ \E k \in 1..n : i = c + 2 + k
  <2>1. ASSUME NEW i \in 1..Len(f), i > c + 2, i < c + n + 3
        PROVE  \E k \in 1..n : i = c + 2 + k
    <3>1. i - (c + 2) \in 1..n /\ i = c + 2 + (i - (c + 2))
      BY <1>17, <2>1
    <3>2. QED BY <3>1
  <2>2. c \in Nat /\ n \in Nat /\ Len(f) = c + n + 4
    BY <1>17
  <2>3. ASSUME NEW i \in 1..Len(f)
        PROVE  i \in 1..c \/ i = c + 1 \/ i = c + 2 \/ i = c + n + 3 \/ i = c + n + 4
               \/ (i > c + 2 /\ i < c + n + 3)
    BY <2>2
  <2>4. QED BY <2>1, <2>3, Zenon
<1>20. /\ Len(f) \in Nat /\ c + n + 4 = Len(f)
       /\ c + 1 \in 1..Len(f) - 1 /\ c + 2 \in 1..Len(f) - 1 /\ c + n + 3 \in 1..Len(f) - 1
       /\ \A k \in 1..c : k \in 1..Len(f) - 1
       /\ \A k \in 1..n : c + 2 + k \in 1..Len(f) - 1
  BY <1>17
(* Whose the deletes are. *)
<1>21. ASSUME NEW i \in 1..c PROVE f[i].table \in Purged /\ f[i].owner \in {u} \cup B
  <2>0. i \in 1..Len(d)
    BY <1>16
  <2>1. d[i].table \in Purged /\ \E j \in 1..Len(owners) : d[i].owner = owners[j]
    BY <1>7, <1>8, <2>0, DeletesAre, SMTT(30)
  <2>2. PICK j \in 1..n + 1 : d[i].owner = owners[j]
    BY <1>7, <2>1
  <2>3. owners[j] \in {u} \cup B
    <3>1. CASE j = 1
      BY <1>7, <3>1
    <3>2. CASE j # 1
      <4>1. j - 1 \in 1..n /\ (j - 1) + 1 = j
        BY <1>5, <3>2
      <4>2. owners[j] = ids[j - 1]
        BY <1>7, <4>1
      <4>3. QED BY <1>3, <1>5, <4>1, <4>2
    <3>3. QED BY <3>1, <3>2
  <2>4. QED BY <1>17, <2>1, <2>2, <2>3
<1>22. ASSUME NEW T \in Purged, NEW o \in {u} \cup B
       PROVE  \E k \in 1..c : Pair(f[k]) = <<T, o>>
  <2>1. \E j \in 1..Len(owners) : owners[j] = o
    <3>1. CASE o = u
      BY <1>5, <1>7, <3>1
    <3>2. CASE o \in B
      <4>1. PICK k \in 1..n : ids[k] = o
        BY <1>3, <1>5, <3>2
      <4>2. k + 1 \in 1..Len(owners) /\ owners[k + 1] = o
        BY <1>5, <1>7, <4>1
      <4>3. QED BY <4>2
    <3>3. QED BY <3>1, <3>2
  <2>2. PICK j \in 1..Len(owners) : owners[j] = o
    BY <2>1
  <2>3a. Has(d, Len(d), <<T, owners[j]>>)
    BY <1>7, <1>8, DeletesCover
  <2>3. PICK k \in 1..Len(d) : Pair(d[k]) = <<T, owners[j]>>
    BY <2>3a DEF Has
  <2>4. k \in 1..c /\ f[k] = d[k]
    BY <1>16, <1>17
  <2>5. QED BY <2>2, <2>3, <2>4
<1>23. RowsWith(u, B) = (Purged \X ({u} \cup B))
         \cup ({"tokens", "credentials", "bindings", "users"} \X {u}) \cup ({"profiles"} \X B)
  BY DEF RowsWith
<1>24. ASSUME NEW i \in 1..Len(f) PROVE Pair(f[i]) \in RowsWith(u, B)
  <2>1. CASE i \in 1..c
    BY <1>21, <1>23, <2>1 DEF Pair
  <2>2. CASE i \in {c + 1, c + 2, c + n + 3, c + n + 4}
    BY <1>18, <1>23, <2>2 DEF Pair
  <2>3. ASSUME NEW k \in 1..n, i = c + 2 + k PROVE Pair(f[i]) \in RowsWith(u, B)
    <3>1. ids[k] \in B
      BY <1>3, <1>5
    <3>2. f[i] = [table |-> "profiles", owner |-> ids[k]]
      BY <1>18, <2>3
    <3>3. QED BY <1>23, <3>1, <3>2 DEF Pair
  <2>4. QED BY <1>19, <2>1, <2>2, <2>3
<1>25. ASSUME NEW x \in RowsWith(u, B), x # <<"users", u>>
       PROVE  \E k \in 1..Len(f) - 1 : Pair(f[k]) = x
  <2>1. CASE x \in Purged \X ({u} \cup B)
    <3>1. PICK T \in Purged, o \in {u} \cup B : x = <<T, o>>
      BY <2>1
    <3>2. PICK k \in 1..c : Pair(f[k]) = x
      BY <1>22, <3>1
    <3>3. QED BY <1>20, <3>2
  <2>2. CASE x \in {"tokens", "credentials", "bindings"} \X {u}
    <3>1. CASE x = <<"tokens", u>>
      BY <1>18, <1>20, <3>1 DEF Pair
    <3>2. CASE x = <<"bindings", u>>
      BY <1>18, <1>20, <3>2 DEF Pair
    <3>3. CASE x = <<"credentials", u>>
      BY <1>18, <1>20, <3>3 DEF Pair
    <3>4. QED BY <2>2, <3>1, <3>2, <3>3
  <2>3. CASE x \in {"profiles"} \X B
    <3>1. PICK a \in B : x = <<"profiles", a>>
      BY <2>3
    <3>2. PICK k \in 1..n : ids[k] = a
      BY <1>3, <1>5
    <3>3. f[c + 2 + k] = [table |-> "profiles", owner |-> a] /\ c + 2 + k \in 1..Len(f) - 1
      BY <1>18, <1>20, <3>2
    <3>4. QED BY <3>1, <3>3 DEF Pair
  <2>4. QED BY <1>23, <1>25, <2>1, <2>2, <2>3
(* And that they come in order. *)
<1>26. ASSUME NEW i \in 1..Len(f), NEW x \in Before(f[i], u, B)
       PROVE  Has(f, i - 1, x)
  <2>0. x \in RowsWith(u, B)
    BY DEF Before
  <2>1. CASE i \in 1..c
    <3>1. i \in 1..Len(d) /\ x \in Before(d[i], u, B)
      BY <1>16, <1>17, <2>1
    <3>1a. owners # << >> /\ u = owners[1]
      BY <1>5, <1>7
    <3>1b. Has(d, i - 1, x)
      BY <1>7, <1>8, <3>1, <3>1a, DeletesInOrder
    <3>2. PICK k \in 1..i - 1 : Pair(d[k]) = x
      BY <3>1b DEF Has
    <3>3. f[k] = d[k]
      BY <1>17, <2>1
    <3>4. QED BY <3>2, <3>3 DEF Has
  <2>2. CASE i \in {c + 1, c + 2, c + n + 3}
    <3>1. f[i].table \in {"tokens", "bindings", "credentials"}
      BY <1>18, <2>2
    <3>2. QED BY <3>1 DEF Before
  <2>3. ASSUME NEW j \in 1..n, i = c + 2 + j PROVE Has(f, i - 1, x)
    <3>1. f[i] = [table |-> "profiles", owner |-> ids[j]] /\ ids[j] \in B
      BY <1>3, <1>5, <1>18, <2>3, SMTT(30)
    <3>2. x \in Purged \X {ids[j]} \/ x = <<"bindings", u>>
      BY <3>1 DEF Before
    <3>3. CASE x \in Purged \X {ids[j]}
      <4>1. PICK k \in 1..c : Pair(f[k]) = x
        BY <1>22, <3>1, <3>3
      <4>2. k \in 1..i - 1
        BY <1>17, <2>3
      <4>3. QED BY <4>1, <4>2 DEF Has
    <3>4. CASE x = <<"bindings", u>>
      <4>1. c + 2 \in 1..i - 1
        BY <1>17, <2>3
      <4>2. QED BY <1>18, <3>4, <4>1 DEF Pair, Has
    <3>5. QED BY <3>2, <3>3, <3>4
  <2>4. CASE i = c + n + 4
    <3>1. x # <<"users", u>>
      BY <1>18, <2>4 DEF Before, Pair
    <3>2. i = Len(f)
      BY <1>20, <2>4
    <3>3. QED BY <1>25, <2>0, <3>1, <3>2 DEF Has
  <2>5. QED BY <1>19, <2>1, <2>2, <2>3, <2>4
<1>27. /\ f \in Seq(Statement) /\ f # << >> /\ f[Len(f)] = Final(u)
       /\ {} \subseteq RowsWith(u, B)
  <2>1. f # << >>
    BY <1>17, <1>20
  <2>2. f[Len(f)] = Final(u)
    BY <1>18, <1>20 DEF Final
  <2>3. QED BY <1>17, <2>1, <2>2
<1>28. InOrder(f, {}, u, B)
  BY <1>26 DEF InOrder
<1>29. QED
  BY <1>1, <1>24, <1>27, <1>28 DEF RunFits

(* So do those of a dormant profile, to which nobody is bound.             *)
LEMMA ProfileDeletesFit ==
  ASSUME NEW a \in Anons, NEW f, f = ProfileDeletes(a)
  PROVE  RunFits(f, {}, a, {})
<1>1. a \in People /\ a \notin Members
  BY ErasureAssumption DEF People
<1>2. PICK owners : owners = <<a>>
  OBVIOUS
<1>3. owners \in Seq(People) /\ owners # << >> /\ a = owners[1] /\ Len(owners) = 1
  BY <1>1, <1>2
<1>4. PICK d : d = DeletesOf(owners)
  OBVIOUS
<1>5. RunsThrough(d, owners)
  BY <1>3, <1>4, DeletesOfEach
<1>6. d \in Seq(Statement) /\ Len(d) = 7
  BY <1>3, <1>5 DEF RunsThrough
<1>7. PICK last : last = [table |-> "profiles", owner |-> a]
  OBVIOUS
<1>8. last \in Statement
  BY <1>1, <1>7 DEF Statement, Parents
<1>9. PICK e : e = <<last>>
  OBVIOUS
<1>9a. e \in Seq(Statement) /\ Len(e) = 1 /\ e[1] = last
  BY <1>8, <1>9
<1>9b. f = d \o e
  BY <1>2, <1>4, <1>7, <1>9 DEF ProfileDeletes
<1>10. Follows(f, d, e)
  BY <1>6, <1>9a, <1>9b, Concatenated
<1>11. /\ f \in Seq(Statement) /\ Len(f) = 8 /\ f[8] = last
       /\ \A i \in 1..7 : f[i] = d[i]
  BY <1>6, <1>9a, <1>10 DEF Follows
<1>12. RowsWith(a, {}) = (Purged \cup {"profiles"}) \X {a}
  BY <1>1 DEF RowsWith
<1>13. ASSUME NEW i \in 1..8 PROVE i \in 1..7 \/ i = 8
  OBVIOUS
<1>14. ASSUME NEW i \in 1..7 PROVE f[i].table \in Purged /\ f[i].owner = a
  <2>1. d[i].table \in Purged /\ \E j \in 1..Len(owners) : d[i].owner = owners[j]
    <3>1. i \in 1..Len(d)
      BY <1>6
    <3>2. QED BY <1>3, <1>4, <3>1, DeletesAre
  <2>2. d[i].owner = a
    BY <1>3, <2>1
  <2>3. QED BY <1>11, <2>1, <2>2
<1>15. ASSUME NEW i \in 1..8 PROVE Pair(f[i]) \in RowsWith(a, {})
  BY <1>7, <1>11, <1>12, <1>13, <1>14 DEF Pair
<1>16. ASSUME NEW i \in 1..8, NEW x \in Before(f[i], a, {}) PROVE Has(f, i - 1, x)
  <2>0. x \in RowsWith(a, {})
    BY DEF Before
  <2>1. CASE i \in 1..7
    <3>1. i \in 1..Len(d) /\ x \in Before(d[i], a, {})
      BY <1>6, <1>11, <2>1
    <3>2. Has(d, i - 1, x)
      BY <1>3, <1>4, <3>1, DeletesInOrder
    <3>3. PICK k \in 1..i - 1 : Pair(d[k]) = x
      BY <3>2 DEF Has
    <3>4. f[k] = d[k]
      BY <1>11, <2>1
    <3>5. QED BY <3>3, <3>4 DEF Has
  <2>2. CASE i = 8
    <3>1. f[i] = [table |-> "profiles", owner |-> a]
      BY <1>7, <1>11, <2>2
    <3>2. x \in Purged \X {a} \/ x = <<"bindings", a>>
      BY <3>1 DEF Before
    <3>3. PICK T \in Purged : x = <<T, a>>
      BY <1>12, <2>0, <3>2
    <3>4. Has(d, Len(d), <<T, owners[1]>>)
      BY <1>3, <1>4, DeletesCover
    <3>5. PICK k \in 1..7 : Pair(d[k]) = x
      BY <1>3, <1>6, <3>3, <3>4 DEF Has
    <3>6. k \in 1..i - 1 /\ f[k] = d[k]
      BY <1>11, <2>2
    <3>7. QED BY <3>5, <3>6 DEF Has
  <2>3. QED BY <1>13, <2>1, <2>2
<1>17. f # << >> /\ f[Len(f)] = Final(a) /\ {} \subseteq RowsWith(a, {})
  <2>1. ASSUME f = << >> PROVE FALSE
    BY <1>11, <2>1
  <2>2. f[Len(f)] = Final(a)
    BY <1>1, <1>7, <1>11 DEF Final
  <2>3. QED BY <2>1, <2>2
<1>18. InOrder(f, {}, a, {})
  BY <1>11, <1>16 DEF InOrder
<1>19. QED
  BY <1>11, <1>15, <1>17, <1>18 DEF RunFits

(* After a statement the rest still fits.                                  *)
LEMMA TailFits ==
  ASSUME NEW t, NEW B, NEW run, NEW gone, RunFits(run, gone, t, B), Len(run) > 1
  PROVE  /\ RunFits(Tail(run), gone \cup {Pair(Head(run))}, t, B)
         /\ Last(Tail(run)) = Last(run)
<1>1. PICK n \in Nat : n = Len(run) /\ n > 1
  BY DEF RunFits
<1>2. PICK rest : rest = Tail(run)
  OBVIOUS
<1>3. PICK left : left = gone \cup {Pair(Head(run))}
  OBVIOUS
<1>4. /\ run \in Seq(Statement) /\ run[n] = Final(t) /\ gone \subseteq RowsWith(t, B)
      /\ \A i \in 1..n : Pair(run[i]) \in RowsWith(t, B)
  BY <1>1 DEF RunFits
<1>5. \A i \in 1..n : \A x \in Before(run[i], t, B) : x \in gone \/ Has(run, i - 1, x)
  BY <1>1 DEF RunFits, InOrder
<1>6. rest \in Seq(Statement) /\ Len(rest) = n - 1 /\ \A i \in 1..n - 1 : rest[i] = run[i + 1]
  BY <1>1, <1>2, <1>4
<1>7. Head(run) = run[1] /\ run # << >>
  BY <1>1, <1>4
<1>8. left \subseteq RowsWith(t, B)
  BY <1>1, <1>3, <1>4, <1>7
<1>9. ASSUME NEW i \in 1..n - 1 PROVE Pair(rest[i]) \in RowsWith(t, B)
  <2>1. i + 1 \in 1..n
    BY <1>1
  <2>2. QED BY <1>4, <1>6, <2>1
<1>10. ASSUME NEW i \in 1..n - 1, NEW x \in Before(rest[i], t, B)
       PROVE  x \in left \/ Has(rest, i - 1, x)
  <2>1. i + 1 \in 1..n /\ x \in Before(run[i + 1], t, B) /\ (i + 1) - 1 = i
    BY <1>1, <1>6
  <2>2. x \in gone \/ Has(run, i, x)
    BY <1>5, <2>1
  <2>3. ASSUME Has(run, i, x) PROVE x \in left \/ Has(rest, i - 1, x)
    <3>1. PICK k \in 1..i : Pair(run[k]) = x
      BY <2>3 DEF Has
    <3>2. CASE k = 1
      BY <1>3, <1>7, <3>1, <3>2
    <3>3. CASE k # 1
      <4>1. PICK m \in 1..i - 1 : k = m + 1
        <5>1. k - 1 \in 1..i - 1 /\ k = (k - 1) + 1
          BY <1>1, <3>3
        <5>2. QED BY <5>1
      <4>2. m \in 1..n - 1
        BY <1>1
      <4>3. rest[m] = run[k]
        BY <1>6, <4>1, <4>2
      <4>4. QED BY <3>1, <4>1, <4>3 DEF Has
    <3>4. QED BY <3>2, <3>3
  <2>4. QED BY <1>3, <2>2, <2>3
<1>11. rest # << >> /\ rest[Len(rest)] = Final(t)
  <2>1. n - 1 \in 1..n - 1 /\ (n - 1) + 1 = n
    BY <1>1
  <2>2. QED BY <1>4, <1>6, <2>1
<1>12. Last(rest) = Last(run)
  BY <1>1, <1>4, <1>11 DEF Last
<1>13. InOrder(rest, left, t, B)
  BY <1>6, <1>10 DEF InOrder
<1>14. RunFits(rest, left, t, B)
  BY <1>6, <1>8, <1>9, <1>11, <1>13 DEF RunFits
<1>15. QED BY <1>2, <1>3, <1>12, <1>14

(* What the next statement waits for is gone.                              *)
LEMMA FirstFits ==
  ASSUME NEW t, NEW B, NEW run, NEW gone, RunFits(run, gone, t, B)
  PROVE  /\ Head(run) \in Statement /\ Pair(Head(run)) \in RowsWith(t, B)
         /\ Before(Head(run), t, B) \subseteq gone
<1>1. /\ run \in Seq(Statement) /\ run # << >>
      /\ \A i \in 1..Len(run) : Pair(run[i]) \in RowsWith(t, B)
      /\ \A i \in 1..Len(run) : \A x \in Before(run[i], t, B) : x \in gone \/ Has(run, i - 1, x)
  BY DEF RunFits, InOrder
<1>2. Head(run) = run[1] /\ 1 \in 1..Len(run) /\ run[1] \in Statement
  BY <1>1
<1>3. ASSUME NEW x PROVE ~Has(run, 1 - 1, x)
  BY DEF Has
<1>4. QED BY <1>1, <1>2, <1>3

LEMMA NotRefused ==
  ASSUME ErasureInv, NEW j \in Jobs, job[j].run # << >>
  PROVE  ~Refused(j)
<1>1. PICK t, B, s, gone : t = Target(j) /\ B = BoundTo(t) /\ s = Next0(j) /\ gone = job[j].gone
  OBVIOUS
<1>2. t \in People /\ Claimable(t) /\ RunFits(job[j].run, gone, t, B)
  BY <1>1 DEF ErasureInv, JobFits
<1>3. s \in Statement /\ Pair(s) \in RowsWith(t, B) /\ Before(s, t, B) \subseteq gone
  BY <1>1, <1>2, FirstFits DEF Next0
<1>4. PICK T, o : T = s.table /\ o = s.owner
  OBVIOUS
<1>5. T \in Tables \cup Parents /\ o \in People /\ <<T, o>> \in RowsWith(t, B)
  BY <1>3, <1>4 DEF Statement, Pair
<1>6. /\ bindings \in [Anons -> Members \cup {Nobody}] /\ rows \subseteq Tables \X People
      /\ \A row \in rows : row[1] \in {"tokens", "credentials"} => row[2] \in Members
  BY DEF ErasureInv, ErasureTypes, RowsFit
<1>7. B \subseteq Anons /\ Members \cap Anons = {} /\ Nobody \notin People
  BY <1>1, ErasureAssumption, NobodyAssumption DEF BoundTo, People
<1>8. CASE t \in Members
  <2>1. /\ \A a \in B : bindings[a] = t
        /\ RowsWith(t, B) = (Purged \X ({t} \cup B))
             \cup ({"tokens", "credentials", "bindings", "users"} \X {t}) \cup ({"profiles"} \X B)
    BY <1>1, <1>8 DEF BoundTo, RowsWith
  <2>2. ASSUME NEW row \in rows, row \notin gone, RefersTo(row, s) PROVE FALSE
    <3>1. PICK R \in Tables, P \in People : row = <<R, P>>
      BY <1>6
    <3>2. /\ row[1] = R /\ row[2] = P
          /\ R \in Purged \cup {"tokens", "credentials"}
          /\ R \in {"tokens", "credentials"} => P \in Members
      BY <1>6, <3>1 DEF Tables, Purged
    <3>3. row \notin Before(s, t, B)
      BY <1>3, <2>2
    <3>4. ASSUME T = "sessions", row = <<"attempts", o>> PROVE FALSE
      <4>1. row \in RowsWith(t, B)
        BY <1>5, <1>7, <1>8, <2>1, <3>4 DEF Purged
      <4>2. QED BY <1>4, <3>3, <3>4, <4>1 DEF Before
    <3>5. ASSUME T = "events", R \in {"words", "phonemes"},
                 P = o \/ (o \in Anons /\ bindings[o] = P)
          PROVE  FALSE
      <4>1. o \in {t} \cup B
        BY <1>5, <2>1, <3>5
      <4>2. P \in {o, t}
        BY <1>7, <1>8, <2>1, <3>5, <4>1
      <4>3. row \in RowsWith(t, B) /\ row \in {"words", "phonemes"} \X {o, t}
        BY <2>1, <3>1, <3>5, <4>1, <4>2 DEF Purged
      <4>4. QED BY <1>4, <3>3, <3>5, <4>3 DEF Before
    <3>6. ASSUME T = "users", P = o PROVE FALSE
      <4>1. o = t
        BY <1>5, <2>1, <3>6 DEF Purged
      <4>2. row \in RowsWith(t, B) /\ row # Pair(s)
        BY <1>4, <2>1, <3>1, <3>2, <3>6, <4>1 DEF Purged, Pair
      <4>3. QED BY <1>4, <3>3, <3>6, <4>2 DEF Before
    <3>7. ASSUME T = "profiles", P = o PROVE FALSE
      <4>1. o \in B /\ o \notin Members
        BY <1>5, <1>7, <2>1, <3>7 DEF Purged
      <4>2. R \in Purged
        BY <3>2, <3>7, <4>1
      <4>3. row \in RowsWith(t, B) /\ row \in Purged \X {o}
        BY <2>1, <3>1, <3>7, <4>1, <4>2
      <4>4. QED BY <1>4, <3>3, <3>7, <4>3 DEF Before
    <3>8. QED BY <1>4, <2>2, <3>2, <3>4, <3>5, <3>6, <3>7 DEF RefersTo
  <2>3. ASSUME StillBound(j, s) PROVE FALSE
    <3>1. PICK a \in Anons : /\ bindings[a] # Nobody /\ o \in {a, bindings[a]}
                             /\ <<"bindings", bindings[a]>> \notin gone
      BY <1>1, <1>4, <2>3 DEF StillBound
    <3>2. T \in {"users", "profiles"} /\ bindings[a] \in Members
      BY <1>4, <1>6, <2>3, <3>1 DEF StillBound
    <3>3. bindings[a] = t
      <4>1. CASE T = "users"
        BY <1>5, <1>7, <1>8, <2>1, <3>1, <4>1 DEF Purged
      <4>2. CASE T = "profiles"
        BY <1>5, <1>7, <2>1, <3>1, <3>2, <4>2 DEF Purged
      <4>3. QED BY <3>2, <4>1, <4>2
    <3>4. <<"bindings", t>> \in RowsWith(t, B) /\ <<"bindings", t>> # Pair(s)
      BY <1>4, <2>1, <3>2 DEF Pair
    <3>5. <<"bindings", t>> \in Before(s, t, B)
      BY <1>4, <3>2, <3>4 DEF Before
    <3>6. QED BY <1>3, <3>1, <3>3, <3>5
  <2>4. QED BY <1>1, <2>2, <2>3 DEF Refused, Remaining
<1>9. CASE t \in Anons
  <2>1. bindings[t] = Nobody /\ RowsWith(t, B) = (Purged \cup {"profiles"}) \X {t}
    BY <1>2, <1>7, <1>9 DEF Claimable, Dormant, RowsWith
  <2>2. ASSUME NEW row \in rows, row \notin gone, RefersTo(row, s) PROVE FALSE
    <3>1. PICK R \in Tables, P \in People : row = <<R, P>>
      BY <1>6
    <3>2. /\ row[1] = R /\ row[2] = P
          /\ R \in Purged \cup {"tokens", "credentials"}
          /\ R \in {"tokens", "credentials"} => P \in Members
      BY <1>6, <3>1 DEF Tables, Purged
    <3>3. row \notin Before(s, t, B)
      BY <1>3, <2>2
    <3>4. o = t
      BY <1>5, <2>1
    <3>5. ASSUME T = "sessions", row = <<"attempts", o>> PROVE FALSE
      <4>1. row \in RowsWith(t, B)
        BY <2>1, <3>4, <3>5 DEF Purged
      <4>2. QED BY <1>4, <3>3, <3>5, <4>1 DEF Before
    <3>6. ASSUME T = "events", R \in {"words", "phonemes"},
                 P = o \/ (o \in Anons /\ bindings[o] = P)
          PROVE  FALSE
      <4>1. P = o
        BY <1>7, <2>1, <3>4, <3>6
      <4>2. row \in RowsWith(t, B) /\ row \in {"words", "phonemes"} \X {o, t}
        BY <2>1, <3>1, <3>4, <3>6, <4>1 DEF Purged
      <4>3. QED BY <1>4, <3>3, <3>6, <4>2 DEF Before
    <3>7. ASSUME T \in {"users", "profiles"}, P = o PROVE FALSE
      <4>1. T = "profiles" /\ R \in Purged
        BY <1>5, <1>7, <1>9, <2>1, <3>2, <3>4, <3>7 DEF Purged
      <4>2. row \in RowsWith(t, B) /\ row \in Purged \X {o}
        BY <2>1, <3>1, <3>4, <3>7, <4>1
      <4>3. QED BY <1>4, <3>3, <4>1, <4>2 DEF Before
    <3>8. QED BY <1>4, <2>2, <3>2, <3>5, <3>6, <3>7 DEF RefersTo
  <2>3. ASSUME StillBound(j, s) PROVE FALSE
    <3>1. PICK a \in Anons : /\ bindings[a] # Nobody /\ o \in {a, bindings[a]}
                             /\ <<"bindings", bindings[a]>> \notin gone
      BY <1>1, <1>4, <2>3 DEF StillBound
    <3>2. T \in {"users", "profiles"} /\ bindings[a] \in Members
      BY <1>4, <1>6, <2>3, <3>1 DEF StillBound
    <3>3. o = t
      BY <1>5, <2>1
    <3>4. QED BY <1>7, <1>9, <2>1, <3>1, <3>2, <3>3
  <2>4. QED BY <1>1, <2>2, <2>3 DEF Refused, Remaining
<1>10. QED BY <1>2, <1>8, <1>9 DEF People

(* What a step leaves alone of t, and of job j.                            *)
Untouched(t) ==
  /\ t \in Members => members'[t] = members[t]
  /\ t \in Anons => profiles'[t] = profiles[t] /\ bindings'[t] = bindings[t]
  /\ \A a \in Anons : (bindings'[a] = t) <=> (bindings[a] = t)

SameRun(j) == job'[j].run = job[j].run /\ job'[j].gone = job[j].gone

LEMMA FitsStays ==
  ASSUME NEW j \in Jobs, JobFits(j), SameRun(j),
         job[j].run # << >> => Untouched(Target(j))
  PROVE  JobFits(j)' /\ Target(j)' = Target(j)
<1>1. PICK run, gone, t : run = job[j].run /\ gone = job[j].gone /\ t = Target(j)
  OBVIOUS
<1>2. job'[j].run = run /\ job'[j].gone = gone /\ Target(j)' = t
  BY <1>1 DEF SameRun, Target
<1>3. CASE run = << >>
  BY <1>1, <1>2, <1>3 DEF JobFits
<1>4. CASE run # << >>
  <2>1. PICK B : B = BoundTo(t)
    OBVIOUS
  <2>2. t \in People /\ Claimable(t) /\ RunFits(run, gone, t, B) /\ Untouched(t)
    BY <1>1, <1>4, <2>1 DEF JobFits
  <2>3. {a \in Anons : bindings'[a] = t} = B
    BY <2>1, <2>2 DEF BoundTo, Untouched
  <2>4. t \in Members => members'[t] \in {"hard_delete_scheduled", "grace_over"}
    BY <2>2 DEF Claimable, Due, Untouched
  <2>5. t \notin Members => profiles'[t] = "idle" /\ bindings'[t] = Nobody
    BY <2>2 DEF Claimable, Dormant, Untouched, People
  <2>6. Claimable(Target(j))'
    BY <1>2, <2>4, <2>5 DEF Claimable, Due, Dormant
  <2>7. BoundTo(Target(j))' = B
    BY <1>2, <2>3 DEF BoundTo
  <2>8. /\ Target(j)' \in People /\ job'[j].run # << >>
        /\ RunFits(job'[j].run, job'[j].gone, Target(j)', B)
    BY <1>2, <1>4, <2>2
  <2>9. JobFits(j)'
    BY <2>6, <2>7, <2>8 DEF JobFits
  <2>10. QED BY <1>1, <1>2, <2>9
<1>5. QED BY <1>1, <1>2, <1>3, <1>4

(* A step of job j alone keeps the invariant if it keeps the types and what*)
(* the others erase, and j's own run fits.                                 *)
LEMMA JobStays ==
  ASSUME ErasureInv, ErasureTypes', RowsFit', NEW j \in Jobs,
         \A k \in Jobs \ {j} : SameRun(k) /\ (job[k].run # << >> => Untouched(Target(k))),
         JobFits(j)',
         job'[j].run # << >> =>
           \A k \in Jobs \ {j} : job[k].run # << >> => Target(k) # Last(job'[j].run).owner
  PROVE  ErasureInv'
<1>1. \A k \in Jobs : JobFits(k)
  BY DEF ErasureInv
<1>2. \A k \in Jobs \ {j} : JobFits(k)' /\ Target(k)' = Target(k)
  BY <1>1, FitsStays
<1>3. ASSUME NEW k \in Jobs, NEW l \in Jobs \ {k}, job'[k].run # << >>, job'[l].run # << >>
      PROVE  Target(k)' # Target(l)'
  <2>1. CASE k = j
    <3>1. job[l].run # << >> /\ Target(l)' = Target(l)
      BY <1>2, <1>3, <2>1 DEF SameRun
    <3>2. QED BY <1>3, <2>1, <3>1 DEF Target
  <2>2. CASE l = j
    <3>1. job[k].run # << >> /\ Target(k)' = Target(k)
      BY <1>2, <1>3, <2>2 DEF SameRun
    <3>2. QED BY <1>3, <2>2, <3>1 DEF Target
  <2>3. CASE k # j /\ l # j
    <3>1. job[k].run # << >> /\ Target(k)' = Target(k) /\ job[l].run # << >> /\ Target(l)' = Target(l)
      BY <1>2, <1>3, <2>3 DEF SameRun
    <3>2. QED BY <1>3, <3>1 DEF ErasureInv, Apart
  <2>4. QED BY <2>1, <2>2, <2>3
<1>4. Apart'
  BY <1>3 DEF Apart, Jobs
<1>5. \A k \in Jobs : JobFits(k)'
  BY <1>2
<1>6. QED
  BY <1>4, <1>5 DEF ErasureInv, Jobs

(* So does a step of anybody else that no job's subject is touched by.     *)
LEMMA OthersStay ==
  ASSUME ErasureInv, ErasureTypes', RowsFit',
         \A k \in Jobs : SameRun(k) /\ (job[k].run # << >> => Untouched(Target(k)))
  PROVE  ErasureInv'
<1>1. \A k \in Jobs : JobFits(k)
  BY DEF ErasureInv
<1>2. \A k \in Jobs : JobFits(k)' /\ Target(k)' = Target(k)
  BY <1>1, FitsStays
<1>3. ASSUME NEW k \in Jobs, NEW l \in Jobs \ {k}, job'[k].run # << >>, job'[l].run # << >>
      PROVE  Target(k)' # Target(l)'
  <2>1. job[k].run # << >> /\ Target(k)' = Target(k) /\ job[l].run # << >> /\ Target(l)' = Target(l)
    BY <1>2, <1>3 DEF SameRun
  <2>2. QED BY <1>3, <2>1 DEF ErasureInv, Apart
<1>4. Apart'
  BY <1>3 DEF Apart, Jobs
<1>5. QED
  BY <1>2, <1>4 DEF ErasureInv, Jobs

LEMMA LockedOut ==
  ASSUME NEW o, ~Locked(o)
  PROVE  \A k \in Jobs : job[k].run # << >> => Target(k) # o
BY DEF Locked, Target

LEMMA NothingTouched ==
  ASSUME UNCHANGED <<members, profiles, bindings>>
  PROVE  \A t : Untouched(t)
BY DEF Untouched

(* A step of a worker sets two fields of its record.                       *)
LEMMA SetTwice ==
  ASSUME NEW D, NEW W, NEW f \in [D -> W], NEW j \in D, NEW v \in W, NEW x \in W,
         NEW g, g = [[f EXCEPT ![j] = v] EXCEPT ![j] = x]
  PROVE  g \in [D -> W] /\ g[j] = x /\ \A k \in D \ {j} : g[k] = f[k]
OBVIOUS

(* The jobs.                                                               *)
LEMMA ListFits ==
  ASSUME ErasureInv, NEW j \in Jobs, List(j)
  PROVE  ErasureInv'
<1>1. /\ job \in [Jobs -> Worker] /\ job' = [job EXCEPT ![j].pc = "run", ![j].list = Found(j)]
      /\ UNCHANGED <<members, profiles, bindings, rows, failures, writes>>
  BY DEF ErasureInv, ErasureTypes, List
<1>2. Found(j) \subseteq People
  BY DEF Found, People
<1>3. job' \in [Jobs -> Worker] /\ \A k \in Jobs : SameRun(k)
  <2>1. PICK v, x : v = [job[j] EXCEPT !.pc = "run"] /\ x = [v EXCEPT !.list = Found(j)]
    OBVIOUS
  <2>2. job \in [Jobs -> Worker] /\ job[j] \in Worker
    BY <1>1
  <2>3. v \in Worker /\ x \in Worker /\ x.run = job[j].run /\ x.gone = job[j].gone
    BY <1>2, <2>1, <2>2 DEF Worker
  <2>4. [job EXCEPT ![j] = v][j] = v
    BY <1>1
  <2>5. job' = [[job EXCEPT ![j] = v] EXCEPT ![j] = [[job EXCEPT ![j] = v][j] EXCEPT !.list = Found(j)]]
    BY <1>1, <2>1, Zenon
  <2>6. job' = [[job EXCEPT ![j] = v] EXCEPT ![j] = x]
    BY <2>1, <2>4, <2>5, Zenon
  <2>7. job' \in [Jobs -> Worker] /\ job'[j] = x /\ \A k \in Jobs \ {j} : job'[k] = job[k]
    BY <2>2, <2>3, <2>6, SetTwice, Zenon
  <2>8. QED BY <2>3, <2>7 DEF SameRun
<1>4. ErasureTypes' /\ RowsFit'
  BY <1>1, <1>3 DEF ErasureInv, ErasureTypes, RowsFit
<1>5. \A t : Untouched(t)
  BY <1>1, NothingTouched
<1>6. QED
  BY <1>3, <1>4, <1>5, OthersStay

LEMMA EndRunFits ==
  ASSUME ErasureInv, NEW j \in Jobs, EndRun(j)
  PROVE  ErasureInv'
<1>1. /\ job \in [Jobs -> Worker] /\ job' = [job EXCEPT ![j].pc = "idle"]
      /\ UNCHANGED <<members, profiles, bindings, rows, failures, writes>>
  BY DEF ErasureInv, ErasureTypes, EndRun
<1>2. job' \in [Jobs -> Worker] /\ \A k \in Jobs : SameRun(k)
  BY <1>1 DEF Worker, SameRun
<1>3. ErasureTypes' /\ RowsFit'
  BY <1>1, <1>2 DEF ErasureInv, ErasureTypes, RowsFit
<1>4. \A t : Untouched(t)
  BY <1>1, NothingTouched
<1>5. QED
  BY <1>2, <1>3, <1>4, OthersStay

LEMMA RollBackFits ==
  ASSUME ErasureInv, NEW j \in Jobs, RollBack(j)
  PROVE  ErasureInv'
<1>1. PICK w : w = [pc |-> "idle", list |-> {}, run |-> << >>, gone |-> {}]
  OBVIOUS
<1>2. /\ job \in [Jobs -> Worker] /\ job' = [job EXCEPT ![j] = w]
      /\ UNCHANGED <<members, profiles, bindings, rows, writes>>
  BY <1>1 DEF ErasureInv, ErasureTypes, RollBack
<1>3. failures' \in 0..MaxFailures
  BY ErasureAssumption DEF ErasureInv, ErasureTypes, RollBack
<1>4. w \in Worker /\ w.run = << >> /\ w.gone = {}
  BY <1>1 DEF Worker
<1>5. job' \in [Jobs -> Worker] /\ job'[j] = w /\ \A k \in Jobs \ {j} : SameRun(k)
  BY <1>2, <1>4 DEF SameRun
<1>6. ErasureTypes' /\ RowsFit'
  BY <1>2, <1>3, <1>5 DEF ErasureInv, ErasureTypes, RowsFit
<1>7. \A t : Untouched(t)
  BY <1>2, NothingTouched
<1>8. JobFits(j)'
  BY <1>4, <1>5 DEF JobFits
<1>9. QED
  BY <1>4, <1>5, <1>6, <1>7, <1>8, JobStays

LEMMA DeletesFits ==
  ASSUME ErasureInv, NEW j \in Jobs, Deletes(j)
  PROVE  ErasureInv'
<1>1. PICK run, gone, t : run = job[j].run /\ gone = job[j].gone /\ t = Target(j)
  OBVIOUS
<1>2. PICK rest, left : rest = Tail(run) /\ left = gone \cup {Pair(Head(run))}
  OBVIOUS
<1>3. /\ job \in [Jobs -> Worker] /\ job' = [job EXCEPT ![j].run = rest, ![j].gone = left]
      /\ UNCHANGED <<members, profiles, bindings, rows, failures, writes>> /\ Len(run) > 1
  BY <1>1, <1>2 DEF ErasureInv, ErasureTypes, Deletes, Next0, Pair
<1>4. run \in Seq(Statement) /\ gone \subseteq (Tables \cup Parents) \X People /\ run # << >>
  BY <1>1, <1>3 DEF Worker
<1>5. PICK B : B = BoundTo(t)
  OBVIOUS
<1>6. t \in People /\ Claimable(t) /\ RunFits(run, gone, t, B)
  BY <1>1, <1>4, <1>5 DEF ErasureInv, JobFits
<1>7. RunFits(rest, left, t, B) /\ Last(rest) = Last(run)
  BY <1>2, <1>3, <1>6, TailFits
<1>8. rest \in Seq(Statement) /\ rest # << >>
  BY <1>7 DEF RunFits
<1>9. Head(run) \in Statement
  BY <1>4
<1>10. left \subseteq (Tables \cup Parents) \X People
  BY <1>2, <1>4, <1>9 DEF Statement, Pair
<1>11. /\ job' \in [Jobs -> Worker] /\ job'[j].run = rest /\ job'[j].gone = left
       /\ \A k \in Jobs \ {j} : SameRun(k)
  <2>1. PICK v, x : v = [job[j] EXCEPT !.run = rest] /\ x = [v EXCEPT !.gone = left]
    OBVIOUS
  <2>2. job \in [Jobs -> Worker] /\ job[j] \in Worker
    BY <1>3
  <2>3. v \in Worker /\ x \in Worker /\ x.run = rest /\ x.gone = left
    BY <1>8, <1>10, <2>1, <2>2 DEF Worker
  <2>4. [job EXCEPT ![j] = v][j] = v
    BY <1>3
  <2>5. job' = [[job EXCEPT ![j] = v] EXCEPT ![j] = [[job EXCEPT ![j] = v][j] EXCEPT !.gone = left]]
    BY <1>3, <2>1, Zenon
  <2>6. job' = [[job EXCEPT ![j] = v] EXCEPT ![j] = x]
    BY <2>1, <2>4, <2>5, Zenon
  <2>7. job' \in [Jobs -> Worker] /\ job'[j] = x /\ \A k \in Jobs \ {j} : job'[k] = job[k]
    BY <2>2, <2>3, <2>6, SetTwice, Zenon
  <2>8. QED BY <2>3, <2>7 DEF SameRun
<1>12. ErasureTypes' /\ RowsFit'
  BY <1>3, <1>11 DEF ErasureInv, ErasureTypes, RowsFit
<1>13. \A o : Untouched(o)
  BY <1>3, NothingTouched
<1>14. Target(j)' = t /\ Last(job'[j].run).owner = t
  BY <1>1, <1>7, <1>11 DEF Target
<1>15. Claimable(Target(j))' /\ BoundTo(Target(j))' = B
  BY <1>3, <1>5, <1>6, <1>14 DEF Claimable, Due, Dormant, BoundTo
<1>16. JobFits(j)'
  BY <1>6, <1>7, <1>8, <1>11, <1>14, <1>15 DEF JobFits
<1>17. \A k \in Jobs \ {j} : job[k].run # << >> => Target(k) # t
  BY <1>1, <1>4 DEF ErasureInv, Apart
<1>18. QED
  BY <1>11, <1>12, <1>13, <1>14, <1>16, <1>17, JobStays

LEMMA ClaimFits ==
  ASSUME ErasureInv, NEW j \in Jobs, NEW o \in People, Claim(j, o)
  PROVE  ErasureInv'
<1>1. PICK run, list, B :
        /\ run = IF ~Claimable(o) THEN << >>
                 ELSE IF o \in Members THEN AccountDeletes(o) ELSE ProfileDeletes(o)
        /\ list = job[j].list \ {o} /\ B = BoundTo(o)
  OBVIOUS
<1>2. /\ job \in [Jobs -> Worker] /\ job' = [job EXCEPT ![j].list = list, ![j].run = run]
      /\ UNCHANGED <<members, profiles, bindings, rows, failures, writes>>
      /\ job[j].run = << >> /\ ~Locked(o)
  BY <1>1 DEF ErasureInv, ErasureTypes, Claim
<1>3. job[j].gone = {}
  BY <1>2 DEF ErasureInv, JobFits
<1>4. ASSUME Claimable(o) PROVE RunFits(run, {}, o, B)
  <2>1. CASE o \in Members
    <3>1. run = AccountDeletes(o) /\ ErasureTypes
      BY <1>1, <1>4, <2>1 DEF ErasureInv
    <3>2. QED BY <1>1, <2>1, <3>1, AccountDeletesFit
  <2>2. CASE o \notin Members
    <3>1. run = ProfileDeletes(o) /\ o \in Anons
      BY <1>1, <1>4, <2>2 DEF People
    <3>2. B = {}
      BY <1>1, <2>2, <3>1, NobodyAssumption DEF BoundTo, ErasureInv, ErasureTypes
    <3>3. QED BY <3>1, <3>2, ProfileDeletesFit
  <2>3. QED BY <2>1, <2>2
<1>5. run \in Seq(Statement) /\ (run # << >> => Claimable(o) /\ Last(run).owner = o)
  <2>1. CASE Claimable(o)
    <3>1. run \in Seq(Statement) /\ run # << >> /\ run[Len(run)] = Final(o)
      BY <1>4, <2>1 DEF RunFits
    <3>2. Last(run).owner = o
      BY <3>1 DEF Last, Final
    <3>3. QED BY <2>1, <3>1, <3>2
  <2>2. CASE ~Claimable(o)
    BY <1>1, <2>2
  <2>3. QED BY <2>1, <2>2
<1>6. /\ job' \in [Jobs -> Worker] /\ job'[j].run = run /\ job'[j].gone = {}
      /\ \A k \in Jobs \ {j} : SameRun(k)
  <2>0. list \subseteq People /\ run \in Seq(Statement)
    BY <1>1, <1>2, <1>5 DEF Worker
  <2>1. PICK v, x : v = [job[j] EXCEPT !.list = list] /\ x = [v EXCEPT !.run = run]
    OBVIOUS
  <2>2. job \in [Jobs -> Worker] /\ job[j] \in Worker
    BY <1>2
  <2>3. v \in Worker /\ x \in Worker /\ x.run = run /\ x.gone = job[j].gone
    BY <2>0, <2>1, <2>2 DEF Worker
  <2>4. [job EXCEPT ![j] = v][j] = v
    BY <1>2
  <2>5. job' = [[job EXCEPT ![j] = v] EXCEPT ![j] = [[job EXCEPT ![j] = v][j] EXCEPT !.run = run]]
    BY <1>2, <2>1, Zenon
  <2>6. job' = [[job EXCEPT ![j] = v] EXCEPT ![j] = x]
    BY <2>1, <2>4, <2>5, Zenon
  <2>7. job' \in [Jobs -> Worker] /\ job'[j] = x /\ \A k \in Jobs \ {j} : job'[k] = job[k]
    BY <2>2, <2>3, <2>6, SetTwice, Zenon
  <2>8. QED BY <1>3, <2>3, <2>7 DEF SameRun
<1>7. ErasureTypes' /\ RowsFit'
  BY <1>2, <1>6 DEF ErasureInv, ErasureTypes, RowsFit
<1>8. \A t : Untouched(t)
  BY <1>2, NothingTouched
<1>9. JobFits(j)'
  <2>1. CASE run = << >>
    BY <1>6, <2>1 DEF JobFits
  <2>2. CASE run # << >>
    <3>1. Target(j)' = o
      BY <1>5, <1>6, <2>2 DEF Target
    <3>2. Claimable(Target(j))' /\ BoundTo(Target(j))' = B
      BY <1>1, <1>2, <1>5, <2>2, <3>1 DEF Claimable, Due, Dormant, BoundTo
    <3>3. QED BY <1>4, <1>5, <1>6, <2>2, <3>1, <3>2 DEF JobFits
  <2>3. QED BY <2>1, <2>2
<1>10. \A k \in Jobs : job[k].run # << >> => Target(k) # o
  BY <1>2, LockedOut
<1>11. job'[j].run # << >> =>
         \A k \in Jobs \ {j} : job[k].run # << >> => Target(k) # Last(job'[j].run).owner
  BY <1>5, <1>6, <1>10
<1>12. \A k \in Jobs \ {j} : SameRun(k) /\ (job[k].run # << >> => Untouched(Target(k)))
  BY <1>6, <1>8
<1>13. QED
  BY <1>7, <1>9, <1>11, <1>12, JobStays

(* A commit takes what is t's; whatever the others claimed is not.         *)
LEMMA CommitFits ==
  ASSUME ErasureInv, NEW j \in Jobs, Commit(j)
  PROVE  ErasureInv'
<1>1. PICK run, gone, t, s : run = job[j].run /\ gone = job[j].gone /\ t = Target(j) /\ s = Next0(j)
  OBVIOUS
<1>2. PICK erased : erased = gone \cup {Pair(s)}
  OBVIOUS
<1>3. /\ rows' = rows \ erased
      /\ members' = [u \in Members |-> IF <<"users", u>> \in erased THEN Nobody ELSE members[u]]
      /\ profiles' = [a \in Anons |-> IF <<"profiles", a>> \in erased THEN Nobody ELSE profiles[a]]
      /\ bindings' = [a \in Anons |->
           IF <<"bindings", bindings[a]>> \in erased THEN Nobody ELSE bindings[a]]
      /\ Len(run) = 1 /\ UNCHANGED <<failures, writes>>
  BY <1>1, <1>2 DEF Commit, Pair
<1>4. job \in [Jobs -> Worker] /\ job' = [job EXCEPT ![j].run = << >>, ![j].gone = {}]
  BY DEF ErasureInv, ErasureTypes, Commit
<1>5. run # << >>
  BY <1>1, <1>3
<1>6. PICK B : B = BoundTo(t)
  OBVIOUS
<1>7. t \in People /\ Claimable(t) /\ RunFits(run, gone, t, B)
  BY <1>1, <1>5, <1>6 DEF ErasureInv, JobFits
<1>8. erased \subseteq RowsWith(t, B)
  BY <1>1, <1>2, <1>7, FirstFits DEF RunFits, Next0
<1>9. /\ \A u : <<"users", u>> \in erased => u = t
      /\ \A a : <<"profiles", a>> \in erased => a = t \/ a \in B
      /\ \A u : <<"bindings", u>> \in erased => u = t /\ t \in Members
  BY <1>8 DEF RowsWith, Purged
<1>10. /\ job' \in [Jobs -> Worker] /\ job'[j].run = << >> /\ job'[j].gone = {}
       /\ \A k \in Jobs \ {j} : SameRun(k)
  <2>0. << >> \in Seq(Statement) /\ {} \subseteq (Tables \cup Parents) \X People
    OBVIOUS
  <2>1. PICK v, x : v = [job[j] EXCEPT !.run = << >>] /\ x = [v EXCEPT !.gone = {}]
    OBVIOUS
  <2>2. job \in [Jobs -> Worker] /\ job[j] \in Worker
    BY <1>4
  <2>3. v \in Worker /\ x \in Worker /\ x.run = << >> /\ x.gone = {}
    BY <2>0, <2>1, <2>2 DEF Worker
  <2>4. [job EXCEPT ![j] = v][j] = v
    BY <1>4
  <2>5. job' = [[job EXCEPT ![j] = v] EXCEPT ![j] = [[job EXCEPT ![j] = v][j] EXCEPT !.gone = {}]]
    BY <1>4, <2>1, Zenon
  <2>6. job' = [[job EXCEPT ![j] = v] EXCEPT ![j] = x]
    BY <2>1, <2>4, <2>5, Zenon
  <2>7. job' \in [Jobs -> Worker] /\ job'[j] = x /\ \A k \in Jobs \ {j} : job'[k] = job[k]
    BY <2>2, <2>3, <2>6, SetTwice, Zenon
  <2>8. QED BY <2>3, <2>7 DEF SameRun
<1>11. ErasureTypes' /\ RowsFit'
  <2>1. members' \in [Members -> {"none", "soft_deleted", "grace_over",
                                  "hard_delete_scheduled", Nobody}]
    BY <1>3 DEF ErasureInv, ErasureTypes
  <2>2. profiles' \in [Anons -> {"seen", "idle", Nobody}]
    BY <1>3 DEF ErasureInv, ErasureTypes
  <2>3. bindings' \in [Anons -> Members \cup {Nobody}]
    BY <1>3 DEF ErasureInv, ErasureTypes
  <2>4. QED
    BY <1>3, <1>10, <2>1, <2>2, <2>3 DEF ErasureInv, ErasureTypes, RowsFit
<1>12. ASSUME NEW k \in Jobs \ {j}, job[k].run # << >> PROVE Untouched(Target(k))
  <2>1. PICK o : o = Target(k)
    OBVIOUS
  <2>2. o # t /\ o \in People /\ Claimable(o)
    BY <1>1, <1>5, <1>12, <2>1 DEF ErasureInv, Apart, JobFits
  <2>3. o \in Members => members'[o] = members[o]
    BY <1>3, <1>9, <2>2
  <2>4. o \in Anons => profiles'[o] = profiles[o] /\ bindings'[o] = bindings[o]
    <3>1. SUFFICES ASSUME o \in Anons PROVE profiles'[o] = profiles[o] /\ bindings'[o] = bindings[o]
      OBVIOUS
    <3>2. bindings[o] = Nobody
      BY <2>2, <3>1, ErasureAssumption DEF Claimable, Dormant
    <3>3. o \notin B
      BY <1>6, <1>7, <3>2, NobodyAssumption DEF BoundTo, People
    <3>4. QED BY <1>3, <1>9, <2>2, <3>1, <3>2, <3>3
  <2>5. ASSUME NEW a \in Anons PROVE (bindings'[a] = o) <=> (bindings[a] = o)
    <3>1. o # Nobody
      BY <2>2, NobodyAssumption DEF People
    <3>2. QED BY <1>3, <1>9, <2>2, <3>1
  <2>6. QED BY <2>1, <2>3, <2>4, <2>5 DEF Untouched
<1>13. JobFits(j)'
  BY <1>10 DEF JobFits
<1>14. QED
  BY <1>10, <1>11, <1>12, <1>13, JobStays

(* People. Only a step of somebody no job has locked, or not due.          *)
LEMMA PersonWritesFits ==
  ASSUME ErasureInv, NEW o \in People, NEW tables \in Kinds, PersonWrites(o, tables)
  PROVE  ErasureInv'
<1>1. /\ rows' = rows \cup (tables \X {o}) /\ UNCHANGED <<members, bindings, job, failures>>
      /\ profiles' = IF o \in Anons THEN [profiles EXCEPT ![o] = "seen"] ELSE profiles
      /\ writes' = writes + 1 /\ writes < MaxWrites /\ ~Locked(o)
  BY DEF PersonWrites, Writes
<1>2. tables \subseteq Tables /\ \A T \in tables : T \notin {"tokens", "credentials"}
  BY DEF Kinds, Tables
<1>3. writes' \in 0..MaxWrites
  BY <1>1, ErasureAssumption DEF ErasureInv, ErasureTypes
<1>4. ErasureTypes' /\ RowsFit'
  <2>1. profiles' \in [Anons -> {"seen", "idle", Nobody}]
    BY <1>1 DEF ErasureInv, ErasureTypes
  <2>2. rows' \subseteq Tables \X People /\ RowsFit'
    BY <1>1, <1>2 DEF ErasureInv, ErasureTypes, RowsFit
  <2>3. QED BY <1>1, <1>3, <2>1, <2>2 DEF ErasureInv, ErasureTypes
<1>5. ASSUME NEW t, t # o PROVE Untouched(t)
  BY <1>1, <1>5 DEF Untouched, ErasureInv, ErasureTypes
<1>6. \A k \in Jobs : job[k].run # << >> => Target(k) # o
  BY <1>1, LockedOut
<1>7. \A k \in Jobs : SameRun(k)
  BY <1>1 DEF SameRun
<1>8. QED
  BY <1>4, <1>5, <1>6, <1>7, OthersStay

LEMMA LinkFits ==
  ASSUME ErasureInv, NEW a \in Anons, NEW u \in Members, Link(a, u)
  PROVE  ErasureInv'
<1>1. /\ bindings' = [bindings EXCEPT ![a] = u] /\ bindings[a] = Nobody
      /\ rows' = IF <<"events", a>> \in rows
                 THEN rows \cup ({"words", "phonemes", "sm2"} \X {u}) ELSE rows
      /\ UNCHANGED <<members, profiles, job, failures>>
      /\ writes' = writes + 1 /\ writes < MaxWrites /\ ~Locked(a) /\ ~Locked(u)
  BY DEF Link, Writes
<1>2. writes' \in 0..MaxWrites
  BY <1>1, ErasureAssumption DEF ErasureInv, ErasureTypes
<1>3. ErasureTypes' /\ RowsFit'
  <2>1. bindings' \in [Anons -> Members \cup {Nobody}]
    BY <1>1 DEF ErasureInv, ErasureTypes
  <2>2. rows' \subseteq Tables \X People /\ RowsFit'
    BY <1>1 DEF ErasureInv, ErasureTypes, RowsFit, Tables, People
  <2>3. QED BY <1>1, <1>2, <2>1, <2>2 DEF ErasureInv, ErasureTypes
<1>4. ASSUME NEW t \in People, t # a, t # u PROVE Untouched(t)
  BY <1>1, <1>4, NobodyAssumption DEF Untouched, ErasureInv, ErasureTypes, People
<1>5. \A k \in Jobs : job[k].run # << >> => Target(k) # a /\ Target(k) # u
  BY <1>1, LockedOut
<1>6. \A k \in Jobs : job[k].run # << >> => Target(k) \in People
  BY DEF ErasureInv, JobFits
<1>7. \A k \in Jobs : SameRun(k)
  BY <1>1 DEF SameRun
<1>8. QED
  BY <1>3, <1>4, <1>5, <1>6, <1>7, OthersStay

(* A step that only changes how account u stands.                          *)
LEMMA MemberFits ==
  ASSUME ErasureInv, NEW u \in Members, NEW state \in {"none", "soft_deleted", "grace_over",
                                                       "hard_delete_scheduled"},
         members' = [members EXCEPT ![u] = state], writes' \in 0..MaxWrites,
         UNCHANGED <<profiles, bindings, rows, job, failures>>,
         \A k \in Jobs : job[k].run # << >> => Target(k) # u
  PROVE  ErasureInv'
<1>1. ErasureTypes' /\ RowsFit'
  BY DEF ErasureInv, ErasureTypes, RowsFit
<1>2. ASSUME NEW t, t # u PROVE Untouched(t)
  BY <1>2 DEF Untouched, ErasureInv, ErasureTypes
<1>3. \A k \in Jobs : SameRun(k)
  BY DEF SameRun
<1>4. QED
  BY <1>1, <1>2, <1>3, OthersStay

LEMMA DeleteFits ==
  ASSUME ErasureInv, NEW u \in Members, NEW state \in {"soft_deleted", "hard_delete_scheduled"},
         Delete(u, state)
  PROVE  ErasureInv'
<1>1. /\ members' = [members EXCEPT ![u] = state] /\ UNCHANGED <<profiles, bindings, rows, job, failures>>
      /\ writes' = writes + 1 /\ writes < MaxWrites /\ ~Locked(u)
  BY DEF Delete, Writes
<1>2. writes' \in 0..MaxWrites
  BY <1>1, ErasureAssumption DEF ErasureInv, ErasureTypes
<1>3. \A k \in Jobs : job[k].run # << >> => Target(k) # u
  BY <1>1, LockedOut
<1>4. state \in {"none", "soft_deleted", "grace_over", "hard_delete_scheduled"}
  OBVIOUS
<1>5. QED BY <1>1, <1>2, <1>3, <1>4, MemberFits

LEMMA RestoreMemberFits ==
  ASSUME ErasureInv, NEW u \in Members, RestoreMember(u)
  PROVE  ErasureInv'
<1>1. /\ members' = [members EXCEPT ![u] = "none"]
      /\ UNCHANGED <<profiles, bindings, rows, job, failures>>
      /\ writes' = writes /\ ~Locked(u)
  BY DEF RestoreMember
<1>2. writes' \in 0..MaxWrites
  BY <1>1 DEF ErasureInv, ErasureTypes
<1>3. \A k \in Jobs : job[k].run # << >> => Target(k) # u
  BY <1>1, LockedOut
<1>4. QED BY <1>1, <1>2, <1>3, MemberFits

LEMMA MonthFits ==
  ASSUME ErasureInv, NEW u \in Members, Month(u)
  PROVE  ErasureInv'
<1>1. /\ members' = [members EXCEPT ![u] = "grace_over"] /\ members[u] = "soft_deleted"
      /\ UNCHANGED <<profiles, bindings, rows, job, failures>> /\ writes' = writes
  BY DEF Month
<1>2. writes' \in 0..MaxWrites
  BY <1>1 DEF ErasureInv, ErasureTypes
<1>3. ASSUME NEW k \in Jobs, job[k].run # << >> PROVE Target(k) # u
  <2>1. Claimable(Target(k))
    BY <1>3 DEF ErasureInv, JobFits
  <2>2. QED BY <1>1, <2>1 DEF Claimable, Due
<1>4. QED BY <1>1, <1>2, <1>3, MemberFits

LEMMA TwoYearsFits ==
  ASSUME ErasureInv, NEW a \in Anons, TwoYears(a)
  PROVE  ErasureInv'
<1>1. /\ profiles' = [profiles EXCEPT ![a] = "idle"] /\ profiles[a] = "seen"
      /\ UNCHANGED <<members, bindings, rows, job, failures, writes>>
  BY DEF TwoYears
<1>2. ErasureTypes' /\ RowsFit'
  BY <1>1 DEF ErasureInv, ErasureTypes, RowsFit
<1>3. ASSUME NEW t, t # a PROVE Untouched(t)
  BY <1>1, <1>3 DEF Untouched, ErasureInv, ErasureTypes
<1>4. ASSUME NEW k \in Jobs, job[k].run # << >> PROVE Target(k) # a
  <2>1. Claimable(Target(k))
    BY <1>4 DEF ErasureInv, JobFits
  <2>2. QED BY <1>1, <2>1, ErasureAssumption DEF Claimable, Dormant
<1>5. \A k \in Jobs : SameRun(k)
  BY <1>1 DEF SameRun
<1>6. QED
  BY <1>2, <1>3, <1>4, <1>5, OthersStay

LEMMA ErasureInvInit == ErasureInit => ErasureInv
<1> SUFFICES ASSUME ErasureInit PROVE ErasureInv
  OBVIOUS
<1>1. PICK w : w = [pc |-> "idle", list |-> {}, run |-> << >>, gone |-> {}]
  OBVIOUS
<1>2. w \in Worker /\ w.run = << >> /\ w.gone = {}
  BY <1>1 DEF Worker
<1>3. job = [j \in Jobs |-> w]
  BY <1>1 DEF ErasureInit
<1>4. rows = {"tokens", "credentials"} \X Members
  BY DEF ErasureInit
<1>5. ErasureTypes
  <2>1. rows \subseteq Tables \X People
    BY <1>4 DEF Tables, People
  <2>2. job \in [Jobs -> Worker]
    BY <1>2, <1>3
  <2>3. /\ members = [u \in Members |-> "none"] /\ profiles = [a \in Anons |-> "seen"]
        /\ bindings = [a \in Anons |-> Nobody] /\ failures = 0 /\ writes = 0
    BY DEF ErasureInit
  <2>4. /\ members \in [Members -> {"none", "soft_deleted", "grace_over",
                                    "hard_delete_scheduled", Nobody}]
        /\ profiles \in [Anons -> {"seen", "idle", Nobody}]
        /\ bindings \in [Anons -> Members \cup {Nobody}]
        /\ failures \in 0..MaxFailures /\ writes \in 0..MaxWrites
    BY <2>3, ErasureAssumption
  <2>5. QED BY <2>1, <2>2, <2>4 DEF ErasureTypes
<1>6. RowsFit
  BY <1>4 DEF RowsFit
<1>7. (\A j \in Jobs : JobFits(j)) /\ Apart
  BY <1>2, <1>3 DEF JobFits, Apart
<1>8. QED
  BY <1>5, <1>6, <1>7 DEF ErasureInv

LEMMA ErasureInvNext == ErasureInv /\ [ErasureNext]_erasureVars => ErasureInv'
<1> SUFFICES ASSUME ErasureInv, [ErasureNext]_erasureVars PROVE ErasureInv'
  OBVIOUS
<1>1. ASSUME NEW j \in Jobs, JobStep(j) PROVE ErasureInv'
  <2>1. CASE List(j)
    BY <2>1, ListFits
  <2>2. CASE Deletes(j)
    BY <2>2, DeletesFits
  <2>3. CASE Commit(j)
    BY <2>3, CommitFits
  <2>4. CASE RollBack(j)
    BY <2>4, RollBackFits
  <2>5. CASE EndRun(j)
    BY <2>5, EndRunFits
  <2>6. ASSUME NEW o \in People, Claim(j, o) PROVE ErasureInv'
    BY <2>6, ClaimFits
  <2>7. QED BY <1>1, <2>1, <2>2, <2>3, <2>4, <2>5, <2>6 DEF JobStep
<1>2. ASSUME NEW u \in Members, MemberStep(u) PROVE ErasureInv'
  <2>1. ASSUME NEW state \in {"soft_deleted", "hard_delete_scheduled"}, Delete(u, state)
        PROVE  ErasureInv'
    BY <2>1, DeleteFits
  <2>2. CASE RestoreMember(u)
    BY <2>2, RestoreMemberFits
  <2>3. CASE Month(u)
    BY <2>3, MonthFits
  <2>4. ASSUME NEW a \in Anons, Link(a, u) PROVE ErasureInv'
    BY <2>4, LinkFits
  <2>5. QED BY <1>2, <2>1, <2>2, <2>3, <2>4 DEF MemberStep
<1>3. ASSUME NEW a \in Anons, TwoYears(a) PROVE ErasureInv'
  BY <1>3, TwoYearsFits
<1>4. ASSUME NEW o \in People, NEW tables \in Kinds, PersonWrites(o, tables) PROVE ErasureInv'
  BY <1>4, PersonWritesFits
<1>5. CASE UNCHANGED erasureVars
  <2>1. ErasureTypes' /\ RowsFit' /\ \A k \in Jobs : SameRun(k)
    BY <1>5 DEF ErasureInv, ErasureTypes, RowsFit, SameRun, erasureVars
  <2>2. \A t : Untouched(t)
    BY <1>5, NothingTouched DEF erasureVars
  <2>3. QED BY <2>1, <2>2, OthersStay
<1>6. QED
  BY <1>1, <1>2, <1>3, <1>4, <1>5 DEF ErasureNext

(* The inductive invariant: each transaction has left to delete, in the    *)
(* order the keys ask for, all that it has not yet deleted of an account or*)
(* profile that stays due, and that no other transaction erases.           *)
THEOREM ErasureInductive == ErasureSpec => []ErasureInv
<1>1. ErasureInit => ErasureInv
  BY ErasureInvInit
<1>2. ErasureInv /\ [ErasureNext]_erasureVars => ErasureInv'
  BY ErasureInvNext
<1>3. QED
  BY <1>1, <1>2, PTL DEF ErasureSpec

(* Every variable of Erasure keeps its type.                               *)
THEOREM ErasureTypesHold == ErasureSpec => []ErasureTypeOK
<1>1. ErasureInv => ErasureTypeOK
  BY DEF ErasureInv, ErasureTypes, ErasureTypeOK, Worker
<1>2. QED
  BY <1>1, ErasureInductive, PTL

(* No delete of a purge or a prune meets a row that still refers to what it*)
(* deletes: the order of the repository's deletes suffices, whatever people*)
(* write, link or restore while they run.                                  *)
THEOREM NothingRefused == ErasureSpec => []NoDeleteIsRefused
<1>1. ErasureInv => NoDeleteIsRefused
  BY NotRefused DEF NoDeleteIsRefused
<1>2. QED
  BY <1>1, ErasureInductive, PTL

Whole ==
  /\ \A u \in Members :
       members[u] # Nobody /\ members'[u] = Nobody =>
         /\ Due(u)
         /\ \A o \in {u} \cup BoundTo(u) :
              /\ rows' \cap (Tables \X {o}) = {}
              /\ o \in Anons => profiles'[o] = Nobody
  /\ \A a \in Anons :
       profiles[a] # Nobody /\ profiles'[a] = Nobody =>
         \/ Dormant(a)
         \/ bindings[a] # Nobody /\ members'[bindings[a]] = Nobody

(* The last statement of a transaction is the one that deletes its subject,*)
(* and by then everything else of it is gone.                              *)
LEMMA CommitsWhole ==
  ASSUME ErasureInv, NEW j \in Jobs, Commit(j)
  PROVE  Whole
<1>1. PICK run, gone, t, s : run = job[j].run /\ gone = job[j].gone /\ t = Target(j) /\ s = Next0(j)
  OBVIOUS
<1>2. PICK erased : erased = gone \cup {Pair(s)}
  OBVIOUS
<1>3. /\ rows' = rows \ erased
      /\ members' = [u \in Members |-> IF <<"users", u>> \in erased THEN Nobody ELSE members[u]]
      /\ profiles' = [a \in Anons |-> IF <<"profiles", a>> \in erased THEN Nobody ELSE profiles[a]]
      /\ Len(run) = 1
  BY <1>1, <1>2 DEF Commit, Pair
<1>4. run # << >>
  BY <1>3
<1>5. PICK B : B = BoundTo(t)
  OBVIOUS
<1>6. t \in People /\ Claimable(t) /\ RunFits(run, gone, t, B)
  BY <1>1, <1>4, <1>5 DEF ErasureInv, JobFits
<1>7. s = Final(t)
  <2>1. run \in Seq(Statement) /\ run[Len(run)] = Final(t)
    BY <1>6 DEF RunFits
  <2>2. QED BY <1>1, <1>3, <1>4, <2>1 DEF Next0
<1>8. erased \subseteq RowsWith(t, B) /\ Before(s, t, B) \subseteq gone
  BY <1>1, <1>2, <1>6, FirstFits DEF RunFits, Next0
<1>9. B \subseteq Anons /\ \A a \in B : bindings[a] = t
  BY <1>5 DEF BoundTo
<1>10. CASE t \in Members
  <2>1. s.table = "users" /\ Pair(s) = <<"users", t>>
    BY <1>7, <1>10 DEF Final, Pair
  <2>2. RowsWith(t, B) \subseteq erased
    BY <1>2, <1>8, <2>1 DEF Before
  <2>3. RowsWith(t, B) = (Purged \X ({t} \cup B))
          \cup ({"tokens", "credentials", "bindings", "users"} \X {t}) \cup ({"profiles"} \X B)
    BY <1>10 DEF RowsWith
  <2>4. Due(t)
    BY <1>6, <1>10 DEF Claimable
  <2>5. ASSUME NEW o \in {t} \cup B, NEW row \in rows' \cap (Tables \X {o}) PROVE FALSE
    <3>1. PICK T \in Tables : row = <<T, o>> /\ row \in rows /\ row \notin erased
      BY <1>3, <2>5
    <3>2. T \notin Purged
      BY <2>2, <2>3, <3>1
    <3>3. T \in {"tokens", "credentials"}
      BY <3>2 DEF Tables, Purged
    <3>4. o \in Members
      BY <3>1, <3>3 DEF ErasureInv, RowsFit
    <3>5. o = t
      BY <1>9, <3>4, ErasureAssumption
    <3>6. QED BY <2>2, <2>3, <3>1, <3>3, <3>5
  <2>6. ASSUME NEW o \in {t} \cup B, o \in Anons PROVE profiles'[o] = Nobody
    <3>1. o \in B
      BY <1>10, <2>6, ErasureAssumption
    <3>2. QED BY <1>3, <2>2, <2>3, <2>6, <3>1
  <2>7. ASSUME NEW u \in Members, members[u] # Nobody, members'[u] = Nobody PROVE u = t
    <3>1. <<"users", u>> \in RowsWith(t, B)
      BY <1>3, <1>8, <2>7
    <3>2. QED BY <2>3, <3>1 DEF Purged
  <2>8. ASSUME NEW a \in Anons, profiles[a] # Nobody, profiles'[a] = Nobody
        PROVE  bindings[a] # Nobody /\ members'[bindings[a]] = Nobody
    <3>1. <<"profiles", a>> \in RowsWith(t, B)
      BY <1>3, <1>8, <2>8
    <3>2. bindings[a] = t
      BY <1>9, <2>3, <3>1 DEF Purged
    <3>3. members'[t] = Nobody
      BY <1>2, <1>3, <1>10, <2>1
    <3>4. QED BY <1>10, <3>2, <3>3, NobodyAssumption
  <2>9. QED BY <1>5, <2>4, <2>5, <2>6, <2>7, <2>8 DEF Whole
<1>11. CASE t \in Anons
  <2>1. RowsWith(t, B) = (Purged \cup {"profiles"}) \X {t} /\ Dormant(t)
    BY <1>6, <1>11, ErasureAssumption DEF RowsWith, Claimable
  <2>2. ASSUME NEW u \in Members, members[u] # Nobody, members'[u] = Nobody PROVE FALSE
    <3>1. <<"users", u>> \in RowsWith(t, B)
      BY <1>3, <1>8, <2>2
    <3>2. QED BY <2>1, <3>1 DEF Purged
  <2>3. ASSUME NEW a \in Anons, profiles[a] # Nobody, profiles'[a] = Nobody PROVE Dormant(a)
    <3>1. <<"profiles", a>> \in RowsWith(t, B)
      BY <1>3, <1>8, <2>3
    <3>2. QED BY <2>1, <3>1
  <2>4. QED BY <2>2, <2>3 DEF Whole
<1>12. QED BY <1>6, <1>10, <1>11 DEF People

(* An account goes only while it is due, and takes everything with it; a   *)
(* profile goes with its account or while it is dormant.                   *)
THEOREM ErasesWhole == ErasureSpec => ErasedWhole
<1>1. ASSUME ErasureInv, [ErasureNext]_erasureVars PROVE [Whole]_erasureVars
  <2>1. /\ members \in [Members -> {"none", "soft_deleted", "grace_over",
                                    "hard_delete_scheduled", Nobody}]
        /\ profiles \in [Anons -> {"seen", "idle", Nobody}]
    BY <1>1 DEF ErasureInv, ErasureTypes
  <2>2. ASSUME UNCHANGED <<members, profiles>> PROVE Whole
    BY <2>2 DEF Whole
  <2>3. ASSUME NEW j \in Jobs, JobStep(j) PROVE Whole
    <3>1. CASE Commit(j)
      BY <1>1, <3>1, CommitsWhole
    <3>2. CASE ~Commit(j)
      BY <2>2, <2>3, <3>2 DEF JobStep, List, Deletes, RollBack, EndRun, Claim
    <3>3. QED BY <3>1, <3>2
  <2>4. ASSUME NEW u \in Members, NEW state \in {"none", "soft_deleted", "grace_over",
                                                 "hard_delete_scheduled"},
               members' = [members EXCEPT ![u] = state], profiles' = profiles
        PROVE  Whole
    BY <2>1, <2>4, NobodyAssumption DEF Whole
  <2>5. ASSUME NEW a \in Anons, NEW state \in {"seen", "idle"},
               profiles' = [profiles EXCEPT ![a] = state], members' = members
        PROVE  Whole
    BY <2>1, <2>5, NobodyAssumption DEF Whole
  <2>6. ASSUME NEW u \in Members, MemberStep(u) PROVE Whole
    <3>1. ASSUME NEW state \in {"soft_deleted", "hard_delete_scheduled"}, Delete(u, state)
          PROVE  Whole
      BY <2>4, <3>1 DEF Delete
    <3>2. CASE RestoreMember(u)
      BY <2>4, <3>2 DEF RestoreMember
    <3>3. CASE Month(u)
      BY <2>4, <3>3 DEF Month
    <3>4. ASSUME NEW a \in Anons, Link(a, u) PROVE Whole
      BY <2>2, <3>4 DEF Link
    <3>5. QED BY <2>6, <3>1, <3>2, <3>3, <3>4 DEF MemberStep
  <2>7. ASSUME NEW a \in Anons, TwoYears(a) PROVE Whole
    BY <2>5, <2>7 DEF TwoYears
  <2>8. ASSUME NEW o \in People, NEW tables \in Kinds, PersonWrites(o, tables) PROVE Whole
    BY <2>2, <2>5, <2>8 DEF PersonWrites
  <2>9. QED BY <1>1, <2>3, <2>6, <2>7, <2>8 DEF ErasureNext
<1>2. ErasureSpec => [][Whole]_erasureVars
  BY <1>1, ErasureInductive, PTL DEF ErasureSpec
<1>3. QED
  BY <1>2 DEF ErasedWhole, Whole
==============================================================================
