------------------------------ MODULE MCAccounts ------------------------------
(***************************************************************************)
(* Accounts, for TLC: sign-in sessions, addresses, Google sign-in beside   *)
(* password accounts, and erasure. Sessions, addresses and erasure look at *)
(* different tables of an account, each with the others' effects on its own*)
(* tables, so a behaviour is one of them: part says which, and the rest    *)
(* stays as it began. Google sign-in races registration for addresses and  *)
(* names, so that part runs both, with one password request at a time, one *)
(* link, two of the three tabs busy at most, and the first flow begun in   *)
(* the browser that has two. Of the sessions only the first one re-        *)
(* authenticates.                                                          *)
(***************************************************************************)
EXTENDS AccountSessions, GoogleSignIn, Erasure, TLC

CONSTANTS c1, e1, b1, b2, t1, t2, t3

VARIABLE part

OneAddress == [s \in 1..MaxSubs |-> e1]
TwoInOne == t1 :> b1 @@ t2 :> b1 @@ t3 :> b2

partVars == <<part, sessionVars, identityVars, erasureVars>>

AccountsInit ==
  /\ part \in {"sessions", "addresses", "google", "erasure"}
  /\ SessionInit /\ IdentityInit /\ ErasureInit

AccountsNext ==
  /\ UNCHANGED part
  /\ \/ /\ part = "sessions" /\ SessionNext
        /\ proofs' \subseteq {1}
        /\ UNCHANGED <<identityVars, erasureVars>>
     \/ /\ part = "addresses" /\ EmailNext
        /\ UNCHANGED <<sessionVars, googleVars, erasureVars>>
     \/ /\ part = "google" /\ IdentityNext
        /\ \A c \in Callers \ {c1} : call'[c] = AtRest
        /\ Cardinality(Issued') <= 1
        /\ flows'[1] # None => flows'[1].browser = b1
        /\ Cardinality({t \in Tabs : visit'[t].pc # "home"}) <= 2
        /\ UNCHANGED <<sessionVars, erasureVars>>
     \/ /\ part = "erasure" /\ ErasureNext
        /\ UNCHANGED <<sessionVars, identityVars>>

AccountsSpec == AccountsInit /\ [][AccountsNext]_partVars

(* The values every variable of the part that moves ranges over.           *)
AccountsTypeOK ==
  /\ part = "sessions" => SessionTypeOK
  /\ part \in {"addresses", "google"} => IdentityTypeOK
  /\ part = "erasure" => ErasureTypeOK

Symmetry == Permutations(Requests) \cup Permutations({t1, t2})
==============================================================================
