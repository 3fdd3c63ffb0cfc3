---------------------------- MODULE AccountEmail ----------------------------
(***************************************************************************)
(* Accounts and their addresses: register (account.service.js), the        *)
(* verification links (account-email.service.js), the change of address    *)
(* (account-settings.service.js), on accounts.repository.js and            *)
(* auth-tokens.repository.js.                                              *)
(*                                                                         *)
(* An address is looked up in one statement and taken in a later one; the  *)
(* unique keys of user_accounts settle who was first. A transaction is one *)
(* step: a link is locked before it is spent, and a lost lock race is run  *)
(* again. A link is in a mailbox and may be followed late, twice, or by a  *)
(* mail scanner; everyone who reads the mailbox owns the address.          *)
(***************************************************************************)
EXTENDS Naturals, FiniteSets

CONSTANTS Emails,         \* addresses, lower-cased
          Names,          \* usernames, lower-cased
          Callers,        \* requests in flight
          MaxAccounts,    \* bound on the accounts ever inserted
          MaxTokens,      \* bound on the links ever issued
          None            \* NULL, nobody

ASSUME EmailAssumption ==
  /\ MaxAccounts \in Nat /\ MaxTokens \in Nat
  /\ None \notin Emails /\ Names # {}

VARIABLES
  accounts,   \* users joined with user_accounts, in the order of their ids
  tokens,     \* auth_tokens of the two kinds, in the order of their ids
  followed,   \* which account's links have been followed from which mailbox
  call        \* where each request stands

emailVars == <<accounts, tokens, followed, call>>

AccountIds == 1..MaxAccounts
TokenIds == 1..MaxTokens
Providers == {"password", "google"}
Account == [name : Names, provider : Providers, email : Emails \cup {None},
            verified : BOOLEAN, pending : Emails \cup {None}, sub : Nat]
Token == [account : AccountIds, type : {"email_verification", "email_change"},
          open : BOOLEAN, to : Emails]
Call == [pc : {"home", "register", "resend", "look", "change"},
         account : 0..MaxAccounts, name : Names, email : Emails \cup {None}]

ASSUME NoneAssumption == None \notin Account \cup Token

AnyName == CHOOSE n \in Names : TRUE
AtRest == [pc |-> "home", account |-> 0, name |-> AnyName, email |-> None]

EmailInit ==
  /\ accounts = [a \in AccountIds |-> None]
  /\ tokens = [t \in TokenIds |-> None]
  /\ followed = {}
  /\ call = [c \in Callers |-> AtRest]

------------------------------------------------------------------------------
Known == {a \in AccountIds : accounts[a] # None}
Issued == {t \in TokenIds : tokens[t] # None}
NextAccount == Cardinality(Known) + 1
NextToken == Cardinality(Issued) + 1
Rest(c) == call' = [call EXCEPT ![c] = AtRest]

(* emailIsTaken: as the address of an account, or as its pending one.      *)
EmailIsTaken(e) == \E a \in Known : e \in {accounts[a].email, accounts[a].pending}

(* The unique keys; NULLs are never equal.                                 *)
NameFree(n) == \A a \in Known : accounts[a].name # n
EmailFree(e) == e = None \/ \A a \in Known : accounts[a].email # e
PendingFree(a, e) == \A b \in Known \ {a} : accounts[b].pending # e

NewAccount(n, provider, e, verified, sub) ==
  [name |-> n, provider |-> provider, email |-> e, verified |-> verified,
   pending |-> None, sub |-> sub]

(* closeOpenTokens, of one kind; broken: closes none.                      *)
KeepOpen(a, type) == tokens
CloseOpen(a, type) ==
  [t \in TokenIds |->
     IF t \in Issued /\ tokens[t].account = a /\ tokens[t].type = type
     THEN [tokens[t] EXCEPT !.open = FALSE] ELSE tokens[t]]

(* ... and insertAuthToken.                                                *)
IssueToken(a, type, e) ==
  [CloseOpen(a, type) EXCEPT ![NextToken] =
     [account |-> a, type |-> type, open |-> TRUE, to |-> e]]

------------------------------------------------------------------------------
(* register: the address is looked up, the password hashed ...             *)
Register(c, n, e) ==
  /\ call[c].pc = "home"
  /\ e = None \/ ~EmailIsTaken(e)
  /\ call' = [call EXCEPT ![c] = [AtRest EXCEPT !.pc = "register", !.name = n, !.email = e]]
  /\ UNCHANGED <<accounts, tokens, followed>>

(* ... and the account inserted, with a verification link for its address. *)
InsertAccount(c) ==
  LET n == call[c].name
      e == call[c].email
      a == NextAccount
  IN  /\ call[c].pc = "register"
      /\ a \in AccountIds
      /\ e # None => NextToken \in TokenIds
      /\ IF NameFree(n) /\ EmailFree(e)
         THEN /\ accounts' = [accounts EXCEPT ![a] = NewAccount(n, "password", e, FALSE, 0)]
              /\ tokens' = IF e = None THEN tokens
                           ELSE IssueToken(a, "email_verification", e)
         ELSE UNCHANGED <<accounts, tokens>>
      /\ Rest(c)
      /\ UNCHANGED followed

(* resendVerification: for an account that was unverified when looked up.  *)
Resend(c, a) ==
  /\ call[c].pc = "home"
  /\ a \in Known
  /\ accounts[a].provider = "password" /\ accounts[a].email # None /\ ~accounts[a].verified
  /\ call' = [call EXCEPT ![c] =
       [AtRest EXCEPT !.pc = "resend", !.account = a, !.email = accounts[a].email]]
  /\ UNCHANGED <<accounts, tokens, followed>>

ResendLink(c) ==
  /\ call[c].pc = "resend"
  /\ NextToken \in TokenIds
  /\ tokens' = IssueToken(call[c].account, "email_verification", call[c].email)
  /\ Rest(c)
  /\ UNCHANGED <<accounts, followed>>

(* consumeToken: the link, locked and open, is spent; broken: it stays.    *)
Unspent(t) == tokens
Spent(t) == [tokens EXCEPT ![t].open = FALSE]

Follow(t, type) ==
  /\ t \in Issued
  /\ tokens[t].type = type
  /\ tokens[t].open
  /\ followed' = followed \cup {<<tokens[t].account, tokens[t].to>>}
  /\ tokens' = Spent(t)

(* verifyEmail, and markEmailVerified on whatever address is current.      *)
MarkedVerified(a) == [accounts EXCEPT ![a].verified = TRUE]

VerifyEmail(t) ==
  /\ Follow(t, "email_verification")
  /\ accounts' = MarkedVerified(tokens[t].account)
  /\ UNCHANGED call

------------------------------------------------------------------------------
(* requestEmailChange: by a signed-in password account, which has a        *)
(* verified address or none; the new address is looked up ...              *)
MaySignIn(a) == accounts[a].email # None => accounts[a].verified

AskChange(c, a, e) ==
  /\ call[c].pc = "home"
  /\ a \in Known
  /\ accounts[a].provider = "password" /\ MaySignIn(a)
  /\ accounts[a].email # e
  /\ ~EmailIsTaken(e)
  /\ call' = [call EXCEPT ![c] = [AtRest EXCEPT !.pc = "change", !.account = a, !.email = e]]
  /\ UNCHANGED <<accounts, tokens, followed>>

(* setPendingEmail, confirmPendingEmail, clearPendingEmail.                *)
Pended(a, e) == [accounts EXCEPT ![a].pending = e]
Confirmed(a) == [accounts EXCEPT ![a].email = accounts[a].pending,
                                 ![a].verified = TRUE, ![a].pending = None]
Cleared(a) == [accounts EXCEPT ![a].pending = None]

(* ... and held as pending while a link goes to it.                        *)
HoldPending(c) ==
  LET a == call[c].account
      e == call[c].email
  IN  /\ call[c].pc = "change"
      /\ NextToken \in TokenIds
      /\ IF PendingFree(a, e)
         THEN /\ accounts' = Pended(a, e)
              /\ tokens' = IssueToken(a, "email_change", e)
         ELSE UNCHANGED <<accounts, tokens>>
      /\ Rest(c)
      /\ UNCHANGED followed

(* confirmEmailChange: the pending address becomes the account's, unless   *)
(* another account has it by now.                                          *)
ConfirmEmailChange(t) ==
  LET a == tokens[t].account
      e == accounts[a].pending
  IN  /\ Follow(t, "email_change")
      /\ accounts' =
           IF e = None THEN accounts
           ELSE IF EmailFree(e) THEN Confirmed(a) ELSE Cleared(a)
      /\ UNCHANGED call

(* now >= expires_at: a link that is too old does nothing.                 *)
Expire(t) ==
  /\ t \in Issued
  /\ tokens[t].open
  /\ tokens' = [tokens EXCEPT ![t].open = FALSE]
  /\ UNCHANGED <<accounts, followed, call>>

(* The request fails, or the process dies.                                 *)
Abandon(c) ==
  /\ call[c].pc # "home"
  /\ Rest(c)
  /\ UNCHANGED <<accounts, tokens, followed>>

------------------------------------------------------------------------------
CallStep(c) ==
  \/ \E n \in Names, e \in Emails \cup {None} : Register(c, n, e)
  \/ \E a \in AccountIds : Resend(c, a)
  \/ \E a \in AccountIds, e \in Emails : AskChange(c, a, e)
  \/ InsertAccount(c) \/ ResendLink(c) \/ HoldPending(c) \/ Abandon(c)

EmailNext ==
  \/ \E c \in Callers : CallStep(c)
  \/ \E t \in TokenIds : VerifyEmail(t) \/ ConfirmEmailChange(t) \/ Expire(t)

EmailSpec == EmailInit /\ [][EmailNext]_emailVars

------------------------------------------------------------------------------
(* Properties.                                                             *)

(* The values every variable ranges over; of the links, that one which can *)
(* still be followed to change an address is for the address now pending.  *)
EmailTypeOK ==
  /\ accounts \in [AccountIds -> Account \cup {None}]
  /\ tokens \in [TokenIds -> Token \cup {None}]
  /\ \A t \in Issued : tokens[t].type = "email_change" /\ tokens[t].open =>
                         accounts[tokens[t].account].pending = tokens[t].to
  /\ followed \subseteq AccountIds \X Emails
  /\ call \in [Callers -> Call]

(* A password account's address counts as verified only when a link sent to*)
(* that very address has been followed for that account, whichever changes *)
(* of address were asked for, replaced, or lost to another account since.  *)
AddressWasProven ==
  \A a \in Known :
    accounts[a].provider = "password" /\ accounts[a].verified =>
      <<a, accounts[a].email>> \in followed
==============================================================================
