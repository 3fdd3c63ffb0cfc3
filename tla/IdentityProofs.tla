--------------------------- MODULE IdentityProofs ---------------------------
(***************************************************************************)
(* Proofs about GoogleSignIn and the accounts and addresses of AccountEmail*)
(* beside it, for any addresses, names, callers, browsers and people: a    *)
(* verified address was proven, who is signed in was met at Google, and a  *)
(* registration is not lost.                                               *)
(***************************************************************************)
EXTENDS GoogleSignIn, FiniteSetTheorems, TLAPS

------------------------------------------------------------------------------
(* The inductive invariant of accounts and addresses.                      *)

(* Ids are given out in order, so no insert overwrites a row.              *)
AccountsInOrder == Known = 1..Cardinality(Known)

LinksKnown == \A t \in Issued : tokens[t].account \in Known

(* Of the links that change the address of an account, one is open.        *)
ChangesOf(t, a) == tokens[t].type = "email_change" /\ tokens[t].open /\ tokens[t].account = a
OneChangeLink ==
  \A t, u \in Issued : \A a \in AccountIds : ChangesOf(t, a) /\ ChangesOf(u, a) => t = u

(* A verification link was sent to the address the account has, unless the *)
(* account has had another address confirmed since.                        *)
LinkFits(a, e) == accounts[a].verified \/ accounts[a].email = e
LinksFit ==
  \A t \in Issued :
    tokens[t].type = "email_verification" => LinkFits(tokens[t].account, tokens[t].to)

CallsFit ==
  \A c \in Callers :
    /\ call[c].pc \in {"resend", "change"} => call[c].account \in Known /\ call[c].email \in Emails
    /\ call[c].pc = "resend" => LinkFits(call[c].account, call[c].email)

EmailInv ==
  /\ EmailTypeOK /\ AccountsInOrder /\ LinksKnown /\ OneChangeLink /\ LinksFit /\ CallsFit
  /\ AddressWasProven

------------------------------------------------------------------------------
(* What a step may do to the accounts there are.                           *)
Grown ==
  /\ accounts' \in [AccountIds -> Account \cup {None}]
  /\ Known \subseteq Known' /\ AccountsInOrder'
  /\ \A a \in Known :
       /\ accounts'[a].provider = accounts[a].provider /\ accounts'[a].sub = accounts[a].sub
       /\ accounts[a].verified => accounts'[a].verified
       /\ accounts'[a].verified \/ accounts'[a].email = accounts[a].email

LEMMA KnownTypes ==
  ASSUME EmailTypeOK
  PROVE  /\ IsFiniteSet(Known) /\ Cardinality(Known) \in Nat /\ Known \subseteq AccountIds
         /\ \A a \in Known : accounts[a] \in Account
         /\ \A t \in Issued : tokens[t] \in Token
<1>1. IsFiniteSet(AccountIds) /\ Known \subseteq AccountIds
  BY FS_Interval, EmailAssumption DEF AccountIds, Known
<1>2. IsFiniteSet(Known) /\ Cardinality(Known) \in Nat
  BY <1>1, FS_Subset, FS_CardinalityType
<1>3. QED
  BY <1>1, <1>2 DEF EmailTypeOK, Known, Issued

LEMMA NextIsNew ==
  ASSUME EmailInv
  PROVE  NextAccount \notin Known /\ NextAccount \in Nat
BY KnownTypes DEF EmailInv, AccountsInOrder, NextAccount

LEMMA AccountsStay ==
  ASSUME EmailInv, accounts' = accounts
  PROVE  Grown /\ Known' = Known
<1>1. Known' = Known
  BY DEF Known
<1>2. QED
  BY <1>1 DEF EmailInv, EmailTypeOK, Grown, AccountsInOrder

LEMMA AccountInserted ==
  ASSUME EmailInv, NEW row \in Account, NextAccount \in AccountIds,
         accounts' = [accounts EXCEPT ![NextAccount] = row]
  PROVE  /\ Grown /\ Known' = Known \cup {NextAccount} /\ accounts'[NextAccount] = row
         /\ \A a \in Known : a # NextAccount /\ accounts'[a] = accounts[a]
<1>0. PICK a, n : a = NextAccount /\ n = Cardinality(Known)
  OBVIOUS
<1>1. /\ accounts \in [AccountIds -> Account \cup {None}] /\ a \in AccountIds /\ a \notin Known
      /\ IsFiniteSet(Known) /\ n \in Nat /\ Known = 1..n /\ a = n + 1
  BY <1>0, KnownTypes, NextIsNew DEF EmailInv, EmailTypeOK, AccountsInOrder, NextAccount
<1>2. /\ accounts' \in [AccountIds -> Account \cup {None}] /\ accounts'[a] = row
      /\ \A b \in AccountIds \ {a} : accounts'[b] = accounts[b]
  BY <1>0, <1>1
<1>3. row # None
  BY NoneAssumption
<1>4. Known' = Known \cup {a}
  BY <1>1, <1>2, <1>3 DEF Known
<1>5. AccountsInOrder'
  <2>1. Cardinality(Known \cup {a}) = n + 1
    BY <1>0, <1>1, FS_AddElement
  <2>2. Known \cup {a} = 1..(n + 1)
    BY <1>1
  <2>3. Cardinality(Known') = n + 1
    BY <1>4, <2>1
  <2>4. QED
    BY <1>4, <2>2, <2>3 DEF AccountsInOrder
<1>6. \A b \in Known : b # a /\ accounts'[b] = accounts[b]
  BY <1>1, <1>2, KnownTypes DEF EmailInv
<1>7. QED
  BY <1>0, <1>2, <1>4, <1>5, <1>6 DEF Grown

LEMMA AccountChanged ==
  ASSUME EmailInv, NEW a \in Known, NEW row \in Account,
         accounts' = [accounts EXCEPT ![a] = row],
         row.provider = accounts[a].provider, row.sub = accounts[a].sub,
         accounts[a].verified => row.verified,
         row.verified \/ row.email = accounts[a].email
  PROVE  Grown /\ Known' = Known /\ accounts'[a] = row
         /\ \A b \in Known \ {a} : accounts'[b] = accounts[b]
<1>1. accounts \in [AccountIds -> Account \cup {None}] /\ a \in AccountIds /\ row # None
      /\ accounts[a] # None
  BY NoneAssumption DEF EmailInv, EmailTypeOK, Known
<1>2. /\ accounts' \in [AccountIds -> Account \cup {None}] /\ accounts'[a] = row
      /\ \A b \in AccountIds \ {a} : accounts'[b] = accounts[b]
  BY <1>1
<1>3. Known' = Known
  BY <1>1, <1>2 DEF Known
<1>4. QED
  BY <1>2, <1>3, KnownTypes DEF EmailInv, Grown, AccountsInOrder

------------------------------------------------------------------------------
(* Links.                                                                  *)

(* Old links keep what they are for, and none opens again.                 *)
LinkKept(t) ==
  /\ t \in Issued
  /\ tokens'[t].account = tokens[t].account /\ tokens'[t].type = tokens[t].type
  /\ tokens'[t].to = tokens[t].to
  /\ tokens'[t].open => tokens[t].open

LEMMA LinksKeep ==
  ASSUME EmailInv, Grown,
         \A t \in Issued' :
           \/ LinkKept(t)
           \/ /\ tokens'[t].account \in Known'
              /\ tokens'[t].type = "email_verification" =>
                   LET row == accounts'[tokens'[t].account]
                   IN  row.verified \/ row.email = tokens'[t].to
  PROVE  LinksKnown' /\ LinksFit'
<1> SUFFICES ASSUME NEW t \in Issued'
             PROVE  /\ tokens'[t].account \in Known'
                    /\ tokens'[t].type = "email_verification" =>
                         \/ accounts'[tokens'[t].account].verified
                         \/ accounts'[tokens'[t].account].email = tokens'[t].to
  BY DEF LinksKnown, LinksFit, LinkFits
<1>1. CASE LinkKept(t)
  BY <1>1 DEF LinkKept, EmailInv, LinksKnown, LinksFit, LinkFits, Grown
<1>2. CASE ~LinkKept(t)
  BY <1>2
<1>3. QED
  BY <1>1, <1>2

LEMMA AtRestType == AtRest \in Call /\ AtRest.pc = "home"
BY EmailAssumption DEF AtRest, AnyName, Call

LEMMA CallsKeep ==
  ASSUME EmailInv, Grown,
         \/ call' = call
         \/ \E c \in Callers : call' = [call EXCEPT ![c] = AtRest]
  PROVE  call' \in [Callers -> Call] /\ CallsFit'
<1>1. AtRest \in Call /\ AtRest.pc = "home"
  BY AtRestType
<1>2. call \in [Callers -> Call]
  BY DEF EmailInv, EmailTypeOK
<1>3. call' \in [Callers -> Call] /\ \A d \in Callers : call'[d] \in {call[d], AtRest}
  BY <1>1, <1>2
<1>4. CallsFit'
  <2> SUFFICES ASSUME NEW d \in Callers
               PROVE  /\ call'[d].pc \in {"resend", "change"} =>
                           call'[d].account \in Known' /\ call'[d].email \in Emails
                      /\ call'[d].pc = "resend" =>
                           \/ accounts'[call'[d].account].verified
                           \/ accounts'[call'[d].account].email = call'[d].email
    BY DEF CallsFit, LinkFits
  <2>1. CASE call'[d] = AtRest
    BY <1>1, <2>1
  <2>2. CASE call'[d] = call[d]
    BY <2>2 DEF EmailInv, CallsFit, LinkFits, Grown
  <2>3. QED
    BY <1>3, <2>1, <2>2
<1>5. QED
  BY <1>3, <1>4


LEMMA ClosedLink ==
  ASSUME NEW k \in Token
  PROVE  LET shut == [k EXCEPT !.open = FALSE]
         IN  /\ shut \in Token /\ shut # None /\ ~shut.open
             /\ shut.account = k.account /\ shut.type = k.type /\ shut.to = k.to
<1> DEFINE no == FALSE
           shut == [k EXCEPT !.open = no]
<1>1. no \in BOOLEAN /\ ~no
  OBVIOUS
<1> HIDE DEF no
<1>2. /\ shut \in Token /\ shut.open = no
      /\ shut.account = k.account /\ shut.type = k.type /\ shut.to = k.to
  BY <1>1 DEF Token
<1>3. shut # None
  BY <1>2, NoneAssumption
<1>4. QED
  BY <1>1, <1>2, <1>3 DEF no

(* A new link closes the open ones of its kind and account.                *)
LEMMA LinkIssued ==
  ASSUME EmailInv, NEW a \in AccountIds, NEW type \in {"email_verification", "email_change"},
         NEW e \in Emails, NextToken \in TokenIds, tokens' = IssueToken(a, type, e)
  PROVE  /\ tokens' \in [TokenIds -> Token \cup {None}]
         /\ tokens'[NextToken].account = a /\ tokens'[NextToken].type = type
         /\ tokens'[NextToken].to = e
         /\ \A t \in Issued' \ {NextToken} :
              /\ LinkKept(t)
              /\ ~(tokens[t].account = a /\ tokens[t].type = type /\ tokens'[t].open)
<1> DEFINE yes == TRUE
           new == [account |-> a, type |-> type, open |-> yes, to |-> e]
<1>0. yes \in BOOLEAN
  OBVIOUS
<1> HIDE DEF yes
<1>1. new \in Token /\ new.account = a /\ new.type = type /\ new.to = e
  BY <1>0 DEF Token
<1>2. PICK n : n = NextToken
  OBVIOUS
<1>3. tokens' = [CloseOpen(a, type) EXCEPT ![n] = new]
  BY <1>2 DEF IssueToken, yes
<1> HIDE DEF new
<1>4. tokens \in [TokenIds -> Token \cup {None}] /\ n \in TokenIds
      /\ \A t \in Issued : tokens[t] \in Token
  BY <1>2, KnownTypes DEF EmailInv, EmailTypeOK
<1>5. ASSUME NEW t \in TokenIds
      PROVE  /\ CloseOpen(a, type)[t] \in Token \cup {None}
             /\ t \notin Issued => CloseOpen(a, type)[t] = None
             /\ t \in Issued =>
                  /\ CloseOpen(a, type)[t].account = tokens[t].account
                  /\ CloseOpen(a, type)[t].type = tokens[t].type
                  /\ CloseOpen(a, type)[t].to = tokens[t].to
                  /\ CloseOpen(a, type)[t].open => tokens[t].open
                  /\ ~(tokens[t].account = a /\ tokens[t].type = type
                       /\ CloseOpen(a, type)[t].open)
  <2>1. CASE t \in Issued /\ tokens[t].account = a /\ tokens[t].type = type
    <3>1. CloseOpen(a, type)[t] = [tokens[t] EXCEPT !.open = FALSE]
      BY <2>1 DEF CloseOpen
    <3>2. tokens[t] \in Token
      BY <1>4, <2>1
    <3>3. QED
      BY <2>1, <3>1, <3>2, ClosedLink
  <2>2. CASE ~(t \in Issued /\ tokens[t].account = a /\ tokens[t].type = type)
    <3>1. CloseOpen(a, type)[t] = tokens[t]
      BY <2>2 DEF CloseOpen
    <3>2. QED
      BY <1>4, <2>2, <3>1 DEF Issued
  <2>3. QED
    BY <2>1, <2>2
<1>6. DOMAIN CloseOpen(a, type) = TokenIds
  BY DEF CloseOpen
<1>7. \A t \in TokenIds : tokens'[t] = IF t = n THEN new ELSE CloseOpen(a, type)[t]
  BY <1>3, <1>6
<1>8. tokens' \in [TokenIds -> Token \cup {None}]
  <2>1. tokens' = [t \in TokenIds |-> tokens'[t]]
    BY <1>3 DEF CloseOpen
  <2>2. \A t \in TokenIds : tokens'[t] \in Token \cup {None}
    BY <1>1, <1>5, <1>7
  <2>3. QED
    BY <2>1, <2>2
<1>9. ASSUME NEW t \in Issued', t # n
      PROVE  /\ LinkKept(t)
             /\ ~(tokens[t].account = a /\ tokens[t].type = type /\ tokens'[t].open)
  <2>1. t \in TokenIds /\ tokens'[t] # None /\ tokens'[t] = CloseOpen(a, type)[t]
    BY <1>7, <1>9 DEF Issued
  <2>2. t \in Issued
    BY <1>5, <2>1
  <2>3. QED
    BY <1>5, <2>1, <2>2 DEF LinkKept
<1>10. QED
  BY <1>1, <1>2, <1>4, <1>7, <1>8, <1>9

(* A link that is spent, or too old, is closed, and the others are as they *)
(* were.                                                                   *)
LEMMA LinkClosed ==
  ASSUME EmailInv, NEW t \in Issued, tokens' = [tokens EXCEPT ![t].open = FALSE]
  PROVE  /\ tokens' \in [TokenIds -> Token \cup {None}]
         /\ \A u \in Issued' : LinkKept(u) /\ (u = t => ~tokens'[u].open)
<1>1. tokens \in [TokenIds -> Token \cup {None}] /\ t \in TokenIds /\ tokens[t] \in Token
  BY KnownTypes DEF EmailInv, EmailTypeOK, Issued
<1> DEFINE shut == [tokens[t] EXCEPT !.open = FALSE]
<1>2. /\ shut \in Token /\ shut # None /\ ~shut.open
      /\ shut.account = tokens[t].account /\ shut.type = tokens[t].type /\ shut.to = tokens[t].to
  BY <1>1, ClosedLink
<1>3. tokens' = [tokens EXCEPT ![t] = shut]
  OBVIOUS
<1> HIDE DEF shut
<1>4. /\ tokens' \in [TokenIds -> Token \cup {None}]
      /\ \A u \in TokenIds : tokens'[u] = IF u = t THEN shut ELSE tokens[u]
  BY <1>1, <1>2, <1>3
<1>5. \A u \in Issued' : LinkKept(u) /\ (u = t => ~tokens'[u].open)
  BY <1>2, <1>4 DEF LinkKept, Issued
<1>6. QED
  BY <1>4, <1>5

------------------------------------------------------------------------------
(* What is open to change an address, and what is verified.                *)
ChangesFit ==
  \A t \in Issued : tokens[t].type = "email_change" /\ tokens[t].open =>
                      accounts[tokens[t].account].pending = tokens[t].to

(* Nothing pending changes but by the link that is open for it.            *)
LEMMA ChangesKeep ==
  ASSUME EmailInv, \A t \in Issued' : LinkKept(t),
         \A t \in Issued' : tokens'[t].type = "email_change" /\ tokens'[t].open =>
           accounts'[tokens[t].account].pending = accounts[tokens[t].account].pending
  PROVE  ChangesFit' /\ OneChangeLink'
<1>1. ChangesFit'
  <2> SUFFICES ASSUME NEW t \in Issued', tokens'[t].type = "email_change", tokens'[t].open
               PROVE  accounts'[tokens'[t].account].pending = tokens'[t].to
    BY DEF ChangesFit
  <2>1. QED
    BY DEF LinkKept, EmailInv, EmailTypeOK
<1>2. OneChangeLink'
  BY DEF LinkKept, EmailInv, OneChangeLink, ChangesOf
<1>3. QED
  BY <1>1, <1>2

LEMMA ProvenKeeps ==
  ASSUME EmailInv, followed \subseteq followed',
         \A a \in Known' : accounts'[a].provider = "password" /\ accounts'[a].verified =>
           \/ /\ a \in Known /\ accounts[a].provider = "password" /\ accounts[a].verified
              /\ accounts'[a].email = accounts[a].email
           \/ <<a, accounts'[a].email>> \in followed'
  PROVE  AddressWasProven'
<1> SUFFICES ASSUME NEW a \in Known', accounts'[a].provider = "password", accounts'[a].verified
             PROVE  <<a, accounts'[a].email>> \in followed'
  BY DEF AddressWasProven
<1>1. QED
  BY DEF EmailInv, AddressWasProven

------------------------------------------------------------------------------
(* The actions.                                                            *)

LEMMA EmailTypeKeeps ==
  ASSUME accounts' \in [AccountIds -> Account \cup {None}],
         tokens' \in [TokenIds -> Token \cup {None}],
         followed' \subseteq AccountIds \X Emails, call' \in [Callers -> Call], ChangesFit'
  PROVE  EmailTypeOK'
BY DEF EmailTypeOK, ChangesFit

(* A request that goes on, with what it has looked up.                     *)
LEMMA CallMoves ==
  ASSUME EmailInv, UNCHANGED <<accounts, tokens, followed>>, NEW c \in Callers, NEW q \in Call,
         call' = [call EXCEPT ![c] = q],
         q.pc \in {"resend", "change"} => q.account \in Known /\ q.email \in Emails,
         q.pc = "resend" => LinkFits(q.account, q.email)
  PROVE  EmailInv'
<1>1. call \in [Callers -> Call]
  BY DEF EmailInv, EmailTypeOK
<1>2. call' \in [Callers -> Call] /\ \A d \in Callers : call'[d] = IF d = c THEN q ELSE call[d]
  BY <1>1
<1>3. CallsFit'
  <2> SUFFICES ASSUME NEW d \in Callers
               PROVE  /\ call'[d].pc \in {"resend", "change"} =>
                           call'[d].account \in Known' /\ call'[d].email \in Emails
                      /\ call'[d].pc = "resend" =>
                           \/ accounts'[call'[d].account].verified
                           \/ accounts'[call'[d].account].email = call'[d].email
    BY DEF CallsFit, LinkFits
  <2>1. Known' = Known
    BY DEF Known
  <2>2. QED
    BY <1>2, <2>1 DEF EmailInv, CallsFit, LinkFits
<1>4. EmailTypeOK' /\ AccountsInOrder' /\ LinksKnown' /\ OneChangeLink' /\ LinksFit' /\ AddressWasProven'
  BY <1>2 DEF EmailInv, EmailTypeOK, AccountsInOrder, LinksKnown, OneChangeLink, ChangesOf,
     LinksFit, LinkFits, AddressWasProven, Known, Issued
<1>5. QED
  BY <1>3, <1>4 DEF EmailInv

LEMMA IdsAreCounted == \A a \in AccountIds : a \in 0..MaxAccounts
BY EmailAssumption DEF AccountIds

LEMMA RegisterKeeps ==
  ASSUME EmailInv, NEW c \in Callers, NEW n \in Names, NEW e \in Emails \cup {None},
         Register(c, n, e)
  PROVE  EmailInv'
<1> DEFINE q == [AtRest EXCEPT !.pc = "register", !.name = n, !.email = e]
<1>1. q \in Call /\ q.pc = "register"
  BY AtRestType DEF Call
<1>2. call' = [call EXCEPT ![c] = q] /\ UNCHANGED <<accounts, tokens, followed>>
  BY DEF Register
<1> HIDE DEF q
<1>3. QED
  BY <1>1, <1>2, CallMoves

LEMMA ResendKeeps ==
  ASSUME EmailInv, NEW c \in Callers, NEW a \in AccountIds, Resend(c, a)
  PROVE  EmailInv'
<1> DEFINE e == accounts[a].email
           q == [AtRest EXCEPT !.pc = "resend", !.account = a, !.email = e]
<1>1. a \in Known /\ e # None
  BY DEF Resend
<1>2. e \in Emails /\ a \in 0..MaxAccounts
  BY <1>1, KnownTypes, IdsAreCounted DEF EmailInv, Account
<1>3. call' = [call EXCEPT ![c] = q] /\ UNCHANGED <<accounts, tokens, followed>>
  BY DEF Resend
<1> HIDE DEF e
<1>4. q \in Call /\ q.pc = "resend" /\ q.account = a /\ q.email = e
  BY <1>2, AtRestType DEF Call
<1> HIDE DEF q
<1>5. QED
  BY <1>1, <1>2, <1>3, <1>4, CallMoves DEF LinkFits, e

LEMMA AskChangeKeeps ==
  ASSUME EmailInv, NEW c \in Callers, NEW a \in AccountIds, NEW e \in Emails, AskChange(c, a, e)
  PROVE  EmailInv'
<1> DEFINE q == [AtRest EXCEPT !.pc = "change", !.account = a, !.email = e]
<1>1. /\ a \in Known
      /\ call' = [call EXCEPT ![c] = q] /\ UNCHANGED <<accounts, tokens, followed>>
  BY DEF AskChange
<1>2. q \in Call /\ q.pc = "change" /\ q.account = a /\ q.email = e
  BY AtRestType, IdsAreCounted DEF Call
<1> HIDE DEF q
<1>3. QED
  BY <1>1, <1>2, CallMoves

LEMMA AbandonKeeps ==
  ASSUME EmailInv, NEW c \in Callers, Abandon(c)
  PROVE  EmailInv'
BY AtRestType, CallMoves DEF Abandon, Rest

LEMMA InsertAccountKeeps ==
  ASSUME EmailInv, NEW c \in Callers, InsertAccount(c)
  PROVE  EmailInv' /\ Grown
<1>1. PICK n, e, a : n = call[c].name /\ e = call[c].email /\ a = NextAccount
  OBVIOUS
<1>2. /\ n \in Names /\ e \in Emails \cup {None} /\ a \in AccountIds
      /\ (e # None => NextToken \in TokenIds) /\ followed' = followed
      /\ call' = [call EXCEPT ![c] = AtRest]
  BY <1>1 DEF InsertAccount, Rest, EmailInv, EmailTypeOK, Call
<1>3. CASE UNCHANGED <<accounts, tokens>>
  <2>1. Grown /\ Known' = Known
    BY <1>3, AccountsStay
  <2>2. EmailInv'
    BY <1>2, <1>3, AtRestType, CallMoves
  <2>3. QED
    BY <2>1, <2>2
<1>4. CASE /\ accounts' = [accounts EXCEPT ![a] = NewAccount(n, "password", e, FALSE, 0)]
           /\ tokens' = IF e = None THEN tokens ELSE IssueToken(a, "email_verification", e)
  <2> DEFINE row == NewAccount(n, "password", e, FALSE, 0)
  <2>1. row \in Account
    <3>1. FALSE \in BOOLEAN /\ 0 \in Nat /\ "password" \in Providers /\ None \in Emails \cup {None}
      BY DEF Providers
    <3>2. QED
      BY <1>2, <3>1, Zenon DEF NewAccount, Account
  <2>2. row.email = e /\ ~row.verified
    BY DEF NewAccount
  <2> HIDE DEF row
  <2>3. /\ Grown /\ Known' = Known \cup {a} /\ accounts'[a] = row
        /\ \A b \in Known : b # a /\ accounts'[b] = accounts[b]
    BY <1>1, <1>2, <1>4, <2>1, AccountInserted DEF row
  <2>4. call' \in [Callers -> Call] /\ CallsFit'
    BY <1>2, <2>3, CallsKeep
  <2>5. AddressWasProven'
    BY <1>2, <2>2, <2>3, ProvenKeeps
  <2>6. CASE e = None
    <3>1. tokens' = tokens /\ Issued' = Issued /\ \A t \in Issued' : LinkKept(t)
      BY <1>4, <2>6 DEF Issued, LinkKept
    <3>2. LinksKnown' /\ LinksFit'
      BY <2>3, <3>1, LinksKeep
    <3>3. ChangesFit' /\ OneChangeLink'
      BY <2>3, <3>1, ChangesKeep DEF EmailInv, LinksKnown
    <3>4. EmailTypeOK'
      BY <1>2, <2>3, <2>4, <3>1, <3>3, EmailTypeKeeps DEF Grown, EmailInv, EmailTypeOK
    <3>5. QED
      BY <2>3, <2>4, <2>5, <3>2, <3>3, <3>4 DEF EmailInv, Grown
  <2>7. CASE e # None
    <3>1. PICK k : k = NextToken
      OBVIOUS
    <3>2. /\ tokens' \in [TokenIds -> Token \cup {None}]
          /\ tokens'[k].account = a /\ tokens'[k].type = "email_verification" /\ tokens'[k].to = e
          /\ \A t \in Issued' \ {k} : LinkKept(t)
      BY <1>2, <1>4, <2>7, <3>1, LinkIssued
    <3>3. LinksKnown' /\ LinksFit'
      BY <2>2, <2>3, <3>2, LinksKeep
    <3>4. \A t \in Issued' : tokens'[t].type = "email_change" => t # k /\ LinkKept(t)
      BY <3>2
    <3>5. OneChangeLink'
      BY <3>4 DEF EmailInv, OneChangeLink, ChangesOf, LinkKept
    <3>6. ChangesFit'
      <4> SUFFICES ASSUME NEW t \in Issued', tokens'[t].type = "email_change", tokens'[t].open
                   PROVE  accounts'[tokens'[t].account].pending = tokens'[t].to
        BY DEF ChangesFit
      <4>1. LinkKept(t)
        BY <3>4
      <4>2. tokens[t].account \in Known /\ accounts[tokens[t].account].pending = tokens[t].to
        BY <4>1 DEF LinkKept, EmailInv, EmailTypeOK, LinksKnown
      <4>3. QED
        BY <2>3, <4>1, <4>2 DEF LinkKept
    <3>7. EmailTypeOK'
      BY <1>2, <2>3, <2>4, <3>2, <3>6, EmailTypeKeeps DEF Grown, EmailInv, EmailTypeOK
    <3>8. QED
      BY <2>3, <2>4, <2>5, <3>3, <3>5, <3>7 DEF EmailInv, Grown
  <2>8. QED
    BY <2>3, <2>6, <2>7
<1>5. QED
  BY <1>1, <1>3, <1>4 DEF InsertAccount

LEMMA ResendLinkKeeps ==
  ASSUME EmailInv, NEW c \in Callers, ResendLink(c)
  PROVE  EmailInv' /\ Grown
<1>1. PICK a, e, k : a = call[c].account /\ e = call[c].email /\ k = NextToken
  OBVIOUS
<1>2. /\ a \in Known /\ a \in AccountIds /\ e \in Emails /\ LinkFits(a, e) /\ k \in TokenIds
      /\ accounts' = accounts /\ followed' = followed
      /\ call' = [call EXCEPT ![c] = AtRest]
      /\ tokens' = IssueToken(a, "email_verification", e)
  BY <1>1 DEF ResendLink, Rest, EmailInv, CallsFit, Known
<1>3. Grown /\ Known' = Known
  BY <1>2, AccountsStay
<1>4. call' \in [Callers -> Call] /\ CallsFit'
  BY <1>2, <1>3, CallsKeep
<1>5. AddressWasProven'
  BY <1>2, <1>3, ProvenKeeps
<1>6. /\ tokens' \in [TokenIds -> Token \cup {None}]
      /\ tokens'[k].account = a /\ tokens'[k].type = "email_verification" /\ tokens'[k].to = e
      /\ \A t \in Issued' \ {k} : LinkKept(t)
  BY <1>1, <1>2, LinkIssued
<1>7. LinksKnown' /\ LinksFit'
  BY <1>2, <1>3, <1>6, LinksKeep DEF LinkFits
<1>8. \A t \in Issued' : tokens'[t].type = "email_change" => t # k /\ LinkKept(t)
  BY <1>6
<1>9. OneChangeLink'
  BY <1>8 DEF EmailInv, OneChangeLink, ChangesOf, LinkKept
<1>10. ChangesFit'
  BY <1>2, <1>8 DEF ChangesFit, LinkKept, EmailInv, EmailTypeOK
<1>11. EmailTypeOK'
  BY <1>2, <1>3, <1>4, <1>6, <1>10, EmailTypeKeeps DEF Grown, EmailInv, EmailTypeOK
<1>12. QED
  BY <1>3, <1>4, <1>5, <1>7, <1>9, <1>11 DEF EmailInv, Grown

(* The link that is open for a change is the one for what is pending now.  *)
LEMMA HoldPendingKeeps ==
  ASSUME EmailInv, NEW c \in Callers, HoldPending(c)
  PROVE  EmailInv' /\ Grown
<1>1. PICK a, e, k : a = call[c].account /\ e = call[c].email /\ k = NextToken
  OBVIOUS
<1>2. /\ a \in Known /\ a \in AccountIds /\ e \in Emails /\ k \in TokenIds
      /\ followed' = followed /\ call' = [call EXCEPT ![c] = AtRest]
      /\ accounts[a] \in Account
  BY <1>1, KnownTypes DEF HoldPending, Rest, EmailInv, CallsFit, Known
<1>3. CASE UNCHANGED <<accounts, tokens>>
  <2>1. Grown
    BY <1>3, AccountsStay
  <2>2. QED
    BY <1>2, <1>3, <2>1, AtRestType, CallMoves
<1>4. CASE accounts' = Pended(a, e) /\ tokens' = IssueToken(a, "email_change", e)
  <2> DEFINE row == [accounts[a] EXCEPT !.pending = e]
  <2>1. /\ row \in Account /\ row.pending = e /\ row.email = accounts[a].email
        /\ row.provider = accounts[a].provider /\ row.sub = accounts[a].sub
        /\ row.verified = accounts[a].verified
    BY <1>2 DEF Account
  <2>2. accounts' = [accounts EXCEPT ![a] = row]
    BY <1>4 DEF Pended
  <2> HIDE DEF row
  <2>3. /\ Grown /\ Known' = Known /\ accounts'[a] = row
        /\ \A b \in Known \ {a} : accounts'[b] = accounts[b]
    BY <1>2, <2>1, <2>2, AccountChanged
  <2>4. call' \in [Callers -> Call] /\ CallsFit'
    BY <1>2, <2>3, CallsKeep
  <2>5. AddressWasProven'
    BY <1>2, <2>1, <2>3, ProvenKeeps
  <2>6. /\ tokens' \in [TokenIds -> Token \cup {None}]
        /\ tokens'[k].account = a /\ tokens'[k].type = "email_change" /\ tokens'[k].to = e
        /\ \A t \in Issued' \ {k} :
             /\ LinkKept(t)
             /\ ~(tokens[t].account = a /\ tokens[t].type = "email_change" /\ tokens'[t].open)
    BY <1>1, <1>2, <1>4, LinkIssued
  <2>7. LinksKnown' /\ LinksFit'
    BY <1>2, <2>3, <2>6, LinksKeep
  <2>8. ASSUME NEW t \in Issued', tokens'[t].type = "email_change", tokens'[t].open, t # k
        PROVE  LinkKept(t) /\ tokens[t].account # a
    BY <2>6, <2>8 DEF LinkKept
  <2>9. OneChangeLink'
    <3> SUFFICES ASSUME NEW t \in Issued', NEW u \in Issued', NEW b \in AccountIds,
                        tokens'[t].type = "email_change", tokens'[t].open, tokens'[t].account = b,
                        tokens'[u].type = "email_change", tokens'[u].open, tokens'[u].account = b
                 PROVE  t = u
      BY DEF OneChangeLink, ChangesOf
    <3>1. CASE t # k /\ u # k
      BY <2>8, <3>1 DEF LinkKept, EmailInv, OneChangeLink, ChangesOf
    <3>2. CASE t = k \/ u = k
      BY <2>6, <2>8, <3>2 DEF LinkKept
    <3>3. QED
      BY <3>1, <3>2
  <2>10. ChangesFit'
    <3> SUFFICES ASSUME NEW t \in Issued', tokens'[t].type = "email_change", tokens'[t].open
                 PROVE  accounts'[tokens'[t].account].pending = tokens'[t].to
      BY DEF ChangesFit
    <3>1. CASE t = k
      BY <2>1, <2>3, <2>6, <3>1
    <3>2. CASE t # k
      <4>1. LinkKept(t) /\ tokens[t].account # a
        BY <2>8, <3>2
      <4>2. tokens[t].account \in Known /\ accounts[tokens[t].account].pending = tokens[t].to
        BY <4>1 DEF LinkKept, EmailInv, EmailTypeOK, LinksKnown
      <4>3. QED
        BY <2>3, <4>1, <4>2 DEF LinkKept
    <3>3. QED
      BY <3>1, <3>2
  <2>11. EmailTypeOK'
    BY <1>2, <2>3, <2>4, <2>6, <2>10, EmailTypeKeeps DEF Grown, EmailInv, EmailTypeOK
  <2>12. QED
    BY <2>3, <2>4, <2>5, <2>7, <2>9, <2>11 DEF EmailInv, Grown
<1>5. QED
  BY <1>1, <1>3, <1>4 DEF HoldPending


(* A link that is followed is spent, and tells who has the mailbox.        *)
LEMMA FollowedLink ==
  ASSUME EmailInv, NEW t \in TokenIds, NEW type, Follow(t, type)
  PROVE  /\ t \in Issued /\ tokens[t] \in Token /\ tokens[t].type = type /\ tokens[t].open
         /\ tokens[t].account \in Known /\ tokens[t].account \in AccountIds
         /\ accounts[tokens[t].account] \in Account /\ tokens[t].to \in Emails
         /\ tokens' \in [TokenIds -> Token \cup {None}]
         /\ \A u \in Issued' : LinkKept(u) /\ (u = t => ~tokens'[u].open)
         /\ followed' = followed \cup {<<tokens[t].account, tokens[t].to>>}
         /\ followed' \subseteq AccountIds \X Emails
<1>1. /\ t \in Issued /\ tokens[t] \in Token /\ tokens[t].type = type /\ tokens[t].open
      /\ followed' = followed \cup {<<tokens[t].account, tokens[t].to>>}
      /\ tokens' = [tokens EXCEPT ![t].open = FALSE]
  BY KnownTypes DEF Follow, Spent, EmailInv
<1>2. /\ tokens[t].account \in Known /\ tokens[t].account \in AccountIds
      /\ accounts[tokens[t].account] \in Account /\ tokens[t].to \in Emails
  BY <1>1, KnownTypes DEF EmailInv, LinksKnown, Token
<1>3. followed' \subseteq AccountIds \X Emails
  BY <1>1, <1>2 DEF EmailInv, EmailTypeOK
<1>4. /\ tokens' \in [TokenIds -> Token \cup {None}]
      /\ \A u \in Issued' : LinkKept(u) /\ (u = t => ~tokens'[u].open)
  BY <1>1, LinkClosed
<1>5. QED
  BY <1>1, <1>2, <1>3, <1>4

LEMMA VerifyEmailKeeps ==
  ASSUME EmailInv, NEW t \in TokenIds, VerifyEmail(t)
  PROVE  EmailInv' /\ Grown
<1>0. Follow(t, "email_verification") /\ call' = call
      /\ accounts' = [accounts EXCEPT ![tokens[t].account].verified = TRUE]
  BY DEF VerifyEmail, MarkedVerified
<1>1. PICK a, e : a = tokens[t].account /\ e = tokens[t].to
  OBVIOUS
<1>2. /\ t \in Issued /\ tokens[t].type = "email_verification"
      /\ a \in Known /\ a \in AccountIds /\ accounts[a] \in Account
      /\ tokens' \in [TokenIds -> Token \cup {None}]
      /\ \A u \in Issued' : LinkKept(u)
      /\ followed' = followed \cup {<<a, e>>} /\ followed' \subseteq AccountIds \X Emails
  BY <1>0, <1>1, FollowedLink
<1>3. LinkFits(a, e)
  BY <1>1, <1>2 DEF EmailInv, LinksFit
<1> DEFINE yes == TRUE
           row == [accounts[a] EXCEPT !.verified = yes]
<1>4. accounts' = [accounts EXCEPT ![a] = row] /\ yes \in BOOLEAN /\ yes
  BY <1>0, <1>1
<1> HIDE DEF yes
<1>5. /\ row \in Account /\ row.pending = accounts[a].pending /\ row.email = accounts[a].email
      /\ row.provider = accounts[a].provider /\ row.sub = accounts[a].sub /\ row.verified = yes
  BY <1>2, <1>4 DEF Account
<1> HIDE DEF row
<1>6. /\ Grown /\ Known' = Known /\ accounts'[a] = row
      /\ \A b \in Known \ {a} : accounts'[b] = accounts[b]
  BY <1>2, <1>4, <1>5, AccountChanged
<1>7. call' \in [Callers -> Call] /\ CallsFit'
  BY <1>0, <1>6, CallsKeep
<1>8. AddressWasProven'
  <2>1. ASSUME NEW b \in Known', accounts'[b].provider = "password", accounts'[b].verified
        PROVE  \/ /\ b \in Known /\ accounts[b].provider = "password" /\ accounts[b].verified
                  /\ accounts'[b].email = accounts[b].email
               \/ <<b, accounts'[b].email>> \in followed'
    <3>1. CASE b # a
      BY <1>6, <2>1, <3>1
    <3>2. CASE b = a /\ accounts[a].verified
      BY <1>2, <1>5, <1>6, <2>1, <3>2
    <3>3. CASE b = a /\ ~accounts[a].verified
      BY <1>2, <1>3, <1>5, <1>6, <3>3 DEF LinkFits
    <3>4. QED
      BY <3>1, <3>2, <3>3
  <2>2. QED
    BY <1>2, <2>1, ProvenKeeps
<1>9. LinksKnown' /\ LinksFit'
  BY <1>2, <1>6, LinksKeep
<1>10. ChangesFit' /\ OneChangeLink'
  <2>1. \A u \in Issued' : accounts'[tokens[u].account].pending = accounts[tokens[u].account].pending
    BY <1>2, <1>5, <1>6 DEF LinkKept, EmailInv, LinksKnown
  <2>2. QED
    BY <1>2, <2>1, ChangesKeep
<1>11. EmailTypeOK'
  BY <1>2, <1>6, <1>7, <1>10, EmailTypeKeeps DEF Grown
<1>12. QED
  BY <1>6, <1>7, <1>8, <1>9, <1>10, <1>11 DEF EmailInv, Grown

LEMMA ConfirmEmailChangeKeeps ==
  ASSUME EmailInv, NEW t \in TokenIds, ConfirmEmailChange(t)
  PROVE  EmailInv' /\ Grown
<1>0. Follow(t, "email_change") /\ call' = call
  BY DEF ConfirmEmailChange
<1>1. PICK a, e : a = tokens[t].account /\ e = tokens[t].to
  OBVIOUS
<1>2. /\ t \in Issued /\ tokens[t].type = "email_change" /\ tokens[t].open
      /\ a \in Known /\ a \in AccountIds /\ accounts[a] \in Account /\ e \in Emails
      /\ tokens' \in [TokenIds -> Token \cup {None}]
      /\ \A u \in Issued' : LinkKept(u) /\ (u = t => ~tokens'[u].open)
      /\ followed' = followed \cup {<<a, e>>} /\ followed' \subseteq AccountIds \X Emails
  BY <1>0, <1>1, FollowedLink
<1>3. accounts[a].pending = e /\ e # None
  BY <1>1, <1>2, EmailAssumption DEF EmailInv, EmailTypeOK
<1>4. PICK row \in Account :
        /\ accounts' = [accounts EXCEPT ![a] = row]
        /\ row.provider = accounts[a].provider /\ row.sub = accounts[a].sub
        /\ accounts[a].verified => row.verified
        /\ \/ row.verified = accounts[a].verified /\ row.email = accounts[a].email
           \/ row.verified /\ row.email = e
  <2>1. CASE accounts' = Confirmed(a)
    <3> DEFINE yes == TRUE
               r == [accounts[a] EXCEPT !.email = accounts[a].pending,
                                        !.verified = yes, !.pending = None]
    <3>1. accounts' = [accounts EXCEPT ![a] = r] /\ yes \in BOOLEAN /\ yes
      BY <2>1 DEF Confirmed
    <3> HIDE DEF yes
    <3>2. /\ r \in Account /\ r.email = e /\ r.verified = yes
          /\ r.provider = accounts[a].provider /\ r.sub = accounts[a].sub
      BY <1>2, <1>3, <3>1 DEF Account
    <3> HIDE DEF r
    <3>3. QED
      BY <3>1, <3>2
  <2>2. CASE accounts' = Cleared(a)
    <3> DEFINE r == [accounts[a] EXCEPT !.pending = None]
    <3>1. accounts' = [accounts EXCEPT ![a] = r]
      BY <2>2 DEF Cleared
    <3>2. /\ r \in Account /\ r.email = accounts[a].email /\ r.verified = accounts[a].verified
          /\ r.provider = accounts[a].provider /\ r.sub = accounts[a].sub
      BY <1>2 DEF Account
    <3> HIDE DEF r
    <3>3. QED
      BY <3>1, <3>2
  <2>3. QED
    BY <1>1, <1>3, <2>1, <2>2 DEF ConfirmEmailChange
<1>5. row.verified \/ row.email = accounts[a].email
  BY <1>4
<1>6. /\ Grown /\ Known' = Known /\ accounts'[a] = row
      /\ \A b \in Known \ {a} : accounts'[b] = accounts[b]
  BY <1>2, <1>4, <1>5, AccountChanged
<1>7. call' \in [Callers -> Call] /\ CallsFit'
  BY <1>0, <1>6, CallsKeep
<1>8. AddressWasProven'
  <2>1. ASSUME NEW b \in Known', accounts'[b].provider = "password", accounts'[b].verified
        PROVE  \/ /\ b \in Known /\ accounts[b].provider = "password" /\ accounts[b].verified
                  /\ accounts'[b].email = accounts[b].email
               \/ <<b, accounts'[b].email>> \in followed'
    <3>1. CASE b # a
      BY <1>6, <2>1, <3>1
    <3>2. CASE b = a
      BY <1>2, <1>4, <1>6, <2>1, <3>2
    <3>3. QED
      BY <3>1, <3>2
  <2>2. QED
    BY <1>2, <2>1, ProvenKeeps
<1>9. LinksKnown' /\ LinksFit'
  BY <1>2, <1>6, LinksKeep
<1>10. ChangesFit' /\ OneChangeLink'
  <2>1. ASSUME NEW u \in Issued', tokens'[u].type = "email_change", tokens'[u].open
        PROVE  tokens[u].account \in Known \ {a}
    <3>1. u # t /\ LinkKept(u) /\ u \in Issued /\ tokens[u].account \in Known
      BY <1>2, <2>1 DEF LinkKept, EmailInv, LinksKnown
    <3>2. ChangesOf(u, tokens[u].account) /\ ChangesOf(t, a)
      BY <1>1, <1>2, <2>1, <3>1 DEF LinkKept, ChangesOf
    <3>3. QED
      BY <1>2, <3>1, <3>2 DEF EmailInv, OneChangeLink
  <2>2. QED
    BY <1>2, <1>6, <2>1, ChangesKeep
<1>11. EmailTypeOK'
  BY <1>2, <1>6, <1>7, <1>10, EmailTypeKeeps DEF Grown
<1>12. QED
  BY <1>6, <1>7, <1>8, <1>9, <1>10, <1>11 DEF EmailInv, Grown

LEMMA ExpireKeeps ==
  ASSUME EmailInv, NEW t \in TokenIds, Expire(t)
  PROVE  EmailInv' /\ Grown
<1>1. /\ t \in Issued /\ tokens' = [tokens EXCEPT ![t].open = FALSE]
      /\ accounts' = accounts /\ followed' = followed /\ call' = call
  BY DEF Expire
<1>2. Grown /\ Known' = Known
  BY <1>1, AccountsStay
<1>3. /\ tokens' \in [TokenIds -> Token \cup {None}] /\ \A u \in Issued' : LinkKept(u)
  BY <1>1, LinkClosed
<1>4. call' \in [Callers -> Call] /\ CallsFit'
  BY <1>1, <1>2, CallsKeep
<1>5. AddressWasProven'
  BY <1>1, <1>2, ProvenKeeps
<1>6. LinksKnown' /\ LinksFit'
  BY <1>2, <1>3, LinksKeep
<1>7. ChangesFit' /\ OneChangeLink'
  BY <1>1, <1>3, ChangesKeep
<1>8. EmailTypeOK'
  BY <1>1, <1>2, <1>3, <1>4, <1>7, EmailTypeKeeps DEF Grown, EmailInv, EmailTypeOK
<1>9. QED
  BY <1>2, <1>4, <1>5, <1>6, <1>7, <1>8 DEF EmailInv, Grown

LEMMA EmailStep ==
  ASSUME EmailInv, EmailNext
  PROVE  EmailInv' /\ Grown
<1>1. ASSUME NEW c \in Callers, CallStep(c) PROVE EmailInv' /\ Grown
  <2>1. ASSUME NEW n \in Names, NEW e \in Emails \cup {None}, Register(c, n, e)
        PROVE  EmailInv' /\ Grown
    BY <2>1, RegisterKeeps, AccountsStay DEF Register
  <2>2. ASSUME NEW a \in AccountIds, Resend(c, a) PROVE EmailInv' /\ Grown
    BY <2>2, ResendKeeps, AccountsStay DEF Resend
  <2>3. ASSUME NEW a \in AccountIds, NEW e \in Emails, AskChange(c, a, e) PROVE EmailInv' /\ Grown
    BY <2>3, AskChangeKeeps, AccountsStay DEF AskChange
  <2>4. CASE Abandon(c)
    BY <2>4, AbandonKeeps, AccountsStay DEF Abandon
  <2>5. CASE InsertAccount(c) \/ ResendLink(c) \/ HoldPending(c)
    BY <2>5, InsertAccountKeeps, ResendLinkKeeps, HoldPendingKeeps
  <2>6. QED
    BY <1>1, <2>1, <2>2, <2>3, <2>4, <2>5 DEF CallStep
<1>2. QED
  BY <1>1, VerifyEmailKeeps, ConfirmEmailChangeKeeps, ExpireKeeps DEF EmailNext

LEMMA EmailStart ==
  ASSUME EmailInit
  PROVE  EmailInv
<1>1. Known = {} /\ Issued = {} /\ Cardinality({}) = 0
  BY FS_EmptySet DEF EmailInit, Known, Issued
<1>2. EmailTypeOK
  BY <1>1, AtRestType DEF EmailInit, EmailTypeOK
<1>3. AccountsInOrder
  BY <1>1 DEF AccountsInOrder
<1>4. CallsFit
  BY AtRestType DEF EmailInit, CallsFit
<1>5. QED
  BY <1>1, <1>2, <1>3, <1>4 DEF EmailInv, LinksKnown, OneChangeLink, LinksFit, AddressWasProven


------------------------------------------------------------------------------
(* The inductive invariant of the flows.                                   *)
GoogleTypes ==
  /\ flows \in [FlowIds -> Flow \cup {None}]
  /\ pendings \in [FlowIds -> Pending \cup {None}]
  /\ met \subseteq Browsers \X Subs
  /\ admitted \subseteq Browsers \X AccountIds
  /\ visit \in [Tabs -> Visit]

FlowsInOrder == Begun = 1..Cardinality(Begun)

FlowsMet == \A f \in Begun : flows[f].sub # 0 => <<flows[f].browser, flows[f].sub>> \in met

(* A registration is of the browser and the person of its flow.            *)
PendingsMatch ==
  \A f \in FlowIds :
    pendings[f] # None =>
      f \in Begun /\ pendings[f].browser = flows[f].browser /\ pendings[f].sub = flows[f].sub

(* What a request holds on to is of its tab's browser.                     *)
VisitFits(t) ==
  LET f == visit[t].flow
  IN  /\ visit[t].pc = "exchange" => f \in Begun /\ flows[f].sub # 0 /\ flows[f].browser = BrowserOf[t]
      /\ visit[t].pc = "insert" => f \in FlowIds /\ pendings[f] # None /\ flows[f].browser = BrowserOf[t]
      /\ visit[t].pc = "remove" => f \in FlowIds /\ pendings[f] # None
VisitsFit == \A t \in Tabs : VisitFits(t)

AdmittedFit == \A p \in admitted : p[2] \in Known /\ <<p[1], accounts[p[2]].sub>> \in met

GoogleInv ==
  GoogleTypes /\ FlowsInOrder /\ FlowsMet /\ PendingsMatch /\ VisitsFit /\ AdmittedFit

IdentityInv == EmailInv /\ GoogleInv

------------------------------------------------------------------------------
(* What a step may do to the flows there are.                              *)
FlowKept(f) ==
  /\ f \in Begun' /\ flows'[f] \in Flow
  /\ flows'[f].browser = flows[f].browser /\ flows'[f].account = flows[f].account
  /\ flows[f].sub # 0 => flows'[f].sub = flows[f].sub

FlowsGrow ==
  /\ flows' \in [FlowIds -> Flow \cup {None}]
  /\ FlowsInOrder' /\ FlowsMet'
  /\ \A f \in Begun : FlowKept(f)

LEMMA BegunTypes ==
  ASSUME GoogleInv
  PROVE  /\ IsFiniteSet(Begun) /\ Cardinality(Begun) \in Nat /\ Begun \subseteq FlowIds
         /\ \A f \in Begun : flows[f] \in Flow
<1>1. IsFiniteSet(FlowIds) /\ Begun \subseteq FlowIds
  BY FS_Interval, GoogleAssumption DEF FlowIds, Begun
<1>2. IsFiniteSet(Begun) /\ Cardinality(Begun) \in Nat
  BY <1>1, FS_Subset, FS_CardinalityType
<1>3. QED
  BY <1>1, <1>2 DEF GoogleInv, GoogleTypes, Begun

LEMMA FlowsStay ==
  ASSUME GoogleInv, flows' = flows, met' = met
  PROVE  FlowsGrow
<1>1. Begun' = Begun
  BY DEF Begun
<1>2. QED
  BY <1>1, BegunTypes DEF FlowsGrow, FlowKept, GoogleInv, GoogleTypes, FlowsInOrder, FlowsMet

(* A flow that is answered, spent or lapsed.                               *)
LEMMA FlowChanged ==
  ASSUME GoogleInv, NEW f \in Begun, NEW row \in Flow, flows' = [flows EXCEPT ![f] = row],
         row.browser = flows[f].browser, row.account = flows[f].account,
         flows[f].sub # 0 => row.sub = flows[f].sub,
         row.sub # 0 => <<row.browser, row.sub>> \in met',
         met \subseteq met'
  PROVE  FlowsGrow
<1>1. /\ flows \in [FlowIds -> Flow \cup {None}] /\ f \in FlowIds /\ row # None
      /\ flows[f] # None
  BY NoFlowAssumption DEF GoogleInv, GoogleTypes, Begun
<1>2. /\ flows' \in [FlowIds -> Flow \cup {None}] /\ flows'[f] = row
      /\ \A g \in FlowIds \ {f} : flows'[g] = flows[g]
  BY <1>1
<1>3. Begun' = Begun
  BY <1>1, <1>2 DEF Begun
<1>4. \A g \in Begun : FlowKept(g)
  BY <1>2, <1>3, BegunTypes DEF FlowKept
<1>5. FlowsMet'
  BY <1>2, <1>3, BegunTypes DEF FlowsMet, GoogleInv
<1>6. QED
  BY <1>2, <1>3, <1>4, <1>5 DEF FlowsGrow, FlowsInOrder, GoogleInv

(* No registration is taken back while a request may hold on to it.        *)
PendingsKeep ==
  /\ pendings' \in [FlowIds -> Pending \cup {None}]
  /\ \A f \in FlowIds : pendings[f] # None => pendings'[f] # None

LEMMA PendingsMatchKeeps ==
  ASSUME GoogleInv, FlowsGrow, pendings' = pendings
  PROVE  PendingsKeep /\ PendingsMatch'
<1>1. PendingsKeep
  BY DEF PendingsKeep, GoogleInv, GoogleTypes
<1>2. PendingsMatch'
  <2> SUFFICES ASSUME NEW f \in FlowIds, pendings[f] # None
               PROVE  /\ f \in Begun' /\ pendings[f].browser = flows'[f].browser
                      /\ pendings[f].sub = flows'[f].sub
    BY DEF PendingsMatch
  <2>1. /\ f \in Begun /\ pendings[f].browser = flows[f].browser
        /\ pendings[f].sub = flows[f].sub
    BY DEF GoogleInv, PendingsMatch
  <2>2. pendings[f].sub # 0
    BY DEF GoogleInv, GoogleTypes, Pending, Subs
  <2>3. QED
    BY <2>1, <2>2 DEF FlowsGrow, FlowKept
<1>3. QED
  BY <1>1, <1>2

LEMMA VisitsKeep ==
  ASSUME GoogleInv, FlowsGrow, PendingsKeep,
         \A t \in Tabs : visit'[t] = visit[t] \/ VisitFits(t)'
  PROVE  VisitsFit'
<1> SUFFICES ASSUME NEW t \in Tabs, visit'[t] = visit[t]
             PROVE  VisitFits(t)'
  BY DEF VisitsFit
<1>1. PICK f, pc : f = visit[t].flow /\ pc = visit[t].pc
  OBVIOUS
<1>2. /\ pc = "exchange" => f \in Begun /\ flows[f].sub # 0 /\ flows[f].browser = BrowserOf[t]
      /\ pc = "insert" => f \in FlowIds /\ pendings[f] # None /\ flows[f].browser = BrowserOf[t]
      /\ pc = "remove" => f \in FlowIds /\ pendings[f] # None
  BY <1>1 DEF GoogleInv, VisitsFit, VisitFits
<1>3. pc = "insert" => f \in Begun
  BY <1>2 DEF GoogleInv, PendingsMatch
<1>4. /\ pc = "exchange" => f \in Begun' /\ flows'[f].sub # 0 /\ flows'[f].browser = BrowserOf[t]
      /\ pc = "insert" => f \in FlowIds /\ pendings'[f] # None /\ flows'[f].browser = BrowserOf[t]
      /\ pc = "remove" => f \in FlowIds /\ pendings'[f] # None
  BY <1>2, <1>3 DEF FlowsGrow, FlowKept, PendingsKeep
<1>5. QED
  BY <1>1, <1>4 DEF VisitFits


LEMMA AdmittedKeeps ==
  ASSUME EmailInv, Grown, GoogleInv, met \subseteq met',
         \A p \in admitted' :
           p \in admitted \/ (p[2] \in Known' /\ <<p[1], accounts'[p[2]].sub>> \in met')
  PROVE  AdmittedFit'
BY DEF AdmittedFit, GoogleInv, Grown

LEMMA AdmittedStay ==
  ASSUME EmailInv, Grown, GoogleInv, met \subseteq met', admitted' = admitted
  PROVE  AdmittedFit'
BY DEF AdmittedFit, GoogleInv, Grown

LEMMA AwayType == Away \in Visit /\ Away.pc = "home"
<1>1. AnyName \in Names
  BY EmailAssumption DEF AnyName
<1>2. QED
  BY <1>1, GoogleAssumption DEF Away, Visit

(* Where a request goes.                                                   *)
LEMMA VisitMoves ==
  ASSUME GoogleInv, NEW t \in Tabs, NEW v \in Visit, visit' = [visit EXCEPT ![t] = v]
  PROVE  /\ visit' \in [Tabs -> Visit] /\ visit'[t] = v
         /\ \A d \in Tabs \ {t} : visit'[d] = visit[d]
BY DEF GoogleInv, GoogleTypes

LEMMA Arrives ==
  ASSUME NEW t \in Tabs, NEW f \in FlowIds, NEW label \in {"exchange", "remove"},
         At(t, label, f)
  PROVE  \E v \in Visit : visit' = [visit EXCEPT ![t] = v] /\ v.pc = label /\ v.flow = f
<1>0. PICK a \in Visit : a = Away
  BY AwayType
<1> DEFINE v == [a EXCEPT !.pc = label, !.flow = f]
<1>1. v \in Visit /\ v.pc = label /\ v.flow = f
  <2>1. f \in 0..MaxFlows
    BY GoogleAssumption DEF FlowIds
  <2>2. label \in {"home", "exchange", "insert", "remove"}
    OBVIOUS
  <2>3. QED
    BY <2>1, <2>2 DEF Visit
<1>2. visit' = [visit EXCEPT ![t] = v]
  BY <1>0 DEF At
<1> HIDE DEF v
<1>3. QED
  BY <1>1, <1>2

(* The steps that only let a request leave.                                *)
LEMMA VisitLeaves ==
  ASSUME GoogleInv, FlowsGrow, PendingsKeep, NEW t \in Tabs, Leave(t)
  PROVE  /\ visit' \in [Tabs -> Visit] /\ VisitsFit' /\ visit'[t].pc = "home"
         /\ \A d \in Tabs \ {t} : visit'[d] = visit[d]
<1>1. /\ visit' \in [Tabs -> Visit] /\ visit'[t] = Away
      /\ \A d \in Tabs \ {t} : visit'[d] = visit[d]
  BY AwayType, VisitMoves DEF Leave
<1>2. VisitFits(t)'
  BY <1>1, AwayType DEF VisitFits
<1>3. VisitsFit'
  BY <1>1, <1>2, VisitsKeep
<1>4. QED
  BY <1>1, <1>3, AwayType

LEMMA VisitsStay ==
  ASSUME GoogleInv, FlowsGrow, PendingsKeep, visit' = visit
  PROVE  visit' \in [Tabs -> Visit] /\ VisitsFit'
BY VisitsKeep DEF GoogleInv, GoogleTypes

------------------------------------------------------------------------------
(* The actions.                                                            *)

LEMMA EmailLeavesGoogle ==
  ASSUME IdentityInv, Grown, UNCHANGED googleVars
  PROVE  GoogleInv'
<1>1. FlowsGrow
  BY FlowsStay DEF googleVars, IdentityInv
<1>2. PendingsKeep /\ PendingsMatch'
  BY <1>1, PendingsMatchKeeps DEF googleVars, IdentityInv
<1>3. visit' \in [Tabs -> Visit] /\ VisitsFit'
  BY <1>1, <1>2, VisitsStay DEF googleVars, IdentityInv
<1>4. AdmittedFit'
  BY AdmittedStay DEF googleVars, IdentityInv
<1>5. QED
  BY <1>1, <1>2, <1>3, <1>4 DEF GoogleInv, GoogleTypes, googleVars, IdentityInv, FlowsGrow, PendingsKeep

(* The steps that leave the accounts alone.                                *)
LEMMA EmailStays ==
  ASSUME EmailInv, UNCHANGED emailVars
  PROVE  EmailInv' /\ Grown
<1>1. Grown /\ Known' = Known
  BY AccountsStay DEF emailVars
<1>2. QED
  BY <1>1 DEF emailVars, EmailInv, EmailTypeOK, AccountsInOrder, LinksKnown, Issued, OneChangeLink,
       ChangesOf, LinksFit, LinkFits, CallsFit, AddressWasProven

LEMMA BeginKeeps ==
  ASSUME IdentityInv, NEW b \in Browsers, NEW a \in 0..MaxAccounts, Begin(b, a)
  PROVE  GoogleInv'
<1>1. PICK f, n : f = Cardinality(Begun) + 1 /\ n = Cardinality(Begun)
  OBVIOUS
<1>2. /\ flows \in [FlowIds -> Flow \cup {None}] /\ f \in FlowIds /\ f \notin Begun
      /\ IsFiniteSet(Begun) /\ n \in Nat /\ Begun = 1..n /\ f = n + 1
  BY <1>1, BegunTypes DEF Begin, IdentityInv, GoogleInv, GoogleTypes, FlowsInOrder
<1> DEFINE yes == TRUE
           row == [browser |-> b, account |-> a, sub |-> 0, open |-> yes]
<1>3. flows' = [flows EXCEPT ![f] = row] /\ yes \in BOOLEAN
  BY <1>1 DEF Begin
<1> HIDE DEF yes
<1>4. row \in Flow /\ row.sub = 0 /\ row.browser = b
  BY <1>3, GoogleAssumption DEF Flow
<1> HIDE DEF row
<1>5. row # None
  BY <1>4, NoFlowAssumption
<1>6. /\ flows' \in [FlowIds -> Flow \cup {None}] /\ flows'[f] = row
      /\ \A g \in FlowIds \ {f} : flows'[g] = flows[g]
  BY <1>2, <1>3, <1>4
<1>7. Begun' = Begun \cup {f}
  BY <1>2, <1>5, <1>6 DEF Begun
<1>8. FlowsInOrder'
  <2>1. Cardinality(Begun \cup {f}) = n + 1
    BY <1>1, <1>2, FS_AddElement
  <2>2. Begun \cup {f} = 1..(n + 1)
    BY <1>2
  <2>3. Cardinality(Begun') = n + 1
    BY <1>7, <2>1
  <2>4. QED
    BY <1>7, <2>2, <2>3 DEF FlowsInOrder
<1>9. \A g \in Begun : FlowKept(g)
  BY <1>2, <1>6, <1>7, BegunTypes DEF FlowKept, IdentityInv
<1>10. FlowsMet'
  <2> SUFFICES ASSUME NEW g \in Begun', flows'[g].sub # 0
               PROVE  <<flows'[g].browser, flows'[g].sub>> \in met'
    BY DEF FlowsMet
  <2>1. g # f
    BY <1>4, <1>6
  <2>2. g \in Begun /\ flows'[g] = flows[g]
    BY <1>6, <1>7, <2>1 DEF Begun
  <2>3. QED
    BY <2>2 DEF Begin, IdentityInv, GoogleInv, FlowsMet
<1>11. FlowsGrow
  BY <1>6, <1>8, <1>9, <1>10 DEF FlowsGrow
<1>12. PendingsKeep /\ PendingsMatch'
  BY <1>11, PendingsMatchKeeps DEF Begin, IdentityInv
<1>13. visit' \in [Tabs -> Visit] /\ VisitsFit'
  BY <1>11, <1>12, VisitsStay DEF Begin, IdentityInv
<1>14. AdmittedFit'
  BY AdmittedStay, EmailStays DEF Begin, IdentityInv
<1>15. QED
  BY <1>11, <1>12, <1>13, <1>14
     DEF Begin, GoogleInv, GoogleTypes, IdentityInv, FlowsGrow, PendingsKeep


LEMMA AnswerKeeps ==
  ASSUME IdentityInv, NEW f \in FlowIds, NEW sub \in Subs, Answer(f, sub)
  PROVE  GoogleInv'
<1>1. /\ f \in Begun /\ flows[f] \in Flow /\ flows[f].sub = 0
      /\ met' = met \cup {<<flows[f].browser, sub>>}
  BY BegunTypes DEF Answer, IdentityInv
<1> DEFINE row == [flows[f] EXCEPT !.sub = sub]
<1>2. flows' = [flows EXCEPT ![f] = row]
  BY DEF Answer
<1>3. sub \in 0..MaxSubs
  BY GoogleAssumption DEF Subs
<1>4. /\ row \in Flow /\ row.sub = sub /\ row.browser = flows[f].browser
      /\ row.account = flows[f].account
  BY <1>1, <1>3 DEF Flow
<1> HIDE DEF row
<1>5. FlowsGrow
  BY <1>1, <1>2, <1>4, FlowChanged DEF IdentityInv
<1>6. PendingsKeep /\ PendingsMatch'
  BY <1>5, PendingsMatchKeeps DEF Answer, IdentityInv
<1>7. visit' \in [Tabs -> Visit] /\ VisitsFit'
  BY <1>5, <1>6, VisitsStay DEF Answer, IdentityInv
<1>8. AdmittedFit'
  BY <1>1, AdmittedStay, EmailStays DEF Answer, IdentityInv
<1>9. met' \subseteq Browsers \X Subs
  BY <1>1 DEF IdentityInv, GoogleInv, GoogleTypes, Flow
<1>10. QED
  BY <1>5, <1>6, <1>7, <1>8, <1>9
     DEF Answer, GoogleInv, GoogleTypes, IdentityInv, FlowsGrow, PendingsKeep

(* A state that is spent, or lapses.                                       *)
LEMMA FlowClosed ==
  ASSUME GoogleInv, NEW f \in Begun, flows' = [flows EXCEPT ![f].open = FALSE], met' = met
  PROVE  FlowsGrow
<1>1. flows[f] \in Flow
  BY BegunTypes
<1> DEFINE no == FALSE
           row == [flows[f] EXCEPT !.open = no]
<1>2. flows' = [flows EXCEPT ![f] = row] /\ no \in BOOLEAN
  OBVIOUS
<1> HIDE DEF no
<1>3. /\ row \in Flow /\ row.sub = flows[f].sub /\ row.browser = flows[f].browser
      /\ row.account = flows[f].account
  BY <1>1, <1>2 DEF Flow
<1> HIDE DEF row
<1>4. row.sub # 0 => <<row.browser, row.sub>> \in met'
  BY <1>3 DEF GoogleInv, FlowsMet
<1>5. QED
  BY <1>2, <1>3, <1>4, FlowChanged

LEMMA CompleteKeeps ==
  ASSUME IdentityInv, NEW t \in Tabs, NEW f \in FlowIds, Complete(t, f)
  PROVE  GoogleInv' /\ visit[t].pc = "home" /\ \A d \in Tabs \ {t} : visit'[d] = visit[d]
<1>1. /\ f \in Begun /\ flows[f].sub # 0 /\ flows' = [flows EXCEPT ![f].open = FALSE]
      /\ pendings' = pendings /\ met' = met /\ admitted' = admitted /\ UNCHANGED emailVars
  BY DEF Complete, Taken
<1>2. FlowsGrow
  BY <1>1, FlowClosed DEF IdentityInv
<1>3. PendingsKeep /\ PendingsMatch'
  BY <1>1, <1>2, PendingsMatchKeeps DEF IdentityInv
<1>4. visit' \in [Tabs -> Visit] /\ VisitsFit' /\ \A d \in Tabs \ {t} : visit'[d] = visit[d]
  <2>1. CASE flows[f].browser = BrowserOf[t] /\ At(t, "exchange", f)
    <3>1. PICK v \in Visit : visit' = [visit EXCEPT ![t] = v] /\ v.pc = "exchange" /\ v.flow = f
      BY <2>1, Arrives
    <3>2. /\ visit' \in [Tabs -> Visit] /\ visit'[t] = v
          /\ \A d \in Tabs \ {t} : visit'[d] = visit[d]
      BY <3>1, VisitMoves DEF IdentityInv
    <3>3. f \in Begun' /\ flows'[f].browser = BrowserOf[t] /\ flows'[f].sub # 0
      BY <1>1, <1>2, <2>1 DEF FlowsGrow, FlowKept
    <3>4. VisitFits(t)'
      BY <3>1, <3>2, <3>3 DEF VisitFits
    <3>5. VisitsFit'
      BY <1>2, <1>3, <3>2, <3>4, VisitsKeep DEF IdentityInv
    <3>6. QED
      BY <3>2, <3>5
  <2>2. CASE visit' = visit
    BY <1>2, <1>3, <2>2, VisitsStay DEF IdentityInv
  <2>3. QED
    BY <2>1, <2>2 DEF Complete, OwnBrowser
<1>5. AdmittedFit'
  BY <1>1, AdmittedStay, EmailStays DEF IdentityInv
<1>6. GoogleInv'
  BY <1>1, <1>2, <1>3, <1>4, <1>5
     DEF GoogleInv, GoogleTypes, IdentityInv, FlowsGrow, PendingsKeep
<1>7. QED
  BY <1>4, <1>6 DEF Complete


LEMMA PendingChanged ==
  ASSUME GoogleInv, flows' = flows, NEW f \in Begun, NEW row \in Pending,
         row.browser = flows[f].browser, row.sub = flows[f].sub,
         pendings' = [pendings EXCEPT ![f] = row]
  PROVE  PendingsKeep /\ PendingsMatch'
<1>1. /\ pendings \in [FlowIds -> Pending \cup {None}] /\ f \in FlowIds /\ row # None
      /\ Begun' = Begun
  BY NoFlowAssumption DEF GoogleInv, GoogleTypes, Begun
<1>2. /\ pendings' \in [FlowIds -> Pending \cup {None}] /\ pendings'[f] = row
      /\ \A g \in FlowIds \ {f} : pendings'[g] = pendings[g]
  BY <1>1
<1>3. PendingsKeep
  BY <1>1, <1>2 DEF PendingsKeep
<1>4. PendingsMatch'
  BY <1>1, <1>2 DEF PendingsMatch, GoogleInv
<1>5. QED
  BY <1>3, <1>4

LEMMA RecogniseKeeps ==
  ASSUME IdentityInv, NEW t \in Tabs, Recognise(t)
  PROVE  /\ GoogleInv' /\ visit'[t].pc = "home"
         /\ \A d \in Tabs \ {t} : visit'[d] = visit[d]
<1>1. PICK f, sub : f = visit[t].flow /\ sub = Validated(f)
  OBVIOUS
<1>2. /\ f \in Begun /\ sub = flows[f].sub /\ sub \in Subs /\ flows[f].browser = BrowserOf[t]
      /\ flows[f] \in Flow /\ <<BrowserOf[t], sub>> \in met /\ BrowserOf[t] \in Browsers
  <2>1. f \in Begun /\ sub = flows[f].sub /\ sub # 0 /\ flows[f].browser = BrowserOf[t]
    BY <1>1 DEF Recognise, Validated, IdentityInv, GoogleInv, VisitsFit, VisitFits
  <2>2. flows[f] \in Flow /\ <<BrowserOf[t], sub>> \in met
    BY <2>1, BegunTypes DEF IdentityInv, GoogleInv, FlowsMet
  <2>3. sub \in Subs
    BY <2>1, <2>2, GoogleAssumption DEF Flow, Subs
  <2>4. QED
    BY <2>1, <2>2, <2>3, GoogleAssumption
<1> DEFINE right == IF flows[f].account = 0 THEN GoogleAccounts(sub)
                    ELSE GoogleAccounts(sub) \cap {flows[f].account}
<1>3. /\ flows' = flows /\ met' = met /\ UNCHANGED emailVars /\ Leave(t)
      /\ \/ admitted' = admitted \cup ({BrowserOf[t]} \X right) /\ pendings' = pendings
         \/ admitted' = admitted /\ pendings' = pendings
         \/ /\ admitted' = admitted
            /\ pendings' = [pendings EXCEPT ![f] =
                             [sub |-> sub, browser |-> BrowserOf[t], status |-> "open"]]
  BY <1>1 DEF Recognise
<1>4. \A a \in right : a \in Known /\ accounts[a].sub = sub /\ a \in AccountIds
  BY DEF GoogleAccounts, Known
<1> HIDE DEF right
<1>5. FlowsGrow
  BY <1>3, FlowsStay DEF IdentityInv
<1>6. PendingsKeep /\ PendingsMatch'
  <2>1. CASE pendings' = pendings
    BY <1>5, <2>1, PendingsMatchKeeps DEF IdentityInv
  <2>2. CASE pendings' = [pendings EXCEPT ![f] =
                           [sub |-> sub, browser |-> BrowserOf[t], status |-> "open"]]
    <3> DEFINE row == [sub |-> sub, browser |-> BrowserOf[t], status |-> "open"]
    <3>1. row \in Pending /\ row.browser = BrowserOf[t] /\ row.sub = sub
      BY <1>2 DEF Pending
    <3>2. pendings' = [pendings EXCEPT ![f] = row]
      BY <2>2
    <3> HIDE DEF row
    <3>3. QED
      BY <1>2, <1>3, <3>1, <3>2, PendingChanged DEF IdentityInv
  <2>3. QED
    BY <1>3, <2>1, <2>2
<1>7. /\ visit' \in [Tabs -> Visit] /\ VisitsFit' /\ visit'[t].pc = "home"
      /\ \A d \in Tabs \ {t} : visit'[d] = visit[d]
  BY <1>3, <1>5, <1>6, VisitLeaves DEF IdentityInv
<1>8. EmailInv' /\ Grown /\ Known' = Known /\ accounts' = accounts
  BY <1>3, EmailStays, AccountsStay DEF IdentityInv, emailVars
<1>9. AdmittedFit' /\ admitted' \subseteq Browsers \X AccountIds
  <2>1. ASSUME NEW p \in admitted'
        PROVE  /\ p[2] \in Known' /\ <<p[1], accounts'[p[2]].sub>> \in met'
               /\ p \in Browsers \X AccountIds
    <3>1. CASE p \in admitted
      BY <1>3, <1>8, <3>1 DEF IdentityInv, GoogleInv, GoogleTypes, AdmittedFit
    <3>2. CASE p \in {BrowserOf[t]} \X right
      BY <1>2, <1>3, <1>4, <1>8, <3>2
    <3>3. QED
      BY <1>3, <2>1, <3>1, <3>2
  <2>2. QED
    BY <2>1 DEF AdmittedFit
<1>10. GoogleInv'
  BY <1>3, <1>5, <1>6, <1>7, <1>9
     DEF GoogleInv, GoogleTypes, IdentityInv, FlowsGrow, PendingsKeep
<1>11. QED
  BY <1>7, <1>10

LEMMA SignUpKeeps ==
  ASSUME IdentityInv, NEW t \in Tabs, NEW f \in FlowIds, NEW n \in Names, SignUp(t, f, n)
  PROVE  /\ GoogleInv' /\ visit[t].pc = "home"
         /\ \A d \in Tabs \ {t} : visit'[d] = visit[d]
<1>1. /\ flows' = flows /\ met' = met /\ UNCHANGED emailVars /\ pendings' = pendings
      /\ admitted' = admitted /\ pendings[f] # None /\ pendings[f].browser = BrowserOf[t]
      /\ f \in Begun /\ flows[f].browser = BrowserOf[t]
  BY DEF SignUp, IdentityInv, GoogleInv, PendingsMatch
<1>2. FlowsGrow
  BY <1>1, FlowsStay DEF IdentityInv
<1>3. PendingsKeep /\ PendingsMatch'
  BY <1>1, <1>2, PendingsMatchKeeps DEF IdentityInv
<1> DEFINE v == [pc |-> "insert", flow |-> f, name |-> n]
<1>4. v \in Visit /\ v.pc = "insert" /\ v.flow = f
  <2>1. f \in 0..MaxFlows
    BY GoogleAssumption DEF FlowIds
  <2>2. QED
    BY <2>1 DEF Visit
<1>5. visit' = [visit EXCEPT ![t] = v]
  BY DEF SignUp
<1> HIDE DEF v
<1>6. /\ visit' \in [Tabs -> Visit] /\ visit'[t] = v
      /\ \A d \in Tabs \ {t} : visit'[d] = visit[d]
  BY <1>4, <1>5, VisitMoves DEF IdentityInv
<1>7. VisitFits(t)'
  BY <1>1, <1>4, <1>6 DEF VisitFits
<1>8. VisitsFit'
  BY <1>2, <1>3, <1>6, <1>7, VisitsKeep DEF IdentityInv
<1>9. AdmittedFit'
  BY <1>1, AdmittedStay, EmailStays DEF IdentityInv
<1>10. GoogleInv'
  BY <1>1, <1>2, <1>3, <1>6, <1>8, <1>9
     DEF GoogleInv, GoogleTypes, IdentityInv, FlowsGrow, PendingsKeep
<1>11. QED
  BY <1>6, <1>10 DEF SignUp


(* An account of Google's is inserted: its address is Google's to prove.   *)
LEMMA GoogleAccountInserted ==
  ASSUME EmailInv, NextAccount \in AccountIds, NEW n \in Names, NEW sub \in Subs,
         accounts' = InsertGoogleAccount(NextAccount, n, sub), UNCHANGED <<tokens, followed, call>>
  PROVE  /\ EmailInv' /\ Grown /\ NextAccount \in Known' /\ accounts'[NextAccount] # None
         /\ accounts'[NextAccount].sub = sub
<1>1. PICK a : a = NextAccount
  OBVIOUS
<1> DEFINE yes == TRUE
           e == GoogleEmail[sub]
           row == [name |-> n, provider |-> "google", email |-> e, verified |-> yes,
                   pending |-> None, sub |-> sub]
<1>2. accounts' = [accounts EXCEPT ![a] = row] /\ yes \in BOOLEAN /\ yes
  BY <1>1 DEF InsertGoogleAccount, NewAccount
<1>3. e \in Emails /\ sub \in Nat
  BY GoogleAssumption DEF Subs
<1> HIDE DEF yes, e
<1>4. row \in Account /\ row.provider = "google" /\ row.sub = sub
  BY <1>2, <1>3 DEF Account, Providers
<1> HIDE DEF row
<1>5. /\ Grown /\ Known' = Known \cup {a} /\ accounts'[a] = row
      /\ \A b \in Known : b # a /\ accounts'[b] = accounts[b]
  BY <1>1, <1>2, <1>4, AccountInserted
<1>6. Issued' = Issued
  BY DEF Issued
<1>7. \A t \in Issued' : LinkKept(t)
  BY <1>6 DEF LinkKept
<1>8. call' \in [Callers -> Call] /\ CallsFit'
  BY <1>5, CallsKeep
<1>9. AddressWasProven'
  BY <1>4, <1>5, ProvenKeeps
<1>10. LinksKnown' /\ LinksFit'
  BY <1>5, <1>7, LinksKeep
<1>11. ChangesFit' /\ OneChangeLink'
  <2>1. \A t \in Issued' : accounts'[tokens[t].account].pending = accounts[tokens[t].account].pending
    BY <1>5, <1>6 DEF EmailInv, LinksKnown
  <2>2. QED
    BY <1>7, <2>1, ChangesKeep
<1>12. EmailTypeOK'
  BY <1>5, <1>8, <1>11, EmailTypeKeeps DEF Grown, EmailInv, EmailTypeOK
<1>13. row # None
  BY <1>4, NoneAssumption
<1>14. QED
  BY <1>1, <1>4, <1>5, <1>8, <1>9, <1>10, <1>11, <1>12, <1>13 DEF EmailInv, Grown

(* The account that has the identity or the address of someone.            *)
HasAccount(sub) ==
  \E a \in AccountIds :
    accounts[a] # None /\ (accounts[a].sub = sub \/ accounts[a].email = GoogleEmail[sub])

LEMMA InsertKeeps ==
  ASSUME IdentityInv, NEW t \in Tabs, NEW sub, sub = pendings[visit[t].flow].sub, Insert(t)
  PROVE  /\ IdentityInv' /\ \A d \in Tabs \ {t} : visit'[d] = visit[d]
         /\ visit'[t].pc = "remove" => HasAccount(sub)'
<1>1. PICK f, n, a : /\ f = visit[t].flow /\ n = visit[t].name
                     /\ sub = pendings[f].sub /\ a = NextAccount
  OBVIOUS
<1>2. /\ f \in FlowIds /\ pendings[f] # None /\ flows[f].browser = BrowserOf[t] /\ f \in Begun
      /\ sub = flows[f].sub /\ sub \in Subs /\ n \in Names /\ <<BrowserOf[t], sub>> \in met
      /\ a \in AccountIds /\ BrowserOf[t] \in Browsers
  <2>1. f \in FlowIds /\ pendings[f] # None /\ flows[f].browser = BrowserOf[t]
    BY <1>1 DEF Insert, IdentityInv, GoogleInv, VisitsFit, VisitFits
  <2>2. f \in Begun /\ sub = flows[f].sub
    BY <1>1, <2>1 DEF IdentityInv, GoogleInv, PendingsMatch
  <2>3. sub \in Subs
    BY <1>1, <2>1 DEF IdentityInv, GoogleInv, GoogleTypes, Pending
  <2>4. n \in Names
    BY <1>1 DEF IdentityInv, GoogleInv, GoogleTypes, Visit
  <2>5. <<BrowserOf[t], sub>> \in met
    BY <2>1, <2>2, <2>3 DEF IdentityInv, GoogleInv, FlowsMet, Subs
  <2>6. QED
    BY <1>1, <2>1, <2>2, <2>3, <2>4, <2>5, GoogleAssumption DEF Insert
<1> DEFINE free == NameFree(n) /\ GoogleAccounts(sub) = {} /\ EmailFree(GoogleEmail[sub])
<1>3. /\ flows' = flows /\ pendings' = pendings /\ met' = met /\ UNCHANGED <<tokens, followed, call>>
      /\ \/ /\ accounts' = InsertGoogleAccount(a, n, sub) /\ admitted' = admitted \cup {<<BrowserOf[t], a>>}
            /\ At(t, "remove", f)
         \/ ~free /\ UNCHANGED <<accounts, admitted>> /\ ((NameFree(n) /\ At(t, "remove", f)) \/ Leave(t))
  BY <1>1 DEF Insert, GivesUp
<1>4. FlowsGrow
  BY <1>3, FlowsStay DEF IdentityInv
<1>5. PendingsKeep /\ PendingsMatch'
  BY <1>3, <1>4, PendingsMatchKeeps DEF IdentityInv
<1>6. ASSUME At(t, "remove", f)
      PROVE  /\ visit' \in [Tabs -> Visit] /\ VisitsFit'
             /\ \A d \in Tabs \ {t} : visit'[d] = visit[d]
  <2>1. PICK v \in Visit : visit' = [visit EXCEPT ![t] = v] /\ v.pc = "remove" /\ v.flow = f
    BY <1>2, <1>6, Arrives
  <2>2. /\ visit' \in [Tabs -> Visit] /\ visit'[t] = v
        /\ \A d \in Tabs \ {t} : visit'[d] = visit[d]
    BY <2>1, VisitMoves DEF IdentityInv
  <2>3. VisitFits(t)'
    BY <1>2, <1>3, <2>1, <2>2 DEF VisitFits
  <2>4. VisitsFit'
    BY <1>4, <1>5, <2>2, <2>3, VisitsKeep DEF IdentityInv
  <2>5. QED
    BY <2>2, <2>4
<1>7. CASE /\ accounts' = InsertGoogleAccount(a, n, sub) /\ admitted' = admitted \cup {<<BrowserOf[t], a>>}
           /\ At(t, "remove", f)
  <2>1. /\ EmailInv' /\ Grown /\ a \in Known' /\ accounts'[a] # None /\ accounts'[a].sub = sub
    BY <1>1, <1>2, <1>3, <1>7, GoogleAccountInserted DEF IdentityInv
  <2>2. AdmittedFit'
    <3>1. \A p \in admitted' :
            p \in admitted \/ (p[2] \in Known' /\ <<p[1], accounts'[p[2]].sub>> \in met')
      <4>1. \A p \in admitted' : p \in admitted \/ p = <<BrowserOf[t], a>>
        BY <1>7
      <4>2. /\ <<BrowserOf[t], a>>[1] = BrowserOf[t] /\ <<BrowserOf[t], a>>[2] = a
            /\ <<BrowserOf[t], accounts'[a].sub>> \in met'
        BY <1>2, <1>3, <2>1
      <4>3. QED
        BY <2>1, <4>1, <4>2
    <3>2. QED
      BY <1>3, <2>1, <3>1, AdmittedKeeps DEF IdentityInv
  <2>3. GoogleInv'
    BY <1>2, <1>3, <1>4, <1>5, <1>6, <1>7, <2>2
       DEF GoogleInv, GoogleTypes, IdentityInv, FlowsGrow, PendingsKeep
  <2>4. HasAccount(sub)'
    BY <1>2, <2>1 DEF HasAccount
  <2>5. QED
    BY <1>1, <1>3, <1>6, <1>7, <2>1, <2>3, <2>4 DEF IdentityInv, HasAccount
<1>8. CASE ~free /\ UNCHANGED <<accounts, admitted>> /\ ((NameFree(n) /\ At(t, "remove", f)) \/ Leave(t))
  <2>1. EmailInv' /\ Grown
    BY <1>3, <1>8, EmailStays DEF IdentityInv, emailVars
  <2>2. AdmittedFit'
    BY <1>3, <1>8, <2>1, AdmittedStay DEF IdentityInv
  <2>3. /\ visit' \in [Tabs -> Visit] /\ VisitsFit'
        /\ \A d \in Tabs \ {t} : visit'[d] = visit[d]
        /\ visit'[t].pc = "remove" => NameFree(n)
    BY <1>4, <1>5, <1>6, <1>8, VisitLeaves DEF IdentityInv
  <2>4. GoogleInv'
    BY <1>3, <1>4, <1>5, <1>8, <2>2, <2>3
       DEF GoogleInv, GoogleTypes, IdentityInv, FlowsGrow, PendingsKeep
  <2>5. NameFree(n) => HasAccount(sub)
    BY <1>8 DEF GoogleAccounts, EmailFree, HasAccount, Known
  <2>6. QED
    BY <1>1, <1>3, <1>8, <2>1, <2>3, <2>4, <2>5 DEF IdentityInv, HasAccount
<1>9. QED
  BY <1>3, <1>7, <1>8


LEMMA RemovePendingKeeps ==
  ASSUME IdentityInv, NEW t \in Tabs, RemovePending(t)
  PROVE  /\ GoogleInv' /\ visit'[t].pc = "home"
         /\ \A d \in Tabs \ {t} : visit'[d] = visit[d]
<1>1. PICK f : f = visit[t].flow
  OBVIOUS
<1>2. /\ f \in FlowIds /\ pendings[f] # None /\ pendings[f] \in Pending /\ f \in Begun
      /\ pendings[f].browser = flows[f].browser /\ pendings[f].sub = flows[f].sub
  <2>1. f \in FlowIds /\ pendings[f] # None
    BY <1>1 DEF RemovePending, IdentityInv, GoogleInv, VisitsFit, VisitFits
  <2>2. QED
    BY <2>1 DEF IdentityInv, GoogleInv, GoogleTypes, PendingsMatch
<1>3. /\ flows' = flows /\ met' = met /\ admitted' = admitted /\ UNCHANGED emailVars /\ Leave(t)
      /\ \/ pendings' = [pendings EXCEPT ![f] = [pendings[f] EXCEPT !.status = "removed"]]
         \/ pendings' = pendings
  BY <1>1 DEF RemovePending
<1>4. FlowsGrow
  BY <1>3, FlowsStay DEF IdentityInv
<1>5. PendingsKeep /\ PendingsMatch'
  <2>1. CASE pendings' = [pendings EXCEPT ![f] = [pendings[f] EXCEPT !.status = "removed"]]
    <3> DEFINE row == [pendings[f] EXCEPT !.status = "removed"]
    <3>1. row \in Pending /\ row.browser = pendings[f].browser /\ row.sub = pendings[f].sub
      BY <1>2 DEF Pending
    <3>2. pendings' = [pendings EXCEPT ![f] = row]
      BY <2>1
    <3> HIDE DEF row
    <3>3. QED
      BY <1>2, <1>3, <3>1, <3>2, PendingChanged DEF IdentityInv
  <2>2. CASE pendings' = pendings
    BY <1>4, <2>2, PendingsMatchKeeps DEF IdentityInv
  <2>3. QED
    BY <1>3, <2>1, <2>2
<1>6. /\ visit' \in [Tabs -> Visit] /\ VisitsFit' /\ visit'[t].pc = "home"
      /\ \A d \in Tabs \ {t} : visit'[d] = visit[d]
  BY <1>3, <1>4, <1>5, VisitLeaves DEF IdentityInv
<1>7. AdmittedFit'
  BY <1>3, AdmittedStay, EmailStays DEF IdentityInv
<1>8. QED
  BY <1>3, <1>4, <1>5, <1>6, <1>7
     DEF GoogleInv, GoogleTypes, IdentityInv, FlowsGrow, PendingsKeep

LEMMA BreakKeeps ==
  ASSUME IdentityInv, NEW t \in Tabs, Break(t)
  PROVE  /\ GoogleInv' /\ visit'[t].pc = "home"
         /\ \A d \in Tabs \ {t} : visit'[d] = visit[d]
<1>1. /\ flows' = flows /\ met' = met /\ admitted' = admitted /\ UNCHANGED emailVars
      /\ pendings' = pendings /\ Leave(t)
  BY DEF Break
<1>2. FlowsGrow
  BY <1>1, FlowsStay DEF IdentityInv
<1>3. PendingsKeep /\ PendingsMatch'
  BY <1>1, <1>2, PendingsMatchKeeps DEF IdentityInv
<1>4. /\ visit' \in [Tabs -> Visit] /\ VisitsFit' /\ visit'[t].pc = "home"
      /\ \A d \in Tabs \ {t} : visit'[d] = visit[d]
  BY <1>1, <1>2, <1>3, VisitLeaves DEF IdentityInv
<1>5. AdmittedFit'
  BY <1>1, AdmittedStay, EmailStays DEF IdentityInv
<1>6. QED
  BY <1>1, <1>2, <1>3, <1>4, <1>5
     DEF GoogleInv, GoogleTypes, IdentityInv, FlowsGrow, PendingsKeep

LEMMA LapseKeeps ==
  ASSUME IdentityInv, NEW f \in FlowIds, Lapse(f)
  PROVE  GoogleInv'
<1>1. /\ met' = met /\ admitted' = admitted /\ visit' = visit /\ UNCHANGED emailVars
      /\ \/ f \in Begun /\ flows' = [flows EXCEPT ![f].open = FALSE] /\ pendings' = pendings
         \/ /\ pendings[f] # None /\ flows' = flows
            /\ pendings' = [pendings EXCEPT ![f].status = "expired"]
  BY DEF Lapse
<1>2. FlowsGrow
  BY <1>1, FlowClosed, FlowsStay DEF IdentityInv
<1>3. PendingsKeep /\ PendingsMatch'
  <2>1. CASE pendings' = pendings
    BY <1>2, <2>1, PendingsMatchKeeps DEF IdentityInv
  <2>2. CASE /\ pendings[f] # None /\ flows' = flows
             /\ pendings' = [pendings EXCEPT ![f].status = "expired"]
    <3> DEFINE row == [pendings[f] EXCEPT !.status = "expired"]
    <3>1. /\ pendings[f] \in Pending /\ f \in Begun
          /\ pendings[f].browser = flows[f].browser /\ pendings[f].sub = flows[f].sub
      BY <2>2 DEF IdentityInv, GoogleInv, GoogleTypes, PendingsMatch
    <3>2. row \in Pending /\ row.browser = pendings[f].browser /\ row.sub = pendings[f].sub
      BY <3>1 DEF Pending
    <3>3. pendings' = [pendings EXCEPT ![f] = row]
      BY <2>2
    <3> HIDE DEF row
    <3>4. QED
      BY <2>2, <3>1, <3>2, <3>3, PendingChanged DEF IdentityInv
  <2>3. QED
    BY <1>1, <2>1, <2>2
<1>4. visit' \in [Tabs -> Visit] /\ VisitsFit'
  BY <1>1, <1>2, <1>3, VisitsStay DEF IdentityInv
<1>5. AdmittedFit'
  BY <1>1, AdmittedStay, EmailStays DEF IdentityInv
<1>6. QED
  BY <1>1, <1>2, <1>3, <1>4, <1>5
     DEF GoogleInv, GoogleTypes, IdentityInv, FlowsGrow, PendingsKeep

------------------------------------------------------------------------------
(* The theorems.                                                           *)

LEMMA IdentityStart ==
  ASSUME IdentityInit
  PROVE  IdentityInv
<1>1. EmailInv
  BY EmailStart DEF IdentityInit
<1>2. Begun = {} /\ Cardinality({}) = 0
  BY FS_EmptySet DEF IdentityInit, GoogleInit, Begun
<1>3. GoogleTypes
  BY AwayType DEF IdentityInit, GoogleInit, GoogleTypes
<1>4. VisitsFit
  BY AwayType DEF IdentityInit, GoogleInit, VisitsFit, VisitFits
<1>5. FlowsInOrder /\ FlowsMet /\ PendingsMatch /\ AdmittedFit
  BY <1>2 DEF FlowsInOrder, FlowsMet, PendingsMatch, AdmittedFit, IdentityInit, GoogleInit
<1>6. QED
  BY <1>1, <1>3, <1>4, <1>5 DEF IdentityInv, GoogleInv

(* Of the requests that register, whose step this may be.                  *)
SignUpKept(t) ==
  visit[t].pc = "insert" /\ visit'[t].pc = "remove" =>
    LET sub == pendings[visit[t].flow].sub
    IN  \E a \in AccountIds :
          /\ accounts'[a] # None
          /\ accounts'[a].sub = sub \/ accounts'[a].email = GoogleEmail[sub]

LEMMA GoogleStepKeeps ==
  ASSUME IdentityInv, NEW t \in Tabs, GoogleStep(t)
  PROVE  IdentityInv' /\ \A d \in Tabs : SignUpKept(d)
<1>1. ASSUME NEW d \in Tabs, visit'[d] = visit[d] \/ visit[d].pc = "home" \/ visit'[d].pc = "home"
      PROVE  SignUpKept(d)
  BY <1>1 DEF SignUpKept
<1>2. ASSUME NEW f \in FlowIds, Complete(t, f)
      PROVE  IdentityInv' /\ \A d \in Tabs : SignUpKept(d)
  BY <1>1, <1>2, CompleteKeeps, EmailStays DEF Complete, IdentityInv
<1>3. ASSUME NEW f \in FlowIds, NEW n \in Names, SignUp(t, f, n)
      PROVE  IdentityInv' /\ \A d \in Tabs : SignUpKept(d)
  BY <1>1, <1>3, SignUpKeeps, EmailStays DEF SignUp, IdentityInv
<1>4. CASE Recognise(t)
  BY <1>1, <1>4, RecogniseKeeps, EmailStays DEF Recognise, IdentityInv
<1>5. CASE Insert(t)
  <2>1. PICK sub : sub = pendings[visit[t].flow].sub
    OBVIOUS
  <2>2. /\ IdentityInv' /\ \A d \in Tabs \ {t} : visit'[d] = visit[d]
        /\ visit'[t].pc = "remove" => HasAccount(sub)'
    BY <1>5, <2>1, InsertKeeps
  <2>3. SignUpKept(t)
    BY <2>1, <2>2 DEF SignUpKept, HasAccount
  <2>4. QED
    BY <1>1, <2>2, <2>3
<1>6. CASE RemovePending(t)
  BY <1>1, <1>6, RemovePendingKeeps, EmailStays DEF RemovePending, IdentityInv
<1>7. CASE Break(t)
  BY <1>1, <1>7, BreakKeeps, EmailStays DEF Break, IdentityInv
<1>8. QED
  BY <1>2, <1>3, <1>4, <1>5, <1>6, <1>7 DEF GoogleStep

LEMMA IdentityStep ==
  ASSUME IdentityInv, [IdentityNext]_identityVars
  PROVE  IdentityInv' /\ \A d \in Tabs : SignUpKept(d)
<1>1. ASSUME visit' = visit PROVE \A d \in Tabs : SignUpKept(d)
  BY <1>1 DEF SignUpKept
<1>2. CASE EmailNext /\ UNCHANGED googleVars
  <2>1. EmailInv' /\ Grown
    BY <1>2, EmailStep DEF IdentityInv
  <2>2. GoogleInv'
    BY <1>2, <2>1, EmailLeavesGoogle
  <2>3. QED
    BY <1>1, <1>2, <2>1, <2>2 DEF IdentityInv, googleVars
<1>3. ASSUME NEW t \in Tabs, GoogleStep(t)
      PROVE  IdentityInv' /\ \A d \in Tabs : SignUpKept(d)
  BY <1>3, GoogleStepKeeps
<1>4. ASSUME NEW f \in FlowIds, Lapse(f)
      PROVE  IdentityInv' /\ \A d \in Tabs : SignUpKept(d)
  BY <1>1, <1>4, LapseKeeps, EmailStays DEF Lapse, IdentityInv
<1>5. ASSUME NEW f \in FlowIds, NEW sub \in Subs, Answer(f, sub)
      PROVE  IdentityInv' /\ \A d \in Tabs : SignUpKept(d)
  BY <1>1, <1>5, AnswerKeeps, EmailStays DEF Answer, IdentityInv
<1>6. CASE UNCHANGED identityVars
  <2>1. EmailInv' /\ Grown
    BY <1>6, EmailStays DEF IdentityInv, identityVars
  <2>2. GoogleInv'
    BY <1>6, <2>1, EmailLeavesGoogle DEF identityVars
  <2>3. QED
    BY <1>1, <1>6, <2>1, <2>2 DEF IdentityInv, identityVars, googleVars
<1>7. ASSUME NEW b \in Browsers, NEW a \in 0..MaxAccounts, Begin(b, a)
      PROVE  IdentityInv' /\ \A d \in Tabs : SignUpKept(d)
  BY <1>1, <1>7, BeginKeeps, EmailStays DEF Begin, IdentityInv
<1>8. QED
  BY <1>2, <1>3, <1>4, <1>5, <1>6, <1>7 DEF IdentityNext


(* At every reachable state the inductive invariant holds.                 *)
THEOREM IdentityInductive == IdentitySpec => []IdentityInv
<1>1. IdentityInit => IdentityInv
  BY IdentityStart
<1>2. IdentityInv /\ [IdentityNext]_identityVars => IdentityInv'
  BY IdentityStep
<1>3. QED
  BY <1>1, <1>2, PTL DEF IdentitySpec

(* Accounts, links, flows, registrations and requests keep their types, and*)
(* a link that can still change an address is for the address now pending. *)
THEOREM IdentityTypes == IdentitySpec => []IdentityTypeOK
<1>1. IdentityInv => IdentityTypeOK
  BY DEF IdentityInv, EmailInv, GoogleInv, GoogleTypes, IdentityTypeOK
<1>2. QED
  BY <1>1, IdentityInductive, PTL

(* An address is verified by a link that was sent to it and followed,      *)
(* whatever registrations, changes, lost races and sign-ups with Google    *)
(* were between (verifyEmail, confirmEmailChange).                         *)
THEOREM AddressesAreProven == IdentitySpec => []AddressWasProven
<1>1. IdentityInv => AddressWasProven
  BY DEF IdentityInv, EmailInv
<1>2. QED
  BY <1>1, IdentityInductive, PTL

(* A browser that is signed in with Google began a flow in which the person*)
(* of the account authenticated (complete, register).                      *)
THEOREM AdmittedAreMet == IdentitySpec => []AdmittedWhoWasMet
<1>1. IdentityInv => AdmittedWhoWasMet
  BY DEF IdentityInv, GoogleInv, AdmittedFit, AdmittedWhoWasMet
<1>2. QED
  BY <1>1, IdentityInductive, PTL

(* A registration is given up only for an account that has its identity or *)
(* its address, and never for a username that was taken (register).        *)
THEOREM SignUpsAreKept == IdentitySpec => SignUpsAreNotLost
<1>1. IdentityInv /\ [IdentityNext]_identityVars => \A t \in Tabs : SignUpKept(t)
  BY IdentityStep
<1>2. IdentityInv /\ [IdentityNext]_identityVars =>
        [\A t \in Tabs :
           visit[t].pc = "insert" /\ visit'[t].pc = "remove" =>
             LET sub == pendings[visit[t].flow].sub
             IN  \E a \in AccountIds :
                   /\ accounts'[a] # None
                   /\ accounts'[a].sub = sub \/ accounts'[a].email = GoogleEmail[sub]]_identityVars
  BY <1>1 DEF SignUpKept
<1>3. QED
  BY <1>2, IdentityInductive, PTL DEF IdentitySpec, SignUpsAreNotLost
==============================================================================
