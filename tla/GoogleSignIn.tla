---------------------------- MODULE GoogleSignIn ----------------------------
(***************************************************************************)
(* Signing in and signing up with Google (google-sign-in.service.js,       *)
(* flow-secret-store.js, the callback of account.route.js), beside the     *)
(* password accounts of AccountEmail, with whose addresses and names theirs*)
(* compete.                                                                *)
(*                                                                         *)
(* A flow is begun in a browser, goes to Google, and comes back as a URL   *)
(* that may be loaded twice, late, or in another browser. Its state, and   *)
(* the registration left pending when no account is found, are secrets in  *)
(* Redis; the account is inserted in MySQL. Who authenticates at Google,   *)
(* and with what address, is Google's.                                     *)
(***************************************************************************)
EXTENDS AccountEmail

CONSTANTS Browsers,     \* by their pa_uid
          Tabs, BrowserOf,
          MaxSubs,      \* Google's subjects are 1..MaxSubs
          GoogleEmail,  \* the address Google has verified for each
          MaxFlows      \* bound on the flows ever begun

ASSUME GoogleAssumption ==
  /\ MaxSubs \in Nat /\ MaxFlows \in Nat /\ GoogleEmail \in [1..MaxSubs -> Emails]
  /\ BrowserOf \in [Tabs -> Browsers]

VARIABLES
  flows,      \* oauth-state:google, in the order they were begun
  pendings,   \* pending-registration:google, one for each flow at most
  met,        \* who has authenticated at Google in a flow of which browser
  admitted,   \* who signed in, or was re-authenticated, in which browser
  visit       \* where the request of each tab stands

googleVars == <<flows, pendings, met, admitted, visit>>
identityVars == <<emailVars, googleVars>>

Subs == 1..MaxSubs
FlowIds == 1..MaxFlows

(* For a re-authentication, the account it is for; 0 for a sign-in. sub: 0 *)
(* until Google has answered.                                              *)
Flow == [browser : Browsers, account : 0..MaxAccounts, sub : 0..MaxSubs, open : BOOLEAN]
Pending == [sub : Subs, browser : Browsers, status : {"open", "removed", "expired"}]
Visit == [pc : {"home", "exchange", "insert", "remove"}, flow : 0..MaxFlows, name : Names]

ASSUME NoFlowAssumption == None \notin Flow \cup Pending

Away == [pc |-> "home", flow |-> 0, name |-> AnyName]

GoogleInit ==
  /\ flows = [f \in FlowIds |-> None]
  /\ pendings = [f \in FlowIds |-> None]
  /\ met = {}
  /\ admitted = {}
  /\ visit = [t \in Tabs |-> Away]

IdentityInit == EmailInit /\ GoogleInit

------------------------------------------------------------------------------
Begun == {f \in FlowIds : flows[f] # None}
At(t, label, f) == visit' = [visit EXCEPT ![t] = [Away EXCEPT !.pc = label, !.flow = f]]
Leave(t) == visit' = [visit EXCEPT ![t] = Away]

(* findGoogleAccount.                                                      *)
GoogleAccounts(sub) == {a \in Known : accounts[a].provider = "google" /\ accounts[a].sub = sub}

(* begin, and beginReauth for the account signed in here.                  *)
Begin(b, a) ==
  LET f == Cardinality(Begun) + 1
  IN  /\ f \in FlowIds
      /\ a # 0 => <<b, a>> \in admitted
      /\ flows' = [flows EXCEPT ![f] =
           [browser |-> b, account |-> a, sub |-> 0, open |-> TRUE]]
      /\ UNCHANGED <<emailVars, pendings, met, admitted, visit>>

(* Google sends the browser back for someone who authenticated there.      *)
Answer(f, sub) ==
  /\ f \in Begun
  /\ flows[f].sub = 0
  /\ flows' = [flows EXCEPT ![f].sub = sub]
  /\ met' = met \cup {<<flows[f].browser, sub>>}
  /\ UNCHANGED <<emailVars, pendings, admitted, visit>>

(* secrets.take is one GETDEL.                                             *)
Taken(f) == [flows EXCEPT ![f].open = FALSE]

(* The flow belongs to the browser it was begun in; broken: to any.        *)
AnyBrowser(f, b) == TRUE
OwnBrowser(f, b) == flows[f].browser = b

(* complete: the state is spent before anything else is looked at.         *)
Complete(t, f) ==
  /\ visit[t].pc = "home"
  /\ f \in Begun
  /\ flows[f].sub # 0
  /\ flows[f].open
  /\ flows' = Taken(f)
  /\ IF OwnBrowser(f, BrowserOf[t]) THEN At(t, "exchange", f) ELSE UNCHANGED visit
  /\ UNCHANGED <<emailVars, pendings, met, admitted>>

(* validateGoogleIdToken: whose token it is, once its issuer, audience,    *)
(* nonce, age and verified address have been checked.                      *)
Validated(f) == flows[f].sub

(* After exchangeCode and validateGoogleIdToken: an existing account signs *)
(* in (or is re-authenticated, if it is the one); an address in use ends   *)
(* the flow; anyone else may choose a username.                            *)
Recognise(t) ==
  LET f == visit[t].flow
      b == BrowserOf[t]
      sub == Validated(f)
      own == GoogleAccounts(sub)
      right == IF flows[f].account = 0 THEN own ELSE own \cap {flows[f].account}
  IN  /\ visit[t].pc = "exchange"
      /\ IF right # {}
         THEN /\ admitted' = admitted \cup ({b} \X right)
              /\ UNCHANGED pendings
         ELSE IF flows[f].account # 0 \/ EmailIsTaken(GoogleEmail[sub])
         THEN UNCHANGED <<pendings, admitted>>
         ELSE /\ pendings' = [pendings EXCEPT ![f] =
                   [sub |-> sub, browser |-> b, status |-> "open"]]
              /\ UNCHANGED admitted
      /\ Leave(t)
      /\ UNCHANGED <<emailVars, flows, met>>

------------------------------------------------------------------------------
(* register: the pending registration is peeked at ...                     *)
SignUp(t, f, n) ==
  /\ visit[t].pc = "home"
  /\ pendings[f] # None
  /\ pendings[f].status = "open"
  /\ pendings[f].browser = BrowserOf[t]
  /\ visit' = [visit EXCEPT ![t] = [pc |-> "insert", flow |-> f, name |-> n]]
  /\ UNCHANGED <<emailVars, flows, pendings, met, admitted>>

(* ... the user and the Google account inserted in one transaction, under  *)
(* the unique keys of both. A taken username leaves the registration for   *)
(* another try; broken: it is removed then too.                            *)
GivesUpAtOnce(n, sub) == TRUE
GivesUp(n, sub) == NameFree(n)

InsertGoogleAccount(a, n, sub) ==
  [accounts EXCEPT ![a] = NewAccount(n, "google", GoogleEmail[sub], TRUE, sub)]

Insert(t) ==
  LET f == visit[t].flow
      n == visit[t].name
      sub == pendings[f].sub
      a == NextAccount
      free == NameFree(n) /\ GoogleAccounts(sub) = {} /\ EmailFree(GoogleEmail[sub])
  IN  /\ visit[t].pc = "insert"
      /\ a \in AccountIds
      /\ IF free
         THEN /\ accounts' = InsertGoogleAccount(a, n, sub)
              /\ admitted' = admitted \cup {<<BrowserOf[t], a>>}
         ELSE UNCHANGED <<accounts, admitted>>
      /\ IF free \/ GivesUp(n, sub) THEN At(t, "remove", f) ELSE Leave(t)
      /\ UNCHANGED <<tokens, followed, call, flows, pendings, met>>

RemovePending(t) ==
  LET f == visit[t].flow
  IN  /\ visit[t].pc = "remove"
      /\ pendings' = IF pendings[f].status = "open"
                     THEN [pendings EXCEPT ![f].status = "removed"] ELSE pendings
      /\ Leave(t)
      /\ UNCHANGED <<emailVars, flows, met, admitted>>

(* Ten minutes for a state, fifteen for a registration.                    *)
Lapse(f) ==
  /\ \/ /\ f \in Begun /\ flows[f].open
        /\ flows' = [flows EXCEPT ![f].open = FALSE]
        /\ UNCHANGED pendings
     \/ /\ pendings[f] # None /\ pendings[f].status = "open"
        /\ pendings' = [pendings EXCEPT ![f].status = "expired"]
        /\ UNCHANGED flows
  /\ UNCHANGED <<emailVars, met, admitted, visit>>

(* The exchange, the validation or a statement fails; the process dies.    *)
Break(t) ==
  /\ visit[t].pc # "home"
  /\ Leave(t)
  /\ UNCHANGED <<emailVars, flows, pendings, met, admitted>>

------------------------------------------------------------------------------
GoogleStep(t) ==
  \/ \E f \in FlowIds : Complete(t, f)
  \/ \E f \in FlowIds, n \in Names : SignUp(t, f, n)
  \/ Recognise(t) \/ Insert(t) \/ RemovePending(t) \/ Break(t)

IdentityNext ==
  \/ EmailNext /\ UNCHANGED googleVars
  \/ \E b \in Browsers, a \in 0..MaxAccounts : Begin(b, a)
  \/ \E t \in Tabs : GoogleStep(t)
  \/ \E f \in FlowIds : Lapse(f) \/ \E sub \in Subs : Answer(f, sub)

IdentitySpec == IdentityInit /\ [][IdentityNext]_identityVars

------------------------------------------------------------------------------
(* Properties.                                                             *)

(* The values every variable ranges over.                                  *)
IdentityTypeOK ==
  /\ EmailTypeOK
  /\ flows \in [FlowIds -> Flow \cup {None}]
  /\ pendings \in [FlowIds -> Pending \cup {None}]
  /\ met \subseteq Browsers \X Subs
  /\ admitted \subseteq Browsers \X AccountIds
  /\ visit \in [Tabs -> Visit]

(* A browser is signed in to a Google account, or confirms its deletion,   *)
(* only when the person of that account has authenticated in a flow this   *)
(* browser began, wherever the callback and the username form were loaded. *)
AdmittedWhoWasMet ==
  \A p \in admitted : <<p[1], accounts[p[2]].sub>> \in met

(* A registration is given up only once an account has its identity or its *)
(* address: a taken username, also one taken in a race, does not cost it,  *)
(* nor does the same form submitted from two tabs.                         *)
SignUpsAreNotLost ==
  [][\A t \in Tabs :
       visit[t].pc = "insert" /\ visit'[t].pc = "remove" =>
         LET sub == pendings[visit[t].flow].sub
         IN  \E a \in AccountIds :
               /\ accounts'[a] # None
               /\ accounts'[a].sub = sub \/ accounts'[a].email = GoogleEmail[sub]]_identityVars
==============================================================================
