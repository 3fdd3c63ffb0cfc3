--------------------------- MODULE BrowserIdentity ---------------------------
(***************************************************************************)
(* Whose progress a page shows and whose a save on it changes: the pa_uid  *)
(* cookie and its mirror in localStorage (bootstrap.js), the hydration and *)
(* the save of a word page (viewer-state.js), and on the server the        *)
(* middleware in the order app.js mounts it - identity, swap of retired    *)
(* identities, session, CSRF check - before the routes. Tabs of one        *)
(* browser share its cookies; a request carries them as they were when it  *)
(* was sent, and an answer sets them when it arrives.                      *)
(***************************************************************************)
EXTENDS Naturals, FiniteSets

CONSTANTS
  Pages,         \* tabs of the browser
  People,        \* accounts that sign in from it
  MaxIds,        \* bound: identities the server mints
  MaxSignIns,    \* bound: sessions started
  MaxVisits,     \* bound: pages opened
  Nothing        \* no cookie, no mirror, no token

ASSUME IdentityBounds == MaxIds \in Nat /\ MaxSignIns \in Nat /\ MaxVisits \in Nat

Ids == 1..MaxIds
SessionIds == 1..MaxSignIns
IdOrNothing == Ids \cup {Nothing}
SidOrNothing == SessionIds \cup {Nothing}

(* What a CSRF token is computed over, and who progress belongs to.        *)
Subjects == [anonymous : Ids] \cup [session : SessionIds]
PersonOwner(u) == [person |-> u]
AnonOwner(a) == [anonymous |-> a]
ProgressOwners == {PersonOwner(u) : u \in People} \cup {AnonOwner(a) : a \in Ids}

ASSUME NothingAssumption == Nothing \notin Ids \cup SessionIds \cup People \cup Subjects

VARIABLES
  jar,       \* [uid, sid]: the two cookies
  mirror,    \* pa_uid in localStorage
  minted,    \* how many identities there are: 1..minted
  retired,   \* identities bound to an account
  profiled,  \* identities with a progress profile
  signIns,   \* sequence numbers of sessions, to the person, Nothing once over
  begun,     \* how many sessions were started: 1..begun
  page,      \* [at, step, token, shows] of each tab
  wire,      \* the request or the answer a tab waits for
  visits,    \* how many pages were opened
  landed,    \* ghost: saves accepted, as <<owner shown, owner written, retired>>
  crowded    \* ghost: two tabs have been open at once

browserVars == <<jar, mirror, minted, retired, profiled, signIns, begun, page,
                 wire, visits, landed, crowded>>

Blank == [at |-> "closed", step |-> "ready", token |-> Nothing, shows |-> Nothing]
Quiet == [kind |-> "none"]

BrowserInit ==
  /\ jar = [uid |-> Nothing, sid |-> Nothing]
  /\ mirror = Nothing
  /\ minted = 0 /\ begun = 0
  /\ retired = {} /\ profiled = {}
  /\ signIns = [s \in SessionIds |-> Nothing]
  /\ page = [t \in Pages |-> Blank]
  /\ wire = [t \in Pages |-> Quiet]
  /\ visits = 0
  /\ landed = {}
  /\ crowded = FALSE

serverVars == <<minted, retired, profiled, signIns, begun, landed>>
openVars == <<visits, crowded>>
clientVars == <<jar, mirror, page, openVars>>

-----------------------------------------------------------------------------
(* The server's reading of a request: the identity it acts for, whether the*)
(* identity had to be minted, the live session.                            *)

AsPresented(r) == r.uid # Nothing

Carried(r) == r.uid # Nothing /\ r.uid \notin retired

Fresh1 == minted + 1

(* ensureAnonymousId: what the answer's Set-Cookie carries.                *)
Identity(r) == IF Carried(r) THEN r.uid ELSE Fresh1

MayMint(r) == Carried(r) \/ minted < MaxIds

MintedAfter(r) == IF Carried(r) THEN minted ELSE Fresh1

Live(r) == r.sid # Nothing /\ signIns[r.sid] # Nothing

Acting(r) == IF Live(r) THEN PersonOwner(signIns[r.sid]) ELSE AnonOwner(Identity(r))

Subject(r) == IF Live(r) THEN [session |-> r.sid] ELSE [anonymous |-> Identity(r)]

(* verifyCsrfTokenFor. A retired identity that was presented has been      *)
(* replaced by one no token was issued for; a request that carried none has*)
(* no subject at all.                                                      *)
TokenHolds(r) == (Live(r) \/ r.uid # Nothing) /\ r.token = Subject(r)

Request(kind, token) == [kind |-> kind, way |-> "out", uid |-> jar.uid,
                         sid |-> jar.sid, token |-> token, person |-> Nothing]

Answer(r, uid, sid, token, shows) ==
  [kind |-> r.kind, way |-> "back", uid |-> uid, sid |-> sid, token |-> token,
   shows |-> shows]

Waiting(t, kind, way) == wire[t].kind = kind /\ wire[t].way = way

-----------------------------------------------------------------------------
(* Pages                                                                   *)

(* A word page is the shared shell: it comes from the edge, without        *)
(* cookies. Every other page is an uncached request to the origin.         *)
Open(t) ==
  /\ page[t] = Blank
  /\ visits < MaxVisits
  /\ visits' = visits + 1
  /\ \/ page' = [page EXCEPT ![t] = [Blank EXCEPT !.at = "word", !.step = "loaded"]]
        /\ UNCHANGED wire
     \/ page' = [page EXCEPT ![t] = [Blank EXCEPT !.at = "form", !.step = "waits"]]
        /\ wire' = [wire EXCEPT ![t] = Request("document", Nothing)]
  /\ crowded' = (crowded \/ \E o \in Pages \ {t} : page[o] # Blank)
  /\ UNCHANGED <<jar, mirror, serverVars>>

(* A page with a sign-in or sign-out form; the form carries a token.       *)
ServeDocument(t) ==
  /\ Waiting(t, "document", "out")
  /\ LET r == wire[t] IN
     /\ MayMint(r)
     /\ minted' = MintedAfter(r)
     /\ wire' = [wire EXCEPT ![t] = Answer(r, Identity(r), r.sid, Subject(r), Nothing)]
  /\ UNCHANGED <<clientVars, retired, profiled, signIns, begun, landed>>

(* syncAnonymousIdentity: the mirror wins over the cookie, a cookie without*)
(* a mirror is mirrored.                                                   *)
CookieFirst == IF jar.uid # Nothing THEN jar.uid ELSE mirror

Synced == IF mirror # Nothing THEN mirror ELSE jar.uid

(* The scripts of a loaded page: bootstrap.js before anything else, then on*)
(* a word page the hydration read.                                         *)
RunScripts(t) ==
  /\ page[t].step = "loaded"
  /\ jar' = [jar EXCEPT !.uid = Synced]
  /\ mirror' = IF mirror = Nothing THEN Synced ELSE mirror
  /\ IF page[t].at = "word"
     THEN /\ page' = [page EXCEPT ![t].step = "waits"]
          /\ wire' = [wire EXCEPT ![t] =
                        [Request("hydration", Nothing) EXCEPT !.uid = Synced]]
     ELSE /\ page' = [page EXCEPT ![t].step = "ready"]
          /\ UNCHANGED wire
  /\ UNCHANGED <<openVars, serverVars>>

(* GET /viewer-state: shows the owner's state, hands out a token for the   *)
(* same identity, sets the cookie, writes nothing.                         *)
ServeHydration(t) ==
  /\ Waiting(t, "hydration", "out")
  /\ LET r == wire[t] IN
     /\ MayMint(r)
     /\ minted' = MintedAfter(r)
     /\ wire' = [wire EXCEPT ![t] = Answer(r, Identity(r), r.sid, Subject(r), Acting(r))]
  /\ UNCHANGED <<clientVars, retired, profiled, signIns, begun, landed>>

(* An answer arrives and its cookies are set; only sign-in and sign-out set*)
(* the session's. The page that signed in or out is left; so is one that is*)
(* replaced by an error page.                                              *)
Receive(t) ==
  /\ wire[t].kind # "none" /\ wire[t].way = "back"
  /\ LET a == wire[t] IN
     /\ jar' = [uid |-> a.uid,
                sid |-> IF a.kind \in {"signIn", "signOut"} THEN a.sid ELSE jar.sid]
     /\ page' = [page EXCEPT ![t] =
          CASE a.kind = "document" -> [@ EXCEPT !.step = "loaded", !.token = a.token]
            [] a.kind = "hydration" ->
                 [@ EXCEPT !.step = "read", !.token = a.token, !.shows = a.shows]
            [] a.kind = "save" -> [@ EXCEPT !.step = "ready"]
            [] OTHER -> Blank]
     /\ wire' = [wire EXCEPT ![t] = Quiet]
  /\ UNCHANGED <<mirror, openVars, serverVars>>

(* adoptServerIdentity, once the hydration's body has been read.           *)
Adopt(t) ==
  /\ page[t].step = "read"
  /\ mirror' = IF jar.uid # Nothing THEN jar.uid ELSE mirror
  /\ page' = [page EXCEPT ![t].step = "ready"]
  /\ UNCHANGED <<jar, openVars, wire, serverVars>>

(* A tab is closed or left; what it waits for does not reach it.           *)
Close(t) ==
  /\ page[t] # Blank
  /\ page' = [page EXCEPT ![t] = Blank]
  /\ wire' = [wire EXCEPT ![t] = Quiet]
  /\ UNCHANGED <<jar, mirror, openVars, serverVars>>

-----------------------------------------------------------------------------
(* Saves, sign-in, sign-out                                                *)

Ready(t, at) == page[t].at = at /\ page[t].step = "ready"

Post(t, kind, u) ==
  /\ wire' = [wire EXCEPT ![t] = [Request(kind, page[t].token) EXCEPT !.person = u]]
  /\ page' = [page EXCEPT ![t].step = "waits"]
  /\ UNCHANGED <<jar, mirror, openVars, serverVars>>

Save(t) == Ready(t, "word") /\ page[t].token # Nothing /\ Post(t, "save", Nothing)
SignIn(t, u) == Ready(t, "form") /\ Post(t, "signIn", u)
SignOut(t) == Ready(t, "form") /\ Post(t, "signOut", Nothing)

(* POST /save. A request that is refused still sets the cookie.            *)
ServeSave(t) ==
  /\ Waiting(t, "save", "out")
  /\ LET r == wire[t] IN
     /\ MayMint(r)
     /\ minted' = MintedAfter(r)
     /\ wire' = [wire EXCEPT ![t] = Answer(r, Identity(r), r.sid, Nothing, Nothing)]
     /\ IF TokenHolds(r)
        THEN /\ landed' = landed \cup {<<page[t].shows, Acting(r),
                                          ~Live(r) /\ Identity(r) \in retired>>}
             /\ profiled' = IF Live(r) THEN profiled ELSE profiled \cup {r.uid}
        ELSE UNCHANGED <<landed, profiled>>
  /\ UNCHANGED <<clientVars, retired, signIns, begun>>

(* Cookie presence alone is not a mergeable profile.                       *)
AnyIdentity(r) == Carried(r)

Mergeable(r) == Carried(r) /\ r.uid \in profiled

(* endSession of the session the request carries, if it is live.           *)
Ended(r) == IF Live(r) THEN [signIns EXCEPT ![r.sid] = Nothing] ELSE signIns

(* finishSignIn: the session the request carries ends, the identity is     *)
(* bound if it has a profile and then replaced by a fresh one, and a       *)
(* session is started.                                                     *)
ServeSignIn(t) ==
  /\ Waiting(t, "signIn", "out")
  /\ LET r == wire[t]
         links == Mergeable(r)
         accepted == TokenHolds(r)
     IN
     /\ MayMint(r) /\ (accepted => begun < MaxSignIns /\ (links => minted < MaxIds))
     /\ IF accepted
        THEN /\ minted' = IF links THEN Fresh1 ELSE MintedAfter(r)
             /\ retired' = IF links THEN retired \cup {r.uid} ELSE retired
             /\ begun' = begun + 1
             /\ signIns' = [Ended(r) EXCEPT ![begun + 1] = r.person]
             /\ wire' = [wire EXCEPT ![t] =
                  Answer(r, IF links THEN Fresh1 ELSE Identity(r), begun + 1, Nothing, Nothing)]
        ELSE /\ minted' = MintedAfter(r)
             /\ wire' = [wire EXCEPT ![t] = Answer(r, Identity(r), r.sid, Nothing, Nothing)]
             /\ UNCHANGED <<retired, signIns, begun>>
  /\ UNCHANGED <<clientVars, profiled, landed>>

(* POST /logout: without a live session the cookie is simply cleared.      *)
ServeSignOut(t) ==
  /\ Waiting(t, "signOut", "out")
  /\ LET r == wire[t]
         leaves == ~Live(r) \/ TokenHolds(r)
     IN
     /\ MayMint(r)
     /\ minted' = MintedAfter(r)
     /\ signIns' = IF leaves THEN Ended(r) ELSE signIns
     /\ wire' = [wire EXCEPT ![t] =
          Answer(r, Identity(r), IF leaves THEN Nothing ELSE r.sid, Nothing, Nothing)]
  /\ UNCHANGED <<clientVars, retired, profiled, begun, landed>>

-----------------------------------------------------------------------------
(* A session runs out or is ended; a person clears the cookies, or         *)
(* everything.                                                             *)

Expire(s) ==
  /\ signIns[s] # Nothing
  /\ signIns' = [signIns EXCEPT ![s] = Nothing]
  /\ UNCHANGED <<clientVars, wire, minted, retired, profiled, begun, landed>>

ClearCookies ==
  /\ jar' = [uid |-> Nothing, sid |-> Nothing]
  /\ jar' # jar
  /\ UNCHANGED <<mirror, page, openVars, wire, serverVars>>

ClearAll ==
  /\ jar' = [uid |-> Nothing, sid |-> Nothing]
  /\ mirror' = Nothing
  /\ <<jar', mirror'>> # <<jar, mirror>>
  /\ UNCHANGED <<page, openVars, wire, serverVars>>

BrowserNext ==
  \/ \E t \in Pages :
       \/ Open(t) \/ ServeDocument(t) \/ RunScripts(t) \/ ServeHydration(t)
       \/ Receive(t) \/ Adopt(t) \/ Close(t)
       \/ Save(t) \/ ServeSave(t) \/ SignOut(t) \/ ServeSignOut(t)
       \/ ServeSignIn(t)
       \/ \E u \in People : SignIn(t, u)
  \/ \E s \in SessionIds : Expire(s)
  \/ ClearCookies \/ ClearAll

BrowserSpec == BrowserInit /\ [][BrowserNext]_browserVars

-----------------------------------------------------------------------------
BrowserTypeOK ==
  /\ jar \in [uid : IdOrNothing, sid : SidOrNothing]
  /\ mirror \in IdOrNothing
  /\ minted \in 0..MaxIds /\ begun \in 0..MaxSignIns /\ visits \in 0..MaxVisits
  /\ retired \subseteq profiled /\ profiled \subseteq 1..minted
  /\ signIns \in [SessionIds -> People \cup {Nothing}]
  /\ \A t \in Pages :
       /\ page[t].at \in {"closed", "word", "form"}
       /\ page[t].step \in {"ready", "waits", "loaded", "read"}
       /\ page[t].token \in Subjects \cup {Nothing}
       /\ page[t].shows \in ProgressOwners \cup {Nothing}
       /\ page[t].step = "waits" <=> wire[t] # Quiet
  /\ landed \subseteq (ProgressOwners \cup {Nothing}) \X ProgressOwners \X BOOLEAN
  /\ crowded \in BOOLEAN

(* A save that is accepted changes the progress of the owner whose state   *)
(* the page showed, and never through an identity that belongs to an       *)
(* account by then: whatever other tabs signed in, signed out or restored  *)
(* between the hydration and the save, it is refused instead.              *)
SavesLandWhereShown ==
  \A l \in landed : l[1] = l[2] /\ ~l[3]

Held(a) == jar.uid = a \/ mirror = a

(* FR-AUTH-02: progress saved without an account is not lost to its browser*)
(* as long as no account took it over and the person does not clear        *)
(* localStorage: pages, refused requests, sign-ins, sign-outs and cleared  *)
(* cookies leave its identity in the cookie or the mirror. (Two tabs at    *)
(* once can each be given an identity, and then one of them is lost.)      *)
ProgressIsKept ==
  [][\A a \in profiled \ retired' :
       Held(a) /\ ~crowded' /\ mirror' # Nothing => Held(a)']_browserVars
==============================================================================
