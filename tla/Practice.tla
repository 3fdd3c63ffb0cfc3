------------------------------ MODULE Practice ------------------------------
(***************************************************************************)
(* Practice sessions (services/practice.service.js, practice.repository.js,*)
(* lib/practice-queue-store.js): durable sessions, attempts and SM-2 rows  *)
(* in MySQL, the live queue in Redis, and no transaction over the two.     *)
(*                                                                         *)
(* A browser tab asks for the page (enter) or posts an answer, and its     *)
(* request is a sequence of statements that interleave with those of the   *)
(* other tabs and of the sweep. Any answer may be posted: an old one, one  *)
(* posted twice, one to somebody else's session. In the transaction of an  *)
(* answer the unique key of practice_attempts, and the lock on the SM-2    *)
(* row or on the gap where it would be, make others wait; its foreign key  *)
(* shares a lock on the session, for which finaliseSession waits. A lost   *)
(* lock race runs the transaction again.                                   *)
(*                                                                         *)
(* A queue in Redis can be gone at any time, its time to live over or Redis*)
(* restarted or out of reach: any load may find nothing. Which words an    *)
(* owner has saved does not change here. What a request carries is chosen  *)
(* where it is first read.                                                 *)
(***************************************************************************)
EXTENDS PracticeQueue, Sm2, FiniteSets

CONSTANTS Owners,       \* accounts and anonymous identities
          Tabs,         \* browser tabs, one request at a time each
          TagOf,        \* the tag of each saved word
          Idle,         \* PRACTICE_IDLE_MS, in ticks
          MaxClock,     \* bound on the clock
          MaxSessions,  \* bound on the sessions
          MaxAttempts,  \* bound on the answers, by how many sessions there are
          Gone          \* no queue, no SM-2 row

ASSUME PracticeAssumption ==
  /\ IsFiniteSet(Words)
  /\ TagOf \in [Words -> WordTags]
  /\ Idle \in Nat \ {0}
  /\ MaxClock \in Nat /\ MaxSessions \in Nat
  /\ MaxAttempts \in [1..MaxSessions -> Nat]

VARIABLES
  sessions,   \* practice_sessions, in the order of their ids
  attempts,   \* practice_attempts
  answers,    \* the practice_attempt events, in the order of their commits
  schedule,   \* sm2_states
  queues,     \* the live queues in Redis
  clock,
  owner,      \* whose tab it is
  tab,        \* where the request of each tab stands
  sweep       \* the sessions the sweep has still to end

tables == <<sessions, attempts, answers, schedule>>
vars == <<tables, queues, clock, owner, tab, sweep>>

SessionIds == 1..MaxSessions
Statuses == {"active", "completed", "timed_out", "abandoned"}
Session == [owner : Owners, words : SUBSET Words, status : Statuses,
            last : Nat, total : Nat, correct : Nat]
Attempt == [session : SessionIds, turn : Nat, word : Words, rating : Ratings]
Answer == [owner : Owners, word : Words, quality : {2, 5}]
Sm2State == [repetitions : Nat, ease : Eases, interval : Nat]
Sm2Row == [state : Sm2State, due : Nat]

ASSUME GoneAssumption == Gone \notin Sm2Row

(* What a request has read, as long as it needs it: the session, the queue,*)
(* the rating, the SM-2 state it locked, the status it ends the session    *)
(* with, whether it then looks for due words, its clock, the due words.    *)
Labels == {"home", "load", "finalise", "due", "start", "serve",
           "fetch", "insert", "review", "write", "advance"}
Request == [pc : Labels, sid : 0..MaxSessions, queue : Queue,
            rating : Ratings, before : Sm2State, status : Statuses,
            goOn : BOOLEAN, now : Nat, due : SUBSET Words]

EmptyQueue == CreateQueue(<< >>)
AtHome == [pc |-> "home", sid |-> 0, queue |-> EmptyQueue,
           rating |-> "right", before |-> InitialSm2, status |-> "active",
           goOn |-> FALSE, now |-> 0, due |-> {}]

Init ==
  /\ sessions = << >>
  /\ attempts = {}
  /\ answers = << >>
  /\ schedule = [o \in Owners |-> [w \in Words |-> Gone]]
  /\ queues = [s \in SessionIds |-> Gone]
  /\ clock = 0
  /\ owner \in [Tabs -> Owners]
  /\ tab = [x \in Tabs |-> AtHome]
  /\ sweep = {}

------------------------------------------------------------------------------
Goto(x, label) == tab' = [tab EXCEPT ![x].pc = label]
GoHome(x) == tab' = [tab EXCEPT ![x] = AtHome]

Active(s) == sessions[s].status = "active"
Attempts(s) == {a \in attempts : a.session = s}
RightOnes(s) == {a \in Attempts(s) : a.rating = "right"}

(* An answer's transaction that has inserted its attempt.                  *)
InFlight(x) == tab[x].pc \in {"review", "write"}
Word(x) == Head0(tab[x].queue).word
Turn(x) == tab[x].queue.turnSeq

(* finaliseSession waits for the answers in flight and counts what is      *)
(* committed. Only an active session changes; broken: any session does.    *)
Unlocked(s) == \A x \in Tabs : InFlight(x) => tab[x].sid # s

FinalisedAgain(s, status) ==
  [sessions EXCEPT ![s].status = status,
                   ![s].total = Cardinality(Attempts(s)),
                   ![s].correct = Cardinality(RightOnes(s))]

Finalised(s, status) ==
  IF Active(s)
  THEN [sessions EXCEPT ![s].status = status,
                        ![s].total = Cardinality(Attempts(s)),
                        ![s].correct = Cardinality(RightOnes(s))]
  ELSE sessions

(* The queue's removal is best effort.                                     *)
MayDrop(s) == queues' \in {queues, [queues EXCEPT ![s] = Gone]}

EndWith(x, s, status, goOn) ==
  tab' = [tab EXCEPT ![x] = [AtHome EXCEPT !.pc = "finalise", !.sid = s,
                               !.status = status, !.goOn = goOn,
                               !.now = IF goOn THEN tab[x].now ELSE 0]]

(* end: finalise, then remove the queue.                                   *)
End(x) ==
  /\ tab[x].pc = "finalise"
  /\ Unlocked(tab[x].sid)
  /\ sessions' = Finalised(tab[x].sid, tab[x].status)
  /\ MayDrop(tab[x].sid)
  /\ tab' = [tab EXCEPT ![x] =
       IF tab[x].goOn THEN [AtHome EXCEPT !.pc = "due", !.now = tab[x].now]
       ELSE AtHome]
  /\ UNCHANGED <<attempts, answers, schedule, clock, owner, sweep>>

------------------------------------------------------------------------------
(* enter.                                                                  *)

ActiveOf(o) == {s \in DOMAIN sessions : sessions[s].owner = o /\ Active(s)}
Newest(S) == CHOOSE s \in S : \A u \in S : u <= s

(* findActiveSession, at a given now.                                      *)
Enter(x) ==
  LET found == ActiveOf(owner[x])
      s == Newest(found)
      at == [tab EXCEPT ![x].now = clock]
  IN  /\ tab[x].pc = "home"
      /\ tab' =
           IF found = {} THEN [at EXCEPT ![x].pc = "due"]
           ELSE IF clock - sessions[s].last >= Idle
           THEN [at EXCEPT ![x].pc = "finalise", ![x].sid = s,
                           ![x].status = "timed_out", ![x].goOn = TRUE]
           ELSE [at EXCEPT ![x].pc = "load", ![x].sid = s]
      /\ UNCHANGED <<tables, queues, clock, owner, sweep>>

(* The page of the turn the live queue serves.                             *)
Resume(x) ==
  LET q == queues[tab[x].sid]
  IN  /\ tab[x].pc = "load"
      /\ q # Gone
      /\ ~IsFinished(q)
      /\ GoHome(x)
      /\ UNCHANGED <<tables, queues, clock, owner, sweep>>

(* No queue, or Redis cannot be read: the session is abandoned.            *)
LoseQueue(x) ==
  /\ tab[x].pc = "load"
  /\ EndWith(x, tab[x].sid, "abandoned", TRUE)
  /\ UNCHANGED <<tables, queues, clock, owner, sweep>>

(* listDueWords: never practised, or not scheduled after now.              *)
IsDue(o, w, now) == schedule[o][w] = Gone \/ schedule[o][w].due <= now

(* An order of a set of words, with their tags.                            *)
Listings(W) ==
  {[i \in 1..Cardinality(W) |-> [word |-> f[i], tag |-> TagOf[f[i]]]] :
     f \in {g \in [1..Cardinality(W) -> W] :
              \A i, j \in 1..Cardinality(W) : i # j => g[i] # g[j]}}

FindDue(x) ==
  LET W == {w \in Words : IsDue(owner[x], w, tab[x].now)}
  IN  /\ tab[x].pc = "due"
      /\ IF W = {} THEN GoHome(x)
         ELSE tab' = [tab EXCEPT ![x].pc = "start", ![x].due = W]
      /\ UNCHANGED <<tables, queues, clock, owner, sweep>>

(* insertSession, and the first choice of what to serve.                   *)
Start(x) ==
  /\ tab[x].pc = "start"
  /\ Len(sessions) < MaxSessions
  /\ sessions' = Append(sessions,
       [owner |-> owner[x], words |-> tab[x].due, status |-> "active",
        last |-> tab[x].now, total |-> 0, correct |-> 0])
  /\ \E due \in Listings(tab[x].due) : \E q \in ChooseServed(CreateQueue(due)) :
       tab' = [tab EXCEPT ![x] = [AtHome EXCEPT !.pc = "serve", !.queue = q,
                                    !.sid = Len(sessions) + 1]]
  /\ UNCHANGED <<attempts, answers, schedule, queues, clock, owner, sweep>>

(* queueStore.save; when it fails, or its reply is lost, the new session   *)
(* is abandoned.                                                           *)
Serve(x) ==
  LET s == tab[x].sid
      saved == [queues EXCEPT ![s] = tab[x].queue]
  IN  /\ tab[x].pc = "serve"
      /\ \/ queues' = saved /\ GoHome(x)
         \/ queues' \in {queues, saved} /\ EndWith(x, s, "abandoned", FALSE)
      /\ UNCHANGED <<tables, clock, owner, sweep>>

------------------------------------------------------------------------------
(* answer.                                                                 *)

(* findSession; a post for an ended session or another owner's is stale.   *)
Post(x, s) ==
  /\ tab[x].pc = "home"
  /\ Active(s)
  /\ sessions[s].owner = owner[x]
  /\ tab' = [tab EXCEPT ![x].pc = "fetch", ![x].sid = s]
  /\ UNCHANGED <<tables, queues, clock, owner, sweep>>

(* The queue is loaded, and serves the turn that was posted, or another.   *)
Fetch(x, rating) ==
  LET q == queues[tab[x].sid]
  IN  /\ tab[x].pc = "fetch"
      /\ q # Gone
      /\ ~IsFinished(q)
      /\ \/ tab' = [tab EXCEPT ![x].pc = "insert", ![x].queue = q,
                               ![x].rating = rating, ![x].now = clock]
         \/ GoHome(x)
      /\ UNCHANGED <<tables, queues, clock, owner, sweep>>

FetchNothing(x) ==
  /\ tab[x].pc = "fetch"
  /\ EndWith(x, tab[x].sid, "abandoned", FALSE)
  /\ UNCHANGED <<tables, queues, clock, owner, sweep>>

(* The unique key of practice_attempts; broken: none.                      *)
AlwaysOpen(s, turn) == TRUE
TurnOpen(s, turn) == \A a \in Attempts(s) : a.turn # turn

(* insertAttempt waits for another answer to the same turn.                *)
Insert(x) ==
  LET t == tab[x]
  IN  /\ t.pc = "insert"
      /\ Cardinality(attempts) < MaxAttempts[Len(sessions)]
      /\ \A y \in Tabs :
           InFlight(y) => <<tab[y].sid, Turn(y)>> # <<t.sid, Turn(x)>>
      /\ IF TurnOpen(t.sid, Turn(x)) THEN Goto(x, "review") ELSE GoHome(x)
      /\ UNCHANGED <<tables, queues, clock, owner, sweep>>

(* lockSm2State; broken: a plain SELECT.                                   *)
Reviewers(x) ==
  {y \in Tabs \ {x} :
     tab[y].pc = "write" /\ owner[y] = owner[x] /\ Word(y) = Word(x)}

MayRead(x) == TRUE
MayLock(x) == schedule[owner[x]][Word(x)] # Gone => Reviewers(x) = {}

ReadSchedule(x) ==
  LET row == schedule[owner[x]][Word(x)]
  IN  /\ tab[x].pc = "review"
      /\ MayLock(x)
      /\ tab' = [tab EXCEPT ![x].pc = "write",
                   ![x].before = IF row = Gone THEN InitialSm2 ELSE row.state]
      /\ UNCHANGED <<tables, queues, clock, owner, sweep>>

(* upsertSm2State, touchSession and COMMIT. Two answers that both found no *)
(* row share the lock on its gap, and neither fills it.                    *)
MayWrite(x) == schedule[owner[x]][Word(x)] = Gone => Reviewers(x) = {}

Write(x) ==
  LET t == tab[x]
      quality == Quality(t.rating)
      after == Review(t.before, quality)
  IN  /\ t.pc = "write"
      /\ MayWrite(x)
      /\ attempts' = attempts \cup
           {[session |-> t.sid, turn |-> Turn(x), word |-> Word(x), rating |-> t.rating]}
      /\ answers' = Append(answers,
           [owner |-> owner[x], word |-> Word(x), quality |-> quality])
      /\ schedule' = [schedule EXCEPT ![owner[x]][Word(x)] =
           [state |-> after, due |-> NextDueAt(t.now, after.interval)]]
      /\ sessions' = [sessions EXCEPT ![t.sid].last = t.now]
      /\ tab' = [tab EXCEPT ![x] = [AtHome EXCEPT !.pc = "advance",
                     !.sid = t.sid, !.queue = t.queue, !.rating = t.rating]]
      /\ UNCHANGED <<queues, clock, owner, sweep>>

(* The live queue follows the commit. If that fails the session ends.      *)
MoveOn(x) ==
  LET s == tab[x].sid
  IN  /\ tab[x].pc = "advance"
      /\ \E q \in Advance(tab[x].queue, tab[x].rating) :
           IF IsFinished(q)
           THEN EndWith(x, s, "completed", FALSE) /\ UNCHANGED queues
           ELSE \E served \in ChooseServed(q) :
                  LET saved == [queues EXCEPT ![s] = served]
                  IN  \/ queues' = saved /\ GoHome(x)
                      \/ /\ queues' \in {queues, saved}
                         /\ EndWith(x, s, "abandoned", FALSE)
      /\ UNCHANGED <<tables, clock, owner, sweep>>

(* The completion itself failed: the session is abandoned instead.         *)
CompletionFails(x) ==
  /\ tab[x].pc = "finalise"
  /\ tab[x].status = "completed"
  /\ tab' = [tab EXCEPT ![x].status = "abandoned"]
  /\ UNCHANGED <<tables, queues, clock, owner, sweep>>

------------------------------------------------------------------------------
(* Two answers meet on a turn, or on a word, or an answer and the end of   *)
(* its session: one is rolled back and run again, or, out of attempts,     *)
(* fails.                                                                  *)
Contended(x) ==
  \/ tab[x].sid \in sweep
  \/ \E y \in Tabs \ {x} :
       \/ tab[y].sid = tab[x].sid /\ (InFlight(y) \/ tab[y].pc = "finalise")
       \/ InFlight(y) /\ owner[y] = owner[x] /\ Word(y) = Word(x)

LoseLockRace(x) ==
  /\ tab[x].pc \in {"insert", "review", "write"}
  /\ Contended(x)
  /\ Goto(x, "insert") \/ GoHome(x)
  /\ UNCHANGED <<tables, queues, clock, owner, sweep>>

(* The process dies, or a statement fails: what was not committed is lost. *)
Crash(x) ==
  /\ tab[x].pc # "home"
  /\ GoHome(x)
  /\ UNCHANGED <<tables, queues, clock, owner, sweep>>

(* sweepIdleSessions: listIdleSessions, then one session after the other;  *)
(* broken: a cutoff twice as old.                                          *)
OverdueTwice(s) == Active(s) /\ sessions[s].last + Idle < clock - Idle
Overdue(s) == Active(s) /\ sessions[s].last < clock - Idle

Sweep ==
  /\ sweep = {}
  /\ sweep' = {s \in DOMAIN sessions : Overdue(s)}
  /\ UNCHANGED <<tables, queues, clock, owner, tab>>

SweepEnd(s) ==
  /\ s \in sweep
  /\ Unlocked(s)
  /\ sessions' = Finalised(s, "timed_out")
  /\ MayDrop(s)
  /\ sweep' = sweep \ {s}
  /\ UNCHANGED <<attempts, answers, schedule, clock, owner, tab>>

SweepCrash ==
  /\ sweep # {}
  /\ sweep' = {}
  /\ UNCHANGED <<tables, queues, clock, owner, tab>>

Tick ==
  /\ clock < MaxClock
  /\ clock' = clock + 1
  /\ UNCHANGED <<tables, queues, owner, tab, sweep>>

------------------------------------------------------------------------------
EnterStep(x) ==
  Enter(x) \/ Resume(x) \/ LoseQueue(x) \/ FindDue(x) \/ Start(x) \/ Serve(x)

AnswerStep(x) ==
  \/ \E rating \in Ratings : Fetch(x, rating)
  \/ FetchNothing(x) \/ Insert(x) \/ ReadSchedule(x) \/ Write(x)
  \/ MoveOn(x) \/ CompletionFails(x)

TabStep(x) ==
  \/ EnterStep(x) \/ AnswerStep(x) \/ End(x) \/ LoseLockRace(x) \/ Crash(x)
  \/ \E s \in DOMAIN sessions : Post(x, s)

Next ==
  \/ \E x \in Tabs : TabStep(x)
  \/ \E s \in SessionIds : SweepEnd(s)
  \/ Sweep \/ SweepCrash \/ Tick

Spec == Init /\ [][Next]_vars

(* The sweep is run every 15 minutes and does not die every time; InnoDB   *)
(* ends every wait, so no transaction holds its session for ever.          *)
Fairness ==
  /\ WF_vars(Sweep)
  /\ \A s \in SessionIds : SF_vars(SweepEnd(s))
  /\ \A x \in Tabs :
       /\ SF_vars(ReadSchedule(x))
       /\ SF_vars(Write(x))

FairSpec == Spec /\ Fairness

------------------------------------------------------------------------------
(* Properties.                                                             *)

(* The values every variable ranges over; ease factors are those that the  *)
(* CHECK of their column admits.                                           *)
TypeOK ==
  /\ sessions \in Seq(Session) /\ Len(sessions) <= MaxSessions
  /\ attempts \subseteq Attempt
  /\ answers \in Seq(Answer)
  /\ schedule \in [Owners -> [Words -> Sm2Row \cup {Gone}]]
  /\ queues \in [SessionIds -> Queue \cup {Gone}]
  /\ clock \in Nat
  /\ owner \in [Tabs -> Owners]
  /\ tab \in [Tabs -> Request]
  /\ sweep \subseteq SessionIds

(* SDD 5.4: of each served turn of a session one answer is accepted, and a *)
(* turn is served only after the one before it has been answered, whatever *)
(* was posted twice, raced or lost in between.                             *)
TurnsInOrder ==
  \A s \in DOMAIN sessions :
    {a.turn : a \in Attempts(s)} = 0..(Cardinality(Attempts(s)) - 1)

(* The answers given to a word of an owner, and what SM-2 makes of them,   *)
(* one after the other.                                                    *)
Given(log, o, w) == {n \in DOMAIN log : log[n].owner = o /\ log[n].word = w}

Reviewed(log, o, w) ==
  LET after[n \in 0..Len(log)] ==
        IF n = 0 THEN InitialSm2
        ELSE IF n \in Given(log, o, w) THEN Review(after[n - 1], log[n].quality)
        ELSE after[n - 1]
  IN  after[Len(log)]

(* Every accepted answer is one attempt row of one of its owner's sessions,*)
(* one event and one SM-2 review: none is lost or counted twice when two   *)
(* sessions of one owner review a word at once.                            *)
EveryAnswerCounts ==
  \A o \in Owners, w \in Words :
    /\ Cardinality(Given(answers, o, w)) =
         Cardinality({a \in attempts : a.word = w /\ sessions[a.session].owner = o})
    /\ IF Given(answers, o, w) = {} THEN schedule[o][w] = Gone
       ELSE schedule[o][w] # Gone /\ schedule[o][w].state = Reviewed(answers, o, w)

(* A session that completed has had every one of its words answered right  *)
(* exactly once, and its counts say so.                                    *)
CompletedIsComplete ==
  \A s \in DOMAIN sessions :
    sessions[s].status = "completed" =>
      /\ {a.word : a \in RightOnes(s)} = sessions[s].words
      /\ Cardinality(RightOnes(s)) = Cardinality(sessions[s].words)
      /\ sessions[s].correct = Cardinality(RightOnes(s))
      /\ sessions[s].total = Cardinality(Attempts(s))

(* The sweep, a returning viewer and an answer may all end a session: the  *)
(* first one decides how it ended, and nobody changes its counts.          *)
FirstEndStands ==
  [][\A s \in DOMAIN sessions :
       ~Active(s) =>
         /\ sessions'[s].status = sessions[s].status
         /\ sessions'[s].total = sessions[s].total
         /\ sessions'[s].correct = sessions[s].correct]_vars

LeftAlone(s) ==
  s \in DOMAIN sessions /\ Active(s) /\ clock > sessions[s].last + Idle

(* A session left alone for longer than the idle bound does not stay open, *)
(* whatever became of the request or the queue that served it.             *)
IdleSessionsEnd == \A s \in SessionIds : LeftAlone(s) ~> ~LeftAlone(s)

(* A session ends with its counts: those of all its attempts.              *)
EndsWithItsCounts ==
  \A s \in DOMAIN sessions :
    ~Active(s) => sessions[s].total = Cardinality(Attempts(s))
==============================================================================
