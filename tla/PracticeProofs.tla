--------------------------- MODULE PracticeProofs ---------------------------
(***************************************************************************)
(* Proofs about Practice and its queue, for any words, owners, tabs and    *)
(* bounds: each turn of a session is answered once and in order, a session *)
(* that completes is complete, and how it ended stands.                    *)
(***************************************************************************)
EXTENDS Practice, Recursions

------------------------------------------------------------------------------
(* The inductive invariant.                                                *)

(* What a queue has still to serve, from its head on.                      *)
Remaining(q) == (q.position + 1)..Len(q.entries)
LeftWords(q) == {q.entries[i].word : i \in Remaining(q)}
EachOnce(q) ==
  \A i, j \in Remaining(q) : q.entries[i].word = q.entries[j].word => i = j

RightWords(s) == {a.word : a \in RightOnes(s)}
Count(s) == Cardinality(Attempts(s))
Complete(s) == RightWords(s) = sessions[s].words

(* A queue of a session is the one of the turn to come, which holds each   *)
(* word that was not answered right once, or one of an earlier turn.       *)
Serves(s, q) ==
  /\ EachOnce(q)
  /\ LeftWords(q) \cap RightWords(s) = {}
  /\ LeftWords(q) \cup RightWords(s) = sessions[s].words

Fits(s, q) ==
  /\ ~IsFinished(q)
  /\ q.turnSeq <= Count(s)
  /\ q.turnSeq = Count(s) => Serves(s, q)

(* The queue whose head was the last to be answered.                       *)
Answered(s, q, rating) ==
  /\ ~IsFinished(q)
  /\ q.turnSeq + 1 = Count(s)
  /\ EachOnce(q)
  /\ LeftWords(q) \cap RightWords(s) = (IF rating = "right" THEN {Head0(q).word} ELSE {})
  /\ LeftWords(q) \cup RightWords(s) = sessions[s].words

(* What a request has read is good for the statement it stands at.         *)
Holding == {"serve", "insert", "review", "write"}

Holds(t) ==
  /\ t.pc \in Holding \cup {"finalise", "load", "fetch", "advance"} => t.sid \in DOMAIN sessions
  /\ t.pc \in Holding => Fits(t.sid, t.queue)
  /\ t.pc \in {"review", "write"} => TurnOpen(t.sid, t.queue.turnSeq)
  /\ t.pc = "advance" => Answered(t.sid, t.queue, t.rating)
  /\ t.pc = "finalise" /\ t.status = "completed" => Complete(t.sid)
  /\ t.pc = "start" => t.due # {}

RequestsHold == \A t \in {tab[x] : x \in Tabs} : Holds(t)

(* One answer at a time gets a turn, and one request takes the queue on.   *)
OneAtATime ==
  \A x, y \in Tabs : x # y /\ tab[x].sid = tab[y].sid =>
    /\ InFlight(x) /\ InFlight(y) => Turn(x) # Turn(y)
    /\ tab[x].pc = "advance" =>
         /\ tab[y].pc # "advance"
         /\ tab[y].pc \in Holding => Turn(y) < Count(tab[x].sid)

QueuesFit ==
  \A s \in SessionIds : queues[s] # Gone =>
    /\ s \in DOMAIN sessions
    /\ Fits(s, queues[s])
    /\ \A x \in Tabs : tab[x].pc = "advance" /\ tab[x].sid = s => queues[s].turnSeq < Count(s)

(* Every attempt is of a session; no word is answered right twice in one.  *)
AttemptsFit ==
  /\ IsFiniteSet(attempts)
  /\ \A a \in attempts : a.session \in DOMAIN sessions
  /\ \A s \in DOMAIN sessions : \A a, b \in RightOnes(s) : a.word = b.word => a = b

EndedComplete ==
  \A s \in DOMAIN sessions :
    sessions[s].status = "completed" =>
      /\ Complete(s)
      /\ sessions[s].total = Count(s)
      /\ sessions[s].correct = Cardinality(RightOnes(s))

SweepFits == sweep \subseteq DOMAIN sessions

PracticeInv ==
  /\ TypeOK /\ TurnsInOrder
  /\ AttemptsFit /\ RequestsHold /\ OneAtATime /\ QueuesFit /\ EndedComplete /\ SweepFits

------------------------------------------------------------------------------
(* Queues.                                                                 *)

(* Array.splice, on entries.                                               *)
LEMMA PutAtProperties ==
  ASSUME NEW S, NEW s \in Seq(S), NEW i \in 0..Len(s), NEW e \in S
  PROVE  /\ PutAt(s, i, e) \in Seq(S)
         /\ Len(PutAt(s, i, e)) = Len(s) + 1
         /\ \A j \in 1..(Len(s) + 1) :
              PutAt(s, i, e)[j] = IF j <= i THEN s[j] ELSE IF j = i + 1 THEN e ELSE s[j - 1]
<1> DEFINE a == SubSeq(s, 1, i)
           b == <<e>>
           c == SubSeq(s, i + 1, Len(s))
<1>1. /\ Len(s) \in Nat /\ i \in Int /\ Len(s) \in Int
      /\ \A j \in 1..Len(s) : s[j] \in S
  BY ElementOfSeq
<1>2. /\ a \in Seq(S) /\ Len(a) = i
      /\ \A j \in 1..i : a[j] = s[j]
  BY <1>1, SubSeqProperties
<1>3. b \in Seq(S) /\ Len(b) = 1 /\ b[1] = e
  OBVIOUS
<1>4. /\ c \in Seq(S) /\ Len(c) = Len(s) - i
      /\ \A j \in 1..(Len(s) - i) : c[j] = s[i + j]
  <2>1. \A j \in (i + 1)..Len(s) : s[j] \in S
    BY <1>1
  <2>2. /\ c \in Seq(S) /\ Len(c) = IF i + 1 <= Len(s) THEN Len(s) - (i + 1) + 1 ELSE 0
        /\ \A j \in 1..(Len(s) - (i + 1) + 1) : c[j] = s[(i + 1) + j - 1]
    BY <1>1, <2>1, SubSeqProperties
  <2>3. QED
    BY <1>1, <2>2
<1> HIDE DEF a, b, c
<1>5. /\ a \o b \in Seq(S) /\ Len(a \o b) = i + 1
      /\ \A j \in 1..(i + 1) : (a \o b)[j] = IF j <= i THEN a[j] ELSE b[j - i]
  <2>1. /\ a \o b \in Seq(S) /\ Len(a \o b) = Len(a) + Len(b)
        /\ \A j \in 1..(Len(a) + Len(b)) :
             (a \o b)[j] = IF j <= Len(a) THEN a[j] ELSE b[j - Len(a)]
    BY <1>2, <1>3, ConcatProperties
  <2>2. QED
    BY <1>1, <1>2, <1>3, <2>1
<1>6. /\ (a \o b) \o c \in Seq(S) /\ Len((a \o b) \o c) = Len(s) + 1
      /\ \A j \in 1..(Len(s) + 1) :
           ((a \o b) \o c)[j] = IF j <= i + 1 THEN (a \o b)[j] ELSE c[j - (i + 1)]
  <2> DEFINE d == a \o b
  <2> HIDE DEF d
  <2>1. d \in Seq(S) /\ Len(d) = i + 1
    BY <1>5 DEF d
  <2>2. /\ d \o c \in Seq(S) /\ Len(d \o c) = Len(d) + Len(c)
        /\ \A j \in 1..(Len(d) + Len(c)) :
             (d \o c)[j] = IF j <= Len(d) THEN d[j] ELSE c[j - Len(d)]
    BY <1>4, <2>1, ConcatProperties
  <2>3. Len(d) + Len(c) = Len(s) + 1
    BY <1>1, <1>4, <2>1
  <2>4. QED
    BY <2>1, <2>2, <2>3 DEF d
<1>7. PutAt(s, i, e) = (a \o b) \o c
  BY DEF PutAt, a, b, c
<1>8. ASSUME NEW j \in 1..(Len(s) + 1)
      PROVE  PutAt(s, i, e)[j] = IF j <= i THEN s[j] ELSE IF j = i + 1 THEN e ELSE s[j - 1]
  <2>1. CASE j <= i
    BY <1>1, <1>2, <1>5, <1>6, <1>7, <2>1
  <2>2. CASE j = i + 1
    BY <1>1, <1>3, <1>5, <1>6, <1>7, <2>2
  <2>3. CASE j > i + 1
    <3>1. j - (i + 1) \in 1..(Len(s) - i) /\ i + (j - (i + 1)) = j - 1
      BY <1>1, <2>3
    <3>2. c[j - (i + 1)] = s[j - 1]
      BY <1>4, <3>1
    <3>3. PutAt(s, i, e)[j] = c[j - (i + 1)]
      BY <1>1, <1>6, <1>7, <2>3
    <3>4. QED
      BY <1>1, <2>3, <3>2, <3>3
  <2>4. QED
    BY <1>1, <2>1, <2>2, <2>3
<1>9. QED
  BY <1>6, <1>7, <1>8

LEMMA TakenFromProperties ==
  ASSUME NEW S, NEW s \in Seq(S), NEW i \in 0..(Len(s) - 1)
  PROVE  /\ TakenFrom(s, i) \in Seq(S)
         /\ Len(TakenFrom(s, i)) = Len(s) - 1
         /\ \A j \in 1..(Len(s) - 1) :
              TakenFrom(s, i)[j] = IF j <= i THEN s[j] ELSE s[j + 1]
<1> DEFINE a == SubSeq(s, 1, i)
           c == SubSeq(s, i + 2, Len(s))
<1>1. /\ Len(s) \in Nat /\ i \in Int /\ Len(s) \in Int /\ i + 2 \in Int
      /\ \A j \in 1..Len(s) : s[j] \in S
  BY ElementOfSeq
<1>2. /\ a \in Seq(S) /\ Len(a) = i
      /\ \A j \in 1..i : a[j] = s[j]
  BY <1>1, SubSeqProperties
<1>3. /\ c \in Seq(S) /\ Len(c) = Len(s) - i - 1
      /\ \A j \in 1..(Len(s) - i - 1) : c[j] = s[(i + 1) + j]
  <2>1. \A j \in (i + 2)..Len(s) : s[j] \in S
    BY <1>1
  <2>2. /\ c \in Seq(S) /\ Len(c) = IF i + 2 <= Len(s) THEN Len(s) - (i + 2) + 1 ELSE 0
        /\ \A j \in 1..(Len(s) - (i + 2) + 1) : c[j] = s[(i + 2) + j - 1]
    BY <1>1, <2>1, SubSeqProperties
  <2>3. QED
    BY <1>1, <2>2
<1> HIDE DEF a, c
<1>4. Len(a) + Len(c) = Len(s) - 1
  BY <1>1, <1>2, <1>3
<1>5. /\ a \o c \in Seq(S) /\ Len(a \o c) = Len(s) - 1
      /\ \A j \in 1..(Len(s) - 1) : (a \o c)[j] = IF j <= i THEN a[j] ELSE c[j - i]
  <2>1. /\ a \o c \in Seq(S) /\ Len(a \o c) = Len(a) + Len(c)
        /\ \A j \in 1..(Len(a) + Len(c)) :
             (a \o c)[j] = IF j <= Len(a) THEN a[j] ELSE c[j - Len(a)]
    BY <1>2, <1>3, ConcatProperties
  <2>2. QED
    BY <1>2, <1>4, <2>1
<1>6. TakenFrom(s, i) = a \o c
  BY DEF TakenFrom, a, c
<1>7. ASSUME NEW j \in 1..(Len(s) - 1)
      PROVE  TakenFrom(s, i)[j] = IF j <= i THEN s[j] ELSE s[j + 1]
  <2>1. CASE j <= i
    BY <1>1, <1>2, <1>5, <1>6, <2>1
  <2>2. CASE j > i
    <3>1. j - i \in 1..(Len(s) - i - 1) /\ (i + 1) + (j - i) = j + 1
      BY <1>1, <2>2
    <3>2. c[j - i] = s[j + 1]
      BY <1>3, <3>1
    <3>3. TakenFrom(s, i)[j] = c[j - i]
      BY <1>1, <1>5, <1>6, <2>2
    <3>4. QED
      BY <1>1, <2>2, <3>2, <3>3
  <2>3. QED
    BY <1>1, <2>1, <2>2
<1>8. QED
  BY <1>5, <1>6, <1>7

(* A queue of the same turn, whose remaining entries are those of another  *)
(* in another order.                                                       *)
Reordered(q, p) ==
  /\ p \in Queue
  /\ p.position = q.position /\ p.turnSeq = q.turnSeq
  /\ Len(p.entries) = Len(q.entries)
  /\ LeftWords(p) = LeftWords(q)
  /\ EachOnce(q) => EachOnce(p)

LEMMA SameEntries ==
  ASSUME NEW q, NEW p,
         NEW f \in [Remaining(p) -> Remaining(q)], NEW g \in [Remaining(q) -> Remaining(p)],
         \A j \in Remaining(p) : p.entries[j] = q.entries[f[j]] /\ g[f[j]] = j,
         \A j \in Remaining(q) : f[g[j]] = j
  PROVE  LeftWords(p) = LeftWords(q) /\ (EachOnce(q) => EachOnce(p))
<1>1. ASSUME NEW j \in Remaining(p) PROVE p.entries[j].word \in LeftWords(q)
  BY DEF LeftWords
<1>2. ASSUME NEW j \in Remaining(q) PROVE q.entries[j].word \in LeftWords(p)
  <2>1. p.entries[g[j]] = q.entries[j]
    OBVIOUS
  <2>2. QED
    BY <2>1 DEF LeftWords
<1>3. ASSUME EachOnce(q), NEW i \in Remaining(p), NEW j \in Remaining(p),
             p.entries[i].word = p.entries[j].word
      PROVE  i = j
  <2>1. f[i] = f[j]
    BY <1>3 DEF EachOnce
  <2>2. QED
    BY <2>1
<1>4. LeftWords(p) = LeftWords(q)
  BY <1>1, <1>2 DEF LeftWords
<1>5. QED
  BY <1>3, <1>4 DEF EachOnce

(* An entry behind the head comes to the head.                             *)
LEMMA SurfacedReorders ==
  ASSUME NEW q \in Queue, ~IsFinished(q), Alternatives(q) # {}
  PROVE  Reordered(q, [q EXCEPT !.entries = Surfaced(q)])
<1> DEFINE h == q.position
           n == Len(q.entries)
           es == q.entries
           f == CHOOSE i \in Alternatives(q) : \A j \in Alternatives(q) : i <= j
           p == [q EXCEPT !.entries = Surfaced(q)]
           from(j) == IF j = h + 1 THEN f + 1 ELSE IF j <= f + 1 THEN j - 1 ELSE j
           to(j) == IF j = f + 1 THEN h + 1 ELSE IF j <= f THEN j + 1 ELSE j
<1>1. es \in Seq(QueueEntry) /\ h \in Nat /\ n \in Nat /\ h < n /\ q.turnSeq \in Nat
  BY DEF Queue, IsFinished
<1>2. f \in Alternatives(q)
  <2>1. Alternatives(q) \in SUBSET Nat
    BY <1>1 DEF Alternatives
  <2>2. \E i \in Alternatives(q) : \A j \in Alternatives(q) : i <= j
    BY <2>1, LeastNumber
  <2>3. QED
    BY <2>2
<1>3. f \in (h + 1)..(n - 1) /\ f \in Int
  BY <1>1, <1>2 DEF Alternatives
<1> HIDE DEF f
<1>4. /\ TakenFrom(es, f) \in Seq(QueueEntry) /\ Len(TakenFrom(es, f)) = n - 1
      /\ \A j \in 1..(n - 1) : TakenFrom(es, f)[j] = IF j <= f THEN es[j] ELSE es[j + 1]
  <2>1. f \in 0..(Len(es) - 1)
    BY <1>1, <1>3
  <2>2. QED
    BY <1>1, <2>1, TakenFromProperties
<1>5. es[f + 1] \in QueueEntry
  <2>1. f + 1 \in 1..Len(es)
    BY <1>1, <1>3
  <2>2. QED
    BY <1>1, <2>1, ElementOfSeq
<1> DEFINE ts == TakenFrom(es, f)
           e == es[f + 1]
           ss == PutAt(ts, h, e)
<1>6. /\ ss \in Seq(QueueEntry) /\ Len(ss) = n
      /\ \A j \in 1..n : ss[j] = IF j <= h THEN ts[j]
                                 ELSE IF j = h + 1 THEN es[f + 1] ELSE ts[j - 1]
  <2>1. ts \in Seq(QueueEntry) /\ Len(ts) = n - 1 /\ h \in 0..Len(ts) /\ e \in QueueEntry
    BY <1>1, <1>4, <1>5
  <2>2. PICK s, k, d : s = ts /\ k = h /\ d = e
    OBVIOUS
  <2>3. /\ ss \in Seq(QueueEntry) /\ Len(ss) = Len(ts) + 1
        /\ \A j \in 1..(Len(ts) + 1) : ss[j] = IF j <= h THEN ts[j]
                                   ELSE IF j = h + 1 THEN e ELSE ts[j - 1]
    <3> HIDE DEF ts, e, h
    <3>1. s \in Seq(QueueEntry) /\ k \in 0..Len(s) /\ d \in QueueEntry
      BY <2>1, <2>2
    <3>2. /\ PutAt(s, k, d) \in Seq(QueueEntry)
          /\ Len(PutAt(s, k, d)) = Len(s) + 1
          /\ \A j \in 1..(Len(s) + 1) :
               PutAt(s, k, d)[j] = IF j <= k THEN s[j] ELSE IF j = k + 1 THEN d ELSE s[j - 1]
      BY <3>1, PutAtProperties
    <3>3. QED
      BY <2>2, <3>2
  <2>4. Len(ts) + 1 = n
    BY <1>1, <2>1
  <2>5. QED
    BY <2>3, <2>4 DEF e
<1>7. Surfaced(q) = ss
  BY DEF Surfaced, f
<1> HIDE DEF ss
<1>8. /\ p \in Queue /\ p.position = h /\ p.turnSeq = q.turnSeq /\ p.entries = ss
  BY <1>1, <1>6, <1>7 DEF Queue
<1>9. ASSUME NEW j \in (h + 1)..n
      PROVE  /\ from(j) \in (h + 1)..n /\ ss[j] = es[from(j)]
             /\ to(j) \in (h + 1)..n /\ from(to(j)) = j /\ to(from(j)) = j
  <2>1. /\ from(j) \in (h + 1)..n /\ to(j) \in (h + 1)..n
        /\ from(to(j)) = j /\ to(from(j)) = j
    BY <1>1, <1>3
  <2>2. CASE j = h + 1
    BY <1>1, <1>6, <2>1, <2>2
  <2>3. CASE j # h + 1
    <3>1. ss[j] = ts[j - 1] /\ j - 1 \in 1..(n - 1)
      BY <1>1, <1>6, <2>3
    <3>2. ts[j - 1] = IF j - 1 <= f THEN es[j - 1] ELSE es[(j - 1) + 1]
      BY <1>4, <3>1
    <3>3. QED
      BY <1>1, <1>3, <2>1, <2>3, <3>1, <3>2
  <2>4. QED
    BY <2>1, <2>2, <2>3
<1>10. Remaining(p) = (h + 1)..n /\ Remaining(q) = (h + 1)..n
  BY <1>6, <1>8 DEF Remaining
<1> DEFINE F == [j \in (h + 1)..n |-> from(j)]
           G == [j \in (h + 1)..n |-> to(j)]
<1>11. /\ F \in [Remaining(p) -> Remaining(q)] /\ G \in [Remaining(q) -> Remaining(p)]
       /\ \A j \in Remaining(p) : p.entries[j] = q.entries[F[j]] /\ G[F[j]] = j
       /\ \A j \in Remaining(q) : F[G[j]] = j
  <2> HIDE DEF from, to, p, h, n
  <2>1. QED
    BY <1>8, <1>9, <1>10
<1> HIDE DEF F, G, p
<1>12. LeftWords(p) = LeftWords(q) /\ (EachOnce(q) => EachOnce(p))
  BY <1>11, SameEntries
<1>13. QED
  BY <1>1, <1>6, <1>8, <1>12 DEF Reordered, p

(* What is chosen to be served is served instead of nothing.               *)
LEMMA ChooseServedReorders ==
  ASSUME NEW q \in Queue, ~IsFinished(q), NEW p \in ChooseServed(q)
  PROVE  Reordered(q, p)
<1>1. Reordered(q, q)
  BY DEF Reordered
<1>2. QED
  BY <1>1, SurfacedReorders DEF ChooseServed

(* The head of a queue that is not finished.                               *)
LEMMA HeadIsLeft ==
  ASSUME NEW q \in Queue, ~IsFinished(q)
  PROVE  Head0(q) \in QueueEntry /\ Head0(q).word \in LeftWords(q) /\ Head0(q).word \in Words
<1>1. /\ q.entries \in Seq(QueueEntry) /\ q.position \in Nat /\ Len(q.entries) \in Nat
      /\ q.position + 1 \in 1..Len(q.entries) /\ q.position + 1 \in Remaining(q)
  BY DEF Queue, IsFinished, Remaining
<1>2. Head0(q) \in QueueEntry
  BY <1>1, ElementOfSeq DEF Head0
<1>3. QED
  BY <1>1, <1>2 DEF Head0, LeftWords, QueueEntry

(* A word answered right is no longer left, a word answered wrong is again.*)
LEMMA AdvanceTurns ==
  ASSUME NEW q \in Queue, ~IsFinished(q), NEW rating \in Ratings, NEW p \in Advance(q, rating)
  PROVE  /\ p \in Queue /\ p.turnSeq = q.turnSeq + 1
         /\ EachOnce(q) =>
              /\ EachOnce(p)
              /\ LeftWords(p) = IF rating = "right" THEN LeftWords(q) \ {Head0(q).word}
                                ELSE LeftWords(q)
         /\ IsFinished(p) => LeftWords(p) = {} /\ rating = "right"
<1> DEFINE h == q.position
           n == Len(q.entries)
           es == q.entries
<1>1. es \in Seq(QueueEntry) /\ h \in Nat /\ n \in Nat /\ h < n /\ q.turnSeq \in Nat
  BY DEF Queue, IsFinished
<1>2. CASE rating = "right"
  <2>1. p = [entries |-> es, position |-> h + 1, turnSeq |-> q.turnSeq + 1]
    BY <1>2 DEF Advance
  <2>2. /\ p \in Queue /\ p.turnSeq = q.turnSeq + 1
        /\ p.entries = es /\ p.position = h + 1
    BY <1>1, <2>1 DEF Queue
  <2>3. Remaining(q) = (h + 1)..n /\ Remaining(p) = (h + 2)..n
    BY <1>1, <2>2 DEF Remaining
  <2>4. ASSUME EachOnce(q)
        PROVE  EachOnce(p) /\ LeftWords(p) = LeftWords(q) \ {es[h + 1].word}
    <3>1. \A i, j \in (h + 1)..n : es[i].word = es[j].word => i = j
      BY <2>3, <2>4 DEF EachOnce
    <3>2. EachOnce(p)
      BY <1>1, <2>2, <2>3, <3>1 DEF EachOnce
    <3>3. ASSUME NEW j \in (h + 2)..n
          PROVE  es[j].word \in LeftWords(q) /\ es[j].word # es[h + 1].word
      <4>1. j \in (h + 1)..n /\ h + 1 \in (h + 1)..n /\ j # h + 1
        BY <1>1
      <4>2. QED
        BY <2>3, <3>1, <4>1 DEF LeftWords
    <3>4. ASSUME NEW j \in (h + 1)..n, es[j].word # es[h + 1].word
          PROVE  j \in (h + 2)..n
      BY <1>1, <3>4
    <3>5. LeftWords(p) = {es[j].word : j \in (h + 2)..n} /\ LeftWords(q) = {es[j].word : j \in (h + 1)..n}
      BY <2>2, <2>3 DEF LeftWords
    <3>6. QED
      BY <3>2, <3>3, <3>4, <3>5
  <2>5. IsFinished(p) => LeftWords(p) = {}
    BY <1>1, <2>2, <2>3 DEF IsFinished, LeftWords
  <2>6. QED
    BY <1>2, <2>2, <2>4, <2>5 DEF Head0
<1>3. CASE rating = "wrong"
  <2>1. PICK i \in ReinsertionIndexes(q) :
          p = [entries |-> PutAt(es, i, Head0(q)), position |-> h + 1, turnSeq |-> q.turnSeq + 1]
    BY <1>3 DEF Advance
  <2>2. i \in (h + 1)..n
    BY <1>1, AheadAssumption DEF ReinsertionIndexes
  <2> DEFINE e == Head0(q)
             ss == PutAt(es, i, e)
             from(j) == IF j <= i THEN j ELSE IF j = i + 1 THEN h + 1 ELSE j - 1
             to(j) == IF j = h + 1 THEN i + 1 ELSE IF j <= i THEN j ELSE j + 1
  <2>3. e \in QueueEntry /\ e = es[h + 1] /\ i \in 0..n
    BY <1>1, <2>2, HeadIsLeft DEF Head0
  <2>4. /\ ss \in Seq(QueueEntry) /\ Len(ss) = n + 1
        /\ \A j \in 1..(n + 1) :
             ss[j] = IF j <= i THEN es[j] ELSE IF j = i + 1 THEN e ELSE es[j - 1]
    <3>1. PICK s, k, d : s = es /\ k = i /\ d = e
      OBVIOUS
    <3>2. s \in Seq(QueueEntry) /\ k \in 0..Len(s) /\ d \in QueueEntry
      BY <1>1, <2>3, <3>1
    <3>3. /\ PutAt(s, k, d) \in Seq(QueueEntry)
          /\ Len(PutAt(s, k, d)) = Len(s) + 1
          /\ \A j \in 1..(Len(s) + 1) :
               PutAt(s, k, d)[j] = IF j <= k THEN s[j] ELSE IF j = k + 1 THEN d ELSE s[j - 1]
      BY <3>2, PutAtProperties
    <3>4. QED
      BY <1>1, <3>1, <3>3
  <2>5. /\ p \in Queue /\ p.turnSeq = q.turnSeq + 1
        /\ p.entries = ss /\ p.position = h + 1
    <3> HIDE DEF ss
    <3>1. p = [entries |-> ss, position |-> h + 1, turnSeq |-> q.turnSeq + 1]
      BY <2>1 DEF ss
    <3>2. QED
      BY <1>1, <2>4, <3>1 DEF Queue
  <2> HIDE DEF ss, e
  <2>6. Remaining(q) = (h + 1)..n /\ Remaining(p) = (h + 2)..(n + 1)
    BY <1>1, <2>4, <2>5 DEF Remaining
  <2>7. ASSUME NEW j \in (h + 2)..(n + 1)
        PROVE  from(j) \in (h + 1)..n /\ ss[j] = es[from(j)] /\ to(from(j)) = j
    <3>1. from(j) \in (h + 1)..n /\ to(from(j)) = j /\ j \in 1..(n + 1)
      BY <1>1, <2>2
    <3>2. ss[j] = IF j <= i THEN es[j] ELSE IF j = i + 1 THEN e ELSE es[j - 1]
      BY <2>4, <3>1
    <3>3. QED
      BY <2>3, <3>1, <3>2
  <2>8. ASSUME NEW j \in (h + 1)..n
        PROVE  to(j) \in (h + 2)..(n + 1) /\ from(to(j)) = j
    BY <1>1, <2>2
  <2> DEFINE F == [j \in (h + 2)..(n + 1) |-> from(j)]
             G == [j \in (h + 1)..n |-> to(j)]
  <2>9. /\ F \in [Remaining(p) -> Remaining(q)] /\ G \in [Remaining(q) -> Remaining(p)]
        /\ \A j \in Remaining(p) : p.entries[j] = q.entries[F[j]] /\ G[F[j]] = j
        /\ \A j \in Remaining(q) : F[G[j]] = j
    <3> HIDE DEF from, to, h, n
    <3>1. QED
      BY <2>5, <2>6, <2>7, <2>8
  <2> HIDE DEF F, G
  <2>10. LeftWords(p) = LeftWords(q) /\ (EachOnce(q) => EachOnce(p))
    BY <2>9, SameEntries
  <2>11. ~IsFinished(p)
    BY <1>1, <2>4, <2>5 DEF IsFinished
  <2>12. QED
    BY <1>3, <2>5, <2>10, <2>11
<1>4. QED
  BY <1>2, <1>3 DEF Ratings

(* A new queue serves every due word once.                                 *)
LEMMA ListingServes ==
  ASSUME NEW W \in SUBSET Words, IsFiniteSet(W), W # {}, NEW due \in Listings(W)
  PROVE  /\ CreateQueue(due) \in Queue /\ CreateQueue(due).turnSeq = 0
         /\ ~IsFinished(CreateQueue(due))
         /\ LeftWords(CreateQueue(due)) = W
         /\ EachOnce(CreateQueue(due))
<1> DEFINE n == Cardinality(W)
           q == CreateQueue(due)
<1>1. n \in Nat /\ n # 0 /\ IsFiniteSet(1..n) /\ Cardinality(1..n) = n
  <2>1. n \in Nat /\ n # 0
    BY FS_CardinalityType, FS_EmptySet
  <2>2. QED
    BY <2>1, FS_Interval
<1>2. PICK f \in [1..n -> W] :
        /\ \A i, j \in 1..n : i # j => f[i] # f[j]
        /\ due = [i \in 1..n |-> [word |-> f[i], tag |-> TagOf[f[i]]]]
  BY DEF Listings
<1> HIDE DEF n
<1>3. \A i, j \in 1..n : f[i] = f[j] => i = j
  BY <1>2
<1>3a. f \in Surjection(1..n, W)
  <2>1. f \in Injection(1..n, W)
    BY <1>2, <1>3 DEF Injection, IsInjective
  <2>2. Cardinality(1..n) = Cardinality(W)
    BY <1>1 DEF n
  <2>3. QED
    BY <2>1, <2>2, FS_Injection
<1>4. /\ due \in Seq(QueueEntry) /\ Len(due) = n
      /\ \A i \in 1..n : due[i].word = f[i]
  <2>1. \A i \in 1..n : [word |-> f[i], tag |-> TagOf[f[i]]] \in QueueEntry
    BY PracticeAssumption DEF QueueEntry
  <2>2. due \in [1..n -> QueueEntry]
    BY <1>2, <2>1
  <2>3. QED
    BY <1>1, <1>2, <2>2
<1>5. q.entries = due /\ q.position = 0 /\ q.turnSeq = 0 /\ q \in Queue
  BY <1>4 DEF CreateQueue, Queue
<1>6. Remaining(q) = 1..n /\ ~IsFinished(q)
  BY <1>1, <1>4, <1>5 DEF Remaining, IsFinished
<1>7. EachOnce(q)
  BY <1>3, <1>4, <1>5, <1>6 DEF EachOnce
<1>8. LeftWords(q) = {f[i] : i \in 1..n}
  BY <1>4, <1>5, <1>6 DEF LeftWords
<1>9. {f[i] : i \in 1..n} = W
  BY <1>2, <1>3a DEF Surjection
<1>10. QED
  BY <1>5, <1>6, <1>7, <1>8, <1>9

------------------------------------------------------------------------------
(* The actions.                                                            *)

(* Those of a request that only move it on.                                *)
Reads(x) ==
  \/ Enter(x) \/ Resume(x) \/ LoseQueue(x) \/ FindDue(x)
  \/ \E s \in DOMAIN sessions : Post(x, s)
  \/ \E rating \in Ratings : Fetch(x, rating)
  \/ FetchNothing(x) \/ Insert(x) \/ ReadSchedule(x) \/ CompletionFails(x)
  \/ LoseLockRace(x) \/ Crash(x)

LEMMA PracticeCases ==
  ASSUME [Next]_vars, NEW G,
         \A x \in Tabs : Reads(x) => G,
         \A x \in Tabs : Start(x) => G,
         \A x \in Tabs : Serve(x) => G,
         \A x \in Tabs : MoveOn(x) => G,
         \A x \in Tabs : Write(x) => G,
         \A x \in Tabs : End(x) => G,
         \A s \in SessionIds : SweepEnd(s) => G,
         Sweep => G, SweepCrash => G, Tick => G,
         UNCHANGED vars => G
  PROVE  G
BY DEF Next, TabStep, EnterStep, AnswerStep, Reads

LEMMA ReadsOnly ==
  ASSUME NEW x \in Tabs, Reads(x)
  PROVE  UNCHANGED <<tables, queues, clock, owner, sweep>>
BY DEF Reads, Enter, Resume, LoseQueue, FindDue, Post, Fetch, FetchNothing, Insert, ReadSchedule,
       CompletionFails, LoseLockRace, Crash

------------------------------------------------------------------------------
(* Sessions.                                                               *)

LEMMA SessionsSeq ==
  ASSUME TypeOK
  PROVE  /\ Len(sessions) \in Nat /\ DOMAIN sessions = 1..Len(sessions)
         /\ DOMAIN sessions \subseteq SessionIds
         /\ \A s \in DOMAIN sessions : sessions[s] \in Session
BY PracticeAssumption, LenProperties, ElementOfSeq DEF TypeOK, SessionIds

LEMMA CountsAreNumbers ==
  ASSUME IsFiniteSet(attempts), NEW s
  PROVE  /\ IsFiniteSet(Attempts(s)) /\ Count(s) \in Nat
         /\ IsFiniteSet(RightOnes(s)) /\ Cardinality(RightOnes(s)) \in Nat
<1>1. IsFiniteSet(Attempts(s))
  BY FS_Subset DEF Attempts
<1>2. IsFiniteSet(RightOnes(s))
  BY <1>1, FS_Subset DEF RightOnes
<1>3. QED
  BY <1>1, <1>2, FS_CardinalityType DEF Count

(* finaliseSession ends an active session with its counts, and no other.   *)
LEMMA FinalisedEnds ==
  ASSUME TypeOK, IsFiniteSet(attempts), NEW s \in DOMAIN sessions, NEW status \in Statuses
  PROVE  /\ Finalised(s, status) \in Seq(Session)
         /\ Len(Finalised(s, status)) = Len(sessions)
         /\ \A u \in DOMAIN sessions :
              /\ Finalised(s, status)[u].owner = sessions[u].owner
              /\ Finalised(s, status)[u].words = sessions[u].words
              /\ u # s \/ ~Active(u) => Finalised(s, status)[u] = sessions[u]
         /\ Active(s) => /\ Finalised(s, status)[s].status = status
                         /\ Finalised(s, status)[s].total = Count(s)
                         /\ Finalised(s, status)[s].correct = Cardinality(RightOnes(s))
<1>0. sessions \in Seq(Session) /\ s \in 1..Len(sessions) /\ DOMAIN sessions = 1..Len(sessions)
      /\ sessions[s] \in Session
  BY SessionsSeq DEF TypeOK
<1>1. CASE ~Active(s)
  BY <1>0, <1>1 DEF Finalised
<1>2. CASE Active(s)
  <2> DEFINE total == Count(s)
             correct == Cardinality(RightOnes(s))
             row == [sessions[s] EXCEPT !.status = status, !.total = total, !.correct = correct]
  <2>1. total \in Nat /\ correct \in Nat
    BY CountsAreNumbers
  <2>2. Finalised(s, status) = [sessions EXCEPT ![s] = row]
    BY <1>0, <1>2 DEF Finalised, Count
  <2> HIDE DEF total, correct
  <2>3. /\ row \in Session
        /\ row.status = status /\ row.total = total /\ row.correct = correct
        /\ row.owner = sessions[s].owner /\ row.words = sessions[s].words
    BY <1>0, <2>1 DEF Session
  <2> HIDE DEF row
  <2>4. /\ [sessions EXCEPT ![s] = row] \in Seq(Session)
        /\ Len([sessions EXCEPT ![s] = row]) = Len(sessions)
        /\ \A u \in 1..Len(sessions) :
             [sessions EXCEPT ![s] = row][u] = IF u = s THEN row ELSE sessions[u]
    BY <1>0, <2>3, ExceptSeq
  <2>5. QED
    BY <1>0, <1>2, <2>2, <2>3, <2>4 DEF total, correct
<1>3. QED
  BY <1>1, <1>2

(* What a step does to sessions: it may add one, end active ones, touch.   *)
SessionsEvolve ==
  /\ Len(sessions') >= Len(sessions)
  /\ \A s \in DOMAIN sessions :
       /\ sessions'[s].owner = sessions[s].owner
       /\ sessions'[s].words = sessions[s].words
       /\ ~Active(s) => /\ sessions'[s].status = sessions[s].status
                        /\ sessions'[s].total = sessions[s].total
                        /\ sessions'[s].correct = sessions[s].correct

LEMMA SessionsStep ==
  ASSUME PracticeInv, [Next]_vars
  PROVE  sessions' \in Seq(Session) /\ Len(sessions') <= MaxSessions /\ SessionsEvolve
<1> DEFINE G == sessions' \in Seq(Session) /\ Len(sessions') <= MaxSessions /\ SessionsEvolve
<1>0. /\ TypeOK /\ IsFiniteSet(attempts) /\ RequestsHold /\ SweepFits
      /\ sessions \in Seq(Session) /\ Len(sessions) <= MaxSessions
      /\ Len(sessions) \in Nat /\ DOMAIN sessions = 1..Len(sessions)
      /\ \A s \in DOMAIN sessions : sessions[s] \in Session
      /\ \A x \in Tabs : tab[x] \in Request /\ owner[x] \in Owners
  BY SessionsSeq DEF PracticeInv, AttemptsFit, TypeOK
<1>1. ASSUME sessions' = sessions PROVE G
  BY <1>0, <1>1 DEF SessionsEvolve
<1>2. ASSUME NEW s \in DOMAIN sessions, NEW status \in Statuses, sessions' = Finalised(s, status)
      PROVE  G
  BY <1>0, <1>2, FinalisedEnds DEF SessionsEvolve
<1>3. ASSUME NEW x \in Tabs, Start(x) PROVE G
  <2> DEFINE new == [owner |-> owner[x], words |-> tab[x].due, status |-> "active",
                     last |-> tab[x].now, total |-> 0, correct |-> 0]
  <2>1. new \in Session
    BY <1>0 DEF Session, Request, Statuses
  <2>2. sessions' = Append(sessions, new) /\ Len(sessions) < MaxSessions
    BY <1>3 DEF Start
  <2> HIDE DEF new
  <2>3. /\ sessions' \in Seq(Session) /\ Len(sessions') = Len(sessions) + 1
        /\ \A i \in 1..Len(sessions) : sessions'[i] = sessions[i]
    BY <1>0, <2>1, <2>2, AppendProperties
  <2>4. QED
    BY <1>0, <2>2, <2>3, PracticeAssumption DEF SessionsEvolve
<1>4. ASSUME NEW x \in Tabs, Write(x) PROVE G
  <2> DEFINE s == tab[x].sid
             now == tab[x].now
             row == [sessions[s] EXCEPT !.last = now]
  <2>1. s \in 1..Len(sessions) /\ now \in Nat /\ sessions[s] \in Session
    BY <1>0, <1>4 DEF RequestsHold, Holds, Holding, Write, Request
  <2>2. sessions' = [sessions EXCEPT ![s] = row]
    BY <1>4 DEF Write
  <2>3. /\ row \in Session /\ row.owner = sessions[s].owner /\ row.words = sessions[s].words
        /\ row.status = sessions[s].status /\ row.total = sessions[s].total
        /\ row.correct = sessions[s].correct
    BY <2>1 DEF Session
  <2> HIDE DEF row, s
  <2>4. /\ sessions' \in Seq(Session) /\ Len(sessions') = Len(sessions)
        /\ \A u \in 1..Len(sessions) : sessions'[u] = IF u = s THEN row ELSE sessions[u]
    BY <1>0, <2>1, <2>2, <2>3, ExceptSeq
  <2>5. QED
    BY <1>0, <2>3, <2>4 DEF SessionsEvolve
<1> HIDE DEF G
<1>5. \A x \in Tabs : Reads(x) => G
  BY <1>1, ReadsOnly DEF tables
<1>6. \A x \in Tabs : Serve(x) \/ MoveOn(x) => G
  BY <1>1 DEF Serve, MoveOn, tables
<1>7. \A x \in Tabs : End(x) => G
  <2> SUFFICES ASSUME NEW x \in Tabs, End(x) PROVE G
    OBVIOUS
  <2>1. tab[x].sid \in DOMAIN sessions /\ tab[x].status \in Statuses
    BY <1>0 DEF End, RequestsHold, Holds, Request
  <2>2. QED
    BY <1>2, <2>1 DEF End
<1>8. \A s \in SessionIds : SweepEnd(s) => G
  BY <1>0, <1>2 DEF SweepEnd, SweepFits, Statuses
<1>9. Sweep \/ SweepCrash \/ Tick => G
  BY <1>1 DEF Sweep, SweepCrash, Tick, tables
<1>10. UNCHANGED vars => G
  BY <1>1 DEF vars, tables
<1>11. G
  BY <1>3, <1>4, <1>5, <1>6, <1>7, <1>8, <1>9, <1>10, PracticeCases
<1>12. QED
  BY <1>11 DEF G

------------------------------------------------------------------------------
(* Requests.                                                               *)

LEMMA AtHomeType == AtHome \in Request /\ AtHome.pc = "home"
<1>1. EmptyQueue \in Queue
  BY DEF EmptyQueue, CreateQueue, Queue
<1>2. InitialSm2 \in Sm2State
  BY DEF InitialSm2, Sm2State, Eases
<1>3. 0 \in 0..MaxSessions /\ 0 \in Nat /\ FALSE \in BOOLEAN /\ {} \in SUBSET Words
      /\ "home" \in Labels /\ "right" \in Ratings /\ "active" \in Statuses
  BY PracticeAssumption DEF Labels, Ratings, Statuses
<1> HIDE DEF EmptyQueue, InitialSm2
<1>4. AtHome \in Request
  BY <1>1, <1>2, <1>3, Zenon DEF AtHome, Request
<1>5. AtHome.pc = "home"
  BY DEF AtHome
<1>6. QED
  BY <1>4, <1>5

(* Where a statement leaves the one request it moves, when it changes no   *)
(* more than that.                                                         *)
Moved(x, q) ==
  /\ q \in Request
  /\ tab' = [tab EXCEPT ![x] = q]
  /\ Holds(q)
  /\ q.pc # "advance"
  /\ \A y \in Tabs \ {x} : tab[y].sid = q.sid =>
       /\ q.pc \in {"review", "write"} /\ InFlight(y) => q.queue.turnSeq # Turn(y)
       /\ q.pc \in Holding /\ tab[y].pc = "advance" => q.queue.turnSeq < Count(q.sid)

LEMMA HomeMoves ==
  ASSUME NEW x \in Tabs, GoHome(x)
  PROVE  Moved(x, AtHome)
BY AtHomeType DEF Moved, GoHome, Holds, Holding

(* The end of a session is what a request goes on to.                      *)
LEMMA EndWithMoves ==
  ASSUME PracticeInv, NEW x \in Tabs, NEW s \in DOMAIN sessions, NEW goOn \in BOOLEAN,
         NEW status \in Statuses, status = "completed" => Complete(s), EndWith(x, s, status, goOn)
  PROVE  \E q : Moved(x, q)
<1> DEFINE now == IF goOn THEN tab[x].now ELSE 0
           q == [AtHome EXCEPT !.pc = "finalise", !.sid = s, !.status = status,
                               !.goOn = goOn, !.now = now]
<1>1. now \in Nat /\ s \in 0..MaxSessions
  BY SessionsSeq DEF PracticeInv, TypeOK, Request, SessionIds
<1>2. tab' = [tab EXCEPT ![x] = q]
  BY DEF EndWith
<1> HIDE DEF now
<1>3. q \in Request /\ q.pc = "finalise" /\ q.sid = s /\ q.status = status
  BY <1>1, AtHomeType DEF Request, Labels
<1> HIDE DEF q
<1>4. Moved(x, q)
  BY <1>2, <1>3 DEF Moved, Holds, Holding
<1>5. QED
  BY <1>4

LEMMA NewestIsThere ==
  ASSUME NEW n \in Nat, NEW S \in SUBSET (1..n), S # {}
  PROVE  Newest(S) \in S
<1> DEFINE U == {n - i : i \in S}
<1>1. U \in SUBSET Nat /\ U # {}
  <2>1. \A i \in S : n - i \in Nat
    OBVIOUS
  <2>2. QED
    BY <2>1
<1>2. PICK u \in U : \A v \in U : u <= v
  BY <1>1, LeastNumber
<1>3. PICK i \in S : u = n - i
  OBVIOUS
<1>4. \A j \in S : n - i <= n - j
  BY <1>2, <1>3
<1>5. \A j \in S : j <= i
  BY <1>4
<1>6. QED
  BY <1>5 DEF Newest

LEMMA EnterMoves ==
  ASSUME PracticeInv, NEW x \in Tabs, Enter(x)
  PROVE  \E q : Moved(x, q)
<1> DEFINE found == ActiveOf(owner[x])
           s == Newest(found)
           t == [tab[x] EXCEPT !.now = clock]
<1>0. TypeOK /\ tab[x] \in Request /\ clock \in Nat
  BY DEF PracticeInv, TypeOK
<1>1. t \in Request
  BY <1>0 DEF Request
<1>2. found # {} => s \in DOMAIN sessions /\ s \in 0..MaxSessions
  <2>1. found \in SUBSET (1..Len(sessions)) /\ Len(sessions) \in Nat
        /\ DOMAIN sessions \subseteq SessionIds /\ DOMAIN sessions = 1..Len(sessions)
    BY <1>0, SessionsSeq DEF ActiveOf
  <2>2. found # {} => s \in found
    BY <2>1, NewestIsThere
  <2>3. QED
    BY <2>1, <2>2 DEF SessionIds
<1>3. ASSUME found = {} PROVE \E q : Moved(x, q)
  <2> DEFINE q == [t EXCEPT !.pc = "due"]
  <2>1. tab' = [tab EXCEPT ![x] = q]
    BY <1>0, <1>3 DEF Enter, TypeOK, PracticeInv
  <2>2. q \in Request /\ q.pc = "due"
    BY <1>1 DEF Request, Labels
  <2> HIDE DEF q
  <2>3. QED
    BY <2>1, <2>2 DEF Moved, Holds, Holding
<1>4. ASSUME found # {}, clock - sessions[s].last >= Idle PROVE \E q : Moved(x, q)
  <2> DEFINE q == [t EXCEPT !.pc = "finalise", !.sid = s, !.status = "timed_out", !.goOn = TRUE]
  <2>1. tab' = [tab EXCEPT ![x] = q]
    BY <1>0, <1>4 DEF Enter, TypeOK, PracticeInv
  <2> HIDE DEF s, t
  <2>2. q \in Request
    <3> DEFINE b == TRUE
    <3>1. b \in BOOLEAN /\ "finalise" \in Labels /\ "timed_out" \in Statuses
      BY DEF Labels, Statuses
    <3> HIDE DEF b
    <3>2. [t EXCEPT !.pc = "finalise", !.sid = s, !.status = "timed_out", !.goOn = b] \in Request
      BY <1>1, <1>2, <1>4, <3>1 DEF Request
    <3>3. QED
      BY <3>2 DEF b
  <2>3. q.pc = "finalise" /\ q.sid = s /\ q.status = "timed_out"
    BY <1>1 DEF Request
  <2> HIDE DEF q
  <2>4. QED
    BY <1>2, <1>4, <2>1, <2>2, <2>3 DEF Moved, Holds, Holding
<1>5. ASSUME found # {}, ~(clock - sessions[s].last >= Idle) PROVE \E q : Moved(x, q)
  <2> DEFINE q == [t EXCEPT !.pc = "load", !.sid = s]
  <2>1. tab' = [tab EXCEPT ![x] = q]
    BY <1>0, <1>5 DEF Enter, TypeOK, PracticeInv
  <2> HIDE DEF s, t
  <2>2. q \in Request /\ q.pc = "load" /\ q.sid = s
    BY <1>1, <1>2, <1>5 DEF Request, Labels
  <2> HIDE DEF q
  <2>3. QED
    BY <1>2, <1>5, <2>1, <2>2 DEF Moved, Holds, Holding
<1>6. QED
  BY <1>3, <1>4, <1>5

LEMMA FindDueMoves ==
  ASSUME PracticeInv, NEW x \in Tabs, FindDue(x)
  PROVE  \E q : Moved(x, q)
<1> DEFINE W == {w \in Words : IsDue(owner[x], w, tab[x].now)}
           q == [tab[x] EXCEPT !.pc = "start", !.due = W]
<1>1. CASE W = {}
  BY <1>1, HomeMoves DEF FindDue
<1>2. CASE W # {}
  <2>1. tab' = [tab EXCEPT ![x] = q]
    BY <1>2 DEF FindDue
  <2>2. tab[x] \in Request /\ W \in SUBSET Words
    BY DEF PracticeInv, TypeOK
  <2> HIDE DEF W
  <2>3. q \in Request /\ q.pc = "start" /\ q.due = W
    BY <2>2 DEF Request, Labels
  <2> HIDE DEF q
  <2>4. QED
    BY <1>2, <2>1, <2>3 DEF Moved, Holds, Holding
<1>3. QED
  BY <1>1, <1>2

LEMMA PostMoves ==
  ASSUME PracticeInv, NEW x \in Tabs, NEW s \in DOMAIN sessions, Post(x, s)
  PROVE  \E q : Moved(x, q)
<1> DEFINE q == [tab[x] EXCEPT !.pc = "fetch", !.sid = s]
<1>1. tab' = [tab EXCEPT ![x] = q]
  BY DEF Post
<1>2. tab[x] \in Request /\ s \in 0..MaxSessions
  BY SessionsSeq DEF PracticeInv, TypeOK, SessionIds
<1>3. q \in Request /\ q.pc = "fetch" /\ q.sid = s
  BY <1>2 DEF Request, Labels
<1> HIDE DEF q
<1>4. QED
  BY <1>1, <1>3 DEF Moved, Holds, Holding

(* What the queue in Redis serves by now is what the request goes on with. *)
LEMMA FetchMoves ==
  ASSUME PracticeInv, NEW x \in Tabs, NEW rating \in Ratings, Fetch(x, rating)
  PROVE  \E q : Moved(x, q)
<1> DEFINE s == tab[x].sid
           k == queues[s]
           q == [tab[x] EXCEPT !.pc = "insert", !.queue = k, !.rating = rating, !.now = clock]
<1>1. CASE GoHome(x)
  BY <1>1, HomeMoves
<1>2. CASE tab' = [tab EXCEPT ![x].pc = "insert", ![x].queue = k, ![x].rating = rating, ![x].now = clock]
  <2>1. tab' = [tab EXCEPT ![x] = q]
    BY <1>2
  <2>2. tab[x] \in Request /\ clock \in Nat /\ s \in DOMAIN sessions /\ s \in SessionIds
    BY SessionsSeq DEF PracticeInv, TypeOK, RequestsHold, Holds, Fetch
  <2>3. k # Gone /\ k \in Queue /\ Fits(s, k)
    BY <2>2 DEF Fetch, PracticeInv, TypeOK, QueuesFit
  <2>4. \A y \in Tabs : tab[y].pc = "advance" /\ tab[y].sid = s => k.turnSeq < Count(s)
    BY <2>2, <2>3 DEF PracticeInv, QueuesFit
  <2> HIDE DEF k
  <2>5. q \in Request /\ q.pc = "insert" /\ q.queue = k /\ q.sid = s
    BY <2>2, <2>3 DEF Request, Labels
  <2> HIDE DEF q, s
  <2>6. QED
    BY <2>1, <2>2, <2>3, <2>4, <2>5 DEF Moved, Holds, Holding
<1>3. QED
  BY <1>1, <1>2 DEF Fetch

(* The same queue, at another statement of the answer.                     *)
LEMMA RelabelType ==
  ASSUME NEW t \in Request, NEW label \in Labels
  PROVE  /\ [t EXCEPT !.pc = label] \in Request
         /\ [t EXCEPT !.pc = label].pc = label
         /\ [t EXCEPT !.pc = label].sid = t.sid
         /\ [t EXCEPT !.pc = label].queue = t.queue
BY DEF Request

LEMMA InsertMoves ==
  ASSUME PracticeInv, NEW x \in Tabs, Insert(x)
  PROVE  \E q : Moved(x, q)
<1> DEFINE t == tab[x]
           q == [t EXCEPT !.pc = "review"]
<1>1. CASE TurnOpen(t.sid, Turn(x))
  <2>1. tab' = [tab EXCEPT ![x] = q]
    BY <1>1 DEF Insert, Goto
  <2>2. t \in Request /\ t.pc = "insert" /\ Holds(t)
    BY DEF PracticeInv, TypeOK, RequestsHold, Insert
  <2>3. /\ q \in Request /\ q.pc = "review" /\ q.sid = t.sid /\ q.queue = t.queue
    BY <2>2, RelabelType DEF Labels
  <2> HIDE DEF q
  <2>4. Holds(q)
    BY <1>1, <2>2, <2>3 DEF Holds, Holding, Turn
  <2>5. ASSUME NEW y \in Tabs \ {x}, tab[y].sid = q.sid, InFlight(y)
        PROVE  q.queue.turnSeq # Turn(y)
    BY <2>3, <2>5 DEF Insert, Turn
  <2>6. ASSUME NEW y \in Tabs \ {x}, tab[y].sid = q.sid, tab[y].pc = "advance"
        PROVE  q.queue.turnSeq < Count(q.sid)
    BY <2>2, <2>3, <2>6 DEF PracticeInv, OneAtATime, Holding, Turn
  <2>7. QED
    BY <2>1, <2>3, <2>4, <2>5, <2>6 DEF Moved
<1>2. CASE ~TurnOpen(t.sid, Turn(x))
  BY <1>2, HomeMoves DEF Insert
<1>3. QED
  BY <1>1, <1>2

LEMMA ReadScheduleMoves ==
  ASSUME PracticeInv, NEW x \in Tabs, ReadSchedule(x)
  PROVE  \E q : Moved(x, q)
<1> DEFINE t == tab[x]
           row == schedule[owner[x]][Word(x)]
           before == IF row = Gone THEN InitialSm2 ELSE row.state
           q == [t EXCEPT !.pc = "write", !.before = before]
<1>0. t \in Request /\ t.pc = "review" /\ Holds(t) /\ owner[x] \in Owners /\ t.queue \in Queue
  BY DEF PracticeInv, TypeOK, RequestsHold, ReadSchedule, Request
<1>1. Word(x) \in Words
  BY <1>0, HeadIsLeft DEF Word, Holds, Holding, Fits
<1>2. before \in Sm2State
  <2>1. row \in Sm2Row \cup {Gone}
    BY <1>0, <1>1 DEF PracticeInv, TypeOK
  <2>2. InitialSm2 \in Sm2State
    BY DEF InitialSm2, Sm2State, Eases
  <2>3. QED
    BY <2>1, <2>2 DEF Sm2Row
<1>3. tab' = [tab EXCEPT ![x] = q]
  BY DEF ReadSchedule
<1> HIDE DEF before
<1>4. q \in Request /\ q.pc = "write" /\ q.sid = t.sid /\ q.queue = t.queue
  BY <1>0, <1>2 DEF Request, Labels
<1> HIDE DEF q
<1>5. Holds(q)
  BY <1>0, <1>4 DEF Holds, Holding
<1>6. ASSUME NEW y \in Tabs \ {x}, tab[y].sid = q.sid
      PROVE  /\ InFlight(y) => q.queue.turnSeq # Turn(y)
             /\ tab[y].pc = "advance" => q.queue.turnSeq < Count(q.sid)
  <2>1. InFlight(x) /\ tab[x].pc \in Holding /\ tab[y].sid = tab[x].sid /\ Turn(x) = q.queue.turnSeq
    BY <1>0, <1>4, <1>6 DEF InFlight, Holding, Turn
  <2>2. QED
    BY <1>4, <1>6, <2>1 DEF PracticeInv, OneAtATime
<1>7. QED
  BY <1>3, <1>4, <1>5, <1>6 DEF Moved

(* A transaction that lost a lock race begins again, or fails.             *)
LEMMA LoseLockRaceMoves ==
  ASSUME PracticeInv, NEW x \in Tabs, LoseLockRace(x)
  PROVE  \E q : Moved(x, q)
<1> DEFINE t == tab[x]
           q == [t EXCEPT !.pc = "insert"]
<1>1. CASE GoHome(x)
  BY <1>1, HomeMoves
<1>2. CASE Goto(x, "insert")
  <2>1. tab' = [tab EXCEPT ![x] = q]
    BY <1>2 DEF Goto
  <2>2. t \in Request /\ t.pc \in {"insert", "review", "write"} /\ Holds(t)
    BY DEF PracticeInv, TypeOK, RequestsHold, LoseLockRace
  <2>3. q \in Request /\ q.pc = "insert" /\ q.sid = t.sid /\ q.queue = t.queue
    BY <2>2, RelabelType DEF Labels
  <2> HIDE DEF q
  <2>4. Holds(q)
    BY <2>2, <2>3 DEF Holds, Holding
  <2>5. ASSUME NEW y \in Tabs \ {x}, tab[y].sid = q.sid, tab[y].pc = "advance"
        PROVE  q.queue.turnSeq < Count(q.sid)
    BY <2>2, <2>3, <2>5 DEF PracticeInv, OneAtATime, Holding, Turn
  <2>6. QED
    BY <2>1, <2>3, <2>4, <2>5 DEF Moved
<1>3. QED
  BY <1>1, <1>2 DEF LoseLockRace

LEMMA CompletionFailsMoves ==
  ASSUME PracticeInv, NEW x \in Tabs, CompletionFails(x)
  PROVE  \E q : Moved(x, q)
<1> DEFINE q == [tab[x] EXCEPT !.status = "abandoned"]
<1>1. tab[x] \in Request /\ tab[x].pc = "finalise" /\ tab[x].sid \in DOMAIN sessions
  BY DEF PracticeInv, TypeOK, RequestsHold, Holds, CompletionFails
<1>2. tab' = [tab EXCEPT ![x] = q]
  BY DEF CompletionFails
<1>3. q \in Request /\ q.pc = "finalise" /\ q.sid = tab[x].sid /\ q.status = "abandoned"
  BY <1>1 DEF Request, Statuses
<1> HIDE DEF q
<1>4. QED
  BY <1>1, <1>2, <1>3 DEF Moved, Holds, Holding

LEMMA ReadsMove ==
  ASSUME PracticeInv, NEW x \in Tabs, Reads(x)
  PROVE  \E q : Moved(x, q)
<1>1. Resume(x) \/ Crash(x) => GoHome(x)
  BY DEF Resume, Crash
<1>2. ASSUME LoseQueue(x) \/ FetchNothing(x) PROVE \E q : Moved(x, q)
  <2>1. tab[x].sid \in DOMAIN sessions
    BY <1>2 DEF LoseQueue, FetchNothing, PracticeInv, RequestsHold, Holds
  <2>2. \E goOn \in BOOLEAN : EndWith(x, tab[x].sid, "abandoned", goOn)
    BY <1>2 DEF LoseQueue, FetchNothing
  <2>3. "abandoned" \in Statuses
    BY DEF Statuses
  <2>4. QED
    BY <2>1, <2>2, <2>3, EndWithMoves
<1>3. QED
  BY <1>1, <1>2, HomeMoves, EnterMoves, FindDueMoves, PostMoves, FetchMoves, InsertMoves,
     ReadScheduleMoves, LoseLockRaceMoves, CompletionFailsMoves DEF Reads

------------------------------------------------------------------------------
(* Every step but the commit of an answer.                                 *)

(* The counts are of attempts alone.                                       *)
LEMMA CountsStay ==
  ASSUME attempts' = attempts, NEW s
  PROVE  /\ Attempts(s)' = Attempts(s) /\ RightOnes(s)' = RightOnes(s)
         /\ Count(s)' = Count(s) /\ RightWords(s)' = RightWords(s)
BY DEF Attempts, RightOnes, Count, RightWords

SessionsGrow ==
  /\ DOMAIN sessions \subseteq DOMAIN sessions'
  /\ \A s \in DOMAIN sessions : sessions'[s].words = sessions[s].words

LEMMA FitsStays ==
  ASSUME attempts' = attempts, SessionsGrow, NEW s \in DOMAIN sessions, NEW q
  PROVE  /\ Fits(s, q) => Fits(s, q)'
         /\ Complete(s) => Complete(s)'
         /\ \A rating : Answered(s, q, rating) => Answered(s, q, rating)'
         /\ \A turn : TurnOpen(s, turn) => TurnOpen(s, turn)'
<1>1. /\ Attempts(s)' = Attempts(s) /\ Count(s)' = Count(s) /\ RightWords(s)' = RightWords(s)
      /\ sessions'[s].words = sessions[s].words
  BY CountsStay DEF SessionsGrow
<1>2. Fits(s, q) => Fits(s, q)'
  BY <1>1 DEF Fits, Serves, IsFinished, EachOnce, LeftWords, Remaining
<1>3. Complete(s) => Complete(s)'
  BY <1>1 DEF Complete
<1>4. \A rating : Answered(s, q, rating) => Answered(s, q, rating)'
  BY <1>1 DEF Answered, IsFinished, EachOnce, LeftWords, Remaining, Head0
<1>5. \A turn : TurnOpen(s, turn) => TurnOpen(s, turn)'
  BY <1>1 DEF TurnOpen
<1>6. QED
  BY <1>2, <1>3, <1>4, <1>5

LEMMA HoldsStays ==
  ASSUME attempts' = attempts, SessionsGrow, NEW t, Holds(t)
  PROVE  Holds(t)'
<1>1. CASE t.sid \in DOMAIN sessions
  <2>1. /\ Fits(t.sid, t.queue) => Fits(t.sid, t.queue)'
        /\ Complete(t.sid) => Complete(t.sid)'
        /\ Answered(t.sid, t.queue, t.rating) => Answered(t.sid, t.queue, t.rating)'
        /\ TurnOpen(t.sid, t.queue.turnSeq) => TurnOpen(t.sid, t.queue.turnSeq)'
    BY <1>1, FitsStays
  <2>2. t.sid \in DOMAIN sessions'
    BY <1>1 DEF SessionsGrow
  <2>3. QED
    BY <2>1, <2>2 DEF Holds, Holding
<1>2. CASE t.sid \notin DOMAIN sessions
  BY <1>2 DEF Holds, Holding
<1>3. QED
  BY <1>1, <1>2

(* One request moves, to where it holds.                                   *)
LEMMA TabsKeep ==
  ASSUME PracticeInv, attempts' = attempts, SessionsGrow,
         NEW x \in Tabs, NEW q \in Request, tab' = [tab EXCEPT ![x] = q],
         Holds(q)', q.pc # "advance",
         \A y \in Tabs \ {x} : tab[y].sid = q.sid =>
           /\ q.pc \in {"review", "write"} /\ InFlight(y) => q.queue.turnSeq # Turn(y)
           /\ q.pc \in Holding /\ tab[y].pc = "advance" => q.queue.turnSeq < Count(q.sid)
  PROVE  /\ tab' \in [Tabs -> Request] /\ RequestsHold' /\ OneAtATime'
         /\ \A y \in Tabs : tab'[y].pc = "advance" => tab'[y] = tab[y] /\ y # x
<1>1. /\ tab' \in [Tabs -> Request]
      /\ \A y \in Tabs : tab'[y] = IF y = x THEN q ELSE tab[y]
  BY DEF PracticeInv, TypeOK
<1>2. RequestsHold'
  <2> SUFFICES ASSUME NEW t \in {tab'[y] : y \in Tabs} PROVE Holds(t)'
    BY DEF RequestsHold
  <2>1. PICK y \in Tabs : t = tab'[y]
    OBVIOUS
  <2>2. CASE y = x
    BY <1>1, <2>1, <2>2
  <2>3. CASE y # x
    BY <1>1, <2>1, <2>3, HoldsStays DEF PracticeInv, RequestsHold
  <2>4. QED
    BY <2>2, <2>3
<1>3. ASSUME NEW y \in Tabs, NEW z \in Tabs, y # z, tab'[y].sid = tab'[z].sid
      PROVE  /\ InFlight(y)' /\ InFlight(z)' => Turn(y)' # Turn(z)'
             /\ tab'[y].pc = "advance" =>
                  /\ tab'[z].pc # "advance"
                  /\ tab'[z].pc \in Holding => Turn(z)' < Count(tab'[y].sid)
  <2>1. CASE y # x /\ z # x
    BY <1>1, <1>3, <2>1 DEF PracticeInv, OneAtATime, InFlight, Turn
  <2>2. CASE y = x
    BY <1>1, <1>3, <2>2 DEF InFlight, Turn
  <2>3. CASE z = x
    BY <1>1, <1>3, <2>3 DEF InFlight, Turn
  <2>4. QED
    BY <2>1, <2>2, <2>3
<1>4. \A s : Count(s)' = Count(s)
  BY CountsStay
<1>5. OneAtATime'
  <2> SUFFICES ASSUME NEW y \in Tabs, NEW z \in Tabs, y # z, tab'[y].sid = tab'[z].sid
               PROVE  /\ InFlight(y)' /\ InFlight(z)' => Turn(y)' # Turn(z)'
                      /\ tab'[y].pc = "advance" =>
                           /\ tab'[z].pc # "advance"
                           /\ tab'[z].pc \in Holding => Turn(z)' < Count(tab[y].sid)'
    BY DEF OneAtATime, Holding
  <2>1. Count(tab[y].sid)' = Count(tab'[y].sid)
    BY DEF Count, Attempts
  <2>2. QED
    BY <1>3, <2>1
<1>6. QED
  BY <1>1, <1>2, <1>5

(* A queue is dropped, or replaced by one that fits.                       *)
LEMMA QueuesKeep ==
  ASSUME PracticeInv, attempts' = attempts, SessionsGrow,
         \A x \in Tabs : tab'[x].pc = "advance" => tab'[x] = tab[x],
         \A s \in SessionIds :
           \/ queues'[s] \in {queues[s], Gone}
           \/ /\ s \in DOMAIN sessions' /\ Fits(s, queues[s])'
              /\ \A x \in Tabs : tab'[x].pc = "advance" /\ tab'[x].sid = s =>
                   queues'[s].turnSeq < Count(s)
  PROVE  QueuesFit'
<1> SUFFICES ASSUME NEW s \in SessionIds, queues'[s] # Gone
             PROVE  /\ s \in DOMAIN sessions'
                    /\ Fits(s, queues[s])'
                    /\ \A x \in Tabs : tab'[x].pc = "advance" /\ tab'[x].sid = s =>
                         queues'[s].turnSeq < Count(s)'
  BY DEF QueuesFit
<1>1. Count(s)' = Count(s)
  BY CountsStay
<1>2. CASE queues'[s] = queues[s]
  <2>1. PICK q : q = queues[s]
    OBVIOUS
  <2>2. /\ s \in DOMAIN sessions /\ Fits(s, q)
        /\ \A x \in Tabs : tab[x].pc = "advance" /\ tab[x].sid = s => q.turnSeq < Count(s)
    BY <1>2, <2>1 DEF PracticeInv, QueuesFit
  <2>3. Fits(s, q)'
    BY <2>2, FitsStays
  <2>4. Fits(s, queues[s])'
    BY <1>2, <2>1, <2>3 DEF Fits, Serves, IsFinished, EachOnce, LeftWords, Remaining
  <2>5. s \in DOMAIN sessions'
    BY <2>2 DEF SessionsGrow
  <2>6. QED
    BY <1>1, <1>2, <2>1, <2>2, <2>4, <2>5
<1>3. CASE queues'[s] # queues[s]
  BY <1>1, <1>3
<1>4. QED
  BY <1>2, <1>3

(* What is said of attempts, when none is added.                           *)
LEMMA AttemptsKeep ==
  ASSUME PracticeInv, attempts' = attempts, SessionsGrow
  PROVE  AttemptsFit' /\ TurnsInOrder'
<1>1. ASSUME NEW s, s \notin DOMAIN sessions
      PROVE  Attempts(s) = {} /\ RightOnes(s) = {} /\ Cardinality(Attempts(s)) = 0
  <2>1. Attempts(s) = {}
    BY <1>1 DEF PracticeInv, AttemptsFit, Attempts
  <2>2. QED
    BY <2>1, FS_EmptySet DEF RightOnes
<1>2. \A s : Attempts(s)' = Attempts(s) /\ RightOnes(s)' = RightOnes(s)
  BY CountsStay
<1>3. AttemptsFit'
  BY <1>1, <1>2 DEF PracticeInv, AttemptsFit, SessionsGrow
<1>4. ASSUME NEW s \in DOMAIN sessions'
      PROVE  {a.turn : a \in Attempts(s)} = 0..(Cardinality(Attempts(s)) - 1)
  <2>1. CASE s \in DOMAIN sessions
    BY <2>1 DEF PracticeInv, TurnsInOrder
  <2>2. CASE s \notin DOMAIN sessions
    BY <1>1, <2>2
  <2>3. QED
    BY <2>1, <2>2
<1>5. TurnsInOrder'
  <2> SUFFICES ASSUME NEW s \in DOMAIN sessions'
               PROVE  {a.turn : a \in Attempts(s)'} = 0..(Cardinality(Attempts(s)') - 1)
    BY DEF TurnsInOrder
  <2>1. QED
    BY <1>2, <1>4
<1>6. QED
  BY <1>3, <1>5

LEMMA TabsStay ==
  ASSUME PracticeInv, attempts' = attempts, SessionsGrow, tab' = tab
  PROVE  tab' \in [Tabs -> Request] /\ RequestsHold' /\ OneAtATime'
<1>1. RequestsHold'
  <2> SUFFICES ASSUME NEW t \in {tab'[y] : y \in Tabs} PROVE Holds(t)'
    BY DEF RequestsHold
  <2>1. QED
    BY HoldsStays DEF PracticeInv, RequestsHold
<1>2. \A s : Count(s)' = Count(s)
  BY CountsStay
<1>3. OneAtATime'
  BY <1>2 DEF PracticeInv, OneAtATime, InFlight, Turn, Holding
<1>4. QED
  BY <1>1, <1>3 DEF PracticeInv, TypeOK

LEMMA GrowStep ==
  ASSUME PracticeInv, [Next]_vars
  PROVE  SessionsGrow
<1>1. /\ sessions' \in Seq(Session) /\ SessionsEvolve
      /\ Len(sessions) \in Nat /\ DOMAIN sessions = 1..Len(sessions)
  BY SessionsStep, SessionsSeq DEF PracticeInv
<1>2. Len(sessions') \in Nat /\ DOMAIN sessions' = 1..Len(sessions')
  BY <1>1, LenProperties
<1>3. QED
  BY <1>1, <1>2 DEF SessionsEvolve, SessionsGrow

(* What ends completed is complete, and counted.                           *)
LEMMA EndedKeeps ==
  ASSUME PracticeInv, attempts' = attempts, SessionsEvolve, SessionsGrow,
         \A s \in DOMAIN sessions' :
           sessions'[s].status = "completed" =>
             /\ s \in DOMAIN sessions
             /\ \/ sessions[s].status = "completed"
                \/ /\ Complete(s)
                   /\ sessions'[s].total = Count(s)
                   /\ sessions'[s].correct = Cardinality(RightOnes(s))
  PROVE  EndedComplete'
<1> SUFFICES ASSUME NEW s \in DOMAIN sessions', sessions'[s].status = "completed"
             PROVE  /\ Complete(s)'
                    /\ sessions'[s].total = Count(s)'
                    /\ sessions'[s].correct = Cardinality(RightOnes(s)')
  BY DEF EndedComplete
<1>1. s \in DOMAIN sessions
  OBVIOUS
<1>2. Count(s)' = Count(s) /\ RightOnes(s)' = RightOnes(s)
  BY CountsStay
<1>3. Complete(s) => Complete(s)'
  BY <1>1, FitsStays
<1>4. CASE sessions[s].status = "completed"
  BY <1>1, <1>2, <1>3, <1>4 DEF PracticeInv, EndedComplete, SessionsEvolve, Active
<1>5. CASE sessions[s].status # "completed"
  BY <1>1, <1>2, <1>3, <1>5
<1>6. QED
  BY <1>4, <1>5

(* What the steps below establish of the tabs, the queues and the ends.    *)
Kept ==
  /\ tab' \in [Tabs -> Request] /\ queues' \in [SessionIds -> Queue \cup {Gone}]
  /\ RequestsHold' /\ OneAtATime' /\ QueuesFit' /\ EndedComplete'

LEMMA ReadsKeep ==
  ASSUME PracticeInv, [Next]_vars, NEW x \in Tabs, Reads(x)
  PROVE  Kept
<1>0. /\ SessionsGrow /\ SessionsEvolve
      /\ attempts' = attempts /\ sessions' = sessions /\ queues' = queues
  BY GrowStep, SessionsStep, ReadsOnly DEF tables
<1>1. PICK q : Moved(x, q)
  BY ReadsMove
<1>2. Holds(q)'
  BY <1>0, <1>1, HoldsStays DEF Moved
<1>3. /\ tab' \in [Tabs -> Request] /\ RequestsHold' /\ OneAtATime'
      /\ \A y \in Tabs : tab'[y].pc = "advance" => tab'[y] = tab[y] /\ y # x
  BY <1>0, <1>1, <1>2, TabsKeep DEF Moved
<1>4. QueuesFit'
  BY <1>0, <1>3, QueuesKeep
<1>5. EndedComplete'
  BY <1>0, EndedKeeps
<1>6. QED
  BY <1>0, <1>3, <1>4, <1>5 DEF Kept, PracticeInv, TypeOK

(* Requests and sessions aside: a sweep, a crash of it, a tick, a stutter. *)
LEMMA StillKeeps ==
  ASSUME PracticeInv, [Next]_vars, UNCHANGED <<tables, queues, tab>>
  PROVE  Kept
<1>0. /\ SessionsGrow /\ SessionsEvolve
      /\ attempts' = attempts /\ sessions' = sessions /\ queues' = queues /\ tab' = tab
  BY GrowStep, SessionsStep DEF tables
<1>1. tab' \in [Tabs -> Request] /\ RequestsHold' /\ OneAtATime'
  BY <1>0, TabsStay
<1>2. QueuesFit'
  BY <1>0, QueuesKeep
<1>3. EndedComplete'
  BY <1>0, EndedKeeps
<1>4. QED
  BY <1>0, <1>1, <1>2, <1>3 DEF Kept, PracticeInv, TypeOK

LEMMA DroppedFits ==
  ASSUME PracticeInv, NEW s, MayDrop(s)
  PROVE  /\ queues' \in [SessionIds -> Queue \cup {Gone}]
         /\ \A u \in SessionIds : queues'[u] \in {queues[u], Gone}
BY DEF PracticeInv, TypeOK, MayDrop

(* The end of a session, by a request or by the sweep.                     *)
LEMMA FinalisedKeeps ==
  ASSUME PracticeInv, SessionsEvolve, SessionsGrow, attempts' = attempts,
         NEW s \in DOMAIN sessions, NEW status \in Statuses, sessions' = Finalised(s, status),
         status = "completed" => Complete(s)
  PROVE  EndedComplete'
<1>1. /\ Len(Finalised(s, status)) = Len(sessions) /\ sessions' \in Seq(Session)
      /\ \A u \in DOMAIN sessions :
           u # s \/ ~Active(u) => Finalised(s, status)[u] = sessions[u]
      /\ Active(s) => /\ Finalised(s, status)[s].status = status
                      /\ Finalised(s, status)[s].total = Count(s)
                      /\ Finalised(s, status)[s].correct = Cardinality(RightOnes(s))
  BY FinalisedEnds DEF PracticeInv, AttemptsFit
<1>2. DOMAIN sessions' = DOMAIN sessions
  BY <1>1, SessionsSeq, LenProperties DEF PracticeInv
<1>3. QED
  BY <1>1, <1>2, EndedKeeps

LEMMA EndKeeps ==
  ASSUME PracticeInv, [Next]_vars, NEW x \in Tabs, End(x)
  PROVE  Kept
<1> DEFINE s == tab[x].sid
           now == tab[x].now
           due == [AtHome EXCEPT !.pc = "due", !.now = now]
<1>0. /\ SessionsGrow /\ SessionsEvolve /\ attempts' = attempts /\ MayDrop(s)
      /\ sessions' = Finalised(s, tab[x].status)
      /\ s \in DOMAIN sessions /\ tab[x].status \in Statuses /\ now \in Nat
      /\ tab[x].status = "completed" => Complete(s)
  BY GrowStep, SessionsStep DEF End, PracticeInv, RequestsHold, Holds, TypeOK, Request
<1>1. PICK q \in Request : tab' = [tab EXCEPT ![x] = q] /\ q.pc \in {"due", "home"}
  <2>1. tab' = [tab EXCEPT ![x] = IF tab[x].goOn THEN due ELSE AtHome]
    BY DEF End
  <2> HIDE DEF now
  <2>2. due \in Request /\ due.pc = "due"
    BY <1>0, AtHomeType DEF Request, Labels
  <2> HIDE DEF due
  <2>3. QED
    BY <2>1, <2>2, AtHomeType
<1>2. Holds(q)'
  BY <1>1 DEF Holds, Holding
<1>3. /\ tab' \in [Tabs -> Request] /\ RequestsHold' /\ OneAtATime'
      /\ \A y \in Tabs : tab'[y].pc = "advance" => tab'[y] = tab[y] /\ y # x
  BY <1>0, <1>1, <1>2, TabsKeep DEF Holding
<1>4. QueuesFit' /\ queues' \in [SessionIds -> Queue \cup {Gone}]
  BY <1>0, <1>3, DroppedFits, QueuesKeep
<1>5. EndedComplete'
  BY <1>0, FinalisedKeeps
<1>6. QED
  BY <1>3, <1>4, <1>5 DEF Kept

LEMMA SweepEndKeeps ==
  ASSUME PracticeInv, [Next]_vars, NEW s \in SessionIds, SweepEnd(s)
  PROVE  Kept
<1>0. /\ SessionsGrow /\ SessionsEvolve /\ attempts' = attempts /\ tab' = tab /\ MayDrop(s)
      /\ sessions' = Finalised(s, "timed_out") /\ s \in DOMAIN sessions
  BY GrowStep, SessionsStep DEF SweepEnd, PracticeInv, SweepFits
<1>1. tab' \in [Tabs -> Request] /\ RequestsHold' /\ OneAtATime'
  BY <1>0, TabsStay
<1>2. QueuesFit' /\ queues' \in [SessionIds -> Queue \cup {Gone}]
  BY <1>0, DroppedFits, QueuesKeep
<1>3. EndedComplete'
  BY <1>0, FinalisedKeeps DEF Statuses
<1>4. QED
  BY <1>1, <1>2, <1>3 DEF Kept


(* A request saves the queue of the session it holds, or fails to.         *)
LEMMA SavedKeeps ==
  ASSUME PracticeInv, attempts' = attempts, SessionsGrow, NEW x \in Tabs,
         \A y \in Tabs : tab'[y].pc = "advance" => tab'[y] = tab[y] /\ y # x,
         NEW s \in DOMAIN sessions, NEW p \in Queue, Fits(s, p),
         queues' \in {queues, [queues EXCEPT ![s] = p]},
         \A y \in Tabs \ {x} : tab[y].pc = "advance" /\ tab[y].sid = s => p.turnSeq < Count(s)
  PROVE  QueuesFit' /\ queues' \in [SessionIds -> Queue \cup {Gone}]
<1>1. s \in SessionIds /\ queues \in [SessionIds -> Queue \cup {Gone}]
  BY SessionsSeq DEF PracticeInv, TypeOK
<1>2. Fits(s, p)' /\ s \in DOMAIN sessions'
  BY FitsStays DEF SessionsGrow
<1>3. ASSUME queues'[s] = p PROVE Fits(s, queues[s])'
  BY <1>2, <1>3 DEF Fits, Serves, IsFinished, EachOnce, LeftWords, Remaining
<1>4. \A u \in SessionIds : u # s => queues'[u] = queues[u]
  BY <1>1
<1>5. queues'[s] \in {queues[s], p}
  BY <1>1
<1>6. QueuesFit'
  <2> SUFFICES ASSUME NEW u \in SessionIds
               PROVE  \/ queues'[u] \in {queues[u], Gone}
                      \/ /\ u \in DOMAIN sessions' /\ Fits(u, queues[u])'
                         /\ \A y \in Tabs : tab'[y].pc = "advance" /\ tab'[y].sid = u =>
                              queues'[u].turnSeq < Count(u)
    BY QueuesKeep
  <2>1. CASE u # s
    BY <1>4, <2>1
  <2>2. CASE u = s /\ queues'[s] = p
    <3>1. \A y \in Tabs : tab'[y].pc = "advance" /\ tab'[y].sid = s => p.turnSeq < Count(s)
      OBVIOUS
    <3>2. QED
      BY <1>2, <1>3, <2>2, <3>1
  <2>3. QED
    BY <1>5, <2>1, <2>2
<1>7. QED
  BY <1>1, <1>6

LEMMA ServeKeeps ==
  ASSUME PracticeInv, [Next]_vars, NEW x \in Tabs, Serve(x)
  PROVE  Kept
<1>0. /\ SessionsGrow /\ SessionsEvolve /\ attempts' = attempts /\ sessions' = sessions
      /\ tab[x] \in Request /\ tab[x].pc = "serve" /\ Holds(tab[x])
  BY GrowStep, SessionsStep DEF Serve, tables, PracticeInv, TypeOK, RequestsHold
<1>1. PICK s, p : s = tab[x].sid /\ p = tab[x].queue
  OBVIOUS
<1>2. s \in DOMAIN sessions /\ p \in Queue /\ Fits(s, p)
  BY <1>0, <1>1 DEF Holds, Holding, Request
<1>3. PICK q : Moved(x, q)
  BY <1>1, <1>2, HomeMoves, EndWithMoves DEF Serve, Statuses
<1>4. Holds(q)'
  BY <1>0, <1>3, HoldsStays DEF Moved
<1>5. /\ tab' \in [Tabs -> Request] /\ RequestsHold' /\ OneAtATime'
      /\ \A y \in Tabs : tab'[y].pc = "advance" => tab'[y] = tab[y] /\ y # x
  BY <1>0, <1>3, <1>4, TabsKeep DEF Moved
<1>6. queues' \in {queues, [queues EXCEPT ![s] = p]}
  BY <1>1 DEF Serve
<1>7. \A y \in Tabs \ {x} : tab[y].pc = "advance" /\ tab[y].sid = s => p.turnSeq < Count(s)
  BY <1>0, <1>1 DEF PracticeInv, OneAtATime, Holding, Turn
<1>8. QueuesFit' /\ queues' \in [SessionIds -> Queue \cup {Gone}]
  BY <1>0, <1>2, <1>5, <1>6, <1>7, SavedKeeps
<1>9. EndedComplete'
  BY <1>0, EndedKeeps
<1>10. QED
  BY <1>5, <1>8, <1>9 DEF Kept

(* After an answer the queue of the next turn serves what is left.         *)
LEMMA AdvanceServes ==
  ASSUME NEW s, NEW q \in Queue, NEW rating \in Ratings, Answered(s, q, rating),
         NEW p \in Advance(q, rating)
  PROVE  /\ p \in Queue /\ p.turnSeq = Count(s) /\ Serves(s, p)
         /\ IsFinished(p) => Complete(s)
<1> DEFINE head == Head0(q).word
<1>1. /\ ~IsFinished(q) /\ EachOnce(q) /\ q.turnSeq + 1 = Count(s)
      /\ LeftWords(q) \cap RightWords(s) = (IF rating = "right" THEN {head} ELSE {})
      /\ LeftWords(q) \cup RightWords(s) = sessions[s].words
  BY DEF Answered
<1>2. /\ p \in Queue /\ p.turnSeq = q.turnSeq + 1 /\ EachOnce(p)
      /\ LeftWords(p) = IF rating = "right" THEN LeftWords(q) \ {head} ELSE LeftWords(q)
      /\ IsFinished(p) => LeftWords(p) = {}
  BY <1>1, AdvanceTurns
<1> HIDE DEF head
<1>3. LeftWords(p) \cap RightWords(s) = {} /\ LeftWords(p) \cup RightWords(s) = sessions[s].words
  BY <1>1, <1>2
<1>4. QED
  BY <1>1, <1>2, <1>3 DEF Serves, Complete

LEMMA ReorderedServes ==
  ASSUME NEW s, NEW q, NEW p, ~IsFinished(q), Serves(s, q), Reordered(q, p)
  PROVE  Serves(s, p) /\ ~IsFinished(p)
BY DEF Serves, Reordered, IsFinished

LEMMA MoveOnKeeps ==
  ASSUME PracticeInv, [Next]_vars, NEW x \in Tabs, MoveOn(x)
  PROVE  Kept
<1>0. /\ SessionsGrow /\ SessionsEvolve /\ attempts' = attempts /\ sessions' = sessions
      /\ tab[x] \in Request /\ tab[x].pc = "advance" /\ Holds(tab[x])
      /\ queues \in [SessionIds -> Queue \cup {Gone}]
  BY GrowStep, SessionsStep DEF MoveOn, tables, PracticeInv, TypeOK, RequestsHold
<1>1. PICK s : s = tab[x].sid
  OBVIOUS
<1>2. /\ s \in DOMAIN sessions /\ tab[x].queue \in Queue /\ tab[x].rating \in Ratings
      /\ Answered(s, tab[x].queue, tab[x].rating)
  BY <1>0, <1>1 DEF Holds, Request
<1>3. PICK p \in Advance(tab[x].queue, tab[x].rating) :
        IF IsFinished(p)
        THEN EndWith(x, s, "completed", FALSE) /\ UNCHANGED queues
        ELSE \E served \in ChooseServed(p) :
               LET saved == [queues EXCEPT ![s] = served]
               IN  \/ queues' = saved /\ GoHome(x)
                   \/ queues' \in {queues, saved} /\ EndWith(x, s, "abandoned", FALSE)
  BY <1>1 DEF MoveOn
<1>4. p \in Queue /\ p.turnSeq = Count(s) /\ Serves(s, p) /\ (IsFinished(p) => Complete(s))
  BY <1>2, <1>3, AdvanceServes
<1>5. PICK q : Moved(x, q)
  BY <1>2, <1>3, <1>4, HomeMoves, EndWithMoves DEF Statuses
<1>6. Holds(q)'
  BY <1>0, <1>5, HoldsStays DEF Moved
<1>7. /\ tab' \in [Tabs -> Request] /\ RequestsHold' /\ OneAtATime'
      /\ \A y \in Tabs : tab'[y].pc = "advance" => tab'[y] = tab[y] /\ y # x
  BY <1>0, <1>5, <1>6, TabsKeep DEF Moved
<1>8. QueuesFit' /\ queues' \in [SessionIds -> Queue \cup {Gone}]
  <2>1. CASE IsFinished(p)
    <3>1. queues' = queues
      BY <1>3, <2>1
    <3>2. QED
      BY <1>0, <1>7, <3>1, QueuesKeep
  <2>2. CASE ~IsFinished(p)
    <3>1. PICK served \in ChooseServed(p) : queues' \in {queues, [queues EXCEPT ![s] = served]}
      BY <1>3, <2>2
    <3>2. Reordered(p, served)
      BY <1>4, <2>2, ChooseServedReorders
    <3>3. served \in Queue /\ Fits(s, served)
      <4>1. Count(s) \in Nat
        BY CountsAreNumbers DEF PracticeInv, AttemptsFit
      <4>2. served \in Queue /\ served.turnSeq = Count(s)
        BY <1>4, <3>2 DEF Reordered
      <4>3. QED
        BY <1>4, <2>2, <3>2, <4>1, <4>2, ReorderedServes DEF Fits
    <3>4. \A y \in Tabs \ {x} : ~(tab[y].pc = "advance" /\ tab[y].sid = s)
      BY <1>0, <1>1 DEF PracticeInv, OneAtATime
    <3>5. QED
      BY <1>0, <1>2, <1>7, <3>1, <3>3, <3>4, SavedKeeps
  <2>3. QED
    BY <2>1, <2>2
<1>9. EndedComplete'
  BY <1>0, EndedKeeps
<1>10. QED
  BY <1>7, <1>8, <1>9 DEF Kept


(* A new session has no attempts, and its queue has every word to serve.   *)
LEMMA StartKeeps ==
  ASSUME PracticeInv, [Next]_vars, NEW x \in Tabs, Start(x)
  PROVE  Kept
<1>0. /\ SessionsGrow /\ SessionsEvolve /\ attempts' = attempts /\ queues' = queues
      /\ tab[x] \in Request /\ tab[x].pc = "start" /\ Holds(tab[x])
      /\ sessions \in Seq(Session) /\ Len(sessions) \in Nat /\ DOMAIN sessions = 1..Len(sessions)
      /\ Len(sessions) < MaxSessions /\ MaxSessions \in Nat
  BY GrowStep, SessionsStep, SessionsSeq, PracticeAssumption
     DEF Start, PracticeInv, TypeOK, RequestsHold
<1>1. PICK n, W : n = Len(sessions) + 1 /\ W = tab[x].due
  OBVIOUS
<1>2. W \in SUBSET Words /\ W # {} /\ IsFiniteSet(W)
  BY <1>0, <1>1, FS_Subset, PracticeAssumption DEF Holds, Request
<1>3. /\ DOMAIN sessions' = 1..n /\ n \in 1..MaxSessions /\ n \notin DOMAIN sessions
      /\ \A u \in DOMAIN sessions : sessions'[u] = sessions[u]
      /\ sessions'[n].words = W /\ sessions'[n].status = "active"
  <2> DEFINE new == [owner |-> owner[x], words |-> W, status |-> "active",
                     last |-> tab[x].now, total |-> 0, correct |-> 0]
  <2>1. sessions' = Append(sessions, new)
    BY <1>1 DEF Start
  <2>2. new.words = W /\ new.status = "active"
    OBVIOUS
  <2> HIDE DEF new
  <2>3. /\ Len(Append(sessions, new)) = Len(sessions) + 1
        /\ DOMAIN Append(sessions, new) = 1..(Len(sessions) + 1)
        /\ \A i \in 1..Len(sessions) : Append(sessions, new)[i] = sessions[i]
        /\ Append(sessions, new)[Len(sessions) + 1] = new
    BY <1>0
  <2>4. QED
    BY <1>0, <1>1, <2>1, <2>2, <2>3
<1>4. PICK due \in Listings(W) : \E p \in ChooseServed(CreateQueue(due)) :
        tab' = [tab EXCEPT ![x] = [AtHome EXCEPT !.pc = "serve", !.queue = p, !.sid = n]]
  BY <1>1 DEF Start
<1>5. PICK p \in ChooseServed(CreateQueue(due)) :
        tab' = [tab EXCEPT ![x] = [AtHome EXCEPT !.pc = "serve", !.queue = p, !.sid = n]]
  BY <1>4
<1>6. /\ p \in Queue /\ p.turnSeq = 0 /\ ~IsFinished(p)
      /\ LeftWords(p) = W /\ EachOnce(p)
  <2>1. PICK c : c = CreateQueue(due)
    OBVIOUS
  <2>2. /\ c \in Queue /\ c.turnSeq = 0 /\ ~IsFinished(c)
        /\ LeftWords(c) = W /\ EachOnce(c)
    BY <1>2, <1>4, <2>1, ListingServes
  <2>3. Reordered(c, p)
    BY <1>5, <2>1, <2>2, ChooseServedReorders
  <2>4. QED
    BY <2>2, <2>3 DEF Reordered, IsFinished
<1>7. PICK q \in Request : /\ tab' = [tab EXCEPT ![x] = q]
                           /\ q.pc = "serve" /\ q.queue = p /\ q.sid = n
  <2> DEFINE r == [AtHome EXCEPT !.pc = "serve", !.queue = p, !.sid = n]
  <2>1. r \in Request /\ r.pc = "serve" /\ r.queue = p /\ r.sid = n
    <3>1. n \in 0..MaxSessions /\ "serve" \in Labels
      BY <1>0, <1>3 DEF Labels
    <3>2. QED
      BY <1>6, <3>1, AtHomeType DEF Request
  <2> HIDE DEF r
  <2>2. QED
    BY <1>5, <2>1 DEF r
<1>8. Attempts(n)' = {} /\ RightWords(n)' = {} /\ Count(n)' = 0
  <2>1. Attempts(n)' = {}
    BY <1>0, <1>3 DEF PracticeInv, AttemptsFit, Attempts
  <2>2. Cardinality({}) = 0
    BY FS_EmptySet
  <2>3. QED
    BY <2>1, <2>2 DEF RightWords, RightOnes, Count
<1>9. Holds(q)'
  <2>1. Fits(n, p)'
    <3>1. ~IsFinished(p)' /\ LeftWords(p)' = W /\ EachOnce(p)'
      BY <1>6 DEF IsFinished, LeftWords, EachOnce, Remaining
    <3>2. QED
      BY <1>3, <1>6, <1>8, <3>1 DEF Fits, Serves
  <2>2. QED
    BY <1>3, <1>7, <2>1 DEF Holds, Holding
<1>10. \A y \in Tabs : tab[y].pc = "advance" => tab[y].sid # n
  BY <1>3 DEF PracticeInv, RequestsHold, Holds
<1>11. /\ tab' \in [Tabs -> Request] /\ RequestsHold' /\ OneAtATime'
       /\ \A y \in Tabs : tab'[y].pc = "advance" => tab'[y] = tab[y] /\ y # x
  BY <1>0, <1>7, <1>9, <1>10, TabsKeep
<1>12. QueuesFit'
  BY <1>0, <1>11, QueuesKeep
<1>13. EndedComplete'
  <2>1. \A s \in DOMAIN sessions' : sessions'[s].status = "completed" =>
          s \in DOMAIN sessions /\ sessions[s].status = "completed"
    <3>1. \A s \in DOMAIN sessions' : s \in DOMAIN sessions \/ s = n
      BY <1>0, <1>1, <1>3
    <3>2. QED
      BY <1>3, <3>1
  <2>2. QED
    BY <1>0, <2>1, EndedKeeps
<1>14. QED
  BY <1>0, <1>11, <1>12, <1>13 DEF Kept, PracticeInv, TypeOK


------------------------------------------------------------------------------
(* The commit of an answer.                                                *)

(* An open turn is the one to come, and its word is not yet answered right.*)
LEMMA OpenTurn ==
  ASSUME PracticeInv, NEW s \in DOMAIN sessions, NEW q \in Queue,
         Fits(s, q), TurnOpen(s, q.turnSeq)
  PROVE  /\ Count(s) \in Nat /\ q.turnSeq = Count(s) /\ Serves(s, q)
         /\ Head0(q).word \in LeftWords(q) /\ Head0(q).word \notin RightWords(s)
         /\ ~Complete(s)
<1>1. Count(s) \in Nat /\ q.turnSeq \in Nat /\ q.turnSeq <= Count(s)
  BY CountsAreNumbers DEF PracticeInv, AttemptsFit, Fits, Queue
<1>2. {a.turn : a \in Attempts(s)} = 0..(Count(s) - 1)
  BY DEF PracticeInv, TurnsInOrder, Count
<1>3. q.turnSeq = Count(s)
  <2>1. q.turnSeq \notin {a.turn : a \in Attempts(s)}
    BY DEF TurnOpen
  <2>2. QED
    BY <1>1, <1>2, <2>1
<1>4. Serves(s, q)
  BY <1>3 DEF Fits
<1>5. Head0(q).word \in LeftWords(q)
  BY HeadIsLeft DEF Fits
<1>6. QED
  BY <1>1, <1>3, <1>4, <1>5 DEF Serves, Complete

LEMMA AttemptAdded ==
  ASSUME PracticeInv, NEW s \in DOMAIN sessions, NEW turn, NEW word, NEW rating \in Ratings,
         turn = Count(s), word \notin RightWords(s),
         attempts' = attempts \cup
           {[session |-> s, turn |-> turn, word |-> word, rating |-> rating]}
  PROVE  /\ Count(s)' = Count(s) + 1
         /\ {a.turn : a \in Attempts(s)'} = {a.turn : a \in Attempts(s)} \cup {turn}
         /\ RightWords(s)' = RightWords(s) \cup (IF rating = "right" THEN {word} ELSE {})
         /\ \A a, b \in RightOnes(s)' : a.word = b.word => a = b
         /\ \A t : TurnOpen(s, t) /\ t # turn => TurnOpen(s, t)'
         /\ \A u : u # s => /\ Attempts(u)' = Attempts(u) /\ RightOnes(u)' = RightOnes(u)
                            /\ Count(u)' = Count(u) /\ RightWords(u)' = RightWords(u)
<1> DEFINE new == [session |-> s, turn |-> turn, word |-> word, rating |-> rating]
<1>1. new.session = s /\ new.turn = turn /\ new.word = word /\ new.rating = rating
  OBVIOUS
<1>2. attempts' = attempts \cup {new}
  OBVIOUS
<1> HIDE DEF new
<1>3. IsFiniteSet(Attempts(s)) /\ Count(s) \in Nat
  BY CountsAreNumbers DEF PracticeInv, AttemptsFit
<1>4. Attempts(s)' = Attempts(s) \cup {new}
  BY <1>1, <1>2 DEF Attempts
<1>5. RightOnes(s)' = RightOnes(s) \cup (IF rating = "right" THEN {new} ELSE {})
  BY <1>1, <1>4 DEF RightOnes
<1>6. ASSUME NEW u, u # s
      PROVE  /\ Attempts(u)' = Attempts(u) /\ RightOnes(u)' = RightOnes(u)
             /\ Count(u)' = Count(u) /\ RightWords(u)' = RightWords(u)
  <2>1. Attempts(u)' = Attempts(u)
    BY <1>1, <1>2, <1>6 DEF Attempts
  <2>2. QED
    BY <2>1 DEF RightOnes, Count, RightWords
<1>7. new \notin Attempts(s)
  <2>1. {a.turn : a \in Attempts(s)} = 0..(Count(s) - 1)
    BY DEF PracticeInv, TurnsInOrder, Count
  <2>2. turn \notin 0..(Count(s) - 1)
    BY <1>3
  <2>3. QED
    BY <1>1, <2>1, <2>2
<1>8. Count(s)' = Count(s) + 1
  <2>1. Cardinality(Attempts(s) \cup {new}) = Cardinality(Attempts(s)) + 1
    BY <1>3, <1>7, FS_AddElement
  <2>2. QED
    BY <1>4, <2>1 DEF Count
<1>9. {a.turn : a \in Attempts(s)'} = {a.turn : a \in Attempts(s)} \cup {turn}
  BY <1>1, <1>4
<1>10. RightWords(s)' = RightWords(s) \cup (IF rating = "right" THEN {word} ELSE {})
  <2>1. RightWords(s)' = {a.word : a \in RightOnes(s)'}
    BY DEF RightWords
  <2>2. QED
    BY <1>1, <1>5, <2>1 DEF RightWords
<1>11. \A a, b \in RightOnes(s)' : a.word = b.word => a = b
  <2>1. \A a, b \in RightOnes(s) : a.word = b.word => a = b
    BY DEF PracticeInv, AttemptsFit
  <2>2. \A a \in RightOnes(s) : a.word # word
    BY DEF RightWords
  <2>3. QED
    BY <1>1, <1>5, <2>1, <2>2
<1>12. \A t : TurnOpen(s, t) /\ t # turn => TurnOpen(s, t)'
  BY <1>1, <1>4 DEF TurnOpen
<1>13. QED
  BY <1>6, <1>8, <1>9, <1>10, <1>11, <1>12


(* What is left alone when the count of its session grows.                 *)
LEMMA FitsGrown ==
  ASSUME NEW s, NEW q, Count(s) \in Nat, Count(s)' = Count(s) + 1,
         q.turnSeq \in Nat, Fits(s, q)
  PROVE  Fits(s, q)'
BY DEF Fits, IsFinished

LEMMA WriteKeeps ==
  ASSUME PracticeInv, [Next]_vars, NEW x \in Tabs, Write(x)
  PROVE  Kept /\ AttemptsFit' /\ TurnsInOrder'
<1>0. /\ tab[x] \in Request /\ tab[x].pc = "write" /\ Holds(tab[x]) /\ SessionsEvolve
      /\ queues' = queues /\ queues \in [SessionIds -> Queue \cup {Gone}]
      /\ sessions \in Seq(Session) /\ DOMAIN sessions = 1..Len(sessions)
  BY SessionsStep, SessionsSeq DEF Write, PracticeInv, TypeOK, RequestsHold
<1>1. PICK s, q, r : s = tab[x].sid /\ q = tab[x].queue /\ r = tab[x].rating
  OBVIOUS
<1>2. PICK k, w : k = q.turnSeq /\ w = Head0(q).word
  OBVIOUS
<1>3. /\ s \in DOMAIN sessions /\ q \in Queue /\ r \in Ratings /\ Fits(s, q) /\ TurnOpen(s, k)
  BY <1>0, <1>1, <1>2 DEF Holds, Holding, Request
<1>4. /\ Count(s) \in Nat /\ k = Count(s) /\ Serves(s, q)
      /\ w \in LeftWords(q) /\ w \notin RightWords(s) /\ ~Complete(s)
  BY <1>2, <1>3, OpenTurn
<1>5. attempts' = attempts \cup {[session |-> s, turn |-> k, word |-> w, rating |-> r]}
  BY <1>1, <1>2 DEF Write, Turn, Word
<1>6. /\ Count(s)' = Count(s) + 1
      /\ {a.turn : a \in Attempts(s)'} = {a.turn : a \in Attempts(s)} \cup {k}
      /\ RightWords(s)' = RightWords(s) \cup (IF r = "right" THEN {w} ELSE {})
      /\ \A a, b \in RightOnes(s)' : a.word = b.word => a = b
      /\ \A t : TurnOpen(s, t) /\ t # k => TurnOpen(s, t)'
      /\ \A u : u # s => /\ Attempts(u)' = Attempts(u) /\ RightOnes(u)' = RightOnes(u)
                         /\ Count(u)' = Count(u) /\ RightWords(u)' = RightWords(u)
  BY <1>3, <1>4, <1>5, AttemptAdded
<1>7. /\ DOMAIN sessions' = DOMAIN sessions
      /\ \A u \in DOMAIN sessions :
           /\ sessions'[u].words = sessions[u].words /\ sessions'[u].status = sessions[u].status
           /\ sessions'[u].total = sessions[u].total /\ sessions'[u].correct = sessions[u].correct
  <2> DEFINE now == tab[x].now
             row == [sessions[s] EXCEPT !.last = now]
  <2>1. sessions' = [sessions EXCEPT ![s] = row]
    BY <1>1 DEF Write
  <2>2. sessions[s] \in Session
    BY <1>3, SessionsSeq DEF PracticeInv
  <2>3. /\ row.words = sessions[s].words /\ row.status = sessions[s].status
        /\ row.total = sessions[s].total /\ row.correct = sessions[s].correct
    BY <2>2 DEF Session
  <2> HIDE DEF row
  <2>4. QED
    BY <1>3, <2>1, <2>3
<1>8. PICK p \in Request : /\ tab' = [tab EXCEPT ![x] = p]
                           /\ p.pc = "advance" /\ p.sid = s /\ p.queue = q /\ p.rating = r
  <2> DEFINE v == [AtHome EXCEPT !.pc = "advance", !.sid = s, !.queue = q, !.rating = r]
  <2>1. s \in 0..MaxSessions /\ "advance" \in Labels
    BY <1>0, <1>1 DEF Request, Labels
  <2>2. v \in Request /\ v.pc = "advance" /\ v.sid = s /\ v.queue = q /\ v.rating = r
    BY <1>3, <2>1, AtHomeType DEF Request
  <2>3. tab' = [tab EXCEPT ![x] = v]
    BY <1>1 DEF Write
  <2> HIDE DEF v
  <2>4. QED
    BY <2>2, <2>3
<1>9. /\ tab' \in [Tabs -> Request]
      /\ \A y \in Tabs : tab'[y] = IF y = x THEN p ELSE tab[y]
  BY <1>8 DEF PracticeInv, TypeOK
<1>10. AttemptsFit'
  <2>1. IsFiniteSet(attempts')
    BY <1>5, FS_AddElement DEF PracticeInv, AttemptsFit
  <2>2. \A a \in attempts' : a.session \in DOMAIN sessions'
    BY <1>3, <1>5, <1>7 DEF PracticeInv, AttemptsFit
  <2>3. \A u \in DOMAIN sessions' : \A a, b \in RightOnes(u)' : a.word = b.word => a = b
    BY <1>6, <1>7 DEF PracticeInv, AttemptsFit
  <2>4. QED
    BY <2>1, <2>2, <2>3 DEF AttemptsFit
<1>11. TurnsInOrder'
  <2> SUFFICES ASSUME NEW u \in DOMAIN sessions'
               PROVE  {a.turn : a \in Attempts(u)'} = 0..(Count(u)' - 1)
    BY DEF TurnsInOrder, Count
  <2>1. {a.turn : a \in Attempts(u)} = 0..(Count(u) - 1)
    BY <1>7 DEF PracticeInv, TurnsInOrder, Count
  <2>2. CASE u # s
    BY <1>6, <2>1, <2>2
  <2>3. CASE u = s
    <3>1. (0..(Count(s) - 1)) \cup {Count(s)} = 0..((Count(s) + 1) - 1)
      BY <1>4
    <3>2. QED
      BY <1>4, <1>6, <2>1, <2>3, <3>1
  <2>4. QED
    BY <2>2, <2>3
<1>12. ASSUME NEW y \in Tabs \ {x}, tab[y].sid = s
       PROVE  /\ tab[y].pc # "advance"
              /\ InFlight(y) => Turn(y) # k
              /\ tab[y].pc \in Holding => Turn(y) <= Count(s)
  <2>1. InFlight(x) /\ tab[x].pc \in Holding /\ Turn(x) = k
    BY <1>0, <1>1, <1>2 DEF InFlight, Holding, Turn
  <2>2. /\ InFlight(y) => Turn(x) # Turn(y)
        /\ tab[y].pc = "advance" => Turn(x) < Count(s)
    BY <1>1, <1>12, <2>1 DEF PracticeInv, OneAtATime
  <2>3. tab[y].pc \in Holding => Turn(y) <= Count(s)
    BY <1>12 DEF PracticeInv, RequestsHold, Holds, Fits, Turn
  <2>4. QED
    BY <1>4, <2>1, <2>2, <2>3
<1>13. \A u, c : u # s /\ u \in DOMAIN sessions /\ Fits(u, c) => Fits(u, c)'
  <2> SUFFICES ASSUME NEW u, NEW c, u # s, u \in DOMAIN sessions, Fits(u, c) PROVE Fits(u, c)'
    OBVIOUS
  <2>1. QED
    BY <1>6, <1>7 DEF Fits, Serves, IsFinished, EachOnce, LeftWords, Remaining
<1>14. \A c : c.turnSeq \in Nat /\ Fits(s, c) => Fits(s, c)'
  BY <1>4, <1>6, FitsGrown
<1>15. Holds(p)'
  <2>1. Answered(s, q, r)'
    <3>1. ~IsFinished(q)' /\ EachOnce(q)' /\ LeftWords(q)' = LeftWords(q) /\ Head0(q)'.word = w
          /\ q.turnSeq + 1 = Count(s)'
      BY <1>2, <1>3, <1>4, <1>6
         DEF Fits, Serves, IsFinished, EachOnce, LeftWords, Remaining, Head0
    <3>2. /\ LeftWords(q) \cap RightWords(s) = {}
          /\ LeftWords(q) \cup RightWords(s) = sessions[s].words
      BY <1>4 DEF Serves
    <3>3. /\ LeftWords(q) \cap RightWords(s)' = (IF r = "right" THEN {w} ELSE {})
          /\ LeftWords(q) \cup RightWords(s)' = sessions'[s].words
      BY <1>3, <1>4, <1>6, <1>7, <3>2
    <3>4. QED
      BY <3>1, <3>3 DEF Answered
  <2>2. QED
    BY <1>3, <1>7, <1>8, <2>1 DEF Holds, Holding
<1>16. ASSUME NEW y \in Tabs \ {x}, NEW t, t = tab[y] PROVE Holds(t)'
  <2>1. Holds(t) /\ t \in Request
    BY <1>16 DEF PracticeInv, TypeOK, RequestsHold
  <2>2. CASE t.sid # s
    <3>1. ASSUME t.sid \in DOMAIN sessions
          PROVE  /\ Fits(t.sid, t.queue) => Fits(t.sid, t.queue)'
                 /\ Complete(t.sid) => Complete(t.sid)'
                 /\ Answered(t.sid, t.queue, t.rating) => Answered(t.sid, t.queue, t.rating)'
                 /\ TurnOpen(t.sid, t.queue.turnSeq) => TurnOpen(t.sid, t.queue.turnSeq)'
      <4>1. /\ Attempts(t.sid)' = Attempts(t.sid) /\ Count(t.sid)' = Count(t.sid)
            /\ RightWords(t.sid)' = RightWords(t.sid)
            /\ sessions'[t.sid].words = sessions[t.sid].words
        BY <1>6, <1>7, <2>2, <3>1
      <4>2. Fits(t.sid, t.queue) => Fits(t.sid, t.queue)'
        BY <1>13, <2>2, <3>1
      <4>3. Complete(t.sid) => Complete(t.sid)'
        BY <4>1 DEF Complete
      <4>4. Answered(t.sid, t.queue, t.rating) => Answered(t.sid, t.queue, t.rating)'
        BY <4>1 DEF Answered, IsFinished, EachOnce, LeftWords, Remaining, Head0
      <4>5. TurnOpen(t.sid, t.queue.turnSeq) => TurnOpen(t.sid, t.queue.turnSeq)'
        BY <4>1 DEF TurnOpen
      <4>6. QED
        BY <4>2, <4>3, <4>4, <4>5
    <3>2. QED
      BY <1>7, <2>1, <3>1 DEF Holds, Holding
  <2>3. CASE t.sid = s
    <3>1. /\ t.pc # "advance" /\ (t.pc \in {"review", "write"} => t.queue.turnSeq # k)
      BY <1>12, <1>16, <2>3 DEF InFlight, Turn
    <3>2. t.queue.turnSeq \in Nat
      BY <2>1 DEF Request, Queue
    <3>3. t.pc \in Holding => Fits(t.sid, t.queue)'
      <4>1. Fits(s, t.queue) => Fits(s, t.queue)'
        BY <1>14, <3>2
      <4>2. QED
        BY <2>1, <2>3, <4>1 DEF Holds
    <3>4. t.pc \in {"review", "write"} => TurnOpen(t.sid, t.queue.turnSeq)'
      <4>1. t.queue.turnSeq # k /\ TurnOpen(s, t.queue.turnSeq) => TurnOpen(s, t.queue.turnSeq)'
        BY <1>6
      <4>2. QED
        BY <2>1, <2>3, <3>1, <4>1 DEF Holds
    <3>5. ~(t.pc = "finalise" /\ t.status = "completed")
      BY <1>4, <2>1, <2>3 DEF Holds
    <3>6. QED
      BY <1>3, <1>7, <2>1, <2>3, <3>1, <3>3, <3>4, <3>5 DEF Holds
  <2>4. QED
    BY <2>2, <2>3
<1>17. RequestsHold'
  <2> SUFFICES ASSUME NEW t \in {tab'[y] : y \in Tabs} PROVE Holds(t)'
    BY DEF RequestsHold
  <2>1. PICK y \in Tabs : t = tab'[y]
    OBVIOUS
  <2>2. CASE y = x
    BY <1>9, <1>15, <2>1, <2>2
  <2>3. CASE y # x
    BY <1>9, <1>16, <2>1, <2>3
  <2>4. QED
    BY <2>2, <2>3
<1>18. OneAtATime'
  <2>1. ASSUME NEW y \in Tabs, NEW z \in Tabs, y # z, tab'[y].sid = tab'[z].sid,
               NEW u, u = tab'[y].sid
        PROVE  /\ InFlight(y)' /\ InFlight(z)' => Turn(y)' # Turn(z)'
               /\ tab'[y].pc = "advance" =>
                    /\ tab'[z].pc # "advance"
                    /\ tab'[z].pc \in Holding => Turn(z)' < Count(u)'
    <3>1. CASE y # x /\ z # x
      <4>1. /\ InFlight(y)' = InFlight(y) /\ InFlight(z)' = InFlight(z)
            /\ Turn(y)' = Turn(y) /\ Turn(z)' = Turn(z)
            /\ tab'[y] = tab[y] /\ tab'[z] = tab[z]
        BY <1>9, <3>1 DEF InFlight, Turn
      <4>2. /\ InFlight(y) /\ InFlight(z) => Turn(y) # Turn(z)
            /\ tab[y].pc = "advance" =>
                 tab[z].pc # "advance" /\ (tab[z].pc \in Holding => Turn(z) < Count(u))
        BY <2>1, <4>1 DEF PracticeInv, OneAtATime
      <4>3. tab[y].pc = "advance" => u # s
        BY <1>12, <2>1, <3>1, <4>1
      <4>4. QED
        BY <1>6, <4>1, <4>2, <4>3
    <3>2. CASE y = x
      <4>1. z # x /\ tab'[z] = tab[z] /\ tab[z].sid = s /\ u = s /\ tab'[y].pc = "advance"
        BY <1>8, <1>9, <2>1, <3>2
      <4>2. tab[z].pc # "advance" /\ (tab[z].pc \in Holding => Turn(z) <= Count(s))
        BY <1>12, <4>1
      <4>3. tab[z].pc \in Holding => Turn(z) \in Nat
        BY DEF PracticeInv, TypeOK, Request, Queue, Turn
      <4>4. Turn(z)' = Turn(z) /\ ~InFlight(y)'
        BY <4>1 DEF Turn, InFlight
      <4>5. QED
        BY <1>4, <1>6, <4>1, <4>2, <4>3, <4>4
    <3>3. CASE z = x
      <4>1. y # x /\ tab'[y] = tab[y] /\ tab[y].sid = s /\ tab'[z].pc = "advance"
        BY <1>8, <1>9, <2>1, <3>3
      <4>2. tab[y].pc # "advance" /\ ~InFlight(z)'
        BY <1>12, <4>1 DEF InFlight
      <4>3. QED
        BY <4>1, <4>2
    <3>4. QED
      BY <3>1, <3>2, <3>3
  <2> SUFFICES ASSUME NEW y \in Tabs, NEW z \in Tabs, y # z, tab'[y].sid = tab'[z].sid
               PROVE  /\ InFlight(y)' /\ InFlight(z)' => Turn(y)' # Turn(z)'
                      /\ tab'[y].pc = "advance" =>
                           /\ tab'[z].pc # "advance"
                           /\ tab'[z].pc \in Holding => Turn(z)' < Count(tab[y].sid)'
    BY DEF OneAtATime, Holding
  <2>2. PICK u : u = tab'[y].sid
    OBVIOUS
  <2>3. Count(tab[y].sid)' = Count(u)'
    BY <2>2 DEF Count, Attempts
  <2>4. QED
    BY <2>1, <2>2, <2>3
<1>19. QueuesFit'
  <2> SUFFICES ASSUME NEW u \in SessionIds, queues'[u] # Gone
               PROVE  /\ u \in DOMAIN sessions'
                      /\ Fits(u, queues[u])'
                      /\ \A y \in Tabs : tab'[y].pc = "advance" /\ tab'[y].sid = u =>
                           queues'[u].turnSeq < Count(u)'
    BY DEF QueuesFit
  <2>1. PICK c : c = queues[u]
    OBVIOUS
  <2>2. /\ u \in DOMAIN sessions /\ Fits(u, c) /\ c \in Queue /\ c.turnSeq \in Nat
        /\ \A y \in Tabs : tab[y].pc = "advance" /\ tab[y].sid = u => c.turnSeq < Count(u)
    BY <1>0, <2>1 DEF PracticeInv, QueuesFit, Queue
  <2>3. Fits(u, c)'
    BY <1>13, <1>14, <2>2
  <2>4. Fits(u, queues[u])'
    BY <1>0, <2>1, <2>3 DEF Fits, Serves, IsFinished, EachOnce, LeftWords, Remaining
  <2>5. ASSUME NEW y \in Tabs, tab'[y].pc = "advance", tab'[y].sid = u
        PROVE  c.turnSeq < Count(u)'
    <3>1. CASE u = s
      BY <1>4, <1>6, <2>2, <3>1 DEF Fits
    <3>2. CASE u # s
      <4>1. tab'[y] = tab[y]
        BY <1>8, <1>9, <2>5, <3>2
      <4>2. QED
        BY <1>6, <2>2, <2>5, <3>2, <4>1
    <3>3. QED
      BY <3>1, <3>2
  <2>6. QED
    BY <1>0, <1>7, <2>1, <2>2, <2>4, <2>5
<1>20. EndedComplete'
  <2> SUFFICES ASSUME NEW u \in DOMAIN sessions', sessions'[u].status = "completed"
               PROVE  /\ Complete(u)'
                      /\ sessions'[u].total = Count(u)'
                      /\ sessions'[u].correct = Cardinality(RightOnes(u)')
    BY DEF EndedComplete
  <2>1. /\ u \in DOMAIN sessions /\ Complete(u)
        /\ sessions[u].total = Count(u) /\ sessions[u].correct = Cardinality(RightOnes(u))
    BY <1>7 DEF PracticeInv, EndedComplete
  <2>2. u # s
    BY <1>4, <2>1
  <2>3. QED
    BY <1>6, <1>7, <2>1, <2>2 DEF Complete
<1>21. QED
  BY <1>0, <1>9, <1>10, <1>11, <1>17, <1>18, <1>19, <1>20 DEF Kept


------------------------------------------------------------------------------
(* Types.                                                                  *)

(* SM-2 stays within what the columns of sm2_states admit.                 *)
LEMMA ReviewTypes ==
  ASSUME NEW state \in Sm2State, NEW quality \in {2, 5}, NEW now \in Nat
  PROVE  /\ Review(state, quality) \in Sm2State
         /\ NextDueAt(now, Review(state, quality).interval) \in Nat
<1> DEFINE rep == IF quality >= 3 THEN state.repetitions + 1 ELSE 0
           grown == state.interval * state.ease
           int == IF quality < 3 \/ state.repetitions = 0 THEN 1
                  ELSE IF state.repetitions = 1 THEN 6
                  ELSE (grown + 500) \div 1000
           eased == Eased(state.ease, quality)
<1>1. state.repetitions \in Nat /\ state.ease \in Nat /\ state.interval \in Nat
  BY DEF Sm2State, Eases
<1>2. grown \in Nat
  BY <1>1
<1>3. eased \in Eases
  <2>1. CASE quality = 2
    BY <1>1, <2>1 DEF Eased, Eases
  <2>2. CASE quality = 5
    BY <1>1, <2>2 DEF Eased, Eases
  <2>3. QED
    BY <2>1, <2>2
<1> HIDE DEF grown
<1>4. rep \in Nat /\ int \in Nat
  BY <1>1, <1>2
<1>5. Review(state, quality) = [repetitions |-> rep, ease |-> eased, interval |-> int]
  BY DEF Review, grown
<1> HIDE DEF rep, int, eased
<1>6. Review(state, quality) \in Sm2State /\ Review(state, quality).interval = int
  BY <1>3, <1>4, <1>5 DEF Sm2State
<1>7. int * Day \in Nat
  BY <1>4, DayAssumption
<1>8. QED
  BY <1>6, <1>7 DEF NextDueAt

LEMMA WriteTypes ==
  ASSUME PracticeInv, NEW x \in Tabs, Write(x)
  PROVE  /\ attempts' \subseteq Attempt
         /\ answers' \in Seq(Answer)
         /\ schedule' \in [Owners -> [Words -> Sm2Row \cup {Gone}]]
<1> DEFINE t == tab[x]
           quality == Quality(t.rating)
           after == Review(t.before, quality)
           add == [session |-> t.sid, turn |-> Turn(x), word |-> Word(x), rating |-> t.rating]
           given == [owner |-> owner[x], word |-> Word(x), quality |-> quality]
           row == [state |-> after, due |-> NextDueAt(t.now, after.interval)]
<1>1. /\ t \in Request /\ t.pc = "write" /\ Holds(t) /\ owner[x] \in Owners
      /\ attempts \subseteq Attempt /\ answers \in Seq(Answer)
      /\ schedule \in [Owners -> [Words -> Sm2Row \cup {Gone}]]
  BY DEF PracticeInv, TypeOK, RequestsHold, Write
<1>2. Word(x) \in Words /\ Turn(x) \in Nat
  <2>1. t.queue \in Queue /\ ~IsFinished(t.queue)
    BY <1>1 DEF Request, Holds, Holding, Fits
  <2>2. QED
    BY <2>1, HeadIsLeft DEF Word, Turn, Queue
<1>3. t.sid \in SessionIds /\ t.rating \in Ratings /\ quality \in {2, 5}
  BY <1>1, SessionsSeq DEF Request, Holds, Holding, Quality, PracticeInv
<1>4. row \in Sm2Row
  <2>1. t.before \in Sm2State /\ t.now \in Nat
    BY <1>1 DEF Request
  <2> HIDE DEF quality
  <2>2. after \in Sm2State /\ NextDueAt(t.now, after.interval) \in Nat
    BY <1>3, <2>1, ReviewTypes
  <2> HIDE DEF after
  <2>3. QED
    BY <2>2 DEF Sm2Row
<1>5. /\ attempts' = attempts \cup {add} /\ answers' = Append(answers, given)
      /\ schedule' = [schedule EXCEPT ![owner[x]][Word(x)] = row]
  BY DEF Write
<1> HIDE DEF row
<1>6. add \in Attempt
  BY <1>2, <1>3 DEF Attempt
<1>7. given \in Answer
  BY <1>1, <1>2, <1>3 DEF Answer
<1> HIDE DEF add, given, quality, t
<1>8. Append(answers, given) \in Seq(Answer)
  BY <1>1, <1>7
<1>9. QED
  BY <1>1, <1>2, <1>4, <1>5, <1>6, <1>8

LEMMA TypesKeep ==
  ASSUME PracticeInv, [Next]_vars, Kept
  PROVE  TypeOK' /\ SweepFits'
<1> DEFINE G == /\ attempts' \subseteq Attempt
                /\ answers' \in Seq(Answer)
                /\ schedule' \in [Owners -> [Words -> Sm2Row \cup {Gone}]]
           H == clock' \in Nat /\ owner' = owner /\ sweep' \subseteq DOMAIN sessions
<1>0. TypeOK /\ sweep \subseteq DOMAIN sessions
  BY DEF PracticeInv, SweepFits
<1>1. ASSUME UNCHANGED <<attempts, answers, schedule>> PROVE G
  BY <1>0, <1>1 DEF TypeOK
<1>2. ASSUME UNCHANGED <<clock, owner, sweep>> PROVE H
  BY <1>0, <1>2 DEF TypeOK
<1>3. \A x \in Tabs : Write(x) => G
  BY WriteTypes
<1>4. Tick => H
  BY <1>0 DEF Tick, TypeOK
<1>5. Sweep => H
  BY <1>0 DEF Sweep, TypeOK
<1>6. \A s \in SessionIds : SweepEnd(s) => H
  BY <1>0 DEF SweepEnd, TypeOK
<1>7. SweepCrash => H
  BY <1>0 DEF SweepCrash, TypeOK
<1> HIDE DEF G, H
<1>8. \A x \in Tabs : Reads(x) => G /\ H
  BY <1>1, <1>2, ReadsOnly DEF tables
<1>9. \A x \in Tabs : Start(x) \/ Serve(x) \/ MoveOn(x) \/ End(x) => G /\ H
  BY <1>1, <1>2 DEF Start, Serve, MoveOn, End, tables
<1>10. \A x \in Tabs : Write(x) => H
  BY <1>2 DEF Write
<1>11. /\ \A s \in SessionIds : SweepEnd(s) => G
       /\ Sweep \/ SweepCrash \/ Tick => G
       /\ UNCHANGED vars => G /\ H
  BY <1>1, <1>2 DEF SweepEnd, Sweep, SweepCrash, Tick, tables, vars
<1>12. G /\ H
  BY <1>3, <1>4, <1>5, <1>6, <1>7, <1>8, <1>9, <1>10, <1>11, PracticeCases
<1>13. SessionsGrow /\ sessions' \in Seq(Session) /\ Len(sessions') <= MaxSessions
  BY GrowStep, SessionsStep
<1>14. DOMAIN sessions \subseteq SessionIds
  BY <1>0, SessionsSeq
<1>15. QED
  BY <1>0, <1>12, <1>13, <1>14 DEF G, H, TypeOK, SweepFits, SessionsGrow, Kept

(* Every step but the commit of an answer leaves the attempts alone.       *)
LEMMA PracticeStep ==
  ASSUME PracticeInv, [Next]_vars
  PROVE  PracticeInv'
<1> DEFINE G == Kept /\ AttemptsFit' /\ TurnsInOrder'
<1>1. ASSUME attempts' = attempts, Kept PROVE G
  BY <1>1, GrowStep, AttemptsKeep
<1>2. \A x \in Tabs : Write(x) => G
  BY WriteKeeps
<1> HIDE DEF G
<1>3. \A x \in Tabs : Reads(x) => G
  BY <1>1, ReadsKeep, ReadsOnly DEF tables
<1>4. \A x \in Tabs : Start(x) => G
  BY <1>1, StartKeeps DEF Start
<1>5. \A x \in Tabs : Serve(x) => G
  BY <1>1, ServeKeeps DEF Serve, tables
<1>6. \A x \in Tabs : MoveOn(x) => G
  BY <1>1, MoveOnKeeps DEF MoveOn, tables
<1>7. \A x \in Tabs : End(x) => G
  BY <1>1, EndKeeps DEF End
<1>8. \A s \in SessionIds : SweepEnd(s) => G
  BY <1>1, SweepEndKeeps DEF SweepEnd
<1>9. (Sweep => G) /\ (SweepCrash => G) /\ (Tick => G) /\ (UNCHANGED vars => G)
  BY <1>1, StillKeeps DEF Sweep, SweepCrash, Tick, tables, vars
<1>10. G
  BY <1>2, <1>3, <1>4, <1>5, <1>6, <1>7, <1>8, <1>9, PracticeCases
<1>11. QED
  BY <1>10, TypesKeep DEF G, Kept, PracticeInv

LEMMA PracticeStart ==
  ASSUME Init
  PROVE  PracticeInv
<1>1. TypeOK
  <2>1. << >> \in Seq(Session) /\ Len(<< >>) = 0 /\ << >> \in Seq(Answer)
    OBVIOUS
  <2>2. tab \in [Tabs -> Request]
    BY AtHomeType DEF Init
  <2>3. QED
    BY <2>1, <2>2, PracticeAssumption DEF Init, TypeOK
<1>2. DOMAIN sessions = {}
  BY DEF Init
<1>3. \A x \in Tabs : tab[x].pc = "home"
  BY AtHomeType DEF Init
<1>4. TurnsInOrder /\ EndedComplete /\ AttemptsFit /\ SweepFits
  BY <1>2, FS_EmptySet DEF Init, TurnsInOrder, EndedComplete, AttemptsFit, SweepFits
<1>5. RequestsHold
  BY <1>3 DEF RequestsHold, Holds, Holding
<1>6. OneAtATime
  BY <1>3 DEF OneAtATime, InFlight, Holding
<1>7. QueuesFit
  BY DEF Init, QueuesFit
<1>8. QED
  BY <1>1, <1>4, <1>5, <1>6, <1>7 DEF PracticeInv

THEOREM PracticeInductive == Spec => []PracticeInv
<1>1. Init => PracticeInv
  BY PracticeStart
<1>2. PracticeInv /\ [Next]_vars => PracticeInv'
  BY PracticeStep
<1>3. QED
  BY <1>1, <1>2, PTL DEF Spec

------------------------------------------------------------------------------
(* The theorems.                                                           *)

(* Every variable keeps to its type: an ease factor never falls below the  *)
(* floor its column checks, no session outgrows its ids (V11, sm2.service).*)
THEOREM PracticeTypes == Spec => []TypeOK
<1>1. PracticeInv => TypeOK
  BY DEF PracticeInv
<1>2. QED
  BY <1>1, PracticeInductive, PTL

(* The turns of a session are answered once each and in order, whatever is *)
(* posted twice, raced or lost (submitAnswer, the unique key of            *)
(* practice_attempts).                                                     *)
THEOREM TurnsAreInOrder == Spec => []TurnsInOrder
<1>1. PracticeInv => TurnsInOrder
  BY DEF PracticeInv
<1>2. QED
  BY <1>1, PracticeInductive, PTL

(* A session that completed had each of its words answered right exactly   *)
(* once, and is counted so (finaliseSession).                              *)
THEOREM CompletedAreComplete == Spec => []CompletedIsComplete
<1>1. ASSUME PracticeInv PROVE CompletedIsComplete
  <2> SUFFICES ASSUME NEW s \in DOMAIN sessions, sessions[s].status = "completed"
               PROVE  /\ {a.word : a \in RightOnes(s)} = sessions[s].words
                      /\ Cardinality(RightOnes(s)) = Cardinality(sessions[s].words)
                      /\ sessions[s].correct = Cardinality(RightOnes(s))
                      /\ sessions[s].total = Cardinality(Attempts(s))
    BY DEF CompletedIsComplete
  <2>1. /\ {a.word : a \in RightOnes(s)} = sessions[s].words
        /\ sessions[s].correct = Cardinality(RightOnes(s))
        /\ sessions[s].total = Cardinality(Attempts(s))
    BY <1>1 DEF PracticeInv, EndedComplete, Complete, RightWords, Count
  <2>2. Cardinality(RightOnes(s)) = Cardinality(sessions[s].words)
    <3> DEFINE f == [a \in RightOnes(s) |-> a.word]
    <3>1. f \in Bijection(RightOnes(s), sessions[s].words)
      <4>1. \A a, b \in RightOnes(s) : a.word = b.word => a = b
        BY <1>1 DEF PracticeInv, AttemptsFit
      <4>2. f \in Injection(RightOnes(s), sessions[s].words)
        BY <2>1, <4>1 DEF Injection, IsInjective
      <4>3. f \in Surjection(RightOnes(s), sessions[s].words)
        BY <2>1 DEF Surjection
      <4>4. QED
        BY <4>2, <4>3 DEF Bijection
    <3>2. IsFiniteSet(RightOnes(s))
      BY <1>1, CountsAreNumbers DEF PracticeInv, AttemptsFit
    <3> HIDE DEF f
    <3>3. QED
      BY <3>1, <3>2, FS_Bijection DEF ExistsBijection
  <2>3. QED
    BY <2>1, <2>2
<1>2. QED
  BY <1>1, PracticeInductive, PTL

(* The first end of a session stands: neither the sweep, nor a returning   *)
(* viewer, nor an answer changes how it ended (WHERE status = 'active').   *)
THEOREM EndStands == Spec => FirstEndStands
<1> DEFINE A == \A s \in DOMAIN sessions :
                  ~Active(s) => /\ sessions'[s].status = sessions[s].status
                                /\ sessions'[s].total = sessions[s].total
                                /\ sessions'[s].correct = sessions[s].correct
<1>1. PracticeInv /\ [Next]_vars => [A]_vars
  BY SessionsStep DEF SessionsEvolve
<1>2. Spec => [][A]_vars
  <2> HIDE DEF A
  <2>1. QED
    BY <1>1, PracticeInductive, PTL DEF Spec
<1>3. QED
  BY <1>2 DEF FirstEndStands


------------------------------------------------------------------------------
(* Every answer counts.                                                    *)

(* SM-2 of a word after each of the answers.                               *)
Chain(log, o, w, f) ==
  /\ f \in [0..Len(log) -> Sm2State]
  /\ f[0] = InitialSm2
  /\ \A n \in 1..Len(log) :
       f[n] = IF n \in Given(log, o, w) THEN Review(f[n - 1], log[n].quality) ELSE f[n - 1]

LEMMA ReviewedChain ==
  ASSUME NEW log \in Seq(Answer), NEW o, NEW w
  PROVE  \E f : Chain(log, o, w, f) /\ Reviewed(log, o, w) = f[Len(log)]
<1> DEFINE m == Len(log)
           G == Given(log, o, w)
           step == [p \in Sm2State \X (1..m) |->
                      IF p[2] \in G THEN Review(p[1], log[p[2]].quality) ELSE p[1]]
           body(f) == [n \in 0..m |-> IF n = 0 THEN InitialSm2
                                      ELSE IF n \in G THEN Review(f[n - 1], log[n].quality)
                                      ELSE f[n - 1]]
           after == CHOOSE f : f = body(f)
<1>1. m \in Nat /\ InitialSm2 \in Sm2State
  BY DEF InitialSm2, Sm2State, Eases
<1>2. \A n \in 1..m, s \in Sm2State : Review(s, log[n].quality) \in Sm2State
  <2>1. \A n \in 1..m : log[n].quality \in {2, 5}
    <3>1. \A n \in 1..m : log[n] \in Answer
      BY ElementOfSeq
    <3>2. QED
      BY <3>1 DEF Answer
  <2>2. \A s \in Sm2State, quality \in {2, 5} : Review(s, quality) \in Sm2State
    <3> SUFFICES ASSUME NEW s \in Sm2State, NEW quality \in {2, 5}
                 PROVE  Review(s, quality) \in Sm2State
      OBVIOUS
    <3>1. 0 \in Nat
      OBVIOUS
    <3>2. QED
      BY <3>1, ReviewTypes
  <2>3. QED
    BY <2>1, <2>2
<1> HIDE DEF m, G
<1>3. step \in [Sm2State \X (1..m) -> Sm2State]
  BY <1>2
<1>4. \A s \in Sm2State, n \in 1..m :
        step[<<s, n>>] = IF n \in G THEN Review(s, log[n].quality) ELSE s
  OBVIOUS
<1> HIDE DEF step
<1>41. PICK f : IsRun(Sm2State, InitialSm2, m, step, f)
  BY <1>1, <1>3, Recursion
<1>5. /\ f \in [0..m -> Sm2State] /\ f[0] = InitialSm2
      /\ \A n \in 1..m : f[n] = step[<<f[n - 1], n>>]
  BY <1>41 DEF IsRun
<1>51. \A n \in 1..m :
         f[n] = IF n \in G THEN Review(f[n - 1], log[n].quality) ELSE f[n - 1]
  <2> SUFFICES ASSUME NEW n \in 1..m
               PROVE  f[n] = IF n \in G THEN Review(f[n - 1], log[n].quality) ELSE f[n - 1]
    OBVIOUS
  <2>1. n - 1 \in 0..m
    BY <1>1
  <2>2. f[n - 1] \in Sm2State /\ f[n] = step[<<f[n - 1], n>>]
    BY <1>5, <2>1
  <2>3. QED
    BY <1>4, <2>2
<1>6. f = body(f)
  <2>1. \A n \in 0..m : n = 0 \/ n \in 1..m
    BY <1>1
  <2>2. \A n \in 0..m : f[n] = IF n = 0 THEN InitialSm2
                               ELSE IF n \in G THEN Review(f[n - 1], log[n].quality)
                               ELSE f[n - 1]
    BY <1>5, <1>51, <2>1
  <2>3. DOMAIN f = 0..m /\ f = [n \in 0..m |-> f[n]]
    BY <1>5
  <2> HIDE DEF InitialSm2
  <2>4. QED
    BY <2>2, <2>3
<1>7. after = body(after)
  BY <1>6
<1> HIDE DEF after
<1>8. after[0] = InitialSm2
  BY <1>1, <1>7
<1>9. \A n \in 1..m :
        after[n] = IF n \in G THEN Review(after[n - 1], log[n].quality) ELSE after[n - 1]
  BY <1>1, <1>7
<1>10. {n \in 0..m : after[n] \in Sm2State} = 0..m
  <2> DEFINE T == {n \in 0..m : after[n] \in Sm2State}
  <2>1. 0 \in T
    BY <1>1, <1>8
  <2>2. ASSUME NEW n \in T, n < m PROVE n + 1 \in T
    <3>1. n + 1 \in 1..m /\ (n + 1) - 1 = n /\ after[n] \in Sm2State
      BY <1>1, <2>2
    <3>2. after[n + 1] = IF n + 1 \in G THEN Review(after[n], log[n + 1].quality) ELSE after[n]
      BY <1>9, <3>1
    <3>3. QED
      BY <1>2, <3>1, <3>2
  <2>3. T \in SUBSET (0..m)
    OBVIOUS
  <2> HIDE DEF T
  <2>4. T = 0..m
    BY <1>1, <2>1, <2>2, <2>3, EveryNumber
  <2>5. QED
    BY <2>4 DEF T
<1>11. after \in [0..m -> Sm2State]
  BY <1>7, <1>10
<1>12. Chain(log, o, w, after)
  BY <1>8, <1>9, <1>11 DEF Chain, m, G
<1>13. Reviewed(log, o, w) = after[Len(log)]
  BY DEF Reviewed, after, m, G
<1>14. QED
  BY <1>12, <1>13

(* One more answer is one more review of its word, and of no other.        *)
LEMMA ReviewedGrows ==
  ASSUME NEW log \in Seq(Answer), NEW e \in Answer, NEW o, NEW w
  PROVE  /\ Given(Append(log, e), o, w) =
              Given(log, o, w) \cup (IF e.owner = o /\ e.word = w THEN {Len(log) + 1} ELSE {})
         /\ Reviewed(Append(log, e), o, w) =
              IF e.owner = o /\ e.word = w THEN Review(Reviewed(log, o, w), e.quality)
              ELSE Reviewed(log, o, w)
<1> DEFINE m == Len(log)
           longer == Append(log, e)
<1>1. /\ m \in Nat /\ DOMAIN log = 1..m
      /\ longer \in Seq(Answer) /\ Len(longer) = m + 1 /\ DOMAIN longer = 1..(m + 1)
      /\ longer[m + 1] = e /\ \A n \in 1..m : longer[n] = log[n]
  OBVIOUS
<1> HIDE DEF m, longer
<1>2. Given(longer, o, w) = Given(log, o, w) \cup (IF e.owner = o /\ e.word = w THEN {m + 1} ELSE {})
  <2>1. \A n \in 1..m : n \in Given(longer, o, w) <=> n \in Given(log, o, w)
    BY <1>1 DEF Given
  <2>2. m + 1 \in Given(longer, o, w) <=> e.owner = o /\ e.word = w
    BY <1>1 DEF Given
  <2>3. Given(longer, o, w) \subseteq 1..(m + 1) /\ Given(log, o, w) \subseteq 1..m
    BY <1>1 DEF Given
  <2>4. 1..(m + 1) = (1..m) \cup {m + 1}
    BY <1>1
  <2>5. QED
    BY <2>1, <2>2, <2>3, <2>4
<1>3. PICK f : Chain(log, o, w, f) /\ Reviewed(log, o, w) = f[m]
  BY ReviewedChain DEF m
<1>4. PICK g : Chain(longer, o, w, g) /\ Reviewed(longer, o, w) = g[m + 1]
  BY <1>1, ReviewedChain
<1>5. Given(longer, o, w) \cap 1..m = Given(log, o, w)
  <2>1. Given(log, o, w) \subseteq 1..m /\ m + 1 \notin 1..m
    BY <1>1 DEF Given
  <2>2. QED
    BY <1>2, <2>1
<1>6. \A n \in 0..m : g[n] = f[n]
  <2> DEFINE T == {n \in 0..m : g[n] = f[n]}
  <2>1. 0 \in T
    BY <1>1, <1>3, <1>4 DEF Chain
  <2>2. ASSUME NEW n \in T, n < m PROVE n + 1 \in T
    <3>1. n + 1 \in 1..m /\ n + 1 \in 1..(m + 1) /\ (n + 1) - 1 = n /\ g[n] = f[n]
      BY <1>1, <2>2
    <3>2. f[n + 1] = IF n + 1 \in Given(log, o, w) THEN Review(f[n], log[n + 1].quality) ELSE f[n]
      BY <1>3, <3>1 DEF Chain, m
    <3>3. g[n + 1] = IF n + 1 \in Given(longer, o, w) THEN Review(g[n], longer[n + 1].quality)
                     ELSE g[n]
      BY <1>1, <1>4, <3>1 DEF Chain
    <3>4. longer[n + 1] = log[n + 1]
      BY <1>1, <3>1
    <3>5. n + 1 \in Given(log, o, w) <=> n + 1 \in Given(longer, o, w)
      BY <1>5, <3>1
    <3>6. QED
      BY <3>1, <3>2, <3>3, <3>4, <3>5
  <2>3. T \in SUBSET (0..m)
    OBVIOUS
  <2> HIDE DEF T
  <2>4. T = 0..m
    BY <1>1, <2>1, <2>2, <2>3, EveryNumber
  <2>5. QED
    BY <2>4 DEF T
<1>7. g[m + 1] = IF m + 1 \in Given(longer, o, w) THEN Review(g[m], e.quality) ELSE g[m]
  <2>1. m + 1 \in 1..(m + 1) /\ (m + 1) - 1 = m
    BY <1>1
  <2>2. QED
    BY <1>1, <1>4, <2>1 DEF Chain
<1>8. m + 1 \in Given(longer, o, w) <=> e.owner = o /\ e.word = w
  BY <1>1 DEF Given
<1>9. g[m] = Reviewed(log, o, w)
  BY <1>1, <1>3, <1>6
<1>10. QED
  BY <1>2, <1>4, <1>7, <1>8, <1>9 DEF longer, m


(* The statements of an answer, from the one that found the session on.    *)
Answering == {"fetch", "insert", "review", "write"}

(* A post is to a session of its sender's own.                             *)
OwnAnswers ==
  \A x \in Tabs : tab[x].pc \in Answering =>
    tab[x].sid \in DOMAIN sessions /\ sessions[tab[x].sid].owner = owner[x]

SameWord(x, y) == owner[y] = owner[x] /\ Word(y) = Word(x)

(* What a request has read of a word, under its lock, is what is stored.   *)
ReadIsFresh(x) ==
  LET row == schedule[owner[x]][Word(x)]
  IN  tab[x].before = IF row = Gone THEN InitialSm2 ELSE row.state

ReadsAreFresh == \A x \in Tabs : tab[x].pc = "write" => ReadIsFresh(x)

(* Two share the gap where a row would be, never a row.                    *)
GapsAreShared ==
  \A x, y \in Tabs :
    x # y /\ tab[x].pc = "write" /\ tab[y].pc = "write" /\ SameWord(x, y) =>
      schedule[owner[x]][Word(x)] = Gone

AnswersInv == PracticeInv /\ OwnAnswers /\ ReadsAreFresh /\ GapsAreShared /\ EveryAnswerCounts

(* A request answers one session throughout, and comes to write only by    *)
(* reading the schedule.                                                   *)
AnswersOn(z) ==
  /\ tab'[z].pc \in Answering =>
       \/ tab[z].pc \in Answering /\ tab'[z].sid = tab[z].sid
       \/ \E s \in DOMAIN sessions : Post(z, s)
  /\ tab'[z].pc = "write" => tab'[z] = tab[z] \/ ReadSchedule(z)

LEMMA EndWithEnds ==
  ASSUME TypeOK, NEW z \in Tabs, NEW s, NEW status, NEW goOn, EndWith(z, s, status, goOn)
  PROVE  tab'[z].pc = "finalise"
<1> DEFINE q == [AtHome EXCEPT !.pc = "finalise", !.sid = s, !.status = status, !.goOn = goOn,
                               !.now = IF goOn THEN tab[z].now ELSE 0]
<1>1. tab' = [tab EXCEPT ![z] = q] /\ q.pc = "finalise"
  BY DEF EndWith, AtHome
<1> HIDE DEF q
<1>2. QED
  BY <1>1 DEF TypeOK

LEMMA GoHomeEnds ==
  ASSUME TypeOK, NEW z \in Tabs, GoHome(z)
  PROVE  tab'[z].pc = "home"
BY AtHomeType DEF TypeOK, GoHome

LEMMA ReadsAnswerOn ==
  ASSUME PracticeInv, NEW z \in Tabs, Reads(z)
  PROVE  AnswersOn(z)
<1> DEFINE A == AnswersOn(z)
<1>0. TypeOK /\ tab \in [Tabs -> Request] /\ tab[z] \in Request
  BY DEF PracticeInv, TypeOK
<1>1. ASSUME tab'[z].pc \notin Answering PROVE A
  BY <1>1 DEF AnswersOn, Answering
<1>2. ASSUME tab[z].pc \in Answering, tab'[z].sid = tab[z].sid, tab'[z].pc # "write" PROVE A
  BY <1>2 DEF AnswersOn
<1>3. GoHome(z) => A
  BY <1>0, <1>1, GoHomeEnds DEF Answering
<1>4. \A s, status, goOn : EndWith(z, s, status, goOn) => A
  BY <1>0, <1>1, EndWithEnds DEF Answering
<1>5. tab[z].pc \in Answering /\ (Goto(z, "review") \/ Goto(z, "insert")) => A
  BY <1>0, <1>2 DEF Goto, Request
<1>6. Enter(z) => A
  <2>1. Enter(z) => tab'[z].pc \in {"due", "finalise", "load"}
    BY <1>0 DEF Enter, Request
  <2>2. QED
    BY <1>1, <2>1 DEF Answering
<1>7. FindDue(z) => A
  <2>1. FindDue(z) => GoHome(z) \/ tab'[z].pc = "start"
    BY <1>0 DEF FindDue, Request
  <2>2. QED
    BY <1>1, <1>3, <2>1 DEF Answering
<1>8. \A s \in DOMAIN sessions : Post(z, s) => A
  <2> SUFFICES ASSUME NEW s \in DOMAIN sessions, Post(z, s) PROVE A
    OBVIOUS
  <2>1. tab'[z].pc = "fetch"
    BY <1>0 DEF Post, Request
  <2>2. QED
    BY <2>1 DEF AnswersOn
<1>9. \A rating \in Ratings : Fetch(z, rating) => A
  <2> SUFFICES ASSUME NEW rating \in Ratings, Fetch(z, rating) PROVE A
    OBVIOUS
  <2>1. GoHome(z) \/ (tab'[z].pc = "insert" /\ tab'[z].sid = tab[z].sid)
    BY <1>0 DEF Fetch, Request
  <2>2. tab[z].pc \in Answering
    BY DEF Fetch, Answering
  <2>3. QED
    BY <1>2, <1>3, <2>1, <2>2
<1>10. ReadSchedule(z) => A
  <2> SUFFICES ASSUME ReadSchedule(z) PROVE A
    OBVIOUS
  <2>1. tab'[z].sid = tab[z].sid /\ tab[z].pc \in Answering
    BY <1>0 DEF ReadSchedule, Request, Answering
  <2>2. QED
    BY <2>1 DEF AnswersOn
<1>11. CompletionFails(z) => A
  <2>1. CompletionFails(z) => tab'[z].pc = "finalise"
    BY <1>0 DEF CompletionFails, Request
  <2>2. QED
    BY <1>1, <2>1 DEF Answering
<1>12. Insert(z) \/ LoseLockRace(z) => A
  <2>1. Insert(z) \/ LoseLockRace(z) => tab[z].pc \in Answering
    BY DEF Insert, LoseLockRace, Answering
  <2>2. Insert(z) \/ LoseLockRace(z) => Goto(z, "review") \/ Goto(z, "insert") \/ GoHome(z)
    BY DEF Insert, LoseLockRace
  <2>3. QED
    BY <1>3, <1>5, <2>1, <2>2
<1> HIDE DEF A
<1>13. Resume(z) \/ Crash(z) => A
  BY <1>3 DEF Resume, Crash
<1>14. LoseQueue(z) \/ FetchNothing(z) => A
  BY <1>4 DEF LoseQueue, FetchNothing
<1>15. A
  BY <1>6, <1>7, <1>8, <1>9, <1>10, <1>11, <1>12, <1>13, <1>14 DEF Reads
<1>16. QED
  BY <1>15 DEF A

LEMMA AnswersMove ==
  ASSUME PracticeInv, [Next]_vars, NEW z \in Tabs
  PROVE  AnswersOn(z)
<1> DEFINE A == AnswersOn(z)
<1>0. TypeOK /\ tab \in [Tabs -> Request] /\ tab[z] \in Request
  BY DEF PracticeInv, TypeOK
<1>1. ASSUME tab'[z] = tab[z] PROVE A
  BY <1>1 DEF AnswersOn
<1>2. ASSUME tab'[z].pc \notin Answering PROVE A
  BY <1>2 DEF AnswersOn, Answering
<1>3. ASSUME NEW x \in Tabs, x # z, \E q : tab' = [tab EXCEPT ![x] = q] PROVE A
  BY <1>0, <1>1, <1>3
<1>4. \A x \in Tabs : Reads(x) => A
  <2> SUFFICES ASSUME NEW x \in Tabs, Reads(x) PROVE A
    OBVIOUS
  <2>1. CASE x = z
    BY <2>1, ReadsAnswerOn
  <2>2. CASE x # z
    <3>1. PICK q : Moved(x, q)
      BY ReadsMove
    <3>2. QED
      BY <1>3, <2>2, <3>1 DEF Moved
  <2>3. QED
    BY <2>1, <2>2
<1>5. \A x \in Tabs : Start(x) => A
  <2> SUFFICES ASSUME NEW x \in Tabs, Start(x) PROVE A
    OBVIOUS
  <2>1. PICK q : tab' = [tab EXCEPT ![x] =
                           [AtHome EXCEPT !.pc = "serve", !.queue = q, !.sid = Len(sessions) + 1]]
    BY DEF Start
  <2> DEFINE r == [AtHome EXCEPT !.pc = "serve", !.queue = q, !.sid = Len(sessions) + 1]
  <2>2. tab' = [tab EXCEPT ![x] = r] /\ r.pc = "serve"
    BY <2>1 DEF AtHome
  <2> HIDE DEF r, A
  <2>3. CASE x = z
    BY <1>0, <1>2, <2>2, <2>3 DEF Answering
  <2>4. CASE x # z
    BY <1>3, <2>2, <2>4
  <2>5. QED
    BY <2>3, <2>4
<1>6. ASSUME NEW x \in Tabs, GoHome(x) PROVE A
  <2>1. CASE x = z
    BY <1>0, <1>2, <1>6, <2>1, GoHomeEnds DEF Answering
  <2>2. CASE x # z
    BY <1>3, <1>6, <2>2 DEF GoHome
  <2>3. QED
    BY <2>1, <2>2
<1>7. ASSUME NEW x \in Tabs, NEW s, NEW status, NEW goOn, EndWith(x, s, status, goOn) PROVE A
  <2>1. CASE x = z
    BY <1>0, <1>2, <1>7, <2>1, EndWithEnds DEF Answering
  <2>2. CASE x # z
    BY <1>3, <1>7, <2>2 DEF EndWith
  <2>3. QED
    BY <2>1, <2>2
<1>8. \A x \in Tabs : Serve(x) \/ MoveOn(x) => A
  BY <1>6, <1>7 DEF Serve, MoveOn
<1>9. \A x \in Tabs : Write(x) => A
  <2> SUFFICES ASSUME NEW x \in Tabs, Write(x) PROVE A
    OBVIOUS
  <2> DEFINE q == [AtHome EXCEPT !.pc = "advance", !.sid = tab[x].sid,
                                 !.queue = tab[x].queue, !.rating = tab[x].rating]
  <2>1. tab' = [tab EXCEPT ![x] = q] /\ q.pc = "advance"
    BY DEF Write, AtHome
  <2> HIDE DEF q, A
  <2>2. CASE x = z
    BY <1>0, <1>2, <2>1, <2>2 DEF Answering
  <2>3. CASE x # z
    BY <1>3, <2>1, <2>3
  <2>4. QED
    BY <2>2, <2>3
<1>10. \A x \in Tabs : End(x) => A
  <2> SUFFICES ASSUME NEW x \in Tabs, End(x) PROVE A
    OBVIOUS
  <2> DEFINE q == IF tab[x].goOn THEN [AtHome EXCEPT !.pc = "due", !.now = tab[x].now] ELSE AtHome
  <2>1. tab' = [tab EXCEPT ![x] = q] /\ q.pc \in {"due", "home"}
    BY DEF End, AtHome
  <2> HIDE DEF q, A
  <2>2. CASE x = z
    BY <1>0, <1>2, <2>1, <2>2 DEF Answering
  <2>3. CASE x # z
    BY <1>3, <2>1, <2>3
  <2>4. QED
    BY <2>2, <2>3
<1>11. \A s \in SessionIds : SweepEnd(s) => A
  BY <1>1 DEF SweepEnd
<1>12. (Sweep => A) /\ (SweepCrash => A) /\ (Tick => A) /\ (UNCHANGED vars => A)
  BY <1>1 DEF Sweep, SweepCrash, Tick, vars
<1>13. A
  BY <1>4, <1>5, <1>8, <1>9, <1>10, <1>11, <1>12, PracticeCases
<1>14. QED
  BY <1>13 DEF A


(* Only the commit of an answer changes what the answers are told by.      *)
LEMMA OnlyWrites ==
  ASSUME [Next]_vars
  PROVE  /\ owner' = owner
         /\ UNCHANGED <<attempts, answers, schedule>> \/ \E x \in Tabs : Write(x)
<1> DEFINE A == /\ owner' = owner
                /\ UNCHANGED <<attempts, answers, schedule>> \/ \E x \in Tabs : Write(x)
<1>1. \A x \in Tabs : Reads(x) => A
  BY ReadsOnly DEF tables
<1>2. \A x \in Tabs : Start(x) \/ Serve(x) \/ MoveOn(x) \/ End(x) => A
  BY DEF Start, Serve, MoveOn, End, tables
<1>3. \A x \in Tabs : Write(x) => A
  BY DEF Write
<1>4. \A s \in SessionIds : SweepEnd(s) => A
  BY DEF SweepEnd
<1>5. (Sweep => A) /\ (SweepCrash => A) /\ (Tick => A) /\ (UNCHANGED vars => A)
  BY DEF Sweep, SweepCrash, Tick, tables, vars
<1> HIDE DEF A
<1>6. A
  BY <1>1, <1>2, <1>3, <1>4, <1>5, PracticeCases
<1>7. QED
  BY <1>6 DEF A

LEMMA OwnersStay ==
  ASSUME PracticeInv, [Next]_vars, NEW s \in DOMAIN sessions
  PROVE  s \in DOMAIN sessions' /\ sessions'[s].owner = sessions[s].owner
<1>1. /\ sessions' \in Seq(Session) /\ SessionsEvolve
      /\ DOMAIN sessions = 1..Len(sessions) /\ Len(sessions) \in Nat
  BY SessionsStep, SessionsSeq DEF PracticeInv
<1>2. DOMAIN sessions' = 1..Len(sessions') /\ Len(sessions') \in Nat
  BY <1>1
<1>3. QED
  BY <1>1, <1>2 DEF SessionsEvolve

LEMMA OwnAnswersKeep ==
  ASSUME PracticeInv, OwnAnswers, [Next]_vars
  PROVE  OwnAnswers'
<1> SUFFICES ASSUME NEW z \in Tabs, tab'[z].pc \in Answering
             PROVE  /\ tab'[z].sid \in DOMAIN sessions'
                    /\ sessions'[tab'[z].sid].owner = owner'[z]
  BY DEF OwnAnswers
<1>1. owner' = owner
  BY OnlyWrites
<1>2. tab'[z].sid \in DOMAIN sessions /\ sessions[tab'[z].sid].owner = owner[z]
  <2>1. CASE tab[z].pc \in Answering /\ tab'[z].sid = tab[z].sid
    BY <2>1 DEF OwnAnswers
  <2>2. CASE \E s \in DOMAIN sessions : Post(z, s)
    <3>1. PICK s \in DOMAIN sessions : Post(z, s)
      BY <2>2
    <3>2. tab[z] \in Request /\ tab \in [Tabs -> Request]
      BY DEF PracticeInv, TypeOK
    <3>3. tab'[z].sid = s
      BY <3>1, <3>2 DEF Post, Request
    <3>4. QED
      BY <3>1, <3>3 DEF Post
  <2>3. QED
    BY <2>1, <2>2, AnswersMove DEF AnswersOn
<1>3. QED
  BY <1>1, <1>2, OwnersStay

(* The rows of practice_attempts an answer to a word of an owner makes.    *)
Rows(o, w) == {a \in attempts : a.word = w /\ sessions[a.session].owner = o}

LEMMA RowsStay ==
  ASSUME PracticeInv, [Next]_vars, NEW o, NEW w
  PROVE  {a \in attempts : a.word = w /\ sessions'[a.session].owner = o} = Rows(o, w)
<1>1. \A a \in attempts : a.session \in DOMAIN sessions
  BY DEF PracticeInv, AttemptsFit
<1>2. \A a \in attempts : sessions'[a.session].owner = sessions[a.session].owner
  BY <1>1, OwnersStay
<1>3. QED
  BY <1>2 DEF Rows

(* Every step but a commit.                                                *)
LEMMA ReadsStayFresh ==
  ASSUME AnswersInv, [Next]_vars, UNCHANGED <<attempts, answers, schedule>>
  PROVE  ReadsAreFresh' /\ GapsAreShared' /\ EveryAnswerCounts'
<1>0. /\ PracticeInv /\ ReadsAreFresh /\ GapsAreShared /\ EveryAnswerCounts /\ owner' = owner
      /\ tab \in [Tabs -> Request]
  BY OnlyWrites DEF AnswersInv, PracticeInv, TypeOK
<1>1. \A z \in Tabs : tab'[z].pc = "write" => tab'[z] = tab[z] \/ ReadSchedule(z)
  BY <1>0, AnswersMove DEF AnswersOn
<1>2. ASSUME NEW z \in Tabs, ReadSchedule(z)
      PROVE  /\ tab'[z].queue = tab[z].queue
             /\ tab'[z].before = LET row == schedule[owner[z]][Word(z)] IN
                                   IF row = Gone THEN InitialSm2 ELSE row.state
             /\ \A y \in Tabs \ {z} : tab'[y] = tab[y]
             /\ schedule[owner[z]][Word(z)] # Gone => Reviewers(z) = {}
  BY <1>0, <1>2 DEF ReadSchedule, Request, MayLock
<1>3. \A z \in Tabs : tab'[z].pc = "write" => Word(z)' = Word(z)
  BY <1>1, <1>2 DEF Word
<1>4. ReadsAreFresh'
  <2> SUFFICES ASSUME NEW z \in Tabs, tab'[z].pc = "write" PROVE ReadIsFresh(z)'
    BY DEF ReadsAreFresh
  <2>1. CASE tab'[z] = tab[z]
    BY <1>0, <1>3, <2>1 DEF ReadsAreFresh, ReadIsFresh
  <2>2. CASE ReadSchedule(z)
    BY <1>0, <1>2, <1>3, <2>2 DEF ReadIsFresh
  <2>3. QED
    BY <1>1, <2>1, <2>2
<1>5. GapsAreShared'
  <2> SUFFICES ASSUME NEW x \in Tabs, NEW y \in Tabs, x # y,
                      tab'[x].pc = "write", tab'[y].pc = "write", SameWord(x, y)'
               PROVE  schedule[owner[x]][Word(x)] = Gone
    BY <1>0, <1>3 DEF GapsAreShared
  <2>1. SameWord(x, y) /\ SameWord(y, x)
    BY <1>0, <1>3 DEF SameWord
  <2>2. CASE tab'[x] = tab[x] /\ tab'[y] = tab[y]
    BY <1>0, <2>1, <2>2 DEF GapsAreShared
  <2>3. CASE ReadSchedule(x)
    <3>1. tab[y].pc = "write"
      BY <1>2, <2>3
    <3>2. y \in Reviewers(x)
      BY <2>1, <3>1 DEF Reviewers, SameWord
    <3>3. QED
      BY <1>2, <2>3, <3>2
  <2>4. CASE ReadSchedule(y)
    <3>1. tab[x].pc = "write"
      BY <1>2, <2>4
    <3>2. x \in Reviewers(y)
      BY <2>1, <3>1 DEF Reviewers, SameWord
    <3>3. schedule[owner[y]][Word(y)] = Gone
      BY <1>2, <2>4, <3>2
    <3>4. QED
      BY <2>1, <3>3 DEF SameWord
  <2>5. QED
    BY <1>1, <2>2, <2>3, <2>4
<1>6. EveryAnswerCounts'
  <2>1. \A o, w : Rows(o, w)' = Rows(o, w)
    BY <1>0, RowsStay DEF Rows
  <2>2. QED
    BY <1>0, <2>1 DEF EveryAnswerCounts, Rows
<1>7. QED
  BY <1>4, <1>5, <1>6


LEMMA GivenIsFinite ==
  ASSUME NEW log \in Seq(Answer), NEW o, NEW w
  PROVE  /\ IsFiniteSet(Given(log, o, w)) /\ Len(log) + 1 \notin Given(log, o, w)
         /\ Given(log, o, w) = {} => Reviewed(log, o, w) = InitialSm2
<1>1. Given(log, o, w) \subseteq 1..Len(log) /\ Len(log) \in Nat
  BY DEF Given
<1>2. IsFiniteSet(Given(log, o, w))
  <2>1. IsFiniteSet(1..Len(log))
    BY <1>1, FS_Interval
  <2>2. QED
    BY <1>1, <2>1, FS_Subset
<1>3. ASSUME Given(log, o, w) = {} PROVE Reviewed(log, o, w) = InitialSm2
  <2>1. PICK f : Chain(log, o, w, f) /\ Reviewed(log, o, w) = f[Len(log)]
    BY ReviewedChain
  <2> DEFINE m == Len(log)
             T == {n \in 0..m : f[n] = InitialSm2}
  <2>2. 0 \in T
    BY <1>1, <2>1 DEF Chain
  <2>3. ASSUME NEW n \in T, n < m PROVE n + 1 \in T
    <3>1. n + 1 \in 1..Len(log) /\ (n + 1) - 1 = n /\ f[n] = InitialSm2
      BY <1>1, <2>3
    <3>2. f[n + 1] = f[n]
      BY <1>3, <2>1, <3>1 DEF Chain
    <3>3. QED
      BY <3>1, <3>2
  <2>4. T \in SUBSET (0..m) /\ m \in Nat
    BY <1>1
  <2> HIDE DEF T
  <2>5. T = 0..m
    BY <2>2, <2>3, <2>4, EveryNumber
  <2>6. QED
    BY <1>1, <2>1, <2>5 DEF T
<1>4. QED
  BY <1>1, <1>2, <1>3

(* What the commit of an answer of x is.                                   *)
Committed(x, o, w, e, a, row) ==
  /\ o = owner[x] /\ w = Word(x) /\ o \in Owners /\ w \in Words
  /\ e \in Answer /\ e.owner = o /\ e.word = w
  /\ answers' = Append(answers, e)
  /\ a.session = tab[x].sid /\ a.word = w /\ a \notin attempts
  /\ a.session \in DOMAIN sessions
  /\ attempts' = attempts \cup {a}
  /\ row \in Sm2Row /\ row.state = Review(tab[x].before, e.quality)
  /\ schedule' = [schedule EXCEPT ![o][w] = row]

LEMMA WriteCommits ==
  ASSUME PracticeInv, [Next]_vars, NEW x \in Tabs, Write(x)
  PROVE  \E o, w, e, a, row : Committed(x, o, w, e, a, row)
<1> DEFINE t == tab[x]
           quality == Quality(t.rating)
           after == Review(t.before, quality)
           a == [session |-> t.sid, turn |-> Turn(x), word |-> Word(x), rating |-> t.rating]
           e == [owner |-> owner[x], word |-> Word(x), quality |-> quality]
           row == [state |-> after, due |-> NextDueAt(t.now, after.interval)]
<1>1. /\ t \in Request /\ t.pc = "write" /\ Holds(t) /\ owner[x] \in Owners
      /\ t.queue \in Queue /\ t.before \in Sm2State /\ t.now \in Nat /\ t.rating \in Ratings
  BY DEF PracticeInv, TypeOK, RequestsHold, Write, Request
<1>2. t.sid \in DOMAIN sessions /\ ~IsFinished(t.queue) /\ TurnOpen(t.sid, Turn(x))
  BY <1>1 DEF Holds, Holding, Fits, Turn
<1>3. Word(x) \in Words
  BY <1>1, <1>2, HeadIsLeft DEF Word
<1>4. quality \in {2, 5}
  BY DEF Quality
<1> HIDE DEF quality
<1>5. after \in Sm2State /\ NextDueAt(t.now, after.interval) \in Nat
  BY <1>1, <1>4, ReviewTypes
<1> HIDE DEF after
<1>6. row \in Sm2Row /\ row.state = after
  BY <1>5 DEF Sm2Row
<1>7. e \in Answer /\ e.owner = owner[x] /\ e.word = Word(x) /\ e.quality = quality
  BY <1>1, <1>3, <1>4 DEF Answer
<1>8. /\ answers' = Append(answers, e)
      /\ attempts' = attempts \cup {a}
      /\ schedule' = [schedule EXCEPT ![owner[x]][Word(x)] = row]
  BY DEF Write, quality, after
<1>9. a.session = t.sid /\ a.turn = Turn(x) /\ a.word = Word(x)
  OBVIOUS
<1> HIDE DEF a, e, row
<1>10. a \notin attempts
  BY <1>2, <1>9 DEF TurnOpen, Attempts
<1>11. row.state = Review(tab[x].before, e.quality)
  BY <1>6, <1>7 DEF after
<1>12. Committed(x, owner[x], Word(x), e, a, row)
  BY <1>1, <1>2, <1>3, <1>6, <1>7, <1>8, <1>9, <1>10, <1>11 DEF Committed
<1>13. QED
  BY <1>12

(* The commit itself.                                                      *)
LEMMA WriteCounts ==
  ASSUME AnswersInv, [Next]_vars, NEW x \in Tabs, Write(x)
  PROVE  ReadsAreFresh' /\ GapsAreShared' /\ EveryAnswerCounts'
<1>0. /\ PracticeInv /\ OwnAnswers /\ ReadsAreFresh /\ GapsAreShared /\ EveryAnswerCounts
      /\ owner' = owner /\ tab \in [Tabs -> Request] /\ answers \in Seq(Answer)
      /\ schedule \in [Owners -> [Words -> Sm2Row \cup {Gone}]]
      /\ IsFiniteSet(attempts)
  BY OnlyWrites DEF AnswersInv, PracticeInv, TypeOK, AttemptsFit
<1>1. PICK o, w, e, a, row : Committed(x, o, w, e, a, row)
  BY <1>0, WriteCommits
<1>2. /\ o = owner[x] /\ w = Word(x) /\ o \in Owners /\ w \in Words
      /\ e \in Answer /\ e.owner = o /\ e.word = w /\ answers' = Append(answers, e)
      /\ a.session = tab[x].sid /\ a.word = w /\ a \notin attempts
      /\ a.session \in DOMAIN sessions /\ attempts' = attempts \cup {a}
      /\ row \in Sm2Row /\ row.state = Review(tab[x].before, e.quality)
      /\ schedule' = [schedule EXCEPT ![o][w] = row]
  BY <1>1 DEF Committed
<1>3. /\ tab[x].pc = "write" /\ MayWrite(x)
      /\ \A z \in Tabs : tab'[z].pc = "write" => z # x /\ tab'[z] = tab[z]
  <2> DEFINE q == [AtHome EXCEPT !.pc = "advance", !.sid = tab[x].sid,
                                 !.queue = tab[x].queue, !.rating = tab[x].rating]
  <2>1. tab' = [tab EXCEPT ![x] = q] /\ q.pc = "advance"
    BY DEF Write, AtHome
  <2> HIDE DEF q
  <2>2. QED
    BY <1>0, <2>1 DEF Write
<1>4. \A z \in Tabs : tab'[z].pc = "write" => Word(z)' = Word(z)
  BY <1>3 DEF Word
<1>5. ASSUME NEW z \in Tabs, tab'[z].pc = "write" PROVE ~SameWord(x, z)
  <2> SUFFICES ASSUME SameWord(x, z) PROVE FALSE
    OBVIOUS
  <2>1. z \in Reviewers(x)
    BY <1>3, <1>5 DEF Reviewers, SameWord
  <2>2. schedule[owner[x]][Word(x)] = Gone
    BY <1>0, <1>3, <1>5 DEF GapsAreShared
  <2>3. QED
    BY <1>3, <2>1, <2>2 DEF MayWrite
<1>6. \A p \in Owners, v \in Words :
        schedule'[p][v] = IF p = o /\ v = w THEN row ELSE schedule[p][v]
  BY <1>0, <1>2
<1>7. ASSUME NEW z \in Tabs, tab'[z].pc = "write"
      PROVE  schedule'[owner[z]][Word(z)] = schedule[owner[z]][Word(z)]
  <2>1. owner[z] # o \/ Word(z) # w
    BY <1>2, <1>5, <1>7 DEF SameWord
  <2>2. DOMAIN schedule' = DOMAIN schedule /\ schedule' = [schedule EXCEPT ![o][w] = row]
    BY <1>2
  <2>3. CASE owner[z] # o
    BY <2>2, <2>3
  <2>4. CASE owner[z] = o /\ Word(z) # w
    BY <1>0, <1>2, <2>4
  <2>5. QED
    BY <2>1, <2>3, <2>4
<1>8. ReadsAreFresh'
  <2> SUFFICES ASSUME NEW z \in Tabs, tab'[z].pc = "write" PROVE ReadIsFresh(z)'
    BY DEF ReadsAreFresh
  <2>1. ReadIsFresh(z)
    BY <1>0, <1>3 DEF ReadsAreFresh
  <2>2. QED
    BY <1>0, <1>3, <1>4, <1>7, <2>1 DEF ReadIsFresh
<1>9. GapsAreShared'
  <2> SUFFICES ASSUME NEW y \in Tabs, NEW z \in Tabs, y # z,
                      tab'[y].pc = "write", tab'[z].pc = "write", SameWord(y, z)'
               PROVE  schedule'[owner'[y]][Word(y)'] = Gone
    BY DEF GapsAreShared
  <2>1. SameWord(y, z)
    BY <1>0, <1>4 DEF SameWord
  <2>2. schedule[owner[y]][Word(y)] = Gone
    BY <1>0, <1>3, <2>1 DEF GapsAreShared
  <2>3. QED
    BY <1>0, <1>4, <1>7, <2>2
<1>10. sessions[tab[x].sid].owner = o
  BY <1>0, <1>2, <1>3 DEF OwnAnswers, Answering
<1>11. ASSUME NEW p \in Owners, NEW v \in Words
       PROVE  /\ Cardinality(Given(answers', p, v)) = Cardinality(Rows(p, v)')
              /\ IF Given(answers', p, v) = {} THEN schedule'[p][v] = Gone
                 ELSE schedule'[p][v] # Gone /\ schedule'[p][v].state = Reviewed(answers', p, v)
  <2> DEFINE mine == p = o /\ v = w
  <2>1. /\ Cardinality(Given(answers, p, v)) = Cardinality(Rows(p, v))
        /\ IF Given(answers, p, v) = {} THEN schedule[p][v] = Gone
           ELSE schedule[p][v] # Gone /\ schedule[p][v].state = Reviewed(answers, p, v)
    BY <1>0 DEF EveryAnswerCounts, Rows
  <2>2. /\ Given(answers', p, v) =
             Given(answers, p, v) \cup (IF mine THEN {Len(answers) + 1} ELSE {})
        /\ Reviewed(answers', p, v) =
             IF mine THEN Review(Reviewed(answers, p, v), e.quality) ELSE Reviewed(answers, p, v)
    <3>1. e.owner = p /\ e.word = v <=> mine
      BY <1>2
    <3>2. QED
      BY <1>0, <1>2, <3>1, ReviewedGrows
  <2>3. /\ IsFiniteSet(Given(answers, p, v)) /\ Len(answers) + 1 \notin Given(answers, p, v)
        /\ Given(answers, p, v) = {} => Reviewed(answers, p, v) = InitialSm2
    BY <1>0, GivenIsFinite
  <2>4. Rows(p, v)' = Rows(p, v) \cup (IF mine THEN {a} ELSE {})
    <3>1. Rows(p, v)' = {b \in attempts \cup {a} : b.word = v /\ sessions'[b.session].owner = p}
      BY <1>2 DEF Rows
    <3>2. {b \in attempts : b.word = v /\ sessions'[b.session].owner = p} = Rows(p, v)
      BY <1>0, RowsStay
    <3>3. sessions'[a.session].owner = o
      BY <1>0, <1>2, <1>10, OwnersStay
    <3>4. QED
      BY <1>2, <3>1, <3>2, <3>3
  <2>5. IsFiniteSet(Rows(p, v)) /\ a \notin Rows(p, v)
    BY <1>0, <1>2, FS_Subset DEF Rows
  <2> HIDE DEF mine
  <2>6. Cardinality(Given(answers', p, v)) = Cardinality(Rows(p, v)')
    <3>1. CASE mine
      <4>1. Cardinality(Given(answers', p, v)) = Cardinality(Given(answers, p, v)) + 1
        BY <2>2, <2>3, <3>1, FS_AddElement
      <4>2. Cardinality(Rows(p, v)') = Cardinality(Rows(p, v)) + 1
        BY <2>4, <2>5, <3>1, FS_AddElement
      <4>3. QED
        BY <2>1, <4>1, <4>2
    <3>2. CASE ~mine
      BY <2>1, <2>2, <2>4, <3>2
    <3>3. QED
      BY <3>1, <3>2
  <2>7. IF Given(answers', p, v) = {} THEN schedule'[p][v] = Gone
        ELSE schedule'[p][v] # Gone /\ schedule'[p][v].state = Reviewed(answers', p, v)
    <3>1. CASE mine
      <4>1. schedule'[p][v] = row /\ row # Gone
        BY <1>2, <1>6, <3>1, GoneAssumption DEF mine
      <4>2. tab[x].before = IF schedule[p][v] = Gone THEN InitialSm2 ELSE schedule[p][v].state
        BY <1>0, <1>2, <1>3, <3>1 DEF ReadsAreFresh, ReadIsFresh, mine
      <4>3. tab[x].before = Reviewed(answers, p, v)
        BY <2>1, <2>3, <4>2
      <4>4. QED
        BY <1>2, <2>2, <3>1, <4>1, <4>3
    <3>2. CASE ~mine
      <4>1. schedule'[p][v] = schedule[p][v]
        BY <1>6, <3>2 DEF mine
      <4>2. QED
        BY <2>1, <2>2, <3>2, <4>1
    <3>3. QED
      BY <3>1, <3>2
  <2>8. QED
    BY <2>6, <2>7
<1>12. EveryAnswerCounts'
  BY <1>11 DEF EveryAnswerCounts, Rows
<1>13. QED
  BY <1>8, <1>9, <1>12

LEMMA AnswersStart ==
  ASSUME Init
  PROVE  AnswersInv
<1>1. PracticeInv
  BY PracticeStart
<1>2. \A x \in Tabs : tab[x].pc = "home"
  BY AtHomeType DEF Init
<1>3. EveryAnswerCounts
  <2>1. \A o, w : Given(answers, o, w) = {} /\ Rows(o, w) = {}
    BY DEF Init, Given, Rows
  <2>2. QED
    BY <2>1 DEF Init, EveryAnswerCounts, Rows
<1>4. QED
  BY <1>1, <1>2, <1>3 DEF AnswersInv, OwnAnswers, ReadsAreFresh, GapsAreShared, Answering

LEMMA AnswersStep ==
  ASSUME AnswersInv, [Next]_vars
  PROVE  AnswersInv'
<1>1. PracticeInv' /\ OwnAnswers'
  BY PracticeStep, OwnAnswersKeep DEF AnswersInv
<1>2. ReadsAreFresh' /\ GapsAreShared' /\ EveryAnswerCounts'
  BY OnlyWrites, ReadsStayFresh, WriteCounts
<1>3. QED
  BY <1>1, <1>2 DEF AnswersInv

(* Every accepted answer is one attempt, one event and one review: of two  *)
(* sessions of one owner that review a word at once, neither loses or      *)
(* repeats the other's (lockSm2State, upsertSm2State).                     *)
THEOREM AnswersCount == Spec => []EveryAnswerCounts
<1>1. Init => AnswersInv
  BY AnswersStart
<1>2. AnswersInv /\ [Next]_vars => AnswersInv'
  BY AnswersStep
<1>3. AnswersInv => EveryAnswerCounts
  BY DEF AnswersInv
<1>4. QED
  BY <1>1, <1>2, <1>3, PTL DEF Spec
==============================================================================
