------------------------------ MODULE RateLimit ------------------------------
(***************************************************************************)
(* The rolling-window limits of rate-limit-store.js and the middleware in  *)
(* front of the routes, for one key. Each application process reads its    *)
(* clock and then sends the script, which Redis runs as one step, so the   *)
(* scripts may run in another order than their times.                      *)
(***************************************************************************)
EXTENDS Naturals, FiniteSets, FiniteSetsExt

CONSTANTS Posts,      \* requests of one identity to one limited route
          Limit,      \* RATE_LIMITS: admitted ...
          RateWindow,     \* ... in a window of so many ticks
          MaxDelay,   \* bound on the ticks between the clock and the script
          MaxTick     \* bound on the clock

ASSUME RateLimitAssumption ==
  /\ Limit \in Nat \ {0} /\ RateWindow \in Nat \ {0}
  /\ MaxDelay \in Nat /\ MaxTick \in Nat

VARIABLES
  tick,       \* the time
  post,       \* where each request stands, and the time it read
  admitted,   \* the sorted set: one member per admitted request
  expires,    \* when the key expires
  passed      \* requests admitted by a count since Redis last lost its data

rateVars == <<tick, post, admitted, expires, passed>>

Ticks == 0..MaxTick
LimitedPost == [pc : {"idle", "sent", "next", "refused"}, now : Ticks, retry : 0..(RateWindow + MaxDelay)]

RateInit ==
  /\ tick = 0
  /\ post = [p \in Posts |-> [pc |-> "idle", now |-> 0, retry |-> 0]]
  /\ admitted = {}
  /\ expires = 0
  /\ passed = {}

(* A set of requests by the time each has read.                            *)
Times(S) == {post[p].now : p \in S}

(* consume: the clock of the process, before the command is on its way.    *)
Consume(p) ==
  /\ post[p].pc = "idle"
  /\ post' = [post EXCEPT ![p] = [pc |-> "sent", now |-> tick, retry |-> 0]]
  /\ UNCHANGED <<tick, admitted, expires, passed>>

(* The script. What is left of the window, the key's expiry included; an   *)
(* entry as old as the window is trimmed; broken: a tick too early.        *)
TrimmedEarly(now) ==
  IF tick >= expires THEN {} ELSE {p \in admitted : post[p].now + RateWindow > now + 1}
Trimmed(now) ==
  IF tick >= expires THEN {} ELSE {p \in admitted : post[p].now + RateWindow > now}

(* The wait a refused request is told, until the oldest entry left is out. *)
Retry(now, S) ==
  LET wait == RateWindow + Min(Times(S)) - now IN IF wait < 1 THEN 1 ELSE wait

Script(p) ==
  LET now == post[p].now
      used == Trimmed(now)
  IN  /\ post[p].pc = "sent"
      /\ IF Cardinality(used) >= Limit
         THEN /\ post' = [post EXCEPT ![p].pc = "refused", ![p].retry = Retry(now, used)]
              /\ admitted' = used
              /\ UNCHANGED <<expires, passed>>
         ELSE /\ post' = [post EXCEPT ![p].pc = "next"]
              /\ admitted' = used \cup {p}
              /\ expires' = tick + RateWindow
              /\ passed' = passed \cup {p}
      /\ UNCHANGED tick

(* Redis cannot be asked: the request is let through, uncounted.           *)
LetThrough(p) ==
  /\ post[p].pc = "sent"
  /\ post' = [post EXCEPT ![p].pc = "next"]
  /\ UNCHANGED <<tick, admitted, expires, passed>>

LoseData ==
  /\ admitted # {}
  /\ admitted' = {} /\ expires' = 0 /\ passed' = {}
  /\ UNCHANGED <<tick, post>>

TickPasses ==
  /\ tick < MaxTick
  /\ \A p \in Posts : post[p].pc = "sent" => tick - post[p].now < MaxDelay
  /\ tick' = tick + 1
  /\ UNCHANGED <<post, admitted, expires, passed>>

RateNext ==
  \/ \E p \in Posts : Consume(p) \/ Script(p) \/ LetThrough(p)
  \/ LoseData \/ TickPasses

RateSpec == RateInit /\ [][RateNext]_rateVars

------------------------------------------------------------------------------
(* Properties.                                                             *)

(* The values every variable ranges over.                                  *)
RateTypeOK ==
  /\ tick \in Ticks
  /\ post \in [Posts -> LimitedPost]
  /\ admitted \subseteq Posts /\ passed \subseteq Posts
  /\ expires \in 0..(MaxTick + RateWindow)

(* More requests than the limit are never admitted within one window, less *)
(* the delay by which their scripts may overtake one another, unless Redis *)
(* lost its data or could not be asked in between.                         *)
LimitHolds ==
  \A S \in SUBSET passed :
    Cardinality(S) > Limit => Max(Times(S)) - Min(Times(S)) + MaxDelay >= RateWindow
==============================================================================
