----------------------------- MODULE Idempotency -----------------------------
(***************************************************************************)
(* Idempotency reservations (lib/idempotency-store.js, the Redis store) as *)
(* applySaveAction and recordEncounter use them: reserve the key before    *)
(* the write, promote it to the result after the commit, release it when   *)
(* the write failed.                                                       *)
(*                                                                         *)
(* Every Redis command is a step. A command may fail, with or without      *)
(* having taken effect, and the code then goes on without it. A handler    *)
(* whose process dies takes no further step: nothing below asks a handler  *)
(* to move. A write takes any time, longer than the window too.            *)
(* Time is what is left of a window, so no clock has to be bounded; the    *)
(* write itself is atomic here, which is what SaveState shows.             *)
(***************************************************************************)
EXTENDS Naturals

CONSTANTS Requests,   \* write requests, each handled once
          Viewers,    \* the identities they come from
          ClientKeys, \* the idempotency keys clients send
          Window,     \* IDEMPOTENCY_WINDOW_SECONDS, in ticks
          Pending,    \* the value 'PENDING'
          Absent,     \* no such key in Redis
          Forever     \* a key without a time to live

ASSUME WindowAssumption ==
  /\ Window \in Nat \ {0}
  /\ Pending \notin Requests
  /\ Forever \notin Nat

VARIABLES
  store,          \* Redis: the value and time to live of each reservation
  viewer, key,    \* whose request it is, and the key it carries
  req             \* where each handler stands

reservationVars == <<store, viewer, key, req>>

(* A result is the request that produced it: it is all a replay can tell.  *)
Entry == [value : Requests \cup {Pending}, ttl : (1..Window) \cup {Forever}]
Keys == Viewers \X ClientKeys

ASSUME StoreAssumption == Absent \notin Entry

(* left: what is left of the window the handler's reservation was given;   *)
(* owns: SET NX said OK; late: it touched Redis after its window; from:    *)
(* the request whose result it answered with.                              *)
Handler == [pc : {"idle", "held", "writing", "committed", "failing", "done",
                  "replayed", "conflict", "failed"},
            left : 0..Window, owns : BOOLEAN, late : BOOLEAN,
            from : Requests]

ReservationInit ==
  /\ store = [k \in Keys |-> Absent]
  /\ viewer \in [Requests -> Viewers]
  /\ key \in [Requests -> ClientKeys]
  /\ req = [r \in Requests |->
              [pc |-> "idle", left |-> 0, owns |-> FALSE, late |-> FALSE, from |-> r]]

------------------------------------------------------------------------------
(* The key is the viewer's; broken: a key any viewer shares.               *)
SharedKey(r) == <<CHOOSE v \in Viewers : TRUE, key[r]>>
ReservationKey(r) == <<viewer[r], key[r]>>

(* SET NX EX; broken: without EX.                                          *)
PendingForGood == [value |-> Pending, ttl |-> Forever]
FreshPending == [value |-> Pending, ttl |-> Window]

HasResult(entry) == entry # Absent /\ entry.value # Pending

Proceed(r, label) == req' = [req EXCEPT ![r].pc = label]

(* reserve, when SET NX wins: the request must complete or release.        *)
Reserve(r) ==
  LET k == ReservationKey(r)
  IN  /\ req[r].pc = "idle"
      /\ store[k] = Absent
      /\ store' = [store EXCEPT ![k] = FreshPending]
      /\ req' = [req EXCEPT ![r].pc = "writing", ![r].owns = TRUE,
                            ![r].left = Window]
      /\ UNCHANGED <<viewer, key>>

(* SET NX loses; the GET that tells why is a second command.               *)
LoseReserve(r) ==
  /\ req[r].pc = "idle"
  /\ store[ReservationKey(r)] # Absent
  /\ Proceed(r, "held")
  /\ UNCHANGED <<store, viewer, key>>

(* GET finds a result: replay it.                                          *)
Replay(r) ==
  LET held == store[ReservationKey(r)]
  IN  /\ req[r].pc = "held"
      /\ HasResult(held)
      /\ req' = [req EXCEPT ![r].pc = "replayed", ![r].from = held.value]
      /\ UNCHANGED <<store, viewer, key>>

(* GET finds PENDING, or nothing any more: 409, and the reservation is not *)
(* this request's to touch; broken: it is released on the way out.         *)
ConflictAndRelease(r) ==
  LET k == ReservationKey(r)
  IN  /\ req[r].pc = "held"
      /\ ~HasResult(store[k])
      /\ store' = [store EXCEPT ![k] = Absent]
      /\ Proceed(r, "conflict")
      /\ UNCHANGED <<viewer, key>>

Conflict(r) ==
  /\ req[r].pc = "held"
  /\ ~HasResult(store[ReservationKey(r)])
  /\ Proceed(r, "conflict")
  /\ UNCHANGED <<store, viewer, key>>

(* Redis is unavailable, or its reply is lost: the write proceeds          *)
(* unreserved.                                                             *)
FailOpen(r) ==
  LET k == ReservationKey(r)
  IN  /\ req[r].pc \in {"idle", "held"}
      /\ Proceed(r, "writing")
      /\ \/ UNCHANGED store
         \/ /\ req[r].pc = "idle" /\ store[k] = Absent
            /\ store' = [store EXCEPT ![k] = FreshPending]
      /\ UNCHANGED <<viewer, key>>

(* The transaction commits, or it throws.                                  *)
CommitWrite(r) ==
  /\ req[r].pc = "writing"
  /\ Proceed(r, "committed")
  /\ UNCHANGED <<store, viewer, key>>

Throw(r) ==
  /\ req[r].pc = "writing"
  /\ Proceed(r, "failing")
  /\ UNCHANGED <<store, viewer, key>>

(* The handler had a window and has outlived it.                           *)
Late(r) == req[r].late \/ (req[r].owns /\ req[r].left = 0)

(* complete: SET KEEPTTL. A key that is not there (Redis failed at reserve *)
(* and the write went on without it, or it was released or has expired) is *)
(* set without a time to live. A failure is logged, and the request is     *)
(* answered all the same.                                                  *)
Kept(entry, r) ==
  [value |-> r, ttl |-> IF entry = Absent THEN Forever ELSE entry.ttl]

Complete(r) ==
  LET k == ReservationKey(r)
  IN  /\ req[r].pc = "committed"
      /\ \/ UNCHANGED store
         \/ store' = [store EXCEPT ![k] = Kept(store[k], r)]
      /\ req' = [req EXCEPT ![r].pc = "done", ![r].late = Late(r)]
      /\ UNCHANGED <<viewer, key>>

(* release: DEL. A failure is logged.                                      *)
Release(r) ==
  LET k == ReservationKey(r)
  IN  /\ req[r].pc = "failing"
      /\ \/ UNCHANGED store
         \/ store' = [store EXCEPT ![k] = Absent]
      /\ req' = [req EXCEPT ![r].pc = "failed", ![r].late = Late(r)]
      /\ UNCHANGED <<viewer, key>>

(* One unit of time: an entry is gone when its window is over; broken: it  *)
(* lives one unit longer.                                                  *)
Outlasting(entry) ==
  IF entry = Absent THEN Absent
  ELSE IF entry.ttl = Forever THEN entry
  ELSE IF entry.ttl = 0 THEN Absent ELSE [entry EXCEPT !.ttl = @ - 1]

Aged(entry) ==
  IF entry = Absent THEN Absent
  ELSE IF entry.ttl = Forever THEN entry
  ELSE IF entry.ttl = 1 THEN Absent ELSE [entry EXCEPT !.ttl = @ - 1]

WindowPasses ==
  /\ store' = [k \in Keys |-> Aged(store[k])]
  /\ req' = [r \in Requests |->
               [req[r] EXCEPT !.left = IF @ = 0 THEN 0 ELSE @ - 1]]
  /\ UNCHANGED <<viewer, key>>

Step(r) ==
  \/ Reserve(r) \/ LoseReserve(r) \/ Replay(r) \/ Conflict(r) \/ FailOpen(r)
  \/ CommitWrite(r) \/ Throw(r) \/ Complete(r) \/ Release(r)

ReservationNext == WindowPasses \/ \E r \in Requests : Step(r)

ReservationSpec == ReservationInit /\ [][ReservationNext]_reservationVars

(* Time passes. Nothing is asked of Redis, or of any handler.              *)
ReservationFairSpec == ReservationSpec /\ WF_reservationVars(WindowPasses)

------------------------------------------------------------------------------
(* Properties.                                                             *)

(* The values every variable ranges over.                                  *)
ReservationTypeOK ==
  /\ store \in [Keys -> Entry \cup {Absent}]
  /\ viewer \in [Requests -> Viewers]
  /\ key \in [Requests -> ClientKeys]
  /\ req \in [Requests -> Handler]

(* A handler that went on without a reservation, or used Redis after its   *)
(* window.                                                                 *)
Stray(r) ==
  \/ req[r].late
  \/ /\ ~req[r].owns
     /\ req[r].pc \in {"writing", "committed", "failing", "done", "failed"}

(* r reserved its key, has not failed, and its window is not over.         *)
Admitted(r) ==
  req[r].owns /\ req[r].left > 0 /\ req[r].pc \notin {"failing", "failed"}

(* SDD 5.2: of the duplicates of a request at most one is admitted to      *)
(* write in a window, through deaths and lost replies, as long as no       *)
(* handler of that key wrote unreserved or outlived its window.            *)
OnceAWindow ==
  \A k \in Keys :
    LET mine == {r \in Requests : ReservationKey(r) = k}
    IN  (\A r \in mine : ~Stray(r)) =>
           \A r, q \in mine : Admitted(r) /\ Admitted(q) => r = q

(* One viewer's key never replays another's result, nor the result of a    *)
(* write that did not commit, whatever else goes wrong.                    *)
ReplaysOwnResult ==
  \A r \in Requests :
    req[r].pc = "replayed" =>
      /\ viewer[req[r].from] = viewer[r] /\ key[req[r].from] = key[r]
      /\ req[req[r].from].pc = "done"

(* A reservation whose handler died does not suppress a retry for good.    *)
PendingEnds ==
  \A k \in Keys :
    []<>(store[k] = Absent \/ HasResult(store[k]))

(* complete: a completed reservation lasts only the rest of the window.    *)
CompletedExpires ==
  \A k \in Keys :
    HasResult(store[k]) => store[k].ttl # Forever
==============================================================================
