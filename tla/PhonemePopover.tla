---------------------------- MODULE PhonemePopover ----------------------------
(***************************************************************************)
(* The popover of a page's phonemes (phoneme-popover.js), the one player it*)
(* has, and the listens it reports (trackMedia of playback.js, sendListen  *)
(* of viewer-state.js). The player is the browser's; what it does comes to *)
(* the script as queued events, behind which the learner goes on pressing. *)
(***************************************************************************)
EXTENDS Integers, Sequences

CONSTANTS
  Phonemes,
  Voiced,       \* the phonemes that have a clip
  Nobody,       \* the popover is closed; the player has no clip
  MaxPresses    \* bound

ASSUME PopoverAssumption ==
  Voiced \subseteq Phonemes /\ Nobody \notin Phonemes /\ MaxPresses \in Nat

VARIABLES
  openFor,
  player,       \* its clip, whether it has data, is paused, is under way
  events,       \* queued media events
  armed,        \* a start from the beginning was requested and not reported
  hydration,    \* "open", then "failed", "passive" or "recording"
  pending,      \* listens that wait for the hydration
  sent,         \* listens sent, by phoneme
  asked,        \* starts that were asked for, by phoneme
  heard,        \* those that could be heard
  presses

popVars == <<openFor, player, events, armed, hydration, pending, sent, asked, heard, presses>>
mediaVars == <<player, events, asked, heard>>

None == [p \in Phonemes |-> 0]

PopoverInit ==
  /\ openFor = Nobody
  /\ player = [clip |-> Nobody, data |-> "none", paused |-> TRUE, under |-> FALSE]
  /\ events = <<>> /\ armed = FALSE
  /\ hydration = "open" /\ pending = None /\ sent = None
  /\ asked = None /\ heard = None /\ presses = 0

------------------------------------------------------------------------------
(* play: another source is loaded, which drops what is queued; a restart is*)
(* a pause, a seek and a play. A clip that failed to load is not retried.  *)
Play(p) ==
  LET fresh == player.clip # p
      data == IF fresh THEN "loading" ELSE player.data
      queue == IF fresh THEN <<>> ELSE events
      stopped == IF fresh \/ player.paused THEN <<>> ELSE <<"timeupdate">>
      starts == data = "ready"
  IN  IF p \notin Voiced \/ data = "failed" THEN UNCHANGED mediaVars
      ELSE /\ player' = [clip |-> p, data |-> data, paused |-> FALSE, under |-> FALSE]
           /\ events' \in {queue \o stopped \o <<"play">> \o tail :
                             tail \in IF starts THEN {<<"playing">>, <<>>} ELSE {<<>>}}
           /\ asked' = [asked EXCEPT ![p] = @ + 1]
           /\ heard' = IF starts THEN [heard EXCEPT ![p] = @ + 1] ELSE heard

Presses ==
  /\ presses < MaxPresses /\ presses' = presses + 1
  /\ UNCHANGED <<armed, hydration, pending, sent>>

(* onDocumentClick on a phoneme: the open one closes.                      *)
Press(p) ==
  /\ Presses
  /\ IF openFor = p
     THEN openFor' = Nobody /\ UNCHANGED mediaVars
     ELSE openFor' = p /\ Play(p)

(* A click elsewhere, Escape, a resize: the player goes on.                *)
Dismiss ==
  /\ Presses /\ openFor # Nobody
  /\ openFor' = Nobody /\ UNCHANGED mediaVars

Replay ==
  /\ Presses /\ openFor \in Voiced
  /\ Play(openFor) /\ UNCHANGED openFor

------------------------------------------------------------------------------
(* The player: the first data, or none; then the clip, to its end. Not     *)
(* every browser tells of a start (WebKit).                                *)
Load ==
  /\ player.data = "loading"
  /\ \E data \in {"canplay", "error"} :
       /\ player' = [player EXCEPT !.data = "arriving"]
       /\ events' = Append(events, data)
  /\ UNCHANGED <<openFor, armed, hydration, pending, sent, asked, heard, presses>>

Advance ==
  /\ player.data = "ready" /\ ~player.paused /\ ~player.under
  /\ player' = [player EXCEPT !.under = TRUE]
  /\ events' = Append(events, "timeupdate")
  /\ UNCHANGED <<openFor, armed, hydration, pending, sent, asked, heard, presses>>

Finish ==
  /\ player.under /\ ~player.paused
  /\ player' = [player EXCEPT !.paused = TRUE]
  /\ UNCHANGED <<openFor, events, armed, hydration, pending, sent, asked, heard, presses>>

(* sendListen, for the phoneme that is open now.                           *)
Counted(count, when) ==
  IF openFor # Nobody /\ hydration = when
  THEN [count EXCEPT ![openFor] = @ + 1] ELSE count

SendListen ==
  /\ pending' = Counted(pending, "open")
  /\ sent' = Counted(sent, "recording")

(* broken: every sign of a start is reported.                              *)
ReportAgain ==
  \/ armed /\ SendListen /\ UNCHANGED armed
  \/ ~armed /\ UNCHANGED <<armed, pending, sent>>

Report ==
  \/ armed /\ SendListen /\ armed' = FALSE
  \/ ~armed /\ UNCHANGED <<armed, pending, sent>>

(* The next queued event and its listener. The time of a clip that is not  *)
(* under way is below 0.05 s, and may be above zero.                       *)
Deliver ==
  /\ events # <<>>
  /\ UNCHANGED <<openFor, hydration, presses, asked>>
  /\ LET rest == Tail(events)
     IN  CASE Head(events) = "play" ->
                /\ armed' = ~player.under
                /\ events' = rest /\ UNCHANGED <<player, heard, pending, sent>>
           [] Head(events) = "playing" ->
                /\ Report
                /\ events' = rest /\ UNCHANGED <<player, heard>>
           [] Head(events) = "timeupdate" ->
                /\ \/ player.data = "ready" /\ ~player.paused /\ Report
                   \/ ~(player.under /\ ~player.paused) /\ UNCHANGED <<armed, pending, sent>>
                /\ events' = rest /\ UNCHANGED <<player, heard>>
           [] Head(events) = "canplay" ->
                /\ player' = [player EXCEPT !.data = "ready"]
                /\ events' \in {rest, Append(rest, "playing")}
                /\ heard' = [heard EXCEPT ![player.clip] = @ + 1]
                /\ UNCHANGED <<armed, pending, sent>>
           [] Head(events) = "error" ->
                /\ player' = [player EXCEPT !.data = "failed", !.paused = TRUE]
                /\ armed' = FALSE
                /\ events' = rest /\ UNCHANGED <<heard, pending, sent>>

(* loadViewerState: the listens that waited are sent, or dropped.          *)
Hydrate ==
  /\ hydration = "open"
  /\ hydration' \in {"failed", "passive", "recording"}
  /\ sent' = IF hydration' = "recording" THEN pending ELSE sent
  /\ pending' = None
  /\ UNCHANGED <<openFor, player, events, armed, asked, heard, presses>>

(* sendSaveAction from the popover's control, there once hydrated: from    *)
(* then on this viewer's history is recorded.                              *)
SaveHere ==
  /\ hydration = "passive" /\ openFor # Nobody
  /\ hydration' = "recording"
  /\ UNCHANGED <<openFor, player, events, armed, pending, sent, asked, heard, presses>>

PopoverNext ==
  \/ \E p \in Phonemes : Press(p)
  \/ Dismiss \/ Replay \/ Load \/ Advance \/ Finish \/ Deliver \/ Hydrate \/ SaveHere

PopoverSpec == PopoverInit /\ [][PopoverNext]_popVars

------------------------------------------------------------------------------
PopoverTypeOK ==
  /\ openFor \in Phonemes \cup {Nobody}
  /\ player \in [clip : Voiced \cup {Nobody}, paused : BOOLEAN, under : BOOLEAN,
                 data : {"none", "loading", "arriving", "ready", "failed"}]
  /\ \A i \in DOMAIN events : events[i] \in {"play", "playing", "timeupdate", "canplay", "error"}
  /\ armed \in BOOLEAN
  /\ hydration \in {"open", "failed", "passive", "recording"}
  /\ pending \in [Phonemes -> 0..MaxPresses] /\ sent \in [Phonemes -> 0..MaxPresses]

(* FR-SAVE-09 (trackMedia): listens are of playback that really started, no*)
(* more of them than it was asked to, and only a viewer with a history     *)
(* sends any. Of a phoneme without a clip this cannot be said: its popover *)
(* may be open when the clip of the one before begins, and gets its listen.*)
ListensWereHeard ==
  /\ \A p \in Voiced :
       LET listens == sent[p] + pending[p]
       IN  listens <= asked[p] /\ (listens > 0 => heard[p] > 0)
  /\ hydration # "recording" => sent = None
==============================================================================
