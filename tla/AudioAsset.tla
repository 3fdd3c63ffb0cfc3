------------------------------ MODULE AudioAsset ------------------------------
(***************************************************************************)
(* Producing audio clips: audio-asset.service.js over audio_assets and the *)
(* content-addressed files of audio-storage.js, as the generate and        *)
(* regenerate scripts drive it, several of them at once, each of which may *)
(* fail at any statement or be killed.                                     *)
(***************************************************************************)
EXTENDS Naturals, FiniteSets

CONSTANTS WordClips,    \* whole-word assets
          PhonemeClips, \* phoneme assets, the only ones that are regenerated
          Generators,   \* runs of generate-word-audio, generate-phoneme-audio
          Regenerators, \* runs of regenerate-phoneme-audio
          Payloads,     \* what Piper may produce
          NoFile        \* storage_key IS NULL

(* An asset is of a word or of a phoneme, and a run is of one script.      *)
ASSUME AudioAssumption ==
  /\ WordClips \cap PhonemeClips = {} /\ WordClips \cup PhonemeClips # {}
  /\ Generators \cap Regenerators = {} /\ NoFile \notin Payloads

VARIABLES
  assets,    \* audio_assets: generation_status and storage_key
  disk,      \* the file under each content-addressed name
  producer,  \* where each script stands
  attached   \* words whose pronunciation points at its clip

audioVars == <<assets, disk, producer, attached>>

Clips == WordClips \cup PhonemeClips
Producers == Generators \cup Regenerators
Asset == [status : {"absent", "pending", "claimed", "ready", "failed"},
          file : Payloads \cup {NoFile}]
AtRest0 == [pc |-> "idle", clip |-> CHOOSE c \in Clips : TRUE, bytes |-> NoFile]

AudioInit ==
  /\ assets = [c \in Clips |-> [status |-> "absent", file |-> NoFile]]
  /\ disk = [p \in Payloads |-> "absent"]
  /\ producer = [w \in Producers |-> AtRest0]
  /\ attached = {}

------------------------------------------------------------------------------
Rest(w) == producer' = [producer EXCEPT ![w] = AtRest0]
ProducerGo(w, label) == producer' = [producer EXCEPT ![w].pc = label]

(* registerAsset, upsertPending: an existing row keeps its status and file.*)
RegisterAsset(w, c) ==
  /\ producer[w].pc = "idle" /\ w \in Generators
  /\ producer' = [producer EXCEPT ![w] = [AtRest0 EXCEPT !.pc = "find", !.clip = c]]
  /\ assets' = IF assets[c].status = "absent"
               THEN [assets EXCEPT ![c].status = "pending"] ELSE assets
  /\ UNCHANGED <<disk, attached>>

(* The regeneration synthesises first ...                                  *)
Synthesise(w, c, p) ==
  /\ producer[w].pc = "idle" /\ w \in Regenerators
  /\ producer' = [producer EXCEPT ![w] = [pc |-> "invalidate", clip |-> c, bytes |-> p]]
  /\ UNCHANGED <<assets, disk, attached>>

(* ... and then resets the row, whatever its status is.                    *)
ResetForRegeneration(w) ==
  LET c == producer[w].clip
  IN  /\ producer[w].pc = "invalidate"
      /\ IF assets[c].status = "absent"
         THEN Rest(w) /\ UNCHANGED assets
         ELSE /\ assets' = [assets EXCEPT ![c] = [status |-> "pending", file |-> NoFile]]
              /\ ProducerGo(w, "find")
      /\ UNCHANGED <<disk, attached>>

(* produceAsset. A word goes on to be attached, unless this attempt failed.*)
After(w) == IF producer[w].clip \in WordClips THEN ProducerGo(w, "check") ELSE Rest(w)

FindAsset(w) ==
  /\ producer[w].pc = "find"
  /\ IF assets[producer[w].clip].status = "ready" THEN After(w) ELSE ProducerGo(w, "claim")
  /\ UNCHANGED <<assets, disk, attached>>

(* claimForGeneration; broken: a status read before is trusted.            *)
ClaimAny(c) == assets[c].status # "absent"
MayClaim(c) == assets[c].status \in {"pending", "failed"}

ClaimAsset(w) ==
  LET c == producer[w].clip
  IN  /\ producer[w].pc = "claim"
      /\ IF MayClaim(c)
         THEN assets' = [assets EXCEPT ![c].status = "claimed"] /\ ProducerGo(w, "produce")
         ELSE After(w) /\ UNCHANGED assets
      /\ UNCHANGED <<disk, attached>>

(* produce() and the stat of store: an existing file is the same file.     *)
Produce(w, p) ==
  /\ producer[w].pc = "produce"
  /\ w \in Regenerators => p = producer[w].bytes
  /\ producer' = [producer EXCEPT ![w].bytes = p,
                    ![w].pc = IF disk[p] = "absent" THEN "write" ELSE "mark"]
  /\ UNCHANGED <<assets, disk, attached>>

(* The bytes go to a temporary name; broken: to the name itself.           *)
InPlace(p) == [disk EXCEPT ![p] = "partial"]
Temporary(p) == disk

WriteFile(w) ==
  /\ producer[w].pc = "write"
  /\ disk' = Temporary(producer[w].bytes)
  /\ ProducerGo(w, "rename")
  /\ UNCHANGED <<assets, attached>>

RenameFile(w) ==
  /\ producer[w].pc = "rename"
  /\ disk' = [disk EXCEPT ![producer[w].bytes] = "whole"]
  /\ ProducerGo(w, "mark")
  /\ UNCHANGED <<assets, attached>>

(* markReady and markFailed do not look at the status they replace; one    *)
(* file belongs to one row, by a unique key. The reply to markReady may be *)
(* lost: the row is ready, and the catch still marks it failed.            *)
MarkReady(w) ==
  /\ producer[w].pc = "mark"
  /\ \A c \in Clips \ {producer[w].clip} : assets[c].file # producer[w].bytes
  /\ assets' = [assets EXCEPT ![producer[w].clip] =
                  [status |-> "ready", file |-> producer[w].bytes]]
  /\ After(w) \/ ProducerGo(w, "unsure")
  /\ UNCHANGED <<disk, attached>>

MarkFailed(w) ==
  /\ producer[w].pc \in {"produce", "write", "rename", "mark", "unsure"}
  /\ assets' = [assets EXCEPT ![producer[w].clip].status = "failed"]
  /\ Rest(w)
  /\ UNCHANGED <<disk, attached>>

(* generate-word-audio: the pronunciation is linked only to a ready clip;  *)
(* broken: to whatever row there is.                                       *)
AnyRow(c) == assets[c].status # "absent"
MayAttach(c) == assets[c].status = "ready"

CheckReady(w) ==
  /\ producer[w].pc = "check"
  /\ IF MayAttach(producer[w].clip) THEN ProducerGo(w, "attach") ELSE Rest(w)
  /\ UNCHANGED <<assets, disk, attached>>

AttachWholeWordAudio(w) ==
  /\ producer[w].pc = "attach"
  /\ attached' = attached \cup {producer[w].clip}
  /\ Rest(w)
  /\ UNCHANGED <<assets, disk>>

(* A statement outside the try fails, markFailed included, or the script   *)
(* is killed. A row it had claimed stays claimed.                          *)
Die(w) ==
  /\ producer[w].pc # "idle"
  /\ Rest(w)
  /\ UNCHANGED <<assets, disk, attached>>

ProduceAsset(w) ==
  \/ \E p \in Payloads : Produce(w, p)
  \/ FindAsset(w) \/ ClaimAsset(w) \/ WriteFile(w) \/ RenameFile(w)
  \/ MarkReady(w) \/ MarkFailed(w)

(* The three scripts, around produceAsset.                                 *)
GenerateWordAudio(w) ==
  \/ \E c \in WordClips : RegisterAsset(w, c)
  \/ CheckReady(w) \/ AttachWholeWordAudio(w)

GeneratePhonemeAudio(w) == \E c \in PhonemeClips : RegisterAsset(w, c)

RegeneratePhonemeAudio(w) ==
  \/ \E c \in PhonemeClips, p \in Payloads : Synthesise(w, c, p)
  \/ ResetForRegeneration(w)

ProducerStep(w) ==
  \/ GenerateWordAudio(w) \/ GeneratePhonemeAudio(w) \/ RegeneratePhonemeAudio(w)
  \/ ProduceAsset(w) \/ Die(w)

AudioNext == \E w \in Producers : ProducerStep(w)

AudioSpec == AudioInit /\ [][AudioNext]_audioVars

------------------------------------------------------------------------------
(* Properties.                                                             *)

(* The values every variable ranges over.                                  *)
AudioTypeOK ==
  /\ assets \in [Clips -> Asset]
  /\ disk \in [Payloads -> {"absent", "partial", "whole"}]
  /\ \A w \in Producers : /\ producer[w].clip \in Clips
                          /\ producer[w].bytes \in Payloads \cup {NoFile}
  /\ attached \subseteq WordClips

(* verify, of a ready asset: its file is there, and is the one recorded.   *)
Verifies(c) == assets[c].file # NoFile /\ disk[assets[c].file] = "whole"

(* The nightly integrity check finds nothing, whichever scripts ran at once*)
(* on one clip, wherever they were killed and whichever reply was lost: a  *)
(* ready row has its file. And what a word is linked to keeps a recording, *)
(* even when a script that lost the reply has marked the clip failed and   *)
(* another is making it again. (The row of a linked clip is not ready then,*)
(* so its button is gone, and only a run that had listed the word before it*)
(* was linked still makes it again.)                                       *)
ClipsPlay ==
  /\ \A c \in Clips : assets[c].status = "ready" => Verifies(c)
  /\ \A c \in attached : Verifies(c)

(* A produced clip of a word is immutable, however many scripts work through*)
(* the same list: its row changes only when the script that made it has    *)
(* lost the reply to markReady, and never under another's claim.           *)
ReadyStands ==
  [][\A c \in WordClips : assets[c].status = "ready" /\ assets'[c] # assets[c] =>
       \E w \in Producers : producer[w].pc = "unsure" /\ producer[w].clip = c]_audioVars
==============================================================================
