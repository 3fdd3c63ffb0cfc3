----------------------------- MODULE ContentProofs -----------------------------
(***************************************************************************)
(* Proofs about what a reader is given and what is kept of it, for any     *)
(* number of clips, scripts, backups, phonemes, tabs and identities: a     *)
(* ready or linked clip has its file (AudioAsset), a restore test that     *)
(* passes has restored what its manifest names (Backup), a listen that is  *)
(* reported was heard (PhonemePopover), a save changes what its page shows *)
(* and progress stays with its browser (BrowserIdentity).                  *)
(***************************************************************************)
EXTENDS AudioAsset, Backup, PhonemePopover, BrowserIdentity, FiniteSetTheorems,
        SequenceTheorems, WellFoundedInduction, TLAPS

------------------------------------------------------------------------------
(* AudioAsset.                                                             *)

Producer ==
  [pc : {"idle", "find", "invalidate", "claim", "produce", "write", "rename", "mark",
         "unsure", "check", "attach"},
   clip : Clips, bytes : Payloads \cup {NoFile}]

AudioTypes ==
  /\ assets \in [Clips -> Asset]
  /\ disk \in [Payloads -> {"absent", "whole"}]
  /\ producer \in [Producers -> Producer]
  /\ attached \subseteq WordClips

(* Who may still write a clip's row: who holds the claim, and who does not *)
(* know that the row is ready. And what the row is then.                   *)
Holding == {"produce", "write", "rename", "mark", "unsure"}
Works(w) == producer[w].pc \in Holding
HeldAs(pc) == IF pc = "unsure" THEN "ready" ELSE "claimed"

Recorded(c) == assets[c].file \in Payloads /\ disk[assets[c].file] = "whole"

ProducersFit ==
  \A w \in Producers :
    /\ producer[w].pc = "invalidate" => producer[w].clip \in PhonemeClips
    /\ producer[w].pc \in {"check", "attach"} => producer[w].clip \in WordClips
    /\ producer[w].pc \in {"write", "rename", "mark"} => producer[w].bytes \in Payloads
    /\ producer[w].pc = "mark" => disk[producer[w].bytes] = "whole"
    /\ producer[w].pc = "attach" => Recorded(producer[w].clip)

(* The clip of a word is worked on under its claim, by one script at most. *)
WorkIsClaimed ==
  \A w \in Producers :
    Works(w) /\ producer[w].clip \in WordClips =>
      assets[producer[w].clip].status = HeldAs(producer[w].pc)
OneWorks ==
  \A w, v \in Producers :
    Works(w) /\ Works(v) /\ producer[w].clip \in WordClips /\ producer[v].clip = producer[w].clip
      => w = v

AudioInv == AudioTypes /\ ProducersFit /\ WorkIsClaimed /\ OneWorks /\ ClipsPlay

(* A step of one script, by what it does to the clip it has in hand.       *)
LEMMA AudioKeeps ==
  ASSUME AudioInv, NEW w \in Producers, NEW q \in Producer,
         producer' = [producer EXCEPT ![w] = q],
         assets' \in [Clips -> Asset], disk' \in [Payloads -> {"absent", "whole"}],
         attached' \subseteq WordClips,
         \A p \in Payloads : disk[p] = "whole" => disk'[p] = "whole",
         q.pc = "invalidate" => q.clip \in PhonemeClips,
         q.pc \in {"check", "attach"} => q.clip \in WordClips,
         q.pc \in {"write", "rename", "mark"} => q.bytes \in Payloads,
         q.pc = "mark" => disk'[q.bytes] = "whole",
         q.pc = "attach" => Recorded(q.clip)',
         \A c \in WordClips :
           \/ assets'[c].status = assets[c].status
           \/ assets[c].status \notin {"claimed", "ready"}
           \/ Works(w) /\ producer[w].clip = c,
         q.pc \in Holding /\ q.clip \in WordClips =>
           /\ assets'[q.clip].status = HeldAs(q.pc)
           /\ assets[q.clip].status \notin {"claimed", "ready"} \/ (Works(w) /\ producer[w].clip = q.clip),
         \A c \in Clips : assets'[c].status = "ready" => assets'[c] = assets[c] \/ Recorded(c)',
         \A c \in WordClips : assets'[c].file = assets[c].file \/ Recorded(c)',
         \A c \in attached' : c \in attached \/ Recorded(c)'
  PROVE  AudioInv'
<1>1. AudioTypes /\ \A v \in Producers : producer[v] \in Producer
  BY DEF AudioInv, AudioTypes
<1>2. /\ producer' \in [Producers -> Producer] /\ producer'[w] = q
      /\ \A v \in Producers \ {w} : producer'[v] = producer[v]
  BY <1>1 DEF AudioTypes
<1>3. \A c \in WordClips : c \in Clips
  BY DEF Clips
<1>4. \A c \in WordClips : Recorded(c) => Recorded(c)'
  BY DEF Recorded
<1>5. AudioTypes'
  BY <1>2 DEF AudioTypes
<1>6. ProducersFit'
  <2> SUFFICES ASSUME NEW v \in Producers
               PROVE  /\ producer'[v].pc = "invalidate" => producer'[v].clip \in PhonemeClips
                      /\ producer'[v].pc \in {"check", "attach"} => producer'[v].clip \in WordClips
                      /\ producer'[v].pc \in {"write", "rename", "mark"} =>
                           producer'[v].bytes \in Payloads
                      /\ producer'[v].pc = "mark" => disk'[producer'[v].bytes] = "whole"
                      /\ producer'[v].pc = "attach" => Recorded(producer[v].clip)'
    BY DEF ProducersFit, Recorded
  <2>1. CASE v = w
    BY <1>2, <2>1 DEF Recorded
  <2>2. CASE v # w
    <3>1. producer'[v] = producer[v]
      BY <1>2, <2>2
    <3>2. producer[v].pc = "attach" => Recorded(producer[v].clip)
      BY DEF AudioInv, ProducersFit
    <3>3. producer[v].pc = "attach" =>
            /\ assets'[producer[v].clip].file \in Payloads
            /\ disk'[assets'[producer[v].clip].file] = "whole"
      BY <1>4, <3>2 DEF Recorded, AudioInv, ProducersFit
    <3>4. producer'[v].pc = "attach" => Recorded(producer[v].clip)'
      BY <3>1, <3>3 DEF Recorded
    <3>5. QED
      BY <3>1, <3>4 DEF AudioInv, ProducersFit
  <2>3. QED
    BY <2>1, <2>2
<1>7. ASSUME NEW v \in Producers, v # w, Works(v), producer[v].clip \in WordClips
      PROVE  /\ assets'[producer[v].clip].status = HeldAs(producer[v].pc)
             /\ assets[producer[v].clip].status \in {"claimed", "ready"}
  <2>1. /\ assets[producer[v].clip].status = HeldAs(producer[v].pc)
        /\ assets[producer[v].clip].status \in {"claimed", "ready"}
    BY <1>7 DEF AudioInv, WorkIsClaimed, HeldAs
  <2>2. ~(Works(w) /\ producer[w].clip = producer[v].clip)
    BY <1>7 DEF AudioInv, OneWorks
  <2>3. QED
    BY <1>7, <2>1, <2>2
<1>8. WorkIsClaimed'
  <2> SUFFICES ASSUME NEW v \in Producers, Works(v)', producer'[v].clip \in WordClips
               PROVE  assets'[producer'[v].clip].status = HeldAs(producer'[v].pc)
    BY DEF WorkIsClaimed, HeldAs
  <2>1. QED
    BY <1>2, <1>7 DEF Works
<1>9. OneWorks'
  <2> SUFFICES ASSUME NEW u \in Producers, NEW v \in Producers, Works(u)', Works(v)',
                      producer'[u].clip \in WordClips, producer'[v].clip = producer'[u].clip
               PROVE  u = v
    BY DEF OneWorks
  <2>1. CASE u # w /\ v # w
    BY <1>2, <2>1 DEF Works, AudioInv, OneWorks
  <2>2. ASSUME NEW x \in Producers, x # w, Works(x)', producer'[x].clip = q.clip,
               q.clip \in WordClips, Works(w)'
        PROVE  FALSE
    <3>1. Works(x) /\ producer[x].clip = q.clip
      BY <1>2, <2>2 DEF Works
    <3>2. assets[q.clip].status \in {"claimed", "ready"}
      BY <1>7, <2>2, <3>1
    <3>3. Works(w) /\ producer[w].clip = q.clip
      BY <1>2, <2>2, <3>2 DEF Works
    <3>4. QED
      BY <2>2, <3>1, <3>3 DEF AudioInv, OneWorks
  <2>3. QED
    BY <1>2, <2>1, <2>2
<1>10. ClipsPlay'
  <2>1. ASSUME NEW c \in Clips, assets'[c].status = "ready"
        PROVE  assets'[c].file # NoFile /\ disk'[assets'[c].file] = "whole"
    <3>1. CASE Recorded(c)'
      BY <3>1, AudioAssumption DEF Recorded
    <3>2. CASE assets'[c] = assets[c]
      BY <1>1, <2>1, <3>2 DEF AudioInv, ClipsPlay, Verifies, AudioTypes, Asset
    <3>3. QED
      BY <2>1, <3>1, <3>2
  <2>2. ASSUME NEW c \in attached'
        PROVE  assets'[c].file # NoFile /\ disk'[assets'[c].file] = "whole"
    <3>1. c \in attached => Recorded(c)
      BY <1>1, <1>3 DEF AudioInv, ClipsPlay, AudioTypes, Asset, Verifies, Recorded
    <3>2. Recorded(c)'
      BY <1>4, <2>2, <3>1
    <3>3. QED
      BY <3>2, AudioAssumption DEF Recorded
  <2>3. QED
    BY <2>1, <2>2 DEF ClipsPlay, Verifies
<1>11. QED
  BY <1>5, <1>6, <1>8, <1>9, <1>10 DEF AudioInv


LEMMA Goes ==
  ASSUME AudioInv, NEW w \in Producers, NEW label, ProducerGo(w, label),
         label \in {"idle", "find", "invalidate", "claim", "produce", "write", "rename", "mark",
                    "unsure", "check", "attach"}
  PROVE  \E q \in Producer :
           /\ producer' = [producer EXCEPT ![w] = q]
           /\ q.pc = label /\ q.clip = producer[w].clip /\ q.bytes = producer[w].bytes
<1> DEFINE q == [producer[w] EXCEPT !.pc = label]
<1>1. producer[w] \in Producer
  BY DEF AudioInv, AudioTypes
<1>2. q \in Producer /\ q.pc = label /\ q.clip = producer[w].clip /\ q.bytes = producer[w].bytes
  BY <1>1 DEF Producer
<1>3. producer' = [producer EXCEPT ![w] = q]
  BY DEF ProducerGo
<1> HIDE DEF q
<1>4. QED
  BY <1>2, <1>3

LEMMA AtRestFits ==
  AtRest0 \in Producer /\ AtRest0.pc = "idle"
<1>1. (CHOOSE c \in Clips : TRUE) \in Clips
  BY AudioAssumption DEF Clips
<1>2. QED
  BY <1>1 DEF AtRest0, Producer

(* A step that changes nothing but where its script stands.                *)
LEMMA QuietKeeps ==
  ASSUME AudioInv, NEW w \in Producers, NEW q \in Producer,
         producer' = [producer EXCEPT ![w] = q], UNCHANGED <<assets, disk, attached>>,
         q.pc = "invalidate" => q.clip \in PhonemeClips,
         q.pc \in {"check", "attach"} => q.clip \in WordClips,
         q.pc \in {"write", "rename", "mark"} => q.bytes \in Payloads,
         q.pc = "mark" => disk[q.bytes] = "whole",
         q.pc = "attach" => Recorded(q.clip),
         q.pc \in Holding => /\ Works(w) /\ producer[w].clip = q.clip
                             /\ HeldAs(q.pc) = HeldAs(producer[w].pc)
  PROVE  AudioInv'
<1>1. /\ assets' \in [Clips -> Asset] /\ disk' \in [Payloads -> {"absent", "whole"}]
      /\ attached' \subseteq WordClips
  BY DEF AudioInv, AudioTypes
<1>2. Works(w) /\ producer[w].clip \in WordClips =>
        assets[producer[w].clip].status = HeldAs(producer[w].pc)
  BY DEF AudioInv, WorkIsClaimed
<1>3. q.pc = "attach" => Recorded(q.clip)'
  BY DEF Recorded
<1>4. QED
  BY <1>1, <1>2, <1>3, AudioKeeps

LEMMA RestKeeps ==
  ASSUME AudioInv, NEW w \in Producers, Rest(w), UNCHANGED <<assets, disk, attached>>
  PROVE  AudioInv'
BY AtRestFits, QuietKeeps DEF Rest, Holding

(* A producer that has done with its clip, but for the word it belongs to. *)
LEMMA AfterFits ==
  ASSUME AudioInv, NEW w \in Producers, After(w)
  PROVE  \E q \in Producer :
           /\ producer' = [producer EXCEPT ![w] = q] /\ q.pc \in {"idle", "check"}
           /\ q.pc = "check" => q.clip \in WordClips
<1>1. CASE producer[w].clip \in WordClips
  <2>1. ProducerGo(w, "check")
    BY <1>1 DEF After
  <2>2. QED
    BY <1>1, <2>1, Goes
<1>2. CASE producer[w].clip \notin WordClips
  BY <1>2, AtRestFits DEF After, Rest
<1>3. QED
  BY <1>1, <1>2

(* A step that gives the clip in hand another row, and its script a place  *)
(* where it does not work, or does not know that the row is ready.         *)
LEMMA RowKeeps ==
  ASSUME AudioInv, NEW w \in Producers, NEW q \in Producer,
         producer' = [producer EXCEPT ![w] = q], UNCHANGED <<disk, attached>>,
         q.pc \in {"idle", "find", "check", "unsure"}, q.pc = "check" => q.clip \in WordClips,
         NEW c \in Clips, NEW row \in Asset, assets' = [assets EXCEPT ![c] = row],
         row.status = "ready" => row.file \in Payloads /\ disk[row.file] = "whole",
         c \in WordClips => row.file = assets[c].file \/ row.status = "ready",
         q.pc = "unsure" =>
           Works(w) /\ producer[w].clip = c /\ q.clip = c /\ row.status = "ready",
         c \in WordClips => \/ assets[c].status \notin {"claimed", "ready"}
                            \/ Works(w) /\ producer[w].clip = c
  PROVE  AudioInv'
<1>1. /\ assets \in [Clips -> Asset] /\ disk' \in [Payloads -> {"absent", "whole"}]
      /\ attached' \subseteq WordClips
  BY DEF AudioInv, AudioTypes
<1>2. /\ assets' \in [Clips -> Asset] /\ assets'[c] = row
      /\ \A d \in Clips \ {c} : assets'[d] = assets[d]
  BY <1>1
<1>3. \A d \in WordClips : d \in Clips
  BY DEF Clips
<1>4. \A d \in WordClips :
        \/ assets'[d].status = assets[d].status
        \/ assets[d].status \notin {"claimed", "ready"}
        \/ Works(w) /\ producer[w].clip = d
  BY <1>2, <1>3
<1>5. \A d \in Clips : assets'[d].status = "ready" => assets'[d] = assets[d] \/ Recorded(d)'
  BY <1>2 DEF Recorded
<1>6. \A d \in WordClips : assets'[d].file = assets[d].file \/ Recorded(d)'
  BY <1>2, <1>3 DEF Recorded
<1>7. q.pc \in Holding => /\ assets'[q.clip].status = HeldAs(q.pc)
                          /\ Works(w) /\ producer[w].clip = q.clip
  BY <1>2 DEF Holding, HeldAs
<1>8. /\ q.pc # "invalidate" /\ q.pc # "attach"
      /\ q.pc \notin {"write", "rename", "mark"} /\ q.pc # "mark"
      /\ q.pc \in {"check", "attach"} => q.clip \in WordClips
  OBVIOUS
<1>9. QED
  BY <1>1, <1>4, <1>5, <1>6, <1>7, <1>8, AudioKeeps

(* The actions.                                                            *)

LEMMA HandTypes ==
  ASSUME AudioInv, NEW w \in Producers
  PROVE  producer[w] \in Producer /\ producer[w].clip \in Clips
         /\ assets[producer[w].clip] \in Asset
BY DEF AudioInv, AudioTypes, Producer

LEMMA RegisterAssetKeeps ==
  ASSUME AudioInv, NEW w \in Producers, NEW c \in Clips, RegisterAsset(w, c)
  PROVE  AudioInv'
<1> DEFINE q == [AtRest0 EXCEPT !.pc = "find", !.clip = c]
<1>1. q \in Producer /\ q.pc = "find"
  BY AtRestFits DEF Producer
<1>2. producer' = [producer EXCEPT ![w] = q] /\ UNCHANGED <<disk, attached>>
  BY DEF RegisterAsset
<1> HIDE DEF q
<1>3. CASE assets[c].status = "absent"
  <2> DEFINE row == [assets[c] EXCEPT !.status = "pending"]
  <2>1. assets' = [assets EXCEPT ![c] = row]
    BY <1>3 DEF RegisterAsset
  <2>2. row \in Asset /\ row.status = "pending" /\ row.file = assets[c].file
    BY DEF AudioInv, AudioTypes, Asset
  <2> HIDE DEF row
  <2>3. QED
    BY <1>1, <1>2, <1>3, <2>1, <2>2, RowKeeps
<1>4. CASE assets' = assets
  BY <1>1, <1>2, <1>4, QuietKeeps DEF Holding
<1>5. QED
  BY <1>3, <1>4 DEF RegisterAsset

LEMMA SynthesiseKeeps ==
  ASSUME AudioInv, NEW w \in Producers, NEW c \in PhonemeClips, NEW p \in Payloads,
         Synthesise(w, c, p)
  PROVE  AudioInv'
<1> DEFINE q == [pc |-> "invalidate", clip |-> c, bytes |-> p]
<1>1. q \in Producer /\ q.pc = "invalidate" /\ q.clip = c
  BY DEF Producer, Clips
<1>2. producer' = [producer EXCEPT ![w] = q] /\ UNCHANGED <<assets, disk, attached>>
  BY DEF Synthesise
<1> HIDE DEF q
<1>3. QED
  BY <1>1, <1>2, QuietKeeps DEF Holding

LEMMA ResetForRegenerationKeeps ==
  ASSUME AudioInv, NEW w \in Producers, ResetForRegeneration(w)
  PROVE  AudioInv'
<1>1. PICK c \in Clips : c = producer[w].clip
  BY HandTypes
<1>2. c \notin WordClips
  BY <1>1, AudioAssumption DEF ResetForRegeneration, AudioInv, ProducersFit
<1>3. CASE Rest(w) /\ assets' = assets
  BY <1>3, RestKeeps DEF ResetForRegeneration
<1>4. CASE /\ assets' = [assets EXCEPT ![c] = [status |-> "pending", file |-> NoFile]]
           /\ ProducerGo(w, "find")
  <2> DEFINE row == [status |-> "pending", file |-> NoFile]
  <2>1. row \in Asset /\ row.status = "pending" /\ assets' = [assets EXCEPT ![c] = row]
    BY <1>4 DEF Asset
  <2> HIDE DEF row
  <2>2. UNCHANGED <<disk, attached>>
    BY DEF ResetForRegeneration
  <2>3. PICK q \in Producer : producer' = [producer EXCEPT ![w] = q] /\ q.pc = "find"
    BY <1>4, Goes
  <2>4. QED
    BY <1>2, <2>1, <2>2, <2>3, RowKeeps
<1>5. QED
  BY <1>1, <1>3, <1>4 DEF ResetForRegeneration

LEMMA FindAssetKeeps ==
  ASSUME AudioInv, NEW w \in Producers, FindAsset(w)
  PROVE  AudioInv'
<1>1. UNCHANGED <<assets, disk, attached>>
  BY DEF FindAsset
<1>2. CASE After(w)
  BY <1>1, <1>2, AfterFits, QuietKeeps DEF Holding
<1>3. CASE ProducerGo(w, "claim")
  <2>1. PICK q \in Producer : producer' = [producer EXCEPT ![w] = q] /\ q.pc = "claim"
    BY <1>3, Goes
  <2>2. QED
    BY <1>1, <2>1, QuietKeeps DEF Holding
<1>4. QED
  BY <1>2, <1>3 DEF FindAsset

LEMMA ClaimAssetKeeps ==
  ASSUME AudioInv, NEW w \in Producers, ClaimAsset(w)
  PROVE  AudioInv'
<1>1. PICK c \in Clips : c = producer[w].clip /\ assets[c] \in Asset
  BY HandTypes
<1>2. UNCHANGED <<disk, attached>>
  BY DEF ClaimAsset
<1>3. CASE After(w) /\ assets' = assets
  BY <1>2, <1>3, AfterFits, QuietKeeps DEF Holding
<1>4. CASE /\ assets[c].status \in {"pending", "failed"} /\ ProducerGo(w, "produce")
           /\ assets' = [assets EXCEPT ![c].status = "claimed"]
  <2> DEFINE row == [assets[c] EXCEPT !.status = "claimed"]
  <2>1. row \in Asset /\ row.status = "claimed" /\ assets' = [assets EXCEPT ![c] = row]
    BY <1>1, <1>4 DEF Asset
  <2> HIDE DEF row
  <2>2. PICK q \in Producer : producer' = [producer EXCEPT ![w] = q] /\ q.pc = "produce" /\ q.clip = c
    BY <1>1, <1>4, Goes
  <2>3. /\ assets \in [Clips -> Asset] /\ disk' \in [Payloads -> {"absent", "whole"}]
        /\ attached' \subseteq WordClips
    BY <1>2 DEF AudioInv, AudioTypes
  <2>4. /\ assets' \in [Clips -> Asset] /\ assets'[c] = row
        /\ \A d \in Clips \ {c} : assets'[d] = assets[d]
    BY <2>1, <2>3
  <2>5. \A d \in WordClips : assets'[d].status = assets[d].status
                             \/ assets[d].status \notin {"claimed", "ready"}
    BY <1>4, <2>4 DEF Clips
  <2>6. \A d \in Clips : /\ assets'[d].status = "ready" => assets'[d] = assets[d]
                         /\ assets'[d].file = assets[d].file
    BY <1>1, <1>4, <2>1, <2>3, <2>4 DEF Asset
  <2>7. /\ assets'[q.clip].status = HeldAs(q.pc)
        /\ assets[q.clip].status \notin {"claimed", "ready"}
    BY <1>4, <2>1, <2>2, <2>4 DEF HeldAs
  <2>8. \A d \in WordClips : assets'[d].file = assets[d].file
    BY <2>6 DEF Clips
  <2>9. /\ q.pc # "invalidate" /\ q.pc # "attach" /\ q.pc # "mark"
        /\ q.pc \notin {"check", "attach"} /\ q.pc \notin {"write", "rename", "mark"}
    BY <2>2
  <2>10. QED
    BY <1>2, <2>2, <2>3, <2>4, <2>5, <2>6, <2>7, <2>8, <2>9, AudioKeeps
<1>5. QED
  BY <1>1, <1>3, <1>4 DEF ClaimAsset, MayClaim

LEMMA ProduceKeeps ==
  ASSUME AudioInv, NEW w \in Producers, NEW p \in Payloads, Produce(w, p)
  PROVE  AudioInv'
<1>1. PICK next \in {"write", "mark"} : next = IF disk[p] = "absent" THEN "write" ELSE "mark"
  OBVIOUS
<1> DEFINE q == [producer[w] EXCEPT !.bytes = p, !.pc = next]
<1>2. producer' = [producer EXCEPT ![w] = q] /\ UNCHANGED <<assets, disk, attached>>
  BY <1>1 DEF Produce
<1>3. q \in Producer /\ q.pc = next /\ q.bytes = p /\ q.clip = producer[w].clip
  BY HandTypes DEF Producer
<1> HIDE DEF q
<1>4. next = "mark" => disk[p] = "whole"
  BY <1>1 DEF AudioInv, AudioTypes
<1>5. Works(w) /\ HeldAs(q.pc) = HeldAs(producer[w].pc)
  BY <1>1, <1>3 DEF Produce, Works, Holding, HeldAs
<1>6. QED
  BY <1>1, <1>2, <1>3, <1>4, <1>5, QuietKeeps

LEMMA WriteFileKeeps ==
  ASSUME AudioInv, NEW w \in Producers, WriteFile(w)
  PROVE  AudioInv'
<1>1. UNCHANGED <<assets, disk, attached>> /\ Works(w)
  BY DEF WriteFile, Temporary, Works, Holding
<1>2. producer[w].bytes \in Payloads
  BY DEF WriteFile, AudioInv, ProducersFit
<1>3. PICK q \in Producer :
        /\ producer' = [producer EXCEPT ![w] = q]
        /\ q.pc = "rename" /\ q.clip = producer[w].clip /\ q.bytes = producer[w].bytes
  BY Goes DEF WriteFile
<1>4. HeldAs(q.pc) = HeldAs(producer[w].pc)
  BY <1>3 DEF HeldAs, WriteFile
<1>5. QED
  BY <1>1, <1>2, <1>3, <1>4, QuietKeeps

LEMMA RenameFileKeeps ==
  ASSUME AudioInv, NEW w \in Producers, RenameFile(w)
  PROVE  AudioInv'
<1>1. PICK p \in Payloads : p = producer[w].bytes
  BY DEF RenameFile, AudioInv, ProducersFit
<1>2. PICK q \in Producer :
        /\ producer' = [producer EXCEPT ![w] = q]
        /\ q.pc = "mark" /\ q.clip = producer[w].clip /\ q.bytes = p
  BY <1>1, Goes DEF RenameFile
<1>3. /\ disk' \in [Payloads -> {"absent", "whole"}] /\ disk'[p] = "whole"
      /\ \A f \in Payloads : disk[f] = "whole" => disk'[f] = "whole"
  BY <1>1 DEF RenameFile, AudioInv, AudioTypes
<1>4. /\ assets' = assets /\ attached' = attached
      /\ assets' \in [Clips -> Asset] /\ attached' \subseteq WordClips
  BY DEF RenameFile, AudioInv, AudioTypes
<1>5. Works(w)
  BY DEF RenameFile, Works, Holding
<1>6. q.clip \in WordClips => assets[q.clip].status = HeldAs(q.pc)
  BY <1>2, <1>5 DEF AudioInv, WorkIsClaimed, RenameFile, HeldAs
<1>7. QED
  BY <1>2, <1>3, <1>4, <1>5, <1>6, AudioKeeps

LEMMA MarkReadyKeeps ==
  ASSUME AudioInv, NEW w \in Producers, MarkReady(w)
  PROVE  AudioInv'
<1>1. PICK c \in Clips, p \in Payloads : c = producer[w].clip /\ p = producer[w].bytes
  BY HandTypes DEF MarkReady, AudioInv, ProducersFit
<1> DEFINE row == [status |-> "ready", file |-> p]
<1>2. row \in Asset /\ row.file = p /\ row.status = "ready"
  BY DEF Asset
<1>3. assets' = [assets EXCEPT ![c] = row] /\ UNCHANGED <<disk, attached>>
  BY <1>1 DEF MarkReady
<1> HIDE DEF row
<1>4. disk[p] = "whole" /\ Works(w)
  BY <1>1 DEF MarkReady, Works, Holding, AudioInv, ProducersFit
<1>5. PICK q \in Producer : /\ producer' = [producer EXCEPT ![w] = q]
                            /\ q.pc \in {"idle", "check", "unsure"}
                            /\ q.pc = "check" => q.clip \in WordClips
                            /\ q.pc = "unsure" => q.clip = c
  <2>1. CASE After(w)
    BY <2>1, AfterFits
  <2>2. CASE ProducerGo(w, "unsure")
    BY <1>1, <2>2, Goes
  <2>3. QED
    BY <2>1, <2>2 DEF MarkReady
<1>6. QED
  BY <1>1, <1>2, <1>3, <1>4, <1>5, RowKeeps

LEMMA MarkFailedKeeps ==
  ASSUME AudioInv, NEW w \in Producers, MarkFailed(w)
  PROVE  AudioInv'
<1>1. PICK c \in Clips : c = producer[w].clip /\ assets[c] \in Asset
  BY HandTypes
<1> DEFINE row == [assets[c] EXCEPT !.status = "failed"]
<1>2. row \in Asset /\ row.status = "failed" /\ row.file = assets[c].file
  BY <1>1 DEF Asset
<1>3. assets' = [assets EXCEPT ![c] = row] /\ UNCHANGED <<disk, attached>> /\ Rest(w) /\ Works(w)
  BY <1>1 DEF MarkFailed, Works, Holding
<1> HIDE DEF row
<1>4. QED
  BY <1>1, <1>2, <1>3, AtRestFits, RowKeeps DEF Rest

LEMMA CheckReadyKeeps ==
  ASSUME AudioInv, NEW w \in Producers, CheckReady(w)
  PROVE  AudioInv'
<1>1. UNCHANGED <<assets, disk, attached>>
  BY DEF CheckReady
<1>2. CASE assets[producer[w].clip].status = "ready" /\ ProducerGo(w, "attach")
  <2> DEFINE c == producer[w].clip
  <2>1. PICK q \in Producer : /\ producer' = [producer EXCEPT ![w] = q]
                              /\ q.pc = "attach" /\ q.clip = producer[w].clip
    BY <1>2, Goes
  <2>2. c \in WordClips
    BY DEF CheckReady, AudioInv, ProducersFit
  <2>3. Recorded(c)
    BY <1>2, HandTypes DEF AudioInv, ClipsPlay, Verifies, Recorded, Asset
  <2>4. q.pc \notin Holding
    BY <2>1 DEF Holding
  <2>5. QED
    BY <1>1, <2>1, <2>2, <2>3, <2>4, QuietKeeps
<1>3. CASE Rest(w)
  BY <1>1, <1>3, RestKeeps
<1>4. QED
  BY <1>2, <1>3 DEF CheckReady, MayAttach

LEMMA AttachWholeWordAudioKeeps ==
  ASSUME AudioInv, NEW w \in Producers, AttachWholeWordAudio(w)
  PROVE  AudioInv'
<1>1. PICK c : c = producer[w].clip
  OBVIOUS
<1>2. c \in WordClips /\ Recorded(c)
  BY <1>1 DEF AttachWholeWordAudio, AudioInv, ProducersFit
<1>3. /\ assets' = assets /\ disk' = disk /\ attached' = attached \cup {c} /\ Rest(w)
      /\ assets' \in [Clips -> Asset] /\ disk' \in [Payloads -> {"absent", "whole"}]
      /\ attached' \subseteq WordClips
  BY <1>1, <1>2 DEF AttachWholeWordAudio, AudioInv, AudioTypes
<1>4. producer' = [producer EXCEPT ![w] = AtRest0]
  BY <1>3 DEF Rest
<1>5. \A d \in attached' : d \in attached \/ Recorded(d)'
  BY <1>2, <1>3 DEF Recorded
<1>6. AtRest0.pc \notin Holding
  BY AtRestFits DEF Holding
<1>7. QED
  BY <1>3, <1>4, <1>5, <1>6, AtRestFits, AudioKeeps

LEMMA AudioStep ==
  ASSUME AudioInv, [AudioNext]_audioVars
  PROVE  AudioInv'
<1>1. ASSUME NEW w \in Producers, ProducerStep(w) PROVE AudioInv'
  <2>1. CASE GenerateWordAudio(w) \/ GeneratePhonemeAudio(w)
    BY <2>1, RegisterAssetKeeps, CheckReadyKeeps, AttachWholeWordAudioKeeps
       DEF GenerateWordAudio, GeneratePhonemeAudio, Clips
  <2>2. CASE RegeneratePhonemeAudio(w)
    BY <2>2, SynthesiseKeeps, ResetForRegenerationKeeps DEF RegeneratePhonemeAudio
  <2>3. CASE ProduceAsset(w)
    BY <2>3, ProduceKeeps, FindAssetKeeps, ClaimAssetKeeps, WriteFileKeeps, RenameFileKeeps,
       MarkReadyKeeps, MarkFailedKeeps DEF ProduceAsset
  <2>4. CASE Die(w)
    BY <2>4, RestKeeps DEF Die
  <2>5. QED
    BY <1>1, <2>1, <2>2, <2>3, <2>4 DEF ProducerStep
<1>2. CASE UNCHANGED audioVars
  BY <1>2 DEF audioVars, AudioInv, AudioTypes, ProducersFit, WorkIsClaimed, OneWorks, Works,
     HeldAs, Recorded, ClipsPlay, Verifies
<1>3. QED
  BY <1>1, <1>2 DEF AudioNext

(* At every reachable state the inductive invariant holds.                 *)
THEOREM AudioInductive == AudioSpec => []AudioInv
<1>1. AudioInit => AudioInv
  <2> SUFFICES ASSUME AudioInit PROVE AudioInv
    OBVIOUS
  <2>1. \A c \in Clips : assets[c].status = "absent"
    BY DEF AudioInit
  <2>2. AudioTypes
    BY AtRestFits DEF AudioInit, AudioTypes, Asset
  <2>3. \A w \in Producers : producer[w].pc = "idle"
    BY AtRestFits DEF AudioInit
  <2>4. ProducersFit /\ WorkIsClaimed /\ OneWorks
    BY <2>3 DEF ProducersFit, WorkIsClaimed, OneWorks, Works, Holding
  <2>5. ClipsPlay
    BY <2>1 DEF ClipsPlay, AudioInit
  <2>6. QED
    BY <2>2, <2>4, <2>5 DEF AudioInv
<1>2. AudioInv /\ [AudioNext]_audioVars => AudioInv'
  BY AudioStep
<1>3. QED
  BY <1>1, <1>2, PTL DEF AudioSpec

(* Rows, files and scripts keep their types.                               *)
THEOREM AudioTypesHold == AudioSpec => []AudioTypeOK
<1>1. AudioInv => AudioTypeOK
  BY DEF AudioInv, AudioTypes, AudioTypeOK, Producer
<1>2. QED
  BY <1>1, AudioInductive, PTL

(* A ready clip has its whole file, and so has the clip a word is linked   *)
(* to, for any number of scripts killed anywhere and any reply of markReady*)
(* lost (produceAsset).                                                    *)
THEOREM ClipsAlwaysPlay == AudioSpec => []ClipsPlay
<1>1. AudioInv => ClipsPlay
  BY DEF AudioInv
<1>2. QED
  BY <1>1, AudioInductive, PTL

(* A step that changes a ready clip of a word is one of its own script.    *)
LEMMA ReadyRowStands ==
  ASSUME AudioInv, NEW w \in Producers, ProducerStep(w),
         NEW c \in WordClips, assets[c].status = "ready", assets'[c] # assets[c]
  PROVE  producer[w].pc = "unsure" /\ producer[w].clip = c
<1>1. assets \in [Clips -> Asset] /\ c \in Clips
  BY DEF AudioInv, AudioTypes, Clips
<1>2. ASSUME NEW d \in Clips, RegisterAsset(w, d) PROVE FALSE
  <2>1. assets'[c] = assets[c]
    BY <1>1, <1>2 DEF RegisterAsset
  <2>2. QED
    BY <2>1
<1>3. CASE ResetForRegeneration(w)
  <2>1. producer[w].clip # c
    BY <1>3, AudioAssumption DEF ResetForRegeneration, AudioInv, ProducersFit
  <2>2. assets'[c] = assets[c]
    BY <1>1, <1>3, <2>1 DEF ResetForRegeneration
  <2>3. QED
    BY <2>2
<1>4. CASE ClaimAsset(w)
  <2>1. assets'[c] = assets[c]
    BY <1>1, <1>4 DEF ClaimAsset, MayClaim
  <2>2. QED
    BY <2>1
<1>5. CASE MarkReady(w) \/ MarkFailed(w)
  <2>1. producer[w].clip = c
    BY <1>1, <1>5 DEF MarkReady, MarkFailed
  <2>2. Works(w)
    BY <1>5 DEF MarkReady, MarkFailed, Works, Holding
  <2>3. HeldAs(producer[w].pc) = "ready"
    BY <2>1, <2>2 DEF AudioInv, WorkIsClaimed
  <2>4. producer[w].pc = "unsure"
    BY <2>3 DEF HeldAs
  <2>5. QED
    BY <2>1, <2>4
<1>6. CASE assets' = assets
  BY <1>6
<1>7. QED
  BY <1>2, <1>3, <1>4, <1>5, <1>6 DEF ProducerStep, GenerateWordAudio, GeneratePhonemeAudio,
     RegeneratePhonemeAudio, ProduceAsset, Die, CheckReady, AttachWholeWordAudio, Synthesise,
     Produce, FindAsset, WriteFile, RenameFile, Clips

(* What was produced for a word stands, unless the script that made it has *)
(* lost the reply to markReady (claimForGeneration, markFailed).           *)
THEOREM AudioStands == AudioSpec => ReadyStands
<1> DEFINE Stands ==
      \A c \in WordClips : assets[c].status = "ready" /\ assets'[c] # assets[c] =>
        \E w \in Producers : producer[w].pc = "unsure" /\ producer[w].clip = c
<1>1. AudioInv /\ [AudioNext]_audioVars => [Stands]_audioVars
  BY ReadyRowStands DEF AudioNext
<1>2. QED
  BY <1>1, AudioInductive, PTL DEF AudioSpec, ReadyStands

------------------------------------------------------------------------------
(* Backup.                                                                 *)

Manifest == [facts : Facts, createdAt : Hours, sha256 : Dump]
Object == [dump : Dump \cup {Missing}, manifest : Manifest \cup {Missing}]
Run == [pc : {"idle", "tables", "dump", "file", "manifest", "over"}, now : Hours,
        facts : Facts, file : Dump, prefix : {"daily", "weekly"}]
Trial == [pc : {"idle", "manifest", "restore", "compare", "passed", "failed"}, now : Hours,
          key : Keys, manifest : Manifest \cup {Missing}, dump : Dump \cup {Missing}]

BackupTypes ==
  /\ schema \in Facts
  /\ hour \in Hours
  /\ objects \in [Keys -> Object]
  /\ backup \in [Backups -> Run]
  /\ test \in [Tests -> Trial]

(* A dump that is kept was finished, after the hour its manifest is to     *)
(* name.                                                                   *)
RunsFit ==
  \A b \in Backups :
    /\ backup[b].pc \in {"tables", "dump", "file", "manifest"} => backup[b].now <= hour
    /\ backup[b].pc \in {"file", "manifest"} =>
         backup[b].file.whole /\ backup[b].now <= backup[b].file.taken

Sound(m) == m.sha256.whole /\ m.createdAt <= m.sha256.taken
ManifestsAreSound ==
  \A k \in Keys : objects[k].manifest # Missing => Sound(objects[k].manifest)

TrialsFit ==
  \A t \in Tests :
    /\ test[t].pc \in {"restore", "compare", "passed"} =>
         /\ test[t].manifest \in Manifest /\ Sound(test[t].manifest)
         /\ test[t].now - test[t].manifest.createdAt <= MaxBackupAge
    /\ test[t].pc = "passed" => Matches(test[t])

BackupInv == BackupTypes /\ RunsFit /\ ManifestsAreSound /\ TrialsFit


(* A set of hours that is not empty has a latest one.                      *)
LEMMA Latest ==
  ASSUME NEW n \in Nat, NEW T \in SUBSET (0..n), T # {}
  PROVE  \E x \in T : \A y \in T : y <= x
<1> DEFINE Above(x) == x..n
           ups == {Above(x) : x \in T}
           R == StrictSubsetOrdering(Nat)
<1>1. ups \subseteq FiniteSubsetsOf(Nat) /\ ups # {}
  <2>1. \A x \in T : Above(x) \in SUBSET Nat /\ IsFiniteSet(Above(x))
    BY FS_Interval
  <2>2. QED
    BY <2>1 DEF FiniteSubsetsOf
<1>2. PICK d \in ups : \A e \in ups : <<e, d>> \notin R
  <2> HIDE DEF ups, R
  <2>1. QED
    BY <1>1, FS_StrictSubsetOrderingWellFounded, WFMin DEF R
<1>3. PICK x \in T : d = Above(x)
  OBVIOUS
<1>4. ASSUME NEW y \in T, y > x
      PROVE  FALSE
  <2>1. Above(y) \subseteq Above(x) /\ Above(y) # Above(x)
    BY <1>4
  <2>2. <<Above(y), Above(x)>> \in R
    BY <2>1 DEF StrictSubsetOrdering
  <2>3. QED
    BY <1>2, <1>3, <2>2
<1>5. QED
  BY <1>4

LEMMA Still ==
  ASSUME BackupInv
  PROVE  /\ \A b \in Backups : backup[b] \in Run
         /\ \A t \in Tests : test[t] \in Trial
         /\ \A k \in Keys : objects[k] \in Object
         /\ hour \in Nat /\ Hours \subseteq Nat /\ NoDump \in Dump /\ NoFacts \in Facts
         /\ MaxBackupAge \in Nat
<1>1. Hours \subseteq Nat /\ NoFacts \in Facts /\ 0 \in Hours
  BY BackupAssumption DEF Hours, NoFacts, Facts
<1>2. NoDump \in Dump
  BY <1>1 DEF NoDump, Dump
<1>3. QED
  BY <1>1, <1>2, BackupAssumption DEF BackupInv, BackupTypes

(* A step of one backup, which leaves the clock and the bucket alone.      *)
LEMMA RunMoves ==
  ASSUME BackupInv, NEW b \in Backups, NEW q \in Run, backup' = [backup EXCEPT ![b] = q],
         hour' = hour,
         q.pc \in {"tables", "dump", "file", "manifest"} => q.now <= hour,
         q.pc \in {"file", "manifest"} => q.file.whole /\ q.now <= q.file.taken
  PROVE  backup' \in [Backups -> Run] /\ RunsFit'
<1>1. /\ backup' \in [Backups -> Run] /\ backup'[b] = q
      /\ \A d \in Backups \ {b} : backup'[d] = backup[d]
  BY DEF BackupInv, BackupTypes
<1>2. QED
  BY <1>1 DEF BackupInv, RunsFit

LEMMA TrialMoves ==
  ASSUME BackupInv, NEW t \in Tests, NEW q \in Trial, test' = [test EXCEPT ![t] = q],
         q.pc \in {"restore", "compare", "passed"} =>
           /\ q.manifest \in Manifest /\ Sound(q.manifest)
           /\ q.now - q.manifest.createdAt <= MaxBackupAge,
         q.pc = "passed" => Matches(q)
  PROVE  test' \in [Tests -> Trial] /\ TrialsFit'
<1>1. /\ test' \in [Tests -> Trial] /\ test'[t] = q
      /\ \A u \in Tests \ {t} : test'[u] = test[u]
  BY DEF BackupInv, BackupTypes
<1>2. QED
  BY <1>1 DEF BackupInv, TrialsFit, Sound, Matches

LEMMA NotRunningFits ==
  ASSUME BackupInv
  PROVE  NotRunning \in Run /\ Over \in Run /\ Over.pc = "over"
<1>1. NotRunning \in Run
  BY Still, BackupAssumption DEF NotRunning, Run, Hours
<1>2. QED
  BY <1>1 DEF Over, Run

LEMMA NotTestingFits ==
  ASSUME BackupInv
  PROVE  NotTesting \in Trial
BY Still, BackupAssumption DEF NotTesting, Trial, Hours, Keys

(* Nothing but a backup: the rest is as it was.                            *)
LEMMA BackupMoves ==
  ASSUME BackupInv, UNCHANGED <<schema, hour, objects, test>>,
         backup' \in [Backups -> Run], RunsFit'
  PROVE  BackupInv'
BY DEF BackupInv, BackupTypes, ManifestsAreSound, TrialsFit, Sound, Matches

LEMMA TestMoves ==
  ASSUME BackupInv, UNCHANGED <<schema, hour, objects, backup>>,
         test' \in [Tests -> Trial], TrialsFit'
  PROVE  BackupInv'
BY DEF BackupInv, BackupTypes, ManifestsAreSound, RunsFit, Sound

LEMMA OverKeeps ==
  ASSUME BackupInv, NEW b \in Backups, UNCHANGED <<schema, hour, objects, test>>,
         backup' = [backup EXCEPT ![b] = Over]
  PROVE  BackupInv'
BY NotRunningFits, RunMoves, BackupMoves

LEMMA FailedKeeps ==
  ASSUME BackupInv, NEW t \in Tests, UNCHANGED <<schema, hour, objects, backup>>, Failed(t)
  PROVE  BackupInv'
<1> DEFINE q == [NotTesting EXCEPT !.pc = "failed"]
<1>1. q \in Trial /\ q.pc = "failed"
  BY NotTestingFits DEF Trial
<1>2. test' = [test EXCEPT ![t] = q]
  BY DEF Failed
<1> HIDE DEF q
<1>3. QED
  BY <1>1, <1>2, TrialMoves, TestMoves


(* The actions.                                                            *)

LEMMA ScheduleKeeps ==
  ASSUME BackupInv, MigrateTables \/ MigrateHistory \/ HourPasses
  PROVE  BackupInv'
<1>1. schema' \in Facts /\ hour' \in Hours /\ hour <= hour'
  <2>1. CASE MigrateTables
    <3>1. schema.tables + 1 \in 0..MaxSchema
      BY <2>1, BackupAssumption DEF MigrateTables, BackupInv, BackupTypes, Facts
    <3>2. schema' = [schema EXCEPT !.tables = schema.tables + 1] /\ hour' = hour
      BY <2>1 DEF MigrateTables
    <3>3. QED
      BY <3>1, <3>2, Still DEF BackupInv, BackupTypes, Facts
  <2>2. CASE MigrateHistory
    <3>1. schema.version + 1 \in 0..MaxSchema
      BY <2>2, BackupAssumption DEF MigrateHistory, BackupInv, BackupTypes, Facts
    <3>2. schema' = [schema EXCEPT !.version = schema.version + 1] /\ hour' = hour
      BY <2>2 DEF MigrateHistory
    <3>3. QED
      BY <3>1, <3>2, Still DEF BackupInv, BackupTypes, Facts
  <2>3. CASE HourPasses
    BY <2>3, Still, BackupAssumption DEF HourPasses, BackupInv, BackupTypes, Hours
  <2>4. QED
    BY <2>1, <2>2, <2>3
<1>2. UNCHANGED <<objects, backup, test>>
  BY DEF MigrateTables, MigrateHistory, HourPasses
<1>3. RunsFit'
  <2>1. \A b \in Backups : backup[b].now \in Nat
    BY Still DEF Run
  <2>2. hour' \in Nat
    BY <1>1, Still
  <2>3. QED
    BY <1>1, <1>2, <2>1, <2>2, Still DEF BackupInv, RunsFit
<1>4. QED
  BY <1>1, <1>2, <1>3 DEF BackupInv, BackupTypes, ManifestsAreSound, TrialsFit, Sound, Matches

LEMMA StartBackupKeeps ==
  ASSUME BackupInv, NEW b \in Backups, StartBackup(b)
  PROVE  BackupInv'
<1>0. PICK r \in Run : r = NotRunning
  BY NotRunningFits
<1> DEFINE facts == [r.facts EXCEPT !.version = schema.version]
           q == [r EXCEPT !.pc = "tables", !.now = hour, !.facts = facts]
<1>1. facts \in Facts
  BY DEF Run, Facts, BackupInv, BackupTypes
<1>2. backup' = [backup EXCEPT ![b] = q]
  BY <1>0 DEF StartBackup
<1> HIDE DEF facts
<1>3. q \in Run /\ q.pc = "tables" /\ q.now = hour
  BY <1>1 DEF Run, BackupInv, BackupTypes
<1> HIDE DEF q
<1>4. UNCHANGED <<schema, hour, objects, test>> /\ hour <= hour
  BY Still DEF StartBackup
<1>5. backup' \in [Backups -> Run] /\ RunsFit'
  BY <1>2, <1>3, <1>4, RunMoves
<1>6. QED
  BY <1>4, <1>5, BackupMoves

LEMMA ListBaseTablesKeeps ==
  ASSUME BackupInv, NEW b \in Backups, ListBaseTables(b)
  PROVE  BackupInv'
<1>0. PICK r \in Run : r = backup[b]
  BY Still
<1> DEFINE facts == [r.facts EXCEPT !.tables = schema.tables]
           q == [r EXCEPT !.pc = "dump", !.facts = facts]
<1>1. facts \in Facts
  BY DEF Run, Facts, BackupInv, BackupTypes
<1>2. backup' = [backup EXCEPT ![b] = q]
  BY <1>0 DEF ListBaseTables
<1> HIDE DEF facts
<1>3. q \in Run /\ q.pc = "dump" /\ q.now = r.now
  BY <1>1 DEF Run
<1> HIDE DEF q
<1>4. r.now <= hour
  BY <1>0 DEF ListBaseTables, BackupInv, RunsFit
<1>5. QED
  BY <1>2, <1>3, <1>4, RunMoves, BackupMoves DEF ListBaseTables

LEMMA WriteDumpKeeps ==
  ASSUME BackupInv, NEW b \in Backups, NEW whole \in BOOLEAN, WriteDump(b, whole)
  PROVE  BackupInv'
<1>0. PICK r \in Run : r = backup[b]
  BY Still
<1>1. UNCHANGED <<schema, hour, objects, test>>
  BY DEF WriteDump
<1>2. CASE whole
  <2>0. PICK d : d = [facts |-> schema, whole |-> whole, taken |-> hour]
    OBVIOUS
  <2>1. d \in Dump /\ d.taken = hour /\ d.whole
    BY <1>2, <2>0 DEF Dump, BackupInv, BackupTypes
  <2> DEFINE q == [r EXCEPT !.pc = "file", !.file = d]
  <2>2. backup' = [backup EXCEPT ![b] = q]
    BY <1>0, <1>2, <2>0 DEF WriteDump, Accepted
  <2>3. q \in Run /\ q.pc = "file" /\ q.file = d /\ q.now = r.now
    BY <2>1 DEF Run
  <2> HIDE DEF q
  <2>4. r.now <= hour
    BY <1>0 DEF WriteDump, BackupInv, RunsFit
  <2>5. QED
    BY <1>1, <2>1, <2>2, <2>3, <2>4, RunMoves, BackupMoves
<1>3. CASE ~whole
  BY <1>1, <1>3, OverKeeps DEF WriteDump, Accepted
<1>4. QED
  BY <1>2, <1>3

(* An object is put under the key of a backup.                             *)
LEMMA ObjectPut ==
  ASSUME BackupInv, NEW k \in Keys, NEW row \in Object, objects' = [objects EXCEPT ![k] = row],
         row.manifest # Missing => Sound(row.manifest)
  PROVE  objects' \in [Keys -> Object] /\ ManifestsAreSound'
<1>1. /\ objects' \in [Keys -> Object] /\ objects'[k] = row
      /\ \A l \in Keys \ {k} : objects'[l] = objects[l]
  BY DEF BackupInv, BackupTypes
<1>2. QED
  BY <1>1 DEF BackupInv, ManifestsAreSound, Sound

LEMMA PutFileKeeps ==
  ASSUME BackupInv, NEW b \in Backups, PutFile(b)
  PROVE  BackupInv'
<1>0. PICK r \in Run : r = backup[b]
  BY Still
<1>1. PICK k \in Keys : k = <<r.prefix, r.now>>
  BY DEF Run, Keys
<1> DEFINE row == [objects[k] EXCEPT !.dump = r.file]
           q == [r EXCEPT !.pc = "manifest"]
<1>2. objects' = [objects EXCEPT ![k] = row] /\ backup' = [backup EXCEPT ![b] = q]
      /\ UNCHANGED <<schema, hour, test>>
  BY <1>0, <1>1 DEF PutFile
<1>3. row \in Object /\ row.manifest = objects[k].manifest
  BY Still DEF Object, Run
<1>4. q \in Run /\ q.pc = "manifest" /\ q.now = r.now /\ q.file = r.file
  BY DEF Run
<1> HIDE DEF row, q
<1>5. r.now <= hour /\ r.file.whole /\ r.now <= r.file.taken
  BY <1>0 DEF PutFile, BackupInv, RunsFit
<1>6. backup' \in [Backups -> Run] /\ RunsFit'
  BY <1>2, <1>4, <1>5, RunMoves
<1>7. row.manifest # Missing => Sound(row.manifest)
  BY <1>3 DEF BackupInv, ManifestsAreSound
<1>8. objects' \in [Keys -> Object] /\ ManifestsAreSound'
  BY <1>2, <1>3, <1>7, ObjectPut
<1>9. QED
  BY <1>2, <1>6, <1>8 DEF BackupInv, BackupTypes, TrialsFit, Sound, Matches

LEMMA PutManifestKeeps ==
  ASSUME BackupInv, NEW b \in Backups, PutManifest(b)
  PROVE  BackupInv'
<1>0. PICK r \in Run : r = backup[b]
  BY Still
<1>1. PICK k \in Keys : k = <<r.prefix, r.now>>
  BY DEF Run, Keys
<1>2. PICK m : m = [facts |-> r.facts, createdAt |-> r.now, sha256 |-> r.file]
  OBVIOUS
<1> DEFINE row == [objects[k] EXCEPT !.manifest = m]
           weekly == [r EXCEPT !.pc = "file", !.prefix = "weekly"]
<1>3. r.now <= hour /\ r.file.whole /\ r.now <= r.file.taken
  BY <1>0 DEF PutManifest, BackupInv, RunsFit
<1>4. m \in Manifest /\ Sound(m)
  BY <1>2, <1>3 DEF Manifest, Sound, Run
<1>5. /\ objects' = [objects EXCEPT ![k] = row] /\ UNCHANGED <<schema, hour, test>>
      /\ backup' = [backup EXCEPT ![b] = weekly] \/ backup' = [backup EXCEPT ![b] = Over]
  BY <1>0, <1>1, <1>2 DEF PutManifest
<1>6. row \in Object /\ row.manifest = m
  BY <1>4, Still DEF Object
<1>7. weekly \in Run /\ weekly.now = r.now /\ weekly.file = r.file
  BY DEF Run
<1> HIDE DEF row, weekly
<1>8. backup' \in [Backups -> Run] /\ RunsFit'
  BY <1>3, <1>5, <1>7, NotRunningFits, RunMoves
<1>9. objects' \in [Keys -> Object] /\ ManifestsAreSound'
  BY <1>4, <1>5, <1>6, ObjectPut
<1>10. QED
  BY <1>5, <1>8, <1>9 DEF BackupInv, BackupTypes, TrialsFit, Sound, Matches


LEMMA LatestKeyKeeps ==
  ASSUME BackupInv, NEW t \in Tests, LatestKey(t)
  PROVE  BackupInv'
<1> DEFINE found == {h \in Hours : objects[<<"daily", h>>].dump # Missing}
<1>1. found \in SUBSET (0..MaxClock) /\ found # {}
  BY DEF LatestKey, Hours
<1> HIDE DEF found
<1>2. PICK h \in Hours : h = CHOOSE l \in found : \A k \in found : k <= l
  BY <1>1, Latest, BackupAssumption DEF Hours
<1>3. PICK r \in Trial : r = NotTesting
  BY NotTestingFits
<1> DEFINE key == <<"daily", h>>
           q == [r EXCEPT !.pc = "manifest", !.key = key]
<1>4. test' = [test EXCEPT ![t] = q]
  BY <1>2, <1>3 DEF LatestKey, found
<1>5. key \in Keys
  BY DEF Keys
<1> HIDE DEF key
<1>6. q \in Trial /\ q.pc = "manifest"
  BY <1>5 DEF Trial
<1> HIDE DEF q
<1>7. test' \in [Tests -> Trial] /\ TrialsFit'
  BY <1>4, <1>6, TrialMoves
<1>8. QED
  BY <1>7, TestMoves DEF LatestKey

LEMMA GetManifestKeeps ==
  ASSUME BackupInv, NEW t \in Tests, GetManifest(t)
  PROVE  BackupInv'
<1>0. PICK r \in Trial : r = test[t]
  BY Still
<1>1. PICK m : r = test[t] /\ m = objects[r.key].manifest
  BY <1>0
<1>2. UNCHANGED <<schema, hour, objects, backup>>
  BY DEF GetManifest
<1>3. CASE /\ m # Missing /\ hour - m.createdAt <= MaxBackupAge
           /\ test' = [test EXCEPT ![t].pc = "restore", ![t].manifest = m, ![t].now = hour]
  <2>1. m \in Manifest /\ Sound(m)
    BY <1>1, <1>3, Still DEF Trial, Object, BackupInv, ManifestsAreSound
  <2> DEFINE q == [r EXCEPT !.pc = "restore", !.manifest = m, !.now = hour]
  <2>2. test' = [test EXCEPT ![t] = q]
    BY <1>1, <1>3
  <2>3. q \in Trial /\ q.pc = "restore" /\ q.manifest = m /\ q.now = hour
    BY <2>1 DEF Trial, BackupInv, BackupTypes
  <2> HIDE DEF q
  <2>4. test' \in [Tests -> Trial] /\ TrialsFit'
    BY <1>3, <2>1, <2>2, <2>3, TrialMoves
  <2>5. QED
    BY <1>2, <2>4, TestMoves
<1>4. CASE Failed(t)
  BY <1>2, <1>4, FailedKeeps
<1>5. QED
  BY <1>1, <1>3, <1>4 DEF GetManifest, YoungEnough

LEMMA RestoreDumpKeeps ==
  ASSUME BackupInv, NEW t \in Tests, RestoreDump(t)
  PROVE  BackupInv'
<1>0. PICK r \in Trial : r = test[t]
  BY Still
<1>1. PICK d : r = test[t] /\ d = objects[r.key].dump
  BY <1>0
<1>2. d \in Dump \cup {Missing}
  BY <1>1, Still DEF Trial, Object
<1> DEFINE q == [r EXCEPT !.pc = "compare", !.dump = d]
<1>3. test' = [test EXCEPT ![t] = q]
  BY <1>1 DEF RestoreDump
<1>4. q \in Trial /\ q.pc = "compare" /\ q.manifest = r.manifest /\ q.now = r.now
  BY <1>2 DEF Trial
<1> HIDE DEF q
<1>5. /\ r.manifest \in Manifest /\ Sound(r.manifest)
      /\ r.now - r.manifest.createdAt <= MaxBackupAge
  BY <1>1 DEF RestoreDump, BackupInv, TrialsFit
<1>6. test' \in [Tests -> Trial] /\ TrialsFit'
  BY <1>3, <1>4, <1>5, TrialMoves
<1>7. QED
  BY <1>6, TestMoves DEF RestoreDump

LEMMA CompareKeeps ==
  ASSUME BackupInv, NEW t \in Tests, Compare(t)
  PROVE  BackupInv'
<1>1. PICK r \in Trial : r = test[t]
  BY Still
<1>2. UNCHANGED <<schema, hour, objects, backup>>
  BY DEF Compare
<1>3. CASE Matches(r) /\ test' = [test EXCEPT ![t].pc = "passed"]
  <2> DEFINE q == [r EXCEPT !.pc = "passed"]
  <2>1. test' = [test EXCEPT ![t] = q]
    BY <1>1, <1>3
  <2>2. /\ q \in Trial /\ q.pc = "passed" /\ q.manifest = r.manifest /\ q.now = r.now
        /\ q.dump = r.dump
    BY DEF Trial
  <2> HIDE DEF q
  <2>3. /\ r.manifest \in Manifest /\ Sound(r.manifest)
        /\ r.now - r.manifest.createdAt <= MaxBackupAge
    BY <1>1 DEF Compare, BackupInv, TrialsFit
  <2>4. Matches(q)
    BY <1>3, <2>2 DEF Matches
  <2>5. test' \in [Tests -> Trial] /\ TrialsFit'
    BY <2>1, <2>2, <2>3, <2>4, TrialMoves
  <2>6. QED
    BY <1>2, <2>5, TestMoves
<1>4. CASE Failed(t)
  BY <1>2, <1>4, FailedKeeps
<1>5. QED
  BY <1>1, <1>3, <1>4 DEF Compare

LEMMA BackupStepKeeps ==
  ASSUME BackupInv, [BackupNext]_backupVars
  PROVE  BackupInv'
<1>1. CASE MigrateTables \/ MigrateHistory \/ HourPasses
  BY <1>1, ScheduleKeeps
<1>2. ASSUME NEW b \in Backups, BackupStep(b) PROVE BackupInv'
  <2>1. CASE BackupFails(b)
    BY <2>1, OverKeeps DEF BackupFails
  <2>2. CASE ~BackupFails(b)
    BY <1>2, <2>2, StartBackupKeeps, ListBaseTablesKeeps, WriteDumpKeeps, PutFileKeeps,
       PutManifestKeeps DEF BackupStep
  <2>3. QED
    BY <2>1, <2>2
<1>3. ASSUME NEW t \in Tests, TestStep(t) PROVE BackupInv'
  <2>1. CASE TestFails(t)
    BY <2>1, FailedKeeps DEF TestFails
  <2>2. CASE ~TestFails(t)
    BY <1>3, <2>2, LatestKeyKeeps, GetManifestKeeps, RestoreDumpKeeps, CompareKeeps DEF TestStep
  <2>3. QED
    BY <2>1, <2>2
<1>4. CASE UNCHANGED backupVars
  BY <1>4 DEF backupVars, BackupInv, BackupTypes, RunsFit, ManifestsAreSound, TrialsFit, Sound, Matches
<1>5. QED
  BY <1>1, <1>2, <1>3, <1>4 DEF BackupNext

(* At every reachable state the inductive invariant holds.                 *)
THEOREM BackupInductive == BackupSpec => []BackupInv
<1>1. BackupInit => BackupInv
  <2> SUFFICES ASSUME BackupInit PROVE BackupInv
    OBVIOUS
  <2>1. schema \in Facts /\ hour \in Hours /\ NoDump \in Dump /\ 0 \in Hours
    BY BackupAssumption DEF BackupInit, NoFacts, Facts, Hours, NoDump, Dump
  <2>2. NotRunning \in Run /\ NotRunning.pc = "idle"
    BY <2>1, BackupAssumption DEF NotRunning, Run, NoFacts, Facts
  <2>3. NotTesting \in Trial /\ NotTesting.pc = "idle"
    BY <2>1 DEF NotTesting, Trial, Keys
  <2>4. objects \in [Keys -> Object] /\ \A k \in Keys : objects[k].manifest = Missing
    BY DEF BackupInit, Object
  <2>5. BackupTypes
    BY <2>1, <2>2, <2>3, <2>4 DEF BackupInit, BackupTypes
  <2>6. RunsFit /\ ManifestsAreSound /\ TrialsFit
    BY <2>2, <2>3, <2>4 DEF BackupInit, RunsFit, ManifestsAreSound, TrialsFit
  <2>7. QED
    BY <2>5, <2>6 DEF BackupInv
<1>2. BackupInv /\ [BackupNext]_backupVars => BackupInv'
  BY BackupStepKeeps
<1>3. QED
  BY <1>1, <1>2, PTL DEF BackupSpec

(* The database, the bucket, the backups and the tests keep their types.   *)
THEOREM BackupTypesHold == BackupSpec => []BackupTypeOK
<1>1. BackupInv => BackupTypeOK
  BY DEF BackupInv, BackupTypes, BackupTypeOK, Object, Run, Trial
<1>2. QED
  BY <1>1, BackupInductive, PTL

(* A restore test passes only on a whole dump of the age allowed, with the *)
(* tables and the schema its manifest names, whatever backups, migrations  *)
(* and failures were between (runRestoreTest).                             *)
THEOREM PassedAlwaysRestores == BackupSpec => []PassedIsRestorable
<1>1. BackupInv => PassedIsRestorable
  <2> SUFFICES ASSUME BackupInv, NEW t \in Tests, test[t].pc = "passed"
               PROVE  /\ test[t].dump.whole
                      /\ test[t].dump.facts = test[t].manifest.facts
                      /\ test[t].now - test[t].dump.taken <= MaxBackupAge
    BY DEF PassedIsRestorable
  <2>1. PICK r \in Trial : r = test[t]
    BY Still
  <2>2. /\ r.manifest \in Manifest /\ Sound(r.manifest) /\ Matches(r)
        /\ r.now - r.manifest.createdAt <= MaxBackupAge
    BY <2>1 DEF BackupInv, TrialsFit
  <2>3. r.now \in Nat /\ r.manifest.createdAt \in Nat /\ r.manifest.sha256.taken \in Nat
    BY <2>2, Still DEF Trial, Manifest, Dump
  <2>4. QED
    BY <2>1, <2>2, <2>3, BackupAssumption DEF Sound, Matches
<1>2. QED
  BY <1>1, BackupInductive, PTL


------------------------------------------------------------------------------
(* PhonemePopover.                                                         *)

Event == {"play", "playing", "timeupdate", "canplay", "error"}
Player == [clip : Voiced \cup {Nobody}, data : {"none", "loading", "arriving", "ready", "failed"},
           paused : BOOLEAN, under : BOOLEAN]

PopoverTypes ==
  /\ openFor \in Phonemes \cup {Nobody}
  /\ player \in Player
  /\ events \in Seq(Event)
  /\ armed \in BOOLEAN
  /\ hydration \in {"open", "failed", "passive", "recording"}
  /\ pending \in [Phonemes -> Nat] /\ sent \in [Phonemes -> Nat]
  /\ asked \in [Phonemes -> Nat] /\ heard \in [Phonemes -> Nat]
  /\ presses \in 0..MaxPresses

Has(s, e) == \E i \in 1..Len(s) : s[i] = e
Plays(s) == Cardinality({i \in 1..Len(s) : s[i] = "play"})

(* The reports the player may still cause: one for each start that is      *)
(* queued, and one that is armed, unless the next event arms anew.         *)
DueOf(s, a) == Plays(s) + (IF a /\ (s = <<>> \/ Head(s) # "play") THEN 1 ELSE 0)
Due == DueOf(events, armed)
Listens(p) == sent[p] + pending[p]

(* The player has the clip of the popover that is open.                    *)
PlayerFits ==
  /\ player.clip = Nobody => player.data = "none" /\ events = <<>>
  /\ openFor \in Voiced => player.clip = openFor

ReportsAreDue ==
  /\ \A p \in Phonemes : Listens(p) + Due <= presses
  /\ \A p \in Voiced : Listens(p) + (IF player.clip = p THEN Due ELSE 0) <= asked[p]

ReportsAreHeard ==
  /\ player.data = "ready" \/ Has(events, "playing") => heard[player.clip] > 0
  /\ \A p \in Voiced : Listens(p) > 0 => heard[p] > 0

PopoverInv ==
  /\ PopoverTypes /\ PlayerFits /\ ReportsAreDue /\ ReportsAreHeard
  /\ hydration # "recording" => sent = None


(* Queues of events.                                                       *)

LEMMA PlaysOne ==
  ASSUME NEW e \in Event
  PROVE  /\ <<e>> \in Seq(Event) /\ Plays(<<e>>) = (IF e = "play" THEN 1 ELSE 0)
         /\ \A x : Has(<<e>>, x) <=> x = e
<1>1. \A i \in 1..Len(<<e>>) : i = 1
  OBVIOUS
<1>2. {i \in 1..Len(<<e>>) : <<e>>[i] = "play"} = IF e = "play" THEN {1} ELSE {}
  OBVIOUS
<1>3. Plays(<<e>>) = IF e = "play" THEN 1 ELSE 0
  BY <1>2, FS_EmptySet, FS_Singleton DEF Plays
<1>4. QED
  BY <1>3 DEF Has

LEMMA PlaysNone == Plays(<<>>) = 0 /\ \A x : ~Has(<<>>, x)
<1>1. {i \in 1..Len(<<>>) : <<>>[i] = "play"} = {}
  OBVIOUS
<1>2. QED
  BY <1>1, FS_EmptySet DEF Plays, Has

LEMMA PlaysFinite ==
  ASSUME NEW s \in Seq(Event)
  PROVE  Plays(s) \in Nat /\ IsFiniteSet({i \in 1..Len(s) : s[i] = "play"})
<1>1. IsFiniteSet(1..Len(s))
  BY FS_Interval, LenProperties
<1>2. QED
  BY <1>1, FS_Subset, FS_CardinalityType DEF Plays

LEMMA PlaysJoined ==
  ASSUME NEW s \in Seq(Event), NEW t \in Seq(Event)
  PROVE  /\ s \o t \in Seq(Event) /\ Plays(s \o t) = Plays(s) + Plays(t)
         /\ \A x : Has(s \o t, x) <=> Has(s, x) \/ Has(t, x)
<1> DEFINE n == Len(s)
           m == Len(t)
           A == {i \in 1..Len(s) : s[i] = "play"}
           B == {i \in 1..Len(t) : t[i] = "play"}
           C == {n + i : i \in B}
<1>1. /\ s \o t \in Seq(Event) /\ n \in Nat /\ m \in Nat /\ Len(s \o t) = n + m
      /\ \A i \in 1..n : (s \o t)[i] = s[i] /\ i \in 1..(n + m)
      /\ \A i \in 1..m : (s \o t)[n + i] = t[i] /\ n + i \in 1..(n + m)
  OBVIOUS
<1>2. \A i \in 1..(n + m) : i \in 1..n \/ i - n \in 1..m
  BY <1>1
<1>3. {i \in 1..Len(s \o t) : (s \o t)[i] = "play"} = A \cup C
  <2>1. ASSUME NEW i \in 1..(n + m), (s \o t)[i] = "play" PROVE i \in A \cup C
    <3>1. CASE i \in 1..n
      BY <1>1, <2>1, <3>1
    <3>2. CASE i - n \in 1..m
      <4>1. i = n + (i - n) /\ (s \o t)[i] = t[i - n]
        BY <1>1, <3>2
      <4>2. i - n \in B
        BY <2>1, <3>2, <4>1
      <4>3. QED
        BY <4>1, <4>2
    <3>3. QED
      BY <1>2, <3>1, <3>2
  <2>2. ASSUME NEW i \in A \cup C PROVE i \in 1..(n + m) /\ (s \o t)[i] = "play"
    BY <1>1
  <2> HIDE DEF A, C
  <2>3. {i \in 1..(n + m) : (s \o t)[i] = "play"} = A \cup C
    BY <2>1, <2>2
  <2>4. QED
    BY <1>1, <2>3
<1>4. IsFiniteSet(A) /\ IsFiniteSet(B) /\ Cardinality(A) \in Nat
  BY PlaysFinite, FS_CardinalityType
<1>5. IsFiniteSet(C) /\ Cardinality(C) = Cardinality(B)
  <2> DEFINE f == [i \in B |-> n + i]
  <2>1. f \in Bijection(B, C)
    BY <1>1 DEF Bijection, Injection, Surjection, IsInjective
  <2>2. ExistsBijection(B, C)
    BY <2>1 DEF ExistsBijection
  <2>3. QED
    BY <1>4, <2>2, FS_Bijection
<1>6. A \cap C = {}
  BY <1>1
<1>7. Cardinality(A \cup C) = Cardinality(A) + Cardinality(C)
  <2>1. Cardinality(A \cup C) = Cardinality(A) + Cardinality(C) - Cardinality(A \cap C)
    BY <1>4, <1>5, FS_Union
  <2>2. Cardinality(A \cap C) = 0
    BY <1>6, FS_EmptySet
  <2>3. Cardinality(A) \in Nat /\ Cardinality(C) \in Nat
    BY <1>4, <1>5, FS_CardinalityType
  <2> HIDE DEF A, C
  <2>4. QED
    BY <2>1, <2>2, <2>3
<1>8. Plays(s \o t) = Plays(s) + Plays(t)
  BY <1>3, <1>5, <1>7 DEF Plays
<1>9. ASSUME NEW x PROVE Has(s \o t, x) <=> Has(s, x) \/ Has(t, x)
  <2>1. ASSUME NEW i \in 1..(n + m), (s \o t)[i] = x PROVE Has(s, x) \/ Has(t, x)
    <3>1. CASE i \in 1..n
      BY <1>1, <2>1, <3>1 DEF Has
    <3>2. CASE i - n \in 1..m
      <4>1. (s \o t)[i] = t[i - n]
        BY <1>1, <3>2
      <4>2. QED
        BY <2>1, <3>2, <4>1 DEF Has
    <3>3. QED
      BY <1>2, <3>1, <3>2
  <2>2. QED
    BY <1>1, <2>1 DEF Has
<1>10. QED
  BY <1>1, <1>8, <1>9


LEMMA PlaysQueued ==
  ASSUME NEW s \in Seq(Event), NEW e \in Event
  PROVE  /\ Append(s, e) \in Seq(Event) /\ Append(s, e) # <<>>
         /\ Plays(Append(s, e)) = Plays(s) + (IF e = "play" THEN 1 ELSE 0)
         /\ Head(Append(s, e)) = (IF s = <<>> THEN e ELSE Head(s))
         /\ \A x : Has(Append(s, e), x) <=> Has(s, x) \/ x = e
<1>1. Append(s, e) = s \o <<e>> /\ <<e>> \in Seq(Event)
  OBVIOUS
<1>2. /\ Plays(Append(s, e)) = Plays(s) + (IF e = "play" THEN 1 ELSE 0)
      /\ \A x : Has(Append(s, e), x) <=> Has(s, x) \/ x = e
  <2>1. PICK a, t : a = Append(s, e) /\ t = <<e>>
    OBVIOUS
  <2>2. a = s \o t /\ t \in Seq(Event)
    BY <1>1, <2>1
  <2>3. /\ Plays(s \o t) = Plays(s) + Plays(t)
        /\ \A x : Has(s \o t, x) <=> Has(s, x) \/ Has(t, x)
    BY <2>2, PlaysJoined
  <2>4. Plays(<<e>>) = (IF e = "play" THEN 1 ELSE 0) /\ \A x : Has(<<e>>, x) <=> x = e
    BY PlaysOne
  <2>5. Plays(t) = (IF e = "play" THEN 1 ELSE 0) /\ \A x : Has(t, x) <=> x = e
    BY <2>1, <2>4
  <2>6. /\ Plays(a) = Plays(s) + (IF e = "play" THEN 1 ELSE 0)
        /\ \A x : Has(a, x) <=> Has(s, x) \/ x = e
    BY <2>2, <2>3, <2>5
  <2>7. QED
    BY <2>1, <2>6
<1>3. Append(s, e) \in Seq(Event) /\ Append(s, e) # <<>>
  OBVIOUS
<1>4. Head(Append(s, e)) = IF s = <<>> THEN e ELSE Head(s)
  OBVIOUS
<1>5. QED
  BY <1>2, <1>3, <1>4

LEMMA PlaysNext ==
  ASSUME NEW s \in Seq(Event), s # <<>>
  PROVE  /\ Head(s) \in Event /\ Tail(s) \in Seq(Event) /\ Has(s, Head(s))
         /\ Plays(s) = Plays(Tail(s)) + (IF Head(s) = "play" THEN 1 ELSE 0)
         /\ \A x : Has(Tail(s), x) => Has(s, x)
<1>1. Head(s) \in Event /\ Tail(s) \in Seq(Event) /\ s = <<Head(s)>> \o Tail(s)
  OBVIOUS
<1>2. PICK e \in Event, t \in Seq(Event) : e = Head(s) /\ t = Tail(s)
  BY <1>1
<1>3. s = <<e>> \o t /\ <<e>> \in Seq(Event)
  BY <1>1, <1>2, PlaysOne
<1>4. Plays(s) = Plays(<<e>>) + Plays(t) /\ \A x : Has(s, x) <=> Has(<<e>>, x) \/ Has(t, x)
  BY <1>3, PlaysJoined
<1>5. Plays(s) = Plays(t) + (IF e = "play" THEN 1 ELSE 0) /\ Has(s, e)
  <2>1. Plays(<<e>>) = (IF e = "play" THEN 1 ELSE 0) /\ Has(<<e>>, e)
    BY PlaysOne
  <2>2. Plays(t) \in Nat
    BY PlaysFinite
  <2>3. QED
    BY <1>4, <2>1, <2>2
<1>6. QED
  BY <1>1, <1>2, <1>4, <1>5

(* What a press adds to the queue: what a restart leaves, the start, and,  *)
(* of a clip that is there, mostly the word that it plays.                 *)
LEMMA PlaysPressed ==
  ASSUME NEW s \in Seq(Event), NEW stopped \in {<<>>, <<"timeupdate">>},
         NEW told \in {<<>>, <<"playing">>}
  PROVE  LET q == s \o stopped \o <<"play">> \o told
         IN  /\ q \in Seq(Event) /\ q # <<>> /\ Plays(q) = Plays(s) + 1
             /\ Head(q) = Head(s) \/ (s = <<>> /\ Head(q) \in {"timeupdate", "play"})
             /\ Has(q, "playing") => Has(s, "playing") \/ told # <<>>
<1>1. PICK a, b, q : a = s \o stopped /\ b = a \o <<"play">> /\ q = b \o told
  OBVIOUS
<1>2. /\ a \in Seq(Event) /\ Plays(a) = Plays(s)
      /\ Has(a, "playing") => Has(s, "playing")
      /\ \/ a = s
         \/ a # <<>> /\ Head(a) = (IF s = <<>> THEN "timeupdate" ELSE Head(s))
  <2>1. CASE stopped = <<>>
    BY <1>1, <2>1
  <2>2. CASE stopped = <<"timeupdate">>
    <3>1. a = Append(s, "timeupdate") /\ "timeupdate" \in Event
      BY <1>1, <2>2 DEF Event
    <3>2. /\ Append(s, "timeupdate") \in Seq(Event) /\ Append(s, "timeupdate") # <<>>
          /\ Plays(Append(s, "timeupdate")) = Plays(s) + (IF "timeupdate" = "play" THEN 1 ELSE 0)
          /\ Head(Append(s, "timeupdate")) = (IF s = <<>> THEN "timeupdate" ELSE Head(s))
          /\ Has(Append(s, "timeupdate"), "playing") <=> Has(s, "playing") \/ "playing" = "timeupdate"
      BY <3>1, PlaysQueued
    <3>3. Plays(a) = Plays(s) + 0 /\ Plays(s) \in Nat
      BY <3>1, <3>2, PlaysFinite
    <3>4. QED
      BY <3>1, <3>2, <3>3
  <2>3. QED
    BY <2>1, <2>2
<1>3. /\ b \in Seq(Event) /\ b # <<>> /\ Plays(b) = Plays(s) + 1
      /\ Has(b, "playing") => Has(s, "playing")
      /\ Head(b) = Head(s) \/ (s = <<>> /\ Head(b) \in {"timeupdate", "play"})
  <2>1. b = Append(a, "play") /\ "play" \in Event
    BY <1>1, <1>2 DEF Event
  <2>2. /\ Append(a, "play") \in Seq(Event) /\ Append(a, "play") # <<>>
        /\ Plays(Append(a, "play")) = Plays(a) + 1
        /\ Head(Append(a, "play")) = (IF a = <<>> THEN "play" ELSE Head(a))
        /\ Has(Append(a, "play"), "playing") => Has(a, "playing")
    BY <1>2, <2>1, PlaysQueued
  <2>3. QED
    BY <1>2, <2>1, <2>2
<1>4. CASE told = <<>>
  <2>1. q = b
    BY <1>1, <1>3, <1>4
  <2>2. QED
    BY <1>1, <1>3, <2>1
<1>5. CASE told = <<"playing">>
  <2>1. q = Append(b, "playing") /\ "playing" \in Event /\ told # <<>>
    BY <1>1, <1>3, <1>5 DEF Event
  <2>2. q \in Seq(Event) /\ q # <<>> /\ Plays(q) = Plays(b) /\ Head(q) = Head(b)
    <3>1. Append(b, "playing") \in Seq(Event) /\ Append(b, "playing") # <<>>
      BY <1>3, <2>1, PlaysQueued
    <3>2. Plays(Append(b, "playing")) = Plays(b) + (IF "playing" = "play" THEN 1 ELSE 0)
      BY <1>3, <2>1, PlaysQueued
    <3>3. Head(Append(b, "playing")) = (IF b = <<>> THEN "playing" ELSE Head(b))
      BY <1>3, <2>1, PlaysQueued
    <3>4. Plays(b) \in Nat
      BY <1>3, PlaysFinite
    <3>5. QED
      BY <1>3, <2>1, <3>1, <3>2, <3>3, <3>4
  <2>3. QED
    BY <1>1, <1>3, <2>1, <2>2
<1>6. QED
  BY <1>4, <1>5


------------------------------------------------------------------------------
(* What is due, when the queue grows and when it is told.                  *)

LEMMA DueType ==
  ASSUME NEW s \in Seq(Event), NEW a \in BOOLEAN, NEW b \in BOOLEAN
  PROVE  DueOf(s, a) \in Nat /\ (~b => DueOf(s, b) <= DueOf(s, a))
<1>1. PICK n \in Nat : n = Plays(s)
  BY PlaysFinite
<1>2. ~b => DueOf(s, b) = n
  BY <1>1 DEF DueOf
<1>3. DueOf(s, a) = n \/ DueOf(s, a) = n + 1
  BY <1>1 DEF DueOf
<1>4. PICK d, e : d = DueOf(s, a) /\ e = DueOf(s, b)
  OBVIOUS
<1>5. d \in Nat /\ (~b => e <= d)
  BY <1>2, <1>3, <1>4
<1>6. QED
  BY <1>4, <1>5

LEMMA DueFirst ==
  ASSUME NEW a \in BOOLEAN
  PROVE  /\ <<"play">> \in Seq(Event) /\ DueOf(<<"play">>, a) = 1
         /\ ~Has(<<"play">>, "playing")
<1>1. "play" \in Event
  BY DEF Event
<1>2. Plays(<<"play">>) = (IF "play" = "play" THEN 1 ELSE 0) /\ <<"play">> \in Seq(Event)
  BY <1>1, PlaysOne
<1>3. Has(<<"play">>, "playing") <=> "playing" = "play"
  BY <1>1, PlaysOne
<1>4. <<"play">> # <<>> /\ Head(<<"play">>) = "play"
  OBVIOUS
<1>5. QED
  BY <1>2, <1>3, <1>4 DEF DueOf

LEMMA DuePressed ==
  ASSUME NEW s \in Seq(Event), NEW a \in BOOLEAN, NEW q \in Seq(Event),
         q # <<>>, Plays(q) = Plays(s) + 1,
         Head(q) = Head(s) \/ (s = <<>> /\ Head(q) \in {"timeupdate", "play"})
  PROVE  DueOf(q, a) <= DueOf(s, a) + 1
<1>1. PICK n \in Nat : n = Plays(s)
  BY PlaysFinite
<1>2. DueOf(q, a) = n + 1 \/ DueOf(q, a) = n + 1 + 1
  BY <1>1 DEF DueOf
<1>3. DueOf(s, a) = n \/ DueOf(s, a) = n + 1
  BY <1>1 DEF DueOf
<1>4. ASSUME DueOf(s, a) = n, DueOf(q, a) = n + 1 + 1 PROVE FALSE
  <2>1. a /\ Head(q) # "play"
    BY <1>1, <1>4 DEF DueOf
  <2>2. s # <<>> /\ Head(s) = "play"
    BY <1>1, <1>4, <2>1 DEF DueOf
  <2>3. QED
    BY <2>1, <2>2
<1>5. QED
  BY <1>2, <1>3, <1>4

LEMMA DueQueued ==
  ASSUME NEW s \in Seq(Event), NEW a \in BOOLEAN, NEW e \in Event, e # "play"
  PROVE  /\ Append(s, e) \in Seq(Event) /\ DueOf(Append(s, e), a) = DueOf(s, a)
         /\ \A x : Has(Append(s, e), x) <=> Has(s, x) \/ x = e
<1>1. /\ Append(s, e) \in Seq(Event) /\ Append(s, e) # <<>>
      /\ Plays(Append(s, e)) = Plays(s) + (IF e = "play" THEN 1 ELSE 0)
      /\ Head(Append(s, e)) = (IF s = <<>> THEN e ELSE Head(s))
      /\ \A x : Has(Append(s, e), x) <=> Has(s, x) \/ x = e
  BY PlaysQueued
<1>2. Plays(Append(s, e)) = Plays(s) + 0 /\ Plays(s) \in Nat
  BY <1>1, PlaysFinite
<1>3. QED
  BY <1>1, <1>2 DEF DueOf

LEMMA DueTold ==
  ASSUME NEW s \in Seq(Event), s # <<>>, NEW a \in BOOLEAN, NEW b \in BOOLEAN
  PROVE  /\ Head(s) \in Event /\ Tail(s) \in Seq(Event) /\ Has(s, Head(s))
         /\ \A x : Has(Tail(s), x) => Has(s, x)
         /\ Head(s) = "play" => DueOf(Tail(s), b) <= DueOf(s, a)
         /\ Head(s) # "play" => DueOf(Tail(s), a) <= DueOf(s, a)
         /\ Head(s) # "play" /\ a /\ ~b => DueOf(Tail(s), b) + 1 <= DueOf(s, a)
<1>1. /\ Head(s) \in Event /\ Tail(s) \in Seq(Event) /\ Has(s, Head(s))
      /\ Plays(s) = Plays(Tail(s)) + (IF Head(s) = "play" THEN 1 ELSE 0)
      /\ \A x : Has(Tail(s), x) => Has(s, x)
  BY PlaysNext
<1>2. Plays(Tail(s)) \in Nat
  BY <1>1, PlaysFinite
<1>3. PICK t : t = Tail(s)
  OBVIOUS
<1>4. /\ Head(s) = "play" => DueOf(t, b) <= DueOf(s, a)
      /\ Head(s) # "play" => DueOf(t, a) <= DueOf(s, a)
      /\ Head(s) # "play" /\ a /\ ~b => DueOf(t, b) + 1 <= DueOf(s, a)
  BY <1>1, <1>2, <1>3 DEF DueOf
<1>5. QED
  BY <1>1, <1>3, <1>4


------------------------------------------------------------------------------
(* The steps.                                                              *)

(* What holds before a step, over values that a prime does not touch.      *)
LEMMA PopoverNow ==
  ASSUME PopoverInv
  PROVE  /\ Due \in Nat /\ presses \in Nat
         /\ \A p \in Phonemes : /\ Listens(p) \in Nat /\ sent[p] \in Nat /\ pending[p] \in Nat
                                /\ asked[p] \in Nat /\ heard[p] \in Nat
         /\ player.clip \in Voiced \cup {Nobody} /\ Voiced \subseteq Phonemes
         /\ events # <<>> \/ player.data # "none" => player.clip \in Voiced
<1>1. events \in Seq(Event) /\ armed \in BOOLEAN /\ player \in Player
  BY DEF PopoverInv, PopoverTypes
<1>2. Due \in Nat
  BY <1>1, DueType DEF Due
<1>3. presses \in Nat
  BY PopoverAssumption DEF PopoverInv, PopoverTypes
<1>4. \A p \in Phonemes : /\ Listens(p) \in Nat /\ sent[p] \in Nat /\ pending[p] \in Nat
                          /\ asked[p] \in Nat /\ heard[p] \in Nat
  BY DEF PopoverInv, PopoverTypes, Listens
<1>5. player.clip \in Voiced \cup {Nobody}
  BY <1>1 DEF Player
<1>6. events # <<>> \/ player.data # "none" => player.clip \in Voiced
  BY <1>5 DEF PopoverInv, PlayerFits
<1>7. QED
  BY <1>2, <1>3, <1>4, <1>5, <1>6, PopoverAssumption

(* A step that nobody asked for: nothing becomes due that was not.         *)
LEMMA NothingMoreIsDue ==
  ASSUME PopoverInv, PopoverTypes', player'.clip = player.clip, asked' = asked,
         presses' = presses, Due' <= Due, Due' \in Nat,
         \A p \in Phonemes : Listens(p)' <= Listens(p)
  PROVE  ReportsAreDue'
<1>0. \A p \in Phonemes : Listens(p)' \in Nat
  BY DEF PopoverTypes, Listens
<1>1. PICK d, e, n, c, A : /\ d = Due /\ e = Due' /\ n = presses /\ c = player.clip /\ A = asked
  OBVIOUS
<1>2. /\ d \in Nat /\ e \in Nat /\ e <= d /\ n \in Nat
      /\ n = presses' /\ c = player'.clip /\ A = asked'
  BY <1>1, PopoverNow
<1>3. ASSUME NEW p \in Phonemes PROVE Listens(p)' + e <= n
  <2>1. PICK l, k : l = Listens(p) /\ k = Listens(p)'
    OBVIOUS
  <2>2. l \in Nat /\ k \in Nat /\ k <= l
    BY <1>0, <2>1, PopoverNow
  <2>3. l + d <= n
    BY <1>1, <2>1 DEF PopoverInv, ReportsAreDue
  <2>4. QED
    BY <1>2, <2>1, <2>2, <2>3
<1>4. ASSUME NEW p \in Voiced PROVE Listens(p)' + (IF c = p THEN e ELSE 0) <= A[p]
  <2>1. PICK l, k : l = Listens(p) /\ k = Listens(p)'
    OBVIOUS
  <2>2. l \in Nat /\ k \in Nat /\ k <= l /\ A[p] \in Nat
    BY <1>0, <1>1, <2>1, PopoverNow, PopoverAssumption
  <2>3. l + (IF c = p THEN d ELSE 0) <= A[p]
    BY <1>1, <2>1 DEF PopoverInv, ReportsAreDue
  <2>4. QED
    BY <1>2, <2>1, <2>2, <2>3
<1>5. QED
  BY <1>1, <1>2, <1>3, <1>4 DEF ReportsAreDue


(* The player's own steps: an event at the end of the queue, that is no    *)
(* start, or none at all.                                                  *)
LEMMA PlayerSteps ==
  ASSUME PopoverInv, PopoverTypes', player'.clip = player.clip,
         player.clip = Nobody => player'.data = "none" /\ events' = <<>>,
         player'.data = "ready" => player.data = "ready",
         Due' = Due, \A x : x = "playing" /\ Has(events, x)' => Has(events, x),
         UNCHANGED <<openFor, armed, hydration, pending, sent, asked, heard, presses>>
  PROVE  PopoverInv'
<1>1. \A p \in Phonemes : Listens(p)' = Listens(p)
  BY DEF Listens
<1>2. ReportsAreDue'
  BY <1>1, PopoverNow, NothingMoreIsDue
<1>3. PlayerFits'
  BY DEF PopoverInv, PlayerFits
<1>4. player'.data = "ready" \/ Has(events, "playing")' => heard[player.clip] > 0
  BY DEF PopoverInv, ReportsAreHeard
<1>5. ReportsAreHeard'
  <2>1. \A p \in Voiced : Listens(p)' > 0 => heard'[p] > 0
    BY <1>1, PopoverAssumption DEF PopoverInv, ReportsAreHeard
  <2>2. QED
    BY <1>4, <2>1 DEF ReportsAreHeard
<1>6. QED
  BY <1>2, <1>3, <1>5 DEF PopoverInv

LEMMA LoadKeeps ==
  ASSUME PopoverInv, Load
  PROVE  PopoverInv'
<1>1. /\ player \in Player /\ events \in Seq(Event) /\ armed \in BOOLEAN
      /\ player.data = "loading" /\ player' = [player EXCEPT !.data = "arriving"]
      /\ UNCHANGED <<openFor, armed, hydration, pending, sent, asked, heard, presses>>
  BY DEF PopoverInv, PopoverTypes, Load
<1>2. PICK e \in {"canplay", "error"} : events' = Append(events, e)
  BY DEF Load
<1>3. /\ Append(events, e) \in Seq(Event) /\ DueOf(Append(events, e), armed) = DueOf(events, armed)
      /\ \A x : Has(Append(events, e), x) <=> Has(events, x) \/ x = e
  <2>1. e \in Event /\ e # "play"
    BY DEF Event
  <2>2. QED
    BY <1>1, <2>1, DueQueued
<1>4. player' \in Player /\ player'.clip = player.clip /\ player'.data = "arriving"
  BY <1>1 DEF Player
<1>5. PopoverTypes'
  BY <1>1, <1>2, <1>3, <1>4 DEF PopoverInv, PopoverTypes
<1>6. Due' = Due /\ \A x : x = "playing" /\ Has(events, x)' => Has(events, x)
  BY <1>1, <1>2, <1>3 DEF Due
<1>7. player.clip = Nobody => player'.data = "none" /\ events' = <<>>
  BY <1>1, <1>4 DEF PopoverInv, PlayerFits
<1>8. QED
  BY <1>1, <1>4, <1>5, <1>6, <1>7, PlayerSteps

LEMMA AdvanceKeeps ==
  ASSUME PopoverInv, Advance
  PROVE  PopoverInv'
<1>1. /\ player \in Player /\ events \in Seq(Event) /\ armed \in BOOLEAN
      /\ player.data = "ready" /\ player' = [player EXCEPT !.under = TRUE]
      /\ events' = Append(events, "timeupdate")
      /\ UNCHANGED <<openFor, armed, hydration, pending, sent, asked, heard, presses>>
  BY DEF PopoverInv, PopoverTypes, Advance
<1>2. PICK e : e = "timeupdate"
  OBVIOUS
<1>3. /\ Append(events, e) \in Seq(Event) /\ DueOf(Append(events, e), armed) = DueOf(events, armed)
      /\ \A x : Has(Append(events, e), x) <=> Has(events, x) \/ x = e
  <2>1. e \in Event /\ e # "play"
    BY <1>2 DEF Event
  <2>2. QED
    BY <1>1, <2>1, DueQueued
<1>4. player' \in Player /\ player'.clip = player.clip /\ player'.data = "ready"
  <2>1. PICK yes \in BOOLEAN : yes = TRUE
    OBVIOUS
  <2>2. player' = [player EXCEPT !.under = yes]
    BY <1>1, <2>1
  <2>3. QED
    BY <1>1, <2>2 DEF Player
<1>5. PopoverTypes'
  BY <1>1, <1>2, <1>3, <1>4 DEF PopoverInv, PopoverTypes
<1>6. Due' = Due /\ \A x : x = "playing" /\ Has(events, x)' => Has(events, x)
  BY <1>1, <1>2, <1>3 DEF Due
<1>7. player.clip = Nobody => player'.data = "none" /\ events' = <<>>
  BY <1>1, <1>4 DEF PopoverInv, PlayerFits
<1>8. QED
  BY <1>1, <1>4, <1>5, <1>6, <1>7, PlayerSteps

LEMMA FinishKeeps ==
  ASSUME PopoverInv, Finish
  PROVE  PopoverInv'
<1>1. /\ player \in Player /\ player' = [player EXCEPT !.paused = TRUE]
      /\ UNCHANGED <<openFor, events, armed, hydration, pending, sent, asked, heard, presses>>
  BY DEF PopoverInv, PopoverTypes, Finish
<1>2. player' \in Player /\ player'.clip = player.clip /\ player'.data = player.data
  <2>1. PICK yes \in BOOLEAN : yes = TRUE
    OBVIOUS
  <2>2. player' = [player EXCEPT !.paused = yes]
    BY <1>1, <2>1
  <2>3. QED
    BY <1>1, <2>2 DEF Player
<1>3. PopoverTypes'
  BY <1>1, <1>2 DEF PopoverInv, PopoverTypes
<1>4. Due' = Due /\ \A x : x = "playing" /\ Has(events, x)' => Has(events, x)
  BY <1>1 DEF Due
<1>5. player.clip = Nobody => player'.data = "none" /\ events' = <<>>
  BY <1>1, <1>2 DEF PopoverInv, PlayerFits
<1>6. QED
  BY <1>1, <1>2, <1>3, <1>4, <1>5, PlayerSteps


(* An event whose listener sends nothing.                                  *)
LEMMA QuietTold ==
  ASSUME PopoverInv, PopoverTypes', events # <<>>, player'.clip = player.clip,
         player'.data = "ready" \/ Has(events, "playing")' => heard'[player.clip] > 0,
         Due' <= Due, \A p \in Phonemes : heard'[p] >= heard[p],
         UNCHANGED <<openFor, hydration, presses, asked, pending, sent>>
  PROVE  PopoverInv'
<1>1. \A p \in Phonemes : Listens(p)' = Listens(p) /\ Listens(p) \in Nat
  BY PopoverNow DEF Listens
<1>2. Due' \in Nat
  BY DueType DEF Due, PopoverTypes
<1>3. ReportsAreDue'
  BY <1>1, <1>2, NothingMoreIsDue
<1>4. PlayerFits'
  BY PopoverNow, PopoverAssumption DEF PopoverInv, PlayerFits
<1>5. ReportsAreHeard'
  <2>1. ASSUME NEW p \in Voiced, Listens(p) > 0 PROVE heard'[p] > 0
    <3>1. PICK h, k : h = heard[p] /\ k = heard'[p]
      OBVIOUS
    <3>2. h > 0 /\ k >= h /\ h \in Nat /\ k \in Nat
      BY <2>1, <3>1, PopoverAssumption DEF PopoverInv, ReportsAreHeard, PopoverTypes
    <3>3. QED
      BY <3>1, <3>2
  <2>2. QED
    BY <1>1, <2>1, PopoverAssumption DEF ReportsAreHeard
<1>6. QED
  BY <1>3, <1>4, <1>5 DEF PopoverInv

(* An event whose listener reports: of two that are counted, one at most   *)
(* counts the listen, and the one report that is due has gone.             *)
LEMMA SentTypes ==
  ASSUME PopoverInv, SendListen
  PROVE  /\ pending' \in [Phonemes -> Nat] /\ sent' \in [Phonemes -> Nat]
         /\ \A p \in Phonemes : Listens(p)' <= Listens(p) + (IF p = openFor THEN 1 ELSE 0)
         /\ hydration # "recording" => sent' = sent
<1>1. PICK o, P, S : o = openFor /\ P = pending /\ S = sent
  OBVIOUS
<1>2. o \in Phonemes \cup {Nobody} /\ P \in [Phonemes -> Nat] /\ S \in [Phonemes -> Nat]
  BY <1>1 DEF PopoverInv, PopoverTypes
<1>3. CASE o # Nobody /\ hydration = "open"
  <2>1. pending' = [P EXCEPT ![o] = P[o] + 1] /\ sent' = S
    BY <1>1, <1>3 DEF SendListen, Counted
  <2>2. o \in Phonemes /\ P[o] + 1 \in Nat
    BY <1>2, <1>3
  <2>3. QED
    BY <1>1, <1>2, <2>1, <2>2 DEF Listens
<1>4. CASE o # Nobody /\ hydration = "recording"
  <2>1. sent' = [S EXCEPT ![o] = S[o] + 1] /\ pending' = P
    BY <1>1, <1>4 DEF SendListen, Counted
  <2>2. o \in Phonemes /\ S[o] + 1 \in Nat
    BY <1>2, <1>4
  <2>3. QED
    BY <1>1, <1>2, <1>4, <2>1, <2>2 DEF Listens
<1>5. CASE o = Nobody \/ hydration \notin {"open", "recording"}
  <2>1. pending' = P /\ sent' = S
    BY <1>1, <1>5 DEF SendListen, Counted
  <2>2. QED
    BY <1>1, <1>2, <2>1 DEF Listens
<1>6. QED
  BY <1>3, <1>4, <1>5

LEMMA ReportKeeps ==
  ASSUME PopoverInv, PopoverTypes', events # <<>>, SendListen, heard[player.clip] > 0,
         Has(events, "playing")' => Has(events, "playing"), Due' + 1 <= Due,
         UNCHANGED <<openFor, player, hydration, presses, asked, heard>>
  PROVE  PopoverInv'
<1>1. PICK o, c, d, e, n : o = openFor /\ c = player.clip /\ d = Due /\ e = Due' /\ n = presses
  OBVIOUS
<1>2. /\ d \in Nat /\ e \in Nat /\ e + 1 <= d /\ n \in Nat /\ c \in Voiced
      /\ o = openFor' /\ c = player'.clip /\ n = presses'
  <2>1. Due' \in Nat
    BY DueType DEF Due, PopoverTypes
  <2>2. QED
    BY <1>1, <2>1, PopoverNow
<1>3. \A p \in Phonemes : Listens(p)' \in Nat /\ Listens(p) \in Nat
  <2>1. pending' \in [Phonemes -> Nat] /\ sent' \in [Phonemes -> Nat]
    BY DEF PopoverTypes
  <2>2. \A p \in Phonemes : Listens(p)' \in Nat
    BY <2>1 DEF Listens
  <2>3. QED
    BY <2>2, PopoverNow
<1>4. ASSUME NEW p \in Phonemes PROVE Listens(p)' + e <= n
  <2>1. PICK l, k : l = Listens(p) /\ k = Listens(p)'
    OBVIOUS
  <2>2. l \in Nat /\ k \in Nat /\ k <= l + (IF p = openFor THEN 1 ELSE 0)
    BY <1>3, <2>1, SentTypes
  <2>3. l + d <= n
    BY <1>1, <2>1 DEF PopoverInv, ReportsAreDue
  <2>4. QED
    BY <1>2, <2>1, <2>2, <2>3
<1>5. ASSUME NEW p \in Voiced PROVE Listens(p)' + (IF c = p THEN e ELSE 0) <= asked[p]
  <2>1. PICK l, k, a : l = Listens(p) /\ k = Listens(p)' /\ a = asked[p]
    OBVIOUS
  <2>2. l \in Nat /\ k \in Nat /\ k <= l + (IF p = o THEN 1 ELSE 0) /\ a \in Nat
    BY <1>1, <1>3, <2>1, SentTypes, PopoverNow, PopoverAssumption
  <2>3. l + (IF c = p THEN d ELSE 0) <= a
    BY <1>1, <2>1 DEF PopoverInv, ReportsAreDue
  <2>4. p = o => c = p
    BY <1>1 DEF PopoverInv, PlayerFits
  <2>5. QED
    BY <1>2, <2>1, <2>2, <2>3, <2>4
<1>6. ReportsAreDue'
  BY <1>1, <1>2, <1>4, <1>5 DEF ReportsAreDue
<1>7. PlayerFits'
  BY <1>1, <1>2, PopoverAssumption DEF PopoverInv, PlayerFits
<1>8. ReportsAreHeard'
  <2>1. ASSUME NEW p \in Voiced, Listens(p)' > 0 PROVE heard[p] > 0
    <3>1. CASE p = o
      <4>1. c = p
        BY <1>1, <3>1 DEF PopoverInv, PlayerFits
      <4>2. QED
        BY <1>1, <4>1
    <3>2. CASE p # o
      <4>1. PICK l, k : l = Listens(p) /\ k = Listens(p)'
        OBVIOUS
      <4>2. l \in Nat /\ k \in Nat /\ k <= l + 0 /\ k > 0
        BY <1>1, <1>3, <2>1, <3>2, <4>1, SentTypes, PopoverAssumption
      <4>3. Listens(p) > 0
        BY <4>1, <4>2
      <4>4. QED
        BY <4>3 DEF PopoverInv, ReportsAreHeard
    <3>3. QED
      BY <3>1, <3>2
  <2>2. QED
    BY <2>1 DEF PopoverInv, ReportsAreHeard
<1>9. hydration' # "recording" => sent' = None'
  BY SentTypes DEF PopoverInv, None
<1>10. QED
  BY <1>6, <1>7, <1>8, <1>9 DEF PopoverInv


LEMMA StartTold ==
  ASSUME PopoverInv, Deliver, events # <<>>, Head(events) = "play"
  PROVE  PopoverInv'
<1>1. /\ player \in Player /\ events \in Seq(Event) /\ armed \in BOOLEAN
      /\ armed' = ~player.under /\ events' = Tail(events)
      /\ UNCHANGED <<openFor, player, heard, pending, sent, hydration, presses, asked>>
  BY DEF PopoverInv, PopoverTypes, Deliver
<1>2. PICK b \in BOOLEAN : b = armed'
  BY <1>1 DEF Player
<1>3. /\ Tail(events) \in Seq(Event) /\ \A x : Has(Tail(events), x) => Has(events, x)
      /\ Head(events) = "play" => DueOf(Tail(events), b) <= DueOf(events, armed)
  BY <1>1, DueTold
<1>4. PopoverTypes'
  BY <1>1, <1>2, <1>3 DEF PopoverInv, PopoverTypes
<1>5. Due' <= Due
  BY <1>1, <1>2, <1>3 DEF Due
<1>6. player'.data = "ready" \/ Has(events, "playing")' => heard'[player.clip] > 0
  BY <1>1, <1>3 DEF PopoverInv, ReportsAreHeard
<1>7. \A p \in Phonemes : heard'[p] >= heard[p]
  BY <1>1, PopoverNow
<1>8. QED
  BY <1>1, <1>4, <1>5, <1>6, <1>7, QuietTold

LEMMA SignTold ==
  ASSUME PopoverInv, events # <<>>, Head(events) # "play", events' = Tail(events),
         player.data = "ready" \/ Has(events, "playing"), Report,
         UNCHANGED <<openFor, player, heard, hydration, presses, asked>>
  PROVE  PopoverInv'
<1>1. /\ events \in Seq(Event) /\ armed \in BOOLEAN
  BY DEF PopoverInv, PopoverTypes
<1>2. PICK b \in BOOLEAN : ~b
  OBVIOUS
<1>3. /\ Tail(events) \in Seq(Event) /\ \A x : Has(Tail(events), x) => Has(events, x)
      /\ Head(events) # "play" => DueOf(Tail(events), armed) <= DueOf(events, armed)
      /\ Head(events) # "play" /\ armed /\ ~b => DueOf(Tail(events), b) + 1 <= DueOf(events, armed)
  BY <1>1, <1>2, DueTold
<1>4. heard[player.clip] > 0
  BY DEF PopoverInv, ReportsAreHeard
<1>5. CASE armed /\ SendListen /\ armed' = FALSE
  <2>1. b = armed'
    BY <1>2, <1>5
  <2>2. PopoverTypes'
    BY <1>1, <1>3, <1>5, <2>1, SentTypes DEF PopoverInv, PopoverTypes
  <2>3. Due' + 1 <= Due
    BY <1>2, <1>3, <1>5, <2>1 DEF Due
  <2>4. QED
    BY <1>3, <1>4, <1>5, <2>2, <2>3, ReportKeeps
<1>6. CASE UNCHANGED <<armed, pending, sent>>
  <2>1. PopoverTypes'
    BY <1>3, <1>6 DEF PopoverInv, PopoverTypes
  <2>2. Due' <= Due
    BY <1>3, <1>6 DEF Due
  <2>3. \A p \in Phonemes : heard'[p] >= heard[p]
    BY PopoverNow
  <2>4. QED
    BY <1>4, <1>6, <2>1, <2>2, <2>3, QuietTold
<1>7. QED
  BY <1>5, <1>6 DEF Report

LEMMA UnheardTold ==
  ASSUME PopoverInv, events # <<>>, Head(events) # "play", events' = Tail(events),
         UNCHANGED <<openFor, player, heard, hydration, presses, asked, armed, pending, sent>>
  PROVE  PopoverInv'
<1>1. /\ events \in Seq(Event) /\ armed \in BOOLEAN
  BY DEF PopoverInv, PopoverTypes
<1>2. /\ Tail(events) \in Seq(Event) /\ \A x : Has(Tail(events), x) => Has(events, x)
      /\ Head(events) # "play" => DueOf(Tail(events), armed) <= DueOf(events, armed)
  BY <1>1, DueTold
<1>3. PopoverTypes'
  BY <1>2 DEF PopoverInv, PopoverTypes
<1>4. Due' <= Due
  BY <1>2 DEF Due
<1>5. player'.data = "ready" \/ Has(events, "playing")' => heard'[player.clip] > 0
  BY <1>2 DEF PopoverInv, ReportsAreHeard
<1>6. \A p \in Phonemes : heard'[p] >= heard[p]
  BY PopoverNow
<1>7. QED
  BY <1>3, <1>4, <1>5, <1>6, QuietTold


LEMMA DataTold ==
  ASSUME PopoverInv, Deliver, events # <<>>, Head(events) = "canplay"
  PROVE  PopoverInv'
<1>1. /\ player \in Player /\ events \in Seq(Event) /\ armed \in BOOLEAN
      /\ heard \in [Phonemes -> Nat]
      /\ player' = [player EXCEPT !.data = "ready"]
      /\ events' \in {Tail(events), Append(Tail(events), "playing")}
      /\ heard' = [heard EXCEPT ![player.clip] = @ + 1]
      /\ UNCHANGED <<openFor, armed, pending, sent, hydration, presses, asked>>
  BY DEF PopoverInv, PopoverTypes, Deliver
<1>2. PICK c, h : c = player.clip /\ h = heard[c] + 1
  OBVIOUS
<1>3. c \in Phonemes /\ h \in Nat /\ h > 0 /\ h >= heard[c] /\ heard' = [heard EXCEPT ![c] = h]
  BY <1>1, <1>2, PopoverNow
<1>4. /\ heard' \in [Phonemes -> Nat] /\ heard'[player.clip] > 0
      /\ \A p \in Phonemes : heard'[p] >= heard[p]
  <2>1. heard'[c] = h /\ \A p \in Phonemes : p # c => heard'[p] = heard[p]
    BY <1>1, <1>3
  <2>2. heard' \in [Phonemes -> Nat]
    BY <1>1, <1>3
  <2>3. \A p \in Phonemes : heard[p] \in Nat
    BY <1>1
  <2>4. QED
    BY <1>2, <1>3, <2>1, <2>2, <2>3
<1>5. PICK e : e = "playing"
  OBVIOUS
<1>6. PICK t : t = Tail(events)
  OBVIOUS
<1>7. t \in Seq(Event) /\ DueOf(t, armed) <= DueOf(events, armed)
  <2>1. Tail(events) \in Seq(Event)
        /\ (Head(events) # "play" => DueOf(Tail(events), armed) <= DueOf(events, armed))
    BY <1>1, DueTold
  <2>2. QED
    BY <1>6, <2>1
<1>8. Append(t, e) \in Seq(Event) /\ DueOf(Append(t, e), armed) = DueOf(t, armed)
  <2>1. e \in Event /\ e # "play"
    BY <1>5 DEF Event
  <2>2. QED
    BY <1>1, <1>7, <2>1, DueQueued
<1>9. events' \in Seq(Event) /\ DueOf(events', armed) <= DueOf(events, armed)
  <2>1. events' = t \/ events' = Append(t, e)
    BY <1>1, <1>5, <1>6
  <2>2. QED
    BY <1>7, <1>8, <2>1
<1>10. player' \in Player /\ player'.clip = player.clip
  BY <1>1 DEF Player
<1>11. PopoverTypes'
  BY <1>1, <1>4, <1>9, <1>10 DEF PopoverInv, PopoverTypes
<1>12. Due' <= Due
  BY <1>1, <1>9 DEF Due
<1>13. QED
  BY <1>1, <1>4, <1>10, <1>11, <1>12, QuietTold

LEMMA FailureTold ==
  ASSUME PopoverInv, Deliver, events # <<>>, Head(events) = "error"
  PROVE  PopoverInv'
<1>1. /\ player \in Player /\ events \in Seq(Event) /\ armed \in BOOLEAN
      /\ player' = [player EXCEPT !.data = "failed", !.paused = TRUE]
      /\ armed' = FALSE /\ events' = Tail(events)
      /\ UNCHANGED <<openFor, heard, pending, sent, hydration, presses, asked>>
  BY DEF PopoverInv, PopoverTypes, Deliver
<1>2. PICK b \in BOOLEAN : b = armed' /\ ~b
  BY <1>1
<1>3. /\ Tail(events) \in Seq(Event) /\ \A x : Has(Tail(events), x) => Has(events, x)
      /\ Head(events) # "play" => DueOf(Tail(events), armed) <= DueOf(events, armed)
  BY <1>1, DueTold
<1>4. player' \in Player /\ player'.clip = player.clip /\ player'.data = "failed"
  <2>1. PICK yes \in BOOLEAN : yes = TRUE
    OBVIOUS
  <2>2. player' = [player EXCEPT !.data = "failed", !.paused = yes]
    BY <1>1, <2>1
  <2>3. QED
    BY <1>1, <2>2 DEF Player
<1>5. PopoverTypes'
  BY <1>1, <1>2, <1>3, <1>4 DEF PopoverInv, PopoverTypes
<1>6. Due' <= Due
  <2>1. /\ DueOf(Tail(events), b) <= DueOf(Tail(events), armed)
        /\ DueOf(Tail(events), b) \in Nat /\ DueOf(Tail(events), armed) \in Nat
    BY <1>1, <1>2, <1>3, DueType
  <2>2. DueOf(Tail(events), armed) <= DueOf(events, armed) /\ DueOf(events, armed) \in Nat
    BY <1>1, <1>3, DueType
  <2>3. PICK x, y, z : x = DueOf(Tail(events), b) /\ y = DueOf(Tail(events), armed)
                       /\ z = DueOf(events, armed)
    OBVIOUS
  <2>4. x <= z
    BY <2>1, <2>2, <2>3
  <2>5. Due = z /\ Due' = x
    BY <1>1, <1>2, <2>3 DEF Due
  <2>6. QED
    BY <2>4, <2>5
<1>7. player'.data = "ready" \/ Has(events, "playing")' => heard'[player.clip] > 0
  BY <1>1, <1>3, <1>4 DEF PopoverInv, ReportsAreHeard
<1>8. \A p \in Phonemes : heard'[p] >= heard[p]
  BY <1>1, PopoverNow
<1>9. QED
  BY <1>1, <1>4, <1>5, <1>6, <1>7, <1>8, QuietTold

LEMMA DeliverKeeps ==
  ASSUME PopoverInv, Deliver
  PROVE  PopoverInv'
<1>1. events # <<>> /\ events \in Seq(Event) /\ Head(events) \in Event
  BY DEF PopoverInv, PopoverTypes, Deliver
<1>2. CASE Head(events) = "play"
  BY <1>1, <1>2, StartTold
<1>3. CASE Head(events) = "playing"
  <2>1. /\ Report /\ events' = Tail(events)
        /\ UNCHANGED <<openFor, player, heard, hydration, presses, asked>>
    BY <1>3 DEF Deliver
  <2>2. Has(events, "playing")
    BY <1>1, <1>3, DueTold DEF PopoverInv, PopoverTypes
  <2>3. QED
    BY <1>1, <1>3, <2>1, <2>2, SignTold
<1>4. CASE Head(events) = "timeupdate"
  <2>1. /\ events' = Tail(events)
        /\ UNCHANGED <<openFor, player, heard, hydration, presses, asked>>
        /\ \/ player.data = "ready" /\ Report
           \/ UNCHANGED <<armed, pending, sent>>
    BY <1>4 DEF Deliver
  <2>2. CASE player.data = "ready" /\ Report
    BY <1>1, <1>4, <2>1, <2>2, SignTold
  <2>3. CASE UNCHANGED <<armed, pending, sent>>
    BY <1>1, <1>4, <2>1, <2>3, UnheardTold
  <2>4. QED
    BY <2>1, <2>2, <2>3
<1>5. CASE Head(events) = "canplay"
  BY <1>1, <1>5, DataTold
<1>6. CASE Head(events) = "error"
  BY <1>1, <1>6, FailureTold
<1>7. QED
  BY <1>1, <1>2, <1>3, <1>4, <1>5, <1>6 DEF Event


------------------------------------------------------------------------------
(* The learner's steps.                                                    *)

(* A press that starts nothing.                                            *)
LEMMA SilentKeeps ==
  ASSUME PopoverInv, Presses, UNCHANGED mediaVars,
         openFor' \in Phonemes \cup {Nobody}, openFor' \in Voiced => player.clip = openFor'
  PROVE  PopoverInv'
<1>1. PICK n, d : n = presses /\ d = Due
  OBVIOUS
<1>2. /\ n \in Nat /\ d \in Nat /\ presses' = n + 1 /\ n + 1 \in 0..MaxPresses /\ d = Due'
  BY <1>1, PopoverNow, PopoverAssumption DEF Presses, mediaVars, Due
<1>3. PopoverTypes'
  BY <1>1, <1>2 DEF PopoverInv, PopoverTypes, Presses, mediaVars
<1>4. ReportsAreDue'
  <2>1. \A p \in Phonemes : Listens(p)' = Listens(p) /\ Listens(p) \in Nat
    BY PopoverNow DEF Presses, Listens
  <2>2. ASSUME NEW p \in Phonemes PROVE Listens(p)' + d <= n + 1
    <3>1. PICK l \in Nat : l = Listens(p) /\ l = Listens(p)'
      BY <2>1
    <3>2. l + d <= n
      BY <1>1, <3>1 DEF PopoverInv, ReportsAreDue
    <3>3. QED
      BY <1>2, <3>1, <3>2
  <2>3. ASSUME NEW p \in Voiced PROVE Listens(p)' + (IF player.clip = p THEN d ELSE 0) <= asked[p]
    BY <1>1, <2>1, PopoverAssumption DEF PopoverInv, ReportsAreDue
  <2>4. player' = player /\ asked' = asked
    BY DEF mediaVars
  <2>5. QED
    BY <1>2, <2>2, <2>3, <2>4 DEF ReportsAreDue
<1>5. PlayerFits'
  BY DEF PopoverInv, PlayerFits, Presses, mediaVars
<1>6. ReportsAreHeard'
  BY DEF PopoverInv, ReportsAreHeard, Presses, mediaVars, Has, Listens
<1>7. QED
  BY <1>3, <1>4, <1>5, <1>6 DEF PopoverInv, Presses

(* What a start needs, whether its clip is loaded for it or restarted.     *)
LEMMA StartKeeps ==
  ASSUME PopoverInv, NEW p \in Voiced, Presses, openFor' = p,
         player' \in Player, player'.clip = p, events' \in Seq(Event),
         DueOf(events', armed) <= (IF player.clip = p THEN Due ELSE 0) + 1,
         asked' = [asked EXCEPT ![p] = @ + 1],
         heard' \in [Phonemes -> Nat], \A q \in Phonemes : heard'[q] >= heard[q],
         player'.data = "ready" \/ Has(events, "playing")' => heard'[p] > 0
  PROVE  PopoverInv'
<1>1. PICK n, d, e, c, A : /\ n = presses /\ d = Due /\ e = DueOf(events', armed)
                           /\ c = player.clip /\ A = asked
  OBVIOUS
<1>2. p \in Phonemes /\ p # Nobody
  BY PopoverAssumption
<1>3. /\ n \in Nat /\ d \in Nat /\ e \in Nat /\ presses' = n + 1 /\ n + 1 \in 0..MaxPresses
      /\ e = Due' /\ e <= (IF c = p THEN d ELSE 0) + 1 /\ A \in [Phonemes -> Nat]
  <2>1. armed \in BOOLEAN /\ asked \in [Phonemes -> Nat]
    BY DEF PopoverInv, PopoverTypes
  <2>2. DueOf(events', armed) \in Nat
    BY <2>1, DueType
  <2>3. Due' = DueOf(events', armed)
    BY DEF Due, Presses
  <2>4. QED
    BY <1>1, <2>1, <2>2, <2>3, PopoverNow, PopoverAssumption DEF Presses
<1>4. PICK a : a = A[p] + 1
  OBVIOUS
<1>5. /\ a \in Nat /\ asked' = [A EXCEPT ![p] = a] /\ asked'[p] = A[p] + 1
      /\ \A q \in Phonemes : q # p => asked'[q] = A[q]
  BY <1>1, <1>2, <1>3, <1>4
<1>6. PopoverTypes'
  <2>1. /\ asked' \in [Phonemes -> Nat] /\ presses' \in 0..MaxPresses
        /\ openFor' \in Phonemes \cup {Nobody}
    <3>1. [A EXCEPT ![p] = a] \in [Phonemes -> Nat]
      BY <1>3, <1>5
    <3>2. QED
      BY <1>2, <1>3, <1>5, <3>1
  <2>2. /\ armed' \in BOOLEAN /\ hydration' \in {"open", "failed", "passive", "recording"}
        /\ pending' \in [Phonemes -> Nat] /\ sent' \in [Phonemes -> Nat]
    BY DEF PopoverInv, PopoverTypes, Presses
  <2>3. QED
    BY <2>1, <2>2 DEF PopoverTypes
<1>7. \A q \in Phonemes : Listens(q)' = Listens(q) /\ Listens(q) \in Nat
  BY PopoverNow DEF Presses, Listens
<1>8. ReportsAreDue'
  <2>1. ASSUME NEW q \in Phonemes PROVE Listens(q)' + e <= n + 1
    <3>1. PICK l \in Nat : l = Listens(q) /\ l = Listens(q)'
      BY <1>7
    <3>2. l + d <= n
      BY <1>1, <3>1 DEF PopoverInv, ReportsAreDue
    <3>3. QED
      BY <1>3, <3>1, <3>2
  <2>2. ASSUME NEW q \in Voiced PROVE Listens(q)' + (IF p = q THEN e ELSE 0) <= asked'[q]
    <3>1. q \in Phonemes
      BY PopoverAssumption
    <3>2. PICK l \in Nat : l = Listens(q) /\ l = Listens(q)'
      BY <1>7, <3>1
    <3>3. l + (IF c = q THEN d ELSE 0) <= A[q] /\ A[q] \in Nat
      BY <1>1, <1>3, <3>1, <3>2 DEF PopoverInv, ReportsAreDue
    <3>4. CASE p = q
      BY <1>3, <1>5, <3>2, <3>3, <3>4
    <3>5. CASE p # q
      BY <1>3, <1>5, <3>1, <3>2, <3>3, <3>5
    <3>6. QED
      BY <3>4, <3>5
  <2>3. QED
    BY <1>3, <2>1, <2>2 DEF ReportsAreDue
<1>9. PlayerFits'
  BY <1>2 DEF PlayerFits
<1>10. ReportsAreHeard'
  <2>1. ASSUME NEW q \in Voiced, Listens(q) > 0 PROVE heard'[q] > 0
    <3>1. PICK h, k : h = heard[q] /\ k = heard'[q]
      OBVIOUS
    <3>2. h > 0 /\ k >= h /\ h \in Nat /\ k \in Nat
      BY <2>1, <3>1, PopoverAssumption DEF PopoverInv, ReportsAreHeard, PopoverTypes
    <3>3. QED
      BY <3>1, <3>2
  <2>2. QED
    BY <1>7, <2>1, PopoverAssumption DEF ReportsAreHeard
<1>11. QED
  BY <1>6, <1>8, <1>9, <1>10 DEF PopoverInv, Presses


LEMMA PlayKeeps ==
  ASSUME PopoverInv, NEW p \in Phonemes, Presses, openFor' = p, Play(p)
  PROVE  PopoverInv'
<1>1. /\ player \in Player /\ events \in Seq(Event) /\ armed \in BOOLEAN
      /\ heard \in [Phonemes -> Nat]
  BY DEF PopoverInv, PopoverTypes
<1>2. CASE p \notin Voiced \/ (player.clip = p /\ player.data = "failed")
  <2>1. UNCHANGED mediaVars
    BY <1>2 DEF Play
  <2>2. QED
    BY <1>2, <2>1, SilentKeeps
<1>3. CASE p \in Voiced /\ player.clip # p
  <2>1. /\ player' = [clip |-> p, data |-> "loading", paused |-> FALSE, under |-> FALSE]
        /\ events' = <<>> \o <<>> \o <<"play">> \o <<>>
        /\ asked' = [asked EXCEPT ![p] = @ + 1] /\ heard' = heard
    BY <1>3 DEF Play
  <2>2. events' = <<"play">>
    BY <2>1
  <2>3. /\ events' \in Seq(Event) /\ DueOf(events', armed) = 1 /\ ~Has(events, "playing")'
    BY <1>1, <2>2, DueFirst
  <2>4. player' \in Player /\ player'.clip = p /\ player'.data = "loading"
    BY <1>3, <2>1, Zenon DEF Player
  <2>5. \A q \in Phonemes : heard'[q] >= heard[q]
    BY <2>1, PopoverNow
  <2>6. DueOf(events', armed) <= (IF player.clip = p THEN Due ELSE 0) + 1
    BY <1>3, <2>3
  <2>7. QED
    BY <1>1, <1>3, <2>1, <2>3, <2>4, <2>5, <2>6, StartKeeps
<1>4. CASE p \in Voiced /\ player.clip = p /\ player.data # "failed"
  <2>1. PICK stopped \in {<<>>, <<"timeupdate">>}, told \in {<<>>, <<"playing">>} :
          /\ events' = events \o stopped \o <<"play">> \o told
          /\ told # <<>> => player.data = "ready"
    BY <1>4 DEF Play
  <2>2. /\ player' = [clip |-> p, data |-> player.data, paused |-> FALSE, under |-> FALSE]
        /\ asked' = [asked EXCEPT ![p] = @ + 1]
        /\ heard' = IF player.data = "ready" THEN [heard EXCEPT ![p] = @ + 1] ELSE heard
    BY <1>4 DEF Play
  <2>3. PICK s, d : s = events /\ d = player.data /\ s \in Seq(Event)
    BY <1>1
  <2>4. PICK q : q = s \o stopped \o <<"play">> \o told
    OBVIOUS
  <2>5. /\ q \in Seq(Event) /\ q # <<>> /\ Plays(q) = Plays(s) + 1
        /\ Head(q) = Head(s) \/ (s = <<>> /\ Head(q) \in {"timeupdate", "play"})
        /\ Has(q, "playing") => Has(s, "playing") \/ told # <<>>
    <3>1. LET r == s \o stopped \o <<"play">> \o told
          IN  /\ r \in Seq(Event) /\ r # <<>> /\ Plays(r) = Plays(s) + 1
              /\ Head(r) = Head(s) \/ (s = <<>> /\ Head(r) \in {"timeupdate", "play"})
              /\ Has(r, "playing") => Has(s, "playing") \/ told # <<>>
      BY <2>3, PlaysPressed
    <3>2. QED
      BY <2>4, <3>1
  <2>6. events' = q /\ DueOf(q, armed) <= DueOf(s, armed) + 1
    BY <1>1, <2>1, <2>3, <2>4, <2>5, DuePressed
  <2>7. DueOf(events', armed) <= (IF player.clip = p THEN Due ELSE 0) + 1
    BY <1>4, <2>3, <2>6 DEF Due
  <2>8. player' \in Player /\ player'.clip = p /\ player'.data = d
    <3>1. PICK no \in BOOLEAN : no = FALSE
      OBVIOUS
    <3>2. player' = [clip |-> p, data |-> d, paused |-> no, under |-> no]
      BY <2>2, <2>3, <3>1
    <3>3. d \in {"none", "loading", "arriving", "ready", "failed"}
      BY <1>1, <2>3 DEF Player
    <3>4. QED
      BY <1>4, <3>2, <3>3 DEF Player
  <2>9. PICK h : h = heard[p] + 1
    OBVIOUS
  <2>10. heard' = (IF d = "ready" THEN [heard EXCEPT ![p] = h] ELSE heard) /\ h \in Nat
         /\ h > 0 /\ h >= heard[p]
    BY <1>1, <2>2, <2>3, <2>9
  <2>11. /\ heard' \in [Phonemes -> Nat] /\ \A x \in Phonemes : heard'[x] >= heard[x]
         /\ d = "ready" => heard'[p] > 0
         /\ d # "ready" => heard'[p] = heard[p]
    <3>1. CASE d = "ready"
      <4>1. /\ heard' \in [Phonemes -> Nat] /\ heard'[p] = h
            /\ \A x \in Phonemes : x # p => heard'[x] = heard[x]
        BY <1>1, <2>10, <3>1
      <4>2. \A x \in Phonemes : heard[x] \in Nat
        BY <1>1
      <4>3. QED
        BY <2>10, <3>1, <4>1, <4>2
    <3>2. CASE d # "ready"
      BY <1>1, <2>10, <3>2
    <3>3. QED
      BY <3>1, <3>2
  <2>12. player'.data = "ready" \/ Has(events, "playing")' => heard'[p] > 0
    <3>1. CASE d = "ready"
      BY <2>11, <3>1
    <3>2. CASE d # "ready"
      <4>1. Has(q, "playing") => Has(s, "playing")
        BY <2>1, <2>3, <2>5, <3>2
      <4>2. Has(s, "playing") => heard[p] > 0
        BY <1>4, <2>3 DEF PopoverInv, ReportsAreHeard
      <4>3. QED
        BY <2>6, <2>8, <2>11, <3>2, <4>1, <4>2
    <3>3. QED
      BY <3>1, <3>2
  <2>13. events' \in Seq(Event)
    BY <2>5, <2>6
  <2>14. QED
    BY <1>4, <2>2, <2>7, <2>8, <2>11, <2>12, <2>13, StartKeeps
<1>5. QED
  BY <1>2, <1>3, <1>4

LEMMA HydrateKeeps ==
  ASSUME PopoverInv, Hydrate
  PROVE  PopoverInv'
<1>1. /\ sent \in [Phonemes -> Nat] /\ pending \in [Phonemes -> Nat] /\ sent = None
      /\ pending' = None /\ sent' \in {sent, pending}
      /\ hydration' \in {"open", "failed", "passive", "recording"}
      /\ hydration' # "recording" => sent' = None
      /\ UNCHANGED <<openFor, player, events, armed, asked, heard, presses>>
  BY DEF PopoverInv, PopoverTypes, Hydrate
<1>2. None \in [Phonemes -> Nat] /\ \A p \in Phonemes : None[p] = 0
  BY DEF None
<1>3. PopoverTypes'
  BY <1>1, <1>2 DEF PopoverInv, PopoverTypes
<1>4. \A p \in Phonemes : Listens(p)' <= Listens(p) /\ Listens(p) \in Nat /\ Listens(p)' \in Nat
  BY <1>1, <1>2 DEF Listens
<1>5. Due' = Due
  BY <1>1 DEF Due
<1>6. Due' <= Due /\ Due' \in Nat
  BY <1>5, PopoverNow
<1>7. ReportsAreDue'
  BY <1>1, <1>3, <1>4, <1>6, NothingMoreIsDue
<1>8. PlayerFits'
  BY <1>1 DEF PopoverInv, PlayerFits
<1>9. ReportsAreHeard'
  <2>1. ASSUME NEW p \in Voiced, Listens(p)' > 0 PROVE heard'[p] > 0
    <3>1. Listens(p) > 0
      BY <1>4, <2>1, PopoverAssumption
    <3>2. QED
      BY <1>1, <3>1 DEF PopoverInv, ReportsAreHeard
  <2>2. player'.data = "ready" \/ Has(events, "playing")' => heard'[player'.clip] > 0
    BY <1>1 DEF PopoverInv, ReportsAreHeard, Has
  <2>3. QED
    BY <2>1, <2>2 DEF ReportsAreHeard
<1>10. (hydration # "recording" => sent = None)'
  BY <1>1 DEF None
<1>11. QED
  BY <1>3, <1>7, <1>8, <1>9, <1>10 DEF PopoverInv


LEMMA SaveHereKeeps ==
  ASSUME PopoverInv, SaveHere
  PROVE  PopoverInv'
<1>1. /\ hydration' = "recording"
      /\ UNCHANGED <<openFor, player, events, armed, pending, sent, asked, heard, presses>>
  BY DEF SaveHere
<1>2. PopoverTypes'
  BY <1>1 DEF PopoverInv, PopoverTypes
<1>3. PlayerFits' /\ ReportsAreDue' /\ ReportsAreHeard'
  BY <1>1 DEF PopoverInv, PlayerFits, ReportsAreDue, ReportsAreHeard, Due, Listens, Has
<1>4. QED
  BY <1>1, <1>2, <1>3 DEF PopoverInv

LEMMA PopoverStepKeeps ==
  ASSUME PopoverInv, [PopoverNext]_popVars
  PROVE  PopoverInv'
<1>1. CASE UNCHANGED popVars
  BY <1>1 DEF popVars, PopoverInv, PopoverTypes, PlayerFits, ReportsAreDue, ReportsAreHeard,
              Due, Listens, Has
<1>2. ASSUME NEW p \in Phonemes, Press(p) PROVE PopoverInv'
  <2>1. CASE openFor = p
    <3>1. /\ Presses /\ openFor' = Nobody /\ UNCHANGED mediaVars
      BY <1>2, <2>1 DEF Press
    <3>2. QED
      BY <3>1, SilentKeeps, PopoverAssumption
  <2>2. CASE openFor # p
    BY <1>2, <2>2, PlayKeeps DEF Press
  <2>3. QED
    BY <2>1, <2>2
<1>3. CASE Dismiss
  <2>1. Presses /\ openFor' = Nobody /\ UNCHANGED mediaVars
    BY <1>3 DEF Dismiss
  <2>2. QED
    BY <2>1, SilentKeeps, PopoverAssumption
<1>4. CASE Replay
  <2>1. PICK p \in Phonemes : p = openFor
    BY <1>4, PopoverAssumption DEF Replay
  <2>2. Presses /\ openFor' = p /\ Play(p)
    BY <1>4, <2>1 DEF Replay
  <2>3. QED
    BY <2>2, PlayKeeps
<1>5. CASE Load
  BY <1>5, LoadKeeps
<1>6. CASE Advance
  BY <1>6, AdvanceKeeps
<1>7. CASE Finish
  BY <1>7, FinishKeeps
<1>8. CASE Deliver
  BY <1>8, DeliverKeeps
<1>9. CASE Hydrate
  BY <1>9, HydrateKeeps
<1>10. CASE SaveHere
  BY <1>10, SaveHereKeeps
<1>11. QED
  BY <1>1, <1>2, <1>3, <1>4, <1>5, <1>6, <1>7, <1>8, <1>9, <1>10 DEF PopoverNext

(* The invariant holds in every state of the popover and of its player.    *)
THEOREM PopoverInductive == PopoverSpec => []PopoverInv
<1>1. PopoverInit => PopoverInv
  <2> SUFFICES ASSUME PopoverInit PROVE PopoverInv
    OBVIOUS
  <2>1. /\ openFor = Nobody /\ events = <<>> /\ armed = FALSE /\ hydration = "open"
        /\ pending = None /\ sent = None /\ asked = None /\ heard = None /\ presses = 0
        /\ player.clip = Nobody /\ player.data = "none"
    BY DEF PopoverInit
  <2>2. None \in [Phonemes -> Nat] /\ \A p \in Phonemes : None[p] = 0
    BY DEF None
  <2>3. player \in Player
    BY Zenon DEF PopoverInit, Player
  <2>4. PopoverTypes
    <3>1. events \in Seq(Event)
      BY <2>1
    <3>2. armed \in BOOLEAN
      BY Zenon DEF PopoverInit
    <3>3. QED
      BY <2>1, <2>2, <2>3, <3>1, <3>2, PopoverAssumption DEF PopoverTypes
  <2>5. PlayerFits
    BY <2>1, PopoverAssumption DEF PlayerFits
  <2>6. Due = 0
    BY <2>1, PlaysNone DEF Due, DueOf
  <2>7. ReportsAreDue
    BY <2>1, <2>2, <2>6, PopoverAssumption DEF ReportsAreDue, Listens
  <2>8. ReportsAreHeard
    BY <2>1, <2>2, PlaysNone, PopoverAssumption DEF ReportsAreHeard, Listens
  <2>9. QED
    BY <2>1, <2>4, <2>5, <2>7, <2>8 DEF PopoverInv
<1>2. PopoverInv /\ [PopoverNext]_popVars => PopoverInv'
  BY PopoverStepKeeps
<1>3. QED
  BY <1>1, <1>2, PTL DEF PopoverSpec

(* The types of phoneme-popover.js's state; there are no more listens than *)
(* presses.                                                                *)
THEOREM PopoverTypesHold == PopoverSpec => []PopoverTypeOK
<1>1. PopoverInv => PopoverTypeOK
  <2> SUFFICES ASSUME PopoverInv PROVE PopoverTypeOK
    OBVIOUS
  <2>1. /\ openFor \in Phonemes \cup {Nobody} /\ player \in Player /\ events \in Seq(Event)
        /\ armed \in BOOLEAN /\ hydration \in {"open", "failed", "passive", "recording"}
        /\ pending \in [Phonemes -> Nat] /\ sent \in [Phonemes -> Nat] /\ presses \in 0..MaxPresses
    BY DEF PopoverInv, PopoverTypes
  <2>2. player \in [clip : Voiced \cup {Nobody}, paused : BOOLEAN, under : BOOLEAN,
                    data : {"none", "loading", "arriving", "ready", "failed"}]
    BY <2>1 DEF Player
  <2>3. \A i \in DOMAIN events : events[i] \in {"play", "playing", "timeupdate", "canplay", "error"}
    BY <2>1 DEF Event
  <2>4. ASSUME NEW p \in Phonemes
        PROVE  pending[p] \in 0..MaxPresses /\ sent[p] \in 0..MaxPresses
    <3>1. sent[p] + pending[p] + Due <= presses /\ Due \in Nat
      BY PopoverNow DEF PopoverInv, ReportsAreDue, Listens
    <3>2. sent[p] \in Nat /\ pending[p] \in Nat /\ presses \in Nat /\ presses <= MaxPresses
          /\ MaxPresses \in Nat
      BY <2>1, PopoverAssumption
    <3>3. PICK d \in Nat : sent[p] + pending[p] + d <= presses
      BY <3>1
    <3>4. QED
      BY <3>2, <3>3
  <2>5. pending \in [Phonemes -> 0..MaxPresses] /\ sent \in [Phonemes -> 0..MaxPresses]
    BY <2>1, <2>4
  <2>6. QED
    BY <2>1, <2>2, <2>3, <2>5 DEF PopoverTypeOK
<1>2. QED
  BY <1>1, PopoverInductive, PTL

(* FR-SAVE-09: trackMedia of playback.js reports no more listens of a      *)
(* phoneme than starts were asked for, none before its clip was heard, and *)
(* sends none for a viewer without a history.                              *)
THEOREM ListensAreHeard == PopoverSpec => []ListensWereHeard
<1>1. PopoverInv => ListensWereHeard
  <2> SUFFICES ASSUME PopoverInv PROVE ListensWereHeard
    OBVIOUS
  <2>1. ASSUME NEW p \in Voiced
        PROVE  sent[p] + pending[p] <= asked[p] /\ (sent[p] + pending[p] > 0 => heard[p] > 0)
    <3>1. PICK l, d, a : l = Listens(p) /\ d = Due /\ a = asked[p]
      OBVIOUS
    <3>2. l \in Nat /\ d \in Nat /\ a \in Nat
      BY <3>1, PopoverNow, PopoverAssumption
    <3>3. l + (IF player.clip = p THEN d ELSE 0) <= a
      BY <3>1 DEF PopoverInv, ReportsAreDue
    <3>4. l <= a
      BY <3>2, <3>3
    <3>5. l > 0 => heard[p] > 0
      BY <3>1 DEF PopoverInv, ReportsAreHeard
    <3>6. QED
      BY <3>1, <3>4, <3>5 DEF Listens
  <2>2. hydration # "recording" => sent = None
    BY DEF PopoverInv
  <2>3. QED
    BY <2>1, <2>2 DEF ListensWereHeard
<1>2. QED
  BY <1>1, PopoverInductive, PTL

------------------------------------------------------------------------------
(* BrowserIdentity.                                                        *)

Kinds == {"document", "hydration", "save", "signIn", "signOut"}
Tokens == Subjects \cup {Nothing}
Sent == [kind : Kinds, way : {"out"}, uid : IdOrNothing, sid : SidOrNothing,
         token : Tokens, person : People \cup {Nothing}]
Returned == [kind : Kinds, way : {"back"}, uid : Ids, sid : SidOrNothing,
             token : Tokens, shows : ProgressOwners \cup {Nothing}]
Tab == [at : {"closed", "word", "form"}, step : {"ready", "waits", "loaded", "read"},
        token : Tokens, shows : ProgressOwners \cup {Nothing}]

BrowserTypes ==
  /\ jar \in [uid : IdOrNothing, sid : SidOrNothing] /\ mirror \in IdOrNothing
  /\ minted \in 0..MaxIds /\ begun \in 0..MaxSignIns /\ visits \in 0..MaxVisits
  /\ retired \subseteq profiled /\ profiled \subseteq 1..minted
  /\ signIns \in [SessionIds -> People \cup {Nothing}]
  /\ page \in [Pages -> Tab]
  /\ wire \in [Pages -> {Quiet} \cup Sent \cup Returned]
  /\ landed \subseteq (ProgressOwners \cup {Nothing}) \X ProgressOwners \X BOOLEAN
  /\ crowded \in BOOLEAN

(* Identities in the browser and sessions that live were given out.        *)
Minted(u) == u = Nothing \/ u <= minted
GivenOut ==
  /\ Minted(jar.uid) /\ Minted(mirror)
  /\ \A t \in Pages : wire[t] # Quiet => Minted(wire[t].uid)
  /\ \A s \in SessionIds : signIns[s] # Nothing => s <= begun

(* What a token stands for is what was shown with it, as long as it is     *)
(* anybody's; no token stands for an identity or a session to come.        *)
Fits(token, shows) ==
  /\ \A a \in Ids : token = [anonymous |-> a] => a <= minted /\ shows = AnonOwner(a)
  /\ \A s \in SessionIds :
       token = [session |-> s] =>
         s <= begun /\ (signIns[s] # Nothing => shows = PersonOwner(signIns[s]))

(* A tab, and the request or the answer that it waits for.                 *)
TabFits(t) ==
  /\ page[t].step = "waits" <=> wire[t] # Quiet
  /\ wire[t].kind \in {"hydration", "save"} => page[t].at = "word"
  /\ wire[t].kind \in {"document", "signIn", "signOut"} => page[t].at = "form"
  /\ wire[t].kind = "save" /\ wire[t].way = "out" => wire[t].token = page[t].token
  /\ wire[t].kind = "hydration" /\ wire[t].way = "back" => Fits(wire[t].token, wire[t].shows)
  /\ page[t].at = "word" => Fits(page[t].token, page[t].shows)

BrowserFits == BrowserTypes /\ GivenOut /\ (\A t \in Pages : TabFits(t)) /\ SavesLandWhereShown

(* What is saved and no account's is, with one tab at a time, in the mirror*)
(* or nothing is: the cookie, a request, an answer that has it as well.    *)
Ours(u) == u \in profiled \ retired
Mirrored(u) == mirror \in {u, Nothing}
Alone == \A t, o \in Pages : page[t] # Blank /\ page[o] # Blank => t = o

Keeps(p, w) ==
  /\ w # Quiet /\ Ours(w.uid) => Mirrored(w.uid)
  /\ w.kind = "hydration" => mirror \in {w.uid, Nothing} \cup retired
  /\ p.step = "read" /\ jar.uid # Nothing => mirror \in {jar.uid, Nothing} \cup retired
  /\ w.kind = "save" /\ w.uid # Nothing /\ p.token = [anonymous |-> w.uid] => Mirrored(w.uid)
  /\ /\ p.at = "word" /\ (p.step = "ready" \/ w.kind = "save")
     /\ jar.uid # Nothing /\ p.token = [anonymous |-> jar.uid]
     => Mirrored(jar.uid)

BrowserKeeps ==
  ~crowded => /\ Alone
              /\ Ours(jar.uid) => Mirrored(jar.uid)
              /\ \A t \in Pages : Keeps(page[t], wire[t])

BrowserInv == BrowserFits /\ BrowserKeeps


(* Owners and tokens of different kinds differ.                            *)
LEMMA Constructors ==
  /\ \A a, b : [anonymous |-> a] = [anonymous |-> b] => a = b
  /\ \A a, b : [session |-> a] = [session |-> b] => a = b
  /\ \A a, b : [anonymous |-> a] # [session |-> b]
  /\ \A a \in Ids : [anonymous |-> a] \in Subjects /\ AnonOwner(a) \in ProgressOwners
  /\ \A s \in SessionIds : [session |-> s] \in Subjects
  /\ \A u \in People : PersonOwner(u) \in ProgressOwners
<1>1. \A a, b : [anonymous |-> a] = [anonymous |-> b] => a = b
  <2>1. ASSUME NEW a, NEW b, [anonymous |-> a] = [anonymous |-> b] PROVE a = b
    <3>1. [anonymous |-> a].anonymous = [anonymous |-> b].anonymous
      BY <2>1
    <3>2. QED BY <3>1
  <2>2. QED BY <2>1
<1>2. \A a, b : [session |-> a] = [session |-> b] => a = b
  <2>1. ASSUME NEW a, NEW b, [session |-> a] = [session |-> b] PROVE a = b
    <3>1. [session |-> a].session = [session |-> b].session
      BY <2>1
    <3>2. QED BY <3>1
  <2>2. QED BY <2>1
<1>3. \A a, b : [anonymous |-> a] # [session |-> b]
  <2>1. SUFFICES ASSUME NEW a, NEW b, [anonymous |-> a] = [session |-> b] PROVE FALSE
    OBVIOUS
  <2>2. DOMAIN [anonymous |-> a] = {"anonymous"} /\ DOMAIN [session |-> b] = {"session"}
    OBVIOUS
  <2>3. QED BY <2>1, <2>2
<1>4. \A a \in Ids : [anonymous |-> a] \in Subjects /\ AnonOwner(a) \in ProgressOwners
  BY DEF Subjects, ProgressOwners, AnonOwner
<1>5. \A s \in SessionIds : [session |-> s] \in Subjects
  BY DEF Subjects
<1>6. \A u \in People : PersonOwner(u) \in ProgressOwners
  BY DEF ProgressOwners
<1>7. QED BY <1>1, <1>2, <1>3, <1>4, <1>5, <1>6

(* What travels is a request or an answer.                                 *)
LEMMA Letters ==
  ASSUME NEW w \in {Quiet} \cup Sent \cup Returned
  PROVE  /\ w.kind = "none" <=> w = Quiet
         /\ w.kind # "none" /\ w.way = "out" => w \in Sent
         /\ w.kind # "none" /\ w.way = "back" => w \in Returned
         /\ w \in Sent => w.kind \in Kinds /\ w.kind # "none" /\ w.way = "out" /\ w.uid \in IdOrNothing
         /\ w \in Returned => w.kind \in Kinds /\ w.kind # "none" /\ w.way = "back" /\ w.uid \in Ids
BY DEF Quiet, Sent, Returned, Kinds

(* Steps take nothing back that was given out, and a session that is begun *)
(* goes on or is over.                                                     *)
Onward ==
  /\ minted <= minted' /\ begun <= begun'
  /\ \A s \in SessionIds : s <= begun => signIns'[s] \in {signIns[s], Nothing}

LEMMA FitsStay ==
  ASSUME NEW token, NEW shows, BrowserTypes, BrowserTypes', Onward, Fits(token, shows)
  PROVE  Fits(token, shows)'
<1>1. minted \in Nat /\ minted' \in Nat /\ begun \in Nat /\ begun' \in Nat
  BY IdentityBounds DEF BrowserTypes
<1>2. ASSUME NEW a \in Ids, token = [anonymous |-> a]
      PROVE  a <= minted' /\ shows = AnonOwner(a)
  BY <1>1, <1>2 DEF Fits, Onward, Ids
<1>3. ASSUME NEW s \in SessionIds, token = [session |-> s]
      PROVE  s <= begun' /\ (signIns'[s] # Nothing => shows = PersonOwner(signIns'[s]))
  BY <1>1, <1>3 DEF Fits, Onward, SessionIds
<1>4. QED BY <1>2, <1>3 DEF Fits

(* A step of one tab leaves the others as they were.                       *)
LEMMA OtherTabs ==
  ASSUME BrowserTypes, BrowserTypes', Onward, NEW o \in Pages, TabFits(o),
         page'[o] = page[o], wire'[o] = wire[o]
  PROVE  TabFits(o)'
<1>1. PICK p : p = page[o]
  OBVIOUS
<1>2. PICK w : w = wire[o]
  OBVIOUS
<1>3. page'[o] = p /\ wire'[o] = w
  BY <1>1, <1>2
<1>4. w.kind = "hydration" /\ w.way = "back" => Fits(w.token, w.shows)'
  BY FitsStay, <1>2 DEF TabFits
<1>5. p.at = "word" => Fits(p.token, p.shows)'
  BY FitsStay, <1>1 DEF TabFits
<1>6. QED BY <1>1, <1>2, <1>3, <1>4, <1>5 DEF TabFits

LEMMA TabStep ==
  ASSUME BrowserFits, BrowserTypes', Onward, NEW t \in Pages,
         \A o \in Pages \ {t} : page'[o] = page[o] /\ wire'[o] = wire[o],
         Minted(jar.uid)', Minted(mirror)',
         wire'[t] # Quiet => Minted(wire[t].uid)',
         \A s \in SessionIds : signIns'[s] # Nothing => s <= begun',
         TabFits(t)', SavesLandWhereShown'
  PROVE  BrowserFits'
<1>1. minted \in Nat /\ minted' \in Nat
  BY IdentityBounds DEF BrowserTypes, BrowserFits
<1>2. \A o \in Pages : TabFits(o)'
  BY OtherTabs DEF BrowserFits
<1>3. ASSUME NEW o \in Pages, wire'[o] # Quiet PROVE Minted(wire[o].uid)'
  <2>1. CASE o = t
    BY <1>3, <2>1
  <2>2. CASE o # t
    <3>1. wire'[o] = wire[o]
      BY <2>2
    <3>2. wire[o] # Quiet /\ wire[o] \in {Quiet} \cup Sent \cup Returned
      BY <1>3, <3>1 DEF BrowserTypes, BrowserFits
    <3>3. PICK u \in IdOrNothing : u = wire[o].uid
      BY <3>2, Letters DEF IdOrNothing, Sent, Returned
    <3>4. Minted(u)
      BY <3>2, <3>3 DEF BrowserFits, GivenOut
    <3>5. Minted(u)'
      BY <1>1, <3>3, <3>4 DEF Minted, Onward, IdOrNothing, Ids
    <3>6. QED BY <3>1, <3>3, <3>5 DEF Minted
  <2>3. QED BY <2>1, <2>2
<1>4. GivenOut'
  BY <1>3 DEF GivenOut
<1>5. QED BY <1>2, <1>4 DEF BrowserFits


(* What the server reads off a request, and what it answers, was given out.*)
LEMMA IdentityGivenOut ==
  ASSUME BrowserTypes, NEW r \in Sent, Minted(r.uid), MayMint(r), minted' = MintedAfter(r)
  PROVE  /\ Identity(r) \in Ids /\ Identity(r) <= minted'
         /\ minted <= minted' /\ minted' \in 0..MaxIds
         /\ Carried(r) => Identity(r) = r.uid /\ r.uid \in Ids
         /\ Identity(r) <= minted => Carried(r)
         /\ Identity(r) \notin retired
<1>1. minted \in Nat /\ MaxIds \in Nat /\ minted <= MaxIds /\ retired \subseteq 1..minted
  BY IdentityBounds DEF BrowserTypes
<1>2. r.uid \in IdOrNothing
  BY DEF Sent
<1>3. CASE Carried(r)
  <2>1. r.uid \in Ids /\ r.uid <= minted /\ r.uid \notin retired
    BY <1>2, <1>3 DEF Carried, IdOrNothing, Minted
  <2>2. Identity(r) = r.uid /\ minted' = minted
    BY <1>3 DEF Identity, MintedAfter
  <2>3. QED BY <1>1, <1>3, <2>1, <2>2
<1>4. CASE ~Carried(r)
  <2>1. minted + 1 <= MaxIds
    BY <1>1, <1>4 DEF MayMint
  <2>2. Identity(r) = minted + 1 /\ minted' = minted + 1
    BY <1>4 DEF Identity, MintedAfter, Fresh1
  <2>3. QED BY <1>1, <1>4, <2>1, <2>2 DEF Ids
<1>5. QED BY <1>3, <1>4

LEMMA SubjectFits ==
  ASSUME BrowserTypes, GivenOut, NEW r \in Sent, Minted(r.uid), MayMint(r),
         minted' = MintedAfter(r), begun' = begun, signIns' = signIns,
         NEW k, k = Subject(r), NEW o, o = Acting(r)
  PROVE  k \in Subjects /\ o \in ProgressOwners /\ Fits(k, o)'
<1>1. Identity(r) \in Ids /\ Identity(r) <= minted'
  BY IdentityGivenOut
<1>2. PICK i \in Ids : i = Identity(r) /\ i <= minted'
  BY <1>1
<1>3. CASE Live(r)
  <2>1. r.sid \in SessionIds /\ signIns[r.sid] # Nothing
    BY <1>3 DEF Live, Sent, SidOrNothing
  <2>2. PICK s \in SessionIds : s = r.sid
    BY <2>1
  <2>3. signIns[s] \in People /\ s <= begun
    BY <2>1, <2>2 DEF BrowserTypes, GivenOut
  <2>4. k = [session |-> s] /\ o = PersonOwner(signIns[s])
    BY <1>3, <2>2 DEF Subject, Acting
  <2>5. k \in Subjects /\ o \in ProgressOwners
    BY <2>3, <2>4, Constructors
  <2>6. \A a \in Ids : k # [anonymous |-> a]
    BY <2>4, Constructors
  <2>7. ASSUME NEW s2 \in SessionIds, k = [session |-> s2] PROVE s2 = s
    BY <2>4, <2>7, Constructors
  <2>8. Fits(k, o)'
    BY <2>3, <2>4, <2>6, <2>7 DEF Fits
  <2>9. QED BY <2>5, <2>8
<1>4. CASE ~Live(r)
  <2>1. k = [anonymous |-> i] /\ o = AnonOwner(i)
    BY <1>2, <1>4 DEF Subject, Acting
  <2>2. k \in Subjects /\ o \in ProgressOwners
    BY <2>1, Constructors
  <2>3. \A s \in SessionIds : k # [session |-> s]
    BY <2>1, Constructors
  <2>4. ASSUME NEW a \in Ids, k = [anonymous |-> a] PROVE a = i
    BY <2>1, <2>4, Constructors
  <2>5. Fits(k, o)'
    BY <1>2, <2>1, <2>3, <2>4 DEF Fits
  <2>6. QED BY <2>2, <2>5
<1>5. QED BY <1>3, <1>4


(* A request is served.                                                    *)
LEMMA Served ==
  ASSUME BrowserFits, NEW t \in Pages, NEW r \in Sent, r = wire[t], NEW a \in Returned,
         a.kind = r.kind, wire' = [wire EXCEPT ![t] = a], clientVars' = clientVars,
         Onward, a.uid <= minted', minted' \in 0..MaxIds, begun' \in 0..MaxSignIns,
         retired' \subseteq profiled', profiled' \subseteq 1..minted',
         signIns' \in [SessionIds -> People \cup {Nothing}],
         \A s \in SessionIds : signIns'[s] # Nothing => s <= begun',
         landed' \subseteq (ProgressOwners \cup {Nothing}) \X ProgressOwners \X BOOLEAN,
         SavesLandWhereShown',
         a.kind = "hydration" => Fits(a.token, a.shows)'
  PROVE  BrowserFits'
<1>1. /\ page' = page /\ jar' = jar /\ mirror' = mirror /\ visits' = visits
      /\ crowded' = crowded
  BY DEF clientVars, openVars
<1>2. BrowserTypes /\ minted \in Nat /\ minted' \in Nat /\ minted <= minted'
  BY IdentityBounds DEF BrowserFits, BrowserTypes, Onward
<1>3. BrowserTypes'
  BY <1>1, <1>2 DEF BrowserTypes
<1>4. /\ \A o \in Pages \ {t} : wire'[o] = wire[o]
      /\ wire'[t] = a
  BY <1>2 DEF BrowserTypes
<1>5. wire[t] # Quiet /\ wire'[t] # Quiet /\ a.way = "back" /\ r.kind # "none"
  BY <1>4, Letters
<1>6. TabFits(t)'
  <2>1. TabFits(t)
    BY DEF BrowserFits
  <2>2. PICK p : p = page[t]
    OBVIOUS
  <2>3. page'[t] = p
    BY <1>1, <2>2
  <2>4. p.at = "word" => Fits(p.token, p.shows)'
    BY <1>2, <1>3, <2>1, <2>2, FitsStay DEF TabFits
  <2>5. QED BY <1>4, <1>5, <2>1, <2>2, <2>3, <2>4 DEF TabFits
<1>7. Minted(jar.uid)' /\ Minted(mirror)'
  <2>1. jar.uid \in IdOrNothing /\ mirror \in IdOrNothing
    BY <1>2 DEF BrowserTypes
  <2>2. Minted(jar.uid) /\ Minted(mirror)
    BY DEF BrowserFits, GivenOut
  <2>3. QED BY <1>1, <1>2, <2>1, <2>2 DEF Minted, IdOrNothing, Ids
<1>8. Minted(wire[t].uid)'
  BY <1>4 DEF Minted
<1>9. \A o \in Pages \ {t} : page'[o] = page[o] /\ wire'[o] = wire[o]
  BY <1>1, <1>4
<1>10. QED BY <1>3, <1>6, <1>7, <1>8, <1>9, TabStep

LEMMA AnswerTypes ==
  ASSUME NEW r \in Sent, NEW uid \in Ids, NEW sid \in SidOrNothing, NEW token \in Tokens,
         NEW shows \in ProgressOwners \cup {Nothing}, NEW a, a = Answer(r, uid, sid, token, shows)
  PROVE  /\ a \in Returned /\ a.kind = r.kind /\ a.uid = uid /\ a.sid = sid
         /\ a.token = token /\ a.shows = shows
BY DEF Answer, Sent, Returned

(* What the routes share: the request, and the identity it was answered for*)
LEMMA Asked ==
  ASSUME BrowserFits, NEW t \in Pages, NEW k \in Kinds, Waiting(t, k, "out"),
         NEW r, r = wire[t]
  PROVE  /\ r \in Sent /\ r.kind = k /\ Minted(r.uid) /\ r # Quiet
         /\ r.uid \in IdOrNothing /\ r.sid \in SidOrNothing /\ r.token \in Tokens
         /\ r.person \in People \cup {Nothing}
<1>1. r \in {Quiet} \cup Sent \cup Returned
  BY DEF BrowserFits, BrowserTypes
<1>2. r.kind = k /\ r.way = "out" /\ r.kind # "none"
  BY DEF Waiting, Kinds
<1>3. r \in Sent
  BY <1>1, <1>2, Letters
<1>4. r # Quiet
  BY <1>1, <1>2, Letters
<1>5. QED BY <1>2, <1>3, <1>4 DEF BrowserFits, GivenOut, Sent

LEMMA ReadFits ==
  ASSUME BrowserFits, NEW t \in Pages, ServeDocument(t) \/ ServeHydration(t)
  PROVE  BrowserFits'
<1>1. PICK r : r = wire[t]
  OBVIOUS
<1>2. r \in Sent /\ r.kind \in {"document", "hydration"} /\ Minted(r.uid) /\ r.sid \in SidOrNothing
  BY <1>1, Asked DEF ServeDocument, ServeHydration, Kinds
<1>3. MayMint(r) /\ minted' = MintedAfter(r)
  BY <1>1 DEF ServeDocument, ServeHydration
<1>4. PICK i : i = Identity(r)
  OBVIOUS
<1>5. PICK k : k = Subject(r)
  OBVIOUS
<1>6. PICK o : o = Acting(r)
  OBVIOUS
<1>7. BrowserTypes /\ GivenOut
  BY DEF BrowserFits
<1>8. i \in Ids /\ i <= minted' /\ minted <= minted' /\ minted' \in 0..MaxIds
  BY <1>2, <1>3, <1>4, <1>7, IdentityGivenOut
<1>9. k \in Subjects /\ o \in ProgressOwners /\ Fits(k, o)'
  BY <1>2, <1>3, <1>5, <1>6, <1>7, SubjectFits DEF ServeDocument, ServeHydration
<1>10. PICK shows : shows = IF r.kind = "hydration" THEN o ELSE Nothing
  OBVIOUS
<1>11. PICK a : a = Answer(r, i, r.sid, k, shows)
  OBVIOUS
<1>12. a \in Returned /\ a.kind = r.kind /\ a.uid = i /\ a.token = k /\ a.shows = shows
  BY <1>2, <1>8, <1>9, <1>10, <1>11, AnswerTypes DEF Tokens
<1>13. wire' = [wire EXCEPT ![t] = a]
  <2>1. CASE ServeDocument(t)
    <3>1. r.kind = "document"
      BY <1>1, <2>1 DEF ServeDocument, Waiting
    <3>2. QED BY <1>1, <1>4, <1>5, <1>10, <1>11, <2>1, <3>1 DEF ServeDocument
  <2>2. CASE ServeHydration(t)
    <3>1. r.kind = "hydration"
      BY <1>1, <2>2 DEF ServeHydration, Waiting
    <3>2. QED BY <1>1, <1>4, <1>5, <1>6, <1>10, <1>11, <2>2, <3>1 DEF ServeHydration
  <2>3. QED BY <2>1, <2>2
<1>14. a.kind = "hydration" => Fits(a.token, a.shows)'
  BY <1>9, <1>10, <1>12
<1>15. /\ clientVars' = clientVars /\ retired' = retired /\ profiled' = profiled
       /\ signIns' = signIns /\ begun' = begun /\ landed' = landed
  BY DEF ServeDocument, ServeHydration
<1>16. /\ retired' \subseteq profiled' /\ profiled' \subseteq 1..minted'
       /\ signIns' \in [SessionIds -> People \cup {Nothing}] /\ begun' \in 0..MaxSignIns
       /\ \A s \in SessionIds : signIns'[s] # Nothing => s <= begun'
       /\ landed' \subseteq (ProgressOwners \cup {Nothing}) \X ProgressOwners \X BOOLEAN
       /\ SavesLandWhereShown'
  BY <1>7, <1>8, <1>15, IdentityBounds DEF BrowserTypes, GivenOut, SavesLandWhereShown, BrowserFits
<1>17. Onward
  BY <1>7, <1>8, <1>15, IdentityBounds DEF Onward, BrowserTypes
<1>18. QED BY <1>1, <1>2, <1>8, <1>12, <1>13, <1>14, <1>15, <1>16, <1>17, Served


(* A save that is accepted changes what its page shows.                    *)
LEMMA SaveLands ==
  ASSUME BrowserFits, NEW t \in Pages, NEW r \in Sent, r = wire[t], r.kind = "save",
         TokenHolds(r), MayMint(r), minted' = MintedAfter(r)
  PROVE  /\ page[t].shows = Acting(r)
         /\ ~Live(r) => Identity(r) \notin retired /\ Carried(r)
<1>1. page[t].at = "word" /\ r.token = page[t].token /\ Fits(page[t].token, page[t].shows)
  BY Letters DEF BrowserFits, BrowserTypes, TabFits
<1>2. r.token = Subject(r)
  BY DEF TokenHolds
<1>3. BrowserTypes /\ Minted(r.uid)
  BY Letters DEF BrowserFits, GivenOut
<1>4. /\ Identity(r) \in Ids
      /\ Identity(r) <= minted => Carried(r)
      /\ Identity(r) \notin retired
  BY <1>3, IdentityGivenOut
<1>5. CASE Live(r)
  <2>1. r.sid \in SessionIds /\ signIns[r.sid] # Nothing
    BY <1>5 DEF Live, Sent, SidOrNothing
  <2>2. page[t].token = [session |-> r.sid]
    BY <1>1, <1>2, <1>5 DEF Subject
  <2>3. page[t].shows = PersonOwner(signIns[r.sid])
    BY <1>1, <2>1, <2>2 DEF Fits
  <2>4. QED BY <1>5, <2>3 DEF Acting
<1>6. CASE ~Live(r)
  <2>1. page[t].token = [anonymous |-> Identity(r)]
    BY <1>1, <1>2, <1>6 DEF Subject
  <2>2. PICK i \in Ids : i = Identity(r)
    BY <1>4
  <2>3. i <= minted /\ page[t].shows = AnonOwner(i)
    BY <1>1, <2>1, <2>2 DEF Fits
  <2>4. page[t].shows = Acting(r)
    BY <1>6, <2>2, <2>3 DEF Acting
  <2>5. QED BY <1>4, <2>2, <2>3, <2>4
<1>7. QED BY <1>5, <1>6

LEMMA SaveFits ==
  ASSUME BrowserFits, NEW t \in Pages, ServeSave(t)
  PROVE  BrowserFits'
<1>1. PICK r : r = wire[t]
  OBVIOUS
<1>2. /\ r \in Sent /\ r.kind = "save" /\ Minted(r.uid) /\ r.sid \in SidOrNothing
      /\ r.uid \in IdOrNothing
  BY <1>1, Asked DEF ServeSave, Kinds
<1>3. MayMint(r) /\ minted' = MintedAfter(r)
  BY <1>1 DEF ServeSave
<1>4. PICK i : i = Identity(r)
  OBVIOUS
<1>5. PICK k : k = Subject(r)
  OBVIOUS
<1>6. PICK o : o = Acting(r)
  OBVIOUS
<1>7. BrowserTypes /\ GivenOut
  BY DEF BrowserFits
<1>8. i \in Ids /\ i <= minted' /\ minted <= minted' /\ minted' \in 0..MaxIds
  BY <1>2, <1>3, <1>4, <1>7, IdentityGivenOut
<1>9. o \in ProgressOwners
  BY <1>2, <1>3, <1>5, <1>6, <1>7, SubjectFits DEF ServeSave
<1>10. PICK a : a = Answer(r, i, r.sid, Nothing, Nothing)
  OBVIOUS
<1>11. a \in Returned /\ a.kind = r.kind /\ a.uid = i
  BY <1>2, <1>8, <1>10, AnswerTypes DEF Tokens
<1>12. wire' = [wire EXCEPT ![t] = a]
  BY <1>1, <1>4, <1>10 DEF ServeSave
<1>13. /\ clientVars' = clientVars /\ retired' = retired
       /\ signIns' = signIns /\ begun' = begun
  BY DEF ServeSave
<1>14. minted \in Nat /\ minted' \in Nat /\ MaxIds \in Nat
  BY <1>7, <1>8, IdentityBounds DEF BrowserTypes
<1>15. profiled \subseteq profiled' /\ profiled' \subseteq 1..minted'
  <2>1. profiled \subseteq 1..minted'
    BY <1>7, <1>8, <1>14 DEF BrowserTypes
  <2>2. CASE TokenHolds(r) /\ ~Live(r)
    <3>1. Carried(r)
      BY <1>1, <1>2, <1>3, <2>2, SaveLands
    <3>2. r.uid \in 1..minted'
      BY <1>2, <1>8, <1>14, <3>1 DEF Carried, Minted, IdOrNothing, Ids
    <3>3. profiled' = profiled \cup {r.uid}
      BY <1>1, <2>2 DEF ServeSave
    <3>4. QED BY <2>1, <3>2, <3>3
  <2>3. CASE ~(TokenHolds(r) /\ ~Live(r))
    <3>1. profiled' = profiled
      BY <1>1, <2>3 DEF ServeSave
    <3>2. QED BY <2>1, <3>1
  <2>4. QED BY <2>2, <2>3
<1>16. /\ landed' \subseteq (ProgressOwners \cup {Nothing}) \X ProgressOwners \X BOOLEAN
       /\ SavesLandWhereShown'
  <2>1. /\ landed \subseteq (ProgressOwners \cup {Nothing}) \X ProgressOwners \X BOOLEAN
        /\ \A l \in landed : l[1] = l[2] /\ ~l[3]
    BY <1>7 DEF BrowserTypes, BrowserFits, SavesLandWhereShown
  <2>2. CASE TokenHolds(r)
    <3>1. page[t].shows = o /\ (~Live(r) => i \notin retired)
      BY <1>1, <1>2, <1>3, <1>4, <1>6, <2>2, SaveLands
    <3>2. PICK late \in BOOLEAN : late = (~Live(r) /\ i \in retired)
      OBVIOUS
    <3>3. ~late
      BY <3>1, <3>2
    <3>4. landed' = landed \cup {<<page[t].shows, o, ~Live(r) /\ i \in retired>>}
      BY <1>1, <1>4, <1>6, <2>2 DEF ServeSave
    <3>5. landed' = landed \cup {<<o, o, late>>}
      BY <3>1, <3>2, <3>4
    <3>6. <<o, o, late>> \in (ProgressOwners \cup {Nothing}) \X ProgressOwners \X BOOLEAN
      BY <1>9
    <3>7. \A l \in landed' : l[1] = l[2] /\ ~l[3]
      BY <2>1, <3>3, <3>5
    <3>8. QED BY <2>1, <3>5, <3>6, <3>7 DEF SavesLandWhereShown
  <2>3. CASE ~TokenHolds(r)
    <3>1. landed' = landed
      BY <1>1, <2>3 DEF ServeSave
    <3>2. QED BY <2>1, <3>1 DEF SavesLandWhereShown
  <2>4. QED BY <2>2, <2>3
<1>17. /\ retired' \subseteq profiled'
       /\ signIns' \in [SessionIds -> People \cup {Nothing}] /\ begun' \in 0..MaxSignIns
       /\ \A s \in SessionIds : signIns'[s] # Nothing => s <= begun'
  BY <1>7, <1>13, <1>15 DEF BrowserTypes, GivenOut
<1>18. Onward
  BY <1>7, <1>8, <1>13, IdentityBounds DEF Onward, BrowserTypes
<1>19. QED
  BY <1>1, <1>2, <1>8, <1>11, <1>12, <1>13, <1>15, <1>16, <1>17, <1>18, Served


LEMMA SignInFits ==
  ASSUME BrowserFits, NEW t \in Pages, ServeSignIn(t)
  PROVE  BrowserFits'
<1>1. PICK r : r = wire[t]
  OBVIOUS
<1>2. /\ r \in Sent /\ r.kind = "signIn" /\ Minted(r.uid) /\ r.sid \in SidOrNothing
      /\ r.uid \in IdOrNothing /\ r.person \in People \cup {Nothing}
  BY <1>1, Asked DEF ServeSignIn, Kinds
<1>3. MayMint(r)
  BY <1>1 DEF ServeSignIn
<1>4. BrowserTypes /\ GivenOut /\ SavesLandWhereShown
  BY DEF BrowserFits
<1>5. /\ minted \in Nat /\ MaxIds \in Nat /\ begun \in Nat /\ MaxSignIns \in Nat
      /\ minted <= MaxIds /\ begun <= MaxSignIns
  BY <1>4, IdentityBounds DEF BrowserTypes
<1>6. /\ clientVars' = clientVars /\ profiled' = profiled /\ landed' = landed
  BY DEF ServeSignIn
<1>7. CASE TokenHolds(r)
  <2>1. begun < MaxSignIns /\ (Mergeable(r) => minted < MaxIds)
    BY <1>1, <1>7 DEF ServeSignIn
  <2>2. /\ minted' = IF Mergeable(r) THEN Fresh1 ELSE MintedAfter(r)
        /\ retired' = IF Mergeable(r) THEN retired \cup {r.uid} ELSE retired
        /\ begun' = begun + 1
        /\ signIns' = [Ended(r) EXCEPT ![begun + 1] = r.person]
        /\ wire' = [wire EXCEPT ![t] =
             Answer(r, IF Mergeable(r) THEN Fresh1 ELSE Identity(r), begun + 1, Nothing, Nothing)]
    BY <1>1, <1>7 DEF ServeSignIn
  <2>3. PICK i : i = IF Mergeable(r) THEN Fresh1 ELSE Identity(r)
    OBVIOUS
  <2>4. /\ i \in Ids /\ i <= minted' /\ minted <= minted' /\ minted' \in 0..MaxIds
        /\ retired' \subseteq profiled
    <3>1. CASE Mergeable(r)
      <4>1. i = minted + 1 /\ minted' = minted + 1 /\ r.uid \in profiled
        BY <2>2, <2>3, <3>1 DEF Fresh1, Mergeable
      <4>2. retired' = retired \cup {r.uid} /\ retired \subseteq profiled
        BY <1>4, <2>2, <3>1 DEF BrowserTypes
      <4>3. QED BY <1>5, <2>1, <3>1, <4>1, <4>2 DEF Ids
    <3>2. CASE ~Mergeable(r)
      <4>1. i = Identity(r) /\ minted' = MintedAfter(r) /\ retired' = retired
        BY <2>2, <2>3, <3>2
      <4>2. QED BY <1>2, <1>3, <1>4, <4>1, IdentityGivenOut DEF BrowserTypes
    <3>3. QED BY <3>1, <3>2
  <2>5. PICK s \in SessionIds : s = begun + 1
    BY <1>5, <2>1 DEF SessionIds
  <2>6. PICK a : a = Answer(r, i, s, Nothing, Nothing)
    OBVIOUS
  <2>7. a \in Returned /\ a.kind = r.kind /\ a.uid = i
    BY <1>2, <2>4, <2>5, <2>6, AnswerTypes DEF Tokens, SidOrNothing
  <2>8. wire' = [wire EXCEPT ![t] = a]
    BY <2>2, <2>3, <2>5, <2>6
  <2>9. /\ Ended(r) \in [SessionIds -> People \cup {Nothing}]
        /\ \A z \in SessionIds : Ended(r)[z] \in {signIns[z], Nothing}
    BY <1>4 DEF BrowserTypes, Ended
  <2>10. /\ signIns' \in [SessionIds -> People \cup {Nothing}]
         /\ \A z \in SessionIds \ {s} : signIns'[z] = Ended(r)[z]
    BY <1>2, <2>2, <2>5, <2>9
  <2>11. \A z \in SessionIds : signIns'[z] # Nothing => z <= begun'
    <3>1. SUFFICES ASSUME NEW z \in SessionIds, z # s, signIns'[z] # Nothing PROVE z <= begun'
      BY <1>5, <2>2, <2>5 DEF SessionIds
    <3>2. signIns[z] # Nothing
      BY <2>9, <2>10, <3>1
    <3>3. QED BY <1>4, <1>5, <2>2, <3>2 DEF GivenOut, SessionIds
  <2>12. Onward
    <3>1. \A z \in SessionIds : z <= begun => signIns'[z] \in {signIns[z], Nothing}
      BY <1>5, <2>5, <2>9, <2>10 DEF SessionIds
    <3>2. QED BY <1>5, <2>2, <2>4, <3>1 DEF Onward
  <2>13. /\ retired' \subseteq profiled' /\ profiled' \subseteq 1..minted'
         /\ begun' \in 0..MaxSignIns
         /\ landed' \subseteq (ProgressOwners \cup {Nothing}) \X ProgressOwners \X BOOLEAN
    BY <1>4, <1>5, <1>6, <2>1, <2>2, <2>4 DEF BrowserTypes
  <2>14. SavesLandWhereShown'
    BY <1>4, <1>6 DEF SavesLandWhereShown
  <2>15. QED
    BY <1>1, <1>2, <1>6, <2>4, <2>7, <2>8, <2>10, <2>11, <2>12, <2>13, <2>14, Served
<1>8. CASE ~TokenHolds(r)
  <2>1. PICK i : i = Identity(r)
    OBVIOUS
  <2>2. /\ minted' = MintedAfter(r) /\ retired' = retired /\ begun' = begun /\ signIns' = signIns
        /\ wire' = [wire EXCEPT ![t] = Answer(r, i, r.sid, Nothing, Nothing)]
    BY <1>1, <1>8, <2>1 DEF ServeSignIn
  <2>3. i \in Ids /\ i <= minted' /\ minted <= minted' /\ minted' \in 0..MaxIds
    BY <1>2, <1>3, <1>4, <2>1, <2>2, IdentityGivenOut
  <2>4. PICK a : a = Answer(r, i, r.sid, Nothing, Nothing)
    OBVIOUS
  <2>5. a \in Returned /\ a.kind = r.kind /\ a.uid = i
    <3>1. Nothing \in Tokens /\ Nothing \in ProgressOwners \cup {Nothing}
      BY DEF Tokens
    <3>2. r \in Sent /\ i \in Ids /\ r.sid \in SidOrNothing
      BY <1>2, <2>3
    <3>3. QED BY <2>4, <3>1, <3>2, AnswerTypes
  <2>6. /\ retired' \subseteq profiled' /\ profiled' \subseteq 1..minted'
        /\ signIns' \in [SessionIds -> People \cup {Nothing}] /\ begun' \in 0..MaxSignIns
        /\ \A s \in SessionIds : signIns'[s] # Nothing => s <= begun'
        /\ landed' \subseteq (ProgressOwners \cup {Nothing}) \X ProgressOwners \X BOOLEAN
    BY <1>4, <1>5, <1>6, <2>2, <2>3 DEF BrowserTypes, GivenOut
  <2>7. SavesLandWhereShown'
    BY <1>4, <1>6 DEF SavesLandWhereShown
  <2>8. Onward
    BY <1>5, <2>2, <2>3 DEF Onward
  <2>9. QED BY <1>1, <1>2, <1>6, <2>2, <2>3, <2>4, <2>5, <2>6, <2>7, <2>8, Served
<1>9. QED BY <1>7, <1>8

LEMMA SignOutFits ==
  ASSUME BrowserFits, NEW t \in Pages, ServeSignOut(t)
  PROVE  BrowserFits'
<1>1. PICK r : r = wire[t]
  OBVIOUS
<1>2. /\ r \in Sent /\ r.kind = "signOut" /\ Minted(r.uid) /\ r.sid \in SidOrNothing
  BY <1>1, Asked DEF ServeSignOut, Kinds
<1>3. MayMint(r) /\ minted' = MintedAfter(r)
  BY <1>1 DEF ServeSignOut
<1>4. BrowserTypes /\ GivenOut /\ SavesLandWhereShown
  BY DEF BrowserFits
<1>5. PICK i : i = Identity(r)
  OBVIOUS
<1>6. i \in Ids /\ i <= minted' /\ minted <= minted' /\ minted' \in 0..MaxIds
  BY <1>2, <1>3, <1>4, <1>5, IdentityGivenOut
<1>7. PICK leaves \in BOOLEAN : leaves = (~Live(r) \/ TokenHolds(r))
  OBVIOUS
<1>8. PICK sid : sid = IF leaves THEN Nothing ELSE r.sid
  OBVIOUS
<1>9. PICK a : a = Answer(r, i, sid, Nothing, Nothing)
  OBVIOUS
<1>10. sid \in SidOrNothing
  BY <1>2, <1>8 DEF SidOrNothing
<1>11. a \in Returned /\ a.kind = r.kind /\ a.uid = i
  BY <1>2, <1>6, <1>9, <1>10, AnswerTypes DEF Tokens
<1>12. wire' = [wire EXCEPT ![t] = a]
  BY <1>1, <1>5, <1>7, <1>8, <1>9 DEF ServeSignOut
<1>13. /\ clientVars' = clientVars /\ retired' = retired /\ profiled' = profiled
       /\ begun' = begun /\ landed' = landed
       /\ signIns' = IF leaves THEN Ended(r) ELSE signIns
  BY <1>1, <1>7 DEF ServeSignOut
<1>14. /\ signIns' \in [SessionIds -> People \cup {Nothing}]
       /\ \A s \in SessionIds : signIns'[s] \in {signIns[s], Nothing}
  BY <1>4, <1>13 DEF BrowserTypes, Ended
<1>15. \A s \in SessionIds : signIns'[s] # Nothing => s <= begun'
  BY <1>4, <1>13, <1>14 DEF GivenOut
<1>16. /\ retired' \subseteq profiled' /\ profiled' \subseteq 1..minted'
       /\ begun' \in 0..MaxSignIns
       /\ landed' \subseteq (ProgressOwners \cup {Nothing}) \X ProgressOwners \X BOOLEAN
  BY <1>4, <1>6, <1>13, IdentityBounds DEF BrowserTypes
<1>17. SavesLandWhereShown'
  BY <1>4, <1>13 DEF SavesLandWhereShown
<1>18. Onward
  BY <1>4, <1>6, <1>13, <1>14, IdentityBounds DEF Onward, BrowserTypes
<1>19. QED
  BY <1>1, <1>2, <1>6, <1>11, <1>12, <1>13, <1>14, <1>15, <1>16, <1>17, <1>18, Served


(* A step in the browser: the server's state stays.                        *)
LEMMA InBrowser ==
  ASSUME BrowserFits, serverVars' = serverVars, NEW t \in Pages, NEW p \in Tab,
         NEW w \in {Quiet} \cup Sent \cup Returned,
         page' = [page EXCEPT ![t] = p], wire' = [wire EXCEPT ![t] = w],
         jar' \in [uid : IdOrNothing, sid : SidOrNothing], mirror' \in IdOrNothing,
         visits' \in 0..MaxVisits, crowded' \in BOOLEAN,
         Minted(jar'.uid), Minted(mirror'), w # Quiet => Minted(w.uid),
         p.step = "waits" <=> w # Quiet,
         w.kind \in {"hydration", "save"} => p.at = "word",
         w.kind \in {"document", "signIn", "signOut"} => p.at = "form",
         w.kind = "save" /\ w.way = "out" => w.token = p.token,
         w.kind = "hydration" /\ w.way = "back" => Fits(w.token, w.shows),
         p.at = "word" => Fits(p.token, p.shows)
  PROVE  BrowserFits'
<1>1. /\ minted' = minted /\ retired' = retired /\ profiled' = profiled
      /\ signIns' = signIns /\ begun' = begun /\ landed' = landed
  BY DEF serverVars
<1>2. BrowserTypes /\ GivenOut /\ SavesLandWhereShown
  BY DEF BrowserFits
<1>3. BrowserTypes'
  BY <1>1, <1>2 DEF BrowserTypes
<1>4. minted \in Nat /\ begun \in Nat
  BY <1>2, IdentityBounds DEF BrowserTypes
<1>5. Onward
  BY <1>1, <1>2, <1>4 DEF Onward, BrowserTypes
<1>6. /\ \A o \in Pages \ {t} : page'[o] = page[o] /\ wire'[o] = wire[o]
      /\ page'[t] = p /\ wire'[t] = w
  BY <1>2 DEF BrowserTypes
<1>7. TabFits(t)'
  <2>1. w.kind = "hydration" /\ w.way = "back" => Fits(w.token, w.shows)'
    BY <1>2, <1>3, <1>5, FitsStay
  <2>2. p.at = "word" => Fits(p.token, p.shows)'
    BY <1>2, <1>3, <1>5, FitsStay
  <2>3. QED BY <1>6, <2>1, <2>2 DEF TabFits
<1>8. Minted(jar.uid)' /\ Minted(mirror)' /\ (wire'[t] # Quiet => Minted(wire[t].uid)')
  BY <1>1, <1>6 DEF Minted
<1>9. \A s \in SessionIds : signIns'[s] # Nothing => s <= begun'
  BY <1>1, <1>2 DEF GivenOut
<1>10. SavesLandWhereShown'
  BY <1>1, <1>2 DEF SavesLandWhereShown
<1>11. QED BY <1>3, <1>5, <1>6, <1>7, <1>8, <1>9, <1>10, TabStep

LEMMA BlankTab ==
  /\ Blank \in Tab /\ Blank.at = "closed" /\ Blank.step = "ready"
  /\ Quiet.kind = "none"
  /\ Fits(Nothing, Nothing)
<1>1. Blank \in Tab /\ Blank.at = "closed" /\ Blank.step = "ready" /\ Quiet.kind = "none"
  BY DEF Blank, Tab, Tokens, Quiet
<1>2. \A a \in Ids : Nothing # [anonymous |-> a]
  BY Constructors, NothingAssumption
<1>3. \A s \in SessionIds : Nothing # [session |-> s]
  BY Constructors, NothingAssumption
<1>4. QED BY <1>1, <1>2, <1>3 DEF Fits

(* What a step in the browser finds.                                       *)
LEMMA BrowserFinds ==
  ASSUME BrowserFits, NEW t \in Pages
  PROVE  /\ jar \in [uid : IdOrNothing, sid : SidOrNothing] /\ mirror \in IdOrNothing
         /\ jar.uid \in IdOrNothing /\ jar.sid \in SidOrNothing
         /\ Minted(jar.uid) /\ Minted(mirror) /\ Minted(Nothing)
         /\ visits \in 0..MaxVisits /\ crowded \in BOOLEAN
         /\ page[t] \in Tab /\ wire[t] \in {Quiet} \cup Sent \cup Returned
         /\ page \in [Pages -> Tab] /\ wire \in [Pages -> {Quiet} \cup Sent \cup Returned]
         /\ TabFits(t) /\ (wire[t] # Quiet => Minted(wire[t].uid))
<1>1. BrowserTypes /\ GivenOut /\ TabFits(t)
  BY DEF BrowserFits
<1>2. Minted(Nothing)
  BY DEF Minted
<1>3. QED BY <1>1, <1>2 DEF BrowserTypes, GivenOut

LEMMA RequestTypes ==
  ASSUME BrowserFits, NEW kind \in Kinds, NEW token \in Tokens,
         NEW w, w = Request(kind, token)
  PROVE  /\ w \in Sent /\ w.kind = kind /\ w.token = token /\ w.way = "out"
         /\ w.uid = jar.uid /\ w # Quiet
<1>1. jar.uid \in IdOrNothing /\ jar.sid \in SidOrNothing
  BY DEF BrowserFits, BrowserTypes
<1>2. w \in Sent /\ w.kind = kind /\ w.token = token /\ w.way = "out" /\ w.uid = jar.uid
  BY <1>1 DEF Request, Sent
<1>3. QED BY <1>2, Letters

LEMMA OpenFits ==
  ASSUME BrowserFits, NEW t \in Pages, Open(t)
  PROVE  BrowserFits'
<1>1. PICK at \in {"word", "form"} :
        page' = [page EXCEPT ![t] = [Blank EXCEPT !.at = at,
                                                  !.step = IF at = "word" THEN "loaded" ELSE "waits"]]
        /\ IF at = "word" THEN wire' = wire
           ELSE wire' = [wire EXCEPT ![t] = Request("document", Nothing)]
  BY DEF Open
<1>2. PICK p : p = [Blank EXCEPT !.at = at, !.step = IF at = "word" THEN "loaded" ELSE "waits"]
  OBVIOUS
<1>3. /\ p \in Tab /\ p.at = at /\ p.token = Nothing /\ p.shows = Nothing
      /\ p.step = "waits" <=> at = "form"
  BY <1>2 DEF Blank, Tab, Tokens
<1>4. PICK w : w = IF at = "word" THEN Quiet ELSE Request("document", Nothing)
  OBVIOUS
<1>5. /\ w \in {Quiet} \cup Sent
      /\ w # Quiet <=> at = "form"
      /\ w.kind = IF at = "word" THEN "none" ELSE "document"
      /\ w # Quiet => w.uid = jar.uid
  BY <1>4, RequestTypes, BlankTab DEF Kinds, Tokens
<1>6. wire' = [wire EXCEPT ![t] = w]
  <2>1. CASE at = "form"
    BY <1>1, <1>4, <2>1
  <2>2. CASE at = "word"
    <3>1. page[t].step # "waits"
      BY BlankTab DEF Open
    <3>2. wire[t] = Quiet
      BY <3>1, BrowserFinds DEF TabFits
    <3>3. QED BY <1>1, <1>4, <2>2, <3>2, BrowserFinds
  <2>3. QED BY <2>1, <2>2
<1>7. visits' \in 0..MaxVisits
  BY BrowserFinds, IdentityBounds DEF Open
<1>8. PICK crowd \in BOOLEAN : crowd = (crowded \/ \E o \in Pages \ {t} : page[o] # Blank)
  OBVIOUS
<1>9. crowded' = crowd
  BY <1>8 DEF Open
<1>10. jar' = jar /\ mirror' = mirror /\ serverVars' = serverVars
  BY DEF Open
<1>11. page' = [page EXCEPT ![t] = p]
  BY <1>1, <1>2
<1>12. /\ jar' \in [uid : IdOrNothing, sid : SidOrNothing] /\ mirror' \in IdOrNothing
       /\ Minted(jar'.uid) /\ Minted(mirror') /\ (w # Quiet => Minted(w.uid))
       /\ crowded' \in BOOLEAN
  BY <1>5, <1>8, <1>9, <1>10, BrowserFinds
<1>13. p.at = "word" => Fits(p.token, p.shows)
  BY <1>3, BlankTab
<1>14. w \in {Quiet} \cup Sent \cup Returned /\ (p.step = "waits" <=> w # Quiet)
  BY <1>3, <1>5
<1>15. /\ w.kind \in {"hydration", "save"} => p.at = "word"
       /\ w.kind \in {"document", "signIn", "signOut"} => p.at = "form"
       /\ w.kind = "save" /\ w.way = "out" => w.token = p.token
       /\ w.kind = "hydration" /\ w.way = "back" => Fits(w.token, w.shows)
  BY <1>3, <1>5
<1>16. QED
  BY <1>3, <1>6, <1>7, <1>10, <1>11, <1>12, <1>13, <1>14, <1>15, InBrowser


LEMMA RunScriptsFits ==
  ASSUME BrowserFits, NEW t \in Pages, RunScripts(t)
  PROVE  BrowserFits'
<1>1. /\ Synced \in IdOrNothing /\ Minted(Synced)
      /\ mirror' \in IdOrNothing /\ Minted(mirror')
  BY BrowserFinds DEF RunScripts, Synced
<1>2. PICK u : u = Synced
  OBVIOUS
<1>3. jar' \in [uid : IdOrNothing, sid : SidOrNothing] /\ jar'.uid = u
  BY <1>1, <1>2, BrowserFinds DEF RunScripts
<1>4. /\ serverVars' = serverVars /\ visits' = visits /\ crowded' = crowded
  BY DEF RunScripts, openVars
<1>5. page[t] \in Tab /\ page[t].step = "loaded" /\ TabFits(t) /\ visits \in 0..MaxVisits
  BY BrowserFinds DEF RunScripts
<1>6. wire[t] = Quiet
  BY <1>5 DEF TabFits
<1>7. CASE page[t].at = "word"
  <2>1. PICK p : p = [page[t] EXCEPT !.step = "waits"]
    OBVIOUS
  <2>2. /\ p \in Tab /\ p.at = "word" /\ p.step = "waits"
        /\ p.token = page[t].token /\ p.shows = page[t].shows
    BY <1>5, <1>7, <2>1 DEF Tab
  <2>3. PICK q : q = Request("hydration", Nothing)
    OBVIOUS
  <2>4. q \in Sent /\ q.kind = "hydration" /\ q.way = "out"
    BY <2>3, RequestTypes DEF Kinds, Tokens
  <2>5. PICK w : w = [q EXCEPT !.uid = u]
    OBVIOUS
  <2>6. w \in Sent /\ w.kind = "hydration" /\ w.way = "out" /\ w.uid = u
    BY <1>1, <1>2, <2>4, <2>5 DEF Sent
  <2>7. w # Quiet
    BY <2>6, Letters
  <2>8. page' = [page EXCEPT ![t] = p] /\ wire' = [wire EXCEPT ![t] = w]
    BY <1>2, <1>7, <2>1, <2>3, <2>5 DEF RunScripts
  <2>9. p.at = "word" => Fits(p.token, p.shows)
    BY <1>5, <1>7, <2>2 DEF TabFits
  <2>10. QED
    BY <1>1, <1>2, <1>3, <1>4, <1>5, <2>2, <2>6, <2>7, <2>8, <2>9, BrowserFinds, InBrowser
<1>8. CASE page[t].at # "word"
  <2>1. PICK p : p = [page[t] EXCEPT !.step = "ready"]
    OBVIOUS
  <2>2. p \in Tab /\ p.at = page[t].at /\ p.step = "ready"
    BY <1>5, <2>1 DEF Tab
  <2>3. page' = [page EXCEPT ![t] = p] /\ wire' = [wire EXCEPT ![t] = Quiet]
    BY <1>6, <1>8, <2>1, BrowserFinds DEF RunScripts
  <2>4. QED
    BY <1>1, <1>2, <1>3, <1>4, <1>5, <1>8, <2>2, <2>3, BrowserFinds, BlankTab, InBrowser
<1>9. QED BY <1>7, <1>8

LEMMA ReceiveFits ==
  ASSUME BrowserFits, NEW t \in Pages, Receive(t)
  PROVE  BrowserFits'
<1>1. PICK a : a = wire[t]
  OBVIOUS
<1>2. /\ a \in Returned /\ a.uid \in Ids /\ a.sid \in SidOrNothing /\ a.kind \in Kinds
      /\ a.token \in Tokens /\ a.shows \in ProgressOwners \cup {Nothing} /\ a # Quiet
      /\ Minted(a.uid) /\ a.way = "back"
  BY <1>1, BrowserFinds, Letters DEF Receive, Returned
<1>3. jar' \in [uid : IdOrNothing, sid : SidOrNothing] /\ jar'.uid = a.uid
  BY <1>1, <1>2, BrowserFinds DEF Receive, IdOrNothing
<1>4. /\ serverVars' = serverVars /\ visits' = visits /\ crowded' = crowded /\ mirror' = mirror
      /\ wire' = [wire EXCEPT ![t] = Quiet]
  BY DEF Receive, openVars
<1>5. PICK p :
        p = CASE a.kind = "document" -> [page[t] EXCEPT !.step = "loaded", !.token = a.token]
              [] a.kind = "hydration" ->
                   [page[t] EXCEPT !.step = "read", !.token = a.token, !.shows = a.shows]
              [] a.kind = "save" -> [page[t] EXCEPT !.step = "ready"]
              [] OTHER -> Blank
  OBVIOUS
<1>6. page' = [page EXCEPT ![t] = p]
  BY <1>1, <1>5, BrowserFinds DEF Receive
<1>7. page[t] \in Tab /\ TabFits(t)
  BY BrowserFinds
<1>8. p \in Tab /\ p.step # "waits" /\ (p.at = "word" => Fits(p.token, p.shows))
  <2>1. CASE a.kind = "document"
    <3>1. p = [page[t] EXCEPT !.step = "loaded", !.token = a.token]
      BY <1>5, <2>1
    <3>2. page[t].at = "form"
      BY <1>1, <1>7, <2>1 DEF TabFits
    <3>3. QED BY <1>2, <1>7, <3>1, <3>2 DEF Tab
  <2>2. CASE a.kind = "hydration"
    <3>1. p = [page[t] EXCEPT !.step = "read", !.token = a.token, !.shows = a.shows]
      BY <1>5, <2>2
    <3>2. p \in Tab /\ p.step = "read" /\ p.token = a.token /\ p.shows = a.shows
      BY <1>2, <1>7, <3>1 DEF Tab
    <3>3. Fits(a.token, a.shows)
      BY <1>1, <1>2, <1>7, <2>2 DEF TabFits
    <3>4. QED BY <3>2, <3>3
  <2>3. CASE a.kind = "save"
    <3>1. p = [page[t] EXCEPT !.step = "ready"]
      BY <1>5, <2>3
    <3>2. /\ p \in Tab /\ p.step = "ready" /\ p.at = page[t].at
          /\ p.token = page[t].token /\ p.shows = page[t].shows
      BY <1>7, <3>1 DEF Tab
    <3>3. QED BY <1>7, <3>2 DEF TabFits
  <2>4. CASE a.kind \in {"signIn", "signOut"}
    <3>1. p = Blank
      BY <1>5, <2>4
    <3>2. QED BY <3>1, BlankTab
  <2>5. QED BY <1>2, <2>1, <2>2, <2>3, <2>4 DEF Kinds
<1>9. QED
  BY <1>2, <1>3, <1>4, <1>6, <1>8, BrowserFinds, BlankTab, InBrowser

LEMMA AdoptFits ==
  ASSUME BrowserFits, NEW t \in Pages, Adopt(t)
  PROVE  BrowserFits'
<1>1. page[t] \in Tab /\ page[t].step = "read" /\ TabFits(t)
  BY BrowserFinds DEF Adopt
<1>2. mirror' \in IdOrNothing /\ Minted(mirror') /\ jar' = jar
  BY BrowserFinds DEF Adopt
<1>3. PICK p : p = [page[t] EXCEPT !.step = "ready"]
  OBVIOUS
<1>4. /\ p \in Tab /\ p.step = "ready" /\ p.at = page[t].at
      /\ p.token = page[t].token /\ p.shows = page[t].shows
  BY <1>1, <1>3 DEF Tab
<1>5. wire[t] = Quiet
  BY <1>1 DEF TabFits
<1>6. page' = [page EXCEPT ![t] = p] /\ wire' = [wire EXCEPT ![t] = Quiet]
  BY <1>3, <1>5, BrowserFinds DEF Adopt
<1>7. serverVars' = serverVars /\ visits' = visits /\ crowded' = crowded
  BY DEF Adopt, openVars
<1>8. p.at = "word" => Fits(p.token, p.shows)
  BY <1>1, <1>4 DEF TabFits
<1>9. QED
  BY <1>2, <1>4, <1>6, <1>7, <1>8, BrowserFinds, BlankTab, InBrowser

LEMMA CloseFits ==
  ASSUME BrowserFits, NEW t \in Pages, Close(t)
  PROVE  BrowserFits'
<1>1. page' = [page EXCEPT ![t] = Blank] /\ wire' = [wire EXCEPT ![t] = Quiet]
  BY DEF Close
<1>2. /\ serverVars' = serverVars /\ visits' = visits /\ crowded' = crowded
      /\ jar' = jar /\ mirror' = mirror
  BY DEF Close, openVars
<1>3. QED BY <1>1, <1>2, BrowserFinds, BlankTab, InBrowser


LEMMA PostFits ==
  ASSUME BrowserFits, NEW t \in Pages,
         Save(t) \/ SignOut(t) \/ \E u \in People : SignIn(t, u)
  PROVE  BrowserFits'
<1>1. PICK kind \in {"save", "signIn", "signOut"}, u \in People \cup {Nothing} :
        /\ Post(t, kind, u)
        /\ page[t].at = IF kind = "save" THEN "word" ELSE "form"
  <2>1. CASE Save(t)
    BY <2>1 DEF Save, Ready
  <2>2. CASE SignOut(t)
    BY <2>2 DEF SignOut, Ready
  <2>3. CASE \E u \in People : SignIn(t, u)
    BY <2>3 DEF SignIn, Ready
  <2>4. QED BY <2>1, <2>2, <2>3
<1>2. page[t] \in Tab /\ TabFits(t)
  BY BrowserFinds
<1>3. PICK p : p = [page[t] EXCEPT !.step = "waits"]
  OBVIOUS
<1>4. /\ p \in Tab /\ p.step = "waits" /\ p.at = page[t].at
      /\ p.token = page[t].token /\ p.shows = page[t].shows
  BY <1>2, <1>3 DEF Tab
<1>5. page[t].token \in Tokens
  BY <1>2 DEF Tab
<1>6. PICK q : q = Request(kind, page[t].token)
  OBVIOUS
<1>7. q \in Sent /\ q.kind = kind /\ q.token = page[t].token /\ q.way = "out" /\ q.uid = jar.uid
  BY <1>5, <1>6, RequestTypes DEF Kinds
<1>8. PICK w : w = [q EXCEPT !.person = u]
  OBVIOUS
<1>9. w \in Sent /\ w.kind = kind /\ w.token = page[t].token /\ w.way = "out" /\ w.uid = jar.uid
  BY <1>7, <1>8 DEF Sent
<1>10. w # Quiet
  BY <1>9, Letters
<1>11. page' = [page EXCEPT ![t] = p] /\ wire' = [wire EXCEPT ![t] = w]
  BY <1>1, <1>3, <1>6, <1>8 DEF Post
<1>12. /\ serverVars' = serverVars /\ visits' = visits /\ crowded' = crowded
       /\ jar' = jar /\ mirror' = mirror
  BY <1>1 DEF Post, openVars
<1>13. p.at = "word" => Fits(p.token, p.shows)
  BY <1>2, <1>4 DEF TabFits
<1>14. /\ w.kind \in {"hydration", "save"} => p.at = "word"
       /\ w.kind \in {"document", "signIn", "signOut"} => p.at = "form"
       /\ w.kind = "save" /\ w.way = "out" => w.token = p.token
       /\ w.kind = "hydration" /\ w.way = "back" => Fits(w.token, w.shows)
  BY <1>1, <1>4, <1>9
<1>15. QED
  BY <1>4, <1>9, <1>10, <1>11, <1>12, <1>13, <1>14, BrowserFinds, InBrowser

(* A step of no tab.                                                       *)
LEMMA NoTabStep ==
  ASSUME BrowserFits, page' = page, wire' = wire, openVars' = openVars,
         minted' = minted, begun' = begun, retired' = retired, profiled' = profiled,
         landed' = landed, jar' \in [uid : IdOrNothing, sid : SidOrNothing],
         mirror' \in IdOrNothing, Minted(jar'.uid), Minted(mirror'),
         signIns' \in [SessionIds -> People \cup {Nothing}],
         \A s \in SessionIds : signIns'[s] \in {signIns[s], Nothing}
  PROVE  BrowserFits'
<1>1. BrowserTypes /\ GivenOut /\ SavesLandWhereShown /\ \A o \in Pages : TabFits(o)
  BY DEF BrowserFits
<1>2. BrowserTypes'
  BY <1>1 DEF BrowserTypes, openVars
<1>3. Onward
  BY <1>1, IdentityBounds DEF BrowserTypes, Onward
<1>4. GivenOut'
  <2>1. \A o \in Pages : wire'[o] # Quiet => Minted(wire[o].uid)'
    BY <1>1 DEF GivenOut, Minted
  <2>2. \A s \in SessionIds : signIns'[s] # Nothing => s <= begun'
    BY <1>1 DEF GivenOut
  <2>3. Minted(jar.uid)' /\ Minted(mirror)'
    BY DEF Minted
  <2>4. QED BY <2>1, <2>2, <2>3 DEF GivenOut
<1>5. \A o \in Pages : TabFits(o)'
  BY <1>1, <1>2, <1>3, OtherTabs
<1>6. SavesLandWhereShown'
  BY <1>1 DEF SavesLandWhereShown
<1>7. QED BY <1>2, <1>4, <1>5, <1>6 DEF BrowserFits

LEMMA ElsewhereFits ==
  ASSUME BrowserFits,
         (\E s \in SessionIds : Expire(s)) \/ ClearCookies \/ ClearAll \/ UNCHANGED browserVars
  PROVE  BrowserFits'
<1>1. /\ BrowserTypes /\ GivenOut
      /\ signIns \in [SessionIds -> People \cup {Nothing}]
      /\ jar \in [uid : IdOrNothing, sid : SidOrNothing] /\ mirror \in IdOrNothing
      /\ Minted(jar.uid) /\ Minted(mirror)
  BY DEF BrowserFits, BrowserTypes, GivenOut
<1>2. CASE \E s \in SessionIds : Expire(s)
  <2>1. PICK s \in SessionIds : Expire(s)
    BY <1>2
  <2>2. /\ signIns' \in [SessionIds -> People \cup {Nothing}]
        /\ \A z \in SessionIds : signIns'[z] \in {signIns[z], Nothing}
    BY <1>1, <2>1 DEF Expire
  <2>3. QED BY <1>1, <2>1, <2>2, NoTabStep DEF Expire, clientVars
<1>3. CASE ClearCookies \/ ClearAll \/ UNCHANGED browserVars
  <2>1. /\ page' = page /\ wire' = wire /\ openVars' = openVars
        /\ minted' = minted /\ begun' = begun /\ retired' = retired /\ profiled' = profiled
        /\ landed' = landed /\ signIns' = signIns
    BY <1>3 DEF ClearCookies, ClearAll, browserVars, serverVars, openVars
  <2>2. /\ jar' \in [uid : IdOrNothing, sid : SidOrNothing] /\ mirror' \in IdOrNothing
        /\ Minted(jar'.uid) /\ Minted(mirror')
    <3>1. jar' = jar \/ jar' = [uid |-> Nothing, sid |-> Nothing]
      BY <1>3 DEF ClearCookies, ClearAll, browserVars
    <3>2. mirror' \in {mirror, Nothing}
      BY <1>3 DEF ClearCookies, ClearAll, browserVars
    <3>3. QED BY <1>1, <3>1, <3>2 DEF IdOrNothing, SidOrNothing, Minted
  <2>3. QED BY <1>1, <2>1, <2>2, NoTabStep
<1>4. QED BY <1>2, <1>3

LEMMA FirstFits ==
  ASSUME BrowserInit
  PROVE  BrowserFits
<1>1. /\ jar = [uid |-> Nothing, sid |-> Nothing] /\ mirror = Nothing /\ minted = 0 /\ begun = 0
      /\ retired = {} /\ profiled = {} /\ signIns = [s \in SessionIds |-> Nothing]
      /\ page = [t \in Pages |-> Blank] /\ wire = [t \in Pages |-> Quiet]
      /\ visits = 0 /\ landed = {} /\ crowded \in BOOLEAN
  BY DEF BrowserInit
<1>2. BrowserTypes
  BY <1>1, BlankTab, IdentityBounds DEF BrowserTypes, IdOrNothing, SidOrNothing
<1>3. GivenOut
  BY <1>1 DEF GivenOut, Minted
<1>4. ASSUME NEW t \in Pages PROVE TabFits(t)
  <2>1. page[t] = Blank /\ wire[t] = Quiet
    BY <1>1
  <2>2. QED BY <2>1, BlankTab DEF TabFits
<1>5. SavesLandWhereShown
  BY <1>1 DEF SavesLandWhereShown
<1>6. QED BY <1>2, <1>3, <1>4, <1>5 DEF BrowserFits

LEMMA StepFits ==
  ASSUME BrowserFits, [BrowserNext]_browserVars
  PROVE  BrowserFits'
<1>1. ASSUME NEW t \in Pages,
             \/ Open(t) \/ ServeDocument(t) \/ RunScripts(t) \/ ServeHydration(t)
             \/ Receive(t) \/ Adopt(t) \/ Close(t)
             \/ Save(t) \/ ServeSave(t) \/ SignOut(t) \/ ServeSignOut(t)
             \/ ServeSignIn(t)
             \/ \E u \in People : SignIn(t, u)
      PROVE  BrowserFits'
  BY <1>1, OpenFits, ReadFits, RunScriptsFits, ReceiveFits, AdoptFits, CloseFits, PostFits,
     SaveFits, SignOutFits, SignInFits
<1>2. QED BY <1>1, ElsewhereFits DEF BrowserNext


(* With one tab at a time the others are blank, and wait for nothing.      *)
LEMMA AloneTab ==
  ASSUME BrowserInv, ~crowded, NEW t \in Pages, page[t] # Blank
  PROVE  /\ \A o \in Pages \ {t} : page[o] = Blank
         /\ Ours(jar.uid) => Mirrored(jar.uid)
         /\ Keeps(page[t], wire[t])
BY DEF BrowserInv, BrowserKeeps, Alone

LEMMA KeepsStep ==
  ASSUME BrowserInv, BrowserFits', NEW t \in Pages, NEW p \in Tab,
         NEW w \in {Quiet} \cup Sent \cup Returned,
         page' = [page EXCEPT ![t] = p], wire' = [wire EXCEPT ![t] = w],
         ~crowded' => \A o \in Pages \ {t} : page[o] = Blank,
         ~crowded' => (Ours(jar.uid)' => Mirrored(jar.uid)'),
         ~crowded' => Keeps(p, w)'
  PROVE  BrowserKeeps'
<1>1. SUFFICES ASSUME ~crowded'
               PROVE  /\ Alone'
                      /\ Ours(jar.uid)' => Mirrored(jar.uid)'
                      /\ \A o \in Pages : Keeps(page[o], wire[o])'
  BY DEF BrowserKeeps
<1>2. /\ \A o \in Pages \ {t} : page'[o] = Blank /\ wire'[o] = wire[o]
      /\ page'[t] = p /\ wire'[t] = w
  BY <1>1, BrowserFinds DEF BrowserInv
<1>3. Alone'
  BY <1>2 DEF Alone
<1>4. ASSUME NEW o \in Pages, o # t PROVE Keeps(page[o], wire[o])'
  <2>1. page'[o] = Blank /\ TabFits(o)'
    BY <1>2, <1>4 DEF BrowserFits
  <2>2. wire'[o] = Quiet
    BY <2>1, BlankTab DEF TabFits
  <2>3. QED BY <2>1, <2>2, BlankTab DEF Keeps
<1>5. Keeps(page[t], wire[t])'
  BY <1>1, <1>2 DEF Keeps
<1>6. QED BY <1>1, <1>3, <1>4, <1>5

(* What is kept of progress in one step.                                   *)
KeepsProgress ==
  \A a \in profiled \ retired' : Held(a) /\ ~crowded' /\ mirror' # Nothing => Held(a)'

LEMMA OwnersAreIds ==
  ASSUME BrowserFits
  PROVE  /\ profiled \subseteq Ids /\ Nothing \notin profiled /\ ~Ours(Nothing)
         /\ minted + 1 \notin profiled /\ retired \subseteq profiled
<1>1. profiled \subseteq 1..minted /\ minted \in 0..MaxIds /\ retired \subseteq profiled
  BY DEF BrowserFits, BrowserTypes
<1>2. profiled \subseteq Ids /\ minted + 1 \notin profiled
  BY <1>1, IdentityBounds DEF Ids
<1>3. Nothing \notin profiled
  BY <1>2, NothingAssumption
<1>4. QED BY <1>1, <1>2, <1>3 DEF Ours

(* A request is served: what is answered is the identity that was asked    *)
(* for, or one that nothing is saved for.                                  *)
LEMMA ServedKeeps ==
  ASSUME BrowserInv, BrowserFits', NEW t \in Pages, NEW r \in Sent, r = wire[t],
         NEW a \in Returned, a.kind = r.kind, wire' = [wire EXCEPT ![t] = a],
         clientVars' = clientVars, a.uid \in {Identity(r), minted + 1},
         a.kind \in {"hydration", "save"} => a.uid = Identity(r),
         MayMint(r), retired \subseteq retired',
         profiled' \ retired' \subseteq profiled \cup {r.uid},
         r.uid \in profiled' \ profiled =>
           r.kind = "save" /\ page[t].token = [anonymous |-> r.uid] /\ r.uid # Nothing
  PROVE  BrowserKeeps' /\ KeepsProgress
<1>1. /\ page' = page /\ jar' = jar /\ mirror' = mirror /\ crowded' = crowded
  BY DEF clientVars, openVars
<1>2. KeepsProgress
  BY <1>1 DEF KeepsProgress, Held
<1>3. BrowserFits /\ page[t] \in Tab /\ TabFits(t)
  BY BrowserFinds DEF BrowserInv
<1>4. r # Quiet /\ a # Quiet /\ a.uid \in Ids /\ r.uid \in IdOrNothing /\ Minted(r.uid)
  BY <1>3, Letters DEF BrowserFits, GivenOut
<1>5. page[t] # Blank
  BY <1>3, <1>4, BlankTab DEF TabFits
<1>6. PICK p \in Tab : p = page[t]
  BY <1>3
<1>7. page' = [page EXCEPT ![t] = p]
  BY <1>1, <1>3, <1>6, BrowserFinds
<1>8. ASSUME ~crowded'
      PROVE  /\ \A o \in Pages \ {t} : page[o] = Blank
             /\ Ours(jar.uid)' => Mirrored(jar.uid)'
             /\ Keeps(p, a)'
  <2>1. /\ \A o \in Pages \ {t} : page[o] = Blank
        /\ Ours(jar.uid) => Mirrored(jar.uid)
        /\ Keeps(p, r)
    BY <1>1, <1>5, <1>6, <1>8, AloneTab
  <2>2. ASSUME NEW u, Ours(u)' PROVE Ours(u) \/ (u = r.uid /\ Mirrored(u))
    <3>1. u \in profiled' /\ u \notin retired' /\ u \notin retired
      BY <2>2 DEF Ours
    <3>2. CASE u \in profiled
      BY <3>1, <3>2 DEF Ours
    <3>3. CASE u \notin profiled
      <4>1. u = r.uid /\ u \in profiled' \ profiled
        BY <3>1, <3>3
      <4>2. r.kind = "save" /\ p.token = [anonymous |-> r.uid] /\ r.uid # Nothing
        BY <1>6, <4>1
      <4>3. QED BY <2>1, <4>1, <4>2 DEF Keeps
    <3>4. QED BY <3>2, <3>3
  <2>3. Ours(jar.uid)' => Mirrored(jar.uid)'
    <3>1. PICK u : u = jar.uid
      OBVIOUS
    <3>2. Ours(u)' => Mirrored(u)
      BY <2>1, <2>2, <3>1
    <3>3. QED BY <1>1, <3>1, <3>2 DEF Ours, Mirrored
  <2>4. Carried(r) => a.uid \in {r.uid, minted + 1}
    BY DEF Identity
  <2>5. ~Carried(r) => a.uid = minted + 1 /\ (r.uid = Nothing \/ r.uid \in retired)
    BY DEF Identity, Fresh1, Carried
  <2>6. Ours(a.uid)' => Mirrored(a.uid)'
    <3>1. CASE a.uid = r.uid
      <4>1. PICK u : u = r.uid
        OBVIOUS
      <4>2. Ours(u)' => Mirrored(u)
        BY <1>4, <2>1, <2>2, <4>1 DEF Keeps
      <4>3. QED BY <1>1, <3>1, <4>1, <4>2 DEF Ours, Mirrored
    <3>2. CASE a.uid = minted + 1 /\ a.uid # r.uid
      <4>1. ~Ours(a.uid)
        BY <1>3, <3>2, OwnersAreIds DEF Ours
      <4>2. ~Ours(a.uid)'
        BY <2>2, <3>2, <4>1 DEF Ours
      <4>3. QED BY <4>2
    <3>3. QED BY <2>4, <2>5, <3>1, <3>2
  <2>7. a.kind = "hydration" => mirror' \in {a.uid, Nothing} \cup retired'
    <3>1. SUFFICES ASSUME a.kind = "hydration" PROVE mirror \in {a.uid, Nothing} \cup retired
      BY <1>1
    <3>2. mirror \in {r.uid, Nothing} \cup retired
      BY <2>1, <3>1 DEF Keeps
    <3>3. Carried(r) => a.uid = r.uid
      BY <3>1 DEF Identity
    <3>4. QED BY <2>5, <3>2, <3>3
  <2>8. a.kind = "save" /\ p.token = [anonymous |-> a.uid] => Mirrored(a.uid)'
    <3>1. SUFFICES ASSUME a.kind = "save", p.token = [anonymous |-> a.uid] PROVE Mirrored(a.uid)
      BY <1>1 DEF Mirrored
    <3>2. p.at = "word"
      BY <1>3, <1>6, <3>1 DEF TabFits
    <3>3. a.uid <= minted
      BY <1>3, <1>4, <1>6, <3>1, <3>2 DEF TabFits, Fits
    <3>4. minted \in Nat
      BY <1>3, IdentityBounds DEF BrowserFits, BrowserTypes
    <3>5. Carried(r)
      BY <2>5, <3>3, <3>4
    <3>6. a.uid = r.uid /\ r.uid # Nothing
      BY <3>1, <3>5 DEF Identity, Carried
    <3>7. QED BY <2>1, <3>1, <3>6 DEF Keeps
  <2>9. p.step = "waits"
    BY <1>3, <1>4, <1>6 DEF TabFits
  <2>10. Keeps(p, a)'
    <3>1. jar'.uid = jar.uid /\ mirror' = mirror
      BY <1>1
    <3>2. /\ p.at = "word" /\ (p.step = "ready" \/ a.kind = "save")
          /\ jar.uid # Nothing /\ p.token = [anonymous |-> jar.uid]
          => Mirrored(jar.uid)
      BY <2>1 DEF Keeps
    <3>3. QED BY <2>6, <2>7, <2>8, <2>9, <3>1, <3>2 DEF Keeps, Mirrored
  <2>11. QED BY <2>1, <2>3, <2>10
<1>9. BrowserKeeps'
  BY <1>6, <1>7, <1>8, KeepsStep
<1>10. QED BY <1>2, <1>9


(* An identity that is answered is one.                                    *)
LEMMA AnsweredIsId ==
  ASSUME BrowserFits, NEW r \in Sent, NEW i \in {Identity(r), minted + 1},
         i = minted + 1 => minted < MaxIds
  PROVE  i \in Ids
<1>1. minted \in Nat /\ MaxIds \in Nat
  BY IdentityBounds DEF BrowserFits, BrowserTypes
<1>2. CASE i = minted + 1
  BY <1>1, <1>2 DEF Ids
<1>3. CASE i # minted + 1
  <2>1. i = r.uid /\ Carried(r)
    BY <1>3 DEF Identity, Fresh1
  <2>2. QED BY <2>1 DEF Carried, Sent, IdOrNothing
<1>4. QED BY <1>2, <1>3

LEMMA IdentityIsKnown ==
  ASSUME BrowserFits, NEW r \in Sent, MayMint(r)
  PROVE  Identity(r) = minted + 1 => minted < MaxIds
<1>1. minted \in Nat /\ MaxIds \in Nat
  BY IdentityBounds DEF BrowserFits, BrowserTypes
<1>2. CASE Carried(r) /\ Identity(r) = minted + 1
  <2>1. r.uid = minted + 1 /\ r.uid \in Ids
    BY <1>2 DEF Identity, Carried, Sent, IdOrNothing
  <2>2. QED BY <1>1, <2>1 DEF Ids
<1>3. CASE ~Carried(r)
  BY <1>3 DEF MayMint
<1>4. QED BY <1>2, <1>3

LEMMA ReadKeeps ==
  ASSUME BrowserInv, BrowserFits', NEW t \in Pages, ServeDocument(t) \/ ServeHydration(t)
  PROVE  BrowserKeeps' /\ KeepsProgress
<1>1. PICK r : r = wire[t]
  OBVIOUS
<1>2. BrowserFits
  BY DEF BrowserInv
<1>3. r \in Sent /\ r.kind \in {"document", "hydration"} /\ Minted(r.uid) /\ r.sid \in SidOrNothing
  BY <1>1, <1>2, Asked DEF ServeDocument, ServeHydration, Kinds
<1>4. MayMint(r) /\ clientVars' = clientVars /\ profiled' = profiled /\ retired' = retired
  BY <1>1 DEF ServeDocument, ServeHydration
<1>5. PICK i : i = Identity(r)
  OBVIOUS
<1>6. PICK k : k = Subject(r)
  OBVIOUS
<1>7. PICK o : o = Acting(r)
  OBVIOUS
<1>8. k \in Subjects /\ o \in ProgressOwners
  BY <1>1, <1>2, <1>3, <1>4, <1>6, <1>7, SubjectFits
  DEF ServeDocument, ServeHydration, BrowserFits
<1>9. PICK a : wire' = [wire EXCEPT ![t] = a] /\ (\/ a = Answer(r, i, r.sid, k, Nothing)
                                                  \/ a = Answer(r, i, r.sid, k, o))
  BY <1>1, <1>5, <1>6, <1>7 DEF ServeDocument, ServeHydration
<1>10. a \in Returned /\ a.kind = r.kind /\ a.uid = i
  <2>1. i \in {Identity(r), minted + 1} /\ (i = minted + 1 => minted < MaxIds)
    BY <1>2, <1>3, <1>4, <1>5, IdentityIsKnown
  <2>2. k \in Tokens /\ o \in ProgressOwners \cup {Nothing}
    BY <1>8 DEF Tokens
  <2>3. i \in Ids
    BY <1>2, <1>3, <2>1, AnsweredIsId
  <2>4. CASE a = Answer(r, i, r.sid, k, o)
    BY <1>3, <2>2, <2>3, <2>4, AnswerTypes
  <2>5. CASE a = Answer(r, i, r.sid, k, Nothing)
    BY <1>3, <2>2, <2>3, <2>5, AnswerTypes
  <2>6. QED BY <1>9, <2>4, <2>5
<1>11. /\ retired \subseteq retired' /\ profiled' \ retired' \subseteq profiled \cup {r.uid}
       /\ r.uid \notin profiled' \ profiled
  BY <1>4
<1>12. QED BY <1>1, <1>3, <1>4, <1>5, <1>9, <1>10, <1>11, ServedKeeps

LEMMA SignOutKeeps ==
  ASSUME BrowserInv, BrowserFits', NEW t \in Pages, ServeSignOut(t)
  PROVE  BrowserKeeps' /\ KeepsProgress
<1>1. PICK r : r = wire[t]
  OBVIOUS
<1>2. BrowserFits
  BY DEF BrowserInv
<1>3. r \in Sent /\ r.kind = "signOut" /\ Minted(r.uid) /\ r.sid \in SidOrNothing
  BY <1>1, <1>2, Asked DEF ServeSignOut, Kinds
<1>4. MayMint(r) /\ clientVars' = clientVars /\ profiled' = profiled /\ retired' = retired
  BY <1>1 DEF ServeSignOut
<1>5. PICK i : i = Identity(r)
  OBVIOUS
<1>6. PICK sid : /\ sid \in {Nothing, r.sid}
                 /\ wire' = [wire EXCEPT ![t] = Answer(r, i, sid, Nothing, Nothing)]
  BY <1>1, <1>5 DEF ServeSignOut
<1>7. PICK a : a = Answer(r, i, sid, Nothing, Nothing)
  OBVIOUS
<1>8. a \in Returned /\ a.kind = r.kind /\ a.uid = i
  <2>1. i \in {Identity(r), minted + 1} /\ (i = minted + 1 => minted < MaxIds)
    BY <1>2, <1>3, <1>4, <1>5, IdentityIsKnown
  <2>2. Nothing \in Tokens /\ Nothing \in ProgressOwners \cup {Nothing} /\ sid \in SidOrNothing
    BY <1>3, <1>6 DEF Tokens, SidOrNothing
  <2>3. i \in Ids
    BY <1>2, <1>3, <2>1, AnsweredIsId
  <2>4. QED BY <1>3, <1>7, <2>2, <2>3, AnswerTypes
<1>9. wire' = [wire EXCEPT ![t] = a]
  BY <1>6, <1>7
<1>10. /\ retired \subseteq retired' /\ profiled' \ retired' \subseteq profiled \cup {r.uid}
       /\ r.uid \notin profiled' \ profiled
  BY <1>4
<1>11. QED BY <1>1, <1>3, <1>4, <1>5, <1>8, <1>9, <1>10, ServedKeeps

(* A save makes an identity one with progress only for a token that came   *)
(* with it.                                                                *)
LEMMA SaveKeeps ==
  ASSUME BrowserInv, BrowserFits', NEW t \in Pages, ServeSave(t)
  PROVE  BrowserKeeps' /\ KeepsProgress
<1>1. PICK r : r = wire[t]
  OBVIOUS
<1>2. BrowserFits
  BY DEF BrowserInv
<1>3. r \in Sent /\ r.kind = "save" /\ Minted(r.uid) /\ r.sid \in SidOrNothing
  BY <1>1, <1>2, Asked DEF ServeSave, Kinds
<1>4. MayMint(r) /\ minted' = MintedAfter(r) /\ clientVars' = clientVars /\ retired' = retired
  BY <1>1 DEF ServeSave
<1>5. PICK i : i = Identity(r)
  OBVIOUS
<1>6. PICK a : a = Answer(r, i, r.sid, Nothing, Nothing)
  OBVIOUS
<1>7. wire' = [wire EXCEPT ![t] = a]
  BY <1>1, <1>5, <1>6 DEF ServeSave
<1>8. a \in Returned /\ a.kind = r.kind /\ a.uid = i
  <2>1. i \in {Identity(r), minted + 1} /\ (i = minted + 1 => minted < MaxIds)
    BY <1>2, <1>3, <1>4, <1>5, IdentityIsKnown
  <2>2. Nothing \in Tokens /\ Nothing \in ProgressOwners \cup {Nothing}
    BY DEF Tokens
  <2>3. i \in Ids
    BY <1>2, <1>3, <2>1, AnsweredIsId
  <2>4. QED BY <1>3, <1>6, <2>2, <2>3, AnswerTypes
<1>9. /\ profiled' \subseteq profiled \cup {r.uid}
      /\ r.uid \in profiled' \ profiled => TokenHolds(r) /\ ~Live(r)
  BY <1>1 DEF ServeSave
<1>10. ASSUME TokenHolds(r), ~Live(r)
       PROVE  page[t].token = [anonymous |-> r.uid] /\ r.uid # Nothing
  <2>1. Carried(r)
    BY <1>1, <1>2, <1>3, <1>4, <1>10, SaveLands
  <2>2. r.token = [anonymous |-> r.uid]
    BY <1>10, <2>1 DEF TokenHolds, Subject, Identity
  <2>3. r.token = page[t].token
    BY <1>1, <1>2, <1>3, Letters DEF BrowserFits, TabFits
  <2>4. QED BY <2>1, <2>2, <2>3 DEF Carried
<1>11. /\ retired \subseteq retired' /\ profiled' \ retired' \subseteq profiled \cup {r.uid}
       /\ r.uid \in profiled' \ profiled =>
            r.kind = "save" /\ page[t].token = [anonymous |-> r.uid] /\ r.uid # Nothing
  BY <1>3, <1>4, <1>9, <1>10
<1>12. QED BY <1>1, <1>3, <1>4, <1>5, <1>7, <1>8, <1>11, ServedKeeps

LEMMA SignInKeeps ==
  ASSUME BrowserInv, BrowserFits', NEW t \in Pages, ServeSignIn(t)
  PROVE  BrowserKeeps' /\ KeepsProgress
<1>1. PICK r : r = wire[t]
  OBVIOUS
<1>2. BrowserFits
  BY DEF BrowserInv
<1>3. r \in Sent /\ r.kind = "signIn" /\ Minted(r.uid) /\ r.sid \in SidOrNothing
  BY <1>1, <1>2, Asked DEF ServeSignIn, Kinds
<1>4. /\ MayMint(r) /\ clientVars' = clientVars /\ profiled' = profiled
      /\ retired \subseteq retired'
  BY <1>1 DEF ServeSignIn
<1>5. PICK i, sid :
        /\ i \in {Identity(r), minted + 1} /\ (i = minted + 1 => minted < MaxIds)
        /\ sid \in SidOrNothing
        /\ wire' = [wire EXCEPT ![t] = Answer(r, i, sid, Nothing, Nothing)]
  <2>1. CASE TokenHolds(r)
    <3>1. begun < MaxSignIns /\ (Mergeable(r) => minted < MaxIds)
      BY <1>1, <2>1 DEF ServeSignIn
    <3>2. PICK i : i = IF Mergeable(r) THEN Fresh1 ELSE Identity(r)
      OBVIOUS
    <3>3. wire' = [wire EXCEPT ![t] = Answer(r, i, begun + 1, Nothing, Nothing)]
      BY <1>1, <2>1, <3>2 DEF ServeSignIn
    <3>4. begun + 1 \in SidOrNothing
      BY <1>2, <3>1, IdentityBounds DEF SidOrNothing, SessionIds, BrowserFits, BrowserTypes
    <3>5. i \in {Identity(r), minted + 1} /\ (i = minted + 1 => minted < MaxIds)
      BY <1>2, <1>3, <1>4, <3>1, <3>2, IdentityIsKnown DEF Fresh1
    <3>6. QED BY <3>3, <3>4, <3>5
  <2>2. CASE ~TokenHolds(r)
    <3>1. PICK i : i = Identity(r)
      OBVIOUS
    <3>2. wire' = [wire EXCEPT ![t] = Answer(r, i, r.sid, Nothing, Nothing)]
      BY <1>1, <2>2, <3>1 DEF ServeSignIn
    <3>3. i = minted + 1 => minted < MaxIds
      BY <1>2, <1>3, <1>4, <3>1, IdentityIsKnown
    <3>4. QED BY <1>3, <3>1, <3>2, <3>3
  <2>3. QED BY <2>1, <2>2
<1>6. PICK a : a = Answer(r, i, sid, Nothing, Nothing)
  OBVIOUS
<1>7. a \in Returned /\ a.kind = r.kind /\ a.uid = i
  <2>1. Nothing \in Tokens /\ Nothing \in ProgressOwners \cup {Nothing}
    BY DEF Tokens
  <2>2. i \in Ids
    BY <1>2, <1>3, <1>5, AnsweredIsId
  <2>3. QED BY <1>3, <1>5, <1>6, <2>1, <2>2, AnswerTypes
<1>8. wire' = [wire EXCEPT ![t] = a]
  BY <1>5, <1>6
<1>9. /\ profiled' \ retired' \subseteq profiled \cup {r.uid}
      /\ r.uid \notin profiled' \ profiled /\ a.kind \notin {"hydration", "save"}
  BY <1>3, <1>4, <1>7
<1>10. QED BY <1>1, <1>3, <1>4, <1>5, <1>7, <1>8, <1>9, ServedKeeps


LEMMA OpenKeeps ==
  ASSUME BrowserInv, BrowserFits', NEW t \in Pages, Open(t)
  PROVE  BrowserKeeps' /\ KeepsProgress
<1>1. /\ jar' = jar /\ mirror' = mirror /\ retired' = retired /\ profiled' = profiled
      /\ page[t] = Blank
  BY DEF Open, serverVars
<1>2. KeepsProgress
  BY <1>1 DEF KeepsProgress, Held
<1>3. BrowserFits
  BY DEF BrowserInv
<1>4. PICK p : /\ page' = [page EXCEPT ![t] = p] /\ p \in Tab
               /\ p.token = Nothing /\ p.step \in {"loaded", "waits"}
  <2>1. PICK at \in {"word", "form"}, step \in {"loaded", "waits"} :
          page' = [page EXCEPT ![t] = [Blank EXCEPT !.at = at, !.step = step]]
    BY DEF Open
  <2>2. PICK p : p = [Blank EXCEPT !.at = at, !.step = step]
    OBVIOUS
  <2>3. p \in Tab /\ p.token = Nothing /\ p.step = step
    BY <2>2 DEF Blank, Tab, Tokens
  <2>4. QED BY <2>1, <2>2, <2>3
<1>5. wire[t] = Quiet
  BY <1>1, <1>3, BrowserFinds, BlankTab DEF TabFits
<1>6. PICK w : /\ wire' = [wire EXCEPT ![t] = w]
               /\ w = Quiet \/ w = Request("document", Nothing)
  <2>1. wire = [wire EXCEPT ![t] = Quiet]
    BY <1>3, <1>5, BrowserFinds
  <2>2. CASE wire' = wire
    BY <2>1, <2>2
  <2>3. CASE wire' = [wire EXCEPT ![t] = Request("document", Nothing)]
    BY <2>3
  <2>4. QED BY <2>2, <2>3 DEF Open
<1>7. /\ w \in {Quiet} \cup Sent /\ w.kind \in {"none", "document"}
      /\ w # Quiet => w.uid = jar.uid
  BY <1>3, <1>6, RequestTypes, BlankTab DEF Kinds, Tokens
<1>8. PICK crowd \in BOOLEAN : crowd = (crowded \/ \E o \in Pages \ {t} : page[o] # Blank)
  OBVIOUS
<1>9. crowded' = crowd
  BY <1>8 DEF Open
<1>10. ASSUME ~crowded'
       PROVE  /\ \A o \in Pages \ {t} : page[o] = Blank
              /\ Ours(jar.uid) => Mirrored(jar.uid)
  <2>1. ~crowded /\ \A o \in Pages \ {t} : page[o] = Blank
    BY <1>8, <1>9, <1>10
  <2>2. Ours(jar.uid) => Mirrored(jar.uid)
    BY <2>1 DEF BrowserInv, BrowserKeeps
  <2>3. QED BY <2>1, <2>2
<1>11. ~crowded' => (Ours(jar.uid)' => Mirrored(jar.uid)')
  BY <1>1, <1>10 DEF Ours, Mirrored
<1>12. ASSUME ~crowded' PROVE Keeps(p, w)'
  <2>1. /\ \A a \in Ids : Nothing # [anonymous |-> a]
        /\ jar.uid \in IdOrNothing /\ jar'.uid = jar.uid
    BY <1>1, <1>3, Constructors, NothingAssumption, BrowserFinds
  <2>2. w # Quiet /\ Ours(w.uid)' => Mirrored(w.uid)'
    BY <1>1, <1>7, <1>10, <1>12 DEF Ours, Mirrored
  <2>3. ~(jar'.uid # Nothing /\ p.token = [anonymous |-> jar'.uid])
    BY <1>4, <2>1 DEF IdOrNothing
  <2>4. QED BY <1>4, <1>7, <2>2, <2>3 DEF Keeps
<1>13. BrowserKeeps'
  BY <1>4, <1>6, <1>7, <1>10, <1>11, <1>12, KeepsStep
<1>14. QED BY <1>2, <1>13

(* After the scripts of a page the cookie and the mirror are one.          *)
LEMMA RunScriptsKeeps ==
  ASSUME BrowserInv, BrowserFits', NEW t \in Pages, RunScripts(t)
  PROVE  BrowserKeeps' /\ KeepsProgress
<1>1. /\ BrowserFits /\ page[t] \in Tab /\ page[t].step = "loaded" /\ TabFits(t)
      /\ wire \in [Pages -> {Quiet} \cup Sent \cup Returned]
  BY BrowserFinds DEF BrowserInv, RunScripts
<1>2. wire[t] = Quiet /\ page[t] # Blank
  BY <1>1, BlankTab DEF TabFits
<1>3. PICK u : u = Synced
  OBVIOUS
<1>4. jar'.uid = u /\ mirror' = u /\ u \in IdOrNothing
  <2>1. jar \in [uid : IdOrNothing, sid : SidOrNothing] /\ mirror \in IdOrNothing
    BY <1>1, BrowserFinds
  <2>2. u \in IdOrNothing
    BY <1>3, <2>1 DEF Synced
  <2>3. jar'.uid = u
    BY <1>3, <2>1 DEF RunScripts
  <2>4. mirror' = u
    BY <1>3 DEF RunScripts, Synced
  <2>5. QED BY <2>2, <2>3, <2>4
<1>5. crowded' = crowded /\ retired' = retired /\ profiled' = profiled
  BY DEF RunScripts, openVars, serverVars
<1>6. PICK p, w : /\ page' = [page EXCEPT ![t] = p] /\ wire' = [wire EXCEPT ![t] = w]
                  /\ p \in Tab /\ p.step # "read"
                  /\ w \in {Quiet} \cup Sent /\ w.kind \in {"none", "hydration"}
                  /\ w # Quiet => w.uid = u
  <2>1. CASE page[t].at = "word"
    <3>1. PICK p : p = [page[t] EXCEPT !.step = "waits"]
      OBVIOUS
    <3>2. PICK q : q = Request("hydration", Nothing)
      OBVIOUS
    <3>3. PICK w : w = [q EXCEPT !.uid = u]
      OBVIOUS
    <3>4. q \in Sent /\ q.kind = "hydration"
      BY <1>1, <3>2, RequestTypes DEF Kinds, Tokens
    <3>5. w \in Sent /\ w.kind = "hydration" /\ w.uid = u
      BY <1>4, <3>3, <3>4 DEF Sent
    <3>6. p \in Tab /\ p.step = "waits"
      BY <1>1, <3>1 DEF Tab
    <3>7. page' = [page EXCEPT ![t] = p] /\ wire' = [wire EXCEPT ![t] = w]
      BY <1>3, <2>1, <3>1, <3>2, <3>3 DEF RunScripts
    <3>8. QED BY <3>5, <3>6, <3>7
  <2>2. CASE page[t].at # "word"
    <3>1. PICK p : p = [page[t] EXCEPT !.step = "ready"]
      OBVIOUS
    <3>2. p \in Tab /\ p.step = "ready"
      BY <1>1, <3>1 DEF Tab
    <3>3. page' = [page EXCEPT ![t] = p]
      BY <2>2, <3>1 DEF RunScripts
    <3>4. wire' = [wire EXCEPT ![t] = Quiet]
      BY <1>1, <1>2, <2>2 DEF RunScripts
    <3>5. QED BY <3>2, <3>3, <3>4, BlankTab
  <2>3. QED BY <2>1, <2>2
<1>7. ASSUME ~crowded'
      PROVE  /\ \A o \in Pages \ {t} : page[o] = Blank
             /\ Ours(jar.uid) => Mirrored(jar.uid)
  BY <1>2, <1>5, <1>7, AloneTab
<1>8. Ours(jar.uid)' => Mirrored(jar.uid)'
  BY <1>4 DEF Mirrored
<1>9. Keeps(p, w)'
  BY <1>4, <1>6, BlankTab DEF Keeps, Mirrored
<1>10. BrowserKeeps'
  <2>1. w \in {Quiet} \cup Sent \cup Returned /\ p \in Tab
    BY <1>6
  <2>2. page' = [page EXCEPT ![t] = p] /\ wire' = [wire EXCEPT ![t] = w]
    BY <1>6
  <2>3. QED BY <1>7, <1>8, <1>9, <2>1, <2>2, KeepsStep
<1>11. ASSUME NEW a \in profiled \ retired', Held(a), ~crowded', mirror' # Nothing
       PROVE  Held(a)'
  <2>1. a # Nothing /\ Ours(a)
    BY <1>1, <1>5, <1>11, OwnersAreIds DEF Ours
  <2>2. CASE mirror = a
    BY <1>3, <1>4, <2>1, <2>2 DEF Synced, Held
  <2>3. CASE mirror # a
    <3>1. jar.uid = a
      BY <1>11, <2>3 DEF Held
    <3>2. mirror = Nothing
      BY <1>7, <1>11, <2>1, <2>3, <3>1 DEF Mirrored
    <3>3. QED BY <1>3, <1>4, <3>1, <3>2 DEF Synced, Held
  <2>4. QED BY <2>2, <2>3
<1>12. QED BY <1>10, <1>11 DEF KeepsProgress


(* An answer brings the cookie that the mirror already stood for.          *)
LEMMA ReceiveKeeps ==
  ASSUME BrowserInv, BrowserFits', NEW t \in Pages, Receive(t)
  PROVE  BrowserKeeps' /\ KeepsProgress
<1>1. PICK a : a = wire[t]
  OBVIOUS
<1>2. BrowserFits /\ page[t] \in Tab /\ page \in [Pages -> Tab] /\ TabFits(t)
  BY BrowserFinds DEF BrowserInv
<1>3. a \in Returned /\ a.kind \in Kinds /\ a # Quiet /\ a.uid \in Ids
  BY <1>1, <1>2, BrowserFinds, Letters DEF Receive
<1>4. page[t].step = "waits" /\ page[t] # Blank
  BY <1>1, <1>2, <1>3, BlankTab DEF TabFits
<1>5. /\ jar'.uid = a.uid /\ mirror' = mirror /\ crowded' = crowded
      /\ retired' = retired /\ profiled' = profiled
      /\ wire' = [wire EXCEPT ![t] = Quiet]
  BY <1>1 DEF Receive, openVars, serverVars
<1>6. PICK p :
        p = CASE a.kind = "document" -> [page[t] EXCEPT !.step = "loaded", !.token = a.token]
              [] a.kind = "hydration" ->
                   [page[t] EXCEPT !.step = "read", !.token = a.token, !.shows = a.shows]
              [] a.kind = "save" -> [page[t] EXCEPT !.step = "ready"]
              [] OTHER -> Blank
  OBVIOUS
<1>7. page' = [page EXCEPT ![t] = p]
  BY <1>1, <1>2, <1>6 DEF Receive
<1>8. /\ p \in Tab
      /\ p.step = "read" => a.kind = "hydration"
      /\ p.at = "word" /\ p.step = "ready" => a.kind = "save" /\ p.token = page[t].token
  <2>1. CASE a.kind = "document"
    <3>1. p = [page[t] EXCEPT !.step = "loaded", !.token = a.token]
      BY <1>6, <2>1
    <3>2. QED BY <1>2, <1>3, <3>1 DEF Tab, Returned
  <2>2. CASE a.kind = "hydration"
    <3>1. p = [page[t] EXCEPT !.step = "read", !.token = a.token, !.shows = a.shows]
      BY <1>6, <2>2
    <3>2. p \in Tab /\ p.step = "read"
      BY <1>2, <1>3, <3>1 DEF Tab, Returned
    <3>3. QED BY <2>2, <3>2
  <2>3. CASE a.kind = "save"
    <3>1. p = [page[t] EXCEPT !.step = "ready"]
      BY <1>6, <2>3
    <3>2. p \in Tab /\ p.step = "ready" /\ p.token = page[t].token
      BY <1>2, <3>1 DEF Tab
    <3>3. QED BY <2>3, <3>2
  <2>4. CASE a.kind \in {"signIn", "signOut"}
    <3>1. p = Blank
      BY <1>6, <2>4
    <3>2. QED BY <3>1, BlankTab
  <2>5. QED BY <1>3, <2>1, <2>2, <2>3, <2>4 DEF Kinds
<1>9. ASSUME ~crowded'
      PROVE  /\ \A o \in Pages \ {t} : page[o] = Blank
             /\ Ours(jar.uid) => Mirrored(jar.uid)
             /\ Keeps(page[t], a)
  BY <1>1, <1>4, <1>5, <1>9, AloneTab
<1>10. ASSUME ~crowded' PROVE Ours(jar.uid)' => Mirrored(jar.uid)'
  BY <1>3, <1>5, <1>9, <1>10 DEF Keeps, Ours, Mirrored
<1>11. ASSUME ~crowded' PROVE Keeps(p, Quiet)'
  <2>1. p.step = "read" => mirror \in {a.uid, Nothing} \cup retired
    BY <1>8, <1>9, <1>11 DEF Keeps
  <2>2. p.at = "word" /\ p.step = "ready" /\ p.token = [anonymous |-> a.uid] => Mirrored(a.uid)
    <3>1. a.uid # Nothing
      BY <1>3, NothingAssumption
    <3>2. QED BY <1>8, <1>9, <1>11, <3>1 DEF Keeps
  <2>3. QED BY <1>5, <2>1, <2>2, BlankTab DEF Keeps, Mirrored
<1>12. BrowserKeeps'
  BY <1>5, <1>7, <1>8, <1>9, <1>10, <1>11, KeepsStep
<1>13. ASSUME NEW b \in profiled \ retired', Held(b), ~crowded', mirror' # Nothing
       PROVE  Held(b)'
  <2>1. Ours(b)
    BY <1>5, <1>13 DEF Ours
  <2>2. mirror = b
    BY <1>5, <1>9, <1>13, <2>1 DEF Held, Mirrored
  <2>3. QED BY <1>5, <2>2 DEF Held
<1>14. QED BY <1>12, <1>13 DEF KeepsProgress

(* The mirror takes the identity that the server answered; what it stood   *)
(* for is that one, or an account's by now.                                *)
LEMMA AdoptKeeps ==
  ASSUME BrowserInv, BrowserFits', NEW t \in Pages, Adopt(t)
  PROVE  BrowserKeeps' /\ KeepsProgress
<1>1. /\ BrowserFits /\ page[t] \in Tab /\ page[t].step = "read" /\ TabFits(t)
      /\ wire \in [Pages -> {Quiet} \cup Sent \cup Returned]
  BY BrowserFinds DEF BrowserInv, Adopt
<1>2. wire[t] = Quiet /\ page[t] # Blank
  BY <1>1, BlankTab DEF TabFits
<1>3. /\ jar' = jar /\ crowded' = crowded /\ retired' = retired /\ profiled' = profiled
      /\ mirror' = IF jar.uid # Nothing THEN jar.uid ELSE mirror
      /\ wire' = [wire EXCEPT ![t] = Quiet]
  BY <1>1, <1>2 DEF Adopt, openVars, serverVars
<1>4. PICK p : p = [page[t] EXCEPT !.step = "ready"]
  OBVIOUS
<1>5. p \in Tab /\ p.step = "ready" /\ page' = [page EXCEPT ![t] = p]
  BY <1>1, <1>4 DEF Tab, Adopt
<1>6. ASSUME ~crowded'
      PROVE  /\ \A o \in Pages \ {t} : page[o] = Blank
             /\ Keeps(page[t], wire[t])
  BY <1>2, <1>3, <1>6, AloneTab
<1>7. jar.uid # Nothing => Mirrored(jar.uid)'
  BY <1>3 DEF Mirrored
<1>8. Ours(jar.uid)' => Mirrored(jar.uid)'
  <2>1. Ours(jar.uid)' => jar.uid # Nothing
    BY <1>1, <1>3, OwnersAreIds DEF Ours
  <2>2. QED BY <1>7, <2>1
<1>9. Keeps(p, Quiet)'
  BY <1>3, <1>5, <1>7, BlankTab DEF Keeps
<1>10. BrowserKeeps'
  BY <1>3, <1>5, <1>6, <1>8, <1>9, KeepsStep
<1>11. ASSUME NEW b \in profiled \ retired', Held(b), ~crowded', mirror' # Nothing
       PROVE  Held(b)'
  <2>1. b # Nothing /\ b \notin retired
    BY <1>1, <1>3, <1>11, OwnersAreIds
  <2>2. CASE jar.uid = b
    BY <1>3, <2>2 DEF Held
  <2>3. CASE jar.uid # b /\ jar.uid # Nothing
    <3>1. mirror = b
      BY <1>11, <2>3 DEF Held
    <3>2. mirror \in {jar.uid, Nothing} \cup retired
      BY <1>1, <1>6, <1>11, <2>3 DEF Keeps
    <3>3. QED BY <2>1, <2>3, <3>1, <3>2
  <2>4. CASE jar.uid # b /\ jar.uid = Nothing
    BY <1>3, <1>11, <2>4 DEF Held
  <2>5. QED BY <2>2, <2>3, <2>4
<1>12. QED BY <1>10, <1>11 DEF KeepsProgress

LEMMA CloseKeeps ==
  ASSUME BrowserInv, BrowserFits', NEW t \in Pages, Close(t)
  PROVE  BrowserKeeps' /\ KeepsProgress
<1>1. /\ page' = [page EXCEPT ![t] = Blank] /\ wire' = [wire EXCEPT ![t] = Quiet]
      /\ jar' = jar /\ mirror' = mirror /\ crowded' = crowded
      /\ retired' = retired /\ profiled' = profiled /\ page[t] # Blank
  BY DEF Close, openVars, serverVars
<1>2. ASSUME ~crowded'
      PROVE  /\ \A o \in Pages \ {t} : page[o] = Blank
             /\ Ours(jar.uid) => Mirrored(jar.uid)
  BY <1>1, <1>2, AloneTab
<1>3. ~crowded' => (Ours(jar.uid)' => Mirrored(jar.uid)')
  BY <1>1, <1>2 DEF Ours, Mirrored
<1>4. Keeps(Blank, Quiet)'
  BY BlankTab DEF Keeps
<1>5. BrowserKeeps'
  BY <1>1, <1>2, <1>3, <1>4, BlankTab, KeepsStep
<1>6. KeepsProgress
  BY <1>1 DEF KeepsProgress, Held
<1>7. QED BY <1>5, <1>6

LEMMA PostKeeps ==
  ASSUME BrowserInv, BrowserFits', NEW t \in Pages,
         Save(t) \/ SignOut(t) \/ \E u \in People : SignIn(t, u)
  PROVE  BrowserKeeps' /\ KeepsProgress
<1>1. PICK kind \in {"save", "signIn", "signOut"}, u \in People \cup {Nothing} :
        /\ Post(t, kind, u) /\ page[t].step = "ready"
        /\ page[t].at = IF kind = "save" THEN "word" ELSE "form"
  <2>1. CASE Save(t)
    BY <2>1 DEF Save, Ready
  <2>2. CASE SignOut(t)
    BY <2>2 DEF SignOut, Ready
  <2>3. CASE \E u \in People : SignIn(t, u)
    BY <2>3 DEF SignIn, Ready
  <2>4. QED BY <2>1, <2>2, <2>3
<1>2. BrowserFits /\ page[t] \in Tab /\ page[t] # Blank
  BY <1>1, BrowserFinds, BlankTab DEF BrowserInv
<1>3. PICK p : p = [page[t] EXCEPT !.step = "waits"]
  OBVIOUS
<1>4. p \in Tab /\ p.step = "waits" /\ p.at = page[t].at /\ p.token = page[t].token
  BY <1>2, <1>3 DEF Tab
<1>5. page[t].token \in Tokens
  BY <1>2 DEF Tab
<1>6. PICK q : q = Request(kind, page[t].token)
  OBVIOUS
<1>7. q \in Sent /\ q.kind = kind /\ q.uid = jar.uid
  BY <1>2, <1>5, <1>6, RequestTypes DEF Kinds
<1>8. PICK w : w = [q EXCEPT !.person = u]
  OBVIOUS
<1>9. w \in Sent /\ w.kind = kind /\ w.uid = jar.uid
  BY <1>7, <1>8 DEF Sent
<1>10. /\ page' = [page EXCEPT ![t] = p] /\ wire' = [wire EXCEPT ![t] = w]
       /\ jar' = jar /\ mirror' = mirror /\ crowded' = crowded
       /\ retired' = retired /\ profiled' = profiled
  BY <1>1, <1>3, <1>6, <1>8 DEF Post, openVars, serverVars
<1>11. ASSUME ~crowded'
       PROVE  /\ \A o \in Pages \ {t} : page[o] = Blank
              /\ Ours(jar.uid) => Mirrored(jar.uid)
              /\ Keeps(page[t], wire[t])
  BY <1>2, <1>10, <1>11, AloneTab
<1>12. ~crowded' => (Ours(jar.uid)' => Mirrored(jar.uid)')
  BY <1>10, <1>11 DEF Ours, Mirrored
<1>13. ASSUME ~crowded' PROVE Keeps(p, w)'
  <2>1. /\ kind = "save" /\ jar.uid # Nothing /\ p.token = [anonymous |-> jar.uid]
        => Mirrored(jar.uid)
    BY <1>1, <1>4, <1>11, <1>13 DEF Keeps
  <2>2. Ours(w.uid)' => Mirrored(w.uid)'
    BY <1>9, <1>10, <1>11, <1>13 DEF Ours, Mirrored
  <2>3. QED BY <1>1, <1>4, <1>9, <1>10, <2>1, <2>2 DEF Keeps, Mirrored
<1>14. w \in {Quiet} \cup Sent \cup Returned
  BY <1>9
<1>15. BrowserKeeps'
  BY <1>4, <1>10, <1>11, <1>12, <1>13, <1>14, KeepsStep
<1>16. KeepsProgress
  BY <1>10 DEF KeepsProgress, Held
<1>17. QED BY <1>15, <1>16


LEMMA ElsewhereKeeps ==
  ASSUME BrowserInv, BrowserFits',
         (\E s \in SessionIds : Expire(s)) \/ ClearCookies \/ ClearAll \/ UNCHANGED browserVars
  PROVE  BrowserKeeps' /\ KeepsProgress
<1>1. /\ page' = page /\ wire' = wire /\ crowded' = crowded
      /\ retired' = retired /\ profiled' = profiled
  BY DEF Expire, ClearCookies, ClearAll, browserVars, clientVars, serverVars, openVars
<1>2. BrowserFits
  BY DEF BrowserInv
<1>3. jar'.uid \in {jar.uid, Nothing} /\ mirror' \in {mirror, Nothing}
  BY DEF Expire, ClearCookies, ClearAll, browserVars, clientVars
<1>4. ASSUME ~crowded'
      PROVE  /\ Alone
             /\ Ours(jar.uid) => Mirrored(jar.uid)
             /\ \A t \in Pages : Keeps(page[t], wire[t])
  BY <1>1, <1>4 DEF BrowserInv, BrowserKeeps
<1>5. ~crowded' => Alone'
  BY <1>1, <1>4 DEF Alone
<1>6. ASSUME ~crowded' PROVE Ours(jar.uid)' => Mirrored(jar.uid)'
  <2>1. ~Ours(Nothing)
    BY <1>2, OwnersAreIds
  <2>2. QED BY <1>1, <1>3, <1>4, <1>6, <2>1 DEF Ours, Mirrored
<1>7. ASSUME ~crowded', NEW t \in Pages PROVE Keeps(page[t], wire[t])'
  <2>1. PICK p : p = page[t]
    OBVIOUS
  <2>2. PICK w : w = wire[t]
    OBVIOUS
  <2>3. Keeps(p, w)
    BY <1>4, <1>7, <2>1, <2>2
  <2>4. Keeps(p, w)'
    BY <1>1, <1>3, <2>3 DEF Keeps, Ours, Mirrored
  <2>5. QED BY <1>1, <2>1, <2>2, <2>4 DEF Keeps
<1>8. BrowserKeeps'
  BY <1>5, <1>6, <1>7 DEF BrowserKeeps
<1>9. ASSUME NEW a \in profiled \ retired', Held(a), ~crowded', mirror' # Nothing
      PROVE  Held(a)'
  <2>1. Ours(a)
    BY <1>1, <1>9 DEF Ours
  <2>2. mirror' = mirror /\ mirror # Nothing
    BY <1>3, <1>9
  <2>3. mirror = a
    BY <1>4, <1>9, <2>1, <2>2 DEF Held, Mirrored
  <2>4. QED BY <2>2, <2>3 DEF Held
<1>10. QED BY <1>8, <1>9 DEF KeepsProgress

LEMMA StepKeeps ==
  ASSUME BrowserInv, BrowserFits', [BrowserNext]_browserVars
  PROVE  BrowserKeeps' /\ KeepsProgress
<1>1. ASSUME NEW t \in Pages,
             \/ Open(t) \/ ServeDocument(t) \/ RunScripts(t) \/ ServeHydration(t)
             \/ Receive(t) \/ Adopt(t) \/ Close(t)
             \/ Save(t) \/ ServeSave(t) \/ SignOut(t) \/ ServeSignOut(t)
             \/ ServeSignIn(t)
             \/ \E u \in People : SignIn(t, u)
      PROVE  BrowserKeeps' /\ KeepsProgress
  BY <1>1, OpenKeeps, ReadKeeps, RunScriptsKeeps, ReceiveKeeps, AdoptKeeps, CloseKeeps,
     PostKeeps, SaveKeeps, SignOutKeeps, SignInKeeps
<1>2. QED BY <1>1, ElsewhereKeeps DEF BrowserNext

(* The invariant holds in every state of the browser and the server.       *)
THEOREM BrowserInductive == BrowserSpec => []BrowserInv
<1>1. BrowserInit => BrowserInv
  <2> SUFFICES ASSUME BrowserInit PROVE BrowserInv
    OBVIOUS
  <2>1. BrowserFits
    BY FirstFits
  <2>2. /\ jar.uid = Nothing /\ mirror = Nothing /\ page = [t \in Pages |-> Blank]
        /\ wire = [t \in Pages |-> Quiet]
    BY DEF BrowserInit
  <2>3. Alone /\ (Ours(jar.uid) => Mirrored(jar.uid))
    BY <2>2 DEF Alone, Mirrored
  <2>4. ASSUME NEW t \in Pages PROVE Keeps(page[t], wire[t])
    <3>1. page[t] = Blank /\ wire[t] = Quiet
      BY <2>2
    <3>2. QED BY <3>1, BlankTab DEF Keeps
  <2>5. QED BY <2>1, <2>3, <2>4 DEF BrowserInv, BrowserKeeps
<1>2. BrowserInv /\ [BrowserNext]_browserVars => BrowserInv'
  BY StepFits, StepKeeps DEF BrowserInv
<1>3. QED
  BY <1>1, <1>2, PTL DEF BrowserSpec

(* The types of the two cookies, the mirror, the pages and the sessions; a *)
(* page waits exactly while a request or an answer of it travels.          *)
THEOREM BrowserTypesHold == BrowserSpec => []BrowserTypeOK
<1>1. BrowserInv => BrowserTypeOK
  BY DEF BrowserInv, BrowserFits, BrowserTypes, BrowserTypeOK, TabFits, Tab, Tokens
<1>2. QED
  BY <1>1, BrowserInductive, PTL

(* saveStateHandler behind the middleware app.js mounts: a save that is    *)
(* accepted changes the owner whose state its page showed, and no identity *)
(* that an account took over.                                              *)
THEOREM SavesLand == BrowserSpec => []SavesLandWhereShown
<1>1. BrowserInv => SavesLandWhereShown
  BY DEF BrowserInv, BrowserFits
<1>2. QED
  BY <1>1, BrowserInductive, PTL

(* FR-AUTH-02: no step of syncAnonymousIdentity, of adoptServerIdentity, of*)
(* an answer or of cleared cookies loses the identity of progress that no  *)
(* account took over, with one tab at a time.                              *)
THEOREM ProgressStays == BrowserSpec => ProgressIsKept
<1>1. BrowserInv /\ BrowserInv' /\ [BrowserNext]_browserVars => [KeepsProgress]_browserVars
  BY StepKeeps DEF BrowserInv
<1>2. [KeepsProgress]_browserVars =>
        [\A a \in profiled \ retired' :
           Held(a) /\ ~crowded' /\ mirror' # Nothing => Held(a)']_browserVars
  BY DEF KeepsProgress
<1>3. QED
  BY <1>1, <1>2, BrowserInductive, PTL DEF BrowserSpec, ProgressIsKept
==============================================================================
