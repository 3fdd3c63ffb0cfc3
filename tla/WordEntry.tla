------------------------------ MODULE WordEntry ------------------------------
(***************************************************************************)
(* normaliseEntry and validateEntry of word-ingestion.service.js: which    *)
(* transcriptions of a fetched entry become the readings of a word, in     *)
(* which order, and when the entry is refused.  An accent label is one of  *)
(* four classes; what the tokeniser, the syllable breakdown and the        *)
(* pinned CMUdict say of a form are constants.  The readings of an entry   *)
(* without problems are what Catalogue's LoadEntry loads.                  *)
(***************************************************************************)
EXTENDS Sifting, SequencesExt, FiniteSets

CONSTANTS
  SourceForms,     \* transcriptions an entry may list
  Unreadable,      \* what a form that does not tokenise has as canonical form
  CanonicalForm,   \* CanonicalForm[f]
  Fragments,       \* forms with a hyphen: an ending, not the word
  Dotted,          \* canonical forms with a syllable separator
  Unstressed,      \* canonical forms of several syllables without a primary stress
  Verified,        \* canonical forms the pinned CMUdict verifies
  Labels,          \* accent sets a candidate may carry
  MaxReadings,     \* MAX_PRONUNCIATIONS_PER_WORD
  MaxCandidates, MaxPins, NoPin

(* The canonical form of a form stands for itself.                         *)
ASSUME EntryAssumption ==
  /\ MaxReadings \in Nat
  /\ \A f \in SourceForms :
       \/ CanonicalForm[f] = Unreadable
       \/ /\ CanonicalForm[f] \in SourceForms
          /\ CanonicalForm[CanonicalForm[f]] = CanonicalForm[f]

VARIABLES
  candidates,      \* entry.transcriptions
  pinned,          \* curation.ipa, or NoPin
  cmudict,         \* curation.cmudict
  attributed       \* the entry has its attribution and a meaning

entryVars == <<candidates, pinned, cmudict, attributed>>

(* ------------------- selectAmericanTranscriptions ---------------------- *)

Accents(c) == c.accents \ {"register"}

Selected(cs) ==
  LET explicit == Only(cs, {c \in ToSet(cs) : "us" \in Accents(c)})
      untagged == Only(cs, {c \in ToSet(cs) : Accents(c) = {}})
      within == Only(cs, {c \in ToSet(cs) : Accents(c) = {"within"}})
  IN  IF explicit # <<>> THEN explicit ELSE IF untagged # <<>> THEN untagged ELSE within

(* A curated list replaces the selection; a form it names that is not      *)
(* upstream refuses the entry.                                             *)
Upstream(f) == \E k \in DOMAIN candidates : candidates[k].ipa = f
Chosen ==
  IF pinned # NoPin THEN Only(pinned, {f \in SourceForms : Upstream(f)})
  ELSE IF cmudict # <<>> THEN <<>>
  ELSE LET cs == Selected(candidates) IN [k \in DOMAIN cs |-> cs[k].ipa]

(* One step of the loop over the selected forms: fragments, forms the      *)
(* inventory cannot represent, forms seen and forms without their stress   *)
(* are left out.                                                           *)
Gathered(readings, f) ==
  LET c == CanonicalForm[f] IN
  IF \/ f \in Fragments \/ c = Unreadable
     \/ c \in ToSet(readings) \/ c \in Unstressed
    THEN readings ELSE Append(readings, c)

Deduped(forms) ==
  LET upTo[k \in 0..Len(forms)] ==
        IF k = 0 THEN <<>> ELSE Gathered(upTo[k - 1], forms[k])
  IN  upTo[Len(forms)]

(* The forms pinned from CMUdict: canonical, and what CMUdict says.        *)
VerifiedPin(f) == CanonicalForm[f] = f /\ f \in Verified
PinAdded(readings, f) ==
  IF VerifiedPin(f) /\ f \notin ToSet(readings) THEN Append(readings, f) ELSE readings
WithPins(readings) ==
  LET upTo[k \in 0..Len(cmudict)] ==
        IF k = 0 THEN readings ELSE PinAdded(upTo[k - 1], cmudict[k])
  IN  upTo[Len(cmudict)]

(* A curated order stands; otherwise a dotted reading becomes the primary. *)
Ordered(readings) ==
  IF pinned # NoPin \/ cmudict # <<>> THEN readings
  ELSE Only(readings, Dotted) \o Only(readings, ToSet(readings) \ Dotted)

Readings == Ordered(WithPins(Deduped(Chosen)))

Rejections ==
  \/ pinned # NoPin /\ \E k \in DOMAIN pinned : ~Upstream(pinned[k])
  \/ Chosen = <<>> /\ cmudict = <<>>
  \/ \E k \in DOMAIN cmudict : ~VerifiedPin(cmudict[k])

(* validateEntry, of what normaliseEntry makes: the first reading is the   *)
(* primary, and the display order is dense, by construction.               *)
Problems ==
  \/ Rejections
  \/ ~attributed
  \/ Readings = <<>>
  \/ Len(Readings) > MaxReadings
  \/ ToSet(Readings) \cap Unstressed # {}

-----------------------------------------------------------------------------

(* fetch-wiktionary.js found another transcription.                        *)
FetchCandidate ==
  /\ Len(candidates) < MaxCandidates
  /\ \E f \in SourceForms, a \in Labels :
       candidates' = Append(candidates, [ipa |-> f, accents |-> a])
  /\ UNCHANGED <<pinned, cmudict, attributed>>

(* A maintainer records a decision in the curation file.                   *)
PinTranscription ==
  /\ \E f \in SourceForms :
       IF pinned = NoPin THEN pinned' = <<f>>
       ELSE Len(pinned) < MaxPins /\ f \notin ToSet(pinned) /\ pinned' = Append(pinned, f)
  /\ UNCHANGED <<candidates, cmudict, attributed>>

PinCmudict ==
  /\ Len(cmudict) < 1
  /\ \E f \in SourceForms : cmudict' = Append(cmudict, f)
  /\ UNCHANGED <<candidates, pinned, attributed>>

EntryInit ==
  /\ candidates = <<>> /\ pinned = NoPin /\ cmudict = <<>>
  /\ attributed \in BOOLEAN

EntryNext == FetchCandidate \/ PinTranscription \/ PinCmudict

EntrySpec == EntryInit /\ [][EntryNext]_entryVars

-----------------------------------------------------------------------------

EntryTypeOK ==
  /\ candidates \in Seq([ipa : SourceForms, accents : Labels])
  /\ pinned = NoPin \/ pinned \in Seq(SourceForms)
  /\ cmudict \in Seq(SourceForms) /\ attributed \in BOOLEAN

(* What is loaded is a few distinct canonical forms with their stress, of  *)
(* which every one is read off the source: an upstream candidate, not one  *)
(* of another country's accent unless a maintainer pinned it, or a form    *)
(* CMUdict verifies ("curation cannot silently invent a pronunciation").   *)
(* And an entry is not refused for one bad variant: with a usable American *)
(* candidate and no curation, an attributed entry loads ("one unsupported  *)
(* variant must not cost the word its other pronunciations").              *)
ReadingsAreSourced ==
  LET usable(c) == /\ c.ipa \notin Fragments
                   /\ CanonicalForm[c.ipa] \notin Unstressed \cup {Unreadable}
      american(c) == "us" \in c.accents \/ ("foreign" \notin c.accents)
      ok == ~Problems
  IN
  /\ ok =>
       /\ Len(Readings) \in 1..MaxReadings /\ IsInjective(Readings)
       /\ \A k \in DOMAIN Readings :
            LET f == Readings[k] IN
            /\ CanonicalForm[f] = f /\ f \notin Unstressed
            /\ \/ \E j \in DOMAIN candidates :
                    /\ CanonicalForm[candidates[j].ipa] = f
                    /\ pinned = NoPin => american(candidates[j])
               \/ f \in Verified /\ f \in ToSet(cmudict)
  /\ (/\ attributed /\ pinned = NoPin /\ cmudict = <<>>
      /\ \E k \in DOMAIN candidates : usable(candidates[k]) /\ "us" \in candidates[k].accents
      /\ Cardinality({CanonicalForm[candidates[k].ipa] : k \in DOMAIN candidates}) <= MaxReadings)
     => ok
==============================================================================
