------------------------------ MODULE Syllables ------------------------------
(***************************************************************************)
(* The written syllable breakdown of a pronunciation:                      *)
(* syllabification.service.js decides it, scripts/syllabify-pronunciations *)
(* .js stores it.  A transcription is a sequence of units, stress marks    *)
(* and separators; a breakdown is the set of units that begin a syllable.  *)
(***************************************************************************)
EXTENDS Sifting, SequencesExt, FiniteSetsExt

CONSTANTS
  Consonants, Vowels, CentralRhotics,
  CheckedVowels,       \* cannot end a syllable
  RhoticConsonant,     \* the approximant
  LegalOnsets,         \* the clusters of TWO_ and THREE_CONSONANT_ONSETS
  IllegalSingle,       \* ILLEGAL_SINGLE_ONSET
  Stress, Dot,         \* the marks of a transcription
  MaxMarks, MaxWord    \* bounds on the words tried

VARIABLES
  word,                \* ipa_transcription
  breakdown,           \* syllable_breakdown, or NoBreakdown
  review,              \* the row of the override artifact
  defect,              \* the row is a proven source defect
  layer                \* what decided the breakdown

NoBreakdown == {0}
(* No row, one whose review is pending or ambiguous, or a reviewed one.    *)
Review == [status : {"none", "unreviewed", "reviewed"}, starts : SUBSET (1..MaxWord)]
NoReview == [status |-> "none", starts |-> {}]

sylVars == <<word, breakdown, review, defect, layer>>

Nuclei == Vowels \cup CentralRhotics
IsUnit(x) == x \in Consonants \cup Nuclei

ASSUME SyllablesAssumption ==
  /\ Consonants \cap Nuclei = {} /\ CheckedVowels \subseteq Vowels
  /\ RhoticConsonant \in Consonants
  /\ MaxWord \in Nat

UnitsIn(w) == Only(w, Consonants \cup Nuclei)

(* The units a mark precedes, the first unit's own mark aside.             *)
Before(w, mark) ==
  {Len(UnitsIn(SubSeq(w, 1, k))) + 1 : k \in {k \in DOMAIN w : w[k] = mark}} \ {1}

(* deriveSyllableBreakdown: the boundaries the source itself marks.        *)
Derived(w) == {1} \cup Before(w, Stress) \cup (Before(w, Dot) \ {Len(UnitsIn(w)) + 1})

IsLegalOnset(c) ==
  CASE Len(c) = 0 -> TRUE
    [] Len(c) = 1 -> c[1] \notin IllegalSingle
    [] OTHER -> c \in LegalOnsets

AllOfIt(vowel, c) == Len(c)

(* How many consonants of a cluster the next syllable may take: one stays  *)
(* behind to close a checked vowel, or when the cluster begins with the    *)
(* approximant.                                                            *)
MaximumOnset(vowel, c) ==
  IF vowel \in CheckedVowels \/ c[1] = RhoticConsonant THEN Len(c) - 1 ELSE Len(c)

(* The boundary between the nuclei m and n, or none.  A stress mark in the *)
(* gap decides it; the last one does.                                      *)
Between(us, m, n, stressed) ==
  LET fixed == stressed \cap (m + 1)..n
      cluster == SubSeq(us, m + 1, n - 1)
      taken == {k \in 1..MaximumOnset(us[m], cluster) :
                  k <= 3 /\ IsLegalOnset(SubSeq(us, n - k, n - 1))}
  IN  IF fixed # {} THEN {Max(fixed)}
      ELSE IF cluster = <<>> THEN IF us[n] \in CentralRhotics THEN {} ELSE {n}
      ELSE {n - Max(taken \cup {0})}

Syllabify(us, stressed) ==
  LET nuclei == {k \in DOMAIN us : us[k] \in Nuclei} IN
  {1} \cup UNION {Between(us, p[1], p[2], stressed) :
                    p \in {p \in nuclei \X nuclei :
                      p[1] < p[2] /\ nuclei \cap (p[1] + 1)..(p[2] - 1) = {}}}

Syllable(us, starts, b) ==
  {us[k] : k \in {k \in DOMAIN us :
     k >= b /\ \A c \in starts : b < c => k < c}}

EverySpanHasANucleus(us, starts) == \A b \in starts : Syllable(us, starts, b) \cap Nuclei # {}

(* writeSeparators: nothing when a span has no nucleus, or nothing gained. *)
Separated(us, starts, stressed) ==
  IF EverySpanHasANucleus(us, starts \cup stressed) /\ starts \ ({1} \cup stressed) # {}
    THEN starts \cup stressed ELSE NoBreakdown

InsertSyllableMarks(w) ==
  Separated(UnitsIn(w), Syllabify(UnitsIn(w), Before(w, Stress)), Before(w, Stress))

(* A proposal omitting a boundary the source's stress states is refused.   *)
ApplyProposedDivision(w, starts) ==
  IF Before(w, Stress) \subseteq starts /\ starts \subseteq 1..Len(UnitsIn(w))
    THEN Separated(UnitsIn(w), starts, Before(w, Stress)) ELSE NoBreakdown

(* What no layer writes a boundary into stays as the transcription derives *)
(* it.                                                                     *)
OrDerived(w, marked) == IF marked = NoBreakdown THEN Derived(w) ELSE marked

(* The precedence of planSyllableBreakdown.                                *)
Plan(w, stored) ==
  LET marked == IF defect \/ review.status = "unreviewed" THEN NoBreakdown
                ELSE IF review.status = "reviewed" THEN ApplyProposedDivision(w, review.starts)
                ELSE InsertSyllableMarks(w)
      decided == IF defect THEN "held"
                 ELSE IF review.status = "unreviewed" THEN "unreviewed"
                 ELSE IF review.status = "reviewed"
                   THEN IF marked = NoBreakdown THEN "refused" ELSE "override"
                 ELSE IF marked = NoBreakdown THEN "none" ELSE "inferred"
      target == OrDerived(w, marked)
  IN  IF Dot \in ToSet(w) THEN [layer |-> "source", breakdown |-> stored]
      ELSE IF stored # Derived(w) /\ stored # target
             THEN [layer |-> "curated", breakdown |-> stored]
      ELSE [layer |-> decided, breakdown |-> target]

-----------------------------------------------------------------------------

Fresh == breakdown = NoBreakdown

(* Any transcription, a symbol at a time; a separator follows a unit.      *)
Transcribe ==
  /\ Fresh /\ Len(word) < MaxWord
  /\ \E x \in Consonants \cup Nuclei \cup {Stress, Dot} :
       /\ ~IsUnit(x) => /\ Len(SelectSeq(word, LAMBDA y : ~IsUnit(y))) < MaxMarks
                        /\ IF word = <<>> THEN x = Stress ELSE IsUnit(word[Len(word)])
       /\ word' = Append(word, x)
  /\ UNCHANGED <<breakdown, review, defect, layer>>

(* The word seed writes what the transcription derives, or the breakdown   *)
(* of the curation file.                                                   *)
SeedBreakdown ==
  /\ Fresh /\ UnitsIn(word) # <<>> /\ IsUnit(word[Len(word)])
  /\ \E b \in {1, Len(UnitsIn(word))} : breakdown' = Derived(word) \cup {b}
  /\ layer' = "seed"
  /\ UNCHANGED <<word, review, defect>>

(* A word is put up for review, a maintainer records its division, or a    *)
(* defect is proven, and the word is seeded again before the script runs.  *)
PutUpForReview ==
  /\ layer = "seed" /\ review = NoReview /\ ~defect
  /\ review' = [NoReview EXCEPT !.status = "unreviewed"]
  /\ UNCHANGED <<word, breakdown, defect, layer>>

ReviewDivision ==
  /\ layer = "seed" /\ review = NoReview /\ ~defect
  /\ \E inner \in SUBSET (2..Len(UnitsIn(word))) :
       review' = [status |-> "reviewed", starts |-> {1} \cup inner]
  /\ UNCHANGED <<word, breakdown, defect, layer>>

ProveDefect ==
  /\ layer = "seed" /\ review.status # "reviewed" /\ ~defect
  /\ defect' = TRUE
  /\ UNCHANGED <<word, breakdown, review, layer>>

SyllabifyPronunciation ==
  /\ ~Fresh
  /\ LET p == Plan(word, breakdown) IN breakdown' = p.breakdown /\ layer' = p.layer
  /\ UNCHANGED <<word, review, defect>>

SyllablesInit ==
  /\ word = <<>> /\ breakdown = NoBreakdown /\ review = NoReview
  /\ defect = FALSE /\ layer = "unseeded"

SyllablesNext ==
  \/ Transcribe
  \/ SeedBreakdown
  \/ PutUpForReview
  \/ ReviewDivision
  \/ ProveDefect
  \/ SyllabifyPronunciation

SyllablesSpec == SyllablesInit /\ [][SyllablesNext]_sylVars

-----------------------------------------------------------------------------

(* The values every variable ranges over; a seeded word has a breakdown.   *)
SyllablesTypeOK ==
  /\ word \in Seq(Consonants \cup Nuclei \cup {Stress, Dot})
  /\ breakdown = NoBreakdown \/ breakdown \subseteq 1..MaxWord
  /\ review \in Review /\ defect \in BOOLEAN
  /\ layer \in {"unseeded", "seed", "source", "held", "unreviewed", "inferred", "none",
                "refused", "override", "curated"}
  /\ layer = "unseeded" <=> breakdown = NoBreakdown

(* A breakdown the script computed keeps every boundary the source's       *)
(* stress marks state and has a nucleus in every syllable ("a separator    *)
(* can land one unit away from the mark ... which leaves /s/ as a syllable *)
(* with no nucleus").  Where it inferred the boundary itself, no syllable  *)
(* has two nuclei but for a disputed central rhotic, none begins with an   *)
(* onset English does not have, and a checked vowel before consonants is   *)
(* closed.  A proven defect and a division under review get no boundary    *)
(* but those of the source.                                                *)
DivisionIsSound ==
  LET us == UnitsIn(word)
  IN
  /\ layer \in {"inferred", "override"} =>
       /\ Derived(word) \subseteq breakdown
       /\ \A b \in breakdown : Syllable(us, breakdown, b) \cap Nuclei # {}
  /\ layer \in {"held", "unreviewed", "refused"} => breakdown = Derived(word)
  /\ layer = "inferred" =>
       /\ \A m, n \in DOMAIN us :
            (/\ m < n /\ {us[m], us[n]} \subseteq Nuclei
             /\ breakdown \cap (m + 1)..n = {}
             /\ \A k \in (m + 1)..(n - 1) : us[k] \notin Nuclei)
            => n = m + 1 /\ us[n] \in CentralRhotics
       /\ \A b \in breakdown \ Derived(word) :
            /\ \E n \in DOMAIN us :
                 /\ n >= b /\ us[n] \in Nuclei
                 /\ \A k \in b..(n - 1) : us[k] \in Consonants
                 /\ IsLegalOnset(SubSeq(us, b, n - 1))
            /\ us[b - 1] \in CheckedVowels => us[b] \in Nuclei
            /\ us[b - 1] \in Nuclei => us[b] # RhoticConsonant
==============================================================================
