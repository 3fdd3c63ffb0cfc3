------------------------------ MODULE WordSearch ------------------------------
(***************************************************************************)
(* What a reader gets for a word typed into the address of a word page     *)
(* (word.route.js) or into the search box (word-search.service.js): the    *)
(* word, or the headwords closest to it (word-suggestion.service.js) from  *)
(* the list the process keeps (word-page.service.js), while the seed adds  *)
(* words. A word is a sequence of letters. Scores are in quarters.         *)
(***************************************************************************)
EXTENDS Integers, Sequences, SequencesExt, Functions, FiniteSets, Sifting

CONSTANTS
  Letters,         \* the variant's characters
  SmallLetter,     \* capital letter -> small letter
  Space,           \* any other character: it is trimmed at both ends
  Headwords,       \* edition -> its headwords, in alphabetical order
  Artifact,        \* the frequency artifact: headword -> rank
  Metaphone(_),    \* double-metaphone: two keys, of which <<>> is none
  MaxSuggestions, MaxTyped,
  NoList           \* nothing cached

(* A small letter is none of a capital or a space; words.normalized_headword*)
(* is unique in a variant, and the seed only adds words.                   *)
ASSUME WordSearchAssumption ==
  /\ MaxSuggestions \in Nat /\ MaxTyped \in Nat
  /\ \A c \in DOMAIN SmallLetter : SmallLetter[c] \notin DOMAIN SmallLetter \cup {Space}
  /\ IsFiniteSet(DOMAIN Artifact) /\ Artifact \in [DOMAIN Artifact -> Nat]
  /\ Headwords \in Seq(Seq(Seq(Letters)))
  /\ \A r \in DOMAIN Headwords :
       /\ IsInjective(Headwords[r])
       /\ r + 1 \in DOMAIN Headwords => ToSet(Headwords[r]) \subseteq ToSet(Headwords[r + 1])

VARIABLES
  typed,
  inBox,           \* into the search box, not into the address
  edition,         \* of the words in the database
  frequencies,     \* the artifact, read once for the life of the process
  cached,          \* the headword list with its frequencies, until it expires
  found            \* what the reader gets

searchVars == <<typed, inBox, edition, frequencies, cached, found>>

Listed(r) == ToSet(Headwords[r])
Unranked == 1 + Cardinality(DOMAIN Artifact)
NoRanks == [h \in {} |-> 0]

(* listHeadwords, merged with the frequencies.                             *)
List(r, rank) ==
  [i \in DOMAIN Headwords[r] |->
     LET h == Headwords[r][i]
     IN  [slug |-> h, rank |-> IF h \in DOMAIN rank THEN rank[h] ELSE Unranked]]

(* The process has answered before, or not; its list may have expired, or  *)
(* be an edition old.                                                      *)
WordSearchInit ==
  /\ typed = <<>> /\ inBox \in BOOLEAN
  /\ edition \in DOMAIN Headwords
  /\ frequencies \in {<<>>, <<Artifact>>, <<NoRanks>>}
  /\ cached \in {NoList} \cup {List(r, rank) : r \in 1..edition, rank \in ToSet(frequencies)}
  /\ found = [kind |-> "typing"]

------------------------------------------------------------------------------
CanonicaliseSlug(raw) ==
  LET solid == {i \in DOMAIN raw : raw[i] # Space}
      Small(c) == IF c \in DOMAIN SmallLetter THEN SmallLetter[c] ELSE c
      trimmed == IF solid = {} THEN <<>> ELSE SubSeq(raw, Min(solid), Max(solid))
  IN  [i \in DOMAIN trimmed |-> Small(trimmed[i])]

NormaliseQuery(raw) == Only(CanonicaliseSlug(raw), Letters)

Allowed(slug) == slug # <<>> /\ ToSet(slug) \subseteq Letters

Query == IF inBox THEN NormaliseQuery(typed) ELSE CanonicaliseSlug(typed)

------------------------------------------------------------------------------
Lesser(m, n) == IF m < n THEN m ELSE n

(* broken: plain Levenshtein, which looks back one row.                    *)
LevenshteinCell(a, b, i, j, left, previous, twoAgo) ==
  Lesser(Lesser(left, previous[j]) + 1, previous[j - 1] + IF a[i] = b[j] THEN 0 ELSE 1)

(* current[j], given current[j - 1] and the two rows before.               *)
Cell(a, b, i, j, left, previous, twoAgo) ==
  LET edited == Lesser(Lesser(left, previous[j]) + 1,
                       previous[j - 1] + IF a[i] = b[j] THEN 0 ELSE 1)
  IN  IF i > 1 /\ j > 1 /\ a[i] = b[j - 1] /\ a[i - 1] = b[j]
        THEN Lesser(edited, twoAgo[j - 2] + 1) ELSE edited

NextRow(a, b, i, previous, twoAgo) ==
  LET current[j \in 0..Len(b)] ==
        IF j = 0 THEN i ELSE Cell(a, b, i, j, current[j - 1], previous, twoAgo)
  IN  current

(* previous and twoAgo after each letter of a.                             *)
OptimalStringAlignment(a, b) ==
  LET first == [j \in 0..Len(b) |-> j]
      rows[i \in 0..Len(a)] ==
        IF i = 0 THEN [previous |-> first, twoAgo |-> first]
        ELSE LET before == rows[i - 1]
             IN  [previous |-> NextRow(a, b, i, before.previous, before.twoAgo),
                  twoAgo |-> before.previous]
  IN  rows[Len(a)].previous[Len(b)]

PhoneticBonus(left, right) ==
  CASE left[1] # <<>> /\ left[1] = right[1] -> 6
    [] left[1] # <<>> /\ left[1] = right[2] -> 3
    [] left[1] # <<>> /\ left[2] = right[1] -> 3
    [] left[2] # <<>> /\ left[2] = right[2] -> 3
    [] OTHER -> 0

Apart(m, n) == IF m < n THEN n - m ELSE m - n

Bonus(slug, h) == PhoneticBonus(Metaphone(slug), Metaphone(h))

Candidate(slug, h) ==
  /\ Apart(Len(h), Len(slug)) <= 3
  /\ Head(h) = Head(slug) \/ Bonus(slug, h) > 0

Score(slug, h) == 4 * OptimalStringAlignment(slug, h) - Bonus(slug, h)

(* The order of the suggestions; the list is in the headwords' order.      *)
Closer(s, t) ==
  \/ s.score < t.score
  \/ s.score = t.score /\ s.rank < t.rank
  \/ s.score = t.score /\ s.rank = t.rank /\ s.at < t.at

RankSuggestions(slug, list) ==
  LET scored == {[slug |-> list[i].slug, rank |-> list[i].rank, at |-> i,
                  score |-> Score(slug, list[i].slug)] :
                   i \in {j \in DOMAIN list : Candidate(slug, list[j].slug)}}
      near == {s \in scored : s.score <= 10}
  IN  [k \in 1..Lesser(MaxSuggestions, Cardinality(near)) |->
         CHOOSE s \in near : Cardinality({t \in near : Closer(t, s)}) = k - 1]

------------------------------------------------------------------------------
Type(c) ==
  /\ found.kind = "typing" /\ Len(typed) < MaxTyped
  /\ typed' = Append(typed, c)
  /\ UNCHANGED <<inBox, edition, frequencies, cached, found>>

(* normaliseWordSlug, or an empty query; findWordByHeadword.               *)
LookUp ==
  /\ found.kind = "typing"
  /\ found' = [kind |->
       CASE inBox /\ Query = <<>> -> "empty"
         [] ~inBox /\ ~Allowed(Query) -> "invalid"
         [] ~inBox /\ Query # typed -> "redirected"
         [] Query \in Listed(edition) -> "word"
         [] OTHER -> "missed"]
  /\ UNCHANGED <<typed, inBox, edition, frequencies, cached>>

(* getCachedHeadwords finds no list, or an expired one. An artifact that   *)
(* cannot be read is read as one without frequencies, which is kept too.   *)
ReadHeadwords ==
  /\ found.kind = "missed" /\ cached = NoList
  /\ IF frequencies = <<>> THEN frequencies' \in {<<Artifact>>, <<NoRanks>>} ELSE UNCHANGED frequencies
  /\ cached' = List(edition, Head(frequencies'))
  /\ UNCHANGED <<typed, inBox, edition, found>>

Suggest ==
  /\ found.kind = "missed" /\ cached # NoList
  /\ found' = [kind |-> "suggestions", list |-> RankSuggestions(Query, cached)]
  /\ UNCHANGED <<typed, inBox, edition, frequencies, cached>>

(* The seed runs beside the server, which is not told.                     *)
SeedWords ==
  /\ edition < Len(Headwords)
  /\ edition' = edition + 1
  /\ UNCHANGED <<typed, inBox, frequencies, cached, found>>

WordSearchNext ==
  \/ \E c \in Letters \cup DOMAIN SmallLetter \cup {Space} : Type(c)
  \/ LookUp \/ ReadHeadwords \/ Suggest \/ SeedWords

WordSearchSpec == WordSearchInit /\ [][WordSearchNext]_searchVars

------------------------------------------------------------------------------
WordSearchTypeOK ==
  /\ typed \in BoundedSeq(Letters \cup DOMAIN SmallLetter \cup {Space}, MaxTyped)
  /\ inBox \in BOOLEAN /\ edition \in DOMAIN Headwords
  /\ frequencies \in {<<>>, <<Artifact>>, <<NoRanks>>}
  /\ cached = NoList \/ \E r \in 1..edition, rank \in ToSet(frequencies) : cached = List(r, rank)
  /\ found.kind \in {"typing", "empty", "invalid", "redirected", "word", "missed", "suggestions"}
  /\ found.kind = "suggestions" => ToSet([i \in DOMAIN found.list |-> found.list[i].slug]) \subseteq Listed(edition)

(* b is a, but for one letter more, less or other, or two neighbours that  *)
(* changed places.                                                         *)
OneSlip(a, b) ==
  \/ \E i \in DOMAIN a : RemoveAt(a, i) = b
  \/ \E i \in DOMAIN b : RemoveAt(b, i) = a
  \/ Len(a) = Len(b) /\ Cardinality({i \in DOMAIN a : a[i] # b[i]}) = 1
  \/ \E i \in 1..(Len(a) - 1) :
       a # b /\ b = [a EXCEPT ![i] = a[i + 1], ![i + 1] = a[i]]

(* A word is suggested, unless as many as fit are at least as close.       *)
SuggestedOrCrowdedOut(h) ==
  \/ \E i \in DOMAIN found.list : found.list[i].slug = h
  \/ /\ Len(found.list) = MaxSuggestions
     /\ \A i \in DOMAIN found.list : found.list[i].score <= Score(Query, h)

(* rankSuggestions: one slip of the typist, an adjacent transposition too, *)
(* is one edit, whichever of the two words it is in; a word one slip away  *)
(* that begins with the letter typed, or sounds like what was typed, is not*)
(* crowded out by one that is further away; every suggestion is a word,    *)
(* closer ones first and the more common of two that are as close. A       *)
(* redirect leads to a slug that is not redirected again. (A word whose    *)
(* only slip is in the first letter, and which sounds otherwise, is no     *)
(* candidate, though decision E3 would have it for its distance.)          *)
SuggestionsAreClosest ==
  /\ found.kind = "redirected" => CanonicaliseSlug(Query) = Query
  /\ found.kind = "suggestions" =>
       LET list == found.list
       IN  /\ \A i, j \in DOMAIN list :
                i < j => /\ list[i].slug # list[j].slug
                         /\ \/ list[i].score < list[j].score
                            \/ list[i].score = list[j].score /\ list[i].rank <= list[j].rank
           /\ \A i \in DOMAIN list : list[i].slug \in Listed(edition)
           /\ \A e \in ToSet(cached) :
                LET d == OptimalStringAlignment(Query, e.slug)
                IN  /\ d = OptimalStringAlignment(e.slug, Query)
                    /\ (d = 1) = OneSlip(Query, e.slug)
                    /\ (d = 0) = (Query = e.slug)
                    /\ /\ d <= 1
                       /\ Head(e.slug) = Head(Query) \/ Bonus(Query, e.slug) > 0
                       => SuggestedOrCrowdedOut(e.slug)
==============================================================================
