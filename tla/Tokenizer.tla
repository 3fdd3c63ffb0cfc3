------------------------------ MODULE Tokenizer ------------------------------
(***************************************************************************)
(* ipa-tokenization.service.js: a source transcription is normalised by    *)
(* the en-US source profile into one or more canonical forms, and each is  *)
(* divided into units by the longest match.  A transcription is a sequence *)
(* of letters; the letters are those the profile's rules tell apart:       *)
(*   tie ~, offglide mark _, length :, syllabicity |, schwa e, rhotic      *)
(*   schwa E, open o O, close u, source r, approximant R, parentheses.     *)
(* The rules for g and for the stressed rhotic are as those for r and e.   *)
(***************************************************************************)
EXTENDS Integers, Sequences, SequencesExt, FiniteSets

CONSTANTS
  Chunks,          \* what a raw transcription is put together from
  Symbols,         \* the inventory: sequences of letters
  Vowelish,        \* letters before which the approximant is an onset
  Syllabic,        \* consonants the syllabicity mark may follow
  PermittedMarks,
  MaxChunks        \* bound: the length of a transcription

VARIABLE raw

(* String.replace with a global pattern: leftmost, not overlapping.        *)
MatchesAt(s, i, p) == i + Len(p) - 1 <= Len(s) /\ SubSeq(s, i, i + Len(p) - 1) = p
RewriteUnless(s, p, new, blocked) ==
  LET from[i \in 1..(Len(s) + Len(p) + 1)] ==
        IF i > Len(s) THEN <<>>
        ELSE IF MatchesAt(s, i, p)
                /\ ~(i + Len(p) <= Len(s) /\ s[i + Len(p)] \in blocked)
             THEN new \o from[i + Len(p)]
        ELSE <<s[i]>> \o from[i + 1]
  IN from[1]
Rewrite(s, p, new) == RewriteUnless(s, p, new, {})

(* The rules that run before the optional segments are expanded, in the    *)
(* code's order: the marked GOAT before its mark is dropped.               *)
SourceProfile(s) ==
  LET plain == Rewrite(Rewrite(Rewrite(s, <<"~">>, <<>>), <<"r">>, <<"R">>), <<":">>, <<>>)
      goat == Rewrite(Rewrite(plain, <<"O", "u", "_">>, <<"o", "u">>), <<"_">>, <<>>)
      syllabic == FoldSet(LAMBDA c, t : Rewrite(t, <<c, "|">>, <<"e", c>>), goat, Syllabic)
  IN  Rewrite(syllabic, <<"(", "R", ")">>, <<"R">>)

(* expandOptionalSegments: the first group of each form, four times over;  *)
(* the form with the segment comes first.                                  *)
FirstGroup(s) ==
  {g \in (1..Len(s)) \X (1..Len(s)) :
     /\ g[1] < g[2] /\ s[g[1]] = "(" /\ s[g[2]] = ")"
     /\ \A k \in (g[1] + 1)..(g[2] - 1) : s[k] # ")"
     /\ \A k \in 1..(g[1] - 1) : s[k] # "("}

Expanded(s) ==
  IF FirstGroup(s) = {} THEN <<s>>
  ELSE LET g == CHOOSE g \in FirstGroup(s) : TRUE
           before == SubSeq(s, 1, g[1] - 1)
           after == SubSeq(s, g[2] + 1, Len(s))
       IN  <<before \o SubSeq(s, g[1] + 1, g[2] - 1) \o after, before \o after>>

Distinct(fs) == FoldLeft(LAMBDA t, f : IF f \in ToSet(t) THEN t ELSE Append(t, f), <<>>, fs)

ExpandOptionalSegments(s) ==
  Distinct(FoldLeft(LAMBDA fs, n : FlattenSeq([k \in DOMAIN fs |-> Expanded(fs[k])]),
                    <<s>>, <<1, 2, 3, 4>>))

(* applyRhoticMerges: only where the approximant is not prevocalic.        *)
ApplyRhoticMerges(s) == RewriteUnless(s, <<"e", "R">>, <<"E">>, Vowelish)

(* The FORCE rule of the source.                                           *)
Force(s) == Rewrite(s, <<"o", "R">>, <<"O", "R">>)

MergedFirst(s) ==
  LET fs == ExpandOptionalSegments(ApplyRhoticMerges(SourceProfile(s))) IN
  Distinct([k \in DOMAIN fs |-> Force(fs[k])])

NormaliseSource(s) ==
  LET fs == ExpandOptionalSegments(SourceProfile(s)) IN
  Distinct([k \in DOMAIN fs |-> Force(ApplyRhoticMerges(fs[k]))])

(* tokenizeForm: marks are skipped, the longest symbol wins, and a letter  *)
(* no symbol begins with fails the form.                                   *)
Widest(S) == CHOOSE x \in S : \A y \in S : Len(y) <= Len(x)
TokenizeForm(f) ==
  LET from[i \in 1..(2 * Len(f) + 2)] ==
        LET matched == {x \in Symbols : MatchesAt(f, i, x)} IN
        IF i > Len(f) THEN [ok |-> TRUE, units |-> <<>>]
        ELSE IF f[i] \in PermittedMarks THEN from[i + 1]
        ELSE IF matched = {} THEN [ok |-> FALSE, units |-> <<>>]
        ELSE LET rest == from[i + Len(Widest(matched))]
             IN  [rest EXCEPT !.units = <<Widest(matched)>> \o @]
  IN from[1]

(* tokenizeTranscription: one form that fails, fails them all.             *)
TokenizeTranscription(s) ==
  LET forms == NormaliseSource(s)
      fails(f) == ToSet(f) \cap {"(", ")"} # {} \/ ~TokenizeForm(f).ok
  IN  IF \E k \in DOMAIN forms : fails(forms[k])
        THEN [ok |-> FALSE, forms |-> <<>>]
        ELSE [ok |-> TRUE,
              forms |-> [k \in DOMAIN forms |->
                          [ipa |-> forms[k], units |-> TokenizeForm(forms[k]).units]]]

-----------------------------------------------------------------------------

WriteChunk ==
  /\ Len(raw) < MaxChunks
  /\ \E c \in Chunks : raw' = raw \o c

TokenizerInit == raw = <<>>
TokenizerNext == WriteChunk
TokenizerSpec == TokenizerInit /\ [][TokenizerNext]_raw

TokenizerTypeOK == raw \in Seq(UNION {ToSet(c) : c \in Chunks})

(* What tokenises is canonical: its units spell it, mark for mark, no      *)
(* source notation is left in it, and read again it is one form with the   *)
(* same units.  The catalogue depends on it: seed-words stores the form,   *)
(* and reconciliation and the occurrences read the stored form back.       *)
TokenisesStably ==
  raw # <<>> =>
  LET result == TokenizeTranscription(raw) IN
  \A k \in DOMAIN result.forms :
    LET f == result.forms[k] IN
    /\ SelectSeq(f.ipa, LAMBDA x : x \notin PermittedMarks) = FlattenSeq(f.units)
    /\ ToSet(f.ipa) \cap {"(", ")", "~", "_", ":", "|", "r"} = {}
    /\ TokenizeTranscription(f.ipa) = [ok |-> TRUE, forms |-> <<f>>]
==============================================================================
