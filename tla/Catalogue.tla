------------------------------ MODULE Catalogue ------------------------------
(***************************************************************************)
(* The pronunciations of one word, and the scripts that write them:        *)
(* scripts/seed-words.js (LoadEntry, one transaction a word),              *)
(* scripts/seed-phonemes.js (reconcile, rank, populate, validate), and the *)
(* clip scripts/generate-word-audio.js attaches.  Reconciliation and the   *)
(* occurrences are written statement by statement, outside a transaction,  *)
(* so the script may be stopped between two statements.  An operator runs  *)
(* one script at a time.                                                   *)
(*                                                                         *)
(* A transcription is a model value; which canonical form it tokenises to  *)
(* and into which units are constants of a release of the inventory        *)
(* (Tokenizer.tla models the tokeniser itself).                            *)
(***************************************************************************)
EXTENDS Integers, Sequences, SequencesExt, FiniteSets

CONSTANTS
  Forms,          \* transcriptions, canonical or not
  Rejected,       \* what a transcription that does not tokenise "reads as"
  Units,          \* the units of every release of the inventory
  Inventory,      \* Inventory[r]: the units of release r, in canonical order
  ReadsAs,        \* ReadsAs[r][f]: the canonical form, or Rejected
  UnitsOf,        \* UnitsOf[r][f]: the units of a canonical form
  Earlier,        \* contents an earlier release may have left: sequences of forms
  Entries,        \* entries the artifact may hold: sequences of forms
  ParkModulus,    \* 30000 in the code
  MaxId           \* bound: pronunciation ids handed out

(* The table has its unique keys; an entry is what validateEntry passes    *)
(* (ReadingsAreSourced of WordEntry): some readings, each of them once. A  *)
(* canonical form reads as itself (TokenisesStably of Tokenizer) and in    *)
(* units of the inventory; a later inventory lists more of them.           *)
ASSUME CatalogueAssumption ==
  /\ ParkModulus \in Nat \ {0} /\ Rejected \notin Forms
  /\ 1 \in DOMAIN Inventory
  /\ \A e \in Earlier \cup Entries : e \in Seq(Forms) /\ IsInjective(e)
  /\ <<>> \notin Entries
  /\ \A r \in DOMAIN Inventory, f \in Forms :
       \/ ReadsAs[r][f] = Rejected
       \/ /\ ReadsAs[r][f] \in Forms /\ ReadsAs[r][ReadsAs[r][f]] = ReadsAs[r][f]
          /\ UnitsOf[r][ReadsAs[r][f]] \in Seq(Units)
          /\ ToSet(UnitsOf[r][ReadsAs[r][f]]) \subseteq ToSet(Inventory[r])
  /\ \A r \in DOMAIN Inventory :
       /\ Inventory[r] \in Seq(Units)
       /\ r + 1 \in DOMAIN Inventory => ToSet(Inventory[r]) \subseteq ToSet(Inventory[r + 1])

VARIABLES
  release,        \* the release of the inventory the scripts load
  rows,           \* word_pronunciations of the word, by pronunciation_id
  occurs,         \* pronunciation_phonemes, by pronunciation_id
  ranks,          \* phonemes.frequency_rank by unit; 0: no row
  nextId,
  seed            \* the script at work: its stage and the statements it has left

catVars == <<release, rows, occurs, ranks, nextId, seed>>

Releases == DOMAIN Inventory
CanonicalOf(f) == ReadsAs[release][f]
Tokenises(f) == CanonicalOf(f) # Rejected
Resting(s) == [stage |-> s, todo |-> <<>>]
AtRest == {"idle", "loaded", "valid", "invalid"}

(* ORDER BY display_order, which UNIQUE (word_id, display_order) makes     *)
(* total: the k-th row has k - 1 rows before it.                           *)
InOrder(rs) ==
  LET Rank(i) == Cardinality({j \in DOMAIN rs : rs[j].order < rs[i].order})
  IN  [k \in 1..Cardinality(DOMAIN rs) |-> CHOOSE i \in DOMAIN rs : Rank(i) = k - 1]
Keep(f, S) == [i \in DOMAIN f \cap S |-> f[i]]

(* ------------------------------ seed-words ----------------------------- *)

(* The three unique keys of word_pronunciations, in the order MySQL checks *)
(* them: the form, the display order, the primary flag.                    *)
Duplicates(rs, r) ==
  LET byForm == {i \in DOMAIN rs : rs[i].form = r.form}
      byOrder == {i \in DOMAIN rs : rs[i].order = r.order}
      byFlag == {i \in DOMAIN rs : r.primary /\ rs[i].primary}
  IN  IF byForm # {} THEN byForm ELSE IF byOrder # {} THEN byOrder ELSE byFlag

Collides(rs, i) ==
  \E j \in DOMAIN rs \ {i} :
     \/ rs[j].form = rs[i].form
     \/ rs[j].order = rs[i].order
     \/ rs[j].primary /\ rs[i].primary

Inserted(rs, i, r) == [j \in DOMAIN rs \cup {i} |-> IF j = i THEN r ELSE rs[j]]

(* INSERT ... ON DUPLICATE KEY UPDATE: the update never touches the form   *)
(* nor the clip, and is refused when it meets another unique key.          *)
UpsertPronunciation(t, r) ==
  LET met == Duplicates(t.rows, r) IN
  IF ~t.ok THEN t
  ELSE IF met = {}
    THEN [t EXCEPT !.rows = Inserted(t.rows, t.next, r), !.next = @ + 1]
    ELSE LET i == CHOOSE i \in met : TRUE
             updated == [t.rows EXCEPT ![i] = [@ EXCEPT !.primary = r.primary, !.order = r.order]]
         IN  IF Collides(updated, i) THEN [t EXCEPT !.ok = FALSE]
                                     ELSE [t EXCEPT !.rows = updated]

Unparked(i, r) == r

(* "Clear the ordering keys first".                                        *)
Parked(i, r) == [r EXCEPT !.primary = FALSE, !.order = -(i % ParkModulus) - 1]

EntryRow(e, k) == [form |-> e[k], primary |-> k = 1, order |-> k - 1, clip |-> FALSE]

AllParked(rs, next) ==
  LET ids == InOrder(rs)
      upTo[k \in 0..Len(ids)] ==
        IF k = 0 THEN [rows |-> rs, next |-> next, ok |-> TRUE]
        ELSE UpsertPronunciation(upTo[k - 1], Parked(ids[k], rs[ids[k]]))
  IN  upTo[Len(ids)]

Written(rs, next, e) ==
  LET upTo[k \in 0..Len(e)] ==
        IF k = 0 THEN AllParked(rs, next)
        ELSE UpsertPronunciation(upTo[k - 1], EntryRow(e, k))
  IN  upTo[Len(e)]

(* Only a form of the current release passes normaliseEntry's gate.        *)
LoadEntry(e) ==
  LET t == Written(rows, nextId, e)
      kept == {i \in DOMAIN t.rows : t.rows[i].form \in ToSet(e)}
  IN
  /\ seed.stage \in AtRest
  /\ \A k \in DOMAIN e : CanonicalOf(e[k]) = e[k]
  /\ t.next <= MaxId + 1
  /\ IF t.ok
       THEN /\ rows' = Keep(t.rows, kept)
            /\ occurs' = [i \in kept |-> IF i \in DOMAIN occurs THEN occurs[i] ELSE <<>>]
            /\ nextId' = t.next
            /\ seed' = Resting("loaded")
       ELSE seed' = Resting("idle") /\ UNCHANGED <<rows, occurs, nextId>>
  /\ UNCHANGED <<release, ranks>>

(* -------------------- seed-phonemes, stage 1: reconcile ---------------- *)

Statement(op, i, x) == [op |-> op, id |-> i, arg |-> x]

(* deletePronunciationById: the occurrences, then the row.                 *)
Deleting(i) == <<Statement("clear", i, 0), Statement("delete", i, 0)>>

(* Every row is decided from what was read before the first write.         *)
Decided(t, i) ==
  LET canonical == CanonicalOf(rows[i].form)
      siblings == {j \in DOMAIN rows \ {i} :
                     j \notin t.consumed /\ CanonicalOf(rows[j].form) = canonical}
      first == CHOOSE s \in siblings : \A j \in siblings : rows[s].order <= rows[j].order
      rename == Statement("rename", i, canonical)
      promote == IF rows[first].primary /\ ~rows[i].primary
                   THEN <<Statement("promote", i, 0)>> ELSE <<>>
  IN
  IF i \in t.consumed \/ canonical = rows[i].form THEN t
  ELSE IF canonical = Rejected THEN [t EXCEPT !.todo = @ \o Deleting(i)]
  ELSE IF siblings = {} THEN [t EXCEPT !.todo = @ \o <<rename>>]
  ELSE [consumed |-> t.consumed \cup {first},
        todo |-> t.todo \o Deleting(first) \o <<rename>> \o promote]

Decisions ==
  LET ids == InOrder(rows)
      upTo[k \in 0..Len(ids)] ==
        IF k = 0 THEN [consumed |-> {}, todo |-> <<>>] ELSE Decided(upTo[k - 1], ids[k])
  IN  upTo[Len(ids)].todo

NeverBlocked == FALSE

(* A word none of whose rows tokenises is left as it is, and reported.     *)
Blocked == \A i \in DOMAIN rows : ~Tokenises(rows[i].form)

ReconcilePronunciations ==
  /\ seed.stage \in AtRest
  /\ seed' = [stage |-> "reconcile",
              todo |-> IF Blocked THEN <<>> ELSE Decisions]
  /\ UNCHANGED <<release, rows, occurs, ranks, nextId>>

(* The statements of stages 1 and 3, run one at a time.  A statement that  *)
(* breaks a unique key throws and ends the script.                         *)
Renamed(i, f) == [rows EXCEPT ![i].form = f]
Promoted(i) == [rows EXCEPT ![i].primary = TRUE]
Placed(us, s) == IF s.arg[1] <= Len(us) THEN [us EXCEPT ![s.arg[1]] = s.arg[2]]
                                        ELSE Append(us, s.arg[2])

RunStatement ==
  /\ seed.todo # <<>>
  /\ LET s == Head(seed.todo) IN
     /\ rows' = CASE s.op = "delete" -> Keep(rows, DOMAIN rows \ {s.id})
                  [] s.op = "rename" /\ ~Collides(Renamed(s.id, s.arg), s.id) ->
                       Renamed(s.id, s.arg)
                  [] s.op = "promote" /\ ~Collides(Promoted(s.id), s.id) -> Promoted(s.id)
                  [] OTHER -> rows
     /\ occurs' = CASE s.op = "clear" -> [occurs EXCEPT ![s.id] = <<>>]
                    [] s.op = "delete" -> Keep(occurs, DOMAIN occurs \ {s.id})
                    [] s.op = "occur" -> [occurs EXCEPT ![s.id] = Placed(@, s)]
                    [] OTHER -> occurs
     /\ seed' = IF \/ s.op = "rename" /\ Collides(Renamed(s.id, s.arg), s.id)
                   \/ s.op = "promote" /\ Collides(Promoted(s.id), s.id)
                  THEN Resting("idle")
                  ELSE [seed EXCEPT !.todo = Tail(@)]
  /\ UNCHANGED <<release, ranks, nextId>>

(* The operator, or the machine, stops the script.                         *)
StopSeed ==
  /\ seed.stage \in {"reconcile", "rank", "occur"}
  /\ seed' = Resting("idle")
  /\ UNCHANGED <<release, rows, occurs, ranks, nextId>>

(* ---------------------- stage 2: the frequency ranks -------------------- *)

(* countUnitOccurrences, over the rows that tokenise.                      *)
CountOf(u) ==
  LET units(i) == UnitsOf[release][CanonicalOf(rows[i].form)]
      read == {i \in DOMAIN rows : Tokenises(rows[i].form)}
  IN  Cardinality(UNION {{<<i, k>> : k \in {k \in DOMAIN units(i) : units(i)[k] = u}} : i \in read})

(* deriveFrequencyRanks: by count downwards, then in canonical order.      *)
OrderOf(u) == CHOOSE k \in DOMAIN Inventory[release] : Inventory[release][k] = u
Ahead(counts, u, v) ==
  counts[u] > counts[v] \/ (counts[u] = counts[v] /\ OrderOf(u) < OrderOf(v))
Ranked(counts) ==
  LET listed == ToSet(Inventory[release])
  IN  [u \in listed |-> Cardinality({v \in listed : Ahead(counts, v, u)}) + 1]

(* UNIQUE (variant_id, frequency_rank).                                    *)
RankSet(t, u, n) ==
  IF ~t.ok \/ (\E v \in Units \ {u} : t.ranks[v] = n)
    THEN [t EXCEPT !.ok = FALSE]
    ELSE [t EXCEPT !.ranks[u] = n]

(* One statement for each unit of the inventory, in its order.             *)
Ranking(t, rank) ==
  LET inventory == Inventory[release]
      upTo[k \in 0..Len(inventory)] ==
        IF k = 0 THEN t ELSE RankSet(upTo[k - 1], inventory[k], rank[inventory[k]])
  IN  upTo[Len(inventory)]

ParkedRanks == [u \in Units |-> IF ranks[u] > 0 THEN -ranks[u] ELSE ranks[u]]

(* Below every parked rank.                                                *)
Vacated == [u \in ToSet(Inventory[release]) |-> -(OrderOf(u) + Len(Inventory[release]))]

(* Park every rank, upsert every unit below the parked ones, then hand the *)
(* ranks out: one transaction.                                             *)
SeedPhonemes ==
  LET counts == [u \in ToSet(Inventory[release]) |-> CountOf(u)]
      upserted == Ranking([ranks |-> ParkedRanks, ok |-> TRUE], Vacated)
      ranked == Ranking(upserted, Ranked(counts))
  IN
  /\ seed.stage = "reconcile" /\ seed.todo = <<>>
  /\ IF ranked.ok
       THEN ranks' = ranked.ranks /\ seed' = [seed EXCEPT !.stage = "rank"]
       ELSE ranks' = ranks /\ seed' = [seed EXCEPT !.stage = "refused"]
  /\ UNCHANGED <<release, rows, occurs, nextId>>

(* -------------------- stage 3: the clickable occurrences ---------------- *)

WithoutDelete(i, us) == [k \in DOMAIN us |-> Statement("occur", i, <<k, us[k]>>)]

(* replacePronunciationPhonemes: DELETE, then one INSERT a unit.           *)
Replacing(i, us) ==
  <<Statement("clear", i, 0)>> \o [k \in DOMAIN us |-> Statement("occur", i, <<k, us[k]>>)]

Occurrences(i) ==
  LET units == UnitsOf[release][CanonicalOf(rows[i].form)] IN
  IF ~Tokenises(rows[i].form) \/ \E k \in DOMAIN units : ranks[units[k]] = 0
    THEN <<>> ELSE Replacing(i, units)

AllOccurrences ==
  LET ids == InOrder(rows)
      upTo[k \in 0..Len(ids)] == IF k = 0 THEN <<>> ELSE upTo[k - 1] \o Occurrences(ids[k])
  IN  upTo[Len(ids)]

PopulateOccurrences ==
  /\ seed.stage = "rank"
  /\ seed' = [stage |-> "occur", todo |-> AllOccurrences]
  /\ UNCHANGED <<release, rows, occurs, ranks, nextId>>

(* validateSeed: every unit has a row and a rank of 1..N, no other unit    *)
(* has one, and every form tokenises.                                      *)
SeedProblems ==
  \/ {u \in Units : ranks[u] # 0} # ToSet(Inventory[release])
  \/ {ranks[u] : u \in ToSet(Inventory[release])} # 1..Len(Inventory[release])
  \/ \E i \in DOMAIN rows : ~Tokenises(rows[i].form)

ValidateSeed ==
  /\ seed.stage = "occur" /\ seed.todo = <<>>
  /\ seed' = Resting(IF SeedProblems THEN "invalid" ELSE "valid")
  /\ UNCHANGED <<release, rows, occurs, ranks, nextId>>

(* ------------------------------ the rest -------------------------------- *)

(* generate-word-audio: the work list is the primaries without a clip.     *)
AttachWordClip ==
  /\ seed.stage \in AtRest
  /\ \E i \in DOMAIN rows :
       /\ rows[i].primary /\ ~rows[i].clip
       /\ rows' = [rows EXCEPT ![i].clip = TRUE]
  /\ UNCHANGED <<release, occurs, ranks, nextId, seed>>

(* A deployment with a later inventory: units are added, never removed.    *)
NextRelease ==
  /\ seed.stage \in AtRest
  /\ release + 1 \in Releases
  /\ release' = release + 1
  /\ seed' = Resting("idle")
  /\ UNCHANGED <<rows, occurs, ranks, nextId>>

LeftRows(e) == [i \in DOMAIN e |-> EntryRow(e, i)]

CatalogueInit ==
  /\ release = 1
  /\ rows \in {LeftRows(e) : e \in Earlier}
  /\ occurs = [i \in DOMAIN rows |-> <<>>]
  /\ ranks = [u \in Units |-> 0]
  /\ nextId = Cardinality(DOMAIN rows) + 1
  /\ seed = Resting("idle")

(* The two scripts.                                                        *)
SeedWordsScript == \E e \in Entries : LoadEntry(e)

SeedPhonemesScript ==
  \/ ReconcilePronunciations \/ RunStatement
  \/ SeedPhonemes \/ PopulateOccurrences \/ ValidateSeed

CatalogueNext ==
  \/ SeedWordsScript \/ SeedPhonemesScript \/ StopSeed
  \/ AttachWordClip \/ NextRelease

CatalogueSpec == CatalogueInit /\ [][CatalogueNext]_catVars

-----------------------------------------------------------------------------

(* Rows, occurrences, ranks and the script have their types.               *)
CatalogueTypeOK ==
  /\ release \in Releases
  /\ DOMAIN rows \subseteq 1..MaxId /\ DOMAIN occurs = DOMAIN rows
  /\ \A i \in DOMAIN rows :
       /\ rows[i] \in [form : Forms, primary : BOOLEAN, order : Int, clip : BOOLEAN]
       /\ ToSet(occurs[i]) \subseteq Units
  /\ ranks \in [Units -> Int] /\ nextId \in 1..MaxId + 1
  /\ seed.stage \in AtRest \cup {"reconcile", "rank", "occur", "refused"}

(* A load leaves the entry and nothing else, its first form primary and    *)
(* first, and a form the word had before keeps its row, and with it its    *)
(* clip, in whatever order the new entry lists the forms (loadEntry: "so no*)
(* upsert below collides with a row that has not been rewritten yet").     *)
LoadedAsGiven ==
  [][\A e \in Entries : seed'.stage = "loaded" /\ LoadEntry(e) =>
       /\ {rows'[i].form : i \in DOMAIN rows'} = ToSet(e)
       /\ \A i \in DOMAIN rows' :
            /\ rows'[i].form = e[rows'[i].order + 1]
            /\ rows'[i].primary <=> rows'[i].order = 0
       /\ \A i \in DOMAIN rows : rows[i].form \in ToSet(e) =>
            /\ i \in DOMAIN rows'
            /\ rows'[i].form = rows[i].form /\ rows'[i].clip = rows[i].clip
    ]_catVars

(* "A word is never left with no pronunciation": not by a load, and not    *)
(* between two statements of a reconciliation that is stopped there.       *)
WordKeepsAReading == [][rows # <<>> => rows' # <<>>]_catVars

(* A seed that validateSeed passes has every row in its canonical form,    *)
(* once, with exactly the units of that form as its occurrences, and ranks *)
(* that follow the counts; and the ranks are never refused by their unique *)
(* key, whatever order the corpus moved them from.                         *)
ValidSeedIsSound ==
  /\ seed.stage # "refused"
  /\ seed.stage = "valid" =>
       /\ \A i \in DOMAIN rows :
            /\ CanonicalOf(rows[i].form) = rows[i].form
            /\ occurs[i] = UnitsOf[release][rows[i].form]
            /\ \A j \in DOMAIN rows \ {i} : rows[j].form # rows[i].form
       /\ \A u, v \in ToSet(Inventory[release]) :
            CountOf(u) > CountOf(v) => ranks[u] < ranks[v]
==============================================================================
