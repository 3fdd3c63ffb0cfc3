------------------------------ MODULE MCContent ------------------------------
(***************************************************************************)
(* The content a reader gets and the browser it is shown in, for TLC: the  *)
(* clips, the readings of an entry and their loading, the tokeniser and the*)
(* syllable breakdown, the backups, the pa_uid identity of a page, the     *)
(* search for a word, the popover of a phoneme. The nine share no variable,*)
(* so a behaviour is one of them: part says which, and the others stay as  *)
(* they began. Of the generators only g1 works on phonemes too, and the    *)
(* longest words are divided without a reviewed proposal.                  *)
(***************************************************************************)
EXTENDS AudioAsset, Backup, Catalogue, Syllables, Tokenizer, WordEntry,
        BrowserIdentity, WordSearch, PhonemePopover, TLC

CONSTANTS a1, g1, fA, fa, fa2, fB, fX

VARIABLE part

(* Two releases of the inventory, t and s, then the affricate ts as well.  *)
(* fa and fa2 are other spellings of fA, fX cannot be read.                *)
Inventories == <<<<"t", "s">>, <<"t", "s", "ts">>>>
Canonical == (fA :> fA) @@ (fa :> fA) @@ (fa2 :> fA) @@ (fB :> fB) @@ (fX :> Rejected)
ReadsTheSame == <<Canonical, Canonical>>
UnitsByRelease == <<(fA :> <<"t", "s">>) @@ (fB :> <<"s">>),
                    (fA :> <<"ts">>) @@ (fB :> <<"s">>)>>
EarlierRows == {<<>>, <<fa, fA>>, <<fX, fa, fB>>, <<fa, fa2, fA>>, <<fX>>}
FetchedEntries == {<<fA>>, <<fA, fB>>, <<fB, fA>>, <<fB>>}

(* English in miniature: s t r ng, a checked vowel I and a rhotic er. Five *)
(* symbols are enough for three consonants, or two stress marks, between   *)
(* two vowels.                                                             *)
Onsets == {<<"s", "t">>, <<"t", "r">>, <<"s", "t", "r">>}

(* Transcriptions by the chunk; S, E and R stand for symbols the source    *)
(* writes in other ways too, ~ and _ for a tie bar and a combining mark.   *)
Pieces == {<<"t">>, <<"S">>, <<"~">>, <<"r">>, <<"e">>, <<"O">>, <<"u">>, <<"_">>,
           <<"l", "|">>, <<"(">>, <<")">>, <<"'">>, <<"(", "t", ")">>, <<"o">>}
SmallInventory == {<<"t">>, <<"S">>, <<"t", "S">>, <<"R">>, <<"e">>, <<"E">>,
                   <<"o", "u">>, <<"O">>, <<"u">>, <<"l">>}

(* "a" is another spelling of "A", "x" cannot be read.                     *)
OneSpelling == [f \in SourceForms |-> CASE f = "a" -> "A" [] f = "x" -> Unreadable [] OTHER -> f]

(* Two editions of a small dictionary, and which words of it are common.   *)
(* "a" is a vowel, "c" a letter some say and some do not.                  *)
Dictionaries ==
  LET short == <<<<"a", "b">>, <<"a", "b", "c">>>>
      long == <<<<"a", "c", "a", "b", "b">>, <<"b", "a", "c">>, <<"c", "b">>>>
  IN  <<short \o long, short \o <<<<"a", "c">>>> \o long>>
Common == (<<"b", "a", "c">> :> 1) @@ (<<"a", "c">> :> 2) @@ (<<"a", "b", "c">> :> 3)
Sounds(w) ==
  LET Spoken(silent) == SelectSeq(w, LAMBDA c : c \notin silent)
  IN  <<Spoken({"a"}), Spoken({"a", "c"})>>
CapitalB == "B" :> "b"

ContentInit ==
  /\ part \in {"audio", "backup", "catalogue", "syllables", "tokenizer", "entry", "browser",
             "search", "popover"}
  /\ AudioInit /\ BackupInit /\ CatalogueInit /\ SyllablesInit /\ TokenizerInit
  /\ EntryInit /\ BrowserInit /\ WordSearchInit /\ PopoverInit
  /\ part # "catalogue" => rows = LeftRows(<<>>)
  /\ part # "entry" => ~attributed
  /\ part # "search" => ~inBox /\ edition = 1 /\ frequencies = <<>> /\ cached = NoList

ContentNext ==
  /\ UNCHANGED part
  /\ \/ /\ part = "audio" /\ AudioNext
        /\ \A g \in Generators \ {g1} :
             producer'[g] # AtRest0 => producer'[g].clip \in WordClips
        /\ UNCHANGED <<backupVars, catVars, sylVars, raw, entryVars, browserVars, searchVars, popVars>>
     \/ /\ part = "backup" /\ BackupNext
        /\ UNCHANGED <<audioVars, catVars, sylVars, raw, entryVars, browserVars, searchVars, popVars>>
     \/ /\ part = "catalogue" /\ CatalogueNext
        /\ UNCHANGED <<audioVars, backupVars, sylVars, raw, entryVars, browserVars, searchVars, popVars>>
     \/ /\ part = "syllables" /\ SyllablesNext
        /\ review'.status = "reviewed" => Len(word) < MaxWord
        /\ UNCHANGED <<audioVars, backupVars, catVars, raw, entryVars, browserVars, searchVars, popVars>>
     \/ /\ part = "tokenizer" /\ TokenizerNext
        /\ UNCHANGED <<audioVars, backupVars, catVars, sylVars, entryVars, browserVars, searchVars, popVars>>
     \/ /\ part = "entry" /\ EntryNext
        /\ UNCHANGED <<audioVars, backupVars, catVars, sylVars, raw, browserVars, searchVars, popVars>>
     \/ /\ part = "browser" /\ BrowserNext
        /\ \A t \in Pages \ {a1} : page'[t].at # "word"
        /\ UNCHANGED <<audioVars, backupVars, catVars, sylVars, raw, entryVars, searchVars, popVars>>
     \/ /\ part = "search" /\ WordSearchNext
        /\ UNCHANGED <<audioVars, backupVars, catVars, sylVars, raw, entryVars, browserVars, popVars>>
     \/ /\ part = "popover" /\ PopoverNext
        /\ UNCHANGED <<audioVars, backupVars, catVars, sylVars, raw, entryVars, browserVars, searchVars>>

ContentVars == <<part, audioVars, backupVars, catVars, sylVars, raw, entryVars, browserVars, searchVars, popVars>>

ContentSpec == ContentInit /\ [][ContentNext]_ContentVars

(* The values every variable of the part that moves ranges over.           *)
ContentTypeOK ==
  /\ part = "audio" => AudioTypeOK
  /\ part = "backup" => BackupTypeOK
  /\ part = "catalogue" => CatalogueTypeOK
  /\ part = "syllables" => SyllablesTypeOK
  /\ part = "tokenizer" => TokenizerTypeOK
  /\ part = "entry" => EntryTypeOK
  /\ part = "browser" => BrowserTypeOK
  /\ part = "search" => WordSearchTypeOK
  /\ part = "popover" => PopoverTypeOK
==============================================================================
