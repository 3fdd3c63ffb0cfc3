SPECIFICATION ContentSpec
CONSTANTS
  a1 = a1
  g1 = g1
  WordClips = {w1}
  PhonemeClips = {p1}
  Generators = {g1, g2}
  Regenerators = {x1}
  Payloads = {f1, f2}
  NoFile = NoFile
  Backups = {b1, b2}
  Tests = {t1}
  MaxSchema = 1
  MaxClock = 2
  Sundays = {1}
  MaxBackupAge = 1
  Missing = Missing
  fA = fA
  fa = fa
  fa2 = fa2
  fB = fB
  fX = fX
  Forms = {fA, fa, fa2, fB, fX}
  Rejected = Rejected
  Units = {"t", "s", "ts"}
  Inventory <- Inventories
  ReadsAs <- ReadsTheSame
  UnitsOf <- UnitsByRelease
  Earlier <- EarlierRows
  Entries <- FetchedEntries
  ParkModulus = 3
  MaxId = 5
  Consonants = {"s", "t", "r", "ng"}
  Vowels = {"I"}
  CentralRhotics = {"er"}
  CheckedVowels = {"I"}
  RhoticConsonant = "r"
  LegalOnsets <- Onsets
  IllegalSingle = {"ng"}
  Stress = "'"
  Dot = "."
  MaxMarks = 2
  MaxWord = 5
  Chunks <- Pieces
  Symbols <- SmallInventory
  Vowelish = {"e", "E", "o", "O", "u"}
  Syllabic = {"l"}
  PermittedMarks = {"'", "."}
  MaxChunks = 4
  SourceForms = {"A", "a", "B.", "x", "un", "-"}
  Unreadable = Unreadable
  CanonicalForm <- OneSpelling
  Fragments = {"-"}
  Dotted = {"B."}
  Unstressed = {"un"}
  Verified = {"A", "B."}
  Labels = {{"us"}, {}, {"within"}, {"foreign", "register"}}
  MaxReadings = 2
  MaxCandidates = 2
  MaxPins = 2
  NoPin = NoPin
  Pages = {a1, a2}
  People = {u1}
  MaxIds = 3
  MaxSignIns = 1
  MaxVisits = 3
  Nothing = Nothing
  Letters = {"a", "b", "c"}
  SmallLetter <- CapitalB
  Space = " "
  Headwords <- Dictionaries
  Artifact <- Common
  Metaphone <- Sounds
  MaxSuggestions = 2
  MaxTyped = 4
  NoList = NoList
  Phonemes = {p1, p2, p3}
  Voiced = {p1, p2}
  Nobody = Nobody
  MaxPresses = 4
INVARIANTS ContentTypeOK ClipsPlay PassedIsRestorable ValidSeedIsSound DivisionIsSound TokenisesStably SavesLandWhereShown SuggestionsAreClosest ListensWereHeard
PROPERTIES LoadedAsGiven WordKeepsAReading ProgressIsKept ReadyStands
CHECK_DEADLOCK FALSE
