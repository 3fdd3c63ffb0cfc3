# PronounceAll in TLA+

PronounceAll is a web application (Node.js, MySQL/InnoDB, Redis, BullMQ) for
learning the pronunciation of words: visitors save and tag words and phonemes,
signed in or under an anonymous identity (`pa_uid`), practise them with spaced
repetition, and link what they did anonymously to an account at sign-in. This
directory holds its specifications, the TLC runs that check them on small
instances, and TLAPS proofs for every instance. `src/...` below is the
repository; the application is under `src/src/`.

## 1. Inventory

| Component | State it keeps | Operations | Interacts with |
|---|---|---|---|
| Save and tag write (`save-state.service`, `progress.repository`) | `user_activity_events` (append-only), `user_word_states`/`user_phoneme_states` (derived), `anonymous_profiles` | `applySaveAction` | idempotency store, LINK, reconciliation |
| LINK at sign-in (`account.service`, `identity-bindings.repository`) | `identity_bindings` (one account per identity, for ever) | `mergeAnonymousIdentity` | saves of that identity, other sign-ins, SM-2 |
| Reconciliation (`state-reconciliation.service`) | none of its own | `reconcileSaveState`, `recomputeOwnerStates` | reads the log, repairs the derived rows, used by LINK |
| Transactions (`transaction.js`) | a connection | `withTransaction`: three attempts, rollback on any throw | everything that writes MySQL |
| Idempotency (`idempotency-store`) | Redis keys `idem:*` with a time to live | `reserve`, `complete`, `release` | save, tag, encounter, listen |
| Practice (`practice*.service`, `sm2.service`, queue store) | `practice_sessions`, `practice_attempts`, `sm2_states`; the live queue in Redis | `enter`, `answer`, `sweepIdleSessions`, `recomputeAccountSm2States` | saved words, LINK |
| Accounts (`account`, `account-deletion`, `anonymous-dormancy`) | `users`, credentials, deletion state, prune claims | register, login, request/restore/purge deletion, prune | LINK, sessions, late saves under `ON DELETE RESTRICT` |
| Sessions (`session.service`, `session-store`) | Redis session keys and a per-user index; `session_epoch` in MySQL | start, resolve, destroy | password changes, deletion |
| E-mail tokens (`account-email`, `account-settings`) | `auth_tokens`, pending e-mail change | issue, verify, reset, change | accounts, sessions |
| Google sign-in | one-use flow secrets in Redis | begin, complete, register | accounts, sessions |
| Audio assets | `audio_assets` (pending, generating, ready, failed), files | register, claim, produce, regenerate | scripts run side by side |
| Backup | files and manifests in a bucket | run, restore test | MySQL |
| Rate limits (`rate-limit-store`) | a sorted set per identity and route in Redis | one script per request | the routes |
| Job queue and workers (`job-queue`, `run-worker`) | schedules and jobs in Redis | start, run, retry, report, stop | every nightly or hourly job |
| Identity pipeline (`anonymous-identity`, `session`, `csrf` middleware) and browser scripts (`bootstrap.js`, `viewer-state.js`) | the `pa_uid` and `pa_sid` cookies, the mirror in localStorage, the token and state of each open page | mint, restore, hydrate, save, sign in, sign out | the routes; tabs share the cookies |
| Word data (`word-ingestion`, `phoneme-ingestion`, `ipa-tokenization`, `syllabification`, and the scripts that run them) | `word_pronunciations`, `pronunciation_phonemes`, `phonemes` | normalise, load, reconcile, rank, populate, syllabify | artifacts of earlier releases, audio |
| Search and suggestions (`word-search`, `word-suggestion`, `word-page`, `word-frequency`) | the headword list and the frequency artifact, cached in the process | look up, suggest | word data, the seed beside the server |
| Phoneme popover and playback (`phoneme-popover.js`, `playback.js`, `viewer-state.js`) | one player, its queued events, the listens not yet sent | open, replay, close, report | the hydrated state of the page |
| Retention, settings, word requests | expired rows, consents, counters | single statements | |

What is hard here is concurrency. Nothing serialises requests but InnoDB's
locks; no isolation level is set, so plain reads see a snapshot and locking
reads do not; Redis and MySQL are two stores with no common transaction; any
handler, job or process can stop between two statements; lock waits are
resolved by killing a transaction and running it again. `PROJECT.json` lists
the places where this bites (`hazards`), each at its line.

What makes each component correct:

- *Save and tag*: a decision is made on the state the row still has at the
  commit; an event never appears without its projection; no two events are
  produced by one state; every request ends.
- *LINK*: an identity is bound once and never re-pointed; the account then
  holds what the identity wrote.
- *Reconciliation*: it never writes back an older state over a live write, and
  it ends every disagreement between rows and log.
- *Idempotency*: at most one duplicate writes in a window; a viewer replays
  only its own committed result; a dead handler does not block a retry for good.
- *Practice*: one recorded attempt per served turn; a finalised session counts
  every attempt; SM-2 state is the fold of the answers.
- *Account lifecycle*: a purge and a restore never both succeed; a profile that
  came back to life is not pruned.
- *Sessions and tokens*: nothing issued before a revocation is accepted after
  it; a token is spent once; an address belongs to one account.
- *Google sign-in*: a browser is signed in only as somebody who authenticated
  in a flow it began; a lost race does not cost a registration.
- *Erasure*: it takes everything that belongs to whoever is due, never meets a
  row that still refers to what it deletes, and touches nobody else.
- *Audio*: a ready asset has the file its row describes; what a word was linked
  to keeps a recording; a ready clip of a word is not made again.
- *Backup*: a restore test passes only for a dump that can be restored and is
  what its manifest says.
- *Rate limits, jobs*: a window admits no more than its limit; a job that is
  given up is reported.
- *Identity in the browser*: a save changes the progress of the owner the page
  shows; progress saved without an account stays with its browser.
- *Word data*: a load gives exactly the entry; a word never loses its last
  reading; what is stored reads back as itself; a boundary that was computed
  leaves every syllable a nucleus, and none is computed where a row of the
  override artifact still waits for its review.
- *Search*: a word one slip away that shares the first letter or a sound with
  what was typed is suggested, unless nearer ones take every place; nothing is
  suggested that is not a word.
- *Popover*: a listen is reported for what was heard, at most once for every
  start that was asked for, and only of a viewer whose history is recorded.

## 2. Modules

| Module | What it is |
|---|---|
| `SaveTransitions` | data of the save feature and its pure functions: the state machine `decideTransition`, the derivation `deriveExpectedStates`, the resolved owner's events |
| `SaveLog` | the abstract specification: an append-only log with three atomic changes, `Write`, `Link`, `Reconcile` |
| `SaveState` | the code: save requests, sign-ins and the nightly job as interleaved MySQL transactions |
| `SaveStateInv` | its inductive invariant |
| `SaveStateProofs` | its proofs: types, invariant, refinement |
| `MCSaveState`, `MCSaveEndings` | instances for TLC; the second under fairness |
| `Idempotency`, `MCIdempotency` | the Redis reservations, and their instances |
| `PracticeQueue`, `Sm2` | the rules of the live queue and the SM-2 function, without state |
| `Practice`, `MCPractice` | practice sessions over MySQL and Redis, and their instances |
| `Sm2Merge`, `MCSm2Merge` | the replay of the SM-2 rows at a LINK beside the answers of `Practice`, and an instance |
| `AccountSessions` | sign-in sessions in Redis, the epoch in MySQL, and every change, reset and deletion that revokes them |
| `AccountEmail` | password accounts, their addresses, verification and change links |
| `GoogleSignIn` | the Google flow and its registrations, over `AccountEmail` |
| `Erasure` | the account purge and the dormancy prune, delete by delete |
| `AudioAsset` | clips: rows, files, and the scripts that produce them |
| `Backup` | backups, manifests and restore tests |
| `RateLimit`, `JobQueue` | the rolling window; the worker process |
| `BrowserIdentity` | cookies, mirror, tokens and tabs against the request pipeline |
| `WordEntry`, `Catalogue` | which readings an entry gets; how they are loaded, reconciled and ranked |
| `Tokenizer`, `Syllables` | the IPA tokeniser; the syllable division |
| `WordSearch` | a word typed into the address or the search box, and the suggestions it gets |
| `PhonemePopover` | the popover of a page's phonemes, its player and its listens |
| `RedisProofs` | proofs about `Idempotency`, `RateLimit`, `JobQueue` |
| `PracticeProofs` | proofs about `Practice` and `PracticeQueue` |
| `AccountProofs` | proofs about `AccountSessions` and `Erasure` |
| `IdentityProofs` | proofs about `AccountEmail` and `GoogleSignIn` |
| `ContentProofs` | proofs about `AudioAsset`, `Backup`, `PhonemePopover` and `BrowserIdentity` |
| `WordProofs` | proofs about `Syllables`, `WordEntry`, `Catalogue` and `WordSearch` |
| `Sifting` | what is left of a sequence when some of its members are dropped, as a recursive function |
| `Recursions` | lemmas on recursion over the naturals, for the proofs about loops |
| `MCRequests`, `MCAccounts`, `MCContent`, `MCEndings` | compositions for TLC: components that share no variable, of which a behaviour runs one (`part`) |

In a composition `part` is chosen once, in the initial state, and the variables
of the other parts never change: each part is checked over all its own
behaviours, at the sum of the state counts instead of the product. Where components
do share state they share it in the module: `GoogleSignIn` extends
`AccountEmail`, so addresses and names are raced for by both; `Erasure` holds
profiles, bindings and the rows of practice and saves together;
`BrowserIdentity` puts the cookies of all tabs before one server;
`WordEntry`'s readings are what `Catalogue` loads, and `Tokenizer` is what its
constant `ReadsAs` stands for. Where one component is seen only by its effects
on another's rows, the action says so (`Purge` in `AccountSessions`).

### SaveState

One handler is one element of `Requests`, `Links` or `Reconcilers`; `tx` holds
where it stands and what it read. Actions follow the statements:

| Code | Action |
|---|---|
| `BEGIN`, `targetExists`, `clock()` (`applySaveAction`) | `Begin` fixes the snapshot, reads the clock, refuses an unknown target |
| `touchAnonymousProfile`, `findBoundUserId` | `Touch` takes the profile's row lock; the binding comes from the snapshot |
| `lockTargetState` | `Lock` (`FOR UPDATE`: a row lock, or a shared gap lock when there is no row) |
| `decideTransition` | `Refuse`, `Keep` (no-op) or `Append` |
| `insertActivityEvent` | `Append` hands out the AUTO_INCREMENT id |
| `upsertTargetState`, `COMMIT` | `Project` (event and row appear together) |
| `anonymousProfileExists`, `findBoundUserId` (`mergeAnonymousIdentity`) | `CheckProfile` |
| `insertLinkBinding` | `Bind`, or `AlreadyBound` on `ER_DUP_ENTRY` |
| `recomputeOwnerStates` | `LockAndDerive` and then `CommitLink` / `CommitOwner` |
| `reconcileSaveState` | `StartOwner`, `DeriveOwner`, `CommitOwner`, one owner per transaction |
| `withTransaction` | `Retry`, `OutOfAttempts` |
| a lost connection, a dead process | `Crash` |

What the model merges, and why nothing is lost: the last statement of a
transaction and its `COMMIT` are one step, because between them nobody can see
the writes and the locks are the same. `lockOwnerStates` takes all rows of an
owner in one step; a transaction that waits while it already holds some of them
can only be ended by the deadlock detector or the time-out, and `Retry` may do
that to any waiting transaction. The foreign key's shared lock on the profile
row is modelled as exclusive: two sign-ins of one identity are serialised by
the unique key anyway. `updated_at` is written and never read. Words and
phonemes are both just targets. The SM-2 replay inside LINK is `Sm2Merge`.

### Idempotency

Every Redis command is one step, and may fail before or after taking effect.
Time is the remaining time to live; `Tick` ages every key. The MySQL write
between `reserve` and `complete` is one step that commits or throws. A handler
that dies just stops: no fairness is assumed of any handler. The `left` and
`late` fields of a handler are ghosts: how much is left of its own window, and
whether it touched Redis after it. Redis losing its data at a restart is not
modelled: the store is then simply empty, as after the window.

### Practice

A browser tab sends one request at a time; `tab` holds where its request stands
and what it has read and still needs. Several tabs of one learner, and the
sweep, interleave between any two statements.

| Code | Action |
|---|---|
| `findActiveSession` and the idle test (`enter`) | `Enter` |
| `queueStore.load` (`enter`) | `Resume`, or `LoseQueue` when it finds nothing or throws |
| `end` (`finaliseSession`, `queueStore.remove`) | `End`: the counts are read and the status written in one UPDATE, which waits for the answers in flight |
| `countSavedWords`, `listDueWords` | `FindDue` |
| `insertSession`, `chooseServed` | `Start` |
| `queueStore.save` (`enter`) | `Serve`, with its failure and its lost reply |
| `findSession` (`answer`) | `Post` |
| `queueStore.load`, the test of `turnSeq` (`answer`) | `Fetch`, `FetchNothing` |
| `insertAttempt` | `Insert`, which waits for an answer in flight to the same turn |
| `lockSm2State` | `ReadSchedule` (a row lock, or a shared gap lock when there is no row) |
| `upsertSm2State`, `touchSession`, `COMMIT` | `Write` |
| `advance`, `chooseServed`, `queueStore.save` | `MoveOn`; `CompletionFails` is the `catch` around it |
| `sweepIdleSessions` | `Sweep`, one `SweepEnd` per session, `SweepCrash` |
| `withTransaction`'s retry | `LoseLockRace` |

`rng()` is a choice: an operator that draws from it is the set of the queues it
may return. The time to live of the Redis key is not counted: any load may find
nothing, which is what an expired key, a restarted Redis and an unreachable one
look like. What a request posts (turn, rating) is chosen where the code first
looks at it. Ease factors are in thousandths. The order of the due words is a
choice too: it depends on when each word was saved, which is not modelled.
`activity` events are the sequence `answers`; only their owner, word and
quality are kept.

`Sm2Merge` puts the transaction of `mergeAnonymousIdentity` beside these
requests, reduced to what it does to `sm2_states`: `LinkReads` is
`insertLinkBinding` and the snapshot of the answers, `LinkWrites` the upserts
and the `COMMIT`, `LinkFails` a lost lock race or connection. The order of
answers given at once by two owners is left open, as `(occurred_at, event_id)`
leaves it.

### Accounts: `AccountSessions`, `AccountEmail`, `GoogleSignIn`

A transaction is one step here, because each of these opens with a locking
statement on the row, the link or the key range it is about; what interleaves
are the statements before and after it, and the Redis commands.

| Code | Action |
|---|---|
| `login`, `startSession`, `create` | `Login` reads credential and epoch, `ReadAuthority`/`RecordEpoch` read the epoch again and compare, `Create` writes record and index |
| `changePassword` | `Change` (the current password), `Replace` (the transaction), `ListSessions`, `DeleteSessions`, `Again` (the read before the new session) |
| `requestPasswordReset`, `resetPassword` | `AskReset`, `IssueLink`, `Reset`; a used or expired link is closed |
| `requestDeletion`, `restoreIfSoftDeleted` | `Reauthenticate`, `AskDeletion`, `TakeProof`, `RequestDeletion`; `Restore`; `GraceEnds` and `Purge` from outside |
| `pruneIndexes` | `Prune`, `PruneEmpty` |
| `register` | `Register` (the look-ups), `InsertAccount` (the transaction, or the unique key's refusal) |
| `verifyEmail`, `resendVerification` | `Follow`, `VerifyEmail`, `Resend`, `ResendLink` |
| `requestEmailChange`, `confirmEmailChange` | `AskChange`, `HoldPending`, `ConfirmEmailChange` |
| `begin`, `complete`, `register` of Google sign-in | `Begin`, `Answer` (Google's), `Complete`, `Recognise`; `SignUp`, `Insert`, `GivesUp`, `RemovePending`; `Lapse` for the TTLs |

A password is the number of the change that set it, an epoch the number of
revocations. A failed comparison, a policy or a captcha that refuses is a
request that takes no step. Whoever reads a mailbox may follow a link late or
twice; whoever has a callback's URL may load it in any browser. A browser keeps
one flow secret in its cookie, and each of its tabs (`BrowserOf`) may submit it:
two callbacks or two registrations with one secret interleave statement by
statement.

### Erasure

`List` takes a run's subjects; `Claim` is the compare-and-set, which keeps the
row locked; `Deletes` is one `DELETE` of `deleteAccountRows` or
`deleteAnonymousProfile` per step, in the order of the source; `Commit`,
`RollBack` and `EndRun` finish. A table is a kind of row (`PurgeOwner`), a row
refers to its parents by `RefersTo`, and a parent that is still referred to
refuses the delete. Meanwhile `PersonWrites`, `Link`, `Delete` and
`RestoreMember` go on, and wait for locked rows.

### AudioAsset, Backup

A generator walks its clips: `RegisterAsset`, `FindAsset`, `ClaimAsset` (the
conditional UPDATE), `Produce`, `WriteFile` and `RenameFile` (write to a
temporary name, then rename), `MarkReady` or `MarkFailed`, `CheckReady`,
`AttachWholeWordAudio`. `MarkReady` may take effect and its reply be lost
(`pc = "unsure"`): the `catch` of `produceAsset` then runs `MarkFailed`, which,
as in the code, does not look at the status it replaces. A regenerator synthesises everything first and then
runs `ResetForRegeneration` and the same production. `Die` ends any of them
between two steps. A backup is `StartBackup`, `ListBaseTables`, `WriteDump`,
`PutFile`, `PutManifest`; a restore test is `GetManifest`, `RestoreDump`,
`Compare`; `MigrateTables` and `MigrateHistory` are a migration's two halves,
since DDL commits by itself.

### RateLimit, JobQueue

`LimitedPost` reads the process's clock and `Script` runs later, as one Redis
step, so scripts may run out of the order of their times. A worker is
`StartWorker`, `RemoveScheduler`, `UpsertScheduler`, `Take`, `CompleteJob`,
`FailJob`, `FailedEvent`, `Stop`, `Kill`; what BullMQ does (`Fire`,
`BackoffEnds`, `Stalled`, `FailStalled`) is external. The worker is created
without `maxStalledCount`, so BullMQ's default of 1 holds (`MaxStalled`): a job
whose worker died is put back once, and one that stalls again is failed
whatever attempts it has left. Whether BullMQ counts an attempt for it depends
on its version, and is left open.

### BrowserIdentity

A request carries the cookies as they were when it was sent (`Request`), is
served in the middleware's order (`Carried`, `Identity`, `Live`, `TokenHolds`),
and its answer sets cookies when it arrives (`Answer`). A page is `Open`,
`ServeDocument`, `RunScripts` (the mirror, then the request for its state),
`ServeHydration`, `Receive`; then `Save`/`Post`/`ServeSave`, `SignIn`,
`SignOut`. Cookies may be cleared, sessions may expire, at any time.

### WordEntry, Catalogue, Tokenizer, Syllables

`WordEntry`, `Tokenizer` and `Syllables` are functions of an input; their
actions build an arbitrary input symbol by symbol and the invariants speak of
the function's value on it. In `Syllables` a word may have a row in the override
artifact (`review`: none, unreviewed or ambiguous, reviewed) or be a proven
defect; `layer` is what `planSyllableBreakdown` reports as having decided: the
source's own separators, a curated breakdown, a proven defect (`held`), a row
that waits for its review (`unreviewed`: no boundary is computed), an
`override`, a `refused` one, an inference, or `none`. `Catalogue` runs the scripts: `LoadEntry` is one
transaction, `ReconcilePronunciations` decides once and then `RunStatement`
writes one decision at a time, in the order of the source, with `StopSeed`
possible between any two; `SeedPhonemes`, `PopulateOccurrences` and
`ValidateSeed` follow; `NextRelease` changes what the tokeniser makes of a form.
`SeedPhonemes` is one transaction of two loops over the inventory, in its order:
each unit is given a negative rank below all parked ones, then its rank
(`Ranking`); any statement may meet the unique key on ranks, which would refuse
the whole.

### WordSearch, PhonemePopover

| Code | Action or operator |
|---|---|
| `normaliseWordSlug`, `normaliseQuery` | `CanonicaliseSlug`, `NormaliseQuery`, `Allowed` |
| `findWordByHeadword` and the answers of the two routes | `LookUp` |
| `getCachedHeadwords`, `loadFrequencyRanks` | `ReadHeadwords`: an artifact that cannot be read is kept as an empty one for the life of the process |
| `rankSuggestions` | `Suggest`; `Candidate`, `OptimalStringAlignment` row by row (`NextRow`) and cell by cell (`Cell`), `PhoneticBonus`, `Closer` |
| a seed beside the server | `SeedWords` |
| a click on a phoneme, elsewhere, on replay | `Press`, `Dismiss`, `Replay`; `Play` is what they do to the player |
| the media events of `trackMedia` | `Deliver` takes the next queued one; `Load`, `Advance`, `Finish` are the browser's player |
| `loadViewerState`, `sendSaveAction`, `sendListen` | `Hydrate`, `SaveHere`, `SendListen` |

Scores are in quarters of an edit. `Metaphone` is the `double-metaphone`
package, a constant. A cached list may have expired or stem from before a seed
when the model starts. Media events are queued, and the learner goes on
pressing before they are delivered; loading another source drops them, as the
browser does. A browser may or may not send `playing` for a start.

## 3. Runs

| Run | Instance | What it shows |
|---|---|---|
| `save_safety` | 3 requests, 1 sign-in, the job, 1 user, 1 identity, 1 target, save/unsave/tag, 2 clock values, 2 attempts | typing, the inductive invariant, refinement of `SaveLog` |
| `save_endings` | either 1 request and 2 sign-ins of 2 users for one identity, or 2 requests, 1 sign-in, the job and 2 clock values, under fairness | the LINK race; everybody is answered, and drift always ends |
| `save_order` (violated) | 2 requests, 2 clock values | `IdsFollowTime` |
| `link_stale` (violated) | 2 requests, 1 sign-in | `NoDrift` |
| `idempotency_expiry` (violated) | 2 requests, a window of 2 | `CompletedExpires` |
| `sm2_merge` (violated) | a tab of the account, one of the identity, 1 word, 2 answers each | `ReplayIsWhole` |
| `practice_counts` (violated) | 2 tabs, 1 word, 2 answers | `EndsWithItsCounts` |
| `endings` | `Idempotency` (2 requests), `Practice` (1 tab, 2 words, 3 clock values, the sweep), `Erasure` (1 account, 1 profile, a purger, a pruner, 1 failure) under fairness | what must come to an end does; one end per session, completion only with every word answered |
| `requests` | `Practice` (2 tabs of one learner, 1 word, 4 answers), `Idempotency` (3 requests), `RateLimit` (4 posts), `JobQueue` (2 jobs, 1 retired) | turns in order, every answer counted once; admission and replay; the window's limit; no silent failure of a job |
| `accounts` | `AccountSessions` (2 requests, 1 user, 2 links), `AccountEmail` (2 callers, 2 addresses, 2 names), `GoogleSignIn` (2 browsers, one with two tabs, 2 flows), `Erasure` | revocation, links, addresses, sign-ups, erasure |
| `content` | the nine remaining components | clips, seeds, tokeniser, division, readings, backups, the identity of a page, suggestions, listens |
| `accounts_change` (violated) | 2 requests, 1 user, 2 epochs | `EverySessionEnds` |

Bounds. One target and one identity are where everything collides; different
targets meet only in the rows `lockOwnerStates` locks together, and those are
locked in one step. Three requests are the fewest for a row that exists
to be contended (one writes it, two race) while a sign-in and the job run. Two
attempts give a first run, a retry and an exhaustion; the code's three are the
same loop. Two clock values are enough for an inversion of two events. Of
the reservations, two requests share a key and the third is another viewer's,
or all three share it; a window of two has a beginning, a middle and an end.
In `requests` two tabs that enter practice at once open two sessions, and four
answers let both review a word that has a row already; the ease floor is
reached by the fourth wrong answer. A second word changes nothing there, since
answers to different words do not meet; it matters for the order of the queue,
which `endings` explores with one tab: two words, a wrong answer and the two
right ones. The words return one or two turns later instead of 3 to 7
(`MinAhead`, `MaxAhead`), so that both the middle and the tail of a short queue
are hit. The clock runs to twice the idle bound, so that a session can be
resumed, found idle on arrival, or swept.

Sessions: two requests are a race, two epochs an old and a newer revocation,
two sessions one that a change misses and one it finds, and two reset links an
older one that the newer closes while somebody is about to follow it. Addresses: two
callers, two addresses and three links let one address be held, pending and
asked for by another, with an older and a newer link; accounts never meet but
in these keys. Google: one person, whose address a password account may take,
two flows, two browsers and three tabs, two of which share a browser: a
callback can be loaded twice, in the wrong browser, or at once in two tabs of
the right one, which then submit one registration twice. Two tabs are busy at a
time, and the first flow begins in the browser that has two: what of two flows
is the first makes no difference. Erasure: one account with one bound profile has every kind of
row and both jobs reach it; one failure is enough to resume from every point
(a run after it can fail only as the first one did); three writes, or two under
fairness, come before the claim, during it and after it. Rate limit: four posts
for a limit of two, a window of three ticks and a delay of one let a late
script see a window that has moved. Queue: three attempts and one
stall are the code's and BullMQ's; two jobs and one of an earlier release are
what starts differ in.

Clips: one word clip and one phoneme clip, two generators, of which one makes
words only, and a regenerator;
clips meet only in files, which are named by their content, so two payloads may
coincide. Backups: two, one migration between any of their steps, a restore test
that finds either. Catalogue: five canonical and non-canonical spellings of a
word left by earlier releases, entries of up to two readings, an inventory that
gains an affricate; its rows do not refer to other words'. Words for
`Syllables` have up to five units and marks over English in miniature, two of
them marks: a cluster of three consonants fits between two nuclei (`Istr` and a rhotic),
and two stress marks fit in one gap; divisions of any shape are proposed for
words of up to four. Transcriptions for `Tokenizer` have up to
four chunks, entries up to two candidates and two pins: every rule there looks
at one or two neighbours. Browser: two tabs, three identities, one
sign-in, three visits; the second tab changes cookies by its visits and
sign-ins and does not itself open a word page. Search: four typed characters
over three letters, a capital and a space, two editions of a dictionary of
five and six words: every edit, and both places a transposition can reach back
to, lie within four letters. Popover: three phonemes, two with a clip and one
without, and four presses: open, replay, change and come back.

`CHECK_DEADLOCK FALSE` in a composition: handlers and scripts run once, inputs
are finite and every counter is bounded, so a behaviour really stops.

Fairness. `SaveState`: a handler that has begun is driven by the event loop,
and InnoDB ends every lock wait by a grant, a deadlock or a time-out, hence
weak fairness on its steps together with `LoseLockRace`. A request that was
never begun owes nothing. The job is scheduled every night for every owner,
and a night may fail: strong fairness on its steps per owner says that it is
not stopped every night at the same step. `Idempotency`: only that time passes.
`Practice`: the sweep runs every 15 minutes (`app.jobs.js`), may be cut short
but not every time before the same session, and InnoDB ends every lock wait of
an answer; nobody has to come back to a session. `Erasure`: the queue starts
both jobs again and again (`erasure.jobs.js`), InnoDB ends their waits, and
failures are finitely many (`MaxFailures`): weak fairness on each job's steps.
The other components assume none.

### Findings

- *Ids do not follow time* (`save_order`). `applySaveAction` reads the clock
  before it waits for the row and gets its id after. The comment at
  `progress.repository.js:235` says the two agree. The live projection trusts
  the id and reconciliation the time, so the nightly job can replace a row's
  state by an older one.
- *A late signed-out save escapes a LINK* (`link_stale`). Its snapshot predates
  the binding, so it writes event and row for the identity after the account
  was derived. The account misses it until the next reconciliation, although
  the service promises that an event is never seen without its projection.
- *KEEPTTL on a key that is not there* (`idempotency_expiry`). `complete` sets
  the result with `KEEPTTL`, which gives a key that does not exist no time to
  live, so that key replays for ever. In the trace Redis fails at `reserve`: the
  key is never set, the write proceeds unreserved, and Redis is back for
  `complete`. A write that outlives its window, or whose key another handler's
  `release` deleted, comes to the same.
- *A session's counts miss a late answer* (`practice_counts`). `answer` reads
  the session's status before its transaction and not inside it, so an answer
  may commit its attempt after the sweep or another tab has finalised the
  session. The attempt, the event and the SM-2 review stand; the counts of the
  finalised session never include it.
- *The SM-2 replay of a LINK misses answers* (`sm2_merge`).
  `recomputeAccountSm2States` reads the answers from the transaction's snapshot
  and upserts the rows without having locked them. An answer the account
  commits in between is overwritten in its row; one of the identity that was
  under way commits for the identity and never reaches the account's row. The
  save rows are locked before their log is read, and a nightly job repairs
  them; `sm2_states` has neither.
- *A session outlives the change that ends all* (`accounts_change`).
  `changePassword` commits, removes the sessions and then reads the account
  again to start one for this device. If a reset or another change commits in
  between, that session carries the newer epoch and survives it.

Two more things the practice model makes visible and no property forbids. A
process that dies between an answer's commit and the save of the queue leaves
a session whose served turn is taken: every further answer is stale, and only
the idle bound ends it. And two entries at once leave two active sessions, of
which the older can no longer be resumed and ends by the sweep. The comment of
`sweepIdleSessions` says "60 minutes or more"; its SQL is strict, the test of
`enter` is not, which differs for one millisecond only.

`OnceAWindow` carries its condition for related reasons: `release` and
`complete` do not check whose reservation they touch, so a handler that
proceeded unreserved, or outlived its window, can free a key that somebody else
holds. The code documents the first ("write proceeds unreserved") and relies
on the state machine to make the duplicate harmless.

Conditions of other properties, and behaviours a run would violate if the
property were stated without them:

- *Catalogue*. Reconciliation deletes a primary row that no longer tokenises
  without promoting another, and `validateSeed` does not look for a primary;
  of three rows with one canonical form the first merge may pick a sibling
  whose rename meets the unique key, which aborts the script after a delete
  (a second run converges). The parking value `-(id % 30000) - 1` collides for
  ids equal modulo 30000. A re-seed that demotes a primary leaves its clip on
  a secondary row, and a merge loses the sibling's clip.
- *Browser*. Two tabs opened at a first visit are each minted an identity, of
  which the last answer keeps one: what was saved under the other is lost to
  the browser. `ProgressIsKept` leaves this out by the ghost `crowded`. A
  sign-in page whose token was computed for a fresh `pa_uid`, which the mirror
  then replaces, is refused once with 403.
- *Password change*. The current password is checked before hashing and not in
  the transaction, so two changes that both proved the same password both
  succeed; `SignedInWithCurrentPassword` speaks of sign-ins.
- *Purge*. One account whose purge throws ends the run for the accounts behind
  it, until the next one. A word request inserted after the orphaning keeps its
  author's id.
- *Audio*. A clip whose producer died stays claimed; a regeneration resets a
  claim under a running producer, so `ReadyStands` speaks of words' clips. Ready
  rows have their files in all of this (`ClipsPlay`), because files are named by
  what they contain.
  The row of a linked clip does not stay ready, though: when `markReady` takes
  effect and its reply is lost, another run may find the row ready and link the
  word to it before the `catch` of the first marks it failed. The word shows no
  button then, and no later run retries it, since the work list holds only words
  without a clip. Hence the second conjunct of `ClipsPlay` is about the file, and
  `ReadyStands` excepts the script that lost the reply.
- *Search*. `SuggestionsAreClosest` promises a word one slip away only if it
  shares the first letter or a sound with what was typed. The header of
  `word-suggestion.service.js` (11-13) and decision E3
  (`docs/current/PronounceAll_SDD_Round1_Decisionsv1.0.3.md`, 191) offer a
  candidate for a shared first letter, a shared sound *or* a small distance;
  `generateCandidates` (144-157) takes nearness in length as a condition on every
  candidate and then asks for the letter or the sound. A word one slip away is
  therefore dropped when the slip is in its first letter and changes how it
  sounds: `bb` does not suggest `ab`.
- *Popover*. The phoneme of a listen is resolved when the player's event
  arrives. A phoneme without a clip that is opened while the clip of the one
  before is still loading therefore gets that one's listen, and
  `ListensWereHeard` speaks of phonemes that have a clip. A replay pressed in
  the moment the first data arrive asks for two starts, may be reported twice,
  and is heard once: the property bounds listens by the starts asked for and
  requires that something was heard. A popover that is reopened builds a new
  save control, so two saves of one learner can be in flight; the server
  serialises them (`SaveState`).
- *Jobs*. A process that dies on the `failed` event reports nothing, which
  `GivenUpIsReported` leaves out by the ghost `lost`. A job that stalled too
  often is failed with attempts left: the `failed` listener, which looks at the
  attempts alone (`job-queue.js`, 91-94), logs that it will be retried, which it
  is not, and nobody is told. The property says of such a job only that nothing
  else failed it.

## 4. Proofs

TLAPS checks these for all values of the constants: any sets of users,
requests, tabs, words, clips, jobs, browsers, and any bounds.

| Theorem | Module | Statement |
|---|---|---|
| `TypeCorrect` | `SaveStateProofs` | `Spec => []TypeOK` |
| `LocksProtect` | `SaveStateProofs` | `Spec => []Inv` |
| `RowsExplained` | `SaveStateProofs` | `Spec => []RowExplained` |
| `Refinement` | `SaveStateProofs` | `Spec => ImplementsLog` |
| `QueueTypes`, `GivenUpReported` | `RedisProofs` | `QueueSpec => []QueueTypeOK`, `[]GivenUpIsReported` |
| `RateTypes`, `LimitKept` | `RedisProofs` | `RateSpec => []RateTypeOK`, `[]LimitHolds` |
| `ReservationTypes`, `ReplaysAreOwn`, `AdmittedOnce` | `RedisProofs` | `ReservationSpec => []ReservationTypeOK`, `[]ReplaysOwnResult`, `[]OnceAWindow` |
| `PracticeInductive`, `PracticeTypes` | `PracticeProofs` | `Spec => []PracticeInv`, `[]TypeOK` |
| `TurnsAreInOrder`, `CompletedAreComplete`, `EndStands` | `PracticeProofs` | `Spec => []TurnsInOrder`, `[]CompletedIsComplete`, `FirstEndStands` |
| `AnswersCount` | `PracticeProofs` | `Spec => []EveryAnswerCounts` |
| `SessionTypes`, `SignInsAreCurrent`, `LinksAreClosed` | `AccountProofs` | `SessionSpec => []SessionTypeOK`, `[]SignedInWithCurrentPassword`, `[]OldLinksAreClosed` |
| `DeadStayDead` | `AccountProofs` | `SessionSpec => DeadSessionsStayDead` |
| `ErasureInductive`, `ErasureTypesHold`, `NothingRefused` | `AccountProofs` | `ErasureSpec => []ErasureInv`, `[]ErasureTypeOK`, `[]NoDeleteIsRefused` |
| `ErasesWhole` | `AccountProofs` | `ErasureSpec => ErasedWhole` |
| `IdentityInductive`, `IdentityTypes` | `IdentityProofs` | `IdentitySpec => []IdentityInv`, `[]IdentityTypeOK` |
| `AddressesAreProven`, `AdmittedAreMet`, `SignUpsAreKept` | `IdentityProofs` | `IdentitySpec => []AddressWasProven`, `[]AdmittedWhoWasMet`, `SignUpsAreNotLost` |
| `AudioInductive`, `AudioTypesHold`, `ClipsAlwaysPlay` | `ContentProofs` | `AudioSpec => []AudioInv`, `[]AudioTypeOK`, `[]ClipsPlay` |
| `AudioStands` | `ContentProofs` | `AudioSpec => ReadyStands` |
| `BackupInductive`, `BackupTypesHold`, `PassedAlwaysRestores` | `ContentProofs` | `BackupSpec => []BackupInv`, `[]BackupTypeOK`, `[]PassedIsRestorable` |
| `PopoverInductive`, `PopoverTypesHold`, `ListensAreHeard` | `ContentProofs` | `PopoverSpec => []PopoverInv`, `[]PopoverTypeOK`, `[]ListensWereHeard` |
| `BrowserInductive`, `BrowserTypesHold`, `SavesLand` | `ContentProofs` | `BrowserSpec => []BrowserInv`, `[]BrowserTypeOK`, `[]SavesLandWhereShown` |
| `ProgressStays` | `ContentProofs` | `BrowserSpec => ProgressIsKept` |
| `DivisionsAreSound`, `EntriesAreSourced` | `WordProofs` | `SyllablesSpec => []DivisionIsSound`, `EntrySpec => []ReadingsAreSourced` |
| `LoadsAreAsGiven`, `WordsKeepAReading` | `WordProofs` | `CatalogueSpec => LoadedAsGiven`, `CatalogueSpec => WordKeepsAReading` |
| `ValidSeedsAreSound` | `WordProofs` | `CatalogueSpec => []ValidSeedIsSound` |
| `SearchInductive`, `SearchTypes`, `SuggestionsStayClosest` | `WordProofs` | `WordSearchSpec => []SearchInv`, `[]WordSearchTypeOK`, `[]SuggestionsAreClosest` |

What they assume are the named `ASSUME`s of the modules, which TLC evaluates
on every run. They say three kinds of thing: that bounds and durations are
numbers (an attempt, a window, an idle time is at least one); that what marks
an absence is not one of the values it stands for (`Gone`, `None`, `Absent`,
`NoFile`, `Nobody`, `Nothing`, which are SQL's NULL or no row, Redis's nil, a script's
`null`); and that sets the code keeps apart are disjoint (accounts and
identities, kinds of handler, generators and regenerators, words' clips and
phonemes'). `GoogleAssumption` also gives every tab its browser. Three ask that a set has a member: `Users`, `Names`, the clips.
`PracticeAssumption` asks for finitely many words with a tag each, and bounds
attempts per session; `ErasureAssumption` for finitely many identities. The word
data assume what the tables of the code provide: `SyllablesAssumption`, that no
unit is both a consonant and a nucleus, that the checked vowels are vowels and
the rhotic is a consonant; `EntryAssumption`, that a canonical form is its own
canonical form; `CatalogueAssumption`, besides, that a canonical form is read in
units of the inventory it was read with, that inventories only grow from one
release to the next, and that an entry lists no form twice; `WordSearchAssumption`,
that a small letter is neither a capital nor a space, that headwords are unique
and are only added, and that the frequency artifact is finite.

### SaveState

`Inv` is what makes the refinement inductive. `OneHolder`: a row that exists is
locked by one transaction, while a gap may be locked by several. `SaverHolds`:
who has decided still holds its row and the row is still in the state it
decided on; that is immediate for a row, and for a gap it holds because an
insert waits for every other holder. `IdsInOrder`: the id of an event about to
be committed is the largest of its owner and target, since it was handed out
under the lock. `RecomputeHolds` and `DerivedCurrent`: a recompute that has read
the log holds every row of its owner, so no event of that owner can be added
before it commits. `RowExplained` follows for each of the ways a row is set.
The refinement maps `Project` to `Write`, `CommitLink` to `Link`, `CommitOwner`
to `Reconcile` and every other step to a stutter. It is `SaveLog` under the
substitution of `SaveState`'s `Log == INSTANCE SaveLog WITH ...`; TLC checks it
as the property `ImplementsLog`.

### Redis

`OnceAWindow` is not inductive: that two duplicates are not admitted at once
rests on what Redis holds. `EntryIsHolders` adds it: as long as no handler of a
key has strayed, whoever reserved it and has time left owns the entry, whose
remaining time is exactly the handler's, and owns it alone. A `SET NX` that
succeeds therefore finds no holder, and a `release` or a `complete` can only
meet the entry of who sends it. `ReplaysOwnResult` rests on `ResultsAreOwn`: a
stored result is of a request of that very key, which committed.

`LimitHolds` speaks of everybody who was let through, the script only of whom
it still has in its set. `KeyOutlives` says that the key expires no sooner than
the window of anybody counted, and `OutIsOver` that who was trimmed or expired
was out of the window by the clock of that moment; `ClocksRead` bounds how late
a script may run by `MaxDelay`. Whoever the script counts is then within a
window of the earliest, and there are fewer than `Limit`. For the job queue,
`JobInv` says of each job that it is failed for one of two reasons, its last
attempt or its stalls, and that one that runs has not stalled too often; and
`InHand`, that the worker's job is the one it took.

### Practice

A live queue, the requests that hold a copy of it and the rows in MySQL must
agree although Redis may lose the queue at any point. `Fits` is how: a copy
that is current, of the turn to come, holds each word of the session that has
no right answer once, and no other; a copy of an earlier turn can do nothing,
since the unique key on session and turn refuses its answer. `OneAtATime`: of
two requests of a session one gets the turn, and one takes the queue on.
`Answered` is the state between the answer's commit and the save of the next
queue. The lemmas on `PracticeQueue` say that `Advance` and `ChooseServed` keep
a queue's words: what `splice` and the swap at the head do to a sequence of
words without repetition. A queue is then finished exactly when all words are
right, which is `CompletedIsComplete`.

`EveryAnswerCounts` compares a schedule with the replay of a word's answers,
`Reviewed`, a recursive function over them. `AnswersInv` adds what the
transaction knows between its read and its write: the row it read is still the
row (`ReadsAreFresh`), as it holds the row's lock; when there was no row, others
may have read the same gap (`GapsAreShared`), but of two who share a gap none can
insert before the other is gone. A committed answer then extends the replay by
one review, and leaves those of the other words alone, which the lemmas on
`Reviewed` say for any number of answers.

### Accounts

Of sessions, the invariant bounds by the account what every record and every
request in flight carries: `Backed`, its epoch is no newer than the account's,
and if it is the same and comes from a sign-in, it proved the password the
account has; `Ended`, while the account is deleted it is older. Each step that
changes a password raises the epoch in the same transaction, and `Create` is
preceded by the comparison. A record that stops authorising has a smaller
epoch, or no account, for good: `DeadStayDead`.

Of addresses, `LinksFit` says that a verification link was sent to the address
its account still has, unless that is verified already; this is why following
an old link proves nothing it should not. A link for a change went to the address
held as pending, which needs that one such link of an account is open
(`OneChangeLink`), and what a caller between two statements remembers must
still fit (`CallsFit`). Of Google, `PendingsMatch` and
`VisitsFit` carry browser and person of a flow from `Begin` over the exchange
and the registration to the insert; only the browser that began a flow gets
beyond its callback.

Of erasure, `RunFits` describes any transaction half-way: what it has left to
delete ends with its subject, belongs to it, and no statement comes before what
it has to wait for, unless that is gone (`InOrder`). `Before` names what that is,
`RowsWith` what belongs to a subject. A new run satisfies this because of the
order of `PURGE_OWNER` and of `deleteAccountRows` (`AccountDeletesFit`,
`ProfileDeletesFit`), a run keeps it statement by statement (`TailFits`), and
nobody can undo it: the subject is locked and stays due, so nothing is linked to
it, restored or seen again (`FitsStays`), and no two runs have one subject
(`Apart`). The next statement's referrers are then gone (`NotRefused`); the last
one's are all that belong to the subject, so they go together (`CommitsWhole`).
The identities of an account are a sequence chosen from a set, of any length;
the lemmas on `DeletesOf` count through it seven tables at a time.

### Content

Audio: `WorkIsClaimed` and `OneWorks` say that the clip of a word is worked on
by one script, under its claim, or, between a lost reply and the `catch`, as the
row it has made ready (`HeldAs`). Nobody else therefore touches a ready row of a
word (`AudioStands`); that script may, so what the invariant keeps of an
attached clip is not its status but its file: a row that once had one keeps it
or gets another that is whole (`Recorded`). Files need no claim: they are named
by what they contain, appear whole by the rename and are never removed. Backups: a manifest goes up
after its dump was finished and names it (`ManifestsAreSound`); the comparison
of digests then excludes every dump but that one.

Popover: `Due` counts the reports that the player may still cause: one for each
start in the queue of events, one if a start is armed and the next event does
not arm it anew. A start that is asked for adds one at most, a report takes one
away, another source drops the queue; so listens and what is due together never
exceed what was asked for, which `ListensWereHeard` alone does not say.
`ReportsAreHeard` needs that an event `playing` is queued only of a clip that
was heard. The lemmas on queues count the starts of a concatenation.

Browser: `Fits` says of a token that what was shown with it is the progress of
whom it stands for, of an identity that was minted or of a session that was
begun; so a token never comes to stand for what is minted or begun later, and a
save that bears the token of its subject lands on what its page shows.
`BrowserKeeps` is about progress that no account has taken over, while one tab
is open: wherever its identity is - the cookie, a request, an answer - the mirror
holds it too, or nothing (`Mirrored`). A hydration may answer another identity
than the mirror's only when the mirror's is an account's by then, so `Adopt`
never replaces one that counts; that a save gives progress only to the identity
its page was given needs the last two conjuncts of `Keeps`.

### Word data

Here the loops of the code are recursive functions of the number of turns made,
each with a value on `0..n`. `Recursions` shows once that such a function exists
and takes a step of its definition at every number (`Recursion`), and that what
holds at 0 and is kept by a step holds at all (`EveryNumber`, from the
well-ordering of a set of counterexamples). Every lemma on a loop is then a
statement of one turn: what a filter keeps and in which order (`Sifting`), where
the last onset starts (`Syllables`), what an entry's readings are after the k-th
source (`WordEntry`), what a load of a sequence of rows leaves (`Catalogue`).

`WordKeepsAReading` and `ValidSeedIsSound` need what is true between two
statements of a seed that may stop anywhere. `CatInv` says of a word's rows that
their keys are those of `Persisted`, and that some row is in none of the deletes
still queued: a delete of the last row never comes before what replaces it. Ranks
pass through a parking range, because they are unique; `ParkedTo` and `WrittenTo`
follow one statement each, `Deciding` the loop that chooses renames and deletes.
`SeedInv` ties rows, queue and release: while a word is reconciled
(`Reconciling`) every row is settled or is ended by a delete or a rename in the
queue, ranks follow what is listed (`RanksFollow`), and while it is refilled
(`Refilling`) the queue holds the statements of each row, in the positions
`FillsFrom` gives. An empty queue with a valid release leaves only what is sound.

The rolling rows of `optimalStringAlignment` are rows of one grid of distances
between the beginnings of the two words (`IsGrid`): `previous` and `twoAgo` are
its last two. Transposing the grid of `a` and `b` gives that of `b` and `a`, so the
distance is the same both ways (`AlignmentSymmetric`). A cell is 0 only if the
one before it on the diagonal is and the letters agree (`AlignmentZero`); it is 1
if a slip in the last letters leads to it from a 0, or the last letters agree and
the cell before is 1, which is also how a slip between two beginnings extends
that between shorter ones (`SlipNext`, `AlignmentOne`). `PositionsFacts` shows that
closeness, frequency and the place in the list put the candidates in one order
without ties, from which `RankSuggestions` takes the first. `SearchInv` is short,
since what is shown is computed from what is typed and from the kept list: it says
that this list is one of some earlier edition, and that what is shown is what
it gives. That a suggestion is still a word then rests on the seed's only
adding words (`HeadwordsGrow`).

### Only proved

- `ReadingsAreSourced`: what `WordEntry` makes of an entry. `content` runs its
  actions and checks its types; the theorem says the rest, for any entry.

### Only model-checked

- What is under fairness (`EveryRequestAnswered`, `DriftEnds`, `PendingEnds`,
  `IdleSessionsEnd`, `DueIsErased`): the prover has no rule for `ENABLED`.
- `TokenisesStably`, which speaks of what `Tokenizer` computes by folds over
  symbols, and is a fact about the symbols of the shipped inventory, not of any.
- The type invariants of the compositions (`RequestsTypeOK`, `AccountsTypeOK`,
  `ContentTypeOK`): conjunctions of the parts' own, which are proved above.

## 5. Not modelled

- Word requests (one upsert behind a limit, and the author they lose at an
  erasure), settings and consents (one read-then-insert that two requests can
  both pass), retention (one `DELETE` of dead rows), the tombstone of an
  account.
- What word and phoneme pages read and show once the word is found; templates, headers, logging, hashing,
  captcha and breach look-ups, mail delivery (sent and forgotten).
- Fetching from Wiktionary, CMUdict and frequency lists, speech synthesis, the
  dump and restore programs, BullMQ, Flyway: outside, or chosen arbitrarily
  where the code uses what they return.
- The in-memory stores, which serve tests and development; connection pools.
- Redis losing its data, except in `RateLimit` and as an empty queue in
  `Practice`.

## 6. Plan

Done: the modules of section 2, checked, and the proofs of section 4. What could
follow: of `Tokenizer`, which property of an inventory makes it stable; word
requests and consents as modules.
