# The ledger of jpx-accounting and what surrounds it, specified

This directory specifies the accounting workspace in TLA+: its ledger, the
calculations that are made from it, the services that serve it and the browsers that work
on it; which interleavings, failures and boundary values their code
allows, and which promises survive them. TLC checks the
specifications on small instances; TLAPS proves the theorems for every instance.

Paths below are relative to the repository; `PROJECT.json` maps every definition to
the lines it models.

## The system

| Part | State | Operations | What is hard | What makes it correct |
| --- | --- | --- | --- | --- |
| Ledger planners (`packages/domain/src/store-planning.ts`, `store-shared.ts`, `rules.ts`) | none, pure | plan a create, a refresh, a decision, an import | which row a plan was computed from | rows are the projection of the log |
| `MemoryLedgerStore` (`packages/domain/src/store.ts`) | maps of evidence, packets, vouchers, reviews, alerts; the event array | the `LedgerStore` interface | one `await` between a read and a write; links rewritten by composes | decided once, posted once, a file stored once |
| `PostgresLedgerStore` (`packages/persistence-postgres/src/store.ts`) | the same as tables and the hash chain | the same interface, one transaction each | READ COMMITTED, an advisory lock, a retry, lock-free updates, rollbacks, writers that bypass the lock | the chain is linear, rows agree with the log, requests end |
| Integrity (`hash-chain.ts`, `integrity.ts`) | none | hash, link, verify | jsonb reorders keys; the cutover from legacy hashes | honest logs verify, clean reports are true |
| Postings (`store-shared.ts`, `simulation.ts`) | none | journal lines of a decision, and their preview | öre rounding, accounting dates, edits | lines balance, nothing is booked ahead |
| Alerts (`compliance.ts`, `refreshComplianceAlerts`) | alert rows | detect, merge, resolve, trim | two unlocked refreshes | alerts are the conditions; what a person set stays |
| Reports (`reports/`, `vat/boxes.ts`) | none | statements, cash, VAT boxes of a period | four calculations of the same lines | they agree with each other |
| Periods and tax calendar (`reports/period.ts`, `tax/calendar.ts`) | the fiscal profile | windows, comparisons, deadlines | leap days, year starts on any day | periods tile the year, deadlines neither jump nor vanish |
| Observations (`packages/reporting`, dashboard) | two cached queries | detect, rank, cut | two requests of different age | the gravest are shown; accruals do not move the runway |
| SIE (`sie/`, `importSie`) | none | parse, import, export | a line machine over damaged files, bounds of a file | imported to the öre and once, losses told; an export within an import's bounds comes back |
| API (`services/api/src/app.ts`, `config.ts`, `runtime.ts`, `shutdown.ts`) | posture, key set cache, limiter buckets, shutdown flag | HTTP handlers over one store | single flight, expiry, draining, every combination of settings | fails closed; writes are verified; a clean exit cuts off no client that still waits |
| Blob access (`blob.ts`) | delegation key cache | sign URLs | a key that expires under its URLs | a fresh URL works |
| Advisor (`advisor/chat.ts`, web chat) | a thread in the page and in localStorage | propose, approve, execute | the review changes between proposal and decision; lost answers | a human approved what is posted |
| Knowledge (`scripts/ingest-knowledge.mjs`, `knowledge.ts`) | the index | ingest, ask | overlapping and failing ingestions, batches | one corpus whole, vectors of their own text |
| Migrations (`scripts/db-migrations.mts`) | the schema and its history | migrate, status, verify, replay | a session lock, a crash between files, directories that drift | each file once, in order |
| Capture (`apps/web/lib/promotion.ts`, `draft-queue*.ts`, `app/share`) | drafts in three storages, in-flight registry, URL parameters | share, save, promote, retry, remove | tabs, crashes, lost answers, deduplication | no draft lost, no file stored twice |
| Screens (`components/today`, `components/dashboard`, `lib/*layout*`, `lib/local-data.ts`) | query cache, layouts and threads on the device | decide, batch, drag, sign out | caches older than the ledger, tabs of several builds, storage that refuses | what is shown was told; what remains has a reason |
| Settings forms, rendering, contracts, API client, document intelligence, database scripts | — | — | — | not modelled, see below |

The web app calls the API (or, offline, a `MemoryLedgerStore` in the browser); the
API calls one store. A captured file becomes an *evidence object*, bundled in a
*packet*, with a *voucher* and its *review*. An extraction refresh rewrites the open
voucher's fields and its *suggestion*; a review decision posts the voucher (or
rejects it). Every operation appends events to one hash chain per workspace. The
event log is the truth, and the rows are read models of it; reports, the tax
timeline, observations and SIE files are computed from it, and the browsers cache all of them.

## Modules

    LedgerPlans                    the pure planners, and what the log says of the rows
      LedgerPlansProofs            lemmas about both
      MemoryLedgerStore            one process, the await of the refresh
        MemoryLedgerRows           rows beside the log, with what was written back over
          MemoryLedgerStoreProofs  types, postings, rows, deduplication, approvals, the refinement
          MCMemoryLedgerStore      instances
      PostgresLedgerStore          transactions, lock, retry, outsiders
        MCPostgresLedgerStore      instances
        PostgresLedgerStoreProofs  chain, lock, types, rows, retries, the refinement
    PostingBook                    abstract: decided once, posted in the same step
    CapturePromotion               drafts and promotions of the browser's tabs
      MCCapturePromotion           instances
      CapturePromotionProofs       no draft lost, no file stored twice

    RuntimePosture                 from environment to posture
      ApiServer                    boot, requests, key set, limits, shutdown
    MigrationRunner                processes that migrate one database
    AdvisorChat                    proposals, approvals, decisions
    LocalData                      the device, and its sweep at sign-out
      MCServices                   instances of ApiServer and of these three
      ServicesProofs               proofs about the four

    PostingLines                   amounts, dates and edits of one voucher
    TaxYear                        periods and deadlines, day by day (proofs in BooksProofs)
    ReportPack                     statements, cash, VAT boxes of a journal
      Observations                 what a dashboard says of it
    ListPlaces                     filters and sums over the places of a list
      ListPlacesProofs             lemmas about them
    SieExchange                    SIE files in and out, over ListPlaces
      BooksProofs                  files, journals and exports of any length,
                                   and every day of TaxYear
    EventChain                     hashing, jsonb, verification
    ComplianceAlerts               refreshes in memory and in Postgres
    BlobAccess                     signed URLs
    Knowledge                      ingestions and questions
    WorkspaceSnapshot              getSnapshot between commits
    DashboardLayout                layouts of tabs and builds, over ListPlaces
    ShareTarget                    the share route and the capture screen
    ReviewQueue                    queue, sheet and batch over a cache
      MCWorkspace                  instances of all of these
      WorkspaceProofs              proofs about PostingLines, EventChain,
                                   ComplianceAlerts, BlobAccess, Knowledge,
                                   WorkspaceSnapshot, ShareTarget, ReviewQueue,
                                   DashboardLayout

`MCServices` and `MCWorkspace` compose parts that share no state in the code: a variable `part` says
at the start which part a behaviour is about, and the others keep still. This is no product
of their state spaces, and every `Next` and fairness condition is the module's own.

**LedgerPlans** holds what both stores share in the code, too: `planEvidenceCreate`
is `CreatedVoucher`, `CreatedReview` and `CreateEvents`; `planExtractionRefresh` is
`RefreshedVoucher`, `RefreshedReview` and `RefreshEvents`; `planReviewDecision` is
`ReviewBlocked`, `DecidedReview`, `DecidedVoucher` and `DecisionEvents`. Its last
section reads a log and says what the rows beside it should be.

**MemoryLedgerStore.** A method without an `await` in its body is one action:
`CreateEvidence`, `ComposeEvidence`, `ImportSie`, `SuggestVoucher`,
`ApplyReviewDecision`, `RunSimulation`. `updateEvidenceExtraction` awaits
`getEvidenceContext`, so it is `BeginExtractionRefresh` (what the context holds) and
`FinishExtractionRefresh` (the review read afresh, the voucher row of the context
written back whole); anything may run in between. `MemoryLedgerRows` adds the history variable
`overwritten`, the vouchers that such a continuation wrote an old row back over: it decides
nothing, and lets `RowsFollowLog` say what holds of all the others. Two HTTP requests, or a tab's
background extraction and its user, make that happen. `evidence`, `vouchers` and
`reviews` are the maps of the same names, `packetOf` and `stray` are
`evidenceIdToPacketId`, the `voucher` of a packet is `packetIdToVoucherId`.

**PostgresLedgerStore.** A request is a transaction in `tx[r]`: `Begin` opens it and
queues, `LockTail` is `lockWorkspaceTail`, `Plan*` is everything an operation reads
and decides before its first write, `Commit*` is its writes and the commit,
`ForkAborts` is `withChainForkRetry`, `Abort` a rollback for any other reason.
`BeginSuggest` and `FinishSuggest` are the lock-free `suggestVoucher`. `OutsideRead`
and `OutsideAppend` are a program that appends to `ledger.events` without the lock:
the reason why migration 0006 and the retry exist. `previous` is the column
`previous_hash`, and a hash is the place of its event.

**PostingBook** is what a ledger promises of decisions whatever its store is: a
voucher is decided once, and its posting enters the book in the same step, behind
every earlier posting. Both stores are shown to implement it.

**CapturePromotion.** `SaveFile` and `PromoteSaved` are `captureFiles` before and after its
await of the save, `SaveText` is the share effect of the capture screen, `ListDrafts` the query of the
drafts table and `ClickPromote` its button. `runs[t]` is `inFlightPromotions` of tab t, and a
promotion is cut where it awaits: `CreateEvidence` (up to the answer of the server, which may be lost),
`FailBeforeCreate`, `RemoveDraft`, `AskExtraction`. `stored` is IndexedDB, shared by the
tabs; `memory` and `session` are `inMemoryDrafts` and its mirror, of one tab each. `Reload` is a tab
that is reloaded or crashes and is restored: the only thing it keeps is sessionStorage. The server is what the
promotion sees of it, the deduplication of `findDuplicateEvidenceResult`.

**RuntimePosture** makes of an environment what `readApiRuntimeConfig` and `createApiRuntimeDependencies` make of it
(`RefusesToBoot`, `Posture`), and separately what `describeBootPosture` prints (`BootLog`); an environment says of each
variable what the decisions tell apart.

**ApiServer** is one process. `Arrive` is a request up to its first wait: body limit, `hono/jwk` with the cached keys, rate limit,
validation, attribution; `JoinFetch` is `inflight ??=` of `createCachedJwksFetcher`; `FetchArrives` and
`FetchFails` are its `then` and its `finally`; `AfterFetch` goes on with whoever awaited it; `StoreAnswers` is the store
and `onError`. `Signal`, `ServerCloses`, `Exit` and `WatchdogFires` are `registerGracefulShutdown`. `Rotate` and `Tick` are the provider and
the clock. `client` is the connection of each request: `server.close` waits for connections and for no handler, so a handler whose client has
left (`Disconnect`) does not hold it back, and loses the pool under it; idle connections are dropped by `closeIdleConnections`, but one may bring
another request while the server drains (`Connects`).

**MigrationRunner.** A runner's actions are the statements it awaits: read the directory, open a session, take the
session lock, read the history, run a file and record it in one transaction. `Killed` and `SessionLost` may come anywhere; a statement
on a reserved connection that was lost is assumed to fail (the driver does not move it to another one).

**AdvisorChat.** `thread` is the list of the page, `saved` its copy in localStorage, `turn` a POST from its sending to its answer, which
may be lost: the server checks the history, awaits the snapshot, validates, and decides in a later step. `gate` is the review gate
others use meanwhile. A thread is turned away (422) when it has more than `MAX_ADVISOR_MESSAGES` messages or one of more than 8 KiB: a question as
it was typed, or an answer of a model, to which the outcome of its approval is added. `long` is the place of the first such message; the demo's
own answers are short. The browser's stand-in for a missing API (`LocalDemoChatTransport`) checks no length and is left out.

**LocalData** is `LOCAL_DATA_REGISTRY` with the sweep of the account menu, entry by entry, over stores that may throw and a
database whose deletion waits for connections. The login screen's own sign-out, which sweeps a page without work in it, is left out.

**PostingLines** has `buildPostingLines` with its derived amounts, dates, validation of edits and balance assertion, in thousandths
of a krona with `Math.round`; `Decide` and `Simulate` happen on different days. **TaxYear** has every function of `period.ts` and
`calendar.ts` over days that are numbers ordered as their strings are, lets the days of a leap year pass, and lets
`PutCompanySettings` change the profile that both read. **ReportPack** posts vouchers into a journal and computes the pack;
**Observations** extends it with voucher rows and the two queries of the dashboard. **SieExchange** gives the line machine of
`parseSie` one line after the other and lets the file end anywhere; an import may be sent again, and other files follow it. `BeyondBounds` is
what `planSieImport` throws for, of a file and of an export alike: more than 500 vouchers, or one of more than 100 lines. The journal of the
module is what the files brought; vouchers decided in the queue have two or three lines and are exported in the same way.

**EventChain** appends with the hash of the deployed version, passes payloads through jsonb and damages rows; a hash is injective.
`CleanReportIsTrue` compares a log that verifies with the history of its last row hash by hash and payload by payload, not id by id: two
appends of the same payload behind the same event have the same hash, so when the first is lost and the second takes its place nobody
can tell, and nothing is said that was not appended.
**ComplianceAlerts** runs a refresh in one step in memory and as a transaction of single statements in Postgres; `alone` holds the
refreshes under way during which nothing was committed, and `overtaken` the alerts that a person set aside after a refresh had read them as open
(`WillResolve`). **BlobAccess** lets
minutes pass while keys are fetched and URLs are signed. **Knowledge** lets ingestions of two checkouts overlap, fail and
repeat, and answers questions from what landed. **WorkspaceSnapshot** runs the statements of `getSnapshot` between commits.

**DashboardLayout**, **ShareTarget** and **ReviewQueue** are browser code: a handler up to its next await is an action, and the messages that wake
another tab, an answer that is lost and a fetch that returns late are actions of their own. In DashboardLayout, `refused` holds the tabs whose
latest change the quota refused. In ShareTarget, `PostShare` also refuses (403, 413) and gives up a body it cannot read.

The query client of ReviewQueue is external: a late fetch overwrites the cache. An invalidation gives up the fetch in flight and starts another,
which the client does for a query that is observed, and `["workspace"]` is: `OnboardingShell` (`components/onboarding/onboarding-shell.tsx:40`), which
`app/(shell)/layout.tsx` puts around every page but the login's, observes it whichever screen is open. Nothing forbids a second decision of a review
while one is in flight, neither in `handleAction` nor in the hotkeys, so a browser has `MaxCalls` of them; only the batch is one at a time.

### What is abstracted

- A voucher's fields map the required keys to a value or `Missing`. A field that is
  required only when another one has some value (the conditional VAT rules) is a
  required one here. A suggestion is the fields it was computed from and the
  reviewer's edit; the journal lines are a function of the suggestion, the fields and the
  action, so a posting carries those three.
- Identifiers are creation indices. An id in a compose request that names nothing is
  one `Unknown` id in memory, where nothing refuses it; in Postgres the foreign key
  refuses it, which is an `Abort`. A list that repeats an id composes like one that
  does not, so lists are enumerated without repetition.
- `suggestions`, a map of the in-memory store that no operation of it decides on,
  is left out. The constructor's demo evidence is in `Init` of the memory store with any fields;
  it has no file and so never deduplicates. Postgres starts with empty tables.
- In Postgres, writing and committing are one step. Under READ COMMITTED nobody sees a write
  before its commit; the row locks and the unique index make a second writer wait for
  that commit. What others can do between an operation's reads and its commit is
  interleaved.
- `ReviewDecided` with an action stands for the three decision events.

- In the browser, a draft is a file or nothing and the place of its capture; one file stands for one
  content. A request that reaches the server after its tab died has the effect of one that reached
  it before. The preview cache (`evidence-blob-cache.ts`) cannot fail a promotion and decides nothing.

- A string that is only compared is a number or a model value: days (`TaxYear`), suppliers, chunks, layouts' raw values. Amounts are integers
  of the unit the code rounds to or of a thousandth of it; the instances use amounts on which the doubles of the code are exact.
- A provider, a storage, a model, a browser's query client and Postgres are external: they answer within what the code that calls them
  can see, fail, or are slow, and an answer may be lost after its effect.
- `Observations` leaves out the detector of missing evidence: a voucher's packet never loses its evidence in this program.

### Fairness

`FairSpec` assumes `WF_vars(Serve(r))` for each request: a backend that holds the lock
runs on, and `pg_advisory_xact_lock` serves its waiters in the order they asked, which is
what the FIFO `queue` says. No fairness is assumed of `Begin`, of aborts, or of the
outsiders. A weakly fair `Serve` is enough: once a request heads the queue nobody but
itself can take it from there.

In `CapturePromotion`, `FairSpec` assumes `WF_vars(Advance(t, d))`: the browser resumes a promotion
whose await is over, and ends every request with an answer or an error. No fairness is assumed of the
user or of listings, and a request may fail for ever.

`ApiFairness`: a fetch, a store call and a settled promise go on (`RequestStep`), closing the pool ends, and a timer that was set fires. That the
server closes is *not* assumed: keep-alive connections belong to the clients, which is why there is a watchdog, and `ShutdownEnds`
rests on it. `MigrationFairness` is weak fairness of each runner's own steps: a runner that waits for the lock is woken when it is free, because a
process that holds it ends or is killed. `AdvisorFairness` ends every turn with an answer or an error, and `LocalDataFairness` goes on
with a sweep that has begun; users, other decisions, writers and tabs are fair in nothing.

## Runs

| Run | Question | Result |
| --- | --- | --- |
| `memory_store` | Two requests that interleave at the await: does the log explain all but what a refresh wrote back, is a file stored once, is a decision made once, next to its posting, never of a blocked voucher, an import done once, and the store a `PostingBook`? | holds |
| `memory_refresh_race` | Does a refresh never touch a decided voucher? | violated |
| `postgres_chain` | Is the chain linear, a 409 only the fault of two outside events, and does everybody who queues get an answer? | holds |
| `postgres_rows` | Do rows, decisions and numbers agree with the log while suggestions are regenerated without the lock? | holds |
| `postgres_stale_suggestion` | Is an open review's suggestion the one logged last? | violated |
| `capture_tabs` | Two tabs that fail, lose answers, race and reload: is a draft lost, a file stored or extracted twice? | never |
| `capture_storages` | One tab over all three storages: does every promotion leave the registry, so that a retry starts afresh? | holds |
| `capture_tab_draft` | Is a draft saved "for this browser tab" kept in it? | violated |
| `capture_lost_answer` | Was the extraction of a duplicate asked for? | violated |
| `services` | Does every runner, request, shutdown, turn and sign-out end, and what holds meanwhile? (see below) | holds |
| `workspace` | Do the calculations agree with each other and with the postings, and do clients show and keep what they were told? (see below) | holds |
| `postgres_relink` | Does all evidence of a voucher's packet lead to a voucher? | violated |

A property of a run is often the conjunction of several named parts, each with its own comment in its module; the parts are named here in
brackets.

`memory_store` and `postgres_rows` check `RowsFollowLog`: every row is the projection of the log (in Postgres `LogExplainsVouchers`,
`LogExplainsDecisions` and `DecidedSuggestionIsPosted`; in memory, where a refresh may write back an old row, `LogExplainsDecisions`,
`OpenSuggestionIsLogged`, and `LogExplainsCurrent`, `DecidedCurrentIsPosted`, `CurrentFollowsReview` of what no such refresh wrote back).
`StoredOnce` is `ContentStoredOnce` and `ImportedOnce`; `VouchersAreDistinct` is `NumbersGapless` and `OneVoucherPerPacket`; `RetriedOnce` is
`ImportedOnce` and `DuplicatesOnlyLost`, a request that ran twice did its work once; `ProcessedOnce` of `capture_tabs` is
`PersistentFileCreatedOnce` and `ExtractedAtMostOnce`.

`services` asks, part by part:

- *migrations*, `MigrationsAreOrderly`: each file of a directory is executed once although sessions are lost between its transaction and the
  next lock (`ExecutedOnce`), from a history read under the lock (`SnapshotIsFresh`), on top of what its directory says (`BuiltInOrder`);
  success means everything ran (`MigratedMeansAll`), and `replay` reports what it left (`ReplayTellsTheTruth`);
- *boot*, in every combination of the settings, `PostureHolds` (`PostureFailsClosed`, `BootLogIsTrue`, `EverySettingHonoured`, `ReadyMeansLive`);
- *keys* and *drain*, a process of normal mode: `TokensAreChecked` (`InflightIsTheOnlyFetch`, `WritesAreVerified`), `LimitedByOwnRequests`,
  and `CleanExit`: the pool closes, and the process exits with 0, under no request but of clients that have left. It would fail if the pool
  closed without waiting for the connections, or if a connection with a request on it were dropped as idle or taken for another request;
- *advisor*, `HumansDecide`: what the ledger holds of an approval is what a human approved (`PostedAsApproved`), an answer that tells of
  something else has one of two causes, a rejection between check and decision or an answer that was missed (`WrongReportHasACause`), a card that
  the next POST is too long for follows a failure or is in a message too long itself (`UnanswerableCardHasACause`), and a signature is never lost
  (`ApprovalKeepsItsSignature`);
- *device*: what a sweep leaves was refused, blocked or written behind it (`RemainsForAReason`);
- all of them, `EverythingEnds`: every runner (`EveryRunnerEnds`), request (`EveryRequestEnds`), shutdown (`ShutdownEnds`), turn
  (`EveryTurnSettles`) and sign-out (`SignOutEnds`) under its own fairness.

`workspace` asks of

- *tax*, `DeadlinesFollowPeriods`: periods tile a year without gap or overlap (`PeriodsTile`), a comparison lies before what it is compared
  to (`YearToDateComparesBackwards`, but for years that start on the 29th to 31st of February, which the settings accept), a deadline shows the figure of its own period or
  none (`VatFigureIsOfItsPeriod`, `VatPeriodIsCurrent`), is in order (`TimelineIsOrdered`), and from one day to the next disappears only
  when it is past and appears only at the horizon (`DeadlinesAreSteady`). It is asked of real days: in a behaviour about another part `today` is 0,
  and `EveryTodayIsReal` proves that in `TaxSpec` it is always a real day;
- *posting*, `PostedAsDecided`: amounts that are whole öre balance (`OreExactAmountsBalance`), edits are what is posted
  (`EditedAmountsArePosted`, `EditedDayIsBooked`), VAT that may not be deducted becomes cost (`WithoutVatIsAllCost`), no date lies ahead
  (`NothingBookedAhead`), and a preview is what is posted but for the day (`PreviewIsPosted`, which holds by the one function that builds both and says so);
- *reports*, `ReportsAgree`: statements, cash bridge, series and boxes agree (`PackAgrees`, `SheetBalances`, `BridgeExplainsCash`,
  `MonthsMakeTheQuarter`, `SalesCarryVat`), and a posting changes the reports of its day only (`OtherPeriodsStayOut`);
- *observations*, `ObservationsAreFair` (`AnomalyIsInTheStatement`, `GravestAreShown`, `NoCostMovedMore`, `AccrualsLeaveTheRunway`);
- *SIE*, `FilesSurvive` (`ReadAsWritten`, `ImportedToTheOre`, `SentAgainAddsNothing`; `LossesAreTold`: a voucher that did not come in as written,
  one hidden behind the number of another year included, is counted as skipped; `ExportComesBack`: an export within the bounds of an import gives every
  entry back, and one beyond them, of a journal that several files have filled, is refused whole);
- *chain*, `ReportIsRight`: an undamaged log verifies across versions and jsonb (`HonestLogVerifies`), and a clean report means an undamaged
  log, or one cut at its end, behind the cutover (`CleanReportIsTrue`);
- *blob*, `MintedUrlWorks`; *alerts*, `AlertsAreKept`: alerts are the conditions after an undisturbed refresh (`AlertsAreExact`), a detection
  keeps its first date (`FirstDetectionStays`), and a person's state stays whatever is committed meanwhile, but for a refresh that had read the alert as
  open before it was set aside (`UserStatesStay`);
- *knowledge*, `CorpusAnswers` (`CorpusIsWhole`, `VectorsAreOfTheirText`, `AnsweredWhenKnown`); *snapshot*, `VouchersKeepTheirLink`;
- *screens*: `LayoutSurvives` (`LayoutsAreWhole`; `ShownIsStored`, but for a tab that has a message to hear or whose own write was refused;
  `DropKeepsHidden`), `ShareIsTakenOnce` (`EveryFileIsReported` of a share that is let in and can be read, `DroppedWhole` of any other,
  `TextTakesOnePath`, `OneDraftPerMount`) and `QueueTellsTheTruth` (`ShownDecisionIsLedgers`; `ToldIsShown`: a decision told by itself is shown from
  then on, also when the sweep behind it fails, one told in a batch after the batch and its sweep; `SheetBooksWhatItShows`).

The five violations are disagreements between the code and its own documentation:

1. *A refresh overwrites a decision (memory).* `updateEvidenceExtraction` is called
   for an open voucher, and `applyReviewDecision` before the awaited context is back.
   The decision posts; the continuation then writes the voucher row it read before,
   open again with other fields, and a new suggestion into the decided review. What is
   shown is not what was posted. `PostedOnce`, `LogExplainsDecisions` and the
   refinement survive, because the replay test reads the review's status, which
   the continuation does not write: `memory_store` and the proof show it, and that nothing else is stale (`LogExplainsCurrent`
   and its like compare what no such refresh wrote back).
2. *A suggestion from the past (Postgres).* `suggestVoucher` reads the voucher, a
   refresh commits, `suggestVoucher` writes the old suggestion back, unlogged.
   The approval gate survives (`ApprovedFieldsComplete`): the column `blocked_reason` is not touched.
3. *A relink that strands evidence (Postgres).* Composing {e1, e2} and then {e1} moves
   the voucher to the newest packet; e2's newest packet has no voucher any more.
   Refreshing e2 does nothing, and uploading its file again stores it again. The memory
   store keeps `packetIdToVoucherId` of old packets and does not have the problem
   (`memory_store`, `ContentStoredOnce`).
4. *A save that deletes (browser).* Without IndexedDB a draft goes to `inMemoryDrafts` and to
   sessionStorage. A reload empties the first; the next save or removal writes it over the second
   unless the drafts table was listed in between, and the earlier drafts are gone.
5. *An extraction nobody asks for (browser).* The answer of a create is lost; the retry is told
   `deduped` and leaves the extraction to a first run that never asked.

### Where the properties give way

Four more promises of the repository are not kept in a corner. Each is met by a run, whose property names that corner as its exemption
and is checked and proved without it:

- *Lines that differ by an öre.* `store-shared.ts:272-275` says that deriving the net amount keeps debit and credit equal "unconditionally". An
  extracted amount of more than two decimals is rounded twice, and its approval may throw: `OreExactAmountsBalance` speaks of whole öre.
- *A rejection answered as an approval.* `chat.ts:320-322` and `review-proposal.ts:26-29` let a stale proposal yield an error instead of a success. The
  check and the decision are two steps, and a rejection between them is replayed and told as an approval: the first cause of `WrongReportHasACause`.
- *A resolved alert that a person had set aside.* `persistence-postgres/src/store.ts:1482-1488` and `docs/CONVENTIONS.md`, Rule 24, keep what a user
  has set. The resolving UPDATE at 1535-1543 goes by id, without asking for `status = 'open'` again: the exemption of `UserStatesStay`. No
  route writes such a state yet (`docs/DEV_STATUS.md:104`), so `SetByHand` is a row of SQL.
- *A layout that is not kept.* `dashboard-layout-storage.ts:76` means to keep the in-memory layout for the session when the quota refuses a write.
  `readLayout` compares with what is stored and discards the change at once: `ShownIsStored` says nothing of a tab whose write was refused.

Other behaviour that a reader of the code may not expect, and that no text of the repository denies (the lines of most are under `hazards`): a handler
whose client has left is not waited for by a shutdown; a card in a message of more than 8 KiB can never be answered; two accepted files of 16 MB exceed the
25 MB of a share's body and get a 413, and a malformed share lands on /capture without a word of its files; an export of more than 500
vouchers, or with a voucher of more than 100 lines, is refused by the import; a reset of the layout in a tab with a stale cache is not stored; an SIE
voucher of 31 February is imported; an SAS URL may carry an expiry later than its key's; the company form writes back the whole record it was opened with.

A draft without a file is created without a hash, so what two tabs make of it the server cannot
absorb: `PersistentFileCreatedOnce` is about files, and about browsers that can hash.

### Bounds

`MaxEvidence`, `MaxPackets`, `MaxEvents` and `MaxOutside` are the only bounds of the stores. `Room`
reserves the events that the operations under way may still append, so that
a bound never cuts an operation in the middle, and TLC's deadlock check stays on.

- Three evidence objects and four packets, with two requests in memory, so that an upload can follow two composes
  with a stray id in them and every relink has a voucher to lose. Eleven events are
  two vouchers with a decision and half a refresh, or one with every decision, refresh and import in any order; sixteen, for uploads, are four
  operations after the seed.
- One required key with one value or `Missing`: blocked and complete are the only two
  fields the rules tell apart; a refresh can go from either to either. One edit tells an
  edited decision from an unedited one.
- `postgres_rows` has two evidence objects and four packets, for the same reason as in memory.
  In `postgres_chain` two outside events and twelve in all let both attempts of a request die
  and the next request go on behind them. Two requests are enough for every pair of
  conflicting transactions, and outsiders are a third party.
- Requests and SIE keys are symmetric; `postgres_chain` and
  `capture_storages`, which check liveness, are run without symmetry.

- `MaxDrafts`, `MaxEvidence` and `MaxReloads` bound the browser. Two captures of one content show
  every deduplication, and two evidence objects every double creation; a promotion that would create a third
  can still fail, so the bound stops none. Tabs share IndexedDB and the server only, so the
  run with two tabs has no fallback storage and the run with all storages has one tab.

- `services`: two runners and five directories (a later release, a gap, an edited file, two files of one number); every setting of the environment with one
  database, all optional services or none; two requests, two keys, time to live, flight and window of one or two ticks in three ticks
  of time, so that a key is withdrawn while it is cached and while it is fetched; two turns on one review; two tabs.
- `workspace`: every day from November of one year to the end of the leap year after it, with five starts of the fiscal year, 29 and
  30 February and the 31st among them, and each cadence; extractions and edits that balance, do not, and round; three vouchers of six
  shapes on four days (before the quarter, on the last day of a month, in the window, behind it), and two more behind a history of five; a chain of four with three damages (a lost tail, a payload, a row of the history in another's place); three
  signed URLs over two lives of a key; two refreshes
  of one voucher, stale from its second day on, and room for one alert in memory; two ingestions of checkouts that
  move, drop and reword texts; two captures and a relink; two tabs; a browser with two reviews and everything others do to them.
  An SIE file has five lines while the journal is empty and two after, with a bound of two vouchers a file and three lines a voucher: three files fill
  a journal beyond the bound. In the queue, `MaxCalls` = 2 is two decisions of one review in flight; one review starts complete and one blocked or
  complete, and of the two decisions that no gate holds back the browser rejects and only others book without VAT.
  In `services` clients leave a request only once the process drains (before that nothing depends on them), SIGTERM is the first of the two like signals,
  and the tokens of the drain are none or good ones.
  `CHECK_DEADLOCK FALSE` there and in `services`: a process exits, a day ends, and a snapshot has been read.

## What is proved

TLAPS checks, for every value of the constants (any number of requests, outsiders, tabs, browsers, files and
keys, any bound), the theorems below. Each rests on an inductive invariant that TLC had checked first on the instance of a run.
They state every invariant that the runs check, and the refinement of `PostingBook` by both stores.

### The stores

`LedgerPlansProofs` has the lemmas both stores use: what the events of a plan say of each voucher, what appending them does to
`Logged`, `Explained` and `RowFollows`, and which vouchers a content or an SIE key finds.

In memory (`MemoryLedgerStoreProofs`):

- `MemoryTypes` (`TypeOK`) and `MemoryPostsOnce` (`PostedOnce`), in every interleaving, the refresh race
  included. `MemoryInv` strengthens them with `LinksOK` (every link names a packet or a
  voucher there is, so a suspended refresh writes back an existing voucher) and
  `DecidedOnce` (no voucher is decided or posted twice in the log, and a voucher whose review is open has
  neither event). The race rewrites the voucher's status but never the review's, on which the
  decision's guard depends.
- `MemoryStoresOnce` (`StoredOnce`): `LinksLive` says that an evidence object once stored leads to a voucher through every compose, although
  a compose moves links, so a second upload is always found.
- `MemoryApprovesUnblocked` (`NoBlockedApproval`), from `FreshReviews`: a review that is open carries the block of its own voucher's fields.
- `MemoryImplementsBook` (`ImplementsPostingBook`): `StepEffect` sums up a step by what it appends and which review it closes. A
  decision's guard is the review's status, so it maps to `Book!Decide`; everything else opens a review or stutters.
- `MemoryRowsFollowLog` (`RowsFollowLog`) of `RowsSpec`: `VoucherFollows` is the row and the log of one voucher, unless it was written back
  over.

In Postgres (`PostgresLedgerStoreProofs`), in layers:

- `ChainIsLinear` (`ChainLinear`). `ChainLinear` is
  not inductive: an append is in place only if the tail it was planned from is
  still the end of the chain, or the unique key refuses it. `ChainInv`
  adds what makes that so: the chain and the log have one length and each event names the one before
  (`LogOK`); a transaction that holds a tail holds a number no greater than the chain's
  length (`TxsOK`); so does an outsider (`OutsideOK`). A tail that is smaller than the
  length is the `previous` of the event behind it, so `Forks` refuses it. This proof does not
  use the advisory lock: the key alone keeps the chain linear.
- `LockInv`: the queue has each waiting or holding request once, and who holds is its head. From it `ReadsStay`: whatever any other process
  does while a transaction holds the lock, the rows the transaction planned from stay. Outsiders add only their own events, a lock-free suggestion
  writes only the suggestion.
- `PostgresTypes` (`TypeOK`) and `PostgresNumbersVouchers` (`VouchersAreDistinct`), from `TypesInv`: a plan under the lock is what it would be
  computed to be now (`PlanOK`), the counted voucher number included.
- `PostgresRowsFollowLog` (`RowsFollowLog`) and `PostgresApprovesComplete` (`ApprovedFieldsComplete`), from `FollowInv`: the row, the review and the block of
  one voucher and what the log says of it.
- `PostgresRetriesOnce` (`RetriedOnce`): a second attempt plans afresh, from the log as it is then.
- `PostgresConflictsAreReal` (`ConflictNeedsTwoOutsiders`), from `ConflictInv`: behind the tail of a lock holder there are only outside events, and
  a second attempt has met one (`Witnessed`).
- `PostgresImplementsBook` (`ImplementsPostingBook`), with `RoomInv`: every posting finds its place within the bound, because the reserve that `Room` keeps for a request is never spent by others.

### Capture

`CaptureTypes`, `CaptureKeepsDrafts` (`PersistentDraftKept`) and `CaptureProcessesOnce` (`ProcessedOnce`), in `CapturePromotionProofs`. `CaptureInv`
says of every draft where it is listed and kept (`QueueInv`), of every evidence object that it has the hash of the draft it came from
(`ServerInv`), of every promotion past its create that the server has its evidence (`RunsInv`), and that a promotion which created its
evidence is the only one that will ask for the extraction (`AskInv`).

### The services

In `ServicesProofs`:

- `ApiFailsClosed` (`PostureHolds`), `ApiChecksTokens` (`TokensAreChecked`) and `ApiExitsClean`
  (`CleanExit`) from `ApiInv`. The posture is a function
  of the environment, and what is left of the state is that a process that runs has an environment that was not refused (`ProcessOK`): `PostureOfAnEnvironment` and
  `PostureIsTold` do the rest, for every environment. A fetch is under way exactly when it is `keySet.inflight` (`FlightOK`).
  `WritesAreVerified` is not inductive, because it speaks of requests that have passed the check and not of the keys they will be
  checked with: `KeysOK` follows the age of a key from the tick its fetch was sent at (`FetchOK`), over the arrival, when the cache
  adds its time to live (`CacheOK`), and the wait of a request that shares the fetch, to the stamp of the request (`RequestOK`); `AgeAfterRotate` is what a rotation
  does to all of them at once. `ApiExitsClean` joins two parts: `ClientsOK`, that a request under way has a client or one that has left,
  never a connection that was dropped as idle or given to another request, and `ClosedOK`, that a server which has closed has no connection left, whoever
  connects, is reused or leaves while it drains.
- `ApiLimitsOwnRequests` (`LimitedByOwnRequests`), from `LimitInv`: the hits of a subject's bucket are at most the requests of that subject since the
  window began (`BudgetOK`, a cardinality of requests that only grows), and a request that was refused has met a full one.
- `AdvisorAsksHumans` (`HumansDecide`), from `AdvisorInv`: a turn that carries an answer carries what a human decided on the card (`SafeTurns`), so does
  what the gate holds by the advisor's hand (`SafeGate`); until something fails, page and copy agree between turns, questions alternate with answers, and a
  message too long is the last (`UnfailedOK`).
- `RemainsAreExplained` (`RemainsForAReason`), from `LocalDataInv`: what a sweep at entry n has passed is gone, refused, late, or in a blocked database
  (`SweepOK`).
- `MigrationsOrderly` (`MigrationsAreOrderly`), from `MigrationInv`: who applies holds the session lock and knows the history (`Knows`); the number of a file
  of a valid directory is its place, and each execution stands behind all its predecessors (`BuiltBy`).

### The workspace

In `WorkspaceProofs`:

- `BlobUrlsWork` (`MintedUrlWorks`), from `BlobInv`: the key of a mint outlives by the margin the minute the mint was asked at.
- `SnapshotKeepsLinks` (`VouchersKeepTheirLink`), from `SnapshotInv`: the tables only grow, and what an earlier statement returned later ones find.
- `QueueIsTrue` (`QueueTellsTheTruth`), from `QueueInv`: cache and fetch show decisions the ledger has made (`Truthful`), a decision told by itself is in
  the cache and in any answer that may still overwrite it, for the sweep was behind it, and one told in a batch is from the batch's own sweep on.
- `ShareTakenOnce` (`ShareIsTakenOnce`), from `ShareInv`: the counts the address carries are those the route ended with, over reloads of the page, and a
  share that was refused or unreadable never leaves the ways in which nothing is taken.
- `PostingsAsDecided` (`PostedAsDecided`), from `PostingInv`: the decision's lines are built from its own fields and edit, and the arithmetic of `Round2` does the rest
  (`Rounding`, `WholeOre`).
- `IntegrityReportIsRight` (`ReportIsRight`), from `EventChainInv`: a row keeps links and hash wherever it is moved. That a clean log is a history is an induction along the
  log; it is done with the least place at which the two differ (`CleanIsHistory`).
- `KnowledgeAnswers` (`CorpusAnswers`), from `CorpusInv` (a script has embedded the first texts in their order) and `QuestionInv`.
- `AlertsKept` (`AlertsAreKept`, with its two action properties), from `AlertsInv`: a transaction has written each row once, with the first day of
  the row there is (`WritesOK`), and never one that another has written (`Apart`). As long as nothing else is committed its reviews, its
  detections and what it has written and has yet to write are those of the committed table (`InStep`), so what it commits is the
  conditions (`ExactAfterCommit`). `AlertsGoOn` is what every step leaves of the alerts: what a
  person set goes only to a refresh that has it among the ids it read as open, and such a refresh was overtaken.
- `LayoutKept` (`LayoutSurvives`, with `DropKeepsHidden`), from `LayoutInv`: only values that some build wrote are kept, and a tab with nothing left to
  hear, and no refused write of its own, rendered the stored one. The rest is about the pure helpers: numbering the places of a list is one to one (`PlacesNumbered`, in `ListPlacesProofs`), so a filter
  keeps a list free of repetitions (`WithoutElements`), any stored value parses to a permutation of the widgets (`ParsedWhole`), a layout reads back
  as it was stored (`ParsedBack`), and a reorder permutes the visible widgets over their places (`ReorderedWhole`).

### The books as files

`ListPlacesProofs` has what both `DashboardLayout` and `SieExchange` need of lists: the nth place, what is picked when an element is
added behind, lists joined, and sums (`TotalTenfold`). Sums, readings and exports are recursive functions: that one exists is proved first, then what `CHOOSE` picks of it.
Inductions over a length take the least length at which the claim would fail (`LeastNumber`).

`FilesKept` (`FilesSurvive`), in `BooksProofs`, has five parts, one for each conjunct of the property:

- *Read as written.* `Reading` is the invariant of the line machine: of the lines so far, the last `#VER` is pending unless its block is closed,
  `inBlock` says whether a next line would be in it, and the vouchers finished are those of the `#VER` lines before. `LineRead` and `VerRead` carry it over one
  line of any kind; at the end of the file (`ReadingIsAsWritten`) what is pending is committed and the vouchers are those written.
- *Imported to the ore.* `Booked` is what the journal holds: lines whose sides are natural numbers, of which one is zero, and which balance.
  `ImportedIsBooked` gets it from the guards of `planSieImport`, rounding included (`Sides`).
- *Sent again.* The ids of the journal differ (`PlannedApart`, and `NewPlaces` against what is known), and after an answer the file has no new
  place left.
- *Told.* A voucher of the file that is planned, and whose id was new, is in the journal as written; all others were counted.
- *Comes back.* The journal's vouchers are within the bound of lines, because each came from a file that was (`ExportBounds`), so only their number
  can be beyond it. `ExportIsRead` reads the export of a journal voucher by voucher, each from where the one before was closed; a voucher read back has ten
  times the ore of its lines (`LinesComeBack`), whose sides round to what they were (`SideComesBack`) and whose raw sum is zero, and
  the numbers it was given differ, so all are planned (`AllPlanned`) with the same lines and days (`PlannedAgain`).

### The calendar

`DeadlinesFollow` (`DeadlinesFollowPeriods`), in `BooksProofs` too, holds of every day, every start of a fiscal year and every cadence. The invariant is only
that `today` is a real day and the profile one the settings accept (`EveryTodayIsReal`); the weight is in the arithmetic:

- A real day is the index of its month and its place there, in that order (`RealDays`, `DaysInOrder`). `addDays` carries a surplus from month to month (`CarryExists`, `AddDaysCarries`);
  that it lands on a day there is, and a surplus of one day more on the day after, is an induction over the surplus (`CarriedDays`, `AddOneMore`), from which
  tomorrow's horizon is the day after today's (`HorizonMoves`).
- *Periods.* Every window ends on the day before the next one begins (`PeriodWindows`), and the clamping of a start to short months keeps the anchors in
  order (`Anchors`): `Tiling`. A month and the same month of the year before have the same length, but February (`YearBefore`). `Comparison` first failed
  there: the property excluded the start 02-29 only, and the settings' pattern accepts 02-30 and 02-31, which clamp to the same days.
- *VAT.* A token of a calendar quarter resolves to that quarter (`QuarterTokens`), and the unclamped start of `calendar.ts` is the clamped one of `period.ts` up to the
  28th (`CurrentPeriod`).
- *Deadlines.* A deadline moved off the weekend stays in its month (`MovedOffTheWeekend`, `RuleDays`). `Deadlines` are those of all periods there are;
  `NothingMissed` proves that the months, quarters and years which `buildTaxTimeline` looks at "generously" hold all that are due within the horizon,
  so `Upcoming` is a window over one set, and the window moves by a day (`UpcomingDeadlines`, `SteadyDeadlines`). The order by day, kind and number is
  total, so each row has its own place (`PlacesInOrder`, `TimelineInOrder`).

### Assumptions

The proofs use the `ASSUME`s of the modules, all evaluated by TLC in a passing run, and nothing else. Most say that a missing value is no value (`NoHash`, `NoEdit`, `NoTurn`,
`NoRunner`, ...) and that bounds are natural numbers. The others are:

- `Requests` and `SieIds` are finite (`RequestsAssumption`, `SieIdsAssumption`): the model's `Room` counts them.
- `ApiServerConstants`: the rate limit and its window are positive, as the configuration's are.
- `BlobConstants`: a key lives longer than a URL and a URL longer than the margin; a signature takes no longer than the margin.
- `PostingConstants`: amounts are integers or absent, days are days, and a VAT rate lies above -100 %, where the net amount's divisor is positive.
- `DirectoriesAssumption`: the files of a directory have different names.
- `ChunkIdsAreUnique`: within one checkout no two chunks have one id, which is the file's name and the place in it (`corpus-source.ts`).
- `LayoutAssumption`: `WIDGET_IDS` names no widget twice, and the order another build stored is a list.
- `SieConstants`: an amount is an integer or `NotANumber`, which is none, and a `#VER` without a number has none that an export gives.
- `TaxYearConstants`: a start is a month and a day from 01 to 31, as the settings' pattern demands, real or not; a horizon is at most 700 days, the longest the code asks
  for (`ANNUAL_REPORT_HORIZON_DAYS`): the years looked at end with the next one, and a much longer horizon would miss deadlines. `FirstDayIsReal`: the clock
  starts on a day of the calendar.
- `AdvisorConstants`: the thread's limit is even, as `MAX_ADVISOR_MESSAGES` is.

### Checked by TLC only

- Liveness (`EveryRequestEnds`, `EveryRunSettles`, `EverythingEnds`): fairness and `ENABLED` are out of the prover's reach.
- `ReportsAgree`, `ObservationsAreFair`: `SalesCarryVat` and `SheetBalances` hold of the vouchers the instance posts, by the roundings of their own amounts; the
  properties sum over filtered sequences (`SelectSeq`, `FoldLeft`), whose library definitions take operators
  as parameters, and what they compute for every input is an induction over data.

## Not modelled

- The read-only queries other than `getSnapshot`, and clocks of several machines: packets are ordered by creation, not by `created_at`.
- The Postgres client pool: the driver's queue delays what it does not decide.
- The settings forms: one cached record and its write, which is `PutCompanySettings`.
- A `signOut` that throws; the sign-out of the login screen; the browser's transport for a demo without an API; the preview cache, which cannot fail a promotion and decides nothing; onboarding, navigation, charts and all other
  rendering; text, wording and layout of alerts, observations and report documents.
- Contracts and the API client: schemas and a fetch wrapper without state. What a schema admits is the input of the modules.
- Document intelligence: an external service, whose answer is any set of fields here.
- `scripts/db.mts`, `db-seed` and the other local tooling.

## Plan

1. What the company form writes back (`company-form.tsx:131`), the one hazard of the clients without a model.
