# A TLA+ specification of c2-infrastructure

`c2-infrastructure` runs once an hour. **Feeds** list command-and-control
servers and add their IP addresses to the dataset; **enrichers** look addresses
of the dataset up in other services and describe them. The dataset is one JSON
file per address, holding everything every source has ever reported about it.

These modules specify what a run does to that dataset: how a record grows, how
its file is replaced, what a run does with feeds, enrichers, failures,
cancellation and kills, which addresses it looks up, how an HTTP request is paced
and retried, what the replies of feeds and enrichers become, what the command checks
before all that, and how the hourly job publishes the outcome. TLC checks them on
small instances; TLAPS proves for every instance all of the safety properties.

## The system

| Component | Code | State it keeps | Operations | Where it is specified |
|---|---|---|---|---|
| Record of one address | `internal/aggregator/record.go`, decoding and encoding in `storage.go` | the histories of every source, the summary (flags, first and last seen), failures, last attempt | `addReports`, `recordFailure`, `summarise`, `decodeRecord`, `encodeRecord` | `Record`, `RecordHistory` |
| Store of record files | `internal/aggregator/storage.go` | files and temporary files on disk | `Update`, `read`, `write`, `writeFileAtomically`, `index`, `indexFile` | `Store`, `AtomicStore`, `Contents` |
| Run | `internal/aggregator/aggregator.go` | index of the records, consecutive failures, written files, joined errors | `Run`, `runFeed`, `runEnricher`, `storeLookup`, `stopReason` | `Aggregator` |
| Selection of due addresses | `aggregator.go`, `selectDueAddresses` | none (a function of the index) | one selection per enricher and run | `Schedule`, `Refresh` |
| Upstream requests | `internal/aggregator/upstream.go` | the limiter's slots, attempts, backoff | `Fetch`, `send`, `parseRetryAfter` | `Upstream`, `Kinds` |
| Enrichers of single addresses | `internetdb`, `ipinfo`, `abuseipdb`, `otx`, `virustotal`, `shodan`, `urlhaus` | none | `Lookup`, `newReports` | `Lookups`, `Enrichment` |
| Spamhaus DROP | `spamhaus` | two cached lists, or the cached error | `Lookup`, `load`, `parseList` | `Lookups`, `Enrichment` |
| Feeds | `threatfox`, `feodotracker`, `criminalip`, `viribacktracker` | none | `Collect`, `newSighting` | `Feeds`, `Collection` |
| Feed entries and CSV rows | `entries.go`, `csv.go` | none | `ParseAddress`, `ConvertEntries`, `ReadCSVRows` | `Feeds` |
| File names | `storage.go`, from `addressFileName` on | none | `addressFileName`, `addressFromFileName`, `isStorableAddress` | `Paths` |
| Source configuration | `sources.go`, `sources.json` | none | `LoadConfiguration`, `Schedule`, `DecodeOptions`, `ParseUpstreamURL` | `Command` |
| Command | `cmd/aggregator/main.go` | the signal context | `run`, `newSourceOptions`, `prepare` | `Command`; `Cancel` and `Kill` actions |
| Publication | `.github/workflows/aggregate.yml`, `stats.json` | the data branch and main, the job that runs and the one that waits | check out, run, commit, push, count | `Workflow`; the hours of `Refresh` |

How they interact: the command builds the sources and calls `Run` with a context
that a signal cancels. `Run` calls every feed's `Collect`, groups what it found by
address and updates each record through the store; it then indexes the store
(which also rewrites files of the old version), and for every enricher selects
the due addresses from the index, calls `Lookup` for each of them and updates
the record with the answer, with the rejection or the failure, or not at all. The
index is taken once and not updated. `Collect` and
`Lookup` call `Upstream.Fetch`, which waits for a rate limiter and retries. An
enricher sees the context of the run with the enricher's time budget on top. The
workflow checks the data branch out into the command's output directory, and
afterwards commits and pushes what is there, whatever the exit code.
Nothing runs in parallel within the program: it is sequential, so its hard behaviour is not
in interleaved threads but in the environment between any two steps: time
that passes, a context that becomes done after it was looked at, a file operation
that fails, a kill, a run that follows one that was cut short. What does run beside
it are other jobs and people who push to the same repository.

### What is hard, and what makes each part correct

- **Record.** Three kinds of update meet in one history: a report that extends
  the newest observation of its key, one that replaces it, a failure. Clocks can
  be set back between runs, updates can be lost between decoding and renaming,
  version 1 payloads are migrated. Correct when no observation is ever lost or
  rewritten, nothing is stored twice, and the stored summary is
  exactly what the observations say.
- **Store.** A run can end between any two file operations and each of them can
  fail. Correct when a reader of the dataset sees the old record or the new one
  and nothing else, no update is based on a record that has changed, and
  a temporary file is left behind only by a kill during the write or a failed
  removal, and not past the next complete write of its record.
- **Run.** A cancelled context, a used-up budget, a kill, a failed update, or
  an outage reaches it anywhere. Correct when a run that reports no error has done
  what it had to, the index stays what the files say, and new addresses are
  enriched in the run that added them.
- **Selection.** Quotas are small, new addresses go first, and an attempt is stamped later
  than the selection it is for. Correct when a quota that is enough lets nobody wait for long,
  no run spends lookups on others than those that are first, and everybody is tried once feeds
  add no more. Under steady arrivals of as many addresses as the quota allows an older
  address is never reached: that is what the order does, and `BacklogMovesByQuota` says so.
- **Upstream.** Deadlines race answers, slots and retries. Correct when requests
  are spaced, a Retry-After is honoured, retries are used up before a
  transient error is reported, and an error of the context means a done context.
- **Enrichers.** What a service does not know, refuses or garbles must not
  become "no longer listed", and a reordered list must not become a change.

- **Feeds.** Entries can be malformed in any field, and an address written in more
  than one way. Correct when a malformed entry costs only itself, nothing is attributed
  to an address or time it was not listed for, a host has one file, and a list that
  says the same again adds nothing.
- **Command and publication.** Every step of a job can fail, be cancelled or run out
  of time, and runs wait for one another. Correct when what a job stored is published
  although the program failed, no push races another, the published number is that of
  the published files, and nothing is stored by a run that is configured wrongly.

`PROJECT.json` lists every such hazard at its line, with the properties that
watch it, and maps each definition to the lines it stands for.

## The modules

`Record`, `Paths`, `Kinds`, `Lookups`, `Feeds`, `Schedule` and `Command` hold operators
only; the modules with variables are built from them (an arrow is an `EXTENDS`):

```
Record --> RecordProofs
       |-> RecordHistory --> MCRecordHistory
       |                 `-> RecordHistoryProofs  (with RecordProofs)
       |-> Aggregator --> MCAggregator            (with Schedule)
       |              `-> AggregatorProofs        (with RecordProofs)
       |-> Enrichment --> MCEnrichment            (with Lookups, Kinds)
       |              `-> EnrichmentProofs        (with RecordProofs)
       `-> Feeds --> Collection --> MCCollection  (with Kinds, Paths)
                                `-> CollectionProofs  (with RecordProofs)

Schedule --> Refresh --> MCRefresh
                     `-> LimitsProofs             (with Upstream)
Kinds    --> Upstream --> LimitsProofs
Contents --> AtomicStore
         `-> Store --> StoreProofs                (Store implements AtomicStore)
Command  --> Workflow --> MCWorkflow
                      `-> WorkflowProofs
```

**Record.** A record is a map from sources to histories (a sequence of
observations, the last failure, the last attempt) with its summary. `ApplyReport` is
the loop body of `addReports`: a report either extends the newest observation of its
key, or is appended and is the newest from then on. `Summarise` recomputes
flags and times, `FailureRecorded` is `recordFailure`, `MigrateLegacyPayload`
and `Encode` are the decoding and encoding of files: what a format loses is lost
in the model too. The encoder replaces what is not valid UTF-8 in a key (`ValidText`), and
`NewReport` does not, so the key a feed lists need not be the one it is stored under: a file has
only valid keys, a report or a record in memory can have others. A moment is a second; payloads,
keys and flags are members of small sets; two payloads can have the same content with
different bytes, as `NormaliseFlags` and decoding distinguish.

**RecordHistory.** The file of one address under any sequence of operations.
`BeginReports`, `ApplyNextReport` and `FinishReports` are the steps of an update with
reports, `RecordFailure` the other kind of update, `Upgrade` the rewriting by
the index, `Abandon` an update that was lost, and `Tick` the clock, which a
machine may set back.

**Contents, AtomicStore, Store.** `AtomicStore` is the promise: the file of an
address is replaced in one step, by one value or another. `Store` is what the code does, one action per
operation on the file system: read (`BeginUpdate`, `VisitFile`), `Change`,
`Compare` (an unchanged record is not written),
`MakeDirectory`, `CreateTemporary`, `FillTemporary`, `Rename`; `FailRemoving` is the error path, `BeginIndex` to `EndIndex`
the walk, `CancelIndex` the context, `Kill` the end of the program between any
two of these. `AtomicWrites` says that `Store` implements `AtomicStore`, with
the files as they are read.

**Aggregator.** One action per step of `Run`: a feed's `Collect`, one sighting,
one indexed file, one lookup, one update. The variable `stage` says where the
run is; `pending` keeps apart the look at the context and the use of what it
said, so that `Cancel` and `Expire` come between. Every update can fail and `Kill`
ends the program anywhere; then a new run starts on what the files hold. `log` holds
what happened in the run, for the properties alone. An update is one step here,
which is what `Store` justifies.

**Schedule, Refresh.** `Schedule` is `selectDueAddresses` as operators (due,
order, quota). `Refresh` is one enricher over an unbounded number of runs: addresses arrive,
are selected, are tried or the run is cut short. Time is in ticks, several of which can lie
between two runs, at most `RunInterval`. As in the code a run selects by its now
(`aggregator.go:345`) and stamps each attempt when the lookup is stored (`aggregator.go:441`):
at any moment before the next run's now, later ones in the order of the selection. An attempt is
kept relative to the present run's now, and cut at `Horizon`, twice `refreshAfter` and a run
earlier: such an address is due, and its wait is over any bound that is stated. So no number of runs
is a bound.

**Upstream.** `Fetch` and `send`: `AskLimiter`, the wait for the slot,
`Receive` of any status, transport error or a deadline, `Retry` with backoff, and the
clock. Times are in units that are smaller than every delay of the code;
`DurationSpan` is the width at which a Duration wraps.

**Lookups, Enrichment.** `Lookups` is, package by package, what becomes of a
reply: an error of some kind, a report, or nothing, and in what order lists are
stored. `Enrichment` applies it over many runs: `Send` and `Receive` are
the request and its reply, `CutShort` a done context, and `BeginLoad` to
`LookUpInLists` the lists of Spamhaus DROP, downloaded once a run.

**Paths, Feeds, Collection.** `Paths` has addresses, as octets or groups, and the names
of their files, as lists of digits; `AddressFromFileName` is a partial inverse, as in
the code. `Feeds` is, feed by feed, what becomes of a reply: `NewSighting` of an
entry, `ConvertEntries` of all, `ReadCSVRows` with quoted fields that run on over the
ends of lines, `Collect` with what each makes of a failed query. Text is taken as a
whole: constants say which texts are addresses, ports and dates. `Collection` is
`runFeed` over many runs: `CollectFeed` groups what one reply lists,
`StoreReports` reads one address's file, applies its reports and writes it (`UpdatedFile`), or
fails to; `CutShort` ends the run before the next.

**Command, Workflow.** `Command` is `run` up to the point where the sources are run, as
the operator `StartUp` from what the command finds to its exit code: which sources
are built, with which keys and options, and what `New` accepts. A Duration has
`DurationBits` bits and wraps. `Workflow` has the jobs on their runners, the data
branch and main. A job's `stage` is the workflow's step, with one action for its success and one
for its failure; `Start` is the concurrency group; `StartAggregator` asks
`StartUp`, and `StoreRecord` and `LeaveTemporary` are what a run of `Store` can do
to the output directory; `Cancel` is a person or the time limit; `MoveMain`
a push by somebody else. `owed` remembers what jobs published, for the properties only.

The modules named `MC...` hold the definitions that instances for TLC need
(sequences, batches, starting files); `Store` and `Upstream` need none. Definitions marked `mutant` (`FileForgotten`, `RetryAtOnce`, `UnsortedOTX`, ...) are no
part of the specification: each is a plausible wrong version of the definition that
follows it, and each property of a run refutes one of them.

## The runs

Every run checks for deadlock. All state spaces are explored completely.

| Run | Configuration | Properties | What it shows |
|---|---|---|---|
| record | `MCRecordHistory.cfg` on `MCRecordHistory` | `TypeOK`, `UpdateExtendsFile`, `SummaryMatchesHistory`, `NoRepeatedObservation`, `PeriodsInOrder`, `LastAttemptIsLatest`, `HistoryOnlyGrows` | A record's history only grows, repeats nothing but what is listed under a key of invalid UTF-8 or its replacement, and is summarised exactly, for a feed and an enricher, any batches of reports, a version 1 start and a clock that can be set back; until it is set back, periods of one key do not overlap and the last attempt is what the scheduler reads. |
| store | `MCStore.cfg` on `Store` | `TypeOK`, `NoLostUpdate`, `TempsAccountedFor`, `IndexAccountsForEveryFile`, `AtomicWrites`, `EverythingEnds` | Record files are replaced atomically and nothing is lost or unaccounted for, although every file operation can fail and the program can be killed between any two; updates and indexing come to an end whatever fails in them. |
| refresh | `MCRefresh.cfg` on `MCRefresh` | `EnoughQuotaRefreshesInTime`, `BacklogMovesByQuota`, `NewAddressesAreTried` | With a quota that is just enough no address waits for twice refresh_after, although new addresses arrive and go first and attempts are stamped after the selection; whatever the quota, a complete run takes as many as it allows off the queue before an address that stays untried, which the run's own arrivals lengthen; and once feeds add no more every address they added is tried some day, although most runs are cut short. |
| run | `MCAggregator.cfg` on `MCAggregator` | `SilenceMeansDone`, `NewAddressesEnriched`, `AtMostOneWriteAfterCancel`, `IndexStaysTrue`, `OutageStopsEnricher`, `RefreshRespected`, `RunEnds` | Runs cancelled, killed, out of time or failing anywhere, in three setups: a feed and an enricher; two enrichers over several runs; four due addresses and every order of outcomes. What is not reported as failed is done, new addresses are enriched, the index is still true when the second enricher uses it, no address is tried before refresh_after, an outage stops an enricher, and a run that keeps going comes to an end. |
| upstream | `MCUpstream.cfg` on `Upstream` | `RetriesUsed`, `ContextErrorsMeanDone`, `RequestsSpaced`, `RetryAfterHonoured`, `FetchEnds` | Fetches one after another under deadlines and cancellation: spacing, Retry-After, retries and errors of the context; every Fetch returns, although the limiter, the upstream and retries make it wait. |
| enrichers | `MCEnrichment.cfg` on `MCEnrichment` | `LatestIsWhatWasSaid`, `RefusedKeyEndsLookups`, `ReorderingIsNoChange`, `AnswersNeedBothLists` | Each of the eight enrichers over many runs: what a history says last is what the upstream said last, a refused key ends the run's requests, a reordered list is no change unless two of its items tie in what the package sorts by, and Spamhaus answers only from two lists that both arrived well. |
| feeds | `MCCollection.cfg` on `MCCollection` | `GoodEntriesStored`, `OnlyListedIsStored`, `RelistingAddsNothing`, `OneFilePerHost` | Each of the four feeds over several runs: well-formed entries are stored whatever is malformed beside them, nothing is attributed to another address or time, a feed that lists the same again in another order adds nothing to an address of which it lists each key once and in valid UTF-8, the file being written and read in between, and a host has one file however it is written. |
| workflow | `MCWorkflow.cfg` on `MCWorkflow` | `StoredIsPublished`, `PushesNeverRace`, `StatsCountServers`, `OnlyCheckedSourcesStore` | Jobs triggered at any time on two runners, that fail, are cancelled or run out of time at any step, with good and bad sources files: what a job stored is published, no push of the data races another, the published number is right, and only a run that was configured completely stores anything. |

### The bounds, and why they are enough

- **record**: one feed and one enricher, batches of at most two reports over four
  keys (one key twice among them; one that is not valid UTF-8, and the one it is replaced by), two moments with a clock that goes either way, at most 3 observations. Three
  observations are the fewest with which a report can differ from the newest of
  its key and equal an older one. `setBack` remembers whether the clock was ever set
  back: what holds only with a steady clock is stated as long as it is false.
- **store**: two addresses, so that an operation on one meets what is left of
  the other; the empty record and another one, so that an update changes a record, leaves it, or
  changes it back.
- **refresh**: three addresses that arrive at any time, two ticks between runs at most, so that
  an attempt can be stamped at the moment of the selection or half a run later and runs can
  come early, and a quota that is exactly
  enough (one lookup a run with a `refresh_after` of three runs, three with one) or too small
  (two with one); any run may be cut short, and `cutShort`
  remembers it. Three addresses are the fewest of which one can wait behind a new one while
  another is due. There is no bound on the number of runs. That there are three addresses ends the
  arrivals in any behaviour, and `NewAddressesAreTried` is stated for behaviours in which they end; what
  happens while they go on is `BacklogMovesByQuota`, which is proved for any number of addresses.
- **run**: three setups. One feed and one enricher with one lookup a run, over two
  addresses each of which starts without a file, with a version 1 record or with an
  unreadable file, and two moments: two addresses are needed for one that fails
  beside one that does not, and two moments to tell this run's attempts from an
  earlier run's. Two enrichers and one address, the smallest instance in which
  an enricher uses an index taken before another one wrote, with a
  `refresh_after` of two seconds and three moments: a first attempt, a time at which it is too
  early for the next, and the next. And four addresses the feed has listed, four
  lookups, one moment: four outcomes in every order are the fewest that tell a
  rejection that resets the count of failures from one that does not, at a limit of two.
- **upstream**: an interval of two units, two retries, backoff 1 capped at 3,
  Retry-After absent, waited for or too long, and a status of every class the code
  tells apart. Calls follow each other without end: only the age of the last
  requests and of a Retry-After matters to the next.
- **enrichers**: every package, two addresses, replies of every class of status
  and lists of up to three items in more than one order, some with two items that tie in what
  the package sorts by, two moments, a limit of two failures. **enrichers_ties** is Shodan alone.
- **feeds**: each of the four feeds with replies that hold every kind of entry that
  is skipped between entries that are not, failures of every kind it tells apart, one
  address written in two ways, one in a zone, one as an IPv4-mapped IPv6 address, a port with two
  families, a panel whose URL is not valid UTF-8 beside one with the URL it is replaced by, and a quote
  that is closed two rows later or never. What a report stores can be a list
  of texts or hold a set of them, so `MCValues` is any value. Three moments: a
  listing, a different one, and the first again. There is no bound on the
  number of observations.
- **workflow**: two runners, so that the concurrency group has something to exclude;
  two addresses, one that changes beside one that does not; records that change
  twice and main with three commits, so that a push meets main where it left it or
  moved on. A dozen sources files, each wrong in one way. A
  Duration has 12 bits and a minute is 1, so that 40 hours wrap to something
  negative and 70 to something positive. Runners and addresses are interchangeable.

Bounds that appear in guards or as sets: `MaxTime`, `MaxObservations`,
`RunInterval`, `Horizon`, `MaxBudget`, `DurationSpan`, `MaxChanges`, `MaxCommits` and the sets of statuses, headers,
replies and invocations. A run past them is not explored. In the proofs below each of these
numbers is any natural number, and each of
the sets any set: of statuses, headers, batches, replies, schedules, setups or sources files.

### Fairness

- `WF_vars(Progress)` (**store**), `WF_vars(Step)` (**run**): a program
  that is not killed takes its next step. It is sequential, no file
  operation waits for another, and each `Collect` and `Lookup` returns: its HTTP client has a
  timeout and its retries are counted. Nothing is assumed about what
  the environment does: success, failure, cancellation and kills are chosen freely.
- `WF(Tick)` and `WF(Step)` (**upstream**): time passes, and the program
  goes on when it can. The limiter's slot, the backoff and the transport's timeout come up by the
  clock.
- `WF(CompleteRun)` (**refresh**): now and then a run is not cut
  short. Without it an enricher that is always cut short before its first lookup
  tries nobody, which is what the code does. Fairness on addresses is not assumed; that
  feeds add no more after some time is a premise of the property itself.
- **record**, **enrichers**, **feeds** and **workflow** check safety only and assume no fairness.

### Disagreements between the code and what it says

Each of these is shown by the counterexample of a run.

- **upstream_overflow** (`MCUpstreamOverflow.cfg`, `RetryAfterHonoured`): A Retry-After whose number of seconds overflows a Duration is retried at once instead of not at all. `src/internal/aggregator/upstream.go:348`: parseRetryAfter multiplies the header's seconds by time.Second without a bound, so a large number wraps to a negative or small Duration and Fetch retries as if there were none; upstream.go:205 says "A Retry-After longer than MAX_RETRY_AFTER isn't waited for" and upstream.go:344 that it returns "the wait a Retry-After header asks for".
- **enrichers_ties** (`MCEnrichmentTies.cfg`, `ReorderingIsNeverAChange`): Two services of one port and transport that Shodan sends in the other order are stored as a change. `src/internal/aggregator/shodan/shodan.go:304`: newData sorts the services of a host by port and transport only, so two services that share both, told apart by product or title, stay in the order they came in, and the same two in the other order are appended as a new observation; shodan.go:274 says that newData keeps the stored parts "with every list sorted so a reordered response isn't stored as a change". VirusTotal's notes of one source and title are left in their order likewise (virustotal.go:253, with the same comment at virustotal.go:236).
- **feeds_repeated** (`MCCollectionRepeated.cfg`, `RepeatedSightingsAddNothing`): Two runs one after the other, each of which lists the same, leave the same observation twice: of a port that Feodo Tracker lists with two families, and of a panel whose URL in ViriBack Tracker's file is not valid UTF-8. `src/internal/aggregator/record.go:174`: addReports compares each report with the newest observation of its key, including one appended by an earlier report of the same batch, so two different reports under one key (one port with two families in Feodo Tracker or Criminal IP, whose key is the port) replace each other as the newest and are both appended again in every run; README.md:114 says "Repeated sightings therefore don't create duplicates.". `src/internal/aggregator/storage.go:152`: encodeRecord writes a key with its invalid UTF-8 replaced (AllowInvalidUTF8), while NewReport (record.go:114) leaves the key as the feed sent it, so after one round trip latestObservationIndex (record.go:209) finds no observation under the raw key and addReports appends the same report in every run; ViriBack Tracker (viribacktracker.go:100) and Criminal IP take keys from CSV text. README.md:114 says "Repeated sightings therefore don't create duplicates.", and storage.go:150 expects such keys: "Invalid UTF-8 in upstream text, such as a key from a CSV feed, is replaced rather than failing the write". Each refutes the property alone; `tlc -continue` lists the counterexamples of both.
- **feeds_stray_quote** (`MCCollectionStrayQuote.cfg`, `MalformedRowCostsOnlyItself`): A quote that opens a field of a CSV row and is not closed on it swallows the rows up to the next quote, or all that are left. `src/internal/aggregator/csv.go:27`: with LazyQuotes a quote at the start of a field opens a quoted field that runs on over the ends of lines until a quote before a comma or the end of a line, so the well-formed rows in between become part of one field of one row; csv.go:13 says that malformed rows are skipped "so one malformed row doesn't stop the rest of the feed being stored", and csv.go:26 that stray quotes are read "as literal text" only speaks of "unquoted fields".

Smaller ones were met while modelling; the modules follow the code, and no
run is spent on them:

- `indexFile` drops what `write` reports (`storage.go:243`), so a run that only
  upgraded files returns 0 although `aggregator.go:207` says that `Run` "returns how
  many record files it wrote".
- A body that is too large, a done context and a limiter that gave up are returned
  as errors of no kind (`upstream.go:302`), although `upstream.go:38` says
  "Every error from Upstream.Fetch wraps exactly one of them".
- Among addresses tried before, the order compares `first_seen` before the time of the last attempt
  (`aggregator.go:512`), so with too small a quota newer ones are refreshed again while older ones wait on,
  although `aggregator.go:487` says "then the longest-waiting addresses".
- Spamhaus answers every lookup of a run from one download, so a list that is answered with a
  4xx such as 410 is recorded as a rejection on each address that is due
  (`spamhaus/spamhaus.go:103`), although `aggregator.go:385` says "A rejection is about this address alone".
- `last_edit` is written "so last_edit is the last data update" (`aggregate.yml:94`), but stays
  behind when the push to main fails, the job is cancelled after the data was pushed, or a manual run from
  another branch pushed data; `StatsCountServers` is about the data that were counted.
- `SourceConfig.Schedule` multiplies without a bound (`sources.go:93`): a number of hours that wraps
  is refused by `New` only when it comes out negative or 0.

## What is proved

The proofs are in the eight modules named `...Proofs` and are checked by `tlapm` on each:
`RecordProofs` holds lemmas only, `LimitsProofs` the theorems about the two ways in which the
program holds back, `Refresh` and `Upstream`, and the others those about one module with
variables each. They are about every value of the
constants that satisfies the named assumptions: any sources, keys, flags,
payloads, version 1 files, addresses, values, schedules, feeds and enrichers, statuses and
headers, replies, runners, branches and sources files, and any bound on time, observations, failures,
retries, changes and commits. The inductive invariant of a module is its `Inv` (`IInv` in `WorkflowProofs`
and `CollectionProofs`).

| Theorem | Says |
|---|---|
| `RecordHistoryProofs!HistoryPreserved` | `Spec => HistoryOnlyGrows`: no step loses or rewrites an observation |
| `RecordHistoryProofs!SummaryCorrect` | `Spec => []SummaryMatchesHistory`: the stored flags and times say exactly what the observations say |
| `RecordHistoryProofs!UpdateSafe` | `Spec => []UpdateExtendsFile`: an update in progress only adds to what is in the file |
| `RecordHistoryProofs!LastAttemptKnown` | `Spec => []LastAttemptIsLatest`: until the clock is set back, the record says when each source last tried the address |
| `RecordHistoryProofs!NothingIsRepeated` | `Spec /\ NoRepeatedObservation => []NoRepeatedObservation`: no update stores an observation that repeats the newest of its key, unless the key is one that invalid UTF-8 is replaced by |
| `RecordHistoryProofs!PeriodsStayInOrder` | `Spec /\ PeriodsInOrder => []PeriodsInOrder`: until the clock is set back, the periods of one key stay in order and apart |
| `RecordHistoryProofs!TypeCorrect` | `Spec => []TypeOK` |
| `StoreProofs!Refinement` | `Spec => AtomicWrites`: the file operations, with failures and kills, implement the atomic store |
| `StoreProofs!UpdatesNotLost` | `Spec => []NoLostUpdate`: what an update compared with is still in the file when it replaces it |
| `StoreProofs!NoUnknownTemps` | `Spec => []TempsAccountedFor`: a temporary file is that of the running write, or was left by a kill or a failed removal |
| `StoreProofs!EveryFileAccountedFor` | `Spec => []IndexAccountsForEveryFile`: indexing accounts for each record file exactly once, and leaves what it indexed in the current format |
| `StoreProofs!TypeCorrect` | `Spec => []TypeOK` |
| `LimitsProofs!RefreshedInTime` | `RefreshSpec => []EnoughQuotaRefreshesInTime`: with a quota for the whole dataset in the runs each `refresh_after` surely has, and no run cut short, nobody waits for twice that time, whenever attempts are stamped |
| `LimitsProofs!BacklogMoves` | `RefreshSpec => BacklogMovesByQuota`: while no run is cut short, a run that leaves an address untried takes exactly `max_lookups` off the queue before it, which its arrivals lengthen |
| `AggregatorProofs!SilenceIsTrue` | `Spec => []SilenceMeansDone`: what a run does not report as failed it has done |
| `AggregatorProofs!NewAddressesAreEnriched` | `Spec => []NewAddressesEnriched`: an enricher that fails at nothing leaves a new address only when its lookups or its time are used up |
| `AggregatorProofs!CancelStopsWrites` | `Spec => []AtMostOneWriteAfterCancel`: only the write in progress happens after a cancellation |
| `AggregatorProofs!IndexIsTrue` | `Spec => []IndexStaysTrue`: the index, taken once, stays true of the enrichers and addresses still to come |
| `AggregatorProofs!OutageStops` | `Spec => []OutageStopsEnricher`: no lookup after as many failures as the limit, rejections among them or not, or after a stopping error |
| `AggregatorProofs!RefreshIsRespected` | `Spec => RefreshRespected`: through all runs, killed ones too, no address is tried again before `refresh_after` |
| `LimitsProofs!RequestsAreSpaced` | `Spec => RequestsSpaced`: of three requests the first and the last are an interval apart |
| `LimitsProofs!RetryAfterIsHonoured` | `HeadersFit /\ Spec => RetryAfterHonoured`: no request is repeated before the time the upstream asked for |
| `LimitsProofs!EveryRetryIsMade` | `Spec => []RetriesUsed`: a transient error is returned only when every retry was made |
| `LimitsProofs!ContextErrorsAreTrue` | `Spec => []ContextErrorsMeanDone`: an error that tells of the context is returned only when the context is done |
| `EnrichmentProofs!LatestIsTrue` | `Spec => []LatestIsWhatWasSaid`: what a history says last is what the upstream said last |
| `EnrichmentProofs!RefusedKeyEnds` | `Spec => []RefusedKeyEndsLookups`: once an upstream refuses the key, the run sends it nothing more |
| `EnrichmentProofs!ListsComeFirst` | `Spec => []AnswersNeedBothLists`: Spamhaus answers only from two lists that both arrived well |
| `EnrichmentProofs!OrderIsNoChange` | `Spec => []ReorderingIsNoChange`: no two successive observations say the same in another order, unless one has items that tie in what its package sorts by |
| `CollectionProofs!GoodEntriesAreStored` | `Spec => []GoodEntriesStored`: a complete run has stored every well-formed entry that no open quote precedes, or its address failed |
| `CollectionProofs!StoredIsListed` | `Spec => []OnlyListedIsStored`: each observation says what an entry about its own address said at the first and the last moment it covers, or was read over the end of a line |
| `CollectionProofs!RelistedAddsNothing` | `Spec => []RelistingAddsNothing`: whatever the files hold, the same reply in another order, after a write and a read, adds no observation of an address of which it lists each key once and in valid UTF-8 |
| `CollectionProofs!HostsHaveOneFile` | `Spec => []OneFilePerHost`: no host has two files, and a file's name leads back to its address |
| `CollectionProofs!CollectionHoldsTogether` | `Spec => []IInv`: the inductive invariant these four follow from |
| `CollectionProofs!FileNamesDiffer` | two storable addresses with one file name are one address, for all of IPv4 and IPv6 |
| `CollectionProofs!NamesLeadBack` | the file name of a storable address is read as that address and no other, for all of IPv4 and IPv6 |
| `WorkflowProofs!NothingStoredIsLost` | `Spec => []StoredIsPublished`: what a job published, or had stored when its aggregator failed, is on the data branch for good |
| `WorkflowProofs!NoRefusedPush` | `Spec => []PushesNeverRace`: the data branch is where the job found it when it pushes |
| `WorkflowProofs!StatsCorrect` | `Spec => []StatsCountServers`: the published number is that of the record files it was counted on |
| `WorkflowProofs!ConfigurationChecked` | `Spec => []OnlyCheckedSourcesStore`: only a completely configured aggregator stores anything |

**Assumptions.** `RecordAssumption` (the constants are sets with a lower-case
function on flags, each text that is not valid UTF-8 has a valid replacement, no key is neither,
time is bounded by a natural number), `HistoryAssumption` (the
batches are sequences of reports, the old files are old files), `StoreAssumption` (the empty
record is a value), `ScheduleAssumption` (finitely many addresses, told apart by the order of their
text), `RefreshAssumption` (schedules are positive, runs are some positive number of ticks apart at most),
`AggregatorAssumption` (setups are setups, a lookup answers with one report at most, the limit of
failures is positive), `UpstreamAssumption` (delays are positive, counts are natural numbers),
`LookupsAssumption` and `EnrichmentAssumption` (what a list sorts by is ordered, bodies are
lists of items and IPinfo's is one object, an id is valid UTF-8, as these are numbers, an error's
status is not 200), `FeedsAssumption` (texts denote addresses, and the
text that stands for what is read over the end of a line is valid and none of those with a meaning),
`CollectionAssumption` (a reply has a status, what it says and a list of entries with the fields its
feed decodes, and a report has a key and a value of the given sets), `CommandAssumption` (a Duration
has some width) and `WorkflowAssumption` (finitely many
addresses, main is a branch). TLC evaluates all of them in every run.

Three theorems have a hypothesis besides the specification. A version 1 file can say
anything, also something twice or in disorder, so `NothingIsRepeated` and `PeriodsStayInOrder` are about
first files that do not: the hypothesis is that the initial state satisfies the property.
`HeadersFit` says that a Duration can hold the headers' seconds, which is exactly what
**upstream_overflow** shows to be necessary. The properties that except something do so in their
own statement: keys that are not valid UTF-8 and keys that are listed twice
(**feeds_repeated**), items that tie (**enrichers_ties**).

**Argument for records.** That a step preserves the summary is not inductive alone.
An update works on a decoded copy while the file stays, and the summary is that of the copy only
once all reports are in. The invariant `Inv` of `RecordHistoryProofs` therefore says of an
update in progress what it knows of the file: the copy is a record, it continues the
decoded one, and an update is open only on what the file still holds. `RecordProofs`
holds the lemmas about the operators: the earliest and the latest of a finite set of
moments exist (`EarliestProperty`, `LatestProperty`), a report keeps every
observation (`ApplyReportProperties`), a summary matches what it was computed
from (`SummariseProperties`), and neither a failure, nor encoding, nor migration
changes what the summary depends on (`FailureRecordedProperties`, `EncodeProperties`,
`MigrateProperties`). `Grows` is shown reflexive and transitive, so steps compose.
`HistoryPreserved` follows step by step from `Inv`.

The other three need to know when an update was stamped: `Timely` says that an update in progress
carries the present moment and that, until the clock is set back, nothing stored is later than
now and `tried` is what the record says. Then a failure or a report that is stored is
the latest attempt; a report that extends the newest observation of its key ends it
now, and one that is appended begins now, after all of its key have ended (`Ordered`).
That nothing is repeated needs no clock (`Distinct`): of one key, a report is compared with
the newest, and only the newest changes. In an update's copy the raw key is a thing of its own; once it
is encoded it is one with its replacement, so a key that is nobody's replacement is the same key
before and after, and for those `Distinct` survives the encoding. That periods are in order is
stated for keys as they are encoded: stored keys are all valid, so an observation with a raw key is
of the update in progress, as are all after it, and these begin now (`AddedSinceInvalid`).

**Argument for the store.** `NoLostUpdate` is inductive with the types: between
reading and renaming only the operation itself writes its address. Every step but
`Rename` leaves the files as they are read, and `Rename` replaces one of them
by a complete value, so each step of `Store` is a step of `AtomicStore` or a
stutter (`NextKeepsInv`, where the abbreviation `Kept` is that statement).
`TempsKnown` strengthens what is said of temporary files: one that is no stray is that of
the operation, between creating it and renaming it. For the index,
each file of the walk's directory is still to visit, is the one it is at, or is in exactly one of
what it indexed and what it reports as failed; and a file that was indexed is not made older.

**Argument for the selection.** The bound of twice `refresh_after` does not follow from any
single run. `QuotaUsed` counts: of an address that was tried and is due, at least as many others
have been tried since it became due as the quota allows in the runs there surely were since then, one for
each whole `RunInterval`. An address that is
passed over has the whole quota go before it (`SelectionFills`), to addresses that were
not tried since, because those are not due; and their attempts are stamped after the selection,
so since it became due as well. With each run the time since then grows by one interval at most
(`RunsCount`), and the number by the whole quota. So it would at twice `refresh_after` be that of the whole dataset, with the address
itself not among them. When in an interval an attempt is stamped, and whether the address becomes due
just after a run, is covered by counting whole intervals only. That a selection exists, and what it is, follows from the existence of a
least element in a finite set.

`BacklogMoves` is a count over one step. A full selection goes to addresses that sort before every one left
out (`SelectionFills`, `SelectedGoFirst`), and the untried go before the tried, so if one stays untried the
selection is full of untried ones before it; what feeds add has a later `first_seen` and is
before it too. The two sets are apart, and their cardinalities add up.

**Argument for a run.** None of the six is inductive, and they need one another. `Inv` of
`AggregatorProofs` says besides the types:

- `AtPlace`: which loop, if any, the address in `pending` belongs to;
- `WriteCounted`: a write after the cancellation was counted, and a loop is at an
  address only while there was none;
- `FailuresCounted`: `inARow` is no less than the failures since the last answer, and an enricher
  that goes on is below the limit and had no stopping error;
- `EntriesTrue`, `IndexStaysTrue`, `DueStillDue`: an entry says what its file says, until the enricher tries
  the address; and an address still to be looked up is due by its file too. The last follows
  from the others when an enricher selects, and stays because addresses and sources are distinct:
  no other update touches the attempt of this enricher on that address;
- `DutiesDone`: what was listed or selected is stored with an attempt of this run, or still to
  come, or its source failed or ran out of time;
- `ReachedInOrder`, `FilesIndexed`, `LookupsUsed`: a run without errors got to every source, indexed
  every file, and gave every enricher its quota or every address it never tried.

Each action has a lemma that preserves them. What an update does to the attempts of a
file is stated once, for reports, failures, rejections and migration.

**Argument for requests.** `SlotsSpaced` ties the limiter's next slot to the ages of the last
two requests and to the wait of a Fetch that has reserved one: two slots are an
interval apart, and a request is sent at its slot or later. A slot can be late and the next
on time, which is why spacing is about the first and the last of three requests.
`RequestsCounted` says that a Fetch has sent as many requests as it has made retries, and
one more from the moment it sends, which is why a transient error comes after the last one. For Retry-After,
`AskedIsWaited` says that what is left of the time asked for is no more than what is left of
the wait; it holds at the moment of the reply if the header is not wrapped.

**Argument for enrichers.** The hard part is what the code computes, not how states follow.
`addReports` is a fold over a sequence: `FoldedReports` shows that it is one iteration after
another, so a property that each `ApplyReport` keeps is kept by the whole (`AddReportsKeeps`).
Sorting is a choice of an order: `OrderedExists` shows that there is one for
every finite set and strict order, and the lemmas on `SortedUnique`, `SortedById`, `ItemsAt` and
`Compact` say what the list of each holds and in which order, so that two lists that hold the same are
the same (`RisingListsAreOne`). A sort by id only never falls (`StoredNeverFalls`), and without two items
of one id it rises (`WithoutTies`), which is where the exception of `ReorderingIsNoChange`
enters. On states, `Kept` says what a history can look like: each
observation is something the package stores, and successive ones of one
key differ. With this a report that finds what it says as the newest is an
extension and one that does not is the newest, so `LatestIsWhatWasSaid` is preserved;
`ListsTrue` relates the two lists of Spamhaus to the error that is cached, and to how far the download got.

**Argument for file names.** A name is a list of parts, each the digits of one octet or
one group. Digits determine the number they stand for (`DecimalDetermines` and its
counterpart for four hexadecimal digits), so equal names have equal parts; the version is
in the name; the zone is not, and is the same because a storable address has
none. In the other direction, a part has at most four digits, so what folding them computes
can be written out (`NumberWritten`), and the number is the one whose digits they are
(`DecimalIsRead`, `HexadecimalIsRead`).

**Argument for feeds.** Most of it is about what the code computes from lists of any length. Entries
are converted, columns counted, addresses grouped and reports selected by one list for each
item, one after the other (`FlattenSeq`), and `FlattenedSays` says once what such a list holds.
A file of CSV is a fold over its lines: `LinesAreRead` has the readings after each of them, and
`RowsSay` is what is true of every one of these: a row is a line or holds garbled text, and
every line before one that leaves a quote open is its own row. From this follow, feed by feed,
that an entry is collected if it would be alone (`GoodEntriesCollected`), that nothing else is
(`ListedOrGarbled`), and that the order does not matter (`ReorderedSays`). Applying reports is
the fold of **records** again: after it each report is stored as of now, what was attributed to the
address stays attributed (`FoldedSays`), and each report is the newest of its key if no two have one key
(`FoldedSettles`), so it adds nothing when it comes again (`FoldedAgain`). Between the two the file
is encoded and decoded: valid keys stay what they are, so each report is still the newest of its key and
still ends then (`LatestOnceEncoded`, `StillEnded`), and the list is as long (`SameLength`).

None of the four properties is inductive. `IInv` says of the states between the updates of a run:
each file is that of an address that can be stored, holds nothing later than the run and only what was
said of that address (`FilesRead`); what is still to be stored was said at the run's moment
(`SightingsSaid`); and each sighting of the last reply is of an address still to come or failed,
or is stored (`SightingsAccountedFor`). An update leaves all other files alone because file names differ
(`UpdateStores`). A host has one file because an address that can be stored is the only way to write
its host (`HostsApart`): IPv4-mapped addresses and zones are refused.

**Argument for the workflow.** None of the four is inductive. The invariant `IInv` of
`WorkflowProofs` says that at most one job is active (`OneJob`), and of that job
(`JobInv`), by the step it is at: from its checkout to its push the data branch is
where it found it; its output directory holds at least what it checked out, and
the same until the aggregator runs; when it has changes, `StartUp` let it continue;
when it has pushed, the data branch holds its output; the number it carries is that of
its files. With this, a step of the job that counts in `owed` is covered by the branch, and
a push can only move the branch forward. `StatsCorrect` also needs that what was counted is
never newer than the branch.

**Only model-checked.** Liveness (`EverythingEnds`, `RunEnds`,
`FetchEnds`, `NewAddressesAreTried`), because TLAPS does not support `ENABLED`; and the
counterexamples of the four runs about disagreements. Everything else that a passing run checks is a theorem. Where a
fold has to be followed over a list of any length, the proofs do not use induction over
data: they show that the intermediate values exist as a function on the positions, and count up to the last one
(`CountsUp`).

## What is not modelled, and why

- Text: which strings are addresses, ports and dates, and how a JSON value is decoded, is
  given by constants or by a field of an entry; how an address is printed is in `Paths`.
- The requests the feeds and enrichers send, and the wording of logs, errors and the
  version: nothing depends on them. Criminal IP asks for the file of the day on which the
  run asks; a day's end is not in `Collection`.
- GitHub itself: that one job of a group runs at a time, that a waiting run is replaced by
  a newer one, and that a cancelled job skips the steps left is taken from what the
  workflow relies on. Whether a step can be killed in the middle of a push is not.
- Power loss: the code does not sync files, and the model's `Kill` ends the
  program, not the machine.
- Two programs on one output directory: each job has a runner and a checkout of its own, and
  `Workflow` has one job at a time.
- Redaction of keys in error texts, the fake upstream of the tests and the lint
  rules: wording, and no part of the running program.

## Plan

In the order of importance; the first three are done.

1. Done: `Record` and `RecordHistory` with proofs; `Store` with its refinement of
   `AtomicStore` and proofs; `Aggregator` on `Record` and `Schedule`; `Refresh`;
   `Upstream`; `Lookups` and `Enrichment`.
2. Done: `Paths` with its proofs, `Feeds` and `Collection`; `Command` and `Workflow` with
   proofs.
3. Done: proofs of all safety properties of `RecordHistory`, `Store`, `Refresh`, `Aggregator`,
   `Upstream`, `Enrichment`, `Workflow` and `Collection`.
4. Left: several feeds and enrichers that write one record in one run are in `Aggregator` without what
   they say, and in `Collection` and `Enrichment` one at a time. A module that composes them would
   say of all sources together what is said of each, as each has a history of its own in the record.
