----------------------------- MODULE Aggregator -----------------------------
(***************************************************************************)
(* Runs of the aggregator: internal/aggregator/aggregator.go.  A run       *)
(* stores what every feed lists, indexes the stored records, then looks up *)
(* the addresses due for every enricher, while it can be cancelled, an     *)
(* enricher's time budget can run out, and the program can be killed.      *)
(*                                                                         *)
(* Records and their operations are those of Record, and the selection of  *)
(* due addresses is that of Schedule.  An update of a record is one step:  *)
(* Store shows that its file operations amount to that.                    *)
(***************************************************************************)
EXTENDS Record, Schedule

CONSTANTS
    Setups,             \* what the aggregator can be run with
    Answers,            \* what each source can say of an address: at most one report
    MaxConsecutiveLookupFailures

\* A file of neither schema version, which decodeRecord refuses.
UnreadableFile == [version |-> 3]
IsReadable(file) == file.version \in 0..2

\* The names of the feeds and of the enrichers in the order of the run, the
\* schedule of each enricher, the addresses feeds can list, the files there can be
\* before the first run, and a bound on the clock.  New refuses names used twice
\* and schedules that are not positive.
IsSetup(choice) ==
    LET names == choice.feeds \o choice.enrichers IN
    /\ choice.feeds \in Seq(Sources) /\ choice.enrichers \in Seq(Sources)
    /\ \A i, j \in DOMAIN names : names[i] = names[j] => i = j
    /\ DOMAIN choice.limits = Range(choice.enrichers)
    /\ \A name \in DOMAIN choice.limits : IsSchedule(choice.limits[name])
    /\ choice.addresses \subseteq Addresses
    /\ \A dataset \in choice.datasets :
          /\ DOMAIN dataset = Addresses
          /\ \A file \in Range(dataset) : file = UnreadableFile \/ IsFile(file)
    /\ choice.lastMoment \in Time

ASSUME AggregatorAssumption ==
    /\ \A choice \in Setups : IsSetup(choice)
    /\ \A name \in Sources : \A reports \in Answers[name] :
          reports \in Seq(Report) /\ Len(reports) <= 1
    /\ MaxConsecutiveLookupFailures \in Nat \ {0}

VARIABLES
    setup,      \* what the aggregator is run with, every hour the same
    files,      \* the file of each address
    clock,      \* the current second
    stage,      \* what the run is doing
    position,   \* the feed or the enricher it is at
    left,       \* the addresses it has left there
    pending,    \* the one it is at, after the check of the context: {} or a singleton
    stamp,      \* the moment a feed's sightings are stored under
    entries,    \* the index
    inARow,     \* consecutiveFailures
    written,    \* writtenCount
    failures,   \* what the errors joined so far are about
    cancelled,  \* whether ctx is done
    expired,    \* whether the enricher's time budget is used up
    log         \* what happened in the run, for the properties only

vars == <<setup, files, clock, stage, position, left, pending, stamp, entries, inARow,
          written, failures, cancelled, expired, log>>

Feeds == setup.feeds
Enrichers == setup.enrichers
Limits == setup.limits
FeedNames == Range(Feeds)
EnricherNames == Range(Enrichers)

Running == stage \in {"feeds", "sightings", "indexing", "enrichers", "lookups"}

Outcomes == {"answered", "rejected", "failed", "stopping"}

\* The log: when the run began, the sources it got to, what it had to do for
\* which address, the sources that ran out of time, how many files it replaced
\* since it was cancelled, and the current enricher's outcomes.
FreshLog == [startedAt |-> clock, reached |-> {}, duties |-> {}, late |-> {},
             afterCancel |-> 0, outcomes |-> << >>]

NoEntries == [address \in {} |-> {}]

Init ==
    /\ setup \in Setups
    /\ files \in setup.datasets
    /\ clock \in 1..setup.lastMoment
    /\ stamp = ZeroTime
    /\ stage = "idle"
    /\ position = 1
    /\ left = {} /\ pending = {} /\ entries = NoEntries
    /\ inARow = 0 /\ written = 0 /\ failures = {}
    /\ cancelled = FALSE /\ expired = FALSE
    /\ log = FreshLog

-----------------------------------------------------------------------------
(* Shared steps *)

Feed == Feeds[position]
Enricher == Enrichers[position]

\* The source gets what it says stored under checkedAt: addReports.
AddReports(record, source, reports, checkedAt) ==
    LET history == Answered(HistoryOf(record.sources, source), checkedAt) IN
    StoreHistory(record, source,
        IF reports = << >> THEN history
        ELSE [history EXCEPT !.observations =
                ApplyReport(history.observations, reports[1], checkedAt)])

\* write replaces the file by the record's encoding, unless it is that already.
Replace(address, record) ==
    LET isWritten == files[address] # Encode(record) IN
    /\ files' = [files EXCEPT ![address] = Encode(record)]
    /\ log' = IF isWritten
              THEN [log EXCEPT !.afterCancel = @ + IF cancelled THEN 1 ELSE 0]
              ELSE log

\* Store.Update, counted by the caller.
Update(address, record) ==
    /\ IsReadable(files[address])
    /\ Replace(address, record)
    /\ written' = written + IF files[address] # Encode(record) THEN 1 ELSE 0

\* Or reading or writing the file fails, and it stays as it is.
NoUpdate == UNCHANGED <<files, written, log>>

GoesOnRegardless == left # {}   \* mutant: ctx is not checked

\* The loops over sightings and files check the context before each address.
GoesOn == left # {} /\ ~cancelled

BrokenOffSilently(what) == {}   \* mutant: the break adds no failure

BrokenOff(what) == IF left # {} THEN {what} ELSE {}

GoTo(nextStage, nextPosition) ==
    /\ stage' = nextStage
    /\ position' = nextPosition

EndRun(problems) ==
    /\ stage' = "ended"
    /\ failures' = failures \cup problems
    /\ entries' = NoEntries
    /\ UNCHANGED <<files, clock, position, left, pending, stamp, inARow, written,
                   cancelled, expired, log>>

-----------------------------------------------------------------------------
(* Feeds *)

StartRun ==
    /\ ~Running
    /\ GoTo("feeds", 1)
    /\ left' = {} /\ pending' = {} /\ entries' = NoEntries
    /\ inARow' = 0 /\ written' = 0 /\ failures' = {}
    /\ cancelled' = FALSE /\ expired' = FALSE
    /\ log' = FreshLog
    /\ UNCHANGED <<files, clock, stamp>>

\* Collect lists some addresses, or the feed as a whole could not be read.
CollectFeed ==
    /\ stage = "feeds" /\ position \in DOMAIN Feeds
    /\ ~cancelled
    /\ \/ \E listed \in SUBSET setup.addresses :
             /\ GoTo("sightings", position)
             /\ left' = listed
             /\ stamp' = clock
             /\ log' = [log EXCEPT !.reached = log.reached \cup {Feed},
                                   !.duties = log.duties \cup ({Feed} \X listed)]
             /\ UNCHANGED failures
       \/ /\ GoTo("feeds", position + 1)
          /\ failures' = failures \cup {Feed}
          /\ log' = [log EXCEPT !.reached = log.reached \cup {Feed}]
          /\ UNCHANGED <<left, stamp>>
    /\ UNCHANGED <<files, clock, pending, entries, inARow, written, cancelled, expired>>

CancelledBeforeFeed ==
    /\ stage = "feeds" /\ position \in DOMAIN Feeds
    /\ cancelled
    /\ EndRun({"cancelled"})

\* The head of the loop over the listed addresses.
NextSighting ==
    /\ stage = "sightings" /\ pending = {}
    /\ IF GoesOn
       THEN \E address \in left :
               /\ pending' = {[address |-> address, outcome |-> "answered"]}
               /\ left' = left \ {address}
               /\ UNCHANGED <<stage, position, stamp, failures>>
       ELSE /\ GoTo("feeds", position + 1)
            /\ left' = {} /\ stamp' = ZeroTime
            /\ failures' = failures \cup BrokenOff(Feed)
            /\ UNCHANGED pending
    /\ UNCHANGED <<files, clock, entries, inARow, written, cancelled, expired, log>>

StoreSighting ==
    /\ stage = "sightings"
    /\ \E sighting \in pending, reports \in Answers[Feed] :
          \/ NoUpdate /\ failures' = failures \cup {Feed}
          \/ /\ Update(sighting.address,
                       AddReports(Decode(files[sighting.address]), Feed, reports, stamp))
             /\ UNCHANGED failures
    /\ pending' = {}
    /\ UNCHANGED <<clock, stage, position, left, stamp, entries, inARow, cancelled, expired>>

-----------------------------------------------------------------------------
(* The index *)

BeginIndex ==
    /\ stage = "feeds" /\ position \notin DOMAIN Feeds
    /\ GoTo("indexing", 1)
    /\ left' = {address \in Addresses : files[address] # NoFile}
    /\ UNCHANGED <<files, clock, pending, stamp, entries, inARow, written, failures,
                   cancelled, expired, log>>

NextFile ==
    /\ stage = "indexing" /\ pending = {}
    /\ IF GoesOn
       THEN \E address \in left :
               /\ pending' = {[address |-> address, outcome |-> "answered"]}
               /\ left' = left \ {address}
               /\ UNCHANGED <<stage, position, failures>>
       ELSE /\ GoTo("enrichers", 1)
            /\ left' = {}
            /\ failures' = failures \cup BrokenOff("index")
            /\ UNCHANGED pending
    /\ UNCHANGED <<files, clock, stamp, entries, inARow, written, cancelled, expired, log>>

SharedEntryOf(record) ==   \* mutant: one last attempt for all sources
    [firstSeen |-> record.firstSeen,
     lastAttempts |-> [name \in {name \in Sources : WasAttempted(record, name)} |->
        Latest({LastAttempt(record, any) : any \in DOMAIN record.sources})]]

EntryOf(record) ==
    [firstSeen |-> record.firstSeen,
     lastAttempts |-> [name \in {name \in Sources : WasAttempted(record, name)} |->
                          LastAttempt(record, name)]]

\* indexFile: something fails, and the file is skipped; or the record is
\* rewritten in the current format, uncounted, and gets an entry.
IndexFile ==
    /\ stage = "indexing"
    /\ \E visited \in pending :
          LET address == visited.address IN
          \/ /\ failures' = failures \cup {"index"}
             /\ UNCHANGED <<files, entries, log>>
          \/ /\ IsReadable(files[address])
             /\ Replace(address, Decode(files[address]))
             /\ entries' = [other \in DOMAIN entries \cup {address} |->
                              IF other = address THEN EntryOf(Decode(files[address]))
                              ELSE entries[other]]
             /\ UNCHANGED failures
    /\ pending' = {}
    /\ UNCHANGED <<clock, stage, position, left, stamp, inARow, written, cancelled, expired>>

-----------------------------------------------------------------------------
(* Enrichers *)

BeginEnricher ==
    /\ stage = "enrichers" /\ position \in DOMAIN Enrichers
    /\ ~cancelled
    /\ GoTo("lookups", position)
    /\ left' = SelectDueAddresses(entries, Enricher, Limits[Enricher], clock)
    /\ log' = [log EXCEPT !.reached = log.reached \cup {Enricher},
                          !.duties = log.duties \cup ({Enricher} \X left'),
                          !.outcomes = << >>]
    /\ UNCHANGED <<files, clock, pending, stamp, entries, inARow, written, failures,
                   cancelled, expired>>

CancelledBeforeEnricher ==
    /\ stage = "enrichers" /\ position \in DOMAIN Enrichers
    /\ cancelled
    /\ EndRun({"cancelled"})

FinishRun ==
    /\ stage = "enrichers" /\ position \notin DOMAIN Enrichers
    /\ EndRun({})

RepeatEnricher(problems) ==   \* mutant: an enricher that failed is tried again at once
    /\ GoTo("enrichers", IF problems = {} THEN position + 1 ELSE position)
    /\ left' = {} /\ inARow' = 0 /\ expired' = FALSE
    /\ failures' = failures \cup problems \cup IF cancelled THEN {Enricher} ELSE {}

\* The end of runEnricher: a cancelled run is a failure, a used-up budget is not.
LeaveEnricher(problems) ==
    /\ GoTo("enrichers", position + 1)
    /\ left' = {} /\ inARow' = 0 /\ expired' = FALSE
    /\ failures' = failures \cup problems \cup IF cancelled THEN {Enricher} ELSE {}

EndLookups ==
    /\ stage = "lookups" /\ pending = {} /\ left = {}
    /\ LeaveEnricher({})
    /\ UNCHANGED <<files, clock, pending, stamp, entries, written, cancelled, log>>

\* A lookup that ends before the run is cancelled and the budget used up.
LookUp ==
    /\ stage = "lookups" /\ pending = {} /\ left # {}
    /\ ~cancelled /\ ~expired
    /\ LET address == FirstOf(entries, Enricher, left) IN
       \E outcome \in Outcomes :
          /\ pending' = {[address |-> address, outcome |-> outcome]}
          /\ left' = left \ {address}
          /\ log' = [log EXCEPT !.outcomes = Append(log.outcomes, outcome)]
    /\ UNCHANGED <<files, clock, stage, position, stamp, entries, inARow, written,
                   failures, cancelled, expired>>

\* One that does not: whatever it returned is dropped.
LookUpCutShort ==
    /\ stage = "lookups" /\ pending = {} /\ left # {}
    /\ cancelled \/ expired
    /\ LeaveEnricher({})
    /\ log' = IF expired THEN [log EXCEPT !.late = log.late \cup {Enricher}] ELSE log
    /\ UNCHANGED <<files, clock, pending, stamp, entries, written, cancelled>>

ConsecutiveErrors(outcome) ==   \* mutant: a rejection resets the count
    IF outcome \in {"answered", "rejected"} THEN 0 ELSE inARow + 1

FailuresInARow(outcome) ==
    CASE outcome = "answered" -> 0
      [] outcome = "rejected" -> inARow
      [] OTHER -> inARow + 1

\* The rest of the loop's body: the enricher goes on, or stops for this run.
AfterLookup(outcome, stored) ==
    LET count    == FailuresInARow(outcome)
        isFailed == ~stored \/ outcome \in {"failed", "stopping"}
        isStopped == \/ outcome = "stopping"
                     \/ outcome = "failed" /\ count >= MaxConsecutiveLookupFailures
        problems == IF isFailed THEN {Enricher} ELSE {}
    IN  IF isStopped THEN LeaveEnricher(problems)
        ELSE /\ inARow' = count
             /\ failures' = failures \cup problems
             /\ UNCHANGED <<stage, position, left, expired>>

\* storeLookup, which can fail to update the record.  An error that is not about
\* the address is not recorded on it.
StoreLookup ==
    /\ stage = "lookups"
    /\ \E lookup \in pending :
          LET address == lookup.address
              record  == Decode(files[address])
          IN  \/ /\ lookup.outcome # "stopping"
                 /\ NoUpdate
                 /\ AfterLookup(lookup.outcome, FALSE)
              \/ lookup.outcome = "stopping" /\ NoUpdate /\ AfterLookup("stopping", TRUE)
              \/ /\ lookup.outcome = "answered"
                 /\ \E reports \in Answers[Enricher] :
                       Update(address, AddReports(record, Enricher, reports, clock))
                 /\ AfterLookup(lookup.outcome, TRUE)
              \/ /\ lookup.outcome \in {"rejected", "failed"}
                 /\ Update(address, FailureRecorded(record, Enricher, clock))
                 /\ AfterLookup(lookup.outcome, TRUE)
    /\ pending' = {}
    /\ UNCHANGED <<clock, stamp, entries, cancelled>>

-----------------------------------------------------------------------------
(* What happens to a run *)

Cancel ==
    /\ Running /\ ~cancelled
    /\ cancelled' = TRUE
    /\ UNCHANGED <<files, clock, stage, position, left, pending, stamp, entries, inARow,
                   written, failures, expired, log>>

Expire ==
    /\ stage = "lookups" /\ ~expired
    /\ expired' = TRUE
    /\ UNCHANGED <<files, clock, stage, position, left, pending, stamp, entries, inARow,
                   written, failures, cancelled, log>>

Kill ==
    /\ Running
    /\ GoTo("idle", 1)
    /\ left' = {} /\ pending' = {} /\ entries' = NoEntries
    /\ inARow' = 0 /\ written' = 0 /\ failures' = {}
    /\ cancelled' = FALSE /\ expired' = FALSE
    /\ stamp' = ZeroTime
    /\ log' = FreshLog
    /\ UNCHANGED <<files, clock>>

Tick ==
    /\ clock < setup.lastMoment
    /\ clock' = clock + 1
    /\ UNCHANGED <<files, stage, position, left, pending, stamp, entries, inARow, written,
                   failures, cancelled, expired, log>>

Step ==
    \/ CollectFeed \/ CancelledBeforeFeed \/ NextSighting \/ StoreSighting
    \/ BeginIndex \/ NextFile \/ IndexFile
    \/ BeginEnricher \/ CancelledBeforeEnricher \/ FinishRun
    \/ EndLookups \/ LookUp \/ LookUpCutShort \/ StoreLookup

Next ==
    /\ StartRun \/ Step \/ Cancel \/ Expire \/ Kill \/ Tick
    /\ UNCHANGED setup

Spec == Init /\ [][Next]_vars

\* A run that is not killed keeps going: collecting a feed and looking up an
\* address end, because the HTTP client times out and an enricher has a budget.
FairSpec == Spec /\ WF_vars(Step /\ UNCHANGED setup)

-----------------------------------------------------------------------------
(* Properties *)

\* When a source last tried an address, by its file; 0 for never.
AttemptAt(file, source) ==
    IF IsReadable(file) /\ WasAttempted(Decode(file), source)
    THEN LastAttempt(Decode(file), source)
    ELSE ZeroTime

\* Through all runs, killed and cancelled ones included, no enricher tries an
\* address again before refresh_after has passed since it last tried, whether
\* that gave an answer, a rejection or a failure: the quota is never spent on
\* an address whose attempt is stored.
RefreshRespected ==
    [][\A name \in EnricherNames, address \in Addresses :
          LET before == AttemptAt(files[address], name)
              after  == AttemptAt(files'[address], name)
          IN  before # ZeroTime /\ after # before
              => after - before >= Limits[name].refreshAfter]_vars

\* The index is taken once, before all lookups, yet it stays true of every
\* enricher and address still to come: no lookup is chosen by a stale attempt.
IndexStaysTrue ==
    stage \in {"enrichers", "lookups"} =>
        \A index \in DOMAIN Enrichers, address \in DOMAIN entries :
            (index > position \/ (index = position /\ (stage = "lookups" => address \in left)))
            => AttemptOf(entries[address], Enrichers[index])
                  = AttemptAt(files[address], Enrichers[index])

\* An outage does not use up the run: between two answers there are never more
\* than the limit of failed lookups, however many rejections are among them,
\* and none follows the last of these, nor a stopping error.
OutageStopsEnricher ==
    LET outcomes == log.outcomes IN
    \A from \in 1 .. Len(outcomes) - 1 :
        LET before == from .. Len(outcomes) - 1 IN
        /\ outcomes[from] # "stopping"
        /\ (\A index \in before : outcomes[index] # "answered") =>
              Cardinality({index \in before : outcomes[index] = "failed"})
                  < MaxConsecutiveLookupFailures

\* What a run does not report as failed it has done: each source left out of
\* the errors has an attempt of this run stored for every address it listed or
\* was to be asked about, but for those its time budget left for later; and a
\* run without errors got to every source and left every file readable and in
\* the current format.
SilenceMeansDone ==
    stage = "ended" =>
        /\ \A duty \in log.duties :
              \/ duty[1] \in failures \cup log.late
              \/ AttemptAt(files[duty[2]], duty[1]) >= log.startedAt
        /\ failures = {} =>
              /\ log.reached = FeedNames \cup EnricherNames
              /\ \A address \in Addresses : files[address].version \in {0, 2}

\* A run in which an enricher and the index fail at nothing leaves an address
\* that enricher never tried only if its lookups were all used, or its time:
\* addresses a feed lists are looked up in the same run, although a feed or
\* another enricher fails.
NewAddressesEnriched ==
    stage = "ended" /\ failures \cap {"index", "cancelled"} = {} =>
        \A name \in EnricherNames \ (failures \cup log.late) :
            (\E address \in Addresses :
                files[address].version = 2 /\ AttemptAt(files[address], name) = ZeroTime)
            => Cardinality({address \in Addresses :
                    AttemptAt(files[address], name) >= log.startedAt})
                  >= Limits[name].maxLookups

\* "Cancelling ctx stops the run before the next source, address or lookup"
\* (aggregator.go:209): only the write in progress may still happen.
AtMostOneWriteAfterCancel == log.afterCancel <= 1

\* Every run comes to an end unless it is killed, whatever fails in it.
RunEnds == Running ~> ~Running
=============================================================================
