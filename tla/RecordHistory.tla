--------------------------- MODULE RecordHistory ---------------------------
(***************************************************************************)
(* The life of one address's record: every sequence of feed reports,       *)
(* lookups, failed lookups, format upgrades and failed or killed updates   *)
(* that runs of the aggregator can apply to its file.                      *)
(*                                                                         *)
(* An update works on a copy and stores it at the end (Store.Update), so   *)
(* addReports is modelled as its loop: the copy is in `update' while the   *)
(* loop runs, and only the last step changes the file.                     *)
(***************************************************************************)
EXTENDS Record, FiniteSets

CONSTANTS
    Batches,          \* the reports each source can have for the address in one run
    LegacyPayloads,   \* version 1 payloads the dataset can start from
    MaxObservations   \* bound on the observations of one source

ASSUME HistoryAssumption ==
    /\ DOMAIN Batches = Sources
    /\ \A source \in Sources : Batches[source] \subseteq Seq(Report)
    /\ \A payload \in LegacyPayloads : IsLegacyPayload(payload)
    /\ MaxObservations \in Nat

VARIABLES
    file,    \* what is stored under the address's name
    update,  \* the addReports call in progress: {} or a singleton
    clock,   \* the current second
    tried,   \* when each source last had an attempt stored, ZeroTime for never
    setBack  \* whether the machine's clock was ever set back, for the properties only

vars == <<file, update, clock, tried, setBack>>

\* The local variables of addReports; applied counts the loop's iterations.
IsUpdate(running) ==
    /\ running \in [source : Sources, record : {running.record}, history : SourceHistory,
                    reports : Batches[running.source], applied : Nat, checkedAt : Time]
    /\ IsRecord(running.record)
    /\ running.applied <= Len(running.reports)

TypeOK ==
    /\ IsFile(file)
    /\ update = {} \/ \E running \in update : update = {running}
    /\ \A running \in update : IsUpdate(running)
    /\ clock \in Time
    /\ tried \in [Sources -> Moment]
    /\ setBack \in BOOLEAN

TriedSince(record) ==
    [source \in Sources |->
        IF source \in DOMAIN record.sources THEN LastAttempt(record, source) ELSE ZeroTime]

Init ==
    /\ file \in {NoFile} \cup {LegacyFile(payload) : payload \in LegacyPayloads}
    /\ update = {}
    /\ tried = TriedSince(Decode(file))
    /\ clock \in {moment \in Time : \A source \in Sources : tried[source] <= moment}
    /\ setBack = FALSE

-----------------------------------------------------------------------------

\* Store.Update reads the record and addReports copies the source's history.
BeginReports(source, reports) ==
    /\ update = {}
    /\ LET record == Decode(file) IN
       update' = {[source |-> source, record |-> record,
                   history |-> Answered(HistoryOf(record.sources, source), clock),
                   reports |-> reports, applied |-> 0, checkedAt |-> clock]}
    /\ UNCHANGED <<file, clock, tried, setBack>>

ApplyNextReport ==
    \E running \in update :
        /\ running.applied < Len(running.reports)
        /\ Len(running.history.observations) < MaxObservations
        /\ update' = {[running EXCEPT
              !.applied = running.applied + 1,
              !.history.observations =
                  ApplyReport(running.history.observations,
                              running.reports[running.applied + 1],
                              running.checkedAt)]}
        /\ UNCHANGED <<file, clock, tried, setBack>>

\* The end of addReports and the write.
FinishReports ==
    \E running \in update :
        /\ running.applied = Len(running.reports)
        /\ file' = Encode(StoreHistory(running.record, running.source, running.history))
        /\ update' = {}
        /\ tried' = [tried EXCEPT ![running.source] = running.checkedAt]
        /\ UNCHANGED <<clock, setBack>>

\* A failed lookup of a stored address that is recorded on it.
RecordFailure(source) ==
    /\ update = {}
    /\ file.version # 0
    /\ file' = Encode(FailureRecorded(Decode(file), source, clock))
    /\ tried' = [tried EXCEPT ![source] = clock]
    /\ UNCHANGED <<update, clock, setBack>>

\* Indexing rewrites a file in an older format.
Upgrade ==
    /\ update = {}
    /\ file.version # 0
    /\ file' = Encode(Decode(file))
    /\ UNCHANGED <<update, clock, tried, setBack>>

\* The write fails or the program is killed: the copy is lost.
Abandon ==
    /\ update # {}
    /\ update' = {}
    /\ UNCHANGED <<file, clock, tried, setBack>>

\* Time passes between updates, or the clock is set back; every update is
\* stamped with one moment.
Tick ==
    /\ update = {}
    /\ clock' \in Time \ {clock}
    /\ setBack' = (setBack \/ clock' < clock)
    /\ UNCHANGED <<file, update, tried>>

Next ==
    \/ \E source \in Sources : \E reports \in Batches[source] : BeginReports(source, reports)
    \/ ApplyNextReport
    \/ FinishReports
    \/ \E source \in Sources : RecordFailure(source)
    \/ Upgrade
    \/ Abandon
    \/ Tick

Spec == Init /\ [][Next]_vars

-----------------------------------------------------------------------------
(* Properties *)

Stored == Decode(file)
HistoriesOf(record) == Range(record.sources)

\* While an update runs it holds what is in the file and its copy only ever
\* extends that, so whenever the write happens nothing stored is overwritten.
UpdateExtendsFile ==
    \A running \in update :
        /\ running.record = Stored
        /\ Grows(HistoryOf(running.record.sources, running.source).observations,
                 running.history.observations)

\* The published summary is exactly what the history says: an address is
\* flagged by precisely the flags of its observations, and first_seen and
\* last_seen enclose every flagged observation and are each reached by one,
\* however updates, failures and upgrades of several sources interleave.
SummaryMatchesHistory == file.version = 2 => SummaryMatches(file.record)

\* Two observations of one thing with none between them differ in what they
\* say: the history is a list of changes, never of repetitions, although the
\* stored data is laid out differently from a fresh report's.  A key that can
\* stand for one that is not valid UTF-8 is excepted: such a report is stored
\* under another key than it is looked for, so it is repeated.
NoRepeatedObservation ==
    \A history \in HistoriesOf(Stored) :
        LET observations == history.observations IN
        \A first, second \in DOMAIN observations :
            (/\ first < second
             /\ observations[first].key = observations[second].key
             /\ observations[first].key \notin Range(Replacement)
             /\ \A between \in first + 1 .. second - 1 :
                   observations[between].key # observations[first].key)
            => ~HasSameContent(observations[first], observations[second])

\* No step of any source loses or rewrites an observation of any source, an
\* upgrade from version 1 included, and even when the clock is set back.
HistoryOnlyGrows == [][SourcesGrow(Stored.sources, Stored'.sources)]_vars

\* If the clock was never set back the observations of one thing are in order
\* and do not overlap: one ends before or when the next begins.
PeriodsInOrder ==
    ~setBack =>
        \A history \in HistoriesOf(Stored) :
            LET observations == history.observations IN
            \A first, second \in DOMAIN observations :
                (first < second /\ observations[first].key = observations[second].key)
                => observations[first].lastObserved <= observations[second].firstObserved

\* And the scheduler reads from the record exactly when each source was last
\* tried, whichever of its answers and errors came last and whatever updates
\* were lost, so it asks neither too early nor again.
LastAttemptIsLatest == ~setBack => tried = TriedSince(Stored)
=============================================================================
