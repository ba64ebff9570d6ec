------------------------ MODULE RecordHistoryProofs ------------------------
(***************************************************************************)
(* Proofs about RecordHistory, for any sources, keys, families, batches of *)
(* reports and version 1 payloads, and whatever the clock does.            *)
(***************************************************************************)
EXTENDS RecordHistory, RecordProofs

\* The inductive invariant: the file alone does not say that an update in
\* progress started from it, which is what makes the write harmless.
Inv == TypeOK /\ UpdateExtendsFile /\ SummaryMatchesHistory

LEMMA TriedSinceType ==
    ASSUME NEW record, IsRecord(record)
    PROVE  TriedSince(record) \in [Sources -> Moment]
<1>1. \A source \in DOMAIN record.sources : record.sources[source] \in SourceHistory
  BY DEF IsRecord, IsSourcesMap
<1>2. \A source \in DOMAIN record.sources : LastAttempt(record, source) \in Moment
  BY <1>1 DEF LastAttempt, SourceHistory
<1> QED BY <1>2, RecordAssumption DEF TriedSince, Moment, ZeroTime

LEMMA InitEstablishesInv == Init => Inv
<1> SUFFICES ASSUME Init PROVE Inv OBVIOUS
<1>1. IsFile(file)
  BY HistoryAssumption DEF Init, IsFile, LegacyFile
<1>2. TriedSince(Decode(file)) \in [Sources -> Moment]
  BY <1>1, DecodeProperties, TriedSinceType
<1>3. TypeOK BY <1>1, <1>2 DEF Init, TypeOK
<1>4. UpdateExtendsFile BY DEF Init, UpdateExtendsFile
<1>5. SummaryMatchesHistory
  BY DEF Init, SummaryMatchesHistory, NoFile, LegacyFile
<1> QED BY <1>3, <1>4, <1>5 DEF Inv

\* What every step that writes the file has to show.
LEMMA WriteStep ==
    ASSUME Inv, NEW record, IsRecord(record), SummaryMatches(record),
           SourcesGrow(Stored.sources, record.sources),
           file' = Encode(record)
    PROVE  /\ IsFile(file') /\ SummaryMatchesHistory'
           /\ SourcesGrow(Stored.sources, Stored'.sources)
<1>1. IsRecord(Stored) BY DecodeProperties DEF Inv, TypeOK, Stored
<1>2. Stored' = Encode(record).record BY EncodeProperties DEF Stored
<1>3. /\ IsRecord(Stored') /\ SourcesGrow(record.sources, Stored'.sources)
      /\ SummaryMatches(Stored') /\ IsFile(file')
  BY <1>2, EncodeProperties
<1>4. SourcesGrow(Stored.sources, Stored'.sources)
  BY <1>1, <1>3, SourcesGrowTransitive DEF IsRecord
<1>5. SummaryMatchesHistory' BY <1>2, <1>3 DEF SummaryMatchesHistory
<1> QED BY <1>3, <1>4, <1>5

LEMMA StepPreservesInv ==
    ASSUME Inv, [Next]_vars
    PROVE  Inv' /\ SourcesGrow(Stored.sources, Stored'.sources)
<1>1. IsFile(file) /\ IsRecord(Stored) /\ IsSourcesMap(Stored.sources) /\ SummaryMatches(Stored)
  BY DecodeProperties DEF Inv, TypeOK, SummaryMatchesHistory, Stored, IsRecord
<1>2. SourcesGrow(Stored.sources, Stored.sources) BY <1>1, SourcesGrowReflexive
<1>3. ASSUME file' = file
      PROVE  /\ IsFile(file') /\ SummaryMatchesHistory'
             /\ SourcesGrow(Stored.sources, Stored'.sources)
  BY <1>1, <1>2, <1>3 DEF Stored, SummaryMatchesHistory, Inv
<1>4. ASSUME NEW source \in Sources, NEW reports \in Batches[source],
             BeginReports(source, reports)
      PROVE  Inv' /\ SourcesGrow(Stored.sources, Stored'.sources)
  <2> DEFINE history == Answered(HistoryOf(Stored.sources, source), clock)
             begun == [source |-> source, record |-> Stored, history |-> history,
                       reports |-> reports, applied |-> 0, checkedAt |-> clock]
  <2>1. UNCHANGED <<file, clock, tried, setBack>> /\ update' = {begun}
    BY <1>4 DEF BeginReports, Stored
  <2>2. HistoryOf(Stored.sources, source) \in SourceHistory BY <1>1, HistoryOfType
  <2>3. /\ history \in SourceHistory
        /\ history.observations = HistoryOf(Stored.sources, source).observations
    BY <2>2, AnsweredProperties DEF Inv, TypeOK
  <2>4. reports \in Seq(Report) /\ Len(reports) \in Nat
    BY HistoryAssumption, LenProperties
  <2>5. Grows(HistoryOf(Stored.sources, source).observations, history.observations)
    BY <2>2, <2>3, GrowsReflexive DEF SourceHistory
  <2> HIDE DEF history
  <2>6. IsUpdate(begun) BY <1>1, <2>3, <2>4 DEF IsUpdate, Inv, TypeOK
  <2>7. TypeOK' BY <2>1, <2>6, <1>3 DEF TypeOK, Inv
  <2>8. UpdateExtendsFile'
    BY <2>1, <2>5 DEF UpdateExtendsFile, Stored
  <2> QED BY <2>1, <2>7, <2>8, <1>3 DEF Inv
<1>5. ASSUME ApplyNextReport
      PROVE  Inv' /\ SourcesGrow(Stored.sources, Stored'.sources)
  <2>1. PICK running \in update :
          /\ running.applied < Len(running.reports)
          /\ update' = {[running EXCEPT
                !.applied = running.applied + 1,
                !.history.observations =
                    ApplyReport(running.history.observations,
                                running.reports[running.applied + 1],
                                running.checkedAt)]}
          /\ UNCHANGED <<file, clock, tried, setBack>>
    BY <1>5 DEF ApplyNextReport
  <2> DEFINE before == running.history.observations
             report == running.reports[running.applied + 1]
             after == ApplyReport(before, report, running.checkedAt)
             history == [running.history EXCEPT !.observations = after]
             applied == [running EXCEPT !.applied = running.applied + 1, !.history = history]
  <2>2. IsUpdate(running) BY DEF Inv, TypeOK
  <2>3. /\ running.source \in Sources /\ running.history \in SourceHistory
        /\ running.checkedAt \in Time /\ running.applied \in Nat
        /\ running.reports \in Batches[running.source]
    BY <2>2 DEF IsUpdate
  <2>4. running.reports \in Seq(Report) /\ Len(running.reports) \in Nat
    BY <2>3, HistoryAssumption, LenProperties
  <2>5. report \in Report BY <2>1, <2>3, <2>4, ElementOfSeq
  <2>6. before \in Seq(Observation) BY <2>3 DEF SourceHistory
  <2>7. after \in Seq(Observation) /\ Grows(before, after)
    BY <2>3, <2>5, <2>6, ApplyReportProperties
  <2>8. update' = {applied} BY <2>1
  <2> HIDE DEF after
  <2>9. history \in SourceHistory /\ history.observations = after
    BY <2>3, <2>7 DEF SourceHistory
  <2> HIDE DEF history
  <2>10. /\ IsUpdate(applied)
         /\ applied.record = running.record /\ applied.source = running.source
         /\ applied.history = history
    <3>1. running.applied + 1 \in Nat /\ running.applied + 1 <= Len(running.reports)
      BY <2>1, <2>3, <2>4
    <3>2. running \in [source : Sources, record : {running.record},
                      history : SourceHistory, reports : Batches[running.source],
                      applied : Nat, checkedAt : Time]
      BY <2>2 DEF IsUpdate
    <3>3. /\ applied \in [source : Sources, record : {running.record},
                          history : SourceHistory, reports : Batches[running.source],
                          applied : Nat, checkedAt : Time]
          /\ applied.record = running.record /\ applied.source = running.source
          /\ applied.history = history /\ applied.reports = running.reports
          /\ applied.applied = running.applied + 1
      BY <3>1, <3>2, <2>9
    <3> HIDE DEF applied
    <3>4. IsRecord(applied.record) BY <2>2, <3>3 DEF IsUpdate
    <3> QED BY <3>1, <3>3, <3>4 DEF IsUpdate
  <2> HIDE DEF applied
  <2>11. TypeOK' BY <2>1, <2>8, <2>10, <1>3 DEF TypeOK, Inv
  <2>12. UpdateExtendsFile'
    <3>1. /\ running.record = Stored
          /\ Grows(HistoryOf(running.record.sources, running.source).observations, before)
      BY DEF Inv, UpdateExtendsFile
    <3>2. HistoryOf(running.record.sources, running.source).observations \in Seq(Observation)
      BY <3>1, <1>1, <2>3, HistoryOfType DEF SourceHistory
    <3>3. Grows(HistoryOf(running.record.sources, running.source).observations, after)
      BY <3>1, <3>2, <2>6, <2>7, GrowsTransitive
    <3>4. Stored' = Stored BY <2>1 DEF Stored
    <3> QED BY <3>1, <3>3, <3>4, <2>8, <2>9, <2>10 DEF UpdateExtendsFile
  <2> QED BY <2>1, <2>11, <2>12, <1>3 DEF Inv
<1>6. ASSUME FinishReports
      PROVE  Inv' /\ SourcesGrow(Stored.sources, Stored'.sources)
  <2>1. PICK running \in update :
          /\ file' = Encode(StoreHistory(running.record, running.source, running.history))
          /\ update' = {}
          /\ tried' = [tried EXCEPT ![running.source] = running.checkedAt]
          /\ UNCHANGED <<clock, setBack>>
    BY <1>6 DEF FinishReports
  <2> DEFINE record == StoreHistory(running.record, running.source, running.history)
  <2>2. IsUpdate(running) BY DEF Inv, TypeOK
  <2>3. /\ running.source \in Sources /\ running.history \in SourceHistory
        /\ running.checkedAt \in Moment
    BY <2>2, RecordAssumption DEF IsUpdate, Time, Moment
  <2>4. /\ running.record = Stored
        /\ Grows(HistoryOf(running.record.sources, running.source).observations,
                 running.history.observations)
    BY DEF Inv, UpdateExtendsFile
  <2>5. /\ IsRecord(record) /\ SummaryMatches(record)
        /\ SourcesGrow(Stored.sources, record.sources)
    BY <1>1, <2>3, <2>4, StoreHistoryProperties
  <2>6. file' = Encode(record) BY <2>1
  <2> HIDE DEF record
  <2>7. /\ IsFile(file') /\ SummaryMatchesHistory'
        /\ SourcesGrow(Stored.sources, Stored'.sources)
    BY <2>5, <2>6, WriteStep
  <2>8. TypeOK' BY <2>1, <2>3, <2>7 DEF TypeOK, Inv
  <2>9. UpdateExtendsFile' BY <2>1 DEF UpdateExtendsFile
  <2> QED BY <2>7, <2>8, <2>9 DEF Inv
<1>7. ASSUME NEW source \in Sources, RecordFailure(source)
      PROVE  Inv' /\ SourcesGrow(Stored.sources, Stored'.sources)
  <2> DEFINE record == FailureRecorded(Stored, source, clock)
  <2>1. clock \in Time /\ clock \in Moment
    BY RecordAssumption DEF Inv, TypeOK, Time, Moment
  <2>2. /\ IsRecord(record) /\ SummaryMatches(record)
        /\ SourcesGrow(Stored.sources, record.sources)
    BY <1>1, <2>1, FailureRecordedProperties
  <2>3. file' = Encode(record) BY <1>7 DEF RecordFailure, Stored
  <2> HIDE DEF record
  <2>4. /\ IsFile(file') /\ SummaryMatchesHistory'
        /\ SourcesGrow(Stored.sources, Stored'.sources)
    BY <2>2, <2>3, WriteStep
  <2>5. TypeOK' BY <1>7, <2>1, <2>4 DEF RecordFailure, TypeOK, Inv
  <2>6. UpdateExtendsFile' BY <1>7 DEF RecordFailure, UpdateExtendsFile
  <2> QED BY <2>4, <2>5, <2>6 DEF Inv
<1>8. ASSUME Upgrade
      PROVE  Inv' /\ SourcesGrow(Stored.sources, Stored'.sources)
  <2>1. file' = Encode(Stored) BY <1>8 DEF Upgrade, Stored
  <2>2. /\ IsFile(file') /\ SummaryMatchesHistory'
        /\ SourcesGrow(Stored.sources, Stored'.sources)
    BY <2>1, <1>1, <1>2, WriteStep
  <2>3. TypeOK' BY <1>8, <2>2 DEF Upgrade, TypeOK, Inv
  <2>4. UpdateExtendsFile' BY <1>8 DEF Upgrade, UpdateExtendsFile
  <2> QED BY <2>2, <2>3, <2>4 DEF Inv
<1>9. ASSUME Abandon
      PROVE  Inv' /\ SourcesGrow(Stored.sources, Stored'.sources)
  <2>1. TypeOK' BY <1>9, <1>3 DEF Abandon, TypeOK, Inv
  <2>2. UpdateExtendsFile' BY <1>9 DEF Abandon, UpdateExtendsFile
  <2> QED BY <1>9, <2>1, <2>2, <1>3 DEF Abandon, Inv
<1>10. ASSUME Tick
       PROVE  Inv' /\ SourcesGrow(Stored.sources, Stored'.sources)
  <2>1. TypeOK' BY <1>10, <1>3 DEF Tick, TypeOK, Inv
  <2>2. UpdateExtendsFile' BY <1>10 DEF Tick, UpdateExtendsFile
  <2> QED BY <1>10, <2>1, <2>2, <1>3 DEF Tick, Inv
<1>11. ASSUME UNCHANGED vars
       PROVE  Inv' /\ SourcesGrow(Stored.sources, Stored'.sources)
  <2>1. TypeOK' BY <1>11 DEF vars, TypeOK, Inv
  <2>2. UpdateExtendsFile' BY <1>11 DEF vars, UpdateExtendsFile, Inv, Stored
  <2> QED BY <1>11, <2>1, <2>2, <1>3 DEF vars, Inv
<1> QED BY <1>4, <1>5, <1>6, <1>7, <1>8, <1>9, <1>10, <1>11 DEF Next

\* Inv holds in every reachable state.
THEOREM Invariance == Spec => []Inv
<1>1. Inv /\ [Next]_vars => Inv' BY StepPreservesInv
<1> QED BY InitEstablishesInv, <1>1, PTL DEF Spec

\* The variables, the stored record and the copy under update keep their types.
THEOREM TypeCorrect == Spec => []TypeOK
BY Invariance, PTL DEF Inv

\* The published summary always says exactly what the history says.
THEOREM SummaryCorrect == Spec => []SummaryMatchesHistory
BY Invariance, PTL DEF Inv

\* An update in progress only extends what the file holds.
THEOREM UpdateSafe == Spec => []UpdateExtendsFile
BY Invariance, PTL DEF Inv

\* No step loses or rewrites an observation, for any sources, reports,
\* version 1 payloads and clock: the record "is the address's complete history".
THEOREM HistoryPreserved == Spec => HistoryOnlyGrows
<1>1. Inv /\ [Next]_vars => [SourcesGrow(Stored.sources, Stored'.sources)]_vars
  BY StepPreservesInv
<1> QED BY Invariance, <1>1, PTL DEF Spec, HistoryOnlyGrows

-----------------------------------------------------------------------------
(* How a step changes the histories *)

LEMMA StoredTypes ==
    ASSUME Inv
    PROVE  /\ IsFile(file) /\ IsRecord(Stored) /\ IsSourcesMap(Stored.sources)
           /\ DOMAIN Stored.sources \subseteq Sources
           /\ \A name \in DOMAIN Stored.sources :
                 /\ Stored.sources[name] \in SourceHistory
                 /\ Stored.sources[name].observations \in Seq(Observation)
           /\ clock \in Time /\ clock \in Moment
BY DecodeProperties, RecordAssumption
   DEF Inv, TypeOK, Stored, IsRecord, IsSourcesMap, SourceHistory, Time, Moment

\* What is stored has valid keys, so it is the same again once it is encoded.
LEMMA StoredKeys ==
    ASSUME Inv, NEW name \in DOMAIN Stored.sources
    PROVE  LET observations == Stored.sources[name].observations IN
           /\ \A index \in DOMAIN observations :
                 /\ observations[index].key \notin InvalidTexts
                 /\ ValidText(observations[index].key) = observations[index].key
           /\ SaysTheSame(observations, observations)
           /\ \A moment : AddedSinceInvalid(observations, moment)
<1> DEFINE observations == Stored.sources[name].observations
<1>1. HasValidKeys(Stored) BY DecodeProperties DEF Inv, TypeOK, Stored
<1>2. \A index \in DOMAIN observations : observations[index] \in Range(observations)
  BY DEF Range
<1>3. \A index \in DOMAIN observations :
         /\ observations[index].key \notin InvalidTexts
         /\ ValidText(observations[index].key) = observations[index].key
  BY <1>1, <1>2, ValidTextProperties DEF HasValidKeys
<1> QED BY <1>3 DEF SaysTheSame, AddedSinceInvalid

LEMMA RunningTypes ==
    ASSUME Inv, NEW running \in update
    PROVE  /\ update = {running} /\ running.source \in Sources
           /\ running.history \in SourceHistory
           /\ running.history.observations \in Seq(Observation)
           /\ running.checkedAt \in Time /\ running.record = Stored
BY DEF Inv, TypeOK, IsUpdate, UpdateExtendsFile, SourceHistory

\* The sources map a step writes, before it is encoded.
WrittenSources(sources) ==
    \/ sources = Stored.sources /\ UNCHANGED <<clock, tried, setBack>> /\ update' = {}
    \/ \E running \in update :
          /\ sources = WriteHistory(Stored.sources, running.source, running.history)
          /\ tried' = [tried EXCEPT ![running.source] = running.checkedAt]
          /\ update' = {} /\ UNCHANGED <<clock, setBack>>
    \/ \E source \in Sources :
          /\ sources = WriteHistory(Stored.sources, source,
                          [HistoryOf(Stored.sources, source) EXCEPT !.lastError = clock])
          /\ tried' = [tried EXCEPT ![source] = clock]
          /\ update' = {} /\ UNCHANGED <<clock, setBack>>

\* Every step leaves the file alone or writes one of these.
LEMMA StepWrites ==
    ASSUME Inv, [Next]_vars
    PROVE  \/ file' = file /\ tried' = tried
           \/ \E sources :
                 /\ WrittenSources(sources)
                 /\ DOMAIN Stored'.sources = DOMAIN sources
                 /\ \A name \in DOMAIN sources :
                       /\ sources[name] \in SourceHistory
                       /\ Stored'.sources[name] = EncodedHistory(sources[name])
<1>1. IsRecord(Stored) /\ clock \in Time BY StoredTypes
<1>2. ASSUME NEW record, IsRecord(record), file' = Encode(record)
      PROVE  /\ DOMAIN Stored'.sources = DOMAIN record.sources
             /\ \A name \in DOMAIN record.sources :
                   /\ record.sources[name] \in SourceHistory
                   /\ Stored'.sources[name] = EncodedHistory(record.sources[name])
  <2>1. Stored' = Encode(record).record BY <1>2, EncodeProperties DEF Stored
  <2> QED BY <1>2, <2>1, EncodedSources
<1>3. CASE FinishReports
  <2>1. PICK running \in update :
          /\ file' = Encode(StoreHistory(running.record, running.source, running.history))
          /\ update' = {}
          /\ tried' = [tried EXCEPT ![running.source] = running.checkedAt]
          /\ UNCHANGED <<clock, setBack>>
    BY <1>3 DEF FinishReports
  <2> DEFINE record == StoreHistory(running.record, running.source, running.history)
  <2>2. /\ running.source \in Sources /\ running.history \in SourceHistory
        /\ running.record = Stored
    BY RunningTypes
  <2>3. IsRecord(record)
    BY <1>1, <2>2, StoreHistoryProperties DEF Inv, UpdateExtendsFile
  <2>4. record.sources = WriteHistory(Stored.sources, running.source, running.history)
    BY <1>1, <2>2, StoredSources
  <2>5. file' = Encode(record) BY <2>1
  <2> HIDE DEF record
  <2>6. WrittenSources(record.sources) BY <2>1, <2>4 DEF WrittenSources
  <2> QED BY <1>2, <2>3, <2>5, <2>6
<1>4. ASSUME NEW source \in Sources, RecordFailure(source)
      PROVE  \E sources :
                /\ WrittenSources(sources)
                /\ DOMAIN Stored'.sources = DOMAIN sources
                /\ \A name \in DOMAIN sources :
                      /\ sources[name] \in SourceHistory
                      /\ Stored'.sources[name] = EncodedHistory(sources[name])
  <2> DEFINE record == FailureRecorded(Stored, source, clock)
  <2>1. IsRecord(record) BY <1>1, FailureRecordedProperties
  <2>2. record.sources = WriteHistory(Stored.sources, source,
                            [HistoryOf(Stored.sources, source) EXCEPT !.lastError = clock])
    BY <1>1, FailureSources
  <2>3. file' = Encode(record) BY <1>4 DEF RecordFailure, Stored
  <2> HIDE DEF record
  <2>4. WrittenSources(record.sources) BY <1>4, <2>2 DEF RecordFailure, WrittenSources
  <2> QED BY <1>2, <2>1, <2>3, <2>4
<1>5. CASE Upgrade
  <2>1. file' = Encode(Stored) BY <1>5 DEF Upgrade, Stored
  <2>2. WrittenSources(Stored.sources) BY <1>5 DEF Upgrade, WrittenSources
  <2> QED BY <1>1, <1>2, <2>1, <2>2
<1>6. CASE \/ \E source \in Sources : \E reports \in Batches[source] :
                 BeginReports(source, reports)
           \/ ApplyNextReport \/ Abandon \/ Tick \/ UNCHANGED vars
  BY <1>6 DEF BeginReports, ApplyNextReport, Abandon, Tick, vars
<1> QED BY <1>3, <1>4, <1>5, <1>6 DEF Next

\* What each source's observations say after a step was stored, or in an
\* update's copy, before it.
LEMMA StoredBecomes ==
    ASSUME Inv, [Next]_vars, NEW name \in DOMAIN Stored'.sources
    PROVE  \E before \in Seq(Observation) :
              /\ SaysTheSame(before, Stored'.sources[name].observations)
              /\ \/ before = << >>
                 \/ name \in DOMAIN Stored.sources /\ before = Stored.sources[name].observations
                 \/ \E running \in update : before = running.history.observations
<1>1. CASE file' = file
  <2>1. Stored' = Stored BY <1>1 DEF Stored
  <2>2. SaysTheSame(Stored.sources[name].observations, Stored'.sources[name].observations)
    BY <2>1, StoredKeys
  <2> QED BY <2>1, <2>2, StoredTypes
<1>2. ASSUME NEW sources, WrittenSources(sources), name \in DOMAIN sources,
             sources[name] \in SourceHistory,
             Stored'.sources[name] = EncodedHistory(sources[name])
      PROVE  \E before \in Seq(Observation) :
                /\ SaysTheSame(before, Stored'.sources[name].observations)
                /\ \/ before = << >>
                   \/ name \in DOMAIN Stored.sources /\ before = Stored.sources[name].observations
                   \/ \E running \in update : before = running.history.observations
  <2> DEFINE before == sources[name].observations
  <2>1. SaysTheSame(before, Stored'.sources[name].observations)
    BY <1>2, EncodedSaysTheSame
  <2>2. before \in Seq(Observation) BY <1>2 DEF SourceHistory
  <2>3. ASSUME NEW source \in Sources, NEW history,
               sources = WriteHistory(Stored.sources, source, history)
        PROVE  \/ name \in DOMAIN Stored.sources /\ before = Stored.sources[name].observations
               \/ name = source /\ before = history.observations
    BY <1>2, <2>3 DEF WriteHistory
  <2>4. CASE sources = Stored.sources BY <1>2, <2>1, <2>2, <2>4
  <2>5. ASSUME NEW running \in update,
               sources = WriteHistory(Stored.sources, running.source, running.history)
        PROVE  \/ name \in DOMAIN Stored.sources /\ before = Stored.sources[name].observations
               \/ before = running.history.observations
    BY <2>3, <2>5, RunningTypes
  <2>6. ASSUME NEW source \in Sources,
               sources = WriteHistory(Stored.sources, source,
                            [HistoryOf(Stored.sources, source) EXCEPT !.lastError = clock])
        PROVE  \/ name \in DOMAIN Stored.sources /\ before = Stored.sources[name].observations
               \/ before = << >>
    <3> DEFINE found == HistoryOf(Stored.sources, source)
               failed == [found EXCEPT !.lastError = clock]
    <3>1. found \in SourceHistory BY StoredTypes, HistoryOfType
    <3>2. failed.observations = found.observations
      <4> HIDE DEF found
      <4> QED BY <3>1 DEF SourceHistory
    <3>3. \/ source \in DOMAIN Stored.sources
             /\ found.observations = Stored.sources[source].observations
          \/ found.observations = << >>
      BY DEF HistoryOf, NewHistory
    <3> HIDE DEF failed
    <3>4. \/ name \in DOMAIN Stored.sources /\ before = Stored.sources[name].observations
          \/ name = source /\ before = failed.observations
      BY <2>3, <2>6 DEF failed
    <3> QED BY <3>2, <3>3, <3>4
  <2> HIDE DEF before
  <2> QED BY <1>2, <2>1, <2>2, <2>4, <2>5, <2>6 DEF WrittenSources
<1> QED BY <1>1, <1>2, StepWrites

\* An update in progress after a step began with it, went through one
\* iteration of the loop, or was there before.
LEMMA UpdateBecomes ==
    ASSUME Inv, [Next]_vars, NEW next \in update'
    PROVE  /\ UNCHANGED <<file, clock, tried, setBack>>
           /\ \/ next \in update
              \/ /\ next.source \in Sources /\ next.checkedAt = clock
                 /\ next.history = Answered(HistoryOf(Stored.sources, next.source), clock)
              \/ \E running \in update, report \in Report :
                    /\ next.checkedAt = running.checkedAt
                    /\ next.history.lastChecked = running.history.lastChecked
                    /\ next.history.lastError = running.history.lastError
                    /\ next.history.observations
                          = ApplyReport(running.history.observations, report,
                                        running.checkedAt)
<1>1. ASSUME NEW source \in Sources, NEW reports \in Batches[source],
             BeginReports(source, reports)
      PROVE  /\ UNCHANGED <<file, clock, tried, setBack>>
             /\ next.source \in Sources /\ next.checkedAt = clock
             /\ next.history = Answered(HistoryOf(Stored.sources, next.source), clock)
  BY <1>1 DEF BeginReports, Stored
<1>2. ASSUME ApplyNextReport
      PROVE  /\ UNCHANGED <<file, clock, tried, setBack>>
             /\ \E running \in update, report \in Report :
                   /\ next.checkedAt = running.checkedAt
                   /\ next.history.lastChecked = running.history.lastChecked
                   /\ next.history.lastError = running.history.lastError
                   /\ next.history.observations
                         = ApplyReport(running.history.observations, report,
                                       running.checkedAt)
  <2>1. PICK running \in update :
          /\ running.applied < Len(running.reports)
          /\ update' = {[running EXCEPT
                !.applied = running.applied + 1,
                !.history.observations =
                    ApplyReport(running.history.observations,
                                running.reports[running.applied + 1],
                                running.checkedAt)]}
          /\ UNCHANGED <<file, clock, tried, setBack>>
    BY <1>2 DEF ApplyNextReport
  <2> DEFINE report == running.reports[running.applied + 1]
             after == ApplyReport(running.history.observations, report, running.checkedAt)
             history == [running.history EXCEPT !.observations = after]
             applied == [running EXCEPT !.applied = running.applied + 1, !.history = history]
  <2>2. IsUpdate(running) BY DEF Inv, TypeOK
  <2>3. /\ running.history \in SourceHistory /\ running.applied \in Nat
        /\ running.source \in Sources /\ running.reports \in Batches[running.source]
    BY <2>2 DEF IsUpdate
  <2>4. running.reports \in Seq(Report) /\ Len(running.reports) \in Nat
    BY <2>3, HistoryAssumption, LenProperties
  <2>5. report \in Report BY <2>1, <2>3, <2>4, ElementOfSeq
  <2>6. next = applied BY <2>1
  <2> HIDE DEF after, report
  <2>7. /\ history.observations = after /\ history.lastChecked = running.history.lastChecked
        /\ history.lastError = running.history.lastError
    BY <2>3 DEF SourceHistory
  <2> HIDE DEF history
  <2>8. applied.history = history /\ applied.checkedAt = running.checkedAt
    BY <2>2 DEF IsUpdate
  <2> HIDE DEF applied
  <2> QED BY <2>1, <2>5, <2>6, <2>7, <2>8 DEF after
<1>3. CASE FinishReports \/ Abandon BY <1>3 DEF FinishReports, Abandon
<1>4. ASSUME NEW source \in Sources, RecordFailure(source) PROVE FALSE
  BY <1>4 DEF RecordFailure
<1>5. CASE Upgrade BY <1>5 DEF Upgrade
<1>6. CASE Tick BY <1>6 DEF Tick
<1>7. CASE UNCHANGED vars BY <1>7 DEF vars
<1> QED BY <1>1, <1>2, <1>3, <1>4, <1>5, <1>6, <1>7 DEF Next

-----------------------------------------------------------------------------
(* When each source was last tried *)

\* An update is stamped with the moment it began at, which is still now; and as
\* long as the clock only moves on, nothing stored or about to be stored is
\* later than now, and the record knows the last attempt of every source.
Timely ==
    /\ \A running \in update :
          /\ running.checkedAt = clock
          /\ running.history.lastChecked = clock
          /\ running.history.lastError = ZeroTime
    /\ ~setBack =>
          /\ tried = TriedSince(Stored)
          /\ \A source \in Sources : tried[source] <= clock
          /\ \A name \in DOMAIN Stored.sources :
                EndedBy(Stored.sources[name].observations, clock)
          /\ \A running \in update : EndedBy(running.history.observations, clock)

LEMMA InitIsTimely == Init => Timely
<1> SUFFICES ASSUME Init PROVE Timely OBVIOUS
<1>1. Inv BY InitEstablishesInv
<1>2. tried = TriedSince(Stored) /\ update = {} BY DEF Init, Stored
<1>3. \A source \in Sources : tried[source] <= clock BY DEF Init
<1>4. ASSUME NEW name \in DOMAIN Stored.sources
      PROVE  EndedBy(Stored.sources[name].observations, clock)
  <2> DEFINE history == Stored.sources[name]
  <2>1. /\ name \in Sources /\ history \in SourceHistory /\ clock \in Nat
    BY <1>1, StoredTypes, RecordAssumption DEF Time
  <2>2. tried[name] = LastAttempt(Stored, name) BY <1>2, <2>1 DEF TriedSince
  <2>3. history.lastChecked \in Nat /\ history.lastError \in Nat
    BY <2>1, RecordAssumption DEF SourceHistory, Moment
  <2>4. history.lastChecked <= clock
    BY <1>3, <2>1, <2>2, <2>3 DEF LastAttempt
  <2>5. EndedBy(history.observations, history.lastChecked)
    <3>1. CASE file = NoFile
      <4>1. Stored = EmptyRecord BY <3>1 DEF Stored, Decode, NoFile
      <4>2. DOMAIN EmptyRecord.sources = {} BY DEF EmptyRecord
      <4> QED BY <4>1, <4>2
    <3>2. ASSUME NEW payload \in LegacyPayloads, file = LegacyFile(payload)
          PROVE  EndedBy(history.observations, history.lastChecked)
      <4> DEFINE sources == [source \in DOMAIN payload |-> MigratedHistory(payload[source])]
                 record == [EmptyRecord EXCEPT !.sources = sources]
      <4>1. Stored = MigrateLegacyPayload(payload)
        BY <3>2 DEF Stored, Decode, LegacyFile
      <4>2. IsLegacyPayload(payload) BY HistoryAssumption
      <4>3. IsSourcesMap(sources)
        BY <4>2, MigratedHistoryType DEF IsSourcesMap, IsLegacyPayload
      <4>4. MigrateLegacyPayload(payload) = Summarise(record) BY DEF MigrateLegacyPayload
      <4> HIDE DEF sources
      <4>5. IsRecord(record) /\ record.sources = sources
        BY <4>3, RecordAssumption DEF EmptyRecord, IsRecord, Moment, ZeroTime
      <4> HIDE DEF record
      <4>6. Stored.sources = sources BY <4>1, <4>4, <4>5, SummariseProperties
      <4>7. name \in DOMAIN payload /\ history = MigratedHistory(payload[name])
        BY <4>6 DEF sources
      <4>8. payload[name] \in Seq(LegacyResult) /\ payload[name] # << >>
        BY <4>2, <4>7 DEF IsLegacyPayload
      <4> HIDE DEF history
      <4> QED BY <4>7, <4>8, MigratedEnds
    <3> QED BY <3>1, <3>2 DEF Init
  <2>6. \A index \in DOMAIN history.observations :
           history.observations[index].lastObserved \in Nat
    BY <2>1, LenProperties, ElementOfSeq, ObservationTimes DEF SourceHistory
  <2> HIDE DEF history
  <2>7. EndedBy(history.observations, clock)
    BY <2>1, <2>3, <2>4, <2>5, <2>6 DEF EndedBy
  <2> QED BY <2>7 DEF history
<1> QED BY <1>2, <1>3, <1>4 DEF Timely

LEMMA ClockOnlyMovesOn ==
    ASSUME Inv, [Next]_vars, ~setBack'
    PROVE  ~setBack /\ clock <= clock'
<1>1. clock \in Nat BY StoredTypes, RecordAssumption DEF Time
<1>2. CASE Tick
  <2>1. clock' \in Nat /\ clock' # clock /\ setBack' = (setBack \/ clock' < clock)
    BY <1>2, RecordAssumption DEF Tick, Time
  <2>2. ~setBack /\ ~(clock' < clock) BY <2>1, Zenon
  <2>3. clock <= clock' BY <1>1, <2>1, <2>2
  <2> QED BY <2>2, <2>3
<1>3. CASE UNCHANGED <<clock, setBack>> BY <1>1, <1>3
<1>4. UNCHANGED <<clock, setBack>> \/ Tick
  BY DEF Next, BeginReports, ApplyNextReport, FinishReports, RecordFailure, Upgrade,
         Abandon, vars
<1> QED BY <1>2, <1>3, <1>4

\* The histories written by a step know the attempt it stores.
LEMMA AttemptsStayKnown ==
    ASSUME Inv, Timely, [Next]_vars, ~setBack'
    PROVE  /\ tried' = TriedSince(Stored')
           /\ \A source \in Sources : tried'[source] <= clock'
<1>1. /\ ~setBack /\ clock <= clock' /\ clock \in Nat /\ clock' \in Nat
      /\ tried \in [Sources -> Moment]
  <2>1. Inv' BY StepPreservesInv
  <2> QED BY <2>1, ClockOnlyMovesOn, RecordAssumption DEF Inv, TypeOK, Time
<1>2. /\ tried = TriedSince(Stored)
      /\ \A source \in Sources : tried[source] <= clock
      /\ \A source \in Sources : tried[source] \in Nat
  BY <1>1, RecordAssumption DEF Timely, Moment
<1>3. CASE file' = file /\ tried' = tried
  <2>1. Stored' = Stored BY <1>3 DEF Stored
  <2>2. TriedSince(Stored') = TriedSince(Stored) BY <2>1 DEF TriedSince
  <2> QED BY <1>1, <1>2, <1>3, <2>2
<1>4. ASSUME NEW sources, WrittenSources(sources),
             DOMAIN Stored'.sources = DOMAIN sources,
             \A name \in DOMAIN sources :
                /\ sources[name] \in SourceHistory
                /\ Stored'.sources[name] = EncodedHistory(sources[name])
      PROVE  /\ tried' = TriedSince(Stored')
             /\ \A source \in Sources : tried'[source] <= clock'
  <2> DEFINE Attempt(history) ==
               IF history.lastError > history.lastChecked THEN history.lastError
               ELSE history.lastChecked
  <2>1. \A name \in DOMAIN sources : LastAttempt(Stored', name) = Attempt(sources[name])
    BY <1>4, EncodedHistoryProperties DEF LastAttempt
  <2>2. TriedSince(Stored') = [source \in Sources |->
            IF source \in DOMAIN sources THEN Attempt(sources[source]) ELSE ZeroTime]
    BY <1>4, <2>1 DEF TriedSince
  <2>3. tried = [source \in Sources |->
            IF source \in DOMAIN Stored.sources THEN Attempt(Stored.sources[source])
            ELSE ZeroTime]
    BY <1>2 DEF TriedSince, LastAttempt
  <2>4. ASSUME NEW source \in Sources, NEW history, Attempt(history) = clock,
               sources = WriteHistory(Stored.sources, source, history),
               tried' = [tried EXCEPT ![source] = clock], clock' = clock
        PROVE  /\ tried' = TriedSince(Stored')
               /\ \A other \in Sources : tried'[other] <= clock'
    <3>1. tried' = [other \in Sources |-> IF other = source THEN clock ELSE tried[other]]
      BY <1>1, <2>4
    <3>2. \A other \in Sources : tried'[other] <= clock' BY <1>1, <1>2, <2>4, <3>1
    <3>3. ASSUME NEW other \in Sources
          PROVE  (IF other \in DOMAIN sources THEN Attempt(sources[other]) ELSE ZeroTime)
                    = IF other = source THEN clock ELSE tried[other]
      <4> HIDE DEF Attempt
      <4> QED BY <2>3, <2>4 DEF WriteHistory
    <3> HIDE DEF Attempt
    <3> QED BY <2>2, <3>1, <3>2, <3>3
  <2>5. CASE sources = Stored.sources /\ UNCHANGED <<clock, tried, setBack>>
    <3> HIDE DEF Attempt
    <3> QED BY <1>1, <1>2, <2>2, <2>3, <2>5
  <2>6. ASSUME NEW running \in update,
               sources = WriteHistory(Stored.sources, running.source, running.history),
               tried' = [tried EXCEPT ![running.source] = running.checkedAt],
               clock' = clock
        PROVE  /\ tried' = TriedSince(Stored')
               /\ \A source \in Sources : tried'[source] <= clock'
    <3>1. running.checkedAt = clock /\ Attempt(running.history) = clock
      BY <1>1 DEF Timely, ZeroTime
    <3> HIDE DEF Attempt
    <3> QED BY <2>4, <2>6, <3>1, RunningTypes
  <2>7. ASSUME NEW source \in Sources,
               sources = WriteHistory(Stored.sources, source,
                            [HistoryOf(Stored.sources, source) EXCEPT !.lastError = clock]),
               tried' = [tried EXCEPT ![source] = clock], clock' = clock
        PROVE  /\ tried' = TriedSince(Stored')
               /\ \A other \in Sources : tried'[other] <= clock'
    <3> DEFINE found == HistoryOf(Stored.sources, source)
               failed == [found EXCEPT !.lastError = clock]
    <3>1. found \in SourceHistory BY StoredTypes, HistoryOfType
    <3>2. found.lastChecked \in Nat /\ found.lastError \in Nat
      <4> HIDE DEF found
      <4> QED BY <3>1, RecordAssumption DEF SourceHistory, Moment
    <3>3. found.lastChecked <= clock
      <4>1. CASE source \in DOMAIN Stored.sources
        <5>1. found = Stored.sources[source] BY <4>1 DEF HistoryOf
        <5>2. tried[source] = Attempt(found) BY <2>3, <4>1, <5>1
        <5> HIDE DEF found
        <5> QED BY <1>1, <1>2, <3>2, <5>2
      <4>2. CASE source \notin DOMAIN Stored.sources
        BY <1>1, <4>2 DEF HistoryOf, NewHistory, ZeroTime
      <4> QED BY <4>1, <4>2
    <3>4. failed.lastError = clock /\ failed.lastChecked = found.lastChecked
      <4> HIDE DEF found
      <4> QED BY <3>1 DEF SourceHistory
    <3>5. sources = WriteHistory(Stored.sources, source, failed) BY <2>7
    <3> HIDE DEF failed, found
    <3>6. Attempt(failed) = clock BY <1>1, <3>2, <3>3, <3>4
    <3> HIDE DEF Attempt
    <3> QED BY <2>4, <2>7, <3>5, <3>6
  <2> HIDE DEF Attempt
  <2> QED BY <1>4, <2>5, <2>6, <2>7 DEF WrittenSources
<1> QED BY <1>3, <1>4, StepWrites

LEMMA StepStaysTimely ==
    ASSUME Inv, Timely, [Next]_vars
    PROVE  Timely'
<1>1. clock \in Time BY StoredTypes
<1>2. ASSUME NEW next \in update'
      PROVE  /\ next.checkedAt = clock' /\ next.history.lastChecked = clock'
             /\ next.history.lastError = ZeroTime
             /\ ~setBack' => EndedBy(next.history.observations, clock')
  <2>1. UNCHANGED <<file, clock, tried, setBack>> BY UpdateBecomes
  <2>2. CASE next \in update BY <2>1, <2>2 DEF Timely
  <2>3. CASE /\ next.source \in Sources /\ next.checkedAt = clock
             /\ next.history = Answered(HistoryOf(Stored.sources, next.source), clock)
    <3> DEFINE found == HistoryOf(Stored.sources, next.source)
    <3>1. found \in SourceHistory BY <2>3, StoredTypes, HistoryOfType
    <3>2. /\ next.history.lastChecked = clock /\ next.history.lastError = ZeroTime
          /\ next.history.observations = found.observations
      <4> HIDE DEF found
      <4> QED BY <2>3, <3>1 DEF Answered, SourceHistory, found
    <3>3. \/ next.source \in DOMAIN Stored.sources
             /\ found.observations = Stored.sources[next.source].observations
          \/ found.observations = << >>
      BY DEF HistoryOf, NewHistory
    <3> HIDE DEF found
    <3>4. ~setBack => EndedBy(next.history.observations, clock)
      BY <3>2, <3>3, EmptyObservations DEF Timely
    <3> QED BY <2>1, <2>3, <3>2, <3>4
  <2>4. ASSUME NEW running \in update, NEW report \in Report,
               next.checkedAt = running.checkedAt,
               next.history.lastChecked = running.history.lastChecked,
               next.history.lastError = running.history.lastError,
               next.history.observations
                  = ApplyReport(running.history.observations, report, running.checkedAt)
        PROVE  /\ next.checkedAt = clock /\ next.history.lastChecked = clock
               /\ next.history.lastError = ZeroTime
               /\ ~setBack => EndedBy(next.history.observations, clock)
    <3>1. running.checkedAt = clock BY DEF Timely
    <3>2. running.history.observations \in Seq(Observation) BY RunningTypes
    <3>3. ~setBack => EndedBy(next.history.observations, clock)
      BY <1>1, <2>4, <3>1, <3>2, ApplyReportInOrder DEF Timely
    <3> QED BY <2>4, <3>1, <3>3 DEF Timely
  <2> QED BY <2>1, <2>2, <2>3, <2>4, UpdateBecomes
<1>3. ASSUME ~setBack', NEW name \in DOMAIN Stored'.sources
      PROVE  EndedBy(Stored'.sources[name].observations, clock')
  <2>1. ~setBack /\ clock <= clock' /\ clock \in Nat /\ clock' \in Nat
    <3>1. Inv' BY StepPreservesInv
    <3> QED BY <1>3, <3>1, ClockOnlyMovesOn, RecordAssumption DEF Inv, TypeOK, Time
  <2>2. PICK before \in Seq(Observation) :
           /\ SaysTheSame(before, Stored'.sources[name].observations)
           /\ \/ before = << >>
              \/ name \in DOMAIN Stored.sources /\ before = Stored.sources[name].observations
              \/ \E running \in update : before = running.history.observations
    BY <1>3, StoredBecomes
  <2>3. EndedBy(before, clock)
    BY <2>1, <2>2, EmptyObservations DEF Timely
  <2>4. \A index \in DOMAIN before : before[index].lastObserved \in Nat
    BY LenProperties, ElementOfSeq, ObservationTimes
  <2>5. EndedBy(before, clock') BY <2>1, <2>3, <2>4 DEF EndedBy
  <2> QED BY <2>2, <2>5, SayingTheSame
<1> QED BY <1>2, <1>3, AttemptsStayKnown DEF Timely

\* The record always says when each source was last tried, whichever of its
\* answers and errors came last and whatever updates were lost, as long as the
\* clock is not set back.
THEOREM LastAttemptKnown == Spec => []LastAttemptIsLatest
<1>1. Inv /\ Timely /\ [Next]_vars => Timely' BY StepStaysTimely
<1>2. Timely => LastAttemptIsLatest BY DEF Timely, LastAttemptIsLatest
<1> QED BY InitIsTimely, <1>1, <1>2, Invariance, PTL DEF Spec

-----------------------------------------------------------------------------
(* What the observations say of each other *)

\* What is stored, and what an update has made of it so far, is in order, and
\* what an update holds under an invalid key is its own.
Ordered ==
    ~setBack =>
        /\ \A name \in DOMAIN Stored.sources : InOrder(Stored.sources[name].observations)
        /\ \A running \in update :
              /\ InOrder(running.history.observations)
              /\ AddedSinceInvalid(running.history.observations, running.checkedAt)

\* And repeats nothing.
Distinct ==
    /\ \A name \in DOMAIN Stored.sources : NoRepetition(Stored.sources[name].observations)
    /\ \A running \in update : NoRepetition(running.history.observations)

LEMMA StepStaysOrdered ==
    ASSUME Inv, Timely, Ordered, [Next]_vars
    PROVE  Ordered'
<1>1. clock \in Time BY StoredTypes
<1>2. ASSUME ~setBack', NEW next \in update'
      PROVE  /\ InOrder(next.history.observations)
             /\ AddedSinceInvalid(next.history.observations, next.checkedAt)
  <2>1. ~setBack BY <1>2, ClockOnlyMovesOn
  <2>2. CASE next \in update BY <2>1, <2>2 DEF Ordered
  <2>3. CASE /\ next.source \in Sources
             /\ next.history = Answered(HistoryOf(Stored.sources, next.source), clock)
    <3>1. HistoryOf(Stored.sources, next.source) \in SourceHistory
      BY <2>3, StoredTypes, HistoryOfType
    <3>2. next.history.observations = HistoryOf(Stored.sources, next.source).observations
      BY <1>1, <2>3, <3>1, AnsweredProperties
    <3>3. \/ /\ next.source \in DOMAIN Stored.sources
             /\ next.history.observations = Stored.sources[next.source].observations
          \/ next.history.observations = << >>
      BY <3>2 DEF HistoryOf, NewHistory
    <3>4. AddedSinceInvalid(next.history.observations, next.checkedAt)
      BY <3>3, StoredKeys, EmptyObservations
    <3> QED BY <2>1, <3>3, <3>4, EmptyObservations DEF Ordered
  <2>4. ASSUME NEW running \in update, NEW report \in Report,
               next.checkedAt = running.checkedAt,
               next.history.observations
                  = ApplyReport(running.history.observations, report, running.checkedAt)
        PROVE  /\ InOrder(next.history.observations)
               /\ AddedSinceInvalid(next.history.observations, next.checkedAt)
    <3>1. running.checkedAt = clock /\ EndedBy(running.history.observations, clock)
      BY <2>1 DEF Timely
    <3>2. running.history.observations \in Seq(Observation) BY RunningTypes
    <3>3. /\ InOrder(running.history.observations)
          /\ AddedSinceInvalid(running.history.observations, clock)
      BY <2>1, <3>1 DEF Ordered
    <3> QED BY <1>1, <2>4, <3>1, <3>2, <3>3, ApplyReportInOrder, ApplyReportAddsNow
  <2> QED BY <1>2, <2>2, <2>3, <2>4, UpdateBecomes
<1>3. ASSUME ~setBack', NEW name \in DOMAIN Stored'.sources
      PROVE  InOrder(Stored'.sources[name].observations)
  <2>1. ~setBack BY <1>3, ClockOnlyMovesOn
  <2>2. PICK before \in Seq(Observation) :
           /\ SaysTheSame(before, Stored'.sources[name].observations)
           /\ \/ before = << >>
              \/ name \in DOMAIN Stored.sources /\ before = Stored.sources[name].observations
              \/ \E running \in update : before = running.history.observations
    BY <1>3, StoredBecomes
  <2>3. InOrder(before) BY <2>1, <2>2, EmptyObservations DEF Ordered
  <2> QED BY <2>2, <2>3, SayingTheSame
<1> QED BY <1>2, <1>3 DEF Ordered

LEMMA StepStaysDistinct ==
    ASSUME Inv, Distinct, [Next]_vars
    PROVE  Distinct'
<1>1. clock \in Time BY StoredTypes
<1>2. ASSUME NEW next \in update' PROVE NoRepetition(next.history.observations)
  <2>1. CASE next \in update BY <2>1 DEF Distinct
  <2>2. CASE /\ next.source \in Sources
             /\ next.history = Answered(HistoryOf(Stored.sources, next.source), clock)
    <3>1. HistoryOf(Stored.sources, next.source) \in SourceHistory
      BY <2>2, StoredTypes, HistoryOfType
    <3>2. next.history.observations = HistoryOf(Stored.sources, next.source).observations
      BY <1>1, <2>2, <3>1, AnsweredProperties
    <3>3. \/ /\ next.source \in DOMAIN Stored.sources
             /\ next.history.observations = Stored.sources[next.source].observations
          \/ next.history.observations = << >>
      BY <3>2 DEF HistoryOf, NewHistory
    <3> QED BY <3>3, EmptyObservations DEF Distinct
  <2>3. ASSUME NEW running \in update, NEW report \in Report,
               next.history.observations
                  = ApplyReport(running.history.observations, report, running.checkedAt)
        PROVE  NoRepetition(next.history.observations)
    BY <2>3, RunningTypes, ApplyReportAddsNoRepetition DEF Distinct
  <2> QED BY <1>2, <2>1, <2>2, <2>3, UpdateBecomes
<1>3. ASSUME NEW name \in DOMAIN Stored'.sources
      PROVE  NoRepetition(Stored'.sources[name].observations)
  <2>1. PICK before \in Seq(Observation) :
           /\ SaysTheSame(before, Stored'.sources[name].observations)
           /\ \/ before = << >>
              \/ name \in DOMAIN Stored.sources /\ before = Stored.sources[name].observations
              \/ \E running \in update : before = running.history.observations
    BY <1>3, StoredBecomes
  <2>2. NoRepetition(before) BY <2>1, EmptyObservations DEF Distinct
  <2> QED BY <2>1, <2>2, SayingTheSame
<1> QED BY <1>2, <1>3 DEF Distinct

\* The properties of the runs, in terms of the names of the sources.
LEMMA HistoriesByName ==
    /\ NoRepeatedObservation <=>
          \A name \in DOMAIN Stored.sources : NoRepetition(Stored.sources[name].observations)
    /\ Inv => (PeriodsInOrder <=>
          (~setBack => \A name \in DOMAIN Stored.sources :
                          InOrder(Stored.sources[name].observations)))
<1>1. NoRepeatedObservation <=>
         \A history \in Range(Stored.sources) : NoRepetition(history.observations)
  BY DEF NoRepeatedObservation, HistoriesOf, NoRepetition
<1>2. NoRepeatedObservation <=>
         \A name \in DOMAIN Stored.sources : NoRepetition(Stored.sources[name].observations)
  BY <1>1 DEF Range
<1>3. ASSUME Inv, NEW name \in DOMAIN Stored.sources
      PROVE  LET observations == Stored.sources[name].observations IN
             InOrder(observations) <=>
                \A first, second \in DOMAIN observations :
                   (first < second /\ observations[first].key = observations[second].key)
                   => observations[first].lastObserved <= observations[second].firstObserved
  BY <1>3, StoredKeys DEF InOrder
<1>4. Inv => (PeriodsInOrder <=>
         (~setBack => \A name \in DOMAIN Stored.sources :
                         InOrder(Stored.sources[name].observations)))
  BY <1>3 DEF PeriodsInOrder, HistoriesOf, Range
<1> QED BY <1>2, <1>4

\* Whatever the sources report under a key that no invalid one is encoded as: a record's
\* history never gains a repetition of it, and one that the dataset did not start with in
\* its version 1 files, which can say anything, is never there.
THEOREM NothingIsRepeated == Spec /\ NoRepeatedObservation => []NoRepeatedObservation
<1>1. Init /\ NoRepeatedObservation => Distinct
  BY HistoriesByName DEF Init, Distinct
<1>2. Inv /\ Distinct /\ [Next]_vars => Distinct' BY StepStaysDistinct
<1>3. Distinct => NoRepeatedObservation BY HistoriesByName DEF Distinct
<1> QED BY <1>1, <1>2, <1>3, Invariance, PTL DEF Spec

\* Nor do its periods get out of order, those under such a key included, unless the
\* clock was set back or those of the version 1 files were not in order to begin with.
THEOREM PeriodsStayInOrder == Spec /\ PeriodsInOrder => []PeriodsInOrder
<1>1. Init /\ Inv /\ PeriodsInOrder => Ordered
  BY HistoriesByName DEF Init, Ordered
<1>2. Inv /\ Timely /\ Ordered /\ [Next]_vars => Ordered' BY StepStaysOrdered
<1>3. Inv /\ Timely /\ [Next]_vars => Timely' BY StepStaysTimely
<1>4. Inv /\ Ordered => PeriodsInOrder BY HistoriesByName DEF Ordered
<1> QED BY InitIsTimely, <1>1, <1>2, <1>3, <1>4, Invariance, PTL DEF Spec
=============================================================================
