-------------------------- MODULE AggregatorProofs --------------------------
(***************************************************************************)
(* Proofs about Aggregator, for any sources, schedules, datasets, answers, *)
(* number of addresses and runs: what a step does to the attempts the      *)
(* files keep, that the index stays true of the lookups to come, and what  *)
(* follows for the quota, for cancelled runs and for runs without errors.  *)
(***************************************************************************)
EXTENDS Aggregator, RecordProofs

Stages == {"idle", "feeds", "sightings", "indexing", "enrichers", "lookups", "ended"}

\* A file the store can find: readable, or of another version.
IsStored(file) == file = UnreadableFile \/ IsFile(file)

\* The addresses an enricher or a loop has still to get to, the one it is at included.
ToCome == left \cup {visited.address : visited \in pending}

Logs == [startedAt : Time, reached : SUBSET Sources,
         duties : SUBSET (Sources \X Addresses), late : SUBSET Sources,
         afterCancel : Nat, outcomes : Seq(Outcomes)]

TypeOK ==
    /\ setup \in Setups
    /\ DOMAIN files = Addresses /\ \A address \in Addresses : IsStored(files[address])
    /\ clock \in 1..setup.lastMoment
    /\ stage \in Stages
    /\ position \in Nat \ {0}
    /\ left \subseteq Addresses
    /\ pending \subseteq [address : Addresses, outcome : Outcomes]
    /\ \A visited \in pending : pending = {visited} /\ visited.address \notin left
    /\ inARow \in Nat
    /\ log \in Logs /\ log.startedAt <= clock

\* The place a run is at: only the loops have an address they are at, and those
\* over sightings and lookups belong to a feed and to an enricher.
AtPlace ==
    /\ pending # {} => stage \in {"sightings", "indexing", "lookups"}
    /\ stage = "sightings" =>
          position \in DOMAIN Feeds /\ stamp \in Time /\ log.startedAt <= stamp
    /\ stage = "lookups" => position \in DOMAIN Enrichers

\* No file is replaced before the run is cancelled and counted, and a loop gets
\* to no further address after that.
WriteCounted ==
    /\ ~cancelled => log.afterCancel = 0
    /\ pending # {} => log.afterCancel = 0
    /\ AtMostOneWriteAfterCancel

\* The outcomes whose lookup was stored: all, but for that of the pending one.
Stored == IF pending = {} THEN Len(log.outcomes) ELSE Len(log.outcomes) - 1

Failed(from, to) == {index \in from..to : log.outcomes[index] = "failed"}

\* Up to one of the outcomes, none is a stopping error, and the failed ones since
\* the last answer are no more than count.
CountedUpTo(to, count) ==
    \A from \in 1..to :
        /\ log.outcomes[from] # "stopping"
        /\ (\A index \in from..to : log.outcomes[index] # "answered") =>
              Cardinality(Failed(from, to)) <= count

\* inARow counts the failed lookups since the last answer, and an enricher that
\* goes on has had no stopping error, and fewer of them than the limit.
FailuresCounted ==
    /\ stage # "lookups" => inARow = 0
    /\ stage = "lookups" =>
          /\ \A visited \in pending :
                log.outcomes # << >> /\ log.outcomes[Len(log.outcomes)] = visited.outcome
          /\ inARow < MaxConsecutiveLookupFailures
          /\ CountedUpTo(Stored, inARow)

\* The index says of an address what its file does, from its entry on, and has
\* only addresses whose files are in the current format.
EntriesTrue ==
    /\ stage \in {"feeds", "sightings"} => DOMAIN entries = {}
    /\ stage \in {"indexing", "enrichers", "lookups"} =>
          /\ DOMAIN entries \subseteq Addresses
          /\ \A address \in DOMAIN entries :
                /\ files[address].version = 2
                /\ entries[address].firstSeen \in Nat
                /\ \A name \in Sources : AttemptOf(entries[address], name) \in Nat
    /\ stage = "indexing" =>
          \A address \in DOMAIN entries, name \in Sources :
             AttemptOf(entries[address], name) = AttemptAt(files[address], name)

\* An address still to be looked up has an entry, and its file's last attempt of
\* the enricher is as old as the schedule asks, at the lookup too.
DueStillDue ==
    stage = "lookups" => \A address \in ToCome :
        /\ address \in DOMAIN entries
        /\ \/ AttemptAt(files[address], Enricher) = ZeroTime
           \/ AttemptAt(files[address], Enricher) + Limits[Enricher].refreshAfter <= clock

\* What SilenceMeansDone says of a duty at the end of a run.
IsDone(duty) ==
    \/ duty[1] \in failures \cup log.late
    \/ AttemptAt(files[duty[2]], duty[1]) >= log.startedAt

\* A duty is done, or still to come, or its source failed or ran out of time.
DutiesDone ==
    \A duty \in log.duties :
        \/ IsDone(duty)
        \/ stage = "sightings" /\ duty[1] = Feed /\ duty[2] \in ToCome
        \/ stage = "lookups" /\ duty[1] = Enricher /\ duty[2] \in ToCome

\* The names up to the last given place.
UpTo(names, last) == {names[index] : index \in {i \in DOMAIN names : i <= last}}

\* A run gets to its sources in order, unless it is cancelled between two.
ReachedInOrder ==
    /\ stage = "feeds" => log.reached = UpTo(Feeds, position - 1)
    /\ stage = "sightings" => log.reached = UpTo(Feeds, position)
    /\ stage = "indexing" => log.reached = FeedNames
    /\ stage = "enrichers" => log.reached = FeedNames \cup UpTo(Enrichers, position - 1)
    /\ stage = "lookups" => log.reached = FeedNames \cup UpTo(Enrichers, position)
    /\ stage = "ended" =>
          "cancelled" \in failures \/ log.reached = FeedNames \cup EnricherNames

\* Every file is rewritten in the current format and indexed, or still to come,
\* unless the run says that the index failed or that it was cancelled before that.
FilesIndexed ==
    failures \cap {"index", "cancelled"} = {} =>
        /\ stage = "indexing" => \A address \in Addresses :
              files[address].version = 0 \/ address \in ToCome \cup DOMAIN entries
        /\ stage \in {"enrichers", "lookups"} => \A address \in Addresses :
              files[address].version = 0 \/ address \in DOMAIN entries
        /\ stage \in {"indexing", "enrichers", "lookups", "ended"} =>
              \A address \in Addresses :
                 \/ files[address].version \in {0, 2}
                 \/ stage = "indexing" /\ address \in ToCome

DutiesOf(name) == {address \in Addresses : <<name, address>> \in log.duties}

\* An enricher that was got to was given all its lookups, or every address it
\* never tried.
LookupsUsed ==
    stage \in {"enrichers", "lookups", "ended"} /\ failures \cap {"index", "cancelled"} = {} =>
        \A name \in EnricherNames \cap log.reached :
            \/ Cardinality(DutiesOf(name)) >= Limits[name].maxLookups
            \/ \A address \in Addresses :
                  \/ files[address].version = 0
                  \/ AttemptAt(files[address], name) # ZeroTime
                  \/ <<name, address>> \in log.duties

-----------------------------------------------------------------------------
(* What records and files say of attempts *)

\* When a source last tried the address of a record; 0 for never.
AttemptIn(record, source) ==
    IF WasAttempted(record, source) THEN LastAttempt(record, source) ELSE ZeroTime

\* An attempt is a moment.
LEMMA AttemptInType ==
    ASSUME NEW record, IsRecord(record), NEW source
    PROVE  AttemptIn(record, source) \in Moment
<1>1. ZeroTime \in Moment BY RecordAssumption DEF ZeroTime, Moment
<1>2. CASE source \in DOMAIN record.sources
  <2>1. record.sources[source] \in SourceHistory BY <1>2 DEF IsRecord, IsSourcesMap
  <2>2. /\ record.sources[source].lastChecked \in Moment
        /\ record.sources[source].lastError \in Moment
    BY <2>1 DEF SourceHistory
  <2> QED BY <1>1, <2>2 DEF AttemptIn, LastAttempt
<1> QED BY <1>1, <1>2 DEF AttemptIn, WasAttempted

\* What Decode makes of a readable file says when each source last tried.
LEMMA StoredFile ==
    ASSUME NEW file, IsStored(file)
    PROVE  /\ \A source : AttemptAt(file, source) \in Moment
           /\ file.version \in {0, 1, 2, 3}
           /\ file.version = 0 <=> file = NoFile
           /\ IsReadable(file) <=> file.version # 3
           /\ IsReadable(file) =>
                 /\ IsRecord(Decode(file))
                 /\ \A source : AttemptAt(file, source) = AttemptIn(Decode(file), source)
           /\ file.version = 0 => \A source : AttemptAt(file, source) = ZeroTime
<1>1. CASE file = UnreadableFile
  <2>1. file.version = 3 BY <1>1 DEF UnreadableFile
  <2>2. ~IsReadable(file) BY <2>1 DEF IsReadable
  <2>3. \A source : AttemptAt(file, source) = ZeroTime BY <2>2 DEF AttemptAt
  <2>4. file # NoFile BY <2>1 DEF NoFile
  <2>5. ZeroTime \in Moment BY RecordAssumption DEF ZeroTime, Moment
  <2> QED BY <2>1, <2>2, <2>3, <2>4, <2>5
<1>2. CASE IsFile(file)
  <2>1. file.version \in 0..2 /\ (file.version = 0 <=> file = NoFile)
    BY <1>2 DEF IsFile, NoFile
  <2>2. IsReadable(file) BY <2>1 DEF IsReadable
  <2>3. IsRecord(Decode(file)) BY <1>2, DecodeProperties
  <2>4. \A source : AttemptAt(file, source) = AttemptIn(Decode(file), source)
    BY <2>2 DEF AttemptAt, AttemptIn
  <2>5. ASSUME file.version = 0, NEW source PROVE AttemptIn(Decode(file), source) = ZeroTime
    <3>1. Decode(file) = EmptyRecord BY <2>5 DEF Decode
    <3>2. source \notin DOMAIN EmptyRecord.sources BY DEF EmptyRecord
    <3> QED BY <3>1, <3>2 DEF AttemptIn, WasAttempted
  <2> QED BY <2>1, <2>2, <2>3, <2>4, <2>5, AttemptInType
<1> QED BY <1>1, <1>2 DEF IsStored

\* Encoding a record keeps the attempts.
LEMMA EncodedAttempts ==
    ASSUME NEW record, IsRecord(record)
    PROVE  /\ IsStored(Encode(record)) /\ Encode(record).version = 2
           /\ \A source : AttemptAt(Encode(record), source) = AttemptIn(record, source)
<1>1. /\ IsFile(Encode(record)) /\ Encode(record).version = 2
      /\ Decode(Encode(record)) = Encode(record).record
  BY EncodeProperties
<1>2. DOMAIN Encode(record).record.sources = DOMAIN record.sources
  BY EncodedSources
<1>3. \A name \in DOMAIN record.sources :
         /\ Encode(record).record.sources[name].lastChecked
                = record.sources[name].lastChecked
         /\ Encode(record).record.sources[name].lastError = record.sources[name].lastError
  <2> TAKE name \in DOMAIN record.sources
  <2>1. /\ record.sources[name] \in SourceHistory
        /\ Encode(record).record.sources[name] = EncodedHistory(record.sources[name])
    BY EncodedSources
  <2> QED BY <2>1, EncodedHistoryProperties
<1>4. ASSUME NEW source
      PROVE  AttemptIn(Encode(record).record, source) = AttemptIn(record, source)
  BY <1>2, <1>3 DEF AttemptIn, WasAttempted, LastAttempt
<1>5. IsReadable(Encode(record)) BY <1>1 DEF IsReadable
<1> QED BY <1>1, <1>4, <1>5 DEF AttemptAt, AttemptIn, IsStored

\* An index entry keeps them too.
LEMMA EntryAttempts ==
    ASSUME NEW record, IsRecord(record)
    PROVE  /\ EntryOf(record).firstSeen \in Nat
           /\ \A source \in Sources :
                 AttemptOf(EntryOf(record), source) = AttemptIn(record, source)
<1>1. EntryOf(record).firstSeen \in Nat
  BY RecordAssumption DEF EntryOf, IsRecord, Moment
<1>2. \A source \in Sources :
         AttemptOf(EntryOf(record), source) = AttemptIn(record, source)
  BY DEF AttemptOf, WasTried, EntryOf, AttemptIn, ZeroTime
<1> QED BY <1>1, <1>2

\* A history written back is that source's attempt, and no other's.
LEMMA WrittenAttempts ==
    ASSUME NEW record, IsRecord(record), NEW source \in Sources, NEW history, NEW after,
           after.sources = WriteHistory(record.sources, source, history)
    PROVE  /\ AttemptIn(after, source) =
                 IF history.lastError > history.lastChecked THEN history.lastError
                 ELSE history.lastChecked
           /\ \A other \in Sources \ {source} :
                 AttemptIn(after, other) = AttemptIn(record, other)
<1>1. /\ DOMAIN after.sources = DOMAIN record.sources \cup {source}
      /\ after.sources[source] = history
      /\ \A other \in DOMAIN record.sources \ {source} :
            after.sources[other] = record.sources[other]
  BY DEF WriteHistory
<1> QED BY <1>1 DEF AttemptIn, WasAttempted, LastAttempt

\* What a source says is stored under the moment it is given.
LEMMA AddReportsAttempts ==
    ASSUME NEW record, IsRecord(record), NEW source \in Sources,
           NEW reports \in Answers[source], NEW checkedAt \in Time
    PROVE  /\ IsRecord(AddReports(record, source, reports, checkedAt))
           /\ AttemptIn(AddReports(record, source, reports, checkedAt), source) = checkedAt
           /\ \A other \in Sources \ {source} :
                 AttemptIn(AddReports(record, source, reports, checkedAt), other)
                    = AttemptIn(record, other)
<1> DEFINE found == HistoryOf(record.sources, source)
           answered == Answered(found, checkedAt)
           observations == ApplyReport(answered.observations, reports[1], checkedAt)
           reported == [answered EXCEPT !.observations = observations]
           history == IF reports = << >> THEN answered ELSE reported
<1>1. reports \in Seq(Report) /\ Len(reports) <= 1 BY AggregatorAssumption
<1>2. found \in SourceHistory BY HistoryOfType DEF IsRecord
<1>3. answered \in SourceHistory /\ answered.observations = found.observations
  BY <1>2, AnsweredProperties
<1>4. answered.lastChecked = checkedAt /\ answered.lastError = ZeroTime
  BY <1>2 DEF Answered, SourceHistory
<1>5. found.observations \in Seq(Observation) BY <1>2 DEF SourceHistory
<1> HIDE DEF found, answered
<1>6. /\ history \in SourceHistory /\ Grows(found.observations, history.observations)
      /\ history.lastChecked = checkedAt /\ history.lastError = ZeroTime
  <2>1. CASE reports = << >>
    <3>1. history = answered BY <2>1
    <3> QED BY <3>1, <1>3, <1>4, <1>5, GrowsReflexive
  <2>2. CASE reports # << >>
    <3>1. Len(reports) \in Nat \ {0} BY <1>1, <2>2, EmptySeq, LenProperties
    <3>2. Len(reports) <= 1 BY <1>1
    <3>7. Len(reports) = 1
      <4> DEFINE length == Len(reports)
      <4>1. length \in Nat \ {0} /\ length <= 1 BY <3>1, <3>2
      <4> HIDE DEF length
      <4>2. length = 1 BY <4>1
      <4> QED BY <4>2 DEF length
    <3>3. reports[1] \in Report BY <1>1, <3>7, ElementOfSeq
    <3>4. observations \in Seq(Observation) /\ Grows(found.observations, observations)
      BY <3>3, <1>3, <1>5, ApplyReportProperties
    <3> HIDE DEF observations
    <3>5. reported \in SourceHistory /\ reported.observations = observations
          /\ reported.lastChecked = checkedAt /\ reported.lastError = ZeroTime
      BY <3>4, <1>3, <1>4 DEF SourceHistory
    <3>6. history = reported BY <2>2
    <3> HIDE DEF history, reported
    <3> QED BY <3>4, <3>5, <3>6
  <2> QED BY <2>1, <2>2
<1>7. AddReports(record, source, reports, checkedAt) = StoreHistory(record, source, history)
  BY DEF AddReports, found, answered
<1> HIDE DEF history
<1>8. IsRecord(StoreHistory(record, source, history))
  BY <1>6, StoreHistoryProperties DEF found
<1>9. StoreHistory(record, source, history).sources
          = WriteHistory(record.sources, source, history)
  BY <1>6, StoredSources
<1>10. ~(ZeroTime > checkedAt) BY RecordAssumption DEF ZeroTime, Time
<1> QED BY <1>6, <1>7, <1>8, <1>9, <1>10, WrittenAttempts

\* A failure counts as an attempt, and no attempt is moved back.
LEMMA FailureAttempts ==
    ASSUME NEW record, IsRecord(record), NEW source \in Sources, NEW occurredAt \in Time
    PROVE  /\ IsRecord(FailureRecorded(record, source, occurredAt))
           /\ AttemptIn(FailureRecorded(record, source, occurredAt), source) >= occurredAt
           /\ AttemptIn(record, source) <= occurredAt =>
                 AttemptIn(FailureRecorded(record, source, occurredAt), source) = occurredAt
           /\ \A other \in Sources \ {source} :
                 AttemptIn(FailureRecorded(record, source, occurredAt), other)
                    = AttemptIn(record, other)
<1> DEFINE found == HistoryOf(record.sources, source)
           history == [found EXCEPT !.lastError = occurredAt]
           after == FailureRecorded(record, source, occurredAt)
<1>1. found \in SourceHistory BY HistoryOfType DEF IsRecord
<1>2. found.lastChecked \in Nat /\ found.lastError \in Nat /\ occurredAt \in Nat
  BY <1>1, RecordAssumption DEF SourceHistory, Moment, Time
<1>3. history.lastChecked = found.lastChecked /\ history.lastError = occurredAt
  BY <1>1 DEF SourceHistory
<1>4. AttemptIn(record, source) <= occurredAt => found.lastChecked <= occurredAt
  <2>1. CASE source \in DOMAIN record.sources
    <3>1. found = record.sources[source] BY <2>1 DEF HistoryOf
    <3> QED BY <2>1, <3>1, <1>2 DEF AttemptIn, WasAttempted, LastAttempt
  <2>2. CASE source \notin DOMAIN record.sources
    <3>1. found.lastChecked = ZeroTime BY <2>2 DEF HistoryOf, NewHistory
    <3> QED BY <3>1, <1>2 DEF ZeroTime
  <2> QED BY <2>1, <2>2
<1>5. after.sources = WriteHistory(record.sources, source, history) BY FailureSources
<1>6. IsRecord(after) BY FailureRecordedProperties
<1> HIDE DEF history, after, found
<1>7. /\ AttemptIn(after, source) =
            IF occurredAt > found.lastChecked THEN occurredAt ELSE found.lastChecked
      /\ \A other \in Sources \ {source} : AttemptIn(after, other) = AttemptIn(record, other)
  BY <1>3, <1>5, WrittenAttempts
<1> QED BY <1>2, <1>4, <1>6, <1>7 DEF after

-----------------------------------------------------------------------------
(* What is set up *)

\* The sources of a run have different names, and each enricher a schedule.
LEMMA SetupType ==
    ASSUME TypeOK
    PROVE  /\ Feeds \in Seq(Sources) /\ Enrichers \in Seq(Sources)
           /\ DOMAIN Feeds = 1..Len(Feeds) /\ Len(Feeds) \in Nat
           /\ DOMAIN Enrichers = 1..Len(Enrichers) /\ Len(Enrichers) \in Nat
           /\ \A index \in DOMAIN Feeds : Feeds[index] \in Sources
           /\ \A index \in DOMAIN Enrichers :
                 /\ Enrichers[index] \in Sources
                 /\ Enrichers[index] \in EnricherNames
                 /\ IsSchedule(Limits[Enrichers[index]])
                 /\ Limits[Enrichers[index]].refreshAfter \in Nat \ {0}
                 /\ Limits[Enrichers[index]].maxLookups \in Nat \ {0}
           /\ \A name \in EnricherNames : \E index \in DOMAIN Enrichers : name = Enrichers[index]
           /\ \A i, j \in DOMAIN Enrichers : Enrichers[i] = Enrichers[j] => i = j
           /\ \A i \in DOMAIN Feeds, j \in DOMAIN Enrichers : Feeds[i] # Enrichers[j]
           /\ setup.lastMoment \in Time /\ clock \in Time /\ clock \in Nat \ {0}
           /\ setup.addresses \subseteq Addresses
<1> DEFINE names == setup.feeds \o setup.enrichers
<1>1. IsSetup(setup) BY AggregatorAssumption DEF TypeOK
<1>2. /\ Feeds \in Seq(Sources) /\ Enrichers \in Seq(Sources)
      /\ \A i, j \in DOMAIN names : names[i] = names[j] => i = j
      /\ DOMAIN Limits = EnricherNames
      /\ \A name \in EnricherNames : IsSchedule(Limits[name])
      /\ setup.lastMoment \in Time /\ setup.addresses \subseteq Addresses
  BY <1>1 DEF IsSetup, Feeds, Enrichers, Limits, EnricherNames
<1>3. /\ DOMAIN Feeds = 1..Len(Feeds) /\ Len(Feeds) \in Nat
      /\ DOMAIN Enrichers = 1..Len(Enrichers) /\ Len(Enrichers) \in Nat
      /\ \A index \in DOMAIN Feeds : Feeds[index] \in Sources
      /\ \A index \in DOMAIN Enrichers : Enrichers[index] \in Sources
  BY <1>2, LenProperties, ElementOfSeq
<1>4. /\ \A index \in DOMAIN Enrichers : Enrichers[index] \in EnricherNames
      /\ \A name \in EnricherNames : \E index \in DOMAIN Enrichers : name = Enrichers[index]
  BY DEF EnricherNames, Range
<1>5. \A index \in DOMAIN Enrichers :
         /\ IsSchedule(Limits[Enrichers[index]])
         /\ Limits[Enrichers[index]].refreshAfter \in Nat \ {0}
         /\ Limits[Enrichers[index]].maxLookups \in Nat \ {0}
  BY <1>2, <1>4 DEF IsSchedule
<1>6. /\ Len(names) = Len(Feeds) + Len(Enrichers) /\ DOMAIN names = 1..Len(names)
      /\ \A i \in DOMAIN Feeds : names[i] = Feeds[i]
      /\ \A j \in DOMAIN Enrichers : names[Len(Feeds) + j] = Enrichers[j]
  <2>1. /\ names \in Seq(Sources) /\ Len(names) = Len(Feeds) + Len(Enrichers)
        /\ \A i \in 1 .. Len(Feeds) + Len(Enrichers) :
              names[i] = IF i <= Len(Feeds) THEN Feeds[i] ELSE Enrichers[i - Len(Feeds)]
    <3>1. setup.feeds \in Seq(Sources) /\ setup.enrichers \in Seq(Sources)
      BY <1>2 DEF Feeds, Enrichers
    <3> QED BY <3>1, ConcatProperties DEF Feeds, Enrichers
  <2>2. DOMAIN names = 1..Len(names) BY <2>1, LenProperties
  <2> HIDE DEF names
  <2>3. \A i \in DOMAIN Feeds : names[i] = Feeds[i] BY <1>3, <2>1
  <2>4. ASSUME NEW j \in DOMAIN Enrichers PROVE names[Len(Feeds) + j] = Enrichers[j]
    <3>1. Len(Feeds) + j \in 1 .. Len(Feeds) + Len(Enrichers) /\ ~(Len(Feeds) + j <= Len(Feeds))
          /\ Len(Feeds) + j - Len(Feeds) = j
      BY <1>3
    <3> QED BY <2>1, <3>1
  <2> QED BY <2>1, <2>2, <2>3, <2>4
<1> HIDE DEF names
<1>7. \A i, j \in DOMAIN Enrichers : Enrichers[i] = Enrichers[j] => i = j
  <2> TAKE i, j \in DOMAIN Enrichers
  <2>1. Len(Feeds) + i \in DOMAIN names /\ Len(Feeds) + j \in DOMAIN names
    BY <1>3, <1>6
  <2>2. Enrichers[i] = Enrichers[j] => Len(Feeds) + i = Len(Feeds) + j
    BY <1>2, <1>6, <2>1
  <2> QED BY <1>3, <2>2
<1>8. \A i \in DOMAIN Feeds, j \in DOMAIN Enrichers : Feeds[i] # Enrichers[j]
  <2> TAKE i \in DOMAIN Feeds, j \in DOMAIN Enrichers
  <2>1. i \in DOMAIN names /\ Len(Feeds) + j \in DOMAIN names /\ i # Len(Feeds) + j
    BY <1>3, <1>6
  <2> QED BY <1>2, <1>6, <2>1
<1>9. clock \in Time /\ clock \in Nat \ {0}
  BY <1>2, RecordAssumption DEF TypeOK, Time
<1> QED BY <1>2, <1>3, <1>4, <1>5, <1>7, <1>8, <1>9

\* The address the run is at.
LEMMA PendingType ==
    ASSUME TypeOK, NEW visited \in pending
    PROVE  /\ pending = {visited} /\ visited \in [address : Addresses, outcome : Outcomes]
           /\ visited.address \in Addresses /\ visited.address \notin left
           /\ visited.outcome \in Outcomes /\ IsStored(files[visited.address])
BY DEF TypeOK

-----------------------------------------------------------------------------
(* What steps write *)

\* Only the file of address is written, a readable one, in the current format.
FileWritten(address) ==
    /\ DOMAIN files' = Addresses
    /\ files[address].version # 3
    /\ IsStored(files'[address]) /\ files'[address].version = 2
    /\ \A other \in Addresses \ {address} : files'[other] = files[other]

AttemptsKept(address, names) ==
    \A name \in names : AttemptAt(files'[address], name) = AttemptAt(files[address], name)

\* A write counts if it changes the file in a cancelled run.
WriteLogged ==
    \/ log' = log
    \/ cancelled /\ log' = [log EXCEPT !.afterCancel = log.afterCancel + 1]

\* write stores the attempts of the record it is given.
LEMMA ReplaceWrites ==
    ASSUME TypeOK, NEW address \in Addresses, IsReadable(files[address]),
           NEW record, IsRecord(record), Replace(address, record)
    PROVE  /\ FileWritten(address) /\ WriteLogged
           /\ \A source : AttemptAt(files'[address], source) = AttemptIn(record, source)
<1>1. /\ DOMAIN files' = Addresses /\ files'[address] = Encode(record)
      /\ \A other \in Addresses \ {address} : files'[other] = files[other]
  BY DEF Replace, TypeOK
<1>2. files[address].version # 3 BY DEF IsReadable
<1>3. FileWritten(address) BY <1>1, <1>2, EncodedAttempts DEF FileWritten
<1>4. WriteLogged
  <2>1. log.afterCancel \in Nat /\ log = [log EXCEPT !.afterCancel = log.afterCancel]
    BY DEF TypeOK, Logs
  <2>2. CASE cancelled
    <3>1. \/ log' = log \/ log' = [log EXCEPT !.afterCancel = log.afterCancel + 1]
      BY <2>2 DEF Replace
    <3> QED BY <2>2, <3>1 DEF WriteLogged
  <2>3. CASE ~cancelled
    <3>1. \/ log' = log \/ log' = [log EXCEPT !.afterCancel = log.afterCancel + 0]
      BY <2>3 DEF Replace
    <3>2. log.afterCancel + 0 = log.afterCancel BY <2>1
    <3> QED BY <2>1, <3>1, <3>2 DEF WriteLogged
  <2> QED BY <2>2, <2>3
<1> QED BY <1>1, <1>3, <1>4, EncodedAttempts

\* A listed address is stored as an attempt of the feed, or the feed failed.
LEMMA StoreSightingWrites ==
    ASSUME TypeOK, AtPlace, StoreSighting
    PROVE  \E visited \in pending :
              \/ UNCHANGED <<files, log>> /\ failures' = failures \cup {Feed}
              \/ /\ FileWritten(visited.address) /\ WriteLogged
                 /\ failures' = failures
                 /\ AttemptAt(files'[visited.address], Feed) = stamp
                 /\ AttemptsKept(visited.address, Sources \ {Feed})
<1>1. PICK visited \in pending, reports \in Answers[Feed] :
          \/ NoUpdate /\ failures' = failures \cup {Feed}
          \/ /\ Update(visited.address,
                       AddReports(Decode(files[visited.address]), Feed, reports, stamp))
             /\ UNCHANGED failures
  BY DEF StoreSighting
<1>2. CASE NoUpdate /\ failures' = failures \cup {Feed} BY <1>2 DEF NoUpdate
<1>3. CASE /\ Update(visited.address,
                     AddReports(Decode(files[visited.address]), Feed, reports, stamp))
           /\ UNCHANGED failures
  <2> DEFINE address == visited.address
             record == Decode(files[address])
             after == AddReports(record, Feed, reports, stamp)
  <2>1. address \in Addresses /\ IsStored(files[address]) BY PendingType
  <2>2. IsReadable(files[address]) /\ Replace(address, after) BY <1>3 DEF Update
  <2>3. IsRecord(record)
        /\ \A source : AttemptAt(files[address], source) = AttemptIn(record, source)
    BY <2>1, <2>2, StoredFile
  <2>4. Feed \in Sources /\ stamp \in Time
    BY SetupType DEF AtPlace, Feed, StoreSighting
  <2> HIDE DEF record
  <2>5. /\ IsRecord(after) /\ AttemptIn(after, Feed) = stamp
        /\ \A other \in Sources \ {Feed} : AttemptIn(after, other) = AttemptIn(record, other)
    BY <2>3, <2>4, AddReportsAttempts
  <2> HIDE DEF after
  <2>6. /\ FileWritten(address) /\ WriteLogged
        /\ \A source : AttemptAt(files'[address], source) = AttemptIn(after, source)
    BY <2>1, <2>2, <2>5, ReplaceWrites
  <2> QED BY <1>3, <2>3, <2>5, <2>6 DEF AttemptsKept
<1> QED BY <1>1, <1>2, <1>3

\* A file that is indexed keeps its attempts, and its entry says the same.
LEMMA IndexFileWrites ==
    ASSUME TypeOK, IndexFile
    PROVE  \E visited \in pending :
              \/ UNCHANGED <<files, entries, log>> /\ failures' = failures \cup {"index"}
              \/ /\ FileWritten(visited.address) /\ WriteLogged
                 /\ failures' = failures
                 /\ AttemptsKept(visited.address, Sources)
                 /\ DOMAIN entries' = DOMAIN entries \cup {visited.address}
                 /\ \A other \in DOMAIN entries \ {visited.address} :
                       entries'[other] = entries[other]
                 /\ entries'[visited.address].firstSeen \in Nat
                 /\ \A name \in Sources : AttemptOf(entries'[visited.address], name)
                       = AttemptAt(files'[visited.address], name)
<1>1. PICK visited \in pending :
          \/ failures' = failures \cup {"index"} /\ UNCHANGED <<files, entries, log>>
          \/ /\ IsReadable(files[visited.address])
             /\ Replace(visited.address, Decode(files[visited.address]))
             /\ entries' = [other \in DOMAIN entries \cup {visited.address} |->
                              IF other = visited.address
                              THEN EntryOf(Decode(files[visited.address]))
                              ELSE entries[other]]
             /\ UNCHANGED failures
  BY DEF IndexFile
<1> DEFINE address == visited.address
           record == Decode(files[address])
<1>2. CASE failures' = failures \cup {"index"} /\ UNCHANGED <<files, entries, log>>
  BY <1>2
<1>3. CASE /\ IsReadable(files[visited.address])
           /\ Replace(visited.address, record)
           /\ entries' = [other \in DOMAIN entries \cup {visited.address} |->
                            IF other = visited.address THEN EntryOf(record)
                            ELSE entries[other]]
           /\ UNCHANGED failures
  <2>1. address \in Addresses /\ IsStored(files[address]) BY PendingType
  <2>2. IsRecord(record)
        /\ \A source : AttemptAt(files[address], source) = AttemptIn(record, source)
    BY <1>3, <2>1, StoredFile
  <2> HIDE DEF record
  <2>3. /\ FileWritten(address) /\ WriteLogged
        /\ \A source : AttemptAt(files'[address], source) = AttemptIn(record, source)
    BY <1>3, <2>1, <2>2, ReplaceWrites
  <2>4. /\ EntryOf(record).firstSeen \in Nat
        /\ \A source \in Sources :
              AttemptOf(EntryOf(record), source) = AttemptIn(record, source)
    BY <2>2, EntryAttempts
  <2>5. /\ DOMAIN entries' = DOMAIN entries \cup {visited.address}
        /\ \A other \in DOMAIN entries \ {visited.address} : entries'[other] = entries[other]
        /\ entries'[visited.address] = EntryOf(record)
    BY <1>3
  <2> QED BY <1>3, <2>2, <2>3, <2>4, <2>5 DEF AttemptsKept
<1> QED BY <1>1, <1>2, <1>3

\* A lookup is stored as an attempt, unless something failed: then the enricher
\* is among the failures.
LEMMA StoreLookupWrites ==
    ASSUME TypeOK, AtPlace, StoreLookup
    PROVE  \E visited \in pending : \E stored \in BOOLEAN :
              /\ AfterLookup(visited.outcome, stored)
              /\ \/ /\ UNCHANGED <<files, log>>
                    /\ ~stored \/ visited.outcome = "stopping"
                 \/ /\ FileWritten(visited.address) /\ WriteLogged
                    /\ visited.outcome # "stopping"
                    /\ AttemptAt(files'[visited.address], Enricher) >= clock
                    /\ AttemptAt(files[visited.address], Enricher) <= clock =>
                          AttemptAt(files'[visited.address], Enricher) = clock
                    /\ AttemptsKept(visited.address, Sources \ {Enricher})
<1>1. PICK visited \in pending :
          \/ NoUpdate /\ AfterLookup(visited.outcome, FALSE)
          \/ /\ visited.outcome = "stopping" /\ NoUpdate /\ AfterLookup("stopping", TRUE)
          \/ /\ visited.outcome = "answered"
             /\ \E reports \in Answers[Enricher] :
                   Update(visited.address,
                      AddReports(Decode(files[visited.address]), Enricher, reports, clock))
             /\ AfterLookup(visited.outcome, TRUE)
          \/ /\ visited.outcome \in {"rejected", "failed"}
             /\ Update(visited.address,
                       FailureRecorded(Decode(files[visited.address]), Enricher, clock))
             /\ AfterLookup(visited.outcome, TRUE)
  BY DEF StoreLookup
<1> DEFINE address == visited.address
           record == Decode(files[address])
<1>2. CASE NoUpdate /\ AfterLookup(visited.outcome, FALSE) BY <1>2 DEF NoUpdate
<1>3. CASE visited.outcome = "stopping" /\ NoUpdate /\ AfterLookup("stopping", TRUE)
  BY <1>3 DEF NoUpdate
<1>4. address \in Addresses /\ IsStored(files[address]) BY PendingType
<1>5. Enricher \in Sources /\ clock \in Time /\ clock \in Nat
  BY SetupType DEF AtPlace, Enricher, StoreLookup
<1>6. ASSUME NEW after, IsReadable(files[address]), IsRecord(record) => IsRecord(after),
             Replace(address, after),
             IsRecord(record) =>
                /\ AttemptIn(after, Enricher) >= clock
                /\ AttemptIn(record, Enricher) <= clock => AttemptIn(after, Enricher) = clock
                /\ \A other \in Sources \ {Enricher} :
                      AttemptIn(after, other) = AttemptIn(record, other)
      PROVE  /\ FileWritten(address) /\ WriteLogged
             /\ AttemptAt(files'[address], Enricher) >= clock
             /\ AttemptAt(files[address], Enricher) <= clock =>
                   AttemptAt(files'[address], Enricher) = clock
             /\ AttemptsKept(address, Sources \ {Enricher})
  <2>1. IsRecord(record)
        /\ \A source : AttemptAt(files[address], source) = AttemptIn(record, source)
    BY <1>4, <1>6, StoredFile
  <2> HIDE DEF record
  <2>2. /\ FileWritten(address) /\ WriteLogged
        /\ \A source : AttemptAt(files'[address], source) = AttemptIn(after, source)
    BY <1>4, <1>6, <2>1, ReplaceWrites
  <2> QED BY <1>6, <2>1, <2>2 DEF AttemptsKept
<1>7. CASE /\ visited.outcome = "answered"
           /\ \E reports \in Answers[Enricher] :
                 Update(visited.address, AddReports(record, Enricher, reports, clock))
           /\ AfterLookup(visited.outcome, TRUE)
  <2>1. PICK reports \in Answers[Enricher] :
            Update(address, AddReports(record, Enricher, reports, clock))
    BY <1>7
  <2> DEFINE after == AddReports(record, Enricher, reports, clock)
  <2>2. IsReadable(files[address]) /\ Replace(address, after) BY <2>1 DEF Update
  <2>3. ASSUME IsRecord(record)
        PROVE  /\ IsRecord(after) /\ AttemptIn(after, Enricher) = clock
               /\ \A other \in Sources \ {Enricher} :
                     AttemptIn(after, other) = AttemptIn(record, other)
    <3> HIDE DEF record
    <3> QED BY <1>5, <2>3, AddReportsAttempts
  <2> HIDE DEF after, record
  <2>4. clock >= clock BY <1>5
  <2>5. /\ FileWritten(address) /\ WriteLogged
        /\ AttemptAt(files'[address], Enricher) >= clock
        /\ AttemptAt(files[address], Enricher) <= clock =>
              AttemptAt(files'[address], Enricher) = clock
        /\ AttemptsKept(address, Sources \ {Enricher})
    BY <1>6, <2>2, <2>3, <2>4
  <2>6. visited.outcome # "stopping" /\ AfterLookup(visited.outcome, TRUE) BY <1>7
  <2> QED BY <2>5, <2>6
<1>8. CASE /\ visited.outcome \in {"rejected", "failed"}
           /\ Update(visited.address, FailureRecorded(record, Enricher, clock))
           /\ AfterLookup(visited.outcome, TRUE)
  <2> DEFINE after == FailureRecorded(record, Enricher, clock)
  <2>2. IsReadable(files[address]) /\ Replace(address, after) BY <1>8 DEF Update
  <2>3. ASSUME IsRecord(record)
        PROVE  /\ IsRecord(after) /\ AttemptIn(after, Enricher) >= clock
               /\ AttemptIn(record, Enricher) <= clock => AttemptIn(after, Enricher) = clock
               /\ \A other \in Sources \ {Enricher} :
                     AttemptIn(after, other) = AttemptIn(record, other)
    <3> HIDE DEF record
    <3> QED BY <1>5, <2>3, FailureAttempts
  <2> HIDE DEF after, record
  <2>4. /\ FileWritten(address) /\ WriteLogged
        /\ AttemptAt(files'[address], Enricher) >= clock
        /\ AttemptAt(files[address], Enricher) <= clock =>
              AttemptAt(files'[address], Enricher) = clock
        /\ AttemptsKept(address, Sources \ {Enricher})
    BY <1>6, <2>2, <2>3
  <2>5. visited.outcome # "stopping" /\ AfterLookup(visited.outcome, TRUE) BY <1>8
  <2> QED BY <2>4, <2>5
<1> QED BY <1>1, <1>2, <1>3, <1>7, <1>8

-----------------------------------------------------------------------------
(* The order of lookups *)

\* An index that can be sorted for a source.
IsSortable(index, source) ==
    /\ DOMAIN index \subseteq Addresses
    /\ \A address \in DOMAIN index :
          index[address].firstSeen \in Nat /\ AttemptOf(index[address], source) \in Nat

\* Addresses sort in a strict order, and no two tie.
LEMMA SortsStrictly ==
    ASSUME NEW index, NEW source, IsSortable(index, source),
           NEW first \in DOMAIN index, NEW second \in DOMAIN index, NEW third \in DOMAIN index
    PROVE  /\ ~SortsBefore(index, source, first, first)
           /\ SortsBefore(index, source, first, second)
                 /\ SortsBefore(index, source, second, third)
              => SortsBefore(index, source, first, third)
           /\ \/ first = second
              \/ SortsBefore(index, source, first, second)
              \/ SortsBefore(index, source, second, first)
<1> DEFINE tried(address) == WasTried(index[address], source)
           seen(address) == index[address].firstSeen
           attempt(address) == AttemptOf(index[address], source)
           before(one, other) ==
              \/ ~tried(one) /\ tried(other)
              \/ /\ tried(one) <=> tried(other)
                 /\ \/ seen(one) > seen(other)
                    \/ /\ seen(one) = seen(other)
                       /\ \/ attempt(one) < attempt(other)
                          \/ attempt(one) = attempt(other) /\ Order[one] < Order[other]
<1>1. ASSUME NEW one, NEW other
      PROVE  SortsBefore(index, source, one, other) <=> before(one, other)
  BY DEF SortsBefore, WasTried
<1>2. ASSUME NEW address \in DOMAIN index
      PROVE  /\ seen(address) \in Int /\ attempt(address) \in Int /\ Order[address] \in Int
  BY ScheduleAssumption DEF IsSortable
<1>3. \A one, other \in DOMAIN index : Order[one] = Order[other] => one = other
  BY ScheduleAssumption DEF IsSortable
<1> HIDE DEF tried, seen, attempt
<1>4. /\ ~before(first, first)
      /\ before(first, second) /\ before(second, third) => before(first, third)
      /\ first = second \/ before(first, second) \/ before(second, first)
  BY <1>2, <1>3
<1> QED BY <1>1, <1>4

\* Some address of a set sorts before all others: the one with the fewest before it.
LEMMA SomeSortsFirst ==
    ASSUME NEW index, NEW source, IsSortable(index, source),
           NEW S \in SUBSET DOMAIN index, S # {}
    PROVE  \E least \in S : \A other \in S : ~SortsBefore(index, source, other, least)
<1> DEFINE Before(address) == {other \in S : SortsBefore(index, source, other, address)}
           ranks == {Cardinality(Before(address)) : address \in S}
<1>1. IsFiniteSet(S)
  <2>1. S \in SUBSET Addresses /\ IsFiniteSet(Addresses)
    BY ScheduleAssumption DEF IsSortable
  <2> QED BY <2>1, FS_Subset
<1>2. ASSUME NEW address \in S
      PROVE  IsFiniteSet(Before(address)) /\ Cardinality(Before(address)) \in Nat
  BY <1>1, FS_Subset, FS_CardinalityType
<1>3. ranks \in SUBSET Nat /\ ranks # {} BY <1>2
<1>4. Earliest(ranks) \in ranks /\ \A rank \in ranks : Earliest(ranks) <= rank
  <2> HIDE DEF ranks
  <2> QED BY <1>3, EarliestProperty
<1>5. PICK least \in S : Earliest(ranks) = Cardinality(Before(least)) BY <1>4
<1>6. ASSUME NEW other \in S, SortsBefore(index, source, other, least) PROVE FALSE
  <2>1. Before(other) \subseteq Before(least) BY <1>6, SortsStrictly
  <2>2. other \in Before(least) BY <1>6
  <2>3. other \notin Before(other) BY SortsStrictly
  <2>4. Cardinality(Before(least)) <= Cardinality(Before(other)) BY <1>4, <1>5
  <2>5. IsFiniteSet(Before(least)) /\ Before(other) \in SUBSET Before(least)
    BY <1>2, <2>1
  <2>6. Before(least) # Before(other) BY <2>2, <2>3
  <2> HIDE DEF Before
  <2>7. /\ Cardinality(Before(other)) <= Cardinality(Before(least))
        /\ Cardinality(Before(least)) = Cardinality(Before(other))
              => Before(least) = Before(other)
    BY <2>5, FS_Subset
  <2>8. Cardinality(Before(other)) \in Nat /\ Cardinality(Before(least)) \in Nat
    BY <1>2 DEF Before
  <2> QED BY <2>4, <2>6, <2>7, <2>8
<1> QED BY <1>6

\* The address that is looked up next is one of those left.
LEMMA FirstIsLeft ==
    ASSUME NEW index, NEW source, IsSortable(index, source),
           NEW S \in SUBSET DOMAIN index, S # {}
    PROVE  FirstOf(index, source, S) \in S
<1>1. PICK least \in S : \A other \in S : ~SortsBefore(index, source, other, least)
  BY SomeSortsFirst
<1>2. \A other \in S \ {least} : SortsBefore(index, source, least, other)
  BY <1>1, SortsStrictly
<1> QED BY <1>2 DEF FirstOf

\* An address that is due is only left out when all lookups are used.
LEMMA SelectionFills ==
    ASSUME NEW index, NEW source, IsSortable(index, source),
           NEW schedule, schedule.maxLookups \in Nat, NEW now,
           NEW missed \in DueAddresses(index, source, schedule, now),
           missed \notin SelectDueAddresses(index, source, schedule, now)
    PROVE  Cardinality(SelectDueAddresses(index, source, schedule, now)) >= schedule.maxLookups
<1> DEFINE due == DueAddresses(index, source, schedule, now)
           selected == SelectDueAddresses(index, source, schedule, now)
<1>1. due \subseteq DOMAIN index /\ due \subseteq Addresses /\ selected \subseteq due
  BY DEF DueAddresses, SelectDueAddresses, IsSortable
<1>2. \A address \in due : address \in selected <=>
          Place(index, source, due, address) < schedule.maxLookups
  BY DEF SelectDueAddresses
<1> HIDE DEF due, selected
<1>3. missed \in due \ selected BY DEF due, selected
<1>4. PICK least \in due \ selected :
          \A other \in due \ selected : ~SortsBefore(index, source, other, least)
  <2>1. due \ selected \in SUBSET DOMAIN index /\ due \ selected # {} BY <1>1, <1>3
  <2> QED BY <2>1, SomeSortsFirst
<1> DEFINE Before == {other \in due : SortsBefore(index, source, other, least)}
<1>5. Before \in SUBSET selected BY <1>4
<1>6. IsFiniteSet(selected) BY <1>1, ScheduleAssumption, FS_Subset
<1>7. Cardinality(Before) = Place(index, source, due, least) BY DEF Place
<1> HIDE DEF Before
<1>8. /\ Cardinality(Before) <= Cardinality(selected)
      /\ Cardinality(Before) \in Nat /\ Cardinality(selected) \in Nat
  BY <1>5, <1>6, FS_Subset, FS_CardinalityType
<1>9. ~(Cardinality(Before) < schedule.maxLookups) BY <1>2, <1>4, <1>7
<1>10. Cardinality(selected) >= schedule.maxLookups BY <1>8, <1>9
<1> QED BY <1>10 DEF selected

-----------------------------------------------------------------------------
(* Types *)

Inv ==
    /\ TypeOK /\ AtPlace
    /\ WriteCounted
    /\ FailuresCounted /\ OutageStopsEnricher
    /\ EntriesTrue /\ IndexStaysTrue /\ DueStillDue
    /\ DutiesDone /\ ReachedInOrder /\ FilesIndexed /\ LookupsUsed

\* A log to begin with.
LEMMA FreshLogType ==
    ASSUME clock \in Time
    PROVE  FreshLog \in Logs /\ FreshLog.startedAt = clock
<1>1. << >> \in Seq(Outcomes) BY EmptySeq
<1> QED BY <1>1 DEF FreshLog, Logs

\* The types before the first run.
LEMMA InitIsTyped == Init => TypeOK /\ AtPlace
<1> SUFFICES ASSUME Init PROVE TypeOK /\ AtPlace OBVIOUS
<1>1. IsSetup(setup) BY AggregatorAssumption DEF Init
<1>2. DOMAIN files = Addresses /\ \A address \in Addresses : IsStored(files[address])
  BY <1>1 DEF Init, IsSetup, Range, IsStored
<1>3. clock \in 1..setup.lastMoment /\ clock \in Time /\ clock <= clock
  BY <1>1, RecordAssumption DEF Init, IsSetup, Time
<1>4. log \in Logs /\ log.startedAt = clock BY <1>3, FreshLogType DEF Init
<1> QED BY <1>2, <1>3, <1>4 DEF Init, TypeOK, AtPlace, Stages

\* The files a write leaves, and the log.
LEMMA WriteKeepsTypes ==
    ASSUME TypeOK, NEW address \in Addresses, FileWritten(address) \/ files' = files,
           WriteLogged \/ log' = log
    PROVE  /\ DOMAIN files' = Addresses /\ \A other \in Addresses : IsStored(files'[other])
           /\ log' \in Logs /\ log'.startedAt = log.startedAt
           /\ log'.outcomes = log.outcomes /\ log'.duties = log.duties
           /\ log'.reached = log.reached /\ log'.late = log.late
<1>1. DOMAIN files' = Addresses /\ \A other \in Addresses : IsStored(files'[other])
  BY DEF TypeOK, FileWritten
<1>2. log \in Logs /\ log.afterCancel + 1 \in Nat BY DEF TypeOK, Logs
<1>3. /\ log' \in Logs /\ log'.startedAt = log.startedAt
      /\ log'.outcomes = log.outcomes /\ log'.duties = log.duties
      /\ log'.reached = log.reached /\ log'.late = log.late
  BY <1>2 DEF WriteLogged, Logs
<1> QED BY <1>1, <1>3

\* The end of an enricher or its going on, as far as the types are concerned.
LEMMA AfterLookupTypes ==
    ASSUME TypeOK, AtPlace, stage = "lookups", NEW outcome, NEW stored,
           AfterLookup(outcome, stored)
    PROVE  /\ stage' \in {"enrichers", "lookups"} /\ position' \in Nat \ {0}
           /\ left' \subseteq left /\ inARow' \in Nat
           /\ stage' = "lookups" => position' = position /\ left' = left
<1>1. FailuresInARow(outcome) \in Nat BY DEF FailuresInARow, TypeOK
<1>2. position + 1 \in Nat \ {0} BY DEF TypeOK
<1>3. CASE inARow' = FailuresInARow(outcome) /\ UNCHANGED <<stage, position, left>>
  BY <1>1, <1>3 DEF TypeOK
<1>4. CASE \E problems : LeaveEnricher(problems)
  BY <1>2, <1>4 DEF LeaveEnricher, GoTo
<1> QED BY <1>3, <1>4 DEF AfterLookup

\* A run is made with the same setup every hour.
LEMMA StepKeepsSetup ==
    ASSUME [Next]_vars
    PROVE  /\ setup' = setup /\ Feeds' = Feeds /\ Enrichers' = Enrichers /\ Limits' = Limits
           /\ FeedNames' = FeedNames /\ EnricherNames' = EnricherNames
<1>1. setup' = setup BY DEF Next, vars
<1> QED BY <1>1 DEF Feeds, Enrichers, Limits, FeedNames, EnricherNames

\* Collecting feeds keeps the types.
LEMMA FeedStepsKeepTypes ==
    ASSUME Inv, setup' = setup,
           \/ StartRun \/ CollectFeed \/ CancelledBeforeFeed \/ NextSighting
           \/ StoreSighting \/ BeginIndex
    PROVE  TypeOK' /\ AtPlace'
<1>1. TypeOK /\ AtPlace BY DEF Inv
<1>2. position + 1 \in Nat \ {0} /\ 1 \in Nat \ {0} /\ position \in Nat \ {0}
      /\ inARow \in Nat /\ 0 \in Nat /\ log \in Logs /\ left \subseteq Addresses
  BY <1>1 DEF TypeOK
<1>3. clock \in Time /\ setup.addresses \subseteq Addresses
      /\ \A index \in DOMAIN Feeds : Feeds[index] \in Sources
  BY <1>1, SetupType
<1>4. clock \in Nat BY <1>3, RecordAssumption DEF Time
<1>5. CASE StartRun
  <2>1. log' \in Logs /\ log'.startedAt = clock BY <1>3, <1>5, FreshLogType DEF StartRun
  <2>2. TypeOK' BY <1>1, <1>2, <1>4, <1>5, <2>1 DEF StartRun, GoTo, TypeOK, Stages
  <2>3. AtPlace' BY <1>5 DEF StartRun, GoTo, AtPlace
  <2> QED BY <2>2, <2>3
<1>6. CASE CollectFeed
  <2>1. Feed \in Sources BY <1>3, <1>6 DEF CollectFeed, Feed
  <2>2. UNCHANGED <<files, clock, pending, inARow>> /\ pending = {}
    BY <1>1, <1>6 DEF CollectFeed, AtPlace
  <2>3. CASE \E listed \in SUBSET setup.addresses :
                /\ GoTo("sightings", position) /\ left' = listed /\ stamp' = clock
                /\ log' = [log EXCEPT !.reached = log.reached \cup {Feed},
                                      !.duties = log.duties \cup ({Feed} \X listed)]
    <3>1. PICK listed \in SUBSET setup.addresses :
                /\ GoTo("sightings", position) /\ left' = listed /\ stamp' = clock
                /\ log' = [log EXCEPT !.reached = log.reached \cup {Feed},
                                      !.duties = log.duties \cup ({Feed} \X listed)]
      BY <2>3
    <3>2. {Feed} \X listed \subseteq Sources \X Addresses BY <1>3, <2>1
    <3>3. log' \in Logs /\ log'.startedAt = log.startedAt
      BY <1>2, <2>1, <3>1, <3>2 DEF Logs
    <3>4. TypeOK' BY <1>1, <1>2, <1>3, <2>2, <3>1, <3>3 DEF TypeOK, GoTo, Stages
    <3>5. AtPlace'
      BY <1>1, <1>3, <1>6, <2>2, <3>1, <3>3
      DEF AtPlace, TypeOK, GoTo, CollectFeed, Feeds
    <3> QED BY <3>4, <3>5
  <2>4. CASE /\ GoTo("feeds", position + 1)
             /\ log' = [log EXCEPT !.reached = log.reached \cup {Feed}]
             /\ UNCHANGED <<left, stamp>>
    <3>1. log' \in Logs /\ log'.startedAt = log.startedAt BY <1>2, <2>1, <2>4 DEF Logs
    <3>2. TypeOK' BY <1>1, <1>2, <2>2, <2>4, <3>1 DEF TypeOK, GoTo, Stages
    <3>3. AtPlace' BY <2>2, <2>4 DEF AtPlace, GoTo
    <3> QED BY <3>2, <3>3
  <2> QED BY <1>6, <2>3, <2>4 DEF CollectFeed
<1>7. CASE CancelledBeforeFeed
  <2>1. TypeOK'
    BY <1>1, <1>2, <1>7 DEF CancelledBeforeFeed, EndRun, TypeOK, Stages
  <2>2. AtPlace' BY <1>1, <1>7 DEF CancelledBeforeFeed, EndRun, AtPlace
  <2> QED BY <2>1, <2>2
<1>8. CASE NextSighting
  <2>1. CASE GoesOn
    <3>1. PICK address \in left :
             /\ pending' = {[address |-> address, outcome |-> "answered"]}
             /\ left' = left \ {address} /\ UNCHANGED <<stage, position, stamp>>
      BY <1>8, <2>1 DEF NextSighting
    <3>2. "answered" \in Outcomes BY DEF Outcomes
    <3>3. TypeOK' BY <1>1, <1>2, <1>8, <3>1, <3>2 DEF NextSighting, TypeOK
    <3>4. AtPlace' BY <1>1, <1>8, <3>1 DEF NextSighting, AtPlace, Feeds
    <3> QED BY <3>3, <3>4
  <2>2. CASE ~GoesOn
    <3>1. TypeOK'
      BY <1>1, <1>2, <1>8, <2>2 DEF NextSighting, GoTo, TypeOK, Stages
    <3>2. AtPlace' BY <1>8, <2>2 DEF NextSighting, GoTo, AtPlace
    <3> QED BY <3>1, <3>2
  <2> QED BY <2>1, <2>2
<1>9. CASE StoreSighting
  <2>1. PICK visited \in pending :
            \/ UNCHANGED <<files, log>>
            \/ FileWritten(visited.address) /\ WriteLogged
    BY <1>1, <1>9, StoreSightingWrites
  <2>2. visited.address \in Addresses BY <1>1, PendingType
  <2>3. /\ DOMAIN files' = Addresses /\ \A other \in Addresses : IsStored(files'[other])
        /\ log' \in Logs /\ log'.startedAt = log.startedAt
    BY <1>1, <2>1, <2>2, WriteKeepsTypes
  <2>4. /\ pending' = {}
        /\ UNCHANGED <<clock, stage, position, left, stamp, inARow>>
    BY <1>9 DEF StoreSighting
  <2>5. TypeOK' BY <1>1, <2>3, <2>4 DEF TypeOK
  <2>6. AtPlace' BY <1>1, <1>9, <2>3, <2>4 DEF AtPlace, StoreSighting, Feeds
  <2> QED BY <2>5, <2>6
<1>10. CASE BeginIndex
  <2>1. TypeOK' BY <1>1, <1>2, <1>10 DEF BeginIndex, GoTo, TypeOK, Stages, AtPlace
  <2>2. AtPlace' BY <1>10 DEF BeginIndex, GoTo, AtPlace
  <2> QED BY <2>1, <2>2
<1> QED BY <1>5, <1>6, <1>7, <1>8, <1>9, <1>10

\* The addresses an enricher has left are in the index, which can be sorted.
LEMMA LeftIsSortable ==
    ASSUME Inv, stage \in {"enrichers", "lookups"}, position \in DOMAIN Enrichers
    PROVE  /\ IsSortable(entries, Enricher)
           /\ stage = "lookups" => left \subseteq DOMAIN entries
<1>1. Enricher \in Sources BY SetupType DEF Inv, Enricher
<1>2. IsSortable(entries, Enricher) BY <1>1 DEF Inv, EntriesTrue, IsSortable
<1> QED BY <1>2 DEF Inv, DueStillDue, ToCome

\* Indexing and looking up keep them.
LEMMA EnricherStepsKeepTypes ==
    ASSUME Inv, setup' = setup,
           \/ NextFile \/ IndexFile \/ BeginEnricher \/ CancelledBeforeEnricher \/ FinishRun
           \/ EndLookups \/ LookUp \/ LookUpCutShort \/ StoreLookup
    PROVE  TypeOK' /\ AtPlace'
<1>1. TypeOK /\ AtPlace BY DEF Inv
<1>2. position + 1 \in Nat \ {0} /\ 1 \in Nat \ {0} /\ position \in Nat \ {0}
      /\ inARow \in Nat /\ 0 \in Nat /\ log \in Logs /\ left \subseteq Addresses
  BY <1>1 DEF TypeOK
<1>3. \A index \in DOMAIN Enrichers : Enrichers[index] \in Sources BY <1>1, SetupType
<1>4. CASE NextFile
  <2>1. CASE GoesOn
    <3>1. PICK address \in left :
             /\ pending' = {[address |-> address, outcome |-> "answered"]}
             /\ left' = left \ {address} /\ UNCHANGED <<stage, position>>
      BY <1>4, <2>1 DEF NextFile
    <3>2. "answered" \in Outcomes BY DEF Outcomes
    <3>3. TypeOK' BY <1>1, <1>2, <1>4, <3>1, <3>2 DEF NextFile, TypeOK
    <3>4. AtPlace' BY <1>4, <3>1 DEF NextFile, AtPlace
    <3> QED BY <3>3, <3>4
  <2>2. CASE ~GoesOn
    <3>1. TypeOK' BY <1>1, <1>2, <1>4, <2>2 DEF NextFile, GoTo, TypeOK, Stages
    <3>2. AtPlace' BY <1>4, <2>2 DEF NextFile, GoTo, AtPlace
    <3> QED BY <3>1, <3>2
  <2> QED BY <2>1, <2>2
<1>5. CASE IndexFile
  <2>1. PICK visited \in pending :
            \/ UNCHANGED <<files, log>>
            \/ FileWritten(visited.address) /\ WriteLogged
    BY <1>1, <1>5, IndexFileWrites
  <2>2. visited.address \in Addresses BY <1>1, PendingType
  <2>3. /\ DOMAIN files' = Addresses /\ \A other \in Addresses : IsStored(files'[other])
        /\ log' \in Logs /\ log'.startedAt = log.startedAt
    BY <1>1, <2>1, <2>2, WriteKeepsTypes
  <2>4. pending' = {} /\ stage = "indexing" /\ UNCHANGED <<clock, stage, position, left, inARow>>
    BY <1>5 DEF IndexFile
  <2>5. TypeOK' BY <1>1, <2>3, <2>4 DEF TypeOK
  <2>6. AtPlace' BY <2>4 DEF AtPlace
  <2> QED BY <2>5, <2>6
<1>6. CASE BeginEnricher
  <2>1. Enricher \in Sources /\ IsSortable(entries, Enricher)
    BY <1>3, <1>6, LeftIsSortable DEF BeginEnricher, Enricher
  <2>2. left' \subseteq Addresses
    BY <1>6, <2>1 DEF BeginEnricher, SelectDueAddresses, DueAddresses, IsSortable
  <2>3. {Enricher} \X left' \subseteq Sources \X Addresses BY <2>1, <2>2
  <2>4. << >> \in Seq(Outcomes) BY EmptySeq
  <2>5. log' = [log EXCEPT !.reached = log.reached \cup {Enricher},
                           !.duties = log.duties \cup ({Enricher} \X left'),
                           !.outcomes = << >>]
    BY <1>6 DEF BeginEnricher
  <2>6. log' \in Logs /\ log'.startedAt = log.startedAt
    BY <1>2, <2>1, <2>3, <2>4, <2>5 DEF Logs
  <2>7. UNCHANGED <<files, clock, pending, inARow, position>> /\ pending = {}
        /\ stage' = "lookups" /\ position \in DOMAIN Enrichers
    BY <1>1, <1>6 DEF BeginEnricher, AtPlace, GoTo
  <2>8. TypeOK' BY <1>1, <2>2, <2>6, <2>7 DEF TypeOK, Stages
  <2>9. AtPlace' BY <2>7 DEF AtPlace, Enrichers
  <2> QED BY <2>8, <2>9
<1>7. CASE CancelledBeforeEnricher \/ FinishRun
  <2>1. \E problems : EndRun(problems) /\ pending = {}
    BY <1>1, <1>7 DEF CancelledBeforeEnricher, FinishRun, AtPlace
  <2>2. TypeOK' BY <1>1, <1>2, <2>1 DEF EndRun, TypeOK, Stages
  <2>3. AtPlace' BY <2>1 DEF EndRun, AtPlace
  <2> QED BY <2>2, <2>3
<1>8. CASE EndLookups \/ LookUpCutShort
  <2>1. /\ LeaveEnricher({}) /\ pending = {}
        /\ UNCHANGED <<files, clock, pending>>
    BY <1>8 DEF EndLookups, LookUpCutShort
  <2>2. log' \in Logs /\ log'.startedAt = log.startedAt
    <3>1. CASE EndLookups BY <1>2, <3>1 DEF EndLookups
    <3>2. CASE LookUpCutShort
      <4>1. log' = log \/ log' = [log EXCEPT !.late = log.late \cup {Enricher}]
        BY <3>2 DEF LookUpCutShort
      <4>2. Enricher \in Sources BY <1>1, <1>3, <3>2 DEF LookUpCutShort, AtPlace, Enricher
      <4> QED BY <1>2, <4>1, <4>2 DEF Logs
    <3> QED BY <1>8, <3>1, <3>2
  <2>3. TypeOK' BY <1>1, <1>2, <2>1, <2>2 DEF LeaveEnricher, GoTo, TypeOK, Stages
  <2>4. AtPlace' BY <2>1 DEF LeaveEnricher, GoTo, AtPlace
  <2> QED BY <2>3, <2>4
<1>9. CASE LookUp
  <2> DEFINE address == FirstOf(entries, Enricher, left)
  <2>1. address \in left
    <3>1. left # {} /\ stage = "lookups" BY <1>9 DEF LookUp
    <3>2. IsSortable(entries, Enricher) /\ left \in SUBSET DOMAIN entries
      BY <1>1, <3>1, LeftIsSortable DEF AtPlace
    <3> QED BY <3>1, <3>2, FirstIsLeft
  <2> HIDE DEF address
  <2>2. PICK outcome \in Outcomes :
            /\ pending' = {[address |-> address, outcome |-> outcome]}
            /\ left' = left \ {address}
            /\ log' = [log EXCEPT !.outcomes = Append(log.outcomes, outcome)]
    BY <1>9 DEF LookUp, address
  <2>3. Append(log.outcomes, outcome) \in Seq(Outcomes) BY <1>2, AppendProperties DEF Logs
  <2>4. log' \in Logs /\ log'.startedAt = log.startedAt BY <1>2, <2>2, <2>3 DEF Logs
  <2>5. UNCHANGED <<files, clock, stage, position, inARow>> /\ stage = "lookups"
    BY <1>9 DEF LookUp
  <2>6. [address |-> address, outcome |-> outcome] \in [address : Addresses, outcome : Outcomes]
    BY <1>2, <2>1
  <2>7. TypeOK' BY <1>1, <2>1, <2>2, <2>4, <2>5, <2>6 DEF TypeOK
  <2>8. AtPlace' BY <1>1, <2>5 DEF AtPlace, Enrichers
  <2> QED BY <2>7, <2>8
<1>10. CASE StoreLookup
  <2>1. PICK visited \in pending : \E stored \in BOOLEAN :
            /\ AfterLookup(visited.outcome, stored)
            /\ \/ UNCHANGED <<files, log>>
               \/ FileWritten(visited.address) /\ WriteLogged
    BY <1>1, <1>10, StoreLookupWrites
  <2>2. visited.address \in Addresses BY <1>1, PendingType
  <2>3. /\ DOMAIN files' = Addresses /\ \A other \in Addresses : IsStored(files'[other])
        /\ log' \in Logs /\ log'.startedAt = log.startedAt
    BY <1>1, <2>1, <2>2, WriteKeepsTypes
  <2>4. pending' = {} /\ stage = "lookups" /\ UNCHANGED clock BY <1>10 DEF StoreLookup
  <2>5. /\ stage' \in {"enrichers", "lookups"} /\ position' \in Nat \ {0}
        /\ left' \subseteq left /\ inARow' \in Nat
        /\ stage' = "lookups" => position' = position
    BY <1>1, <2>1, <2>4, AfterLookupTypes
  <2>6. TypeOK' BY <1>1, <2>3, <2>4, <2>5 DEF TypeOK, Stages
  <2>7. AtPlace' BY <1>1, <2>4, <2>5 DEF AtPlace, Enrichers
  <2> QED BY <2>6, <2>7
<1> QED BY <1>4, <1>5, <1>6, <1>7, <1>8, <1>9, <1>10

\* And so does all else that happens to a run.
LEMMA StepKeepsTypes ==
    ASSUME Inv, [Next]_vars
    PROVE  TypeOK' /\ AtPlace'
<1>1. TypeOK /\ AtPlace /\ setup' = setup BY StepKeepsSetup DEF Inv
<1>2. clock \in Time /\ clock \in Nat /\ setup.lastMoment \in Nat
  BY <1>1, SetupType, RecordAssumption DEF Time
<1>3. CASE Step \/ StartRun
  BY <1>1, <1>3, FeedStepsKeepTypes, EnricherStepsKeepTypes DEF Step
<1>4. CASE Cancel \/ Expire \/ UNCHANGED vars
  <2>1. UNCHANGED <<setup, files, clock, stage, position, left, pending, stamp, inARow, log>>
    BY <1>1, <1>4 DEF Cancel, Expire, vars
  <2> QED BY <1>1, <2>1 DEF TypeOK, AtPlace, Feeds, Enrichers
<1>5. CASE Kill
  <2>1. log' \in Logs /\ log'.startedAt = clock BY <1>2, <1>5, FreshLogType DEF Kill
  <2>2. TypeOK' BY <1>1, <1>2, <1>5, <2>1 DEF Kill, GoTo, TypeOK, Stages
  <2>3. AtPlace' BY <1>5 DEF Kill, GoTo, AtPlace
  <2> QED BY <2>2, <2>3
<1>6. CASE Tick
  <2>1. UNCHANGED <<setup, files, stage, position, left, pending, stamp, inARow, log>>
        /\ clock' = clock + 1 /\ clock < setup.lastMoment
    BY <1>1, <1>6 DEF Tick
  <2>2. log.startedAt \in Nat /\ log.startedAt <= clock
    BY <1>1, RecordAssumption DEF TypeOK, Logs, Time
  <2>3. clock' \in 1..setup.lastMoment /\ log.startedAt <= clock' BY <1>2, <2>1, <2>2
  <2> QED BY <1>1, <2>1, <2>3 DEF TypeOK, AtPlace, Feeds, Enrichers
<1> QED BY <1>3, <1>4, <1>5, <1>6 DEF Next

-----------------------------------------------------------------------------
(* Cancelled runs *)

\* A cancelled run gets to no further address, so it writes once at most.
LEMMA StepKeepsWriteCounted ==
    ASSUME Inv, [Next]_vars
    PROVE  WriteCounted'
<1>1. TypeOK /\ AtPlace /\ WriteCounted BY DEF Inv
<1>2. log.afterCancel \in Nat BY <1>1 DEF TypeOK, Logs
<1>3. CASE StartRun \/ Kill
  BY <1>3 DEF StartRun, Kill, FreshLog, WriteCounted, AtMostOneWriteAfterCancel
<1>4. CASE /\ log'.afterCancel = log.afterCancel /\ cancelled' = cancelled
           /\ pending' = {} \/ pending' = pending \/ ~cancelled
  BY <1>1, <1>4 DEF WriteCounted, AtMostOneWriteAfterCancel
<1>5. CASE Cancel
  BY <1>1, <1>5 DEF Cancel, WriteCounted, AtMostOneWriteAfterCancel
<1>6. CASE StoreSighting \/ IndexFile \/ StoreLookup
  <2>1. pending # {} /\ (WriteLogged \/ log' = log)
    BY <1>1, <1>6, StoreSightingWrites, IndexFileWrites, StoreLookupWrites
  <2>2. log.afterCancel = 0 BY <1>1, <2>1 DEF WriteCounted
  <2>3. \/ log'.afterCancel = 0
        \/ cancelled /\ log'.afterCancel = 1
    BY <1>1, <2>1, <2>2 DEF WriteLogged, TypeOK, Logs
  <2>4. pending' = {} /\ cancelled' = cancelled
    BY <1>6 DEF StoreSighting, IndexFile, StoreLookup
  <2> QED BY <2>3, <2>4 DEF WriteCounted, AtMostOneWriteAfterCancel
<1>7. CASE NextSighting \/ NextFile
  <2>1. UNCHANGED <<log, cancelled>> BY <1>7 DEF NextSighting, NextFile
  <2>2. pending' = pending \/ ~cancelled BY <1>7 DEF NextSighting, NextFile, GoesOn
  <2> QED BY <2>1, <2>2, <1>4
<1>8. CASE LookUp \/ CollectFeed \/ BeginEnricher
  <2>1. cancelled' = cancelled /\ ~cancelled
    BY <1>8 DEF LookUp, CollectFeed, BeginEnricher
  <2>2. log'.afterCancel = log.afterCancel
    BY <1>1, <1>8 DEF LookUp, CollectFeed, BeginEnricher, TypeOK, Logs
  <2> QED BY <2>1, <2>2, <1>4
<1>9. CASE LookUpCutShort
  <2>1. UNCHANGED <<cancelled, pending>> BY <1>9 DEF LookUpCutShort
  <2>2. log'.afterCancel = log.afterCancel BY <1>1, <1>9 DEF LookUpCutShort, TypeOK, Logs
  <2> QED BY <2>1, <2>2, <1>4
<1>10. CASE \/ CancelledBeforeFeed \/ BeginIndex \/ CancelledBeforeEnricher \/ FinishRun
            \/ EndLookups \/ Expire \/ Tick \/ UNCHANGED vars
  <2>1. UNCHANGED <<cancelled, pending, log>>
    BY <1>10 DEF CancelledBeforeFeed, BeginIndex, CancelledBeforeEnricher, FinishRun, EndRun,
                 EndLookups, Expire, Tick, vars
  <2> QED BY <2>1, <1>4
<1> QED BY <1>3, <1>5, <1>6, <1>7, <1>8, <1>9, <1>10 DEF Next, Step

-----------------------------------------------------------------------------
(* Outages *)

\* Failed lookups can be counted.
LEMMA FailedProperties ==
    ASSUME TypeOK, NEW from \in Nat, NEW to \in Nat
    PROVE  IsFiniteSet(Failed(from, to)) /\ Cardinality(Failed(from, to)) \in Nat
<1>1. IsFiniteSet(from..to) BY FS_Interval
<1>2. Failed(from, to) \in SUBSET (from..to) BY DEF Failed
<1> QED BY <1>1, <1>2, FS_Subset, FS_CardinalityType

\* An outcome more.
LEMMA OneMoreOutcome ==
    ASSUME TypeOK, NEW from \in Nat, NEW to \in Nat, from <= to + 1
    PROVE  /\ log.outcomes[to + 1] = "failed" =>
                 Cardinality(Failed(from, to + 1)) = Cardinality(Failed(from, to)) + 1
           /\ log.outcomes[to + 1] # "failed" => Failed(from, to + 1) = Failed(from, to)
<1>1. from..to + 1 = (from..to) \cup {to + 1} OBVIOUS
<1>2. to + 1 \notin from..to OBVIOUS
<1>3. CASE log.outcomes[to + 1] = "failed"
  <2>1. /\ Failed(from, to + 1) = Failed(from, to) \cup {to + 1}
        /\ to + 1 \notin Failed(from, to)
    BY <1>1, <1>2, <1>3 DEF Failed
  <2> QED BY <1>3, <2>1, FailedProperties, FS_AddElement
<1>4. CASE log.outcomes[to + 1] # "failed"
  BY <1>1, <1>4 DEF Failed
<1> QED BY <1>3, <1>4

\* The outcome of the lookup that is stored.
LEMMA CountGoesOn ==
    ASSUME TypeOK, NEW to \in Nat, CountedUpTo(to, inARow),
           log.outcomes[to + 1] \in Outcomes, log.outcomes[to + 1] # "stopping"
    PROVE  CountedUpTo(to + 1, FailuresInARow(log.outcomes[to + 1]))
<1> DEFINE outcome == log.outcomes[to + 1]
           count == FailuresInARow(outcome)
<1>1. inARow \in Nat BY DEF TypeOK
<1>2. /\ outcome = "rejected" => count = inARow
      /\ outcome = "failed" => count = inARow + 1
      /\ outcome \in {"answered", "rejected", "failed"}
  BY DEF FailuresInARow, Outcomes
<1>3. ASSUME NEW from \in 1..to + 1
      PROVE  log.outcomes[from] # "stopping"
  BY <1>3 DEF CountedUpTo
<1>4. ASSUME NEW from \in 1..to + 1, \A index \in from..to + 1 : log.outcomes[index] # "answered"
      PROVE  Cardinality(Failed(from, to + 1)) <= count
  <2>1. outcome # "answered" BY <1>4
  <2>2. /\ Cardinality(Failed(from, to)) <= inARow
        /\ Cardinality(Failed(from, to)) \in Nat
    <3>1. CASE from = to + 1
      <4>1. Failed(from, to) = {} BY <3>1 DEF Failed
      <4> QED BY <4>1, <1>1, FS_EmptySet
    <3>2. CASE from # to + 1
      <4>1. from \in 1..to /\ \A index \in from..to : log.outcomes[index] # "answered"
        BY <1>4, <3>2
      <4>2. Cardinality(Failed(from, to)) <= inARow BY <4>1 DEF CountedUpTo
      <4> QED BY <4>2, FailedProperties
    <3> QED BY <3>1, <3>2
  <2>3. /\ outcome = "failed" =>
              Cardinality(Failed(from, to + 1)) = Cardinality(Failed(from, to)) + 1
        /\ outcome # "failed" => Failed(from, to + 1) = Failed(from, to)
    BY <1>4, OneMoreOutcome
  <2>4. CASE outcome = "failed" BY <1>1, <1>2, <2>2, <2>3, <2>4
  <2>5. CASE outcome = "rejected"
    <3>1. Failed(from, to + 1) = Failed(from, to) BY <2>3, <2>5
    <3>2. count = inARow BY <1>2, <2>5
    <3> QED BY <2>2, <3>1, <3>2
  <2> QED BY <1>2, <2>1, <2>4, <2>5
<1> HIDE DEF count, outcome
<1>5. CountedUpTo(to + 1, count) BY <1>3, <1>4 DEF CountedUpTo
<1> QED BY <1>5 DEF count, outcome

\* Every lookup is counted as AfterLookup says, so an outage stops the enricher.
LEMMA StepKeepsFailuresCounted ==
    ASSUME Inv, [Next]_vars
    PROVE  FailuresCounted' /\ OutageStopsEnricher'
<1>1. TypeOK /\ AtPlace /\ FailuresCounted /\ OutageStopsEnricher BY DEF Inv
<1>2. /\ inARow \in Nat /\ MaxConsecutiveLookupFailures \in Nat \ {0}
      /\ log.outcomes \in Seq(Outcomes) /\ Len(log.outcomes) \in Nat
      /\ DOMAIN log.outcomes = 1..Len(log.outcomes)
  <2>1. log.outcomes \in Seq(Outcomes) BY <1>1 DEF TypeOK, Logs
  <2> QED BY <1>1, <2>1, AggregatorAssumption, LenProperties DEF TypeOK
<1>3. CASE /\ log'.outcomes = log.outcomes
           /\ stage' # "lookups" /\ inARow' = 0
  BY <1>1, <1>3 DEF FailuresCounted, OutageStopsEnricher
<1>4. CASE /\ log'.outcomes = log.outcomes
           /\ UNCHANGED <<stage, inARow>>
           /\ pending' = pending \/ stage # "lookups"
  BY <1>1, <1>4 DEF FailuresCounted, OutageStopsEnricher, Stored, Failed, CountedUpTo
<1>5. CASE StartRun \/ Kill
  <2>1. log'.outcomes = << >> /\ stage' # "lookups" /\ inARow' = 0
    BY <1>5 DEF StartRun, Kill, GoTo, FreshLog
  <2> QED BY <2>1 DEF FailuresCounted, OutageStopsEnricher
<1>6. CASE BeginEnricher
  <2>1. log'.outcomes = << >> BY <1>1, <1>6 DEF BeginEnricher, TypeOK, Logs
  <2>2. pending' = {} BY <1>1, <1>6 DEF BeginEnricher, AtPlace
  <2>3. inARow' = 0 BY <1>1, <1>6 DEF BeginEnricher, FailuresCounted
  <2>4. Stored' = 0 BY <2>1, <2>2 DEF Stored
  <2>5. 0 < MaxConsecutiveLookupFailures BY <1>2
  <2>6. stage' = "lookups" BY <1>6 DEF BeginEnricher, GoTo
  <2>7. FailuresCounted' BY <2>2, <2>3, <2>4, <2>5, <2>6 DEF FailuresCounted, CountedUpTo
  <2> QED BY <2>1, <2>7 DEF OutageStopsEnricher
<1>7. CASE LookUp
  <2>7. PICK last \in Nat : last = Len(log.outcomes) BY <1>2
  <2>1. PICK outcome \in Outcomes :
            /\ \E address : pending' = {[address |-> address, outcome |-> outcome]}
            /\ log' = [log EXCEPT !.outcomes = Append(log.outcomes, outcome)]
    BY <1>7 DEF LookUp
  <2>2. /\ log'.outcomes \in Seq(Outcomes) /\ Len(log'.outcomes) = last + 1
        /\ \A index \in 1..last : log'.outcomes[index] = log.outcomes[index]
        /\ log'.outcomes[last + 1] = outcome
    <3>1. log'.outcomes = Append(log.outcomes, outcome) BY <1>1, <2>1 DEF TypeOK, Logs
    <3> QED BY <1>2, <2>7, <3>1, AppendProperties
  <2>3. pending = {} /\ stage = "lookups" /\ UNCHANGED <<stage, inARow>> BY <1>7 DEF LookUp
  <2>4. Stored = last BY <2>3, <2>7 DEF Stored
  <2>5. Stored' = last
    <3>1. pending' # {} /\ Len(log'.outcomes) - 1 = last BY <2>1, <2>2, <2>7
    <3> QED BY <3>1 DEF Stored
  <2>6. inARow < MaxConsecutiveLookupFailures /\ CountedUpTo(last, inARow)
    BY <1>1, <2>3, <2>4 DEF FailuresCounted
  <2>8. ASSUME NEW from \in 1..last PROVE Failed(from, last)' = Failed(from, last)
    <3>1. from..last \subseteq 1..last BY <2>7
    <3> QED BY <2>2, <3>1 DEF Failed
  <2>9. CountedUpTo(last, inARow)'
    <3> SUFFICES ASSUME NEW from \in 1..last
                 PROVE  /\ log'.outcomes[from] # "stopping"
                        /\ (\A index \in from..last : log'.outcomes[index] # "answered") =>
                              Cardinality(Failed(from, last)') <= inARow
      BY <2>3 DEF CountedUpTo
    <3>1. from..last \subseteq 1..last BY <2>7
    <3> QED BY <2>2, <2>6, <2>8, <3>1 DEF CountedUpTo
  <2>10. OutageStopsEnricher'
    <3>1. Len(log'.outcomes) - 1 = last BY <2>2, <2>7
    <3>2. ASSUME NEW from \in 1..last,
                 \A index \in from..last : log'.outcomes[index] # "answered"
          PROVE  Cardinality(Failed(from, last)') < MaxConsecutiveLookupFailures
      <4>1. Cardinality(Failed(from, last)') <= inARow BY <2>3, <2>9, <3>2 DEF CountedUpTo
      <4>2. Cardinality(Failed(from, last)') \in Nat
        BY <1>1, <2>7, <2>8, <3>2, FailedProperties
      <4> QED BY <1>2, <2>6, <4>1, <4>2
    <3>3. \A from \in 1..last : log'.outcomes[from] # "stopping" BY <2>9 DEF CountedUpTo
    <3> QED BY <3>1, <3>2, <3>3 DEF OutageStopsEnricher, Failed
  <2>11. FailuresCounted'
    <3>1. log'.outcomes # << >> /\ log'.outcomes[Len(log'.outcomes)] = outcome
      BY <2>2, <2>7, EmptySeq
    <3>2. \A visited \in pending' : visited.outcome = outcome BY <2>1
    <3>3. CountedUpTo(Stored, inARow)' BY <2>3, <2>5, <2>9
    <3> QED BY <2>3, <2>6, <3>1, <3>2, <3>3 DEF FailuresCounted
  <2> QED BY <2>10, <2>11
<1>8. CASE StoreLookup
  <2>1. PICK visited \in pending : \E stored \in BOOLEAN :
            /\ AfterLookup(visited.outcome, stored)
            /\ WriteLogged \/ log' = log
    BY <1>1, <1>8, StoreLookupWrites
  <2>2. PICK stored \in BOOLEAN : AfterLookup(visited.outcome, stored) BY <2>1
  <2>3. log'.outcomes = log.outcomes BY <1>1, <2>1 DEF WriteLogged, TypeOK, Logs
  <2>4. stage = "lookups" /\ pending' = {} BY <1>8 DEF StoreLookup
  <2>5. CASE \E problems : LeaveEnricher(problems)
    <3>1. stage' # "lookups" /\ inARow' = 0 BY <2>5 DEF LeaveEnricher, GoTo
    <3> QED BY <1>3, <2>3, <3>1
  <2>6. CASE /\ inARow' = FailuresInARow(visited.outcome) /\ stage' = stage
             /\ visited.outcome # "stopping"
             /\ visited.outcome = "failed" =>
                   ~(FailuresInARow(visited.outcome) >= MaxConsecutiveLookupFailures)
    <3>1. log.outcomes # << >> /\ log.outcomes[Len(log.outcomes)] = visited.outcome
          /\ inARow < MaxConsecutiveLookupFailures /\ CountedUpTo(Stored, inARow)
      BY <1>1, <2>4 DEF FailuresCounted
    <3>2. PICK to \in Nat : Len(log.outcomes) = to + 1
      <4>1. Len(log.outcomes) \in Nat \ {0} BY <1>2, <3>1, EmptySeq
      <4> QED BY <4>1
    <3>3. Stored = to BY <3>2 DEF Stored
    <3>4. visited.outcome \in Outcomes /\ log.outcomes[to + 1] = visited.outcome
      BY <1>1, <3>1, <3>2, PendingType
    <3>5. CountedUpTo(to + 1, inARow')
      BY <1>1, <2>6, <3>1, <3>3, <3>4, CountGoesOn
    <3>6. Stored' = to + 1 BY <2>3, <2>4, <3>2 DEF Stored
    <3>7. CountedUpTo(Stored, inARow)' BY <2>3, <3>5, <3>6 DEF CountedUpTo, Failed
    <3>8. inARow' < MaxConsecutiveLookupFailures
      BY <1>2, <2>6, <3>1, <3>4 DEF FailuresInARow, Outcomes
    <3>9. FailuresCounted' BY <2>4, <2>6, <3>7, <3>8 DEF FailuresCounted
    <3> QED BY <1>1, <2>3, <3>9 DEF OutageStopsEnricher
  <2> QED BY <2>2, <2>5, <2>6 DEF AfterLookup
<1>9. CASE EndLookups \/ LookUpCutShort
  <2>1. stage' # "lookups" /\ inARow' = 0
    BY <1>9 DEF EndLookups, LookUpCutShort, LeaveEnricher, GoTo
  <2>2. log'.outcomes = log.outcomes
    BY <1>1, <1>9 DEF EndLookups, LookUpCutShort, TypeOK, Logs
  <2> QED BY <1>3, <2>1, <2>2
<1>10. CASE \/ CollectFeed \/ CancelledBeforeFeed \/ NextSighting \/ StoreSighting
            \/ BeginIndex \/ NextFile \/ IndexFile \/ CancelledBeforeEnricher \/ FinishRun
  <2>1. stage # "lookups" /\ stage' # "lookups" /\ inARow' = inARow
    BY <1>10 DEF CollectFeed, CancelledBeforeFeed, NextSighting, StoreSighting, BeginIndex,
                 NextFile, IndexFile, CancelledBeforeEnricher, FinishRun, EndRun, GoTo
  <2>2. log'.outcomes = log.outcomes
    <3>1. CASE CollectFeed BY <1>1, <3>1 DEF CollectFeed, TypeOK, Logs
    <3>2. CASE StoreSighting \/ IndexFile
      <4>1. WriteLogged \/ log' = log
        BY <1>1, <3>2, StoreSightingWrites, IndexFileWrites
      <4> QED BY <1>1, <4>1 DEF WriteLogged, TypeOK, Logs
    <3>3. CASE log' = log BY <3>3
    <3> QED
      BY <1>10, <3>1, <3>2, <3>3
      DEF CancelledBeforeFeed, NextSighting, BeginIndex, NextFile, CancelledBeforeEnricher,
          FinishRun, EndRun
  <2>3. inARow' = 0 BY <1>1, <2>1 DEF FailuresCounted
  <2> QED BY <1>3, <2>1, <2>2, <2>3
<1>11. CASE Cancel \/ Expire \/ Tick \/ UNCHANGED vars
  <2>1. UNCHANGED <<log, stage, inARow, pending>> BY <1>11 DEF Cancel, Expire, Tick, vars
  <2> QED BY <2>1, <1>4
<1> QED BY <1>5, <1>6, <1>7, <1>8, <1>9, <1>10, <1>11 DEF Next, Step

-----------------------------------------------------------------------------
(* The index *)

\* The attempts files keep can be compared.
LEMMA NaturalAttempts ==
    ASSUME TypeOK
    PROVE  \A address \in Addresses : \A source : AttemptAt(files[address], source) \in Nat
BY StoredFile, RecordAssumption DEF TypeOK, Moment

\* The steps after which the run is at no stage that uses the index.
LEMMA StepsWithoutIndex ==
    ASSUME \/ StartRun \/ CollectFeed \/ CancelledBeforeFeed \/ NextSighting \/ StoreSighting
           \/ CancelledBeforeEnricher \/ FinishRun \/ Kill
    PROVE  /\ stage' \in {"idle", "feeds", "sightings", "ended"}
           /\ stage' \in {"feeds", "sightings"} =>
                 entries' = NoEntries \/ (stage \in {"feeds", "sightings"} /\ entries' = entries)
BY DEF StartRun, CollectFeed, CancelledBeforeFeed, NextSighting, StoreSighting,
       CancelledBeforeEnricher, FinishRun, Kill, EndRun, GoTo

\* An entry is made of the file it is about, which stays in the current format.
LEMMA StepKeepsEntriesTrue ==
    ASSUME Inv, [Next]_vars
    PROVE  EntriesTrue'
<1>1. TypeOK /\ AtPlace /\ EntriesTrue BY DEF Inv
<1>2. CASE \/ StartRun \/ CollectFeed \/ CancelledBeforeFeed \/ NextSighting \/ StoreSighting
           \/ CancelledBeforeEnricher \/ FinishRun \/ Kill
  <2>1. DOMAIN NoEntries = {} BY DEF NoEntries
  <2>2. stage' \in {"feeds", "sightings"} => DOMAIN entries' = {}
    BY <1>1, <1>2, <2>1, StepsWithoutIndex DEF EntriesTrue
  <2>3. stage' \notin {"indexing", "enrichers", "lookups"} BY <1>2, StepsWithoutIndex
  <2> QED BY <2>2, <2>3 DEF EntriesTrue
<1>3. CASE BeginIndex
  <2>1. stage' = "indexing" /\ entries' = entries /\ stage = "feeds"
    BY <1>3 DEF BeginIndex, GoTo
  <2>2. DOMAIN entries' = {} BY <1>1, <2>1 DEF EntriesTrue
  <2> QED BY <2>1, <2>2 DEF EntriesTrue
<1>4. CASE /\ UNCHANGED <<files, entries>>
           /\ \/ stage' = stage
              \/ /\ stage \in {"indexing", "enrichers", "lookups"}
                 /\ stage' \in {"enrichers", "lookups"}
  BY <1>1, <1>4 DEF EntriesTrue
<1>5. CASE Cancel \/ Expire \/ Tick \/ UNCHANGED vars
  <2>1. UNCHANGED <<files, entries, stage>> BY <1>5 DEF Cancel, Expire, Tick, vars
  <2> QED BY <2>1, <1>4
<1>6. CASE NextFile \/ BeginEnricher \/ EndLookups \/ LookUp \/ LookUpCutShort
  <2>1. /\ UNCHANGED <<files, entries>>
        /\ \/ stage' = stage
           \/ /\ stage \in {"indexing", "enrichers", "lookups"}
              /\ stage' \in {"enrichers", "lookups"}
    BY <1>6 DEF NextFile, BeginEnricher, EndLookups, LookUp, LookUpCutShort, LeaveEnricher, GoTo
  <2> QED BY <2>1, <1>4
<1>7. CASE IndexFile
  <2>1. stage' = stage /\ stage = "indexing" BY <1>7 DEF IndexFile
  <2>2. PICK visited \in pending :
          \/ UNCHANGED <<files, entries, log>>
          \/ /\ FileWritten(visited.address)
             /\ AttemptsKept(visited.address, Sources)
             /\ DOMAIN entries' = DOMAIN entries \cup {visited.address}
             /\ \A other \in DOMAIN entries \ {visited.address} :
                   entries'[other] = entries[other]
             /\ entries'[visited.address].firstSeen \in Nat
             /\ \A name \in Sources : AttemptOf(entries'[visited.address], name)
                   = AttemptAt(files'[visited.address], name)
    BY <1>1, <1>7, IndexFileWrites
  <2>3. CASE UNCHANGED <<files, entries, log>> BY <1>4, <2>1, <2>3
  <2>4. CASE FileWritten(visited.address) /\ ~UNCHANGED <<files, entries, log>>
    <3> DEFINE at == visited.address
    <3>1. at \in Addresses BY <1>1, PendingType
    <3>2. AttemptsKept(at, Sources) /\ DOMAIN entries' = DOMAIN entries \cup {at}
      BY <2>2, <2>4
    <3>3. ASSUME NEW address \in DOMAIN entries'
          PROVE  /\ address \in Addresses
                 /\ files'[address].version = 2
                 /\ entries'[address].firstSeen \in Nat
                 /\ \A name \in Sources :
                       /\ AttemptOf(entries'[address], name) = AttemptAt(files'[address], name)
                       /\ AttemptOf(entries'[address], name) \in Nat
      <4>1. CASE address = at
        <5>1. files'[at].version = 2 BY <2>4 DEF FileWritten
        <5>2. /\ entries'[at].firstSeen \in Nat
              /\ \A name \in Sources : AttemptOf(entries'[at], name) = AttemptAt(files'[at], name)
          BY <2>2, <2>4
        <5>3. \A name \in Sources : AttemptAt(files'[at], name) \in Nat
          BY <1>1, <3>1, <3>2, NaturalAttempts DEF AttemptsKept
        <5> QED BY <3>1, <4>1, <5>1, <5>2, <5>3
      <4>2. CASE address # at
        <5>1. address \in DOMAIN entries /\ entries'[address] = entries[address]
          BY <2>2, <2>4, <3>3, <4>2
        <5>2. /\ address \in Addresses /\ files[address].version = 2
              /\ entries[address].firstSeen \in Nat
              /\ \A name \in Sources :
                    /\ AttemptOf(entries[address], name) = AttemptAt(files[address], name)
                    /\ AttemptOf(entries[address], name) \in Nat
          BY <1>1, <2>1, <5>1 DEF EntriesTrue
        <5>3. files'[address] = files[address] BY <2>4, <4>2, <5>2 DEF FileWritten
        <5> QED BY <5>1, <5>2, <5>3
      <4> QED BY <4>1, <4>2
    <3> QED BY <2>1, <3>3 DEF EntriesTrue
  <2> QED BY <2>2, <2>3, <2>4
<1>8. CASE StoreLookup
  <2>1. stage = "lookups" /\ entries' = entries BY <1>8 DEF StoreLookup
  <2>2. PICK visited \in pending :
            /\ \E stored : AfterLookup(visited.outcome, stored)
            /\ files' = files \/ FileWritten(visited.address)
    BY <1>1, <1>8, StoreLookupWrites
  <2>3. stage' \in {"enrichers", "lookups"} BY <1>1, <2>1, <2>2, AfterLookupTypes
  <2>4. \A address \in DOMAIN entries : files'[address].version = 2
    BY <1>1, <2>1, <2>2 DEF EntriesTrue, FileWritten
  <2> QED BY <1>1, <2>1, <2>3, <2>4 DEF EntriesTrue
<1> QED BY <1>2, <1>3, <1>5, <1>6, <1>7, <1>8 DEF Next, Step

\* A lookup only changes the attempt of the enricher at that address, so the
\* entries stay true for the other addresses and for the enrichers to come.
LEMMA StepKeepsIndexTrue ==
    ASSUME Inv, [Next]_vars
    PROVE  IndexStaysTrue'
<1>1. TypeOK /\ AtPlace /\ EntriesTrue /\ IndexStaysTrue /\ position \in Nat
  BY DEF Inv, TypeOK
<1>2. Enrichers' = Enrichers /\ DOMAIN Enrichers \subseteq Nat
      /\ \A index \in DOMAIN Enrichers : Enrichers[index] \in Sources
  BY <1>1, StepKeepsSetup, SetupType
<1>3. CASE stage' \notin {"enrichers", "lookups"} BY <1>3 DEF IndexStaysTrue
<1>4. CASE /\ UNCHANGED <<files, entries>> /\ stage \in {"enrichers", "lookups"}
           /\ \/ stage' = stage /\ position' = position /\ left' \subseteq left
              \/ stage = "enrichers" /\ position' = position
              \/ stage' = "enrichers" /\ position' = position + 1
  <2> SUFFICES ASSUME NEW index \in DOMAIN Enrichers, NEW address \in DOMAIN entries,
                      \/ index > position'
                      \/ index = position' /\ (stage' = "lookups" => address \in left')
               PROVE  AttemptOf(entries[address], Enrichers[index])
                        = AttemptAt(files[address], Enrichers[index])
    BY <1>2, <1>4 DEF IndexStaysTrue
  <2>1. \/ index > position
        \/ index = position /\ (stage = "lookups" => address \in left)
    BY <1>1, <1>2, <1>4
  <2> QED BY <1>1, <1>4, <2>1 DEF IndexStaysTrue
<1>5. CASE Cancel \/ Expire \/ Tick \/ UNCHANGED vars
  <2>1. UNCHANGED <<files, entries, stage, position, left>>
    BY <1>5 DEF Cancel, Expire, Tick, vars
  <2> QED BY <1>3, <1>4, <2>1
<1>6. CASE NextFile
  <2>1. stage = "indexing" /\ UNCHANGED <<files, entries>> BY <1>6 DEF NextFile
  <2> QED BY <1>1, <1>2, <2>1 DEF EntriesTrue, IndexStaysTrue
<1>7. CASE BeginEnricher \/ EndLookups \/ LookUp \/ LookUpCutShort
  <2>1. /\ UNCHANGED <<files, entries>> /\ stage \in {"enrichers", "lookups"}
        /\ \/ stage' = stage /\ position' = position /\ left' \subseteq left
           \/ stage = "enrichers" /\ position' = position
           \/ stage' = "enrichers" /\ position' = position + 1
    BY <1>7 DEF BeginEnricher, EndLookups, LookUp, LookUpCutShort, LeaveEnricher, GoTo
  <2> QED BY <1>4, <2>1
<1>8. CASE StoreLookup
  <2>1. stage = "lookups" /\ entries' = entries BY <1>8 DEF StoreLookup
  <2>2. PICK visited \in pending :
            /\ \E stored : AfterLookup(visited.outcome, stored)
            /\ \/ files' = files
               \/ /\ FileWritten(visited.address)
                  /\ AttemptsKept(visited.address, Sources \ {Enricher})
    BY <1>1, <1>8, StoreLookupWrites
  <2>3. \/ stage' = "lookups" /\ position' = position /\ left' = left
        \/ stage' = "enrichers" /\ position' = position + 1
    BY <2>1, <2>2 DEF AfterLookup, LeaveEnricher, GoTo
  <2> SUFFICES ASSUME NEW index \in DOMAIN Enrichers, NEW address \in DOMAIN entries,
                      \/ index > position'
                      \/ index = position' /\ (stage' = "lookups" => address \in left')
               PROVE  AttemptOf(entries[address], Enrichers[index])
                        = AttemptAt(files'[address], Enrichers[index])
    BY <1>2, <2>1 DEF IndexStaysTrue
  <2>4. index > position \/ (index = position /\ address \in left)
    BY <1>1, <1>2, <2>3
  <2>5. AttemptOf(entries[address], Enrichers[index])
            = AttemptAt(files[address], Enrichers[index])
    BY <1>1, <2>1, <2>4 DEF IndexStaysTrue
  <2>6. address \in Addresses BY <1>1, <2>1 DEF EntriesTrue
  <2>7. CASE index = position /\ address \in left
    <3>1. address # visited.address BY <1>1, <2>7, PendingType
    <3>2. files'[address] = files[address] BY <2>2, <2>6, <3>1 DEF FileWritten
    <3> QED BY <2>5, <3>2
  <2>8. CASE index > position
    <3>1. position \in DOMAIN Enrichers BY <1>1, <2>1 DEF AtPlace
    <3>2. index # position BY <1>1, <1>2, <2>8
    <3>3. Enrichers[index] \in Sources \ {Enricher}
      BY <1>1, <1>2, <3>1, <3>2, SetupType DEF Enricher
    <3>4. AttemptAt(files'[address], Enrichers[index])
              = AttemptAt(files[address], Enrichers[index])
      BY <2>2, <2>6, <3>3 DEF FileWritten, AttemptsKept
    <3> QED BY <2>5, <3>4
  <2> QED BY <2>4, <2>7, <2>8
<1>9. CASE BeginIndex \/ IndexFile
  <2>1. stage' = "indexing" BY <1>9 DEF BeginIndex, IndexFile, GoTo
  <2> QED BY <1>3, <2>1
<1>10. CASE \/ StartRun \/ CollectFeed \/ CancelledBeforeFeed \/ NextSighting \/ StoreSighting
            \/ CancelledBeforeEnricher \/ FinishRun \/ Kill
  <2>1. stage' \notin {"enrichers", "lookups"} BY <1>10, StepsWithoutIndex
  <2> QED BY <1>3, <2>1
<1> QED BY <1>5, <1>6, <1>7, <1>8, <1>9, <1>10 DEF Next, Step

-----------------------------------------------------------------------------
(* Due addresses *)

\* An address that was selected stays due until it is looked up.
LEMMA StepKeepsDue ==
    ASSUME Inv, [Next]_vars
    PROVE  DueStillDue'
<1>1. TypeOK /\ AtPlace /\ EntriesTrue /\ IndexStaysTrue /\ DueStillDue BY DEF Inv
<1>2. /\ Enrichers' = Enrichers /\ Limits' = Limits /\ clock \in Nat
      /\ \A index \in DOMAIN Enrichers :
            Enrichers[index] \in Sources /\ Limits[Enrichers[index]].refreshAfter \in Nat
  BY <1>1, StepKeepsSetup, SetupType
<1>3. CASE stage' # "lookups" BY <1>3 DEF DueStillDue
<1>4. CASE /\ stage = "lookups" /\ ToCome' \subseteq ToCome /\ UNCHANGED <<entries, position>>
           /\ clock' \in {clock, clock + 1}
           /\ \A address \in ToCome' : files'[address] = files[address]
  <2> SUFFICES ASSUME NEW address \in ToCome'
               PROVE  /\ address \in DOMAIN entries
                      /\ \/ AttemptAt(files[address], Enricher) = ZeroTime
                         \/ AttemptAt(files[address], Enricher)
                              + Limits[Enricher].refreshAfter <= clock'
    BY <1>2, <1>4 DEF DueStillDue, Enricher
  <2>1. /\ address \in DOMAIN entries
        /\ \/ AttemptAt(files[address], Enricher) = ZeroTime
           \/ AttemptAt(files[address], Enricher) + Limits[Enricher].refreshAfter <= clock
    BY <1>1, <1>4 DEF DueStillDue
  <2>2. AttemptAt(files[address], Enricher) \in Nat
    BY <1>1, <1>4, <2>1, NaturalAttempts DEF EntriesTrue
  <2>3. Limits[Enricher].refreshAfter \in Nat BY <1>1, <1>2, <1>4 DEF AtPlace, Enricher
  <2> QED BY <1>2, <1>4, <2>1, <2>2, <2>3
<1>5. CASE Cancel \/ Expire \/ Tick \/ UNCHANGED vars
  <2>1. /\ UNCHANGED <<files, stage, entries, position, left, pending>>
        /\ clock' \in {clock, clock + 1}
    BY <1>5 DEF Cancel, Expire, Tick, vars
  <2> QED BY <1>3, <1>4, <2>1 DEF ToCome
<1>6. CASE BeginEnricher
  <2>1. /\ stage = "enrichers" /\ position \in DOMAIN Enrichers
        /\ left' = SelectDueAddresses(entries, Enricher, Limits[Enricher], clock)
        /\ UNCHANGED <<files, clock, pending, entries, position>> /\ pending = {}
    BY <1>1, <1>6 DEF BeginEnricher, AtPlace, GoTo
  <2>2. Enricher' = Enricher BY <1>2, <2>1 DEF Enricher
  <2>3. ASSUME NEW address \in ToCome'
        PROVE  /\ address \in DOMAIN entries
               /\ \/ AttemptAt(files[address], Enricher) = ZeroTime
                  \/ AttemptAt(files[address], Enricher)
                       + Limits[Enricher].refreshAfter <= clock
    <3>1. address \in left' BY <2>1, <2>3 DEF ToCome
    <3>2. address \in DOMAIN entries
          /\ IsDue(entries[address], Enricher, Limits[Enricher], clock)
      BY <2>1, <3>1 DEF SelectDueAddresses, DueAddresses
    <3>3. Enricher \in Sources /\ Limits[Enricher].refreshAfter \in Nat
      BY <1>2, <2>1 DEF Enricher
    <3>4. AttemptOf(entries[address], Enricher) = AttemptAt(files[address], Enricher)
      BY <1>1, <2>1, <3>2 DEF IndexStaysTrue, Enricher
    <3>5. AttemptAt(files[address], Enricher) \in Nat
      BY <1>1, <2>1, <3>2, NaturalAttempts DEF EntriesTrue
    <3>6. \/ AttemptOf(entries[address], Enricher) = ZeroTime
          \/ AttemptOf(entries[address], Enricher) <= clock - Limits[Enricher].refreshAfter
      BY <3>2 DEF IsDue, AttemptOf, ZeroTime
    <3> QED BY <1>2, <3>2, <3>3, <3>4, <3>5, <3>6
  <2> QED BY <1>2, <2>1, <2>2, <2>3 DEF DueStillDue
<1>7. CASE LookUp
  <2>1. /\ stage = "lookups" /\ left # {} /\ UNCHANGED <<files, clock, entries, position>>
        /\ left' \subseteq left
        /\ \A visited \in pending' : visited.address = FirstOf(entries, Enricher, left)
    BY <1>7 DEF LookUp
  <2>2. IsSortable(entries, Enricher) /\ left \in SUBSET DOMAIN entries
    BY <1>1, <2>1, LeftIsSortable DEF AtPlace
  <2>3. FirstOf(entries, Enricher, left) \in left BY <2>1, <2>2, FirstIsLeft
  <2>4. ToCome' \subseteq ToCome BY <2>1, <2>3 DEF ToCome
  <2> QED BY <1>4, <2>1, <2>4
<1>8. CASE StoreLookup
  <2>1. stage = "lookups" /\ pending' = {} /\ UNCHANGED <<entries, clock>>
    BY <1>8 DEF StoreLookup
  <2>2. PICK visited \in pending :
            /\ \E stored : AfterLookup(visited.outcome, stored)
            /\ files' = files \/ FileWritten(visited.address)
    BY <1>1, <1>8, StoreLookupWrites
  <2>3. \/ stage' = "lookups" /\ position' = position /\ left' = left
        \/ stage' = "enrichers"
    BY <2>1, <2>2 DEF AfterLookup, LeaveEnricher, GoTo
  <2>4. CASE stage' = "lookups"
    <3>1. position' = position /\ ToCome' = left BY <2>1, <2>3, <2>4 DEF ToCome
    <3>2. \A address \in left : address \in Addresses /\ address # visited.address
      BY <1>1, PendingType DEF TypeOK
    <3>3. \A address \in left : files'[address] = files[address]
      BY <2>2, <3>2 DEF FileWritten
    <3>4. ToCome' \subseteq ToCome BY <3>1 DEF ToCome
    <3> QED BY <1>4, <2>1, <3>1, <3>3, <3>4
  <2> QED BY <1>3, <2>3, <2>4
<1>9. CASE \/ StartRun \/ CollectFeed \/ CancelledBeforeFeed \/ NextSighting \/ StoreSighting
           \/ CancelledBeforeEnricher \/ FinishRun \/ Kill
  <2>1. stage' # "lookups" BY <1>9, StepsWithoutIndex
  <2> QED BY <1>3, <2>1
<1>10. CASE BeginIndex \/ NextFile \/ IndexFile \/ EndLookups \/ LookUpCutShort
  <2>1. stage' # "lookups"
    BY <1>10 DEF BeginIndex, NextFile, IndexFile, EndLookups, LookUpCutShort, LeaveEnricher,
                 GoTo
  <2> QED BY <1>3, <2>1
<1> QED BY <1>5, <1>6, <1>7, <1>8, <1>9, <1>10 DEF Next, Step

\* No step tries an address again too early.
LEMMA StepRespectsRefresh ==
    ASSUME Inv, [Next]_vars, NEW name \in EnricherNames, NEW address \in Addresses,
           AttemptAt(files[address], name) # ZeroTime,
           AttemptAt(files'[address], name) # AttemptAt(files[address], name)
    PROVE  AttemptAt(files'[address], name) - AttemptAt(files[address], name)
              >= Limits[name].refreshAfter
<1>1. TypeOK /\ AtPlace /\ DueStillDue /\ EntriesTrue BY DEF Inv
<1>2. name \in Sources /\ \A index \in DOMAIN Feeds : name # Feeds[index]
  BY <1>1, SetupType
<1>3. files' # files OBVIOUS
<1>4. ~StoreSighting
  <2> SUFFICES ASSUME StoreSighting PROVE FALSE OBVIOUS
  <2>1. PICK visited \in pending :
            /\ FileWritten(visited.address)
            /\ AttemptsKept(visited.address, Sources \ {Feed})
    BY <1>1, <1>3, StoreSightingWrites
  <2>2. name # Feed BY <1>1, <1>2 DEF StoreSighting, AtPlace, Feed
  <2> QED BY <1>2, <2>1, <2>2 DEF FileWritten, AttemptsKept
<1>5. ~IndexFile
  <2> SUFFICES ASSUME IndexFile PROVE FALSE OBVIOUS
  <2>1. PICK visited \in pending :
            FileWritten(visited.address) /\ AttemptsKept(visited.address, Sources)
    BY <1>1, <1>3, IndexFileWrites
  <2> QED BY <1>2, <2>1 DEF FileWritten, AttemptsKept
<1>6. CASE StoreLookup
  <2>1. PICK visited \in pending :
            /\ FileWritten(visited.address)
            /\ AttemptAt(files[visited.address], Enricher) <= clock =>
                  AttemptAt(files'[visited.address], Enricher) = clock
            /\ AttemptsKept(visited.address, Sources \ {Enricher})
    BY <1>1, <1>3, <1>6, StoreLookupWrites
  <2>2. address = visited.address /\ name = Enricher
    BY <1>2, <2>1 DEF FileWritten, AttemptsKept
  <2>3. address \in ToCome /\ stage = "lookups" BY <1>6, <2>2 DEF ToCome, StoreLookup
  <2>4. AttemptAt(files[address], name) + Limits[name].refreshAfter <= clock
    BY <1>1, <2>2, <2>3 DEF DueStillDue
  <2>5. /\ AttemptAt(files[address], name) \in Nat
        /\ Limits[name].refreshAfter \in Nat /\ clock \in Nat
    <3>1. Limits[name].refreshAfter \in Nat /\ clock \in Nat BY <1>1, SetupType
    <3> QED BY <1>1, <3>1, NaturalAttempts
  <2>6. AttemptAt(files'[address], name) = clock BY <2>1, <2>2, <2>4, <2>5
  <2> QED BY <2>4, <2>5, <2>6
<1>7. StoreSighting \/ IndexFile \/ StoreLookup
  BY <1>3 DEF Next, Step, vars, StartRun, CollectFeed, CancelledBeforeFeed, NextSighting,
              BeginIndex, NextFile, BeginEnricher, CancelledBeforeEnricher, FinishRun, EndRun,
              EndLookups, LookUp, LookUpCutShort, Cancel, Expire, Kill, Tick
<1> QED BY <1>4, <1>5, <1>6, <1>7

-----------------------------------------------------------------------------
(* Duties *)

\* An enricher that stops early, or could not store a lookup, is reported.
LEMMA AfterLookupFailures ==
    ASSUME NEW outcome, NEW stored, AfterLookup(outcome, stored)
    PROVE  /\ failures \subseteq failures'
           /\ ~stored \/ outcome = "stopping" => Enricher \in failures'
           /\ \/ Enricher \in failures'
              \/ stage' = stage /\ position' = position /\ left' = left
<1> DEFINE isFailed == ~stored \/ outcome \in {"failed", "stopping"}
           problems == IF isFailed THEN {Enricher} ELSE {}
<1>1. CASE LeaveEnricher(problems) /\ (outcome = "stopping" \/ outcome = "failed")
  <2>1. problems = {Enricher} BY <1>1
  <2> QED BY <1>1, <2>1 DEF LeaveEnricher
<1>2. CASE failures' = failures \cup problems /\ UNCHANGED <<stage, position, left>>
  BY <1>2
<1> QED BY <1>1, <1>2 DEF AfterLookup

\* Until the next run nothing a run reported, was given to do or got to is forgotten.
LEMMA RunGoesOn ==
    ASSUME Inv, [Next]_vars, ~StartRun, ~Kill
    PROVE  /\ failures \subseteq failures' /\ log.late \subseteq log'.late
           /\ log'.startedAt = log.startedAt
           /\ \/ log'.duties = log.duties /\ log'.reached = log.reached
              \/ CollectFeed \/ BeginEnricher
<1>1. TypeOK /\ AtPlace /\ log \in Logs BY DEF Inv, TypeOK
<1>2. CASE CollectFeed \/ BeginEnricher
  BY <1>1, <1>2 DEF CollectFeed, BeginEnricher, Logs
<1>3. CASE StoreSighting \/ IndexFile
  <2>1. /\ WriteLogged \/ log' = log
        /\ failures \subseteq failures'
    BY <1>1, <1>3, StoreSightingWrites, IndexFileWrites
  <2> QED BY <1>1, <2>1 DEF WriteLogged, Logs
<1>4. CASE StoreLookup
  <2>1. /\ WriteLogged \/ log' = log
        /\ \E outcome, stored : AfterLookup(outcome, stored)
    BY <1>1, <1>4, StoreLookupWrites
  <2> QED BY <1>1, <2>1, AfterLookupFailures DEF WriteLogged, Logs
<1>5. CASE LookUp \/ LookUpCutShort
  BY <1>1, <1>5 DEF LookUp, LookUpCutShort, LeaveEnricher, Logs
<1>6. CASE \/ CancelledBeforeFeed \/ NextSighting \/ BeginIndex \/ NextFile
           \/ CancelledBeforeEnricher \/ FinishRun \/ EndLookups
           \/ Cancel \/ Expire \/ Tick \/ UNCHANGED vars
  BY <1>6 DEF CancelledBeforeFeed, NextSighting, BeginIndex, NextFile, EndRun, BrokenOff,
              CancelledBeforeEnricher, FinishRun, EndLookups, LeaveEnricher, Cancel, Expire,
              Tick, vars
<1> QED BY <1>2, <1>3, <1>4, <1>5, <1>6 DEF Next, Step

\* What a step does to one file: nothing, or it is the file of the address the run
\* is at, rewritten in the current format with the attempt of this run.
LEMMA FileBecomes ==
    ASSUME Inv, [Next]_vars, NEW address \in Addresses
    PROVE  \/ files'[address] = files[address]
           \/ /\ files'[address].version = 2 /\ files[address].version # 3
              /\ address \in ToCome
              /\ StoreSighting \/ IndexFile \/ StoreLookup
              /\ \A source \in Sources :
                    \/ AttemptAt(files'[address], source) = AttemptAt(files[address], source)
                    \/ AttemptAt(files'[address], source) >= log.startedAt
<1>1. TypeOK /\ AtPlace /\ log.startedAt \in Nat /\ clock \in Nat /\ log.startedAt <= clock
  <2>1. TypeOK /\ AtPlace BY DEF Inv
  <2>2. log.startedAt \in Nat BY <2>1, RecordAssumption DEF TypeOK, Logs, Time
  <2> QED BY <2>1, <2>2, SetupType DEF TypeOK
<1>2. CASE StoreSighting
  <2>1. PICK visited \in pending :
            \/ UNCHANGED <<files, log>>
            \/ /\ FileWritten(visited.address)
               /\ AttemptAt(files'[visited.address], Feed) = stamp
               /\ AttemptsKept(visited.address, Sources \ {Feed})
    BY <1>1, <1>2, StoreSightingWrites
  <2>2. stamp \in Nat /\ log.startedAt <= stamp
    BY <1>1, <1>2, RecordAssumption DEF AtPlace, StoreSighting, Time
  <2> QED BY <1>1, <1>2, <2>1, <2>2 DEF FileWritten, AttemptsKept, ToCome
<1>3. CASE IndexFile
  <2>1. PICK visited \in pending :
            \/ UNCHANGED <<files, entries, log>>
            \/ FileWritten(visited.address) /\ AttemptsKept(visited.address, Sources)
    BY <1>1, <1>3, IndexFileWrites
  <2> QED BY <1>3, <2>1 DEF FileWritten, AttemptsKept, ToCome
<1>4. CASE StoreLookup
  <2>1. PICK visited \in pending :
            \/ UNCHANGED <<files, log>>
            \/ /\ FileWritten(visited.address)
               /\ AttemptAt(files'[visited.address], Enricher) >= clock
               /\ AttemptsKept(visited.address, Sources \ {Enricher})
    BY <1>1, <1>4, StoreLookupWrites
  <2>2. CASE UNCHANGED <<files, log>> BY <2>2
  <2>3. CASE FileWritten(visited.address) /\ ~UNCHANGED <<files, log>>
    <3>1. visited.address \in Addresses BY <1>1, PendingType
    <3>2. AttemptAt(files'[visited.address], Enricher) \in Nat
      BY <2>3, StoredFile, RecordAssumption DEF FileWritten, Moment
    <3>3. AttemptAt(files'[visited.address], Enricher) >= log.startedAt
      BY <1>1, <2>1, <2>3, <3>2
    <3> QED BY <1>4, <2>1, <2>3, <3>3 DEF FileWritten, AttemptsKept, ToCome
  <2> QED BY <2>1, <2>2, <2>3
<1>5. CASE files' = files BY <1>5
<1>6. files' = files \/ StoreSighting \/ IndexFile \/ StoreLookup
  BY DEF Next, Step, vars, StartRun, CollectFeed, CancelledBeforeFeed, NextSighting,
         BeginIndex, NextFile, BeginEnricher, CancelledBeforeEnricher, FinishRun, EndRun,
         EndLookups, LookUp, LookUpCutShort, Cancel, Expire, Kill, Tick
<1> QED BY <1>2, <1>3, <1>4, <1>5, <1>6

\* A duty is a source and an address.
LEMMA DutyType ==
    ASSUME TypeOK, NEW duty \in log.duties
    PROVE  duty \in Sources \X Addresses /\ duty[1] \in Sources /\ duty[2] \in Addresses
BY DEF TypeOK, Logs

\* What is done stays done.
LEMMA DoneStaysDone ==
    ASSUME Inv, [Next]_vars, ~StartRun, ~Kill, NEW duty \in log.duties, IsDone(duty)
    PROVE  IsDone(duty)'
<1>1. duty[1] \in Sources /\ duty[2] \in Addresses BY DutyType DEF Inv
<1>2. /\ failures \subseteq failures' /\ log.late \subseteq log'.late
      /\ log'.startedAt = log.startedAt
  BY RunGoesOn
<1>3. \/ AttemptAt(files'[duty[2]], duty[1]) = AttemptAt(files[duty[2]], duty[1])
      \/ AttemptAt(files'[duty[2]], duty[1]) >= log.startedAt
  BY <1>1, FileBecomes
<1> QED BY <1>2, <1>3 DEF IsDone

\* No duty is dropped without a failure or the end of a budget.
LEMMA StepKeepsDutiesDone ==
    ASSUME Inv, [Next]_vars
    PROVE  DutiesDone'
<1>1. TypeOK /\ AtPlace /\ DutiesDone BY DEF Inv
<1>2. Feeds' = Feeds /\ Enrichers' = Enrichers BY StepKeepsSetup
<1>3. CASE StartRun \/ Kill
  BY <1>3 DEF StartRun, Kill, FreshLog, DutiesDone
<1>4. CASE /\ ~StartRun /\ ~Kill /\ log'.duties = log.duties
           /\ \A duty \in log.duties :
                 /\ stage = "sightings" /\ duty[1] = Feed /\ duty[2] \in ToCome =>
                       \/ IsDone(duty)'
                       \/ stage' = "sightings" /\ position' = position /\ duty[2] \in ToCome'
                 /\ stage = "lookups" /\ duty[1] = Enricher /\ duty[2] \in ToCome =>
                       \/ IsDone(duty)'
                       \/ stage' = "lookups" /\ position' = position /\ duty[2] \in ToCome'
  <2> SUFFICES ASSUME NEW duty \in log.duties
               PROVE  \/ IsDone(duty)'
                      \/ stage' = "sightings" /\ duty[1] = Feed' /\ duty[2] \in ToCome'
                      \/ stage' = "lookups" /\ duty[1] = Enricher' /\ duty[2] \in ToCome'
    BY <1>4 DEF DutiesDone
  <2>1. CASE IsDone(duty) BY <1>4, <2>1, DoneStaysDone
  <2>2. CASE stage = "sightings" /\ duty[1] = Feed /\ duty[2] \in ToCome
    BY <1>2, <1>4, <2>2 DEF Feed
  <2>3. CASE stage = "lookups" /\ duty[1] = Enricher /\ duty[2] \in ToCome
    BY <1>2, <1>4, <2>3 DEF Enricher
  <2> QED BY <1>1, <2>1, <2>2, <2>3 DEF DutiesDone
<1>5. CASE CollectFeed \/ BeginEnricher
  <2>1. ~StartRun /\ ~Kill
    BY <1>5 DEF CollectFeed, BeginEnricher, StartRun, Kill, Running, GoTo
  <2>2. \A duty \in log.duties : IsDone(duty)'
    <3>1. stage # "sightings" /\ stage # "lookups" BY <1>5 DEF CollectFeed, BeginEnricher
    <3> QED BY <1>1, <2>1, <3>1, DoneStaysDone DEF DutiesDone
  <2>3. ASSUME NEW duty \in log'.duties, duty \notin log.duties
        PROVE  \/ stage' = "sightings" /\ duty[1] = Feed' /\ duty[2] \in ToCome'
               \/ stage' = "lookups" /\ duty[1] = Enricher' /\ duty[2] \in ToCome'
    <3>1. CASE CollectFeed
      <4>1. PICK listed :
               /\ GoTo("sightings", position) /\ left' = listed
               /\ log' = [log EXCEPT !.reached = log.reached \cup {Feed},
                                     !.duties = log.duties \cup ({Feed} \X listed)]
        BY <1>1, <2>3, <3>1 DEF CollectFeed, TypeOK, Logs
      <4>2. log'.duties = log.duties \cup ({Feed} \X listed)
        BY <1>1, <4>1 DEF TypeOK, Logs
      <4>3. duty \in {Feed} \X left' BY <2>3, <4>1, <4>2
      <4>4. duty[1] = Feed /\ duty[2] \in left' BY <4>3
      <4> QED BY <1>2, <4>1, <4>4 DEF GoTo, Feed, ToCome
    <3>2. CASE BeginEnricher
      <4>1. /\ log'.duties = log.duties \cup ({Enricher} \X left')
            /\ stage' = "lookups" /\ position' = position
        BY <1>1, <3>2 DEF BeginEnricher, GoTo, TypeOK, Logs
      <4>2. duty \in {Enricher} \X left' BY <2>3, <4>1
      <4>3. duty[1] = Enricher /\ duty[2] \in left' BY <4>2
      <4> QED BY <1>2, <4>1, <4>3 DEF Enricher, ToCome
    <3> QED BY <1>5, <3>1, <3>2
  <2> QED BY <2>2, <2>3 DEF DutiesDone
<1>6. ASSUME ~StartRun, ~Kill, ~CollectFeed, ~BeginEnricher,
             NEW duty \in log.duties,
             \/ stage = "sightings" /\ duty[1] = Feed /\ duty[2] \in ToCome
             \/ stage = "lookups" /\ duty[1] = Enricher /\ duty[2] \in ToCome
      PROVE  \/ IsDone(duty)'
             \/ stage' = stage /\ position' = position /\ duty[2] \in ToCome'
  <2>1. \/ UNCHANGED <<stage, position, left, pending>>
        \/ NextSighting \/ StoreSighting
        \/ EndLookups \/ LookUp \/ LookUpCutShort \/ StoreLookup
    BY <1>6 DEF Next, Step, vars, CancelledBeforeFeed, BeginIndex, NextFile, IndexFile,
                CancelledBeforeEnricher, FinishRun, Cancel, Expire, Tick
  <2>2. CASE UNCHANGED <<stage, position, left, pending>> BY <1>6, <2>2 DEF ToCome
  <2>3. CASE NextSighting
    <3>1. stage = "sightings" /\ pending = {} BY <2>3 DEF NextSighting
    <3>2. duty[1] = Feed /\ duty[2] \in left BY <1>6, <3>1 DEF ToCome
    <3>3. CASE GoesOn
      <4>1. PICK address \in left :
               /\ pending' = {[address |-> address, outcome |-> "answered"]}
               /\ left' = left \ {address} /\ UNCHANGED <<stage, position>>
        BY <2>3, <3>3 DEF NextSighting
      <4> QED BY <3>2, <4>1 DEF ToCome
    <3>4. CASE ~GoesOn
      <4>1. failures' = failures \cup BrokenOff(Feed) BY <2>3, <3>4 DEF NextSighting
      <4>2. Feed \in failures' BY <3>2, <4>1 DEF BrokenOff
      <4> QED BY <3>2, <4>2 DEF IsDone
    <3> QED BY <3>3, <3>4
  <2>4. CASE StoreSighting
    <3>1. stage = "sightings" /\ UNCHANGED <<stage, position, left>>
      BY <2>4 DEF StoreSighting
    <3>2. PICK visited \in pending :
              \/ UNCHANGED <<files, log>> /\ Feed \in failures'
              \/ AttemptAt(files'[visited.address], Feed) = stamp
      BY <1>1, <2>4, StoreSightingWrites
    <3>3. duty[1] = Feed /\ duty[2] \in ToCome BY <1>6, <3>1
    <3>4. CASE duty[2] \in left BY <3>1, <3>4 DEF ToCome
    <3>5. CASE duty[2] \notin left
      <4>1. duty[2] = visited.address BY <1>1, <3>2, <3>3, <3>5 DEF ToCome, TypeOK
      <4>2. CASE Feed \in failures' BY <3>3, <4>2 DEF IsDone
      <4>3. CASE AttemptAt(files'[visited.address], Feed) = stamp
        <5>1. log.startedAt <= stamp /\ log'.startedAt = log.startedAt
          BY <1>1, <1>6, <3>1, RunGoesOn DEF AtPlace
        <5>2. AttemptAt(files'[duty[2]], duty[1]) >= log'.startedAt
          <6>1. stamp \in Nat /\ log.startedAt \in Nat
            BY <1>1, <3>1, RecordAssumption DEF AtPlace, TypeOK, Logs, Time
          <6> QED BY <3>3, <4>1, <4>3, <5>1, <6>1
        <5> QED BY <5>2 DEF IsDone
      <4> QED BY <3>2, <4>2, <4>3
    <3> QED BY <3>4, <3>5
  <2>5. CASE EndLookups \/ LookUp \/ LookUpCutShort
    <3>1. stage = "lookups" /\ pending = {} BY <2>5 DEF EndLookups, LookUp, LookUpCutShort
    <3>2. duty[1] = Enricher /\ duty[2] \in left BY <1>6, <3>1 DEF ToCome
    <3>3. CASE LookUp
      <4>1. /\ UNCHANGED <<stage, position>>
            /\ pending' # {}
            /\ left' = left \ {FirstOf(entries, Enricher, left)}
            /\ \A visited \in pending' : visited.address = FirstOf(entries, Enricher, left)
        BY <3>3 DEF LookUp
      <4> QED BY <3>2, <4>1 DEF ToCome
    <3>4. CASE LookUpCutShort
      <4>1. LeaveEnricher({}) /\ (cancelled \/ expired) BY <3>4 DEF LookUpCutShort
      <4>2. CASE cancelled
        <5>1. Enricher \in failures' BY <4>1, <4>2 DEF LeaveEnricher
        <5> QED BY <3>2, <5>1 DEF IsDone
      <4>3. CASE expired
        <5>1. Enricher \in log'.late BY <1>1, <3>4, <4>3 DEF LookUpCutShort, TypeOK, Logs
        <5> QED BY <3>2, <5>1 DEF IsDone
      <4> QED BY <4>1, <4>2, <4>3
    <3>5. ~EndLookups BY <3>2 DEF EndLookups
    <3> QED BY <2>5, <3>3, <3>4, <3>5
  <2>6. CASE StoreLookup
    <3>1. stage = "lookups" /\ pending' = {} BY <2>6 DEF StoreLookup
    <3>2. duty[1] = Enricher /\ duty[2] \in ToCome BY <1>6, <3>1
    <3>3. PICK visited \in pending : \E stored \in BOOLEAN :
              /\ AfterLookup(visited.outcome, stored)
              /\ \/ ~stored \/ visited.outcome = "stopping"
                 \/ /\ FileWritten(visited.address)
                    /\ AttemptAt(files'[visited.address], Enricher) >= clock
      BY <1>1, <2>6, StoreLookupWrites
    <3>4. CASE Enricher \in failures' BY <3>2, <3>4 DEF IsDone
    <3>5. CASE /\ Enricher \notin failures'
               /\ stage' = stage /\ position' = position /\ left' = left
               /\ AttemptAt(files'[visited.address], Enricher) >= clock
               /\ FileWritten(visited.address)
      <4>1. CASE duty[2] \in left BY <3>5, <4>1 DEF ToCome
      <4>2. CASE duty[2] \notin left
        <5>1. duty[2] = visited.address BY <1>1, <3>2, <3>3, <4>2 DEF ToCome, TypeOK
        <5>2. log.startedAt <= clock /\ log'.startedAt = log.startedAt
          BY <1>1, <1>6, RunGoesOn DEF TypeOK
        <5>3. log.startedAt \in Nat /\ clock \in Nat
          BY <1>1, SetupType, RecordAssumption DEF TypeOK, Logs, Time
        <5>4. AttemptAt(files'[visited.address], Enricher) \in Nat
          BY <3>5, StoredFile, RecordAssumption DEF FileWritten, Moment
        <5>5. AttemptAt(files'[duty[2]], duty[1]) >= log'.startedAt
          BY <3>2, <3>5, <5>1, <5>2, <5>3, <5>4
        <5> QED BY <5>5 DEF IsDone
      <4> QED BY <4>1, <4>2
    <3> QED BY <3>3, <3>4, <3>5, AfterLookupFailures
  <2> QED BY <2>1, <2>2, <2>3, <2>4, <2>5, <2>6
<1>7. CASE ~StartRun /\ ~Kill /\ ~CollectFeed /\ ~BeginEnricher
  <2>1. log'.duties = log.duties BY <1>7, RunGoesOn
  <2> QED BY <1>4, <1>6, <1>7, <2>1
<1> QED BY <1>3, <1>5, <1>7

-----------------------------------------------------------------------------
(* The sources a run gets to *)

\* One source after the other makes all sources.
LEMMA UpToProperties ==
    ASSUME NEW names \in Seq(Sources), NEW place \in Nat \ {0}
    PROVE  /\ UpTo(names, 0) = {}
           /\ place \in DOMAIN names =>
                 UpTo(names, place) = UpTo(names, place - 1) \cup {names[place]}
           /\ place \notin DOMAIN names => UpTo(names, place - 1) = Range(names)
<1>1. PICK last \in Nat : last = Len(names) /\ DOMAIN names = 1..last BY LenProperties
<1>2. UpTo(names, 0) = {} BY <1>1 DEF UpTo
<1>3. ASSUME place \in DOMAIN names
      PROVE  UpTo(names, place) = UpTo(names, place - 1) \cup {names[place]}
  <2>1. \A i \in DOMAIN names : i <= place <=> (i <= place - 1 \/ i = place) BY <1>1
  <2> QED BY <1>3, <2>1 DEF UpTo
<1>4. ASSUME place \notin DOMAIN names PROVE UpTo(names, place - 1) = Range(names)
  <2>1. \A i \in DOMAIN names : i <= place - 1 BY <1>1, <1>4
  <2> QED BY <2>1 DEF UpTo, Range
<1> QED BY <1>2, <1>3, <1>4

\* A run gets to its sources one after the other.
LEMMA StepKeepsReached ==
    ASSUME Inv, [Next]_vars
    PROVE  ReachedInOrder'
<1>1. TypeOK /\ AtPlace /\ ReachedInOrder /\ position \in Nat \ {0} /\ log \in Logs
  BY DEF Inv, TypeOK
<1>2. /\ Feeds' = Feeds /\ Enrichers' = Enrichers
      /\ FeedNames' = FeedNames /\ EnricherNames' = EnricherNames
  BY StepKeepsSetup
<1>3. /\ UpTo(Feeds, 0) = {} /\ UpTo(Enrichers, 0) = {}
      /\ position \in DOMAIN Feeds =>
            UpTo(Feeds, position) = UpTo(Feeds, position - 1) \cup {Feed}
      /\ position \in DOMAIN Enrichers =>
            UpTo(Enrichers, position) = UpTo(Enrichers, position - 1) \cup {Enricher}
      /\ position \notin DOMAIN Feeds => UpTo(Feeds, position - 1) = FeedNames
      /\ position \notin DOMAIN Enrichers => UpTo(Enrichers, position - 1) = EnricherNames
  BY <1>1, SetupType, UpToProperties DEF Feed, Enricher, FeedNames, EnricherNames
<1>4. position + 1 - 1 = position /\ 1 - 1 = 0 BY <1>1
<1>5. CASE StartRun
  <2>1. stage' = "feeds" /\ position' = 1 /\ log'.reached = {}
    BY <1>5 DEF StartRun, GoTo, FreshLog
  <2> QED BY <1>2, <1>3, <1>4, <2>1 DEF ReachedInOrder
<1>6. CASE Kill BY <1>6 DEF Kill, GoTo, ReachedInOrder
<1>7. CASE CollectFeed
  <2>1. /\ log'.reached = log.reached \cup {Feed}
        /\ stage = "feeds" /\ position \in DOMAIN Feeds
        /\ \/ stage' = "sightings" /\ position' = position
           \/ stage' = "feeds" /\ position' = position + 1
    BY <1>1, <1>7 DEF CollectFeed, GoTo, Logs
  <2>2. log'.reached = UpTo(Feeds, position) BY <1>1, <1>3, <2>1 DEF ReachedInOrder
  <2>3. CASE stage' = "sightings" /\ position' = position
    BY <1>2, <2>2, <2>3 DEF ReachedInOrder
  <2>4. CASE stage' = "feeds" /\ position' = position + 1
    <3>1. position' - 1 = position BY <1>1, <2>4
    <3> QED BY <1>2, <2>2, <2>4, <3>1 DEF ReachedInOrder
  <2> QED BY <2>1, <2>3, <2>4
<1>8. CASE BeginEnricher
  <2>1. /\ log'.reached = log.reached \cup {Enricher}
        /\ stage = "enrichers" /\ position \in DOMAIN Enrichers
        /\ stage' = "lookups" /\ position' = position
    BY <1>1, <1>8 DEF BeginEnricher, GoTo, Logs
  <2> QED BY <1>1, <1>2, <1>3, <2>1 DEF ReachedInOrder
<1>9. CASE CancelledBeforeFeed \/ CancelledBeforeEnricher
  BY <1>9 DEF CancelledBeforeFeed, CancelledBeforeEnricher, EndRun, ReachedInOrder
<1>10. ASSUME ~StartRun, ~Kill, ~CollectFeed, ~BeginEnricher
       PROVE  log'.reached = log.reached /\ failures \subseteq failures'
  BY <1>10, RunGoesOn
<1>11. CASE /\ log'.reached = log.reached /\ failures \subseteq failures'
            /\ stage' = stage /\ position' = position
  BY <1>1, <1>2, <1>11 DEF ReachedInOrder
<1>12. CASE /\ log'.reached = log.reached
            /\ \/ stage = "sightings" /\ stage' = "feeds" /\ position' = position + 1
               \/ stage = "lookups" /\ stage' = "enrichers" /\ position' = position + 1
  <2>1. position' - 1 = position BY <1>1, <1>12
  <2> QED BY <1>1, <1>2, <1>12, <2>1 DEF ReachedInOrder
<1>13. CASE /\ log'.reached = log.reached
            /\ \/ /\ stage = "feeds" /\ position \notin DOMAIN Feeds
                  /\ stage' = "indexing"
               \/ stage = "indexing" /\ stage' = "enrichers" /\ position' = 1
               \/ stage = "enrichers" /\ position \notin DOMAIN Enrichers /\ stage' = "ended"
  BY <1>1, <1>2, <1>3, <1>4, <1>13 DEF ReachedInOrder
<1>14. CASE StoreLookup
  <2>1. stage = "lookups" /\ \E outcome, stored : AfterLookup(outcome, stored)
    BY <1>1, <1>14, StoreLookupWrites DEF StoreLookup
  <2>2. \/ stage' = stage /\ position' = position
        \/ stage' = "enrichers" /\ position' = position + 1
    BY <2>1 DEF AfterLookup, LeaveEnricher, GoTo
  <2> QED BY <1>5, <1>6, <1>7, <1>8, <1>10, <1>11, <1>12, <2>1, <2>2
<1>15. CASE NextSighting \/ StoreSighting \/ EndLookups \/ LookUp \/ LookUpCutShort
            \/ IndexFile \/ Cancel \/ Expire \/ Tick \/ UNCHANGED vars
  <2>1. \/ stage' = stage /\ position' = position
        \/ stage = "sightings" /\ stage' = "feeds" /\ position' = position + 1
        \/ stage = "lookups" /\ stage' = "enrichers" /\ position' = position + 1
    BY <1>15 DEF NextSighting, StoreSighting, EndLookups, LookUp, LookUpCutShort, IndexFile,
                 Cancel, Expire, Tick, vars, LeaveEnricher, GoTo
  <2> QED BY <1>5, <1>6, <1>7, <1>8, <1>10, <1>11, <1>12, <2>1
<1>16. CASE BeginIndex \/ NextFile \/ FinishRun
  <2>1. \/ stage' = stage /\ position' = position
        \/ stage = "feeds" /\ position \notin DOMAIN Feeds /\ stage' = "indexing"
        \/ stage = "indexing" /\ stage' = "enrichers" /\ position' = 1
        \/ stage = "enrichers" /\ position \notin DOMAIN Enrichers /\ stage' = "ended"
    BY <1>16 DEF BeginIndex, NextFile, FinishRun, EndRun, GoTo
  <2> QED BY <1>5, <1>6, <1>7, <1>8, <1>10, <1>11, <1>13, <2>1
<1> QED BY <1>5, <1>6, <1>7, <1>8, <1>9, <1>14, <1>15, <1>16 DEF Next, Step

-----------------------------------------------------------------------------
(* Indexed files *)

\* A file that is written while lookups are made is in the index.
LEMMA LookedUpIsIndexed ==
    ASSUME Inv, [Next]_vars, stage \in {"enrichers", "lookups", "ended"},
           NEW address \in Addresses, files'[address] # files[address]
    PROVE  /\ stage = "lookups" /\ address \in DOMAIN entries
           /\ files[address].version = 2 /\ files'[address].version = 2
<1>1. /\ files'[address].version = 2 /\ address \in ToCome
      /\ StoreSighting \/ IndexFile \/ StoreLookup
  BY FileBecomes
<1>2. stage = "lookups" BY <1>1 DEF StoreSighting, IndexFile, StoreLookup
<1>3. address \in DOMAIN entries /\ EntriesTrue BY <1>1, <1>2 DEF Inv, DueStillDue
<1> QED BY <1>1, <1>2, <1>3 DEF EntriesTrue

\* No file is left out of the index without a failure.
LEMMA StepKeepsFilesIndexed ==
    ASSUME Inv, [Next]_vars
    PROVE  FilesIndexed'
<1>1. TypeOK /\ AtPlace /\ FilesIndexed BY DEF Inv
<1> DEFINE Indexes(place, set, index, stored) ==
              /\ place = "indexing" => \A address \in Addresses :
                    stored[address].version = 0 \/ address \in set \cup index
              /\ place \in {"enrichers", "lookups"} => \A address \in Addresses :
                    stored[address].version = 0 \/ address \in index
              /\ place \in {"indexing", "enrichers", "lookups", "ended"} =>
                    \A address \in Addresses :
                       \/ stored[address].version \in {0, 2}
                       \/ place = "indexing" /\ address \in set
<1>2. FilesIndexed <=> (failures \cap {"index", "cancelled"} = {} =>
                           Indexes(stage, ToCome, DOMAIN entries, files))
  BY DEF FilesIndexed
<1>3. FilesIndexed' <=> (failures' \cap {"index", "cancelled"} = {} =>
                            Indexes(stage', ToCome', DOMAIN entries', files'))
  BY DEF FilesIndexed
<1>4. CASE stage' \notin {"indexing", "enrichers", "lookups", "ended"} BY <1>3, <1>4
<1> SUFFICES ASSUME failures' \cap {"index", "cancelled"} = {},
                    stage' \in {"indexing", "enrichers", "lookups", "ended"}
             PROVE  Indexes(stage', ToCome', DOMAIN entries', files')
  BY <1>3, <1>4
<1>5. ~StartRun /\ ~Kill /\ ~CollectFeed /\ ~CancelledBeforeFeed /\ ~CancelledBeforeEnricher
      /\ ~NextSighting /\ ~StoreSighting
  BY <1>1 DEF StartRun, Kill, CollectFeed, CancelledBeforeFeed, CancelledBeforeEnricher,
              NextSighting, StoreSighting, EndRun, GoTo
<1>6. Indexes(stage, ToCome, DOMAIN entries, files)
  BY <1>1, <1>2, <1>5, RunGoesOn
<1>7. CASE BeginIndex
  <2>1. /\ stage' = "indexing" /\ files' = files
        /\ left' = {address \in Addresses : files[address] # NoFile}
    BY <1>7 DEF BeginIndex, GoTo
  <2>2. \A address \in Addresses : files[address].version = 0 \/ address \in ToCome'
    BY <1>1, <2>1, StoredFile DEF ToCome, TypeOK
  <2> QED BY <2>1, <2>2
<1>8. CASE NextFile
  <2>1. stage = "indexing" /\ pending = {} /\ UNCHANGED <<files, entries>>
    BY <1>8 DEF NextFile
  <2>2. ToCome = left BY <2>1 DEF ToCome
  <2>3. CASE GoesOn
    <3>1. PICK address \in left :
             /\ pending' = {[address |-> address, outcome |-> "answered"]}
             /\ left' = left \ {address} /\ stage' = stage
      BY <1>8, <2>3 DEF NextFile
    <3>2. ToCome' = left BY <3>1 DEF ToCome
    <3> QED BY <1>6, <2>1, <2>2, <3>1, <3>2
  <2>4. CASE ~GoesOn
    <3>1. failures' = failures \cup BrokenOff("index") /\ stage' = "enrichers"
      BY <1>8, <2>4 DEF NextFile, GoTo
    <3>2. left = {} BY <3>1 DEF BrokenOff
    <3> QED BY <1>6, <2>1, <2>2, <3>1, <3>2
  <2> QED BY <2>3, <2>4
<1>9. CASE IndexFile
  <2>1. stage = "indexing" /\ stage' = "indexing" /\ left' = left /\ pending' = {}
    BY <1>9 DEF IndexFile
  <2>2. PICK visited \in pending :
            /\ FileWritten(visited.address)
            /\ DOMAIN entries' = DOMAIN entries \cup {visited.address}
    BY <1>1, <1>9, IndexFileWrites
  <2>3. ToCome' = left BY <2>1 DEF ToCome
  <2>4. ToCome = left \cup {visited.address} BY <1>1, <2>2 DEF ToCome, TypeOK
  <2>5. ASSUME NEW address \in Addresses
        PROVE  /\ files'[address].version = 0 \/ address \in left \cup DOMAIN entries'
               /\ files'[address].version \in {0, 2} \/ address \in left
    <3>1. CASE address = visited.address BY <2>2, <3>1 DEF FileWritten
    <3>2. CASE address # visited.address
      <4>1. files'[address] = files[address] BY <2>2, <3>2 DEF FileWritten
      <4> QED BY <1>6, <2>1, <2>2, <2>4, <3>2, <4>1
    <3> QED BY <3>1, <3>2
  <2> QED BY <2>1, <2>3, <2>5
<1>10. CASE /\ stage \in {"enrichers", "lookups", "ended"}
            /\ \/ stage' \in {"enrichers", "lookups"} /\ entries' = entries
                  /\ stage # "ended"
               \/ stage' = "ended"
  <2>1. \A address \in Addresses :
           \/ files'[address] = files[address]
           \/ address \in DOMAIN entries /\ files'[address].version = 2
    BY <1>10, LookedUpIsIndexed
  <2>2. \A address \in Addresses : files[address].version \in {0, 2}
    BY <1>6, <1>10
  <2>3. \A address \in Addresses : files'[address].version \in {0, 2} BY <2>1, <2>2
  <2>4. CASE stage' = "ended" BY <2>3, <2>4
  <2>5. CASE /\ stage' \in {"enrichers", "lookups"} /\ entries' = entries
             /\ stage \in {"enrichers", "lookups"}
    BY <1>6, <2>1, <2>3, <2>5
  <2> QED BY <1>10, <2>4, <2>5
<1>11. CASE BeginEnricher \/ FinishRun \/ EndLookups \/ LookUp \/ LookUpCutShort
  BY <1>10, <1>11 DEF BeginEnricher, FinishRun, EndRun, EndLookups, LookUp, LookUpCutShort,
                      LeaveEnricher, GoTo
<1>12. CASE StoreLookup
  <2>1. stage = "lookups" /\ entries' = entries
        /\ \E outcome, stored : AfterLookup(outcome, stored)
    BY <1>1, <1>12, StoreLookupWrites DEF StoreLookup
  <2>2. stage' \in {"enrichers", "lookups"} BY <1>1, <2>1, AfterLookupTypes
  <2> QED BY <1>10, <2>1, <2>2
<1>13. CASE Cancel \/ Expire \/ Tick \/ UNCHANGED vars
  <2>1. UNCHANGED <<files, entries, stage, left, pending>>
    BY <1>13 DEF Cancel, Expire, Tick, vars
  <2> QED BY <1>6, <2>1 DEF ToCome
<1> QED BY <1>5, <1>7, <1>8, <1>9, <1>11, <1>12, <1>13 DEF Next, Step

-----------------------------------------------------------------------------
(* Lookups used *)

DutiesGrow == log.duties \subseteq log'.duties

\* More duties are at least as many.
LEMMA MoreDuties ==
    ASSUME DutiesGrow, NEW name \in Sources, NEW limit \in Nat,
           Cardinality(DutiesOf(name)) >= limit
    PROVE  Cardinality(DutiesOf(name)') >= limit
<1>1. DutiesOf(name) \in SUBSET DutiesOf(name)' BY DEF DutiesOf, DutiesGrow
<1>2. IsFiniteSet(DutiesOf(name)')
  <2>1. DutiesOf(name)' \in SUBSET Addresses BY DEF DutiesOf
  <2> QED BY <2>1, ScheduleAssumption, FS_Subset
<1>3. /\ Cardinality(DutiesOf(name)) <= Cardinality(DutiesOf(name)')
      /\ Cardinality(DutiesOf(name)) \in Nat /\ Cardinality(DutiesOf(name)') \in Nat
  BY <1>1, <1>2, FS_Subset, FS_CardinalityType
<1> QED BY <1>3

\* What LookupsUsed says of one enricher.
UsedBy(name) ==
    \/ Cardinality(DutiesOf(name)) >= Limits[name].maxLookups
    \/ \A address \in Addresses :
          \/ files[address].version = 0
          \/ AttemptAt(files[address], name) # ZeroTime
          \/ <<name, address>> \in log.duties

\* An address that was dealt with before a step is so after it.
LEMMA UsedStaysUsed ==
    ASSUME Inv, [Next]_vars, ~StartRun, ~Kill, stage \in {"enrichers", "lookups", "ended"},
           NEW name \in EnricherNames, UsedBy(name)
    PROVE  UsedBy(name)'
<1>1. TypeOK /\ name \in Sources /\ Limits[name].maxLookups \in Nat /\ Limits' = Limits
  BY SetupType, StepKeepsSetup DEF Inv
<1>2. DutiesGrow
  <2>1. ~CollectFeed BY DEF CollectFeed
  <2>2. CASE BeginEnricher
    <3>1. log'.duties = log.duties \cup ({Enricher} \X left')
      BY <1>1, <2>2 DEF BeginEnricher, TypeOK, Logs
    <3> QED BY <3>1 DEF DutiesGrow
  <2> QED BY <2>1, <2>2, RunGoesOn DEF DutiesGrow
<1>3. CASE Cardinality(DutiesOf(name)) >= Limits[name].maxLookups
  <2>1. Cardinality(DutiesOf(name)') >= Limits[name].maxLookups BY <1>1, <1>2, <1>3, MoreDuties
  <2> QED BY <1>1, <2>1 DEF UsedBy
<1>4. CASE \A address \in Addresses :
              \/ files[address].version = 0
              \/ AttemptAt(files[address], name) # ZeroTime
              \/ <<name, address>> \in log.duties
  <2> SUFFICES ASSUME NEW address \in Addresses
               PROVE  \/ files'[address].version = 0
                      \/ AttemptAt(files'[address], name) # ZeroTime
                      \/ <<name, address>> \in log'.duties
    BY DEF UsedBy
  <2>1. CASE files'[address] = files[address] BY <1>2, <1>4, <2>1 DEF DutiesGrow
  <2>2. CASE files'[address] # files[address]
    <3>1. files[address].version = 2 BY <2>2, LookedUpIsIndexed
    <3>2. \/ AttemptAt(files'[address], name) = AttemptAt(files[address], name)
          \/ AttemptAt(files'[address], name) >= log.startedAt
      BY <1>1, <2>2, FileBecomes
    <3>3. log.startedAt \in Nat \ {0} BY <1>1, RecordAssumption DEF TypeOK, Logs, Time
    <3>4. ~(ZeroTime >= log.startedAt) BY <3>3 DEF ZeroTime
    <3> QED BY <1>2, <1>4, <3>1, <3>2, <3>4 DEF DutiesGrow
  <2> QED BY <2>1, <2>2
<1> QED BY <1>3, <1>4 DEF UsedBy

\* An enricher is given what is due, up to its lookups: selectDueAddresses.
LEMMA StepKeepsLookupsUsed ==
    ASSUME Inv, [Next]_vars
    PROVE  LookupsUsed'
<1>1. TypeOK /\ AtPlace /\ EntriesTrue /\ IndexStaysTrue /\ FilesIndexed /\ LookupsUsed
      /\ ReachedInOrder
  BY DEF Inv
<1>2. /\ Enrichers' = Enrichers /\ EnricherNames' = EnricherNames /\ Limits' = Limits
  BY StepKeepsSetup
<1> SUFFICES ASSUME stage' \in {"enrichers", "lookups", "ended"},
                    failures' \cap {"index", "cancelled"} = {},
                    NEW name \in EnricherNames \cap log'.reached
             PROVE  UsedBy(name)'
  BY <1>2 DEF LookupsUsed, UsedBy
<1>3. ~StartRun /\ ~Kill /\ ~CollectFeed /\ ~CancelledBeforeFeed /\ ~CancelledBeforeEnricher
      /\ ~NextSighting /\ ~StoreSighting /\ ~BeginIndex /\ ~IndexFile
  BY <1>1 DEF StartRun, Kill, CollectFeed, CancelledBeforeFeed, CancelledBeforeEnricher,
              NextSighting, StoreSighting, BeginIndex, IndexFile, EndRun, GoTo
<1>4. failures \cap {"index", "cancelled"} = {} BY <1>3, RunGoesOn
<1>5. CASE stage \in {"enrichers", "lookups", "ended"} /\ name \in log.reached
  <2>1. UsedBy(name) BY <1>1, <1>4, <1>5 DEF LookupsUsed, UsedBy
  <2> QED BY <1>3, <1>5, <2>1, UsedStaysUsed
<1>6. CASE NextFile /\ stage' = "enrichers"
  <2>1. stage = "indexing" BY <1>6 DEF NextFile
  <2>2. log'.reached = FeedNames
    <3>1. log' = log BY <1>6 DEF NextFile
    <3> QED BY <1>1, <2>1, <3>1 DEF ReachedInOrder
  <2>3. \E i \in DOMAIN Feeds, j \in DOMAIN Enrichers : Feeds[i] = Enrichers[j]
    BY <2>2 DEF FeedNames, EnricherNames, Range
  <2> QED BY <1>1, <2>3, SetupType
<1>7. CASE BeginEnricher /\ name = Enricher
  <2>1. /\ stage = "enrichers" /\ position \in DOMAIN Enrichers
        /\ left' = SelectDueAddresses(entries, Enricher, Limits[Enricher], clock)
        /\ files' = files
        /\ log'.duties = log.duties \cup ({Enricher} \X left')
    BY <1>1, <1>7 DEF BeginEnricher, TypeOK, Logs
  <2> DEFINE limit == Limits[Enricher].maxLookups
  <2>2. IsSortable(entries, Enricher) /\ limit \in Nat
        /\ Enricher \in Sources
    BY <1>1, <1>7, <2>1, SetupType, LeftIsSortable DEF Enricher
  <2>3. left' \in SUBSET DutiesOf(name)'
    <3>1. left' \subseteq Addresses
      BY <2>1, <2>2 DEF SelectDueAddresses, DueAddresses, IsSortable
    <3> QED BY <1>7, <2>1, <3>1 DEF DutiesOf
  <2>4. CASE \E address \in DueAddresses(entries, Enricher, Limits[Enricher], clock) :
                address \notin left'
    <3>1. Cardinality(left') >= limit BY <2>1, <2>2, <2>4, SelectionFills
    <3>2. IsFiniteSet(DutiesOf(name)')
      <4>1. DutiesOf(name)' \in SUBSET Addresses BY DEF DutiesOf
      <4> QED BY <4>1, ScheduleAssumption, FS_Subset
    <3>3. IsFiniteSet(left') /\ Cardinality(left') <= Cardinality(DutiesOf(name)')
      BY <2>3, <3>2, FS_Subset
    <3>4. Cardinality(left') \in Nat /\ Cardinality(DutiesOf(name)') \in Nat
      BY <3>2, <3>3, FS_CardinalityType
    <3>5. Cardinality(DutiesOf(name)') >= limit BY <2>2, <3>1, <3>3, <3>4
    <3> QED BY <1>2, <1>7, <3>5 DEF UsedBy
  <2>5. CASE DueAddresses(entries, Enricher, Limits[Enricher], clock) \subseteq left'
    <3> SUFFICES ASSUME NEW address \in Addresses, files[address].version # 0,
                        AttemptAt(files[address], name) = ZeroTime
                 PROVE  <<name, address>> \in log'.duties
      BY <2>1 DEF UsedBy
    <3>1. address \in DOMAIN entries BY <1>1, <1>4, <2>1 DEF FilesIndexed
    <3>2. AttemptOf(entries[address], Enricher) = AttemptAt(files[address], Enricher)
      BY <1>1, <2>1, <3>1 DEF IndexStaysTrue, Enricher
    <3>3. IsDue(entries[address], Enricher, Limits[Enricher], clock)
      BY <1>7, <3>2 DEF IsDue, ZeroTime
    <3>4. address \in left' BY <2>5, <3>1, <3>3 DEF DueAddresses
    <3> QED BY <1>7, <2>1, <3>4
  <2> QED BY <2>4, <2>5
<1>8. stage' = "indexing" \/ stage \in {"enrichers", "lookups", "ended"} \/ NextFile
  BY <1>3 DEF Next, Step, vars, NextFile, BeginEnricher, FinishRun, EndLookups, LookUp,
              LookUpCutShort, StoreLookup, Cancel, Expire, Tick
<1>9. log'.reached = log.reached \/ BeginEnricher BY <1>3, RunGoesOn
<1>10. BeginEnricher => log'.reached = log.reached \cup {Enricher} /\ stage = "enrichers"
  BY <1>1 DEF BeginEnricher, TypeOK, Logs
<1>11. NextFile => stage' \in {"indexing", "enrichers"} BY DEF NextFile, GoTo
<1> QED BY <1>5, <1>6, <1>7, <1>8, <1>9, <1>10, <1>11

-----------------------------------------------------------------------------
(* The invariant *)

\* Nothing has happened before the first run.
LEMMA InitEstablishesInv == Init => Inv
<1> SUFFICES ASSUME Init PROVE Inv OBVIOUS
<1>1. TypeOK /\ AtPlace BY InitIsTyped
<1>2. stage = "idle" /\ log = FreshLog /\ inARow = 0 /\ pending = {} /\ cancelled = FALSE
  BY DEF Init
<1>3. WriteCounted
  BY <1>2 DEF FreshLog, WriteCounted, AtMostOneWriteAfterCancel
<1>4. FailuresCounted BY <1>2 DEF FailuresCounted
<1>5. OutageStopsEnricher
  <2>1. log.outcomes = << >> BY <1>2 DEF FreshLog
  <2>2. Len(log.outcomes) = 0 BY <2>1
  <2>3. 1 .. Len(log.outcomes) - 1 = {} BY <2>2
  <2> QED BY <2>3 DEF OutageStopsEnricher
<1>6. EntriesTrue /\ IndexStaysTrue /\ DueStillDue
  BY <1>2 DEF EntriesTrue, IndexStaysTrue, DueStillDue
<1>7. DutiesDone BY <1>2 DEF FreshLog, DutiesDone
<1>8. ReachedInOrder /\ FilesIndexed /\ LookupsUsed
  BY <1>2 DEF ReachedInOrder, FilesIndexed, LookupsUsed
<1> QED BY <1>1, <1>3, <1>4, <1>5, <1>6, <1>7, <1>8 DEF Inv

\* The lemmas on each part of the invariant.
LEMMA StepPreservesInv == Inv /\ [Next]_vars => Inv'
BY StepKeepsTypes, StepKeepsWriteCounted, StepKeepsFailuresCounted, StepKeepsEntriesTrue,
   StepKeepsIndexTrue, StepKeepsDue, StepKeepsDutiesDone, StepKeepsReached,
   StepKeepsFilesIndexed, StepKeepsLookupsUsed
   DEF Inv

\* All that the proofs above say of a state holds in every state of every run,
\* killed and cancelled ones included.
THEOREM Invariance == Spec => []Inv
<1>1. Init => Inv BY InitEstablishesInv
<1>2. Inv /\ [Next]_vars => Inv' BY StepPreservesInv
<1> QED BY <1>1, <1>2, PTL DEF Spec

\* Cancelling stops a run before the next address: only the write in progress
\* may still happen.
THEOREM CancelStopsWrites == Spec => []AtMostOneWriteAfterCancel
<1>1. Inv => AtMostOneWriteAfterCancel BY DEF Inv, WriteCounted
<1> QED BY <1>1, Invariance, PTL

\* No lookup follows a stopping error, nor as many failed ones since the last
\* answer as runEnricher allows.
THEOREM OutageStops == Spec => []OutageStopsEnricher
<1>1. Inv => OutageStopsEnricher BY DEF Inv
<1> QED BY <1>1, Invariance, PTL

\* The index a run takes once stays true of all the lookups to come.
THEOREM IndexIsTrue == Spec => []IndexStaysTrue
<1>1. Inv => IndexStaysTrue BY DEF Inv
<1> QED BY <1>1, Invariance, PTL

\* No enricher tries an address again before refresh_after has passed since its
\* last attempt there, through all runs.
THEOREM RefreshIsRespected == Spec => RefreshRespected
<1>1. Inv /\ [Next]_vars =>
         [\A name \in EnricherNames, address \in Addresses :
             LET before == AttemptAt(files[address], name)
                 after  == AttemptAt(files'[address], name)
             IN  before # ZeroTime /\ after # before
                 => after - before >= Limits[name].refreshAfter]_vars
  BY StepRespectsRefresh
<1> QED BY <1>1, Invariance, PTL DEF Spec, RefreshRespected

\* What an ended run does not report as failed it has done.
THEOREM SilenceIsTrue == Spec => []SilenceMeansDone
<1>1. Inv => SilenceMeansDone
  <2> SUFFICES ASSUME Inv, stage = "ended"
               PROVE  /\ \A duty \in log.duties : IsDone(duty)
                      /\ failures = {} =>
                            /\ log.reached = FeedNames \cup EnricherNames
                            /\ \A address \in Addresses : files[address].version \in {0, 2}
    BY DEF SilenceMeansDone, IsDone
  <2>1. \A duty \in log.duties : IsDone(duty) BY DEF Inv, DutiesDone
  <2>2. ASSUME failures = {}
        PROVE  /\ log.reached = FeedNames \cup EnricherNames
               /\ \A address \in Addresses : files[address].version \in {0, 2}
    BY <2>2 DEF Inv, ReachedInOrder, FilesIndexed
  <2> QED BY <2>1, <2>2
<1> QED BY <1>1, Invariance, PTL

\* An enricher that failed at nothing and had its time leaves an address untried
\* only if its lookups were all used.
THEOREM NewAddressesAreEnriched == Spec => []NewAddressesEnriched
<1>1. ASSUME Inv, stage = "ended", failures \cap {"index", "cancelled"} = {},
             NEW name \in EnricherNames \ (failures \cup log.late),
             NEW address \in Addresses, files[address].version = 2,
             AttemptAt(files[address], name) = ZeroTime
      PROVE  Cardinality({other \in Addresses : AttemptAt(files[other], name) >= log.startedAt})
                >= Limits[name].maxLookups
  <2> DEFINE tried == {other \in Addresses : AttemptAt(files[other], name) >= log.startedAt}
             limit == Limits[name].maxLookups
  <2>1. TypeOK /\ name \in Sources /\ limit \in Nat BY <1>1, SetupType DEF Inv
  <2>2. log.reached = FeedNames \cup EnricherNames BY <1>1 DEF Inv, ReachedInOrder
  <2>3. \A other \in Addresses : <<name, other>> \in log.duties => other \in tried
    <3> SUFFICES ASSUME NEW other \in Addresses, <<name, other>> \in log.duties
                 PROVE  AttemptAt(files[other], name) >= log.startedAt
      OBVIOUS
    <3>1. IsDone(<<name, other>>) BY <1>1 DEF Inv, DutiesDone
    <3> QED BY <1>1, <3>1 DEF IsDone
  <2>4. address \notin tried
    <3>1. log.startedAt \in Nat \ {0} BY <2>1, RecordAssumption DEF TypeOK, Logs, Time
    <3> QED BY <1>1, <3>1 DEF ZeroTime
  <2>5. <<name, address>> \notin log.duties BY <2>3, <2>4
  <2>6. Cardinality(DutiesOf(name)) >= limit BY <1>1, <2>2, <2>5 DEF Inv, LookupsUsed
  <2>7. DutiesOf(name) \in SUBSET tried BY <2>3 DEF DutiesOf
  <2>8. IsFiniteSet(tried) BY ScheduleAssumption, FS_Subset
  <2> HIDE DEF tried, limit
  <2>9. /\ Cardinality(DutiesOf(name)) <= Cardinality(tried)
        /\ Cardinality(DutiesOf(name)) \in Nat /\ Cardinality(tried) \in Nat
    BY <2>7, <2>8, FS_Subset, FS_CardinalityType
  <2>10. Cardinality(tried) >= limit BY <2>1, <2>6, <2>9
  <2> QED BY <2>10 DEF tried, limit
<1>2. Inv => NewAddressesEnriched BY <1>1 DEF NewAddressesEnriched
<1> QED BY <1>2, Invariance, PTL
=============================================================================
