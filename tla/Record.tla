------------------------------- MODULE Record -------------------------------
(***************************************************************************)
(* The record of one IP address and the operations on it: the model of     *)
(* internal/aggregator/record.go and of the encoding in storage.go.        *)
(*                                                                         *)
(* A record keeps, per source, every distinct report the source ever made, *)
(* as observations with the period over which the source kept saying the   *)
(* same thing.  The module has no variables.                               *)
(*                                                                         *)
(* Times are whole seconds, as Run stamps them; 0 is Go's zero time.       *)
(* Flags, which the code keeps as sorted slices without duplicates, are    *)
(* sets.  Data is abstracted to what it says (its value) and how its JSON  *)
(* is laid out, because the code compares the one and stores the other.    *)
(*                                                                         *)
(* Text from an upstream need not be valid UTF-8.  NewReport replaces what *)
(* is invalid in the data and the flags, and leaves the key as it is; only *)
(* the encoder replaces it there.                                          *)
(*                                                                         *)
(* In this and the other modules a definition marked as a mutant is a      *)
(* mistake the code could have made in the definition after it.  Nothing   *)
(* uses it: a run in which it took that one's place has to fail.           *)
(***************************************************************************)
EXTENDS Integers, Sequences, Functions

CONSTANTS
    Sources,        \* the names of the configured sources
    Keys,           \* what reports can be about within a source
    NoKey,          \* the empty key
    RawFlags,       \* malware families as an upstream spells them
    EmptyFlag,      \* the empty family name
    Families,       \* malware families in lower case
    LowerCase,      \* the lower-case form of each raw family but the empty one
    Values,         \* what a source's details can say
    InvalidTexts,   \* the texts that are not valid UTF-8
    Replacement,    \* what an encoder writes for each of them
    MaxTime         \* bound on time

ASSUME RecordAssumption ==
    /\ NoKey \in Keys
    /\ LowerCase \in [RawFlags \ {EmptyFlag} -> Families]
    /\ DOMAIN Replacement = InvalidTexts
    /\ \A text \in InvalidTexts : Replacement[text] \notin InvalidTexts
    /\ \A key \in Keys \cap InvalidTexts : Replacement[key] \in Keys
    /\ NoKey \notin InvalidTexts
    /\ MaxTime \in Nat \ {0}

Moment == 0..MaxTime
Time == 1..MaxTime
ZeroTime == 0

Data == [value : Values, layout : {"compact", "indented"}]

Report == [key : Keys, flags : SUBSET Families, data : Data]

Observation ==
    [key : Keys, firstObserved : Time, lastObserved : Time,
     flags : SUBSET Families, data : Data]

\* lastError is the OccurredAt of the source's error, ZeroTime without one.
SourceHistory ==
    [lastChecked : Moment, lastError : Moment, observations : Seq(Observation)]

\* The sources map is a function on the names that have an entry.
IsSourcesMap(sources) ==
    /\ DOMAIN sources \subseteq Sources
    /\ sources \in [DOMAIN sources -> SourceHistory]

IsRecord(record) ==
    /\ record \in [firstSeen : Moment, lastSeen : Moment, flags : SUBSET Families,
                   sources : {record.sources}]
    /\ IsSourcesMap(record.sources)

-----------------------------------------------------------------------------
(* Reports *)

\* Text as it is encoded.
ValidText(text) == IF text \in InvalidTexts THEN Replacement[text] ELSE text

\* strings.ToLower replaces invalid UTF-8 as well.
NormaliseFlags(raw) == {LowerCase[flag] : flag \in raw \ {EmptyFlag}}

\* The value is what data says once it is encoded; the key is not encoded here.
NewReport(key, raw, value) ==
    [key |-> key, flags |-> NormaliseFlags(raw),
     data |-> [value |-> value, layout |-> "compact"]]

-----------------------------------------------------------------------------
(* One source's history *)

NewHistory ==
    [lastChecked |-> ZeroTime, lastError |-> ZeroTime, observations |-> << >>]

\* A missing entry of the map reads as the zero history.
HistoryOf(sources, source) ==
    IF source \in DOMAIN sources THEN sources[source] ELSE NewHistory

WriteHistory(sources, source, history) ==
    [name \in DOMAIN sources \cup {source} |->
        IF name = source THEN history ELSE sources[name]]

FirstObservationIndex(observations, key) ==   \* mutant: searched from the front
    {index \in DOMAIN observations :
        /\ observations[index].key = key
        /\ \A earlier \in DOMAIN observations :
              observations[earlier].key = key => index <= earlier}

\* The index of the newest observation with key, as a set: empty for -1.
LatestObservationIndex(observations, key) ==
    {index \in DOMAIN observations :
        /\ observations[index].key = key
        /\ \A later \in DOMAIN observations :
              observations[later].key = key => later <= index}

HasSameBytes(observation, report) ==   \* mutant: compared without Canonicalize
    /\ observation.flags = report.flags
    /\ observation.data = report.data

\* Canonicalize removes the layout from both sides before they are compared.
HasSameContent(observation, report) ==
    /\ observation.flags = report.flags
    /\ observation.data.value = report.data.value

\* What opens addReports: the source has answered, so its error is cleared.
Answered(history, checkedAt) ==
    [history EXCEPT !.lastChecked = checkedAt, !.lastError = ZeroTime]

UndatedObservation(report, checkedAt) ==   \* mutant: first_observed is never set
    [key |-> report.key, firstObserved |-> ZeroTime, lastObserved |-> checkedAt,
     flags |-> report.flags, data |-> report.data]

NewObservation(report, checkedAt) ==
    [key |-> report.key, firstObserved |-> checkedAt, lastObserved |-> checkedAt,
     flags |-> report.flags, data |-> report.data]

EndedNow(observation, checkedAt) ==   \* mutant: the moments are not compared
    [observation EXCEPT !.lastObserved = checkedAt]

Extended(observation, checkedAt) ==
    IF checkedAt > observation.lastObserved
    THEN [observation EXCEPT !.lastObserved = checkedAt]
    ELSE observation

ReplaceReport(observations, report, checkedAt) ==   \* mutant: a change overwrites
    LET latest == LatestObservationIndex(observations, report.key) IN
    IF latest = {} THEN Append(observations, NewObservation(report, checkedAt))
    ELSE [index \in DOMAIN observations |->
            IF index \in latest THEN NewObservation(report, checkedAt)
            ELSE observations[index]]

\* One iteration of the loop of addReports.
ApplyReport(observations, report, checkedAt) ==
    LET unchanged == {index \in LatestObservationIndex(observations, report.key) :
                        HasSameContent(observations[index], report)}
    IN  IF unchanged # {}
        THEN [index \in DOMAIN observations |->
                IF index \in unchanged
                THEN Extended(observations[index], checkedAt)
                ELSE observations[index]]
        ELSE Append(observations, NewObservation(report, checkedAt))

-----------------------------------------------------------------------------
(* The whole record *)

EmptyRecord ==
    [firstSeen |-> ZeroTime, lastSeen |-> ZeroTime, flags |-> {},
     sources |-> [name \in {} |-> NewHistory]]

Earliest(moments) == CHOOSE first \in moments : \A other \in moments : first <= other
Latest(moments) == CHOOSE last \in moments : \A other \in moments : other <= last

FlaggedObservations(sources) ==
    {observation \in UNION {Range(sources[name].observations) : name \in DOMAIN sources} :
        observation.flags # {}}

Summarise(record) ==
    LET flagged == FlaggedObservations(record.sources) IN
    [record EXCEPT
        !.flags = UNION {observation.flags : observation \in flagged},
        !.firstSeen = IF flagged = {} THEN ZeroTime
                      ELSE Earliest({observation.firstObserved : observation \in flagged}),
        !.lastSeen = IF flagged = {} THEN ZeroTime
                     ELSE Latest({observation.lastObserved : observation \in flagged})]

StoreHistoryOnly(record, source, history) ==   \* mutant: summarise is not called
    [record EXCEPT !.sources = WriteHistory(record.sources, source, history)]

\* The end of addReports: the copied history is written back.
StoreHistory(record, source, history) ==
    Summarise([record EXCEPT !.sources = WriteHistory(record.sources, source, history)])

FailureRecorded(record, source, occurredAt) ==
    [record EXCEPT !.sources =
        WriteHistory(record.sources, source,
            [HistoryOf(record.sources, source) EXCEPT !.lastError = occurredAt])]

\* Whether the source ever tried the address, and when it last did.
WasAttempted(record, source) == source \in DOMAIN record.sources

LastAnswer(record, source) == record.sources[source].lastChecked   \* mutant

LastAttempt(record, source) ==
    LET history == record.sources[source] IN
    IF history.lastError > history.lastChecked THEN history.lastError
    ELSE history.lastChecked

-----------------------------------------------------------------------------
(* Files.  A version 1 payload is a list of results; the results of one     *)
(* source keep their order, which is all that converting them depends on,   *)
(* so a payload is a function from source names to their results.  Every    *)
(* result has a datetime: version 1 always wrote one.                       *)

LegacyResult == [datetime : Time, flags : SUBSET RawFlags, metadata : Values]

IsLegacyPayload(payload) ==
    /\ DOMAIN payload \subseteq Sources
    /\ \A name \in DOMAIN payload :
          payload[name] \in Seq(LegacyResult) /\ payload[name] # << >>

MigratedResult(result) ==
    [key |-> NoKey, firstObserved |-> result.datetime, lastObserved |-> result.datetime,
     flags |-> NormaliseFlags(result.flags),
     data |-> [value |-> result.metadata, layout |-> "indented"]]

MigratedHistory(results) ==
    [lastChecked |-> Latest({results[index].datetime : index \in DOMAIN results}),
     lastError |-> ZeroTime,
     observations |-> [index \in DOMAIN results |-> MigratedResult(results[index])]]

MigrateLegacyPayload(payload) ==
    Summarise([EmptyRecord EXCEPT !.sources =
        [name \in DOMAIN payload |-> MigratedHistory(payload[name])]])

\* What the store finds under an address's name: nothing, or a file in the
\* format of one of the two schema versions.
NoFile == [version |-> 0]
LegacyFile(payload) == [version |-> 1, payload |-> payload]
RecordFile(record) == [version |-> 2, record |-> record]

\* What the encoder wrote.
HasValidKeys(record) ==
    \A name \in DOMAIN record.sources :
        \A observation \in Range(record.sources[name].observations) :
            observation.key \notin InvalidTexts

IsFile(file) ==
    \/ file = NoFile
    \/ file.version = 1 /\ file = LegacyFile(file.payload) /\ IsLegacyPayload(file.payload)
    \/ /\ file.version = 2 /\ file = RecordFile(file.record)
       /\ IsRecord(file.record) /\ HasValidKeys(file.record)

Decode(file) ==
    CASE file.version = 0 -> EmptyRecord
      [] file.version = 1 -> MigrateLegacyPayload(file.payload)
      [] file.version = 2 -> file.record

\* The encoder lays every value out afresh, whatever its layout was, and replaces
\* invalid UTF-8 in the key.
LaidOut(observation) ==
    [observation EXCEPT !.key = ValidText(@), !.data = [@ EXCEPT !.layout = "indented"]]

EncodedHistory(history) ==
    [history EXCEPT !.observations =
        [index \in DOMAIN history.observations |-> LaidOut(history.observations[index])]]

Encode(record) ==
    RecordFile([record EXCEPT !.sources =
        [name \in DOMAIN record.sources |-> EncodedHistory(record.sources[name])]])

-----------------------------------------------------------------------------
(* What a summary must say *)

\* The flags are those of the observations; first_seen and last_seen enclose
\* every flagged observation and are each reached by one.
SummaryMatches(record) ==
    LET flagged == FlaggedObservations(record.sources) IN
    /\ record.flags = UNION {observation.flags : observation \in flagged}
    /\ \A observation \in flagged :
          /\ record.firstSeen <= observation.firstObserved
          /\ observation.lastObserved <= record.lastSeen
    /\ IF flagged = {}
       THEN record.firstSeen = ZeroTime /\ record.lastSeen = ZeroTime
       ELSE /\ \E observation \in flagged : observation.firstObserved = record.firstSeen
            /\ \E observation \in flagged : observation.lastObserved = record.lastSeen

-----------------------------------------------------------------------------
(* What a history may become *)

\* An observation keeps what it says and when it began, and its end only moves
\* on: "Observations are only ever added or extended, never replaced or removed".
\* Its key is the same once it is encoded.
Continues(before, after) ==
    /\ ValidText(after.key) = ValidText(before.key)
    /\ after.flags = before.flags
    /\ after.data.value = before.data.value
    /\ after.firstObserved = before.firstObserved
    /\ after.lastObserved >= before.lastObserved

Grows(before, after) ==
    /\ Len(before) <= Len(after)
    /\ \A index \in DOMAIN before : Continues(before[index], after[index])

SourcesGrow(before, after) ==
    \A source \in DOMAIN before :
        /\ source \in DOMAIN after
        /\ Grows(before[source].observations, after[source].observations)
=============================================================================
