------------------------------ MODULE Collection ------------------------------
(***************************************************************************)
(* One feed over many runs, from its upstream's replies to the files:      *)
(* runFeed in internal/aggregator/aggregator.go, with Collect as in Feeds  *)
(* and files named as in Paths.  The reply is fetched and converted in one *)
(* step, and then each address is updated in one of its own; an update can *)
(* fail, and the run can be cut short between any two.                     *)
(***************************************************************************)
EXTENDS Feeds

CONSTANTS
    FeedNames,   \* the feeds to follow, one at a time
    Replies      \* what the upstream of each can answer

IsLine(line) ==
    /\ line = Line(line.fields, line.opens, line.closes)
    /\ line.fields \in Seq(Range(line.fields))
    /\ {line.opens, line.closes} \subseteq 0..Len(line.fields)

\* What a feed decodes of an entry.
EntryOf(name, entry) ==
    CASE name = "threatfox" ->
            /\ {"decodes", "type", "ioc", "id", "family", "firstSeen", "tags"} = DOMAIN entry
            /\ entry.tags \in Seq(Range(entry.tags))
      [] name = "feodotracker" ->
            {"decodes", "address", "port", "family", "firstSeen", "lastOnline"} = DOMAIN entry
      [] OTHER -> IsLine(entry)

ASSUME CollectionAssumption ==
    /\ FeedNames \subseteq {"threatfox", "feodotracker", "criminalip", "viribacktracker"}
    /\ FeedNames \subseteq Sources
    /\ DOMAIN Replies = FeedNames
    /\ \A name \in FeedNames : \A answer \in Replies[name] :
          /\ DOMAIN answer = {"status", "says", "listed"}
          /\ answer.listed \in Seq(Range(answer.listed))
          /\ \A entry \in Range(answer.listed) : EntryOf(name, entry)
          /\ \A sighting \in Range(Collect(name, answer).sightings) : sighting.report \in Report

VARIABLES
    feed,        \* the feed that is followed
    files,       \* the record files, by name; an address without one has no name here
    clock,       \* the current second
    addresses,   \* the listed addresses whose reports are not stored yet
    sightings,   \* what Collect returned
    stamp,       \* the moment this run's reports are stored under
    failed,      \* the addresses whose update failed in this run
    reply,       \* the last reply, {} before the first or when its run was cut short
    heard        \* what the replies listed and when, for the properties only

vars == <<feed, files, clock, addresses, sightings, stamp, failed, reply, heard>>

FileAt(name) == IF name \in DOMAIN files THEN files[name] ELSE NoFile

Init ==
    /\ feed \in FeedNames
    /\ files = [name \in {} |-> NoFile]
    /\ clock = 1 /\ stamp = ZeroTime
    /\ addresses = << >> /\ sightings = << >> /\ failed = {}
    /\ reply = {} /\ heard = {}

-----------------------------------------------------------------------------
(* The entries of a reply, for the properties only *)

IsCSV == feed \in {"criminalip", "viribacktracker"}

Entries(answer) == IF IsCSV THEN 2..Len(answer.listed) ELSE DOMAIN answer.listed

\* What the feed makes of an entry that is the only one of its reply.
Alone(answer, index) ==
    LET entry == answer.listed[index] IN
    Collect(feed, [answer EXCEPT !.listed =
        IF IsCSV THEN <<Line(<< >>, 0, 0), entry>> ELSE <<entry>>]).sightings

\* Whether the entry is a line on which a quoted field begins that it does not end.
LeavesQuoteOpen(answer, index) == IsCSV /\ answer.listed[index].opens # 0

-----------------------------------------------------------------------------

\* An hourly run gets an answer: its sightings are grouped, or it fails as a whole.
\* Only runs that list nothing can follow each other within a second.
CollectFeed(answer) ==
    LET collected == Collect(feed, answer) IN
    /\ addresses = << >>
    /\ stamp < clock \/ collected.sightings = << >>
    /\ sightings' = collected.sightings
    /\ addresses' = ListedAddresses(collected.sightings)
    /\ stamp' = clock
    /\ failed' = {}
    /\ reply' = IF collected.error = "none" THEN {answer} ELSE {}
    /\ heard' = IF collected.error = "none"
                THEN heard \cup {[at |-> clock, sighting |-> sighting] :
                        sighting \in UNION {Range(Alone(answer, index)) : index \in Entries(answer)}}
                ELSE heard
    /\ UNCHANGED <<feed, files, clock>>

\* addReports with all its reports for the address.
WithReports(record, reports, checkedAt) ==
    LET history == Answered(HistoryOf(record.sources, feed), checkedAt) IN
    StoreHistory(record, feed,
        [history EXCEPT !.observations =
            FoldLeft(LAMBDA observations, report : ApplyReport(observations, report, checkedAt),
                     history.observations, reports)])

\* An update reads the file and writes it.
UpdatedFile(file, reports, checkedAt) == Encode(WithReports(Decode(file), reports, checkedAt))

StoreReports ==
    /\ addresses # << >>
    /\ LET address == Head(addresses)
           name    == AddressFileName(address)
           file    == UpdatedFile(FileAt(name), ReportsFor(sightings, address), stamp)
       IN  \/ /\ files' = [other \in DOMAIN files \cup {name} |->
                              IF other = name THEN file ELSE files[other]]
              /\ UNCHANGED failed
           \/ /\ failed' = failed \cup {address}
              /\ UNCHANGED files
    /\ addresses' = Tail(addresses)
    /\ UNCHANGED <<feed, clock, sightings, stamp, reply, heard>>

\* Cancelled or killed: the addresses left get nothing from this reply.
CutShort ==
    /\ addresses # << >>
    /\ addresses' = << >>
    /\ reply' = {}
    /\ UNCHANGED <<feed, files, clock, sightings, stamp, failed, heard>>

Tick ==
    /\ addresses = << >>
    /\ clock < MaxTime
    /\ clock' = clock + 1
    /\ UNCHANGED <<feed, files, addresses, sightings, stamp, failed, reply, heard>>

Next ==
    \/ \E answer \in Replies[feed] : CollectFeed(answer)
    \/ StoreReports
    \/ CutShort
    \/ Tick

Spec == Init /\ [][Next]_vars

-----------------------------------------------------------------------------
(* Properties *)

ObservationsIn(file) == HistoryOf(Decode(file).sources, feed).observations

ObservationsOf(address) == ObservationsIn(FileAt(AddressFileName(address)))

\* A complete run has stored each of these entries, as it would alone, under the
\* address it is about, unless that address's update is among the failures.
AreStored(answer, indexes) ==
    \A index \in indexes : \A sighting \in Range(Alone(answer, index)) :
        \/ sighting.address \in failed
        \/ \E observation \in Range(ObservationsOf(sighting.address)) :
              /\ observation.key = ValidText(sighting.report.key)
              /\ HasSameContent(observation, sighting.report)
              /\ observation.lastObserved = stamp

\* A well-formed entry is stored whatever the other entries are, malformed or
\* about other things, up to a line of CSV that leaves a quote open.
GoodEntriesStored ==
    \A answer \in reply :
        addresses = << >> =>
            AreStored(answer, {index \in Entries(answer) :
                                  \A earlier \in 1..index : ~LeavesQuoteOpen(answer, earlier)})

\* "one malformed row doesn't stop the rest of the feed being stored" (csv.go:14):
\* the same of the entries after such a line.
MalformedRowCostsOnlyItself ==
    \A answer \in reply :
        addresses = << >> =>
            AreStored(answer, {index \in Entries(answer) : ~LeavesQuoteOpen(answer, index)})

IsGarbled(observation) ==
    /\ IsCSV
    /\ \/ observation.key = Garbled \/ Garbled \in observation.flags
       \/ Garbled \in Range(observation.data.value)

\* Nothing is attributed to the wrong address or time: every observation says what
\* an entry about just its file's address said at the first and at the last moment
\* it covers, unless it was read over the end of a line.
OnlyListedIsStored ==
    \A name \in DOMAIN files : \A address \in AddressFromFileName(name) :
        \A observation \in Range(ObservationsOf(address)) :
            IsGarbled(observation) \/
            \A moment \in {observation.firstObserved, observation.lastObserved} :
                \E said \in heard :
                    /\ said.at = moment /\ said.sighting.address = address
                    /\ ValidText(said.sighting.report.key) = observation.key
                    /\ HasSameContent(observation, said.sighting.report)

\* The same entries the other way round, and their tags as well.
Reordered(answer) ==
    [answer EXCEPT !.listed =
        IF IsCSV THEN <<Head(answer.listed)>> \o Reverse(Tail(answer.listed))
        ELSE [index \in DOMAIN answer.listed |->
                LET entry == answer.listed[Len(answer.listed) + 1 - index] IN
                [field \in DOMAIN entry |->
                    IF field = "tags" THEN Reverse(entry.tags) ELSE entry[field]]]]

\* Replies without a line that leaves a quote open.
Legible == {answer \in Replies[feed] :
    \A index \in DOMAIN answer.listed : ~LeavesQuoteOpen(answer, index)}

\* The keys a reply lists for an address.
KeysListed(answer, address) ==
    LET reports == ReportsFor(Collect(feed, answer).sightings, address) IN
    [index \in DOMAIN reports |-> reports[index].key]

\* A run that lists for the address what the run before did, in another order,
\* leaves as many observations in its file, whatever these were before both.
SecondListingAddsNothing(answer, address) ==
    LET first  == ReportsFor(Collect(feed, answer).sightings, address)
        second == ReportsFor(Collect(feed, Reordered(answer)).sightings, address)
        once   == UpdatedFile(FileAt(AddressFileName(address)), first, clock)
        twice  == UpdatedFile(once, second, clock)
    IN  Len(ObservationsIn(twice)) = Len(ObservationsIn(once))

\* A feed that lists for an address what it listed at the last run, in whatever
\* order, adds nothing to its file the second time, if it lists each key of the
\* address once and all of them are valid UTF-8.
RelistingAddsNothing ==
    \A answer \in Legible :
        \A address \in Range(ListedAddresses(Collect(feed, answer).sightings)) :
            LET keys == KeysListed(answer, address) IN
            IsInjective(keys) /\ Range(keys) \cap InvalidTexts = {}
            => SecondListingAddsNothing(answer, address)

\* "Repeated sightings therefore don't create duplicates" (README.md:114): what runs
\* one after the other list about one thing is one observation, so none says again
\* what another said until the second before it began.
RepeatedSightingsAddNothing ==
    \A name \in DOMAIN files :
        LET observations == ObservationsIn(files[name]) IN
        \A first, second \in DOMAIN observations :
            (/\ observations[first].key = observations[second].key
             /\ observations[first].lastObserved + 1 = observations[second].firstObserved)
            => ~HasSameContent(observations[first], observations[second])

\* One host, one file: no two files are about one host, each address has a file of
\* its own, and the walk reads that address from the file's name.
OneFilePerHost ==
    /\ \A first, second \in DOMAIN files :
          \A one \in AddressFromFileName(first), other \in AddressFromFileName(second) :
              Host(one) = Host(other) => first = second
    /\ \A said \in heard :
          AddressFromFileName(AddressFileName(said.sighting.address)) = {said.sighting.address}
=============================================================================
