-------------------------------- MODULE Feeds --------------------------------
(***************************************************************************)
(* What each feed makes of its upstream's reply: Collect and newSighting   *)
(* in the packages of the feeds, entries.go and csv.go.  The module has no *)
(* variables.                                                              *)
(*                                                                         *)
(* Texts are strings taken as wholes.  Which of them net/netip, strconv    *)
(* and time can parse is given by constants.  A JSON entry is a record of  *)
(* the fields the feed decodes; a line of CSV is its fields, with the      *)
(* places where a quoted field begins or ends that is not on that line     *)
(* alone.  What a report stores is the list of the fields it copies, with  *)
(* invalid UTF-8 replaced: CSV can have some, JSON that has is refused.    *)
(***************************************************************************)
EXTENDS Record, Kinds, Paths

CONSTANTS
    AddressTexts,     \* the address each text denotes that netip.ParseAddr accepts
    PortTexts,        \* the texts that are numbers of 16 bits
    DateTexts,        \* the texts in the layout of the feed's dates
    UnknownMalware,   \* the flag of an indicator without a family
    Garbled           \* text that was read over the end of a line

ASSUME FeedsAssumption ==
    /\ \A text \in DOMAIN AddressTexts : AddressTexts[text] \in Address
    /\ Garbled \notin DOMAIN AddressTexts \cup PortTexts \cup DateTexts
    /\ {UnknownMalware, Garbled} \subseteq RawFlags \ {EmptyFlag}
    /\ LowerCase[Garbled] = Garbled
    /\ Garbled \notin InvalidTexts

\* What a query came to: the kind of its error or "none", and the sightings.
CollectFailed(kind) == [error |-> kind, sightings |-> << >>]
Collected(sightings) == [error |-> "none", sightings |-> sightings]

-----------------------------------------------------------------------------
(* Entries: each becomes a sighting, or nothing if it is skipped *)

\* The address, or nothing: {} or a singleton.
ParseAddress(text) ==
    {AddressTexts[known] : known \in {known \in DOMAIN AddressTexts :
        known = text /\ IsStorableAddress(AddressTexts[known])}}

Sightings(text, report) ==
    {[address |-> address, report |-> report] : address \in ParseAddress(text)}

UnsortedThreatFoxSighting(entry) ==   \* mutant: the tags as they come
    IF /\ entry.decodes
       /\ entry.type = "ip:port"
       /\ Len(entry.ioc) = 2 /\ entry.ioc[2] \in PortTexts
       /\ entry.firstSeen \in DateTexts
    THEN Sightings(entry.ioc[1],
            NewReport(entry.id,
                      {IF entry.family = EmptyFlag THEN UnknownMalware ELSE entry.family},
                      <<entry.ioc, entry.family, entry.firstSeen, entry.tags>>))
    ELSE {}

\* ioc is the indicator's text, cut at its colons: IPv6 addresses are cut
\* as well.  The tags are stored sorted and each once.
ThreatFoxSighting(entry) ==
    IF /\ entry.decodes
       /\ entry.type = "ip:port"
       /\ Len(entry.ioc) = 2 /\ entry.ioc[2] \in PortTexts
       /\ entry.firstSeen \in DateTexts
    THEN Sightings(entry.ioc[1],
            NewReport(entry.id,
                      {IF entry.family = EmptyFlag THEN UnknownMalware ELSE entry.family},
                      <<entry.ioc, entry.family, entry.firstSeen, Range(entry.tags)>>))
    ELSE {}

\* A report whose flags are all empty is refused by the other feeds.
Flagged(sightings) == {sighting \in sightings : sighting.report.flags # {}}

FeodoTrackerSighting(entry) ==
    IF /\ entry.decodes
       /\ entry.firstSeen \in DateTexts
       /\ entry.lastOnline \in DateTexts \cup {"null"}
    THEN Flagged(Sightings(entry.address,
            NewReport(entry.port, {entry.family},
                      <<entry.port, entry.firstSeen, entry.lastOnline>>)))
    ELSE {}

\* Address, family, port, score, country and scan time.
CriminalIPSighting(row) ==
    IF row[6] \in DateTexts
    THEN Flagged(Sightings(row[1],
            NewReport(row[3], {row[2]}, [column \in 1..4 |-> ValidText(row[column + 2])])))
    ELSE {}

\* Family, URL of the panel, address and day.
ViriBackSighting(row) ==
    IF row[4] \in DateTexts
    THEN Flagged(Sightings(row[3],
            NewReport(row[2], {row[1]}, <<ValidText(row[2]), row[4]>>)))
    ELSE {}

NewSighting(feed, entry) ==
    CASE feed = "threatfox"       -> ThreatFoxSighting(entry)
      [] feed = "feodotracker"    -> FeodoTrackerSighting(entry)
      [] feed = "criminalip"      -> CriminalIPSighting(entry)
      [] feed = "viribacktracker" -> ViriBackSighting(entry)

ConvertUntilMalformed(feed, entries) ==   \* mutant: break instead of continue
    LET good == {index \in DOMAIN entries :
                    \A earlier \in 1..index : NewSighting(feed, entries[earlier]) # {}}
    IN  [index \in good |-> CHOOSE sighting \in NewSighting(feed, entries[index]) : TRUE]

ConvertEntries(feed, entries) ==
    FlattenSeq([index \in DOMAIN entries |-> SetToSeq(NewSighting(feed, entries[index]))])

-----------------------------------------------------------------------------
(* CSV *)

\* A line whose field number opens begins a quoted field it does not end, and one
\* whose field number closes ends one it does not begin; 0 for no such field.
Line(fields, opens, closes) == [fields |-> fields, opens |-> opens, closes |-> closes]

\* encoding/csv with LazyQuotes: a quoted field runs on over the lines until one
\* ends it, and the end of the file ends it too.  held is the row in progress.
ReadLine(reading, line) ==
    IF reading.held = {}
    THEN IF line.opens = 0
         THEN [reading EXCEPT !.rows = Append(@, line.fields)]
         ELSE [reading EXCEPT !.held = {Append(SubSeq(line.fields, 1, line.opens - 1), Garbled)}]
    ELSE IF line.closes = 0 THEN reading
         ELSE [rows |-> reading.rows \o
                  SetToSeq({row \o SubSeq(line.fields, line.closes + 1, Len(line.fields)) :
                                row \in reading.held}),
               held |-> {}]

ReadRecords(lines) ==
    LET reading == FoldLeft(ReadLine, [rows |-> << >>, held |-> {}], lines) IN
    reading.rows \o SetToSeq(reading.held)

\* The first record is the header; one with too many or too few columns is skipped.
ReadCSVRows(lines, columnCount) ==
    LET records == ReadRecords(lines) IN
    FlattenSeq([index \in DOMAIN records |->
        IF index # 1 /\ Len(records[index]) = columnCount THEN <<records[index]>> ELSE << >>])

-----------------------------------------------------------------------------
(* Replies.  listed is what a body lists: JSON entries or CSV lines. *)

\* ThreatFox says in a body what others say with a status; what comes with "ok"
\* can be something else than a list.
ConvertResponse(reply) ==
    CASE reply.says = "malformed"        -> CollectFailed("other")
      [] reply.says = "no_result"        -> Collected(<< >>)
      [] reply.says = "unknown_auth_key" -> CollectFailed("unauthorised")
      [] reply.says = "ok without list"  -> CollectFailed("other")
      [] reply.says = "ok"               -> Collected(ConvertEntries("threatfox", reply.listed))
      [] OTHER                           -> CollectFailed("rejected")

\* Collect of each feed.  A file of Criminal IP that is not published yet is
\* empty; every body is some CSV.
Collect(feed, reply) ==
    CASE feed = "criminalip" /\ FetchError(reply) = "not found" -> Collected(<< >>)
      [] FetchError(reply) # "none" -> CollectFailed(FetchError(reply))
      [] OTHER ->
            CASE feed = "threatfox" -> ConvertResponse(reply)
              [] feed = "feodotracker" ->
                    IF reply.says = "malformed" THEN CollectFailed("other")
                    ELSE Collected(ConvertEntries(feed, reply.listed))
              [] feed = "criminalip" ->
                    Collected(ConvertEntries(feed, ReadCSVRows(reply.listed, 6)))
              [] feed = "viribacktracker" ->
                    Collected(ConvertEntries(feed, ReadCSVRows(reply.listed, 4)))

-----------------------------------------------------------------------------
(* Grouping by address, in runFeed *)

ListedAddresses(sightings) ==
    FlattenSeq([index \in DOMAIN sightings |->
        IF \E earlier \in 1 .. index - 1 : sightings[earlier].address = sightings[index].address
        THEN << >> ELSE <<sightings[index].address>>])

EveryReport(sightings, address) ==   \* mutant: the map is not indexed by address
    [index \in DOMAIN sightings |-> sightings[index].report]

ReportsFor(sightings, address) ==
    FlattenSeq([index \in DOMAIN sightings |->
        IF sightings[index].address = address THEN <<sightings[index].report>> ELSE << >>])
=============================================================================
