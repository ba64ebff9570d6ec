---------------------------- MODULE MCAggregator ----------------------------
(***************************************************************************)
(* Instances of Aggregator for TLC.  What the sources report is modelled   *)
(* in full by RecordHistory; here each has one thing to say.               *)
(***************************************************************************)
EXTENDS Aggregator, TLC

CONSTANTS feed, enricher, other, a1, a2, a3, a4, noKey, mirai, said

InOrder == [address \in {a1, a2, a3, a4} |->
    CASE address = a1 -> 1 [] address = a2 -> 2 [] address = a3 -> 3 [] address = a4 -> 4]

OneFamily == [raw \in {mirai} |-> mirai]
NoReplacement == [text \in {} |-> noKey]

\* The feed flags every address it lists; the enrichers know nothing of any.
FeedReport == NewReport(noKey, {mirai}, said)
OnlyReports == [name \in Sources |->
    IF name = feed THEN {<<FeedReport>>} ELSE {<< >>}]

\* A record of version 1, with one sighting by the feed.
VersionOne ==
    LegacyFile([name \in {feed} |-> <<[datetime |-> 1, flags |-> {mirai}, metadata |-> said]>>])

\* A record of an address the feed has listed, which no enricher has looked up.
Listed ==
    Encode(StoreHistory(EmptyRecord, feed,
        [Answered(NewHistory, 1) EXCEPT !.observations =
            ApplyReport(<< >>, FeedReport, 1)]))

\* Each enricher's lookups in a run; refresh_after is two seconds.
Setup(feeds, enrichers, lookups, addresses, datasets, lastMoment) ==
    [feeds |-> feeds, enrichers |-> enrichers,
     limits |-> [name \in Range(enrichers) |-> [maxLookups |-> lookups, refreshAfter |-> 2]],
     addresses |-> addresses, datasets |-> datasets, lastMoment |-> lastMoment]

\* The dataset with these files; the other addresses have none.
Dataset(some) == [address \in Addresses |->
    IF address \in DOMAIN some THEN some[address] ELSE NoFile]

MixedDatasets ==
    {Dataset((a1 :> first) @@ (a2 :> second)) :
        first \in {NoFile, VersionOne}, second \in {NoFile, UnreadableFile}}
CurrentDatasets == {Dataset(a1 :> file) : file \in {Listed, UnreadableFile}}
ListedDatasets == {[address \in Addresses |-> Listed]}

\* A feed and an enricher over a mixed dataset; two enrichers, of which the
\* second uses an index taken before the first one wrote, long enough for an
\* address to be due again; and an enricher with lookups enough to meet an outage.
MCSetups == {
    Setup(<<feed>>, <<enricher>>, 1, {a1, a2}, MixedDatasets, 2),
    Setup(<< >>, <<enricher, other>>, 1, {a1}, CurrentDatasets, 3),
    Setup(<< >>, <<enricher>>, 4, {a1, a2, a3, a4}, ListedDatasets, 1)}
=============================================================================
