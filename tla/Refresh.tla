------------------------------ MODULE Refresh ------------------------------
(***************************************************************************)
(* One enricher over many runs of the program: which addresses it gets     *)
(* round to, and when, under the schedule of sources.json.  Aggregator     *)
(* models what happens within a run; here a run is one step.               *)
(*                                                                         *)
(* Time is counted in ticks.  A run selects addresses at one moment, its   *)
(* now, and stamps each attempt when the lookup is stored, later: at any   *)
(* moment before the next run's now, which comes within RunInterval.  A    *)
(* last attempt is kept relative to the current run's now, -3 for three    *)
(* ticks ago, so that the program can run forever in finitely many states; *)
(* Horizon bounds how far back an attempt is told from earlier ones.       *)
(* first_seen only matters for its order, and is a number of its own.      *)
(* RefreshInit, RefreshNext and RefreshSpec have the names they have for   *)
(* the sake of LimitsProofs, which extends Upstream as well.               *)
(***************************************************************************)
EXTENDS Schedule

CONSTANTS
    Enricher,      \* the enricher's name
    Schedules,     \* the schedules it can have, refreshAfter in ticks
    RunInterval    \* bound on the time from one run's now to the next one's

ASSUME RefreshAssumption ==
    /\ RunInterval \in Nat \ {0}
    /\ \A schedule \in Schedules : IsSchedule(schedule)

VARIABLES
    limits,    \* its schedule in sources.json
    entries,   \* the index entries of the stored addresses
    cutShort   \* whether a run ever stopped before its last lookup, for the properties only

refreshVars == <<limits, entries, cutShort>>

Seen == 0..Cardinality(Addresses)

Horizon == 2 * limits.refreshAfter + RunInterval

RefreshInit ==
    /\ limits \in Schedules
    /\ entries = [address \in {} |-> [firstSeen |-> 0, lastAttempts |-> {}]]
    /\ cutShort = FALSE

\* The addresses feeds add get a first_seen later than all before them.
Newest == IF DOMAIN entries = {} THEN 0
          ELSE CHOOSE seen \in Seen :
                  /\ \E address \in DOMAIN entries : entries[address].firstSeen = seen
                  /\ \A address \in DOMAIN entries : entries[address].firstSeen <= seen

WithFound(found) ==
    [address \in DOMAIN entries \cup found |->
        IF address \in found
        THEN [firstSeen |-> Newest + 1, lastAttempts |-> [name \in {} |-> 0]]
        ELSE entries[address]]

\* An attempt of before seen from a now that is gap later.
Older(attempt, gap) == IF attempt - gap < -Horizon THEN -Horizon ELSE attempt - gap

\* The index of the next run: ages is how long ago the addresses of this one's
\* lookups were then tried.
Aged(indexed, gap, ages) ==
    [address \in DOMAIN indexed |->
        [indexed[address] EXCEPT !.lastAttempts =
            IF address \in DOMAIN ages THEN [name \in {Enricher} |-> -ages[address]]
            ELSE [name \in DOMAIN @ |-> Older(@[name], gap)]]]

Selected(found) == SelectDueAddresses(WithFound(found), Enricher, limits, 0)

\* What an enricher has done wherever it stops: it goes in the order of the selection.
Prefixes(found) ==
    {done \in SUBSET Selected(found) :
        \A address \in done, other \in Selected(found) \ done :
            SortsBefore(WithFound(found), Enricher, address, other)}

\* A run: feeds add addresses, then the enricher looks up, in order, as many
\* of the selected addresses as it gets to before it stops, and every attempt
\* is stored under the moment it ends at.
Run(found, done, gap, ages) ==
    /\ entries' = Aged(WithFound(found), gap, ages)
    /\ \A first, second \in done :
          SortsBefore(WithFound(found), Enricher, first, second) => ages[first] >= ages[second]
    /\ cutShort' = (cutShort \/ done # Selected(found))
    /\ UNCHANGED limits

New == SUBSET (Addresses \ DOMAIN entries)

CompleteRun ==
    \E found \in New :
        LET selected == Selected(found) IN
        \E gap \in 1..RunInterval : \E ages \in [selected -> 1..gap] :
            Run(found, selected, gap, ages)

RefreshNext ==
    \E found \in New : \E done \in Prefixes(found) :
        \E gap \in 1..RunInterval : \E ages \in [done -> 1..gap] : Run(found, done, gap, ages)

RefreshSpec == RefreshInit /\ [][RefreshNext]_refreshVars

\* Every now and then a run's lookups are not cut short.
RefreshFairSpec == RefreshSpec /\ WF_refreshVars(CompleteRun)

-----------------------------------------------------------------------------
(* Properties *)

Waiting(address) == -entries[address].lastAttempts[Enricher]

\* If the quota is enough for the dataset, in that the runs there surely are in
\* refreshAfter have a lookup for each address, and no run was cut short, then none
\* ever waits for twice that long, although attempts are stamped later than the
\* selections that count from them, and addresses found later go first.
EnoughQuotaRefreshesInTime ==
    /\ ~cutShort
    /\ Cardinality(Addresses) <= limits.maxLookups * (limits.refreshAfter \div RunInterval)
    =>
        \A address \in DOMAIN entries :
            WasTried(entries[address], Enricher) =>
                Waiting(address) < 2 * limits.refreshAfter

\* The addresses never tried that a run looks up before the given one.
Ahead(address) ==
    {other \in DOMAIN entries :
        /\ ~WasTried(entries[other], Enricher)
        /\ SortsBefore(entries, Enricher, other, address)}

\* A run that is not cut short and does not get to an address never tried spends all
\* its lookups on those ahead of it, while all it finds go there (aggregator.go:512-514):
\* the queue before the address shrinks by maxLookups less what feeds add, and where
\* they add that many in every run the address waits for ever.
BacklogMovesByQuota ==
    [][~cutShort' =>
        \A address \in DOMAIN entries :
            (~WasTried(entries[address], Enricher) /\ ~WasTried(entries'[address], Enricher)) =>
                Cardinality(Ahead(address)') + limits.maxLookups
                    = Cardinality(Ahead(address)) + Cardinality(DOMAIN entries' \ DOMAIN entries)
      ]_refreshVars

\* Once feeds add no more, every address they added is looked up some day,
\* although runs can stop early and the quota can be too small to refresh them all.
NewAddressesAreTried ==
    <>[][DOMAIN entries' = DOMAIN entries]_entries =>
        \A address \in Addresses :
            address \in DOMAIN entries ~>
                address \in DOMAIN entries /\ WasTried(entries[address], Enricher)
=============================================================================
