------------------------------ MODULE Schedule ------------------------------
(***************************************************************************)
(* Which addresses an enricher looks up in one run, and in which order:    *)
(* selectDueAddresses in internal/aggregator/aggregator.go.  The module    *)
(* has no variables.                                                       *)
(*                                                                         *)
(* entries maps each indexed address to its index entry: the first_seen of *)
(* its record, 0 if no source has flagged it, and when each source that    *)
(* ever tried the address last did.  The slice the code sorts and cuts is  *)
(* the set of addresses left after the cut, in the order of SortsBefore.   *)
(***************************************************************************)
EXTENDS Integers, FiniteSets

CONSTANTS
    Addresses,   \* the addresses of the dataset
    Order        \* their places in the order of netip.Addr.Compare

ASSUME ScheduleAssumption ==
    /\ IsFiniteSet(Addresses)
    /\ Order \in [Addresses -> Int]
    /\ \A first, second \in Addresses : Order[first] = Order[second] => first = second

IsSchedule(schedule) ==
    /\ schedule \in [maxLookups : Nat \ {0}, refreshAfter : Nat \ {0}]

WasTried(entry, source) == source \in DOMAIN entry.lastAttempts

\* The map gives the zero time for a source it has no entry for.
AttemptOf(entry, source) == IF WasTried(entry, source) THEN entry.lastAttempts[source] ELSE 0

IsAlmostDue(entry, source, schedule, now) ==   \* mutant: off by one
    \/ AttemptOf(entry, source) = 0
    \/ entry.lastAttempts[source] <= now - schedule.refreshAfter + 1

\* A source never tried is due, and so is one tried at the zero time: it is before
\* now less any Duration.
IsDue(entry, source, schedule, now) ==
    \/ AttemptOf(entry, source) = 0
    \/ entry.lastAttempts[source] <= now - schedule.refreshAfter

DueAddresses(entries, source, schedule, now) ==
    {address \in DOMAIN entries : IsDue(entries[address], source, schedule, now)}

SortsOldFirst(entries, source, first, second) ==   \* mutant: true before false
    LET firstTried  == WasTried(entries[first], source)
        secondTried == WasTried(entries[second], source)
    IN  \/ firstTried /\ ~secondTried
        \/ firstTried = secondTried /\ Order[first] < Order[second]

\* Each comparison only breaks the ties of those before it.
SortsBefore(entries, source, first, second) ==
    LET firstTried    == WasTried(entries[first], source)
        secondTried   == WasTried(entries[second], source)
        firstSeen     == entries[first].firstSeen
        secondSeen    == entries[second].firstSeen
        firstAttempt  == AttemptOf(entries[first], source)
        secondAttempt == AttemptOf(entries[second], source)
    IN  \/ ~firstTried /\ secondTried
        \/ /\ firstTried = secondTried
           /\ \/ firstSeen > secondSeen
              \/ /\ firstSeen = secondSeen
                 /\ \/ firstAttempt < secondAttempt
                    \/ firstAttempt = secondAttempt /\ Order[first] < Order[second]

\* The number of due addresses sorted before a due one.
Place(entries, source, due, address) ==
    Cardinality({other \in due : SortsBefore(entries, source, other, address)})

SelectTooFew(entries, source, schedule, now) ==   \* mutant: off by one
    LET due == DueAddresses(entries, source, schedule, now) IN
    {address \in due : Place(entries, source, due, address) + 1 < schedule.maxLookups}

SelectDueAddresses(entries, source, schedule, now) ==
    LET due == DueAddresses(entries, source, schedule, now) IN
    {address \in due : Place(entries, source, due, address) < schedule.maxLookups}

\* The next of the addresses left to look up.
FirstOf(entries, source, addresses) ==
    CHOOSE first \in addresses :
        \A other \in addresses \ {first} : SortsBefore(entries, source, first, other)
=============================================================================
