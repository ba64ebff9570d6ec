----------------------------- MODULE Enrichment -----------------------------
(***************************************************************************)
(* One enricher, of any of the packages under internal/aggregator, over    *)
(* many runs: its requests, what its upstream replies, what it makes of    *)
(* that (Lookups), what the aggregator makes of that, and what its history *)
(* on each record says in the end (Record).                                *)
(*                                                                         *)
(* Spamhaus, unlike the others, sends no request for an address: the first *)
(* lookup of a run downloads two lists, and all are answered from these.   *)
(* Aggregator models the order of lookups, failed updates and kills.       *)
(***************************************************************************)
EXTENDS Record, Lookups

CONSTANTS
    Addresses,
    Packages,         \* the packages to choose the enricher from
    Statuses,         \* the statuses an upstream replies with besides 200
    Bodies,           \* the items each package's upstream can send: IPinfo sends no list
    Holds,            \* the addresses in the netblock of each id, for Spamhaus
    MaxConsecutiveLookupFailures,
    MaxObservations   \* bound on the observations of one address

ASSUME EnrichmentAssumption ==
    /\ Packages \subseteq PerAddress \cup {"spamhaus"}
    /\ Statuses \subseteq Nat \ {200}
    /\ \A package \in Packages : Bodies[package] \subseteq Seq(Item)
    /\ "ipinfo" \in Packages => \A items \in Bodies["ipinfo"] : Len(items) = 1
    /\ Holds \in [Ids -> SUBSET Addresses]
    /\ Ids \cap InvalidTexts = {}
    /\ MaxConsecutiveLookupFailures \in Nat \ {0} /\ MaxObservations \in Nat

VARIABLES
    package,    \* the enricher's package
    histories,  \* the enricher's history on each record
    clock,      \* the current second
    left,       \* the due addresses it has left in this run
    request,    \* the lookup that waits for a reply, {} or a singleton, with the list
                \* Spamhaus downloads and the netblocks of the list before it
    lists,      \* isLoaded, loadErr and netblocks, of Spamhaus
    inARow,     \* consecutiveFailures
    log         \* what happened in this run, for the properties only

vars == <<package, histories, clock, left, request, lists, inARow, log>>

NoLists == [isLoaded |-> FALSE, error |-> "none", netblocks |-> << >>]

\* The log: the addresses answers were recorded on, whether the upstream refused
\* the key, how many downloads were begun and which ended well, and, of all runs,
\* what the upstream last said about each address.
Init ==
    /\ package \in Packages
    /\ histories = [address \in Addresses |-> NewHistory]
    /\ clock = 1
    /\ left = {} /\ request = {} /\ lists = NoLists /\ inARow = 0
    /\ log = [answered |-> {}, keyRefused |-> FALSE, downloads |-> 0, whole |-> {},
              said |-> [address \in Addresses |-> {}]]

-----------------------------------------------------------------------------
(* What the aggregator does with a lookup's result *)

StoppingErrors == {"unauthorised", "forbidden", "rate limited"}

AddReports(history, reports) ==
    LET answered == Answered(history, clock) IN
    EncodedHistory([answered EXCEPT !.observations =
        FoldLeft(LAMBDA observations, report : ApplyReport(observations, report, clock),
                 answered.observations, reports)])

StopsAfter(count) == count >= MaxConsecutiveLookupFailures

\* The lookup of address, one of those left, is stored, and the enricher goes on
\* or stops for this run.
Conclude(address, error, reports) ==
    /\ histories' =
          CASE error = "none" -> [histories EXCEPT ![address] = AddReports(@, reports)]
            [] error \in StoppingErrors -> histories
            [] OTHER -> [histories EXCEPT ![address].lastError = clock]
    /\ Len(histories'[address].observations) <= MaxObservations
    /\ LET isFailure == error \notin {"none", "rejected"} \cup StoppingErrors
           isStopped == error \in StoppingErrors \/ (isFailure /\ StopsAfter(inARow + 1))
       IN  /\ left' = IF isStopped THEN {} ELSE left \ {address}
           /\ inARow' = CASE error = "none" \/ isStopped -> 0
                          [] isFailure -> inARow + 1
                          [] OTHER -> inARow
    /\ request' = {}

\* What the conclusion adds to the log.
Concluded(address, error) ==
    [log EXCEPT !.answered = @ \cup (IF error = "none" THEN {address} ELSE {})]

-----------------------------------------------------------------------------

\* A run starts, in a process of its own, with some addresses due.
StartRun ==
    /\ left = {} /\ request = {}
    /\ left' \in SUBSET Addresses \ {{}}
    /\ lists' = NoLists
    /\ inARow' = 0
    /\ log' = [log EXCEPT !.answered = {}, !.keyRefused = FALSE, !.downloads = 0,
                          !.whole = {}]
    /\ UNCHANGED <<package, histories, clock, request>>

Replies ==
    {Error(status) : status \in Statuses}
    \cup {Body("too large", << >>), Body("malformed", << >>)}
    \cup {Body("ok", items) : items \in Bodies[package]}
    \cup IF package = "urlhaus"
         THEN {Body(says, << >>) : says \in {"no_results", "unknown_auth_key", "invalid_host"}}
         ELSE {}

Send ==
    /\ package # "spamhaus"
    /\ request = {}
    /\ \E address \in left :
          /\ request' = {[address |-> address, list |-> 1, netblocks |-> << >>]}
          /\ left' = left \ {address}
    /\ UNCHANGED <<package, histories, clock, lists, inARow, log>>

Receive ==
    /\ package # "spamhaus"
    /\ \E waiting \in request, reply \in Replies :
          LET result == LookUp(package, reply)
              reports == [index \in DOMAIN result.data |->
                            NewReport(NoKey, {}, result.data[index])]
              isRefusal == reply.status = 401 \/ reply.says = "unknown_auth_key"
          IN  /\ Conclude(waiting.address, result.error, reports)
              /\ log' = [Concluded(waiting.address, result.error) EXCEPT
                    !.keyRefused = isRefusal,
                    !.said[waiting.address] =
                        IF reply.says = "ok" THEN Range(reply.items) ELSE @]
    /\ UNCHANGED <<package, clock, lists>>

\* The context is done when a lookup returns: its result is dropped, and so are
\* the addresses left.
CutShort ==
    /\ request # {} \/ left # {}
    /\ request' = {} /\ left' = {} /\ inARow' = 0
    /\ UNCHANGED <<package, histories, clock, lists, log>>

-----------------------------------------------------------------------------
(* Spamhaus *)

\* Every listed netblock that contains the address, in the lists' order.
Matches(netblocks, address) ==
    LET matching == ItemsAt(netblocks, {index \in DOMAIN netblocks :
                                           address \in Holds[netblocks[index].id]})
    IN  [index \in DOMAIN matching |->
            NewReport(matching[index].id, {}, <<matching[index]>>)]

\* The first lookup of a run begins to load the lists.
BeginLoad ==
    /\ package = "spamhaus"
    /\ request = {} /\ ~lists.isLoaded
    /\ \E address \in left :
          /\ request' = {[address |-> address, list |-> 1, netblocks |-> << >>]}
          /\ left' = left \ {address}
    /\ log' = [log EXCEPT !.downloads = log.downloads + 1]
    /\ UNCHANGED <<package, histories, clock, lists, inARow>>

\* The first list has arrived, and the second is next.
LoadNextList ==
    /\ package = "spamhaus"
    /\ \E loading \in request, reply \in Replies :
          /\ loading.list = 1 /\ ListError(reply) = "none"
          /\ request' = {[loading EXCEPT !.list = 2, !.netblocks = reply.items]}
          /\ log' = [log EXCEPT !.downloads = log.downloads + 1,
                                !.whole = log.whole \cup {loading.list}]
    /\ UNCHANGED <<package, histories, clock, left, lists, inARow>>

\* The second list has arrived, or one of them could not be loaded: either way
\* the lists count as loaded, and the address is looked up.
EndLoad ==
    /\ package = "spamhaus"
    /\ \E loading \in request, reply \in Replies :
          LET error     == ListError(reply)
              netblocks == IF error = "none" THEN loading.netblocks \o reply.items ELSE << >>
          IN  /\ loading.list = 2 \/ error # "none"
              /\ lists' = [isLoaded |-> TRUE, error |-> error, netblocks |-> netblocks]
              /\ Conclude(loading.address, error, Matches(netblocks, loading.address))
              /\ log' = [Concluded(loading.address, error) EXCEPT
                    !.keyRefused = (reply.status = 401),
                    !.whole = IF error = "none" THEN @ \cup {loading.list} ELSE @]
    /\ UNCHANGED <<package, clock>>

ForgetError ==   \* mutant: loadErr is only returned once
    /\ package = "spamhaus"
    /\ request = {} /\ lists.isLoaded
    /\ \E address \in left :
          /\ Conclude(address, "none", Matches(lists.netblocks, address))
          /\ log' = Concluded(address, "none")
    /\ UNCHANGED <<package, clock, lists>>

\* Later lookups get the error of the load, or the netblocks.
LookUpInLists ==
    /\ package = "spamhaus"
    /\ request = {} /\ lists.isLoaded
    /\ \E address \in left :
          /\ Conclude(address, lists.error, Matches(lists.netblocks, address))
          /\ log' = Concluded(address, lists.error)
    /\ UNCHANGED <<package, clock, lists>>

Tick ==
    /\ clock < MaxTime
    /\ clock' = clock + 1
    /\ UNCHANGED <<package, histories, left, request, lists, inARow, log>>

Next ==
    \/ StartRun \/ CutShort \/ Tick
    \/ Send \/ Receive
    \/ BeginLoad \/ LoadNextList \/ EndLoad \/ LookUpInLists

Spec == Init /\ [][Next]_vars

-----------------------------------------------------------------------------
(* Properties *)

\* Whatever errors, rejections and empty answers come between, the newest
\* observation of an address says what its upstream last said about it, and
\* there is none if it never said anything.
LatestIsWhatWasSaid ==
    package # "spamhaus" =>
        \A address \in Addresses :
            LET observations == histories[address].observations IN
            IF observations = << >> THEN log.said[address] = {}
            ELSE Range(Last(observations).data.value) = log.said[address]

\* "A rejected key [...] would make every later lookup fail too" (aggregator.go:326):
\* once the upstream refuses the key, with a status or in a body, there are no
\* more requests in the run.
RefusedKeyEndsLookups == log.keyRefused => request = {} /\ left = {}

\* Successive observations never say the same things in another order, unless
\* the package sorts by id and one of the two lists has two items of one id:
\* these are stored in the upstream's order.
ReorderingIsNoChange ==
    \A address \in Addresses :
        LET observations == histories[address].observations IN
        \A index \in 1 .. Len(observations) - 1 :
            LET earlier == observations[index].data.value
                later   == observations[index + 1].data.value
            IN  (package \in SortsById => ~HasTies(earlier) /\ ~HasTies(later))
                => Range(earlier) # Range(later)

\* "with every list sorted so a reordered response isn't stored as a change"
\* (shodan.go:274): the same of every list.
ReorderingIsNeverAChange ==
    \A address \in Addresses :
        LET observations == histories[address].observations IN
        \A index \in 1 .. Len(observations) - 1 :
            Range(observations[index].data.value) # Range(observations[index + 1].data.value)

\* An address is only ever recorded as not listed, or as listed, by Spamhaus
\* when both lists arrived well, each downloaded at most once in the run: a
\* failed download never passes for a clean answer, not for a later address
\* either.
AnswersNeedBothLists ==
    package = "spamhaus" =>
        /\ log.answered # {} => log.whole = {1, 2}
        /\ log.downloads <= 2
=============================================================================
