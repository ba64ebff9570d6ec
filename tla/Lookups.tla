------------------------------- MODULE Lookups -------------------------------
(***************************************************************************)
(* What each enricher makes of its upstream's reply to one lookup: Lookup  *)
(* and newReports in the packages under internal/aggregator.  The module   *)
(* has no variables.                                                       *)
(*                                                                         *)
(* A reply is what Fetch ends with: a status other than 200, a body that   *)
(* is too large, or a body, which says something well-formed or not.  What *)
(* an upstream tells of an address is a list of items, such as open ports  *)
(* or notes, in whatever order it sends them; the items' id is what a      *)
(* source sorts them by, and the rest of an item is its detail.            *)
(***************************************************************************)
EXTENDS Kinds, SequencesExt

CONSTANTS Ids, Details

ASSUME LookupsAssumption == Ids \subseteq Nat /\ Details \subseteq Nat

Item == [id : Ids, detail : Details]

Error(status) == [status |-> status, says |-> "nothing", items |-> << >>]
Body(says, items) == [status |-> 200, says |-> says, items |-> items]

\* What Lookup returns: the kind of its error, or a report's details or none.
Failed(kind) == [error |-> kind, data |-> << >>]
Reported(data) == [error |-> "none", data |-> <<data>>]
NothingKnown == [error |-> "none", data |-> << >>]

-----------------------------------------------------------------------------
(* Lists in a stable order *)

ItemBefore(first, second) ==
    first.id < second.id \/ (first.id = second.id /\ first.detail < second.detail)

\* The members of a set in the order Before.
Ordered(members, Before(_, _)) ==
    CHOOSE ordered \in [1..Cardinality(members) -> members] :
        \A first, second \in 1..Cardinality(members) :
            first < second => Before(ordered[first], ordered[second])

SortedUnique(items) == Ordered(Range(items), ItemBefore)

\* slices.SortFunc by id: of items with one id, which it does not promise to
\* keep in order but up to twelve of which it does, the first stays first.
SortedById(items) ==
    LET Before(first, second) ==
            \/ items[first].id < items[second].id
            \/ items[first].id = items[second].id /\ first < second
        order == Ordered(DOMAIN items, Before)
    IN  [index \in DOMAIN items |-> items[order[index]]]

\* Two items that sorting by id leaves in the order they came in.
HasTies(items) ==
    \E first, second \in DOMAIN items : first # second /\ items[first].id = items[second].id

\* The items at some of a list's places.
ItemsAt(items, places) ==
    LET order == Ordered(places, LAMBDA first, second : first < second)
    IN  [index \in DOMAIN order |-> items[order[index]]]

\* slices.Compact drops an item equal to the one before it.
Compact(items) ==
    ItemsAt(items, {index \in DOMAIN items : index = 1 \/ items[index] # items[index - 1]})

-----------------------------------------------------------------------------
(* The lookups *)

\* What becomes of a reply whose items are stored in the order of data.  A body
\* that cannot be decoded is an error of no kind.
NewReports(reply, data) ==
    IF reply.says = "malformed" THEN Failed("other") ELSE Reported(data)

\* An upstream that has to know every address.
LookUpKnown(reply, data) ==
    IF FetchError(reply) # "none" THEN Failed(FetchError(reply)) ELSE NewReports(reply, data)

ReportNotFound(reply, data) ==   \* mutant: 404 is decoded like an answer
    IF FetchError(reply) \notin {"none", "not found"} THEN Failed(FetchError(reply))
    ELSE NewReports(reply, data)

\* One for which 404 means that it knows nothing about the address.
LookUpIfKnown(reply, data) ==
    IF FetchError(reply) = "not found" THEN NothingKnown ELSE LookUpKnown(reply, data)

InternetDB(reply) == LookUpIfKnown(reply, SortedUnique(reply.items))

IPinfo(reply) == LookUpKnown(reply, reply.items)

AbuseIPDB(reply) == LookUpKnown(reply, SortedUnique(reply.items))

UnsortedOTX(reply) == LookUpKnown(reply, reply.items)   \* mutant: pulses as they come

OTX(reply) == LookUpKnown(reply, SortedById(reply.items))

VirusTotal(reply) == LookUpIfKnown(reply, Compact(SortedById(reply.items)))

\* The free plan's 403 for some hosts is turned into a rejection of this one.
Shodan(reply) ==
    IF reply.status = 403 THEN Failed("rejected")
    ELSE LookUpIfKnown(reply, SortedById(reply.items))

RejectedURLhaus(reply) ==   \* mutant: unknown_auth_key is like any other status
    CASE reply.says \in {"unknown_auth_key", "invalid_host"} -> Failed("rejected")
      [] reply.says = "no_results" -> NothingKnown
      [] OTHER -> LookUpKnown(reply, SortedById(reply.items))

\* URLhaus says in a body what others say with a status.
URLhaus(reply) ==
    CASE reply.says = "no_results" -> NothingKnown
      [] reply.says = "unknown_auth_key" -> Failed("unauthorised")
      [] reply.says = "invalid_host" -> Failed("rejected")
      [] OTHER -> LookUpKnown(reply, SortedById(reply.items))

\* The packages that ask about one address at a time.
PerAddress ==
    {"internetdb", "ipinfo", "abuseipdb", "otx", "virustotal", "shodan", "urlhaus"}

\* Those of them that sort by a part of an item only.
SortsById == {"otx", "virustotal", "shodan", "urlhaus"}

LookUp(package, reply) ==
    CASE package = "internetdb" -> InternetDB(reply)
      [] package = "ipinfo"     -> IPinfo(reply)
      [] package = "abuseipdb"  -> AbuseIPDB(reply)
      [] package = "otx"        -> OTX(reply)
      [] package = "virustotal" -> VirusTotal(reply)
      [] package = "shodan"     -> Shodan(reply)
      [] package = "urlhaus"    -> URLhaus(reply)

-----------------------------------------------------------------------------
(* Spamhaus downloads its two lists instead *)

\* parseList: a list that cannot be parsed, or has no netblocks, is an error.
ListError(reply) ==
    IF FetchError(reply) # "none" THEN FetchError(reply)
    ELSE IF reply.says = "malformed" \/ reply.items = << >> THEN "other"
    ELSE "none"
=============================================================================
