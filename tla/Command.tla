------------------------------- MODULE Command -------------------------------
(***************************************************************************)
(* What the command does before it runs the sources: run and what it calls *)
(* in cmd/aggregator/main.go, the checks of internal/aggregator/sources.go *)
(* and of the packages' New, and those of New in aggregator.go.  The       *)
(* module has no variables.                                                *)
(*                                                                         *)
(* An invocation says what the command finds: its arguments, the .env      *)
(* file, the sources file, the credentials that are set and whether the    *)
(* output directory opens.                                                 *)
(***************************************************************************)
EXTENDS Integers

CONSTANTS
    DurationBits,   \* the width of a time.Duration, 64
    Hour,           \* time.Hour and time.Minute, in the unit of a Duration
    Minute

ASSUME CommandAssumption ==
    /\ DurationBits \in Nat \ {0}
    /\ Hour \in Nat \ {0} /\ Minute \in Nat \ {0}

\* run returns one of these, or goes on to Aggregator.Run, which decides the code.
EXIT_SUCCESS == 0
EXIT_FAILURE == 1
EXIT_USAGE == 2
Continues == 3

FeedNames == {"threatfox", "feodotracker", "viribacktracker", "criminalip"}
EnricherNames ==
    {"urlhaus", "spamhaus", "internetdb", "ipinfo", "virustotal", "abuseipdb", "otx", "shodan"}

CredentialVariables ==
    [threatfox  |-> "ABUSECH_API_KEY", urlhaus   |-> "ABUSECH_API_KEY",
     ipinfo     |-> "IPINFO_TOKEN",    abuseipdb |-> "ABUSEIPDB_API_KEY",
     virustotal |-> "VIRUSTOTAL_API_KEY",
     otx        |-> "OTX_API_KEY",     shodan    |-> "SHODAN_API_KEY"]

-----------------------------------------------------------------------------
(* One source *)

AnyKey(config, keys) == keys # {}   \* mutant: some credential instead of the source's

HasKey(config, keys) ==
    config.name \in DOMAIN CredentialVariables => CredentialVariables[config.name] \in keys

\* prepare: the credential and the rate of requests.
Prepares(config, keys) == HasKey(config, keys) /\ config.requestsPerMinute >= 1

\* DecodeOptions and what New makes of the options: "none" are given, they are
\* "good", or they have a field or a value that New refuses.
OptionsAccepted(config) ==
    CASE config.name \in {"threatfox", "criminalip", "spamhaus"} -> config.options = "good"
      [] config.name = "abuseipdb" -> config.options # "bad"
      [] OTHER -> TRUE

\* New of the source's package.
Constructs(config) == config.isHTTPS /\ OptionsAccepted(config)

\* Multiplication of 64 bits.
Duration(count, unit) ==
    LET wrapped == (count * unit) % 2^DurationBits IN
    IF wrapped < 2^(DurationBits - 1) THEN wrapped ELSE wrapped - 2^DurationBits

HasSchedule(config) ==
    config.maxLookups >= 1 /\ config.refreshAfterHours >= 1 /\ config.maxMinutesPerRun >= 1

BuildsFeed(config, keys) ==
    Prepares(config, keys) /\ config.name \in FeedNames /\ Constructs(config)

BuildsEnricher(config, keys) ==
    /\ HasSchedule(config)
    /\ Prepares(config, keys) /\ config.name \in EnricherNames /\ Constructs(config)

-----------------------------------------------------------------------------
(* All sources *)

Enabled(configs) == {index \in DOMAIN configs : configs[index].enabled}

\* newSourceOptions: one problem is enough.
BuildsSources(sources, keys) ==
    /\ \A index \in Enabled(sources.feeds) : BuildsFeed(sources.feeds[index], keys)
    /\ \A index \in Enabled(sources.enrichers) : BuildsEnricher(sources.enrichers[index], keys)

NamesDiffer(configs) ==
    \A one, other \in Enabled(configs) : configs[one].name = configs[other].name => one = other

\* New.  A feed and an enricher that were built have different names.
AggregatorAccepts(sources) ==
    /\ NamesDiffer(sources.feeds) /\ NamesDiffer(sources.enrichers)
    /\ \A index \in Enabled(sources.enrichers) :
          LET config == sources.enrichers[index] IN
          /\ Duration(config.refreshAfterHours, Hour) > 0
          /\ Duration(config.maxMinutesPerRun, Minute) > 0

\* loadConfiguration, LoadConfiguration, newSourceOptions, NewStore, New.
StartUp(invocation) ==
    CASE invocation.arguments = "help" -> EXIT_SUCCESS
      [] invocation.arguments = "bad" \/ invocation.envFile = "malformed" -> EXIT_USAGE
      [] ~invocation.sources.isReadable -> EXIT_USAGE
      [] ~BuildsSources(invocation.sources, invocation.keys) -> EXIT_USAGE
      [] ~invocation.opensDirectory -> EXIT_FAILURE
      [] ~AggregatorAccepts(invocation.sources) -> EXIT_USAGE
      [] OTHER -> Continues
=============================================================================
