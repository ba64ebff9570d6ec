----------------------------- MODULE MCWorkflow -----------------------------
(***************************************************************************)
(* An instance of Workflow for TLC: a duration has 12 bits and a minute is *)
(* 1, so that 40 hours overflow into the negative and 70 into the          *)
(* positive.  The jobs' sources files are a good one and such as people    *)
(* could have pushed.                                                      *)
(***************************************************************************)
EXTENDS Workflow, TLC

Source(name, options) ==
    [name |-> name, enabled |-> TRUE, isHTTPS |-> TRUE, options |-> options,
     requestsPerMinute |-> 10, maxLookups |-> 600, refreshAfterHours |-> 24,
     maxMinutesPerRun |-> 4]

ThreatFox  == Source("threatfox", "good")
CriminalIP == Source("criminalip", "none")
IPinfo     == Source("ipinfo", "none")
AbuseIPDB  == Source("abuseipdb", "none")

Off(config) == [config EXCEPT !.enabled = FALSE]

SourcesFile(feeds, enrichers) ==
    [isReadable |-> TRUE, feeds |-> feeds, enrichers |-> enrichers]

Secrets == {"ABUSECH_API_KEY", "IPINFO_TOKEN", "ABUSEIPDB_API_KEY"}

Usual ==
    [arguments |-> "good", envFile |-> "absent", keys |-> Secrets, opensDirectory |-> TRUE,
     sources |-> SourcesFile(<<ThreatFox, Off(CriminalIP)>>, <<IPinfo, AbuseIPDB>>)]

With(feeds, enrichers) == [Usual EXCEPT !.sources = SourcesFile(feeds, enrichers)]

MCInvocations == {
    Usual,
    [Usual EXCEPT !.arguments = "bad"],
    [Usual EXCEPT !.sources.isReadable = FALSE],
    [Usual EXCEPT !.keys = @ \ {"IPINFO_TOKEN"}],
    With(<<ThreatFox, CriminalIP>>, <<IPinfo>>),
    With(<<ThreatFox, ThreatFox>>, <<IPinfo>>),
    With(<<ThreatFox>>, <<IPinfo, IPinfo>>),
    With(<<ThreatFox, IPinfo>>, << >>),
    With(<<[ThreatFox EXCEPT !.isHTTPS = FALSE]>>, << >>),
    With(<<ThreatFox>>, <<[IPinfo EXCEPT !.requestsPerMinute = 0]>>),
    With(<<ThreatFox>>, <<[IPinfo EXCEPT !.maxLookups = 0], Off(AbuseIPDB)>>),
    With(<<ThreatFox>>, <<[IPinfo EXCEPT !.refreshAfterHours = 40]>>),
    With(<<Off(ThreatFox)>>, <<[IPinfo EXCEPT !.refreshAfterHours = 70]>>)}

\* Nothing tells two addresses, or two runners, apart.
MCSymmetry == Permutations(Addresses) \cup Permutations(Jobs)
=============================================================================
