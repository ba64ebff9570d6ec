-------------------------- MODULE MCRecordHistory --------------------------
(***************************************************************************)
(* Instances of RecordHistory for TLC.  The flags are chosen so that two   *)
(* spellings of one family meet, and the version 1 payload so that a feed  *)
(* finds unkeyed observations of its own, one of which it repeats.  A feed *)
(* can list a key that is not valid UTF-8, and the key it is written as.   *)
(***************************************************************************)
EXTENDS RecordHistory

CONSTANTS feed, enricher, noKey, port, torn, mended, a, b

MCSources == {feed, enricher}
MCKeys == {noKey, port, torn, mended}
MCReplacement == [text \in {torn} |-> mended]
MCRawFlags == {"", "Mirai", "mirai", "Qakbot", "qakbot"}
MCFamilies == {"mirai", "qakbot"}
MCLowerCase ==
    [raw \in MCRawFlags \ {""} |->
        IF raw \in {"Mirai", "mirai"} THEN "mirai" ELSE "qakbot"]
MCValues == {a, b}

UnkeyedReport == NewReport(noKey, {"mirai", "Mirai"}, a)
PortReport == NewReport(port, {"Mirai", ""}, a)
ChangedPortReport == NewReport(port, {"Qakbot"}, b)
UnflaggedReport == NewReport(noKey, {}, b)
TornReport == NewReport(torn, {}, a)
MendedReport == NewReport(mended, {}, a)

\* An enricher reports one thing, or nothing; a feed that lists every thing
\* once reports each key at most once, and one that does not can list one port
\* with two families, or one entry twice.
MCEnricherBatches == {<< >>, <<UnflaggedReport>>}

MCBatches ==
    [source \in MCSources |->
        IF source = enricher THEN MCEnricherBatches
        ELSE {<<UnkeyedReport>>, <<PortReport>>, <<UnkeyedReport, ChangedPortReport>>,
              <<PortReport, PortReport>>, <<PortReport, ChangedPortReport>>,
              <<TornReport>>, <<TornReport, MendedReport>>, <<MendedReport, TornReport>>}]

MCLegacyPayloads ==
    {[source \in {feed} |->
        <<[datetime |-> 1, flags |-> {"mirai"}, metadata |-> a],
          [datetime |-> 2, flags |-> {"qakbot"}, metadata |-> b]>>]}
=============================================================================
