---------------------------- MODULE MCEnrichment ----------------------------
(***************************************************************************)
(* Instances of Enrichment for TLC.  A host's items come in two orders and *)
(* can change; two items of a list can have the id in common that their    *)
(* source sorts them by, such as the port and transport of two services.   *)
(***************************************************************************)
EXTENDS Enrichment

CONSTANTS a1, a2, noKey

MCIds == {1, 2}
MCDetails == {1, 2}
MCKeys == {noKey} \cup MCIds

First  == [id |-> 1, detail |-> 1]
Second == [id |-> 2, detail |-> 1]
Twin   == [id |-> 1, detail |-> 2]

AllPackages == PerAddress \cup {"spamhaus"}

\* IPinfo sends no list.  A tag or hostname can be repeated.
MCBodies ==
    [name \in AllPackages |->
        CASE name = "ipinfo" -> {<<First>>, <<Twin>>}
          [] name \in {"internetdb", "abuseipdb"} ->
                {<<First, Second>>, <<Second, First, Second>>, <<Twin>>}
          [] name = "spamhaus" -> {<< >>, <<First>>, <<Second, Twin>>}
          [] OTHER -> {<<First, Second>>, <<Second, First>>, <<First, Twin>>, <<Twin, First>>}]

\* The first netblock holds one address, the second both.
MCHolds == [id \in MCIds |-> IF id = 1 THEN {a1} ELSE {a1, a2}]

NoFlags == [raw \in {} |-> ""]
MCValues == {<<First>>, <<Second>>, <<Twin>>, <<First, Second>>, <<First, Twin>>, <<Twin, First>>}
=============================================================================
