---------------------------- MODULE MCCollection ----------------------------
(***************************************************************************)
(* Instances of Collection for TLC.  Among the texts are two spellings of  *)
(* one IPv6 address, an address in a zone, an IPv4 address written as an   *)
(* IPv6 one, and a text that is no address at all.  The path of a panel    *)
(* can have invalid UTF-8, and be what that is replaced by.                *)
(***************************************************************************)
EXTENDS Collection, TLC

MCAddressTexts ==
    ("192.0.2.1"          :> V4(<<192, 0, 2, 1>>)) @@
    ("192.0.2.10"         :> V4(<<192, 0, 2, 10>>)) @@
    ("::ffff:192.0.2.1"   :> V6(<<0, 0, 0, 0, 0, 65535, 49152, 513>>)) @@
    ("2001:db8::1"        :> V6(<<8193, 3512, 0, 0, 0, 0, 0, 1>>)) @@
    ("2001:DB8:0::1"      :> V6(<<8193, 3512, 0, 0, 0, 0, 0, 1>>)) @@
    ("fe80::1%eth0"       :> InZone(V6(<<65152, 0, 0, 0, 0, 0, 0, 1>>), "eth0"))

MCFeedNames == {"threatfox", "feodotracker", "criminalip", "viribacktracker"}

MCRawFlags == {"", "QakBot", "Emotet", "unknown", "garbled"}
MCLowerCase ==
    ("QakBot" :> "qakbot") @@ ("Emotet" :> "emotet") @@ ("unknown" :> "unknown")
        @@ ("garbled" :> "garbled")

MCReplacement == "/torn" :> "/mended"

Failure(status) == [status |-> status, says |-> "", listed |-> << >>]
Reply(says, listed) == [status |-> 200, says |-> says, listed |-> listed]

-----------------------------------------------------------------------------
(* ThreatFox *)

Indicator(id, ioc, family, tags) ==
    [decodes |-> TRUE, type |-> "ip:port", id |-> id, ioc |-> ioc, family |-> family,
     firstSeen |-> "today", tags |-> tags]

Known == Indicator("1", <<"192.0.2.1", "443">>, "QakBot", <<"c2", "rat">>)
Rated == [Known EXCEPT !.tags = <<"c2">>]
Unnamed == Indicator("2", <<"192.0.2.1", "80">>, "", << >>)
Elsewhere == Indicator("3", <<"192.0.2.10", "443">>, "Emotet", << >>)

Unusable == <<
    [Known EXCEPT !.decodes = FALSE],
    [Known EXCEPT !.type = "domain"],
    [Known EXCEPT !.ioc = <<"192.0.2.1">>],
    [Known EXCEPT !.ioc = <<"2001", "db8", "", "1", "443">>],
    [Known EXCEPT !.ioc = <<"192.0.2.1", "http">>],
    [Known EXCEPT !.firstSeen = "some day"]>>

ThreatFoxReplies ==
    {Failure(503), Reply("malformed", << >>), Reply("no_result", << >>),
     Reply("unknown_auth_key", << >>), Reply("illegal_tag", << >>),
     Reply("ok without list", << >>),
     Reply("ok", <<Known, Elsewhere>>),
     Reply("ok", <<Rated, Unnamed>>),
     Reply("ok", Unusable \o <<Elsewhere, Unnamed, Known>>)}

-----------------------------------------------------------------------------
(* Feodo Tracker.  Two families can be seen on one port. *)

Blocked(address, port, family) ==
    [decodes |-> TRUE, address |-> address, port |-> port, family |-> family,
     firstSeen |-> "today", lastOnline |-> "null"]

Online == Blocked("192.0.2.1", "443", "QakBot")

FeodoTrackerReplies ==
    {Failure(404), Reply("malformed", << >>),
     Reply("list", <<Online, Blocked("2001:db8::1", "443", "Emotet")>>),
     Reply("list", <<Online, Blocked("192.0.2.1", "443", "Emotet")>>),
     Reply("list", <<
        [Online EXCEPT !.decodes = FALSE],
        Blocked("::ffff:192.0.2.1", "443", "QakBot"),
        Blocked("fe80::1%eth0", "443", "QakBot"),
        Blocked("nowhere", "443", "QakBot"),
        Blocked("192.0.2.1", "443", ""),
        [Online EXCEPT !.firstSeen = "some day"],
        [Online EXCEPT !.lastOnline = "some day"],
        [Online EXCEPT !.lastOnline = "today"],
        Blocked("2001:DB8:0::1", "80", "Emotet"),
        Blocked("2001:db8::1", "443", "Emotet")>>)}

-----------------------------------------------------------------------------
(* Criminal IP and ViriBack Tracker: lines, of which the first is a header *)

Whole(fields) == Line(fields, 0, 0)

Row(address, family, port) == <<address, family, port, "high", "US", "today">>

CriminalIPReplies ==
    {Failure(404), Failure(500), Reply("csv", << >>),
     Reply("csv", <<Whole(<<"ip", "tag">>),
                    Whole(Row("192.0.2.1", "QakBot", "443")),
                    Whole(Row("192.0.2.10", "Emotet", "443"))>>),
     Reply("csv", <<Whole(<<"ip", "tag">>),
                    Whole(Row("192.0.2.1", "Emotet", "443")),
                    Whole(<<"192.0.2.1", "Emotet">>),
                    Whole(Row("192.0.2.1", "", "80")),
                    Whole([Row("192.0.2.1", "QakBot", "80") EXCEPT ![6] = "some day"]),
                    Whole(Row("::ffff:192.0.2.1", "QakBot", "80")),
                    Whole(Row("192.0.2.1", "QakBot", "80"))>>),
     Reply("csv", <<Whole(<<"ip", "tag">>),
                    Whole(Row("192.0.2.10", "QakBot", "443")),
                    Line(Row("192.0.2.1", "QakBot", "garbled"), 3, 0),
                    Whole(Row("192.0.2.10", "QakBot", "80")),
                    Line(Row("2001:db8::1", "Emotet", "garbled"), 0, 3),
                    Whole(Row("2001:db8::1", "Emotet", "80"))>>)}

Panel(family, url, address) == <<family, url, address, "today">>

ViriBackReplies ==
    {Failure(403), Reply("csv", << >>),
     Reply("csv", <<Whole(<<"family", "url", "ip", "date">>),
                    Whole(Panel("QakBot", "/login", "192.0.2.1")),
                    Whole(Panel("QakBot", "/admin", "192.0.2.1")),
                    Whole(Panel("Emotet", "/login", "2001:db8::1"))>>),
     Reply("csv", <<Whole(<<"family", "url", "ip", "date">>),
                    Whole(Panel("QakBot", "/torn", "192.0.2.1")),
                    Whole(Panel("QakBot", "/mended", "192.0.2.10")),
                    Whole(Panel("Emotet", "/admin", "192.0.2.1"))>>),
     Reply("csv", <<Whole(<<"family", "url", "ip", "date">>),
                    Whole(Panel("Emotet", "/login", "192.0.2.1")),
                    Line(Panel("QakBot", "garbled", "192.0.2.1"), 2, 0),
                    Whole(Panel("Emotet", "/login", "2001:DB8:0::1"))>>)}

MCReplies ==
    ("threatfox" :> ThreatFoxReplies) @@ ("feodotracker" :> FeodoTrackerReplies)
        @@ ("criminalip" :> CriminalIPReplies) @@ ("viribacktracker" :> ViriBackReplies)

\* What their reports store: lists of texts, of which ThreatFox's hold a list and a
\* set of texts too.  Any is TLC's set of everything, as no set of its own has both.
MCValues == Any
=============================================================================
