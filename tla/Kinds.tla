-------------------------------- MODULE Kinds --------------------------------
(***************************************************************************)
(* The kinds of upstream failure, internal/aggregator/upstream.go: what a  *)
(* status other than 200 means to whoever asked.  Status 0 stands for a    *)
(* network failure, which has no status and the kind of an unavailable     *)
(* upstream.                                                               *)
(***************************************************************************)
EXTENDS Naturals

Kinds == {"unauthorised", "forbidden", "rate limited", "not found", "rejected", "unavailable"}

KindOf(status) ==
    CASE status = 401 -> "unauthorised"
      [] status \in {402, 403} -> "forbidden"
      [] status = 429 -> "rate limited"
      [] status = 404 -> "not found"
      [] status \in 400..499 \ {401, 402, 403, 404, 429} -> "rejected"
      [] OTHER -> "unavailable"

\* The kind of the error Fetch returns, "none" with a body, of which a reply keeps
\* what it says; "other" is an error of none of the kinds.
FetchError(reply) ==
    CASE reply.status # 200 -> KindOf(reply.status)
      [] reply.says = "too large" -> "other"
      [] OTHER -> "none"
=============================================================================
