---------------------------- MODULE AtomicStore ----------------------------
(***************************************************************************)
(* What the store promises (storage.go, Store.Update and Store.write):     *)
(* every write is atomic.  An operation on an address either replaces its  *)
(* file in one step and says so, or leaves it alone and says that there    *)
(* was nothing to write, that it failed, or, when killed, nothing at all.  *)
(* A file that cannot be read is never replaced.                           *)
(***************************************************************************)
EXTENDS Contents

CONSTANT Addresses   \* the addresses records are stored for

VARIABLES
    contents,   \* the file of each address
    answer      \* how the last operation ended

vars == <<contents, answer>>

Init ==
    /\ contents \in [Addresses -> Contents]
    /\ answer = "none"

\* The record is written: it differs from what was there, and is all there now.
Written(address, value) ==
    /\ contents[address] \notin {Unreadable, Current(value)}
    /\ contents' = [contents EXCEPT ![address] = Current(value)]
    /\ answer' = "written"

\* The record is left alone because the file already says exactly this.
Unchanged(address, value) ==
    /\ contents[address] = Current(value)
    /\ answer' = "unchanged"
    /\ UNCHANGED contents

Failed == answer' = "failed" /\ UNCHANGED contents

Killed == answer' = "killed" /\ UNCHANGED contents

Next ==
    \/ \E address \in Addresses, value \in Values :
          Written(address, value) \/ Unchanged(address, value)
    \/ Failed
    \/ Killed

Spec == Init /\ [][Next]_vars
=============================================================================
