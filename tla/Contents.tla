------------------------------ MODULE Contents ------------------------------
(***************************************************************************)
(* What can be found under a record file's name (storage.go, Store.read).  *)
(* What a record says is an element of Values: Record and RecordHistory    *)
(* model it.                                                               *)
(***************************************************************************)
CONSTANT Values

Absent == [state |-> "absent"]

\* Not a record, of an unknown schema version, or the record of another address.
Unreadable == [state |-> "unreadable"]

\* A record in a form encodeRecord does not produce, such as version 1's.
OldFormat(value) == [state |-> "old", value |-> value]

\* The bytes encodeRecord gives for a record that says value.
Current(value) == [state |-> "current", value |-> value]

Contents ==
    {Absent, Unreadable} \cup {OldFormat(value) : value \in Values}
                         \cup {Current(value) : value \in Values}
=============================================================================
