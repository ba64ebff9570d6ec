------------------------------- MODULE Store -------------------------------
(***************************************************************************)
(* The store of record files, internal/aggregator/storage.go, at the level *)
(* of its file operations, each of which can fail, and with the program    *)
(* killed between any two of them.                                         *)
(*                                                                         *)
(* A record file is written through a temporary file next to it.  Runs of  *)
(* the program update records one at a time and index them all once; the   *)
(* files, and temporary files left behind, outlive a killed run.           *)
(***************************************************************************)
EXTENDS Contents

CONSTANTS
    Addresses,    \* the addresses records are stored for
    EmptyValue    \* what an empty record says

ASSUME StoreAssumption == EmptyValue \in Values

\* What a temporary file's name can hold besides: the start of a record.
Torn == [state |-> "torn"]

VARIABLES
    files,     \* the content under each address's record file name
    temps,     \* the content under each address's temporary file name
    op,        \* the operation on a record in progress: {} or a singleton
    walk,      \* the indexing in progress: {} or a singleton
    answer,    \* how the last operation ended
    strays     \* addresses a temporary file was left for by a kill or a failed removal

vars == <<files, temps, op, walk, answer, strays>>

Stages == {"changing", "comparing", "directory", "creating", "filling", "renaming"}

\* An operation knows the content it read and the value it will write.
Operation ==
    [address : Addresses, stage : Stages, existing : Contents \ {Unreadable},
     value : Values]

\* An indexing has files left to visit, and has read or failed to read others.
Walk ==
    [left : SUBSET Addresses, entries : SUBSET Addresses, failures : SUBSET Addresses]

Answers == {"none", "written", "unchanged", "failed", "killed"}

TypeOK ==
    /\ files \in [Addresses -> Contents]
    /\ temps \in [Addresses -> Contents \cup {Torn}]
    /\ op = {} \/ \E running \in Operation : op = {running}
    /\ walk = {} \/ \E walking \in Walk : walk = {walking}
    /\ answer \in Answers
    /\ strays \subseteq Addresses

Init ==
    /\ files \in [Addresses -> Contents]
    /\ temps = [address \in Addresses |-> Absent]
    /\ op = {}
    /\ walk = {}
    /\ answer = "none"
    /\ strays = {}

-----------------------------------------------------------------------------
(* The end of an operation *)

\* Within an indexing, the operation's end is also that of the file's visit.
FileIndexed(address) ==
    walk' = {[walking EXCEPT !.entries = walking.entries \cup {address}] : walking \in walk}

FileForgotten(address) == UNCHANGED walk   \* mutant: the failure is not appended

FileNotIndexed(address) ==
    walk' = {[walking EXCEPT !.failures = walking.failures \cup {address}] : walking \in walk}

Succeed(address, how) ==
    /\ op' = {}
    /\ answer' = how
    /\ FileIndexed(address)

Fail(address) ==
    /\ op' = {}
    /\ answer' = "failed"
    /\ FileNotIndexed(address)

-----------------------------------------------------------------------------
(* Reading *)

ValueOf(content) == IF content = Absent THEN EmptyValue ELSE content.value

\* read fails when the file cannot be read, decoded, or describes another
\* address; otherwise the record is in memory, an empty one without a file.
Read(address, stage) ==
    \/ /\ files[address] # Unreadable
       /\ op' = {[address |-> address, stage |-> stage, existing |-> files[address],
                  value |-> ValueOf(files[address])]}
       /\ UNCHANGED <<walk, answer>>
    \/ Fail(address)

\* Store.Update: the caller's change comes next.
BeginUpdate(address) ==
    /\ op = {}
    /\ walk = {}
    /\ Read(address, "changing")
    /\ UNCHANGED <<files, temps, strays>>

\* The change the caller makes to the record in memory.
Change(running, value) ==
    /\ running.stage = "changing"
    /\ op' = {[running EXCEPT !.stage = "comparing", !.value = value]}
    /\ UNCHANGED <<files, temps, walk, answer, strays>>

-----------------------------------------------------------------------------
(* Writing *)

CompareNothing(running) ==   \* mutant: every record is written
    /\ running.stage = "comparing"
    /\ op' = {[running EXCEPT !.stage = "directory"]}
    /\ UNCHANGED <<files, temps, walk, answer, strays>>

\* write returns early if encoding fails, and if the file has these bytes already.
Compare(running) ==
    /\ running.stage = "comparing"
    /\ \/ /\ running.existing = Current(running.value)
          /\ Succeed(running.address, "unchanged")
       \/ /\ running.existing # Current(running.value)
          /\ op' = {[running EXCEPT !.stage = "directory"]}
          /\ UNCHANGED <<walk, answer>>
       \/ Fail(running.address)
    /\ UNCHANGED <<files, temps, strays>>

MakeDirectory(running) ==
    /\ running.stage = "directory"
    /\ \/ /\ op' = {[running EXCEPT !.stage = "creating"]}
          /\ UNCHANGED <<walk, answer>>
       \/ Fail(running.address)
    /\ UNCHANGED <<files, temps, strays>>

FailLeaving(address) == UNCHANGED <<temps, strays>> /\ Fail(address)   \* mutant

\* removeTemporaryFile, the last act of a failed write: the file is gone, or
\* its removal failed too and it stays as it is.
FailRemoving(address) ==
    /\ \/ /\ temps' = [temps EXCEPT ![address] = Absent]
          /\ strays' = strays \ {address}
       \/ /\ UNCHANGED temps
          /\ strays' = strays \cup {address}
    /\ Fail(address)

CreateOnly(running) ==   \* mutant: nothing is written into the file
    /\ running.stage = "creating"
    /\ temps' = [temps EXCEPT ![running.address] = Torn]
    /\ op' = {[running EXCEPT !.stage = "renaming"]}
    /\ UNCHANGED <<files, walk, answer, strays>>

\* WriteFile opens and truncates the temporary file, whatever it held, ...
CreateTemporary(running) ==
    /\ running.stage = "creating"
    /\ \/ /\ temps' = [temps EXCEPT ![running.address] = Torn]
          /\ op' = {[running EXCEPT !.stage = "filling"]}
          /\ UNCHANGED <<walk, answer, strays>>
       \/ FailRemoving(running.address)
    /\ UNCHANGED files

FillPartly(running) ==   \* mutant: a short write is not noticed
    /\ running.stage = "filling"
    /\ op' = {[running EXCEPT !.stage = "renaming"]}
    /\ UNCHANGED <<files, temps, walk, answer, strays>>

\* ... and fills it and closes it.
FillTemporary(running) ==
    /\ running.stage = "filling"
    /\ \/ /\ temps' = [temps EXCEPT ![running.address] = Current(running.value)]
          /\ op' = {[running EXCEPT !.stage = "renaming"]}
          /\ UNCHANGED <<walk, answer, strays>>
       \/ FailRemoving(running.address)
    /\ UNCHANGED files

RenameAgain(running) ==   \* mutant: a failed rename is repeated
    /\ running.stage = "renaming"
    /\ op' = {[running EXCEPT !.stage = "creating"]}
    /\ UNCHANGED <<files, temps, walk, answer, strays>>

Rename(running) ==
    /\ running.stage = "renaming"
    /\ \/ /\ files' = [files EXCEPT ![running.address] = temps[running.address]]
          /\ temps' = [temps EXCEPT ![running.address] = Absent]
          /\ strays' = strays \ {running.address}
          /\ Succeed(running.address, "written")
       \/ /\ FailRemoving(running.address)
          /\ UNCHANGED files

-----------------------------------------------------------------------------
(* Indexing *)

BeginIndex ==
    /\ op = {}
    /\ walk = {}
    /\ walk' = {[left |-> {address \in Addresses : files[address] # Absent},
                 entries |-> {}, failures |-> {}]}
    /\ UNCHANGED <<files, temps, op, answer, strays>>

\* Files are visited by name.  A temporary file's name does not end like a
\* record file's, so visiting it does nothing.  A directory that cannot be
\* listed is a failure for the files in it; any other file is read and, left
\* unchanged, written back.
VisitFile ==
    \E walking \in walk : \E address \in walking.left :
        /\ op = {}
        /\ LET rest == [walking EXCEPT !.left = walking.left \ {address}] IN
           \/ /\ walk' = {[rest EXCEPT !.failures = rest.failures \cup {address}]}
              /\ UNCHANGED <<op, answer>>
           \/ /\ files[address] # Unreadable
              /\ op' = {[address |-> address, stage |-> "comparing",
                         existing |-> files[address], value |-> ValueOf(files[address])]}
              /\ walk' = {rest}
              /\ UNCHANGED answer
        /\ UNCHANGED <<files, temps, strays>>

EndIndex ==
    \E walking \in walk :
        /\ op = {}
        /\ walking.left = {}
        /\ walk' = {}
        /\ UNCHANGED <<files, temps, op, answer, strays>>

\* The run is cancelled: the walk stops before the next file.
CancelIndex ==
    \E walking \in walk :
        /\ op = {}
        /\ walking.left # {}
        /\ walk' = {}
        /\ UNCHANGED <<files, temps, op, answer, strays>>

-----------------------------------------------------------------------------

\* The program is killed and a later run starts over.
Kill ==
    /\ op # {} \/ walk # {}
    /\ op' = {}
    /\ walk' = {}
    /\ answer' = "killed"
    /\ strays' = strays \cup {address \in Addresses : \E running \in op :
                               /\ running.address = address
                               /\ running.stage \in {"filling", "renaming"}}
    /\ UNCHANGED <<files, temps>>

Step(running) ==
    \/ \E value \in Values : Change(running, value)
    \/ Compare(running)
    \/ MakeDirectory(running)
    \/ CreateTemporary(running)
    \/ FillTemporary(running)
    \/ Rename(running)

Next ==
    \/ \E address \in Addresses : BeginUpdate(address)
    \/ \E running \in op : Step(running)
    \/ BeginIndex
    \/ VisitFile
    \/ EndIndex
    \/ CancelIndex
    \/ Kill

Spec == Init /\ [][Next]_vars

\* A run that is not killed keeps going: nothing waits for anything else.
Progress == (\E running \in op : Step(running)) \/ VisitFile \/ EndIndex
FairSpec == Spec /\ WF_vars(Progress)

-----------------------------------------------------------------------------
(* Properties *)

\* A record is only ever replaced as a whole and in one step by the record the
\* operation meant to write, the answer says what happened to it, and a file
\* that cannot be read is left alone, although every file operation can fail
\* and the program can be killed between any two.
Promise == INSTANCE AtomicStore WITH contents <- files
AtomicWrites == Promise!Spec

\* What an operation compared with and replaces is still in the file, because
\* nothing else wrote it since it was read, and what it renames is all of what
\* it was to write.
NoLostUpdate ==
    \A running \in op :
        /\ running.existing = files[running.address]
        /\ running.stage \notin {"changing", "comparing"} =>
              running.existing # Current(running.value)
        /\ running.stage = "renaming" =>
              temps[running.address] = Current(running.value)

\* A temporary file is left behind only by a kill during the write or by a
\* removal that failed, and not past the next complete write of its record:
\* "If anything fails, the temporary file is removed" (storage.go:310).
TempsAccountedFor ==
    \A address \in Addresses :
        temps[address] # Absent =>
            address \in strays \cup {running.address : running \in op}

\* Indexing accounts for every record file exactly once, whatever fails, and
\* the files it indexed are in the current format when it goes on.
IndexAccountsForEveryFile ==
    \A walking \in walk :
        LET visited == {running.address : running \in op} IN
        /\ walking.left \cup visited \cup walking.entries \cup walking.failures
              = {address \in Addresses : files[address] # Absent}
        /\ walking.left \cap (visited \cup walking.entries \cup walking.failures) = {}
        /\ visited \cap (walking.entries \cup walking.failures) = {}
        /\ walking.entries \cap walking.failures = {}
        /\ \A address \in walking.entries : files[address].state = "current"

\* An operation or an indexing that the program began comes to an end,
\* whatever fails on the way.
EverythingEnds == (op # {} ~> op = {}) /\ (walk # {} ~> walk = {})
=============================================================================
