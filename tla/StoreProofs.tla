---------------------------- MODULE StoreProofs ----------------------------
(***************************************************************************)
(* Proofs that Store keeps the promise of AtomicStore, for any addresses   *)
(* and values.                                                             *)
(***************************************************************************)
EXTENDS Store, TLAPS

\* NoLostUpdate is what makes the answers true: what was compared is still
\* there, and what is renamed is the whole of what was to be written.
Inv == TypeOK /\ NoLostUpdate

\* The conjuncts of TypeOK that every step but a few leaves alone.
LEMMA RunningType ==
    ASSUME TypeOK, NEW running \in op
    PROVE  running \in Operation /\ op = {running}
BY DEF TypeOK

LEMMA ContentsDiffer ==
    /\ Absent # Unreadable
    /\ \A value : Absent # OldFormat(value) /\ Absent # Current(value)
    /\ \A value : Unreadable # OldFormat(value) /\ Unreadable # Current(value)
<1>1. /\ Absent.state = "absent" /\ Unreadable.state = "unreadable"
      /\ \A value : OldFormat(value).state = "old" /\ Current(value).state = "current"
  BY DEF Absent, Unreadable, OldFormat, Current
<1> QED BY <1>1

LEMMA ValueOfType ==
    ASSUME NEW content \in Contents, content # Unreadable
    PROVE  ValueOf(content) \in Values
<1>1. CASE content = Absent BY <1>1, StoreAssumption DEF ValueOf
<1>2. ASSUME NEW value \in Values, content = OldFormat(value) \/ content = Current(value)
      PROVE  ValueOf(content) \in Values
  <2>1. content # Absent BY <1>2, ContentsDiffer
  <2>2. content.value = value BY <1>2 DEF OldFormat, Current
  <2> QED BY <2>1, <2>2 DEF ValueOf
<1> QED BY <1>1, <1>2 DEF Contents

\* The walk keeps its type however the visit of a file ends.
LEMMA WalkType ==
    ASSUME TypeOK, NEW address \in Addresses,
           FileIndexed(address) \/ FileNotIndexed(address)
    PROVE  walk' = {} \/ \E walking \in Walk : walk' = {walking}
<1>1. CASE walk = {} BY <1>1 DEF FileIndexed, FileNotIndexed
<1>2. ASSUME NEW walking \in Walk, walk = {walking}
      PROVE  \E other \in Walk : walk' = {other}
  <2>1. /\ [walking EXCEPT !.entries = walking.entries \cup {address}] \in Walk
        /\ [walking EXCEPT !.failures = walking.failures \cup {address}] \in Walk
    BY DEF Walk
  <2>2. \/ walk' = {[walking EXCEPT !.entries = walking.entries \cup {address}]}
        \/ walk' = {[walking EXCEPT !.failures = walking.failures \cup {address}]}
    BY <1>2 DEF FileIndexed, FileNotIndexed
  <2> QED BY <2>1, <2>2
<1> QED BY <1>1, <1>2 DEF TypeOK

LEMMA InitEstablishesInv == Init => Inv
BY DEF Init, Inv, TypeOK, NoLostUpdate, Contents, Answers

\* How a step looks from outside: a step of AtomicStore, or none.
Kept == [Promise!Next]_(Promise!vars)

LEMMA FailIsKept ==
    ASSUME NEW address, Fail(address), files' = files
    PROVE  Kept
BY DEF Fail, Kept, Promise!Next, Promise!Failed

LEMMA SilentIsKept ==
    ASSUME files' = files, answer' = answer
    PROVE  Kept
BY DEF Kept, Promise!vars

\* The end of an operation that failed, its temporary file removed or not.
LEMMA FailRemovingKeepsInv ==
    ASSUME Inv, NEW address \in Addresses, FailRemoving(address), files' = files
    PROVE  Inv' /\ Kept
<1>1. Fail(address) BY DEF FailRemoving
<1>2. walk' = {} \/ \E walking \in Walk : walk' = {walking}
  BY <1>1, WalkType DEF Fail, Inv
<1>3. temps' \in [Addresses -> Contents \cup {Torn}] /\ strays' \subseteq Addresses
  BY DEF FailRemoving, Inv, TypeOK, Contents
<1>4. TypeOK' BY <1>1, <1>2, <1>3 DEF Fail, Inv, TypeOK, Answers
<1>5. NoLostUpdate' BY <1>1 DEF Fail, NoLostUpdate
<1> QED BY <1>1, <1>4, <1>5, FailIsKept DEF Inv

LEMMA FailKeepsInv ==
    ASSUME Inv, NEW address \in Addresses, Fail(address),
           UNCHANGED <<files, temps, strays>>
    PROVE  Inv' /\ Kept
<1>1. walk' = {} \/ \E walking \in Walk : walk' = {walking}
  BY WalkType DEF Fail, Inv
<1>2. TypeOK' BY <1>1 DEF Fail, Inv, TypeOK, Answers
<1>3. NoLostUpdate' BY DEF Fail, NoLostUpdate
<1> QED BY <1>2, <1>3, FailIsKept DEF Inv

\* An operation that read a file knows what is in it.
LEMMA ReadOperation ==
    ASSUME Inv, NEW address \in Addresses, NEW stage \in {"changing", "comparing"},
           files[address] # Unreadable,
           op' = {[address |-> address, stage |-> stage, existing |-> files[address],
                   value |-> ValueOf(files[address])]},
           UNCHANGED <<files, temps, answer, strays>>,
           walk' = {} \/ \E walking \in Walk : walk' = {walking}
    PROVE  Inv' /\ Kept
<1> DEFINE begun == [address |-> address, stage |-> stage, existing |-> files[address],
                     value |-> ValueOf(files[address])]
<1>1. files[address] \in Contents BY DEF Inv, TypeOK
<1>2. begun \in Operation BY <1>1, ValueOfType DEF Operation, Stages
<1>3. op' = {begun} OBVIOUS
<1>4. begun.existing = files[begun.address] /\ begun.stage \in {"changing", "comparing"} OBVIOUS
<1> HIDE DEF begun
<1>5. TypeOK' BY <1>2, <1>3 DEF Inv, TypeOK
<1>6. NoLostUpdate' BY <1>3, <1>4 DEF NoLostUpdate
<1> QED BY <1>5, <1>6, SilentIsKept DEF Inv

\* An operation that goes on to another stage, or fails.
LEMMA AdvancedOperation ==
    ASSUME Inv, NEW running \in op, NEW stage \in Stages, NEW value \in Values,
           stage \notin {"changing", "comparing"} => running.existing # Current(value),
           stage = "renaming" => temps'[running.address] = Current(value),
           op' = {[running EXCEPT !.stage = stage, !.value = value]},
           UNCHANGED <<files, walk, answer, strays>>,
           temps' \in [Addresses -> Contents \cup {Torn}]
    PROVE  Inv' /\ Kept
<1> DEFINE advanced == [running EXCEPT !.stage = stage, !.value = value]
<1>1. running \in Operation BY RunningType DEF Inv
<1>2. /\ advanced \in Operation
      /\ advanced.address = running.address /\ advanced.existing = running.existing
      /\ advanced.stage = stage /\ advanced.value = value
  BY <1>1 DEF Operation
<1>3. running.existing = files[running.address] BY DEF Inv, NoLostUpdate
<1> HIDE DEF advanced
<1>4. op' = {advanced} BY DEF advanced
<1>5. TypeOK' BY <1>2, <1>4 DEF Inv, TypeOK
<1>6. NoLostUpdate' BY <1>2, <1>3, <1>4 DEF NoLostUpdate
<1> QED BY <1>5, <1>6, SilentIsKept DEF Inv

LEMMA StepKeepsInv ==
    ASSUME Inv, NEW running \in op, Step(running)
    PROVE  Inv' /\ Kept
<1>1. running \in Operation /\ op = {running} BY RunningType DEF Inv
<1>2. /\ running.address \in Addresses /\ running.value \in Values
      /\ running.existing \in Contents \ {Unreadable}
      /\ running.existing = files[running.address]
      /\ running.stage \notin {"changing", "comparing"} =>
            running.existing # Current(running.value)
      /\ running.stage = "renaming" => temps[running.address] = Current(running.value)
  BY <1>1 DEF Operation, Inv, NoLostUpdate
<1>3. temps \in [Addresses -> Contents \cup {Torn}] /\ Current(running.value) \in Contents
  BY <1>2 DEF Inv, TypeOK, Contents
<1>4. ASSUME NEW stage \in Stages, op' = {[running EXCEPT !.stage = stage]},
             running.existing # Current(running.value),
             stage = "renaming" => temps'[running.address] = Current(running.value),
             UNCHANGED <<files, walk, answer, strays>>,
             temps' \in [Addresses -> Contents \cup {Torn}]
      PROVE  Inv' /\ Kept
  <2>1. op' = {[running EXCEPT !.stage = stage, !.value = running.value]}
    BY <1>1, <1>4 DEF Operation
  <2> QED BY <1>2, <1>4, <2>1, AdvancedOperation
<1>5. ASSUME NEW value \in Values, Change(running, value) PROVE Inv' /\ Kept
  <2>1. "comparing" \in Stages BY DEF Stages
  <2> QED BY <1>3, <1>5, <2>1, AdvancedOperation DEF Change
<1>6. ASSUME Compare(running) PROVE Inv' /\ Kept
  <2>1. CASE running.existing = Current(running.value) /\ Succeed(running.address, "unchanged")
    <3>1. walk' = {} \/ \E walking \in Walk : walk' = {walking}
      BY <2>1, <1>2, WalkType DEF Succeed, Inv
    <3>2. TypeOK' BY <1>6, <2>1, <3>1 DEF Compare, Succeed, Inv, TypeOK, Answers
    <3>3. NoLostUpdate' BY <2>1 DEF Succeed, NoLostUpdate
    <3>4. Promise!Unchanged(running.address, running.value)
      BY <1>2, <1>6, <2>1 DEF Compare, Succeed, Promise!Unchanged, Promise!Current, Current
    <3>5. Kept BY <3>4, <1>2 DEF Kept, Promise!Next
    <3> QED BY <3>2, <3>3, <3>5 DEF Inv
  <2>2. CASE /\ running.existing # Current(running.value)
             /\ op' = {[running EXCEPT !.stage = "directory"]}
             /\ UNCHANGED <<walk, answer>>
    <3>1. "directory" \in Stages BY DEF Stages
    <3> QED BY <1>3, <1>4, <1>6, <2>2, <3>1 DEF Compare
  <2>3. CASE Fail(running.address)
    BY <1>2, <1>6, <2>3, FailKeepsInv DEF Compare
  <2> QED BY <1>6, <2>1, <2>2, <2>3 DEF Compare
<1>7. ASSUME MakeDirectory(running) PROVE Inv' /\ Kept
  <2>1. CASE op' = {[running EXCEPT !.stage = "creating"]} /\ UNCHANGED <<walk, answer>>
    <3>1. "creating" \in Stages BY DEF Stages
    <3> QED BY <1>2, <1>3, <1>4, <1>7, <2>1, <3>1 DEF MakeDirectory
  <2>2. CASE Fail(running.address)
    BY <1>2, <1>7, <2>2, FailKeepsInv DEF MakeDirectory
  <2> QED BY <1>7, <2>1, <2>2 DEF MakeDirectory
<1>8. ASSUME CreateTemporary(running) PROVE Inv' /\ Kept
  <2>1. CASE /\ temps' = [temps EXCEPT ![running.address] = Torn]
             /\ op' = {[running EXCEPT !.stage = "filling"]}
             /\ UNCHANGED <<walk, answer, strays>>
    <3>1. "filling" \in Stages BY DEF Stages
    <3>2. temps' \in [Addresses -> Contents \cup {Torn}] BY <1>3, <2>1
    <3> QED BY <1>2, <1>4, <1>8, <2>1, <3>1, <3>2 DEF CreateTemporary
  <2>2. CASE FailRemoving(running.address)
    BY <1>2, <1>8, <2>2, FailRemovingKeepsInv DEF CreateTemporary
  <2> QED BY <1>8, <2>1, <2>2 DEF CreateTemporary
<1>9. ASSUME FillTemporary(running) PROVE Inv' /\ Kept
  <2>1. CASE /\ temps' = [temps EXCEPT ![running.address] = Current(running.value)]
             /\ op' = {[running EXCEPT !.stage = "renaming"]}
             /\ UNCHANGED <<walk, answer, strays>>
    <3>1. "renaming" \in Stages BY DEF Stages
    <3>2. temps' \in [Addresses -> Contents \cup {Torn}] BY <1>3, <2>1
    <3>3. temps'[running.address] = Current(running.value) BY <1>2, <1>3, <2>1
    <3> QED BY <1>2, <1>4, <1>9, <2>1, <3>1, <3>2, <3>3 DEF FillTemporary
  <2>2. CASE FailRemoving(running.address)
    BY <1>2, <1>9, <2>2, FailRemovingKeepsInv DEF FillTemporary
  <2> QED BY <1>9, <2>1, <2>2 DEF FillTemporary
<1>10. ASSUME Rename(running) PROVE Inv' /\ Kept
  <2>1. CASE /\ files' = [files EXCEPT ![running.address] = temps[running.address]]
             /\ temps' = [temps EXCEPT ![running.address] = Absent]
             /\ strays' = strays \ {running.address}
             /\ Succeed(running.address, "written")
    <3>1. files' = [files EXCEPT ![running.address] = Current(running.value)]
      BY <1>2, <1>10, <2>1 DEF Rename
    <3>2. files' \in [Addresses -> Contents] /\ temps' \in [Addresses -> Contents \cup {Torn}]
      BY <1>3, <2>1, <3>1 DEF Inv, TypeOK, Contents
    <3>3. walk' = {} \/ \E walking \in Walk : walk' = {walking}
      BY <2>1, <1>2, WalkType DEF Succeed, Inv
    <3>4. TypeOK' BY <2>1, <3>2, <3>3 DEF Succeed, Inv, TypeOK, Answers
    <3>5. NoLostUpdate' BY <2>1 DEF Succeed, NoLostUpdate
    <3>6. files[running.address] \notin {Unreadable, Current(running.value)}
      BY <1>2, <1>10 DEF Rename
    <3>7. Promise!Written(running.address, running.value)
      BY <2>1, <3>1, <3>6
         DEF Succeed, Promise!Written, Promise!Current, Current, Promise!Unreadable, Unreadable
    <3>8. Kept BY <3>7, <1>2 DEF Kept, Promise!Next
    <3> QED BY <3>4, <3>5, <3>8 DEF Inv
  <2>2. CASE FailRemoving(running.address) /\ UNCHANGED files
    BY <1>2, <2>2, FailRemovingKeepsInv
  <2> QED BY <1>10, <2>1, <2>2 DEF Rename
<1> QED BY <1>5, <1>6, <1>7, <1>8, <1>9, <1>10 DEF Step

\* What VisitFile does with one of the files left.
Visit(walking, address) ==
    /\ op = {}
    /\ LET rest == [walking EXCEPT !.left = walking.left \ {address}] IN
       \/ /\ walk' = {[rest EXCEPT !.failures = rest.failures \cup {address}]}
          /\ UNCHANGED <<op, answer>>
       \/ /\ files[address] # Unreadable
          /\ op' = {[address |-> address, stage |-> "comparing",
                     existing |-> files[address], value |-> ValueOf(files[address])]}
          /\ walk' = {rest}
          /\ UNCHANGED answer
    /\ UNCHANGED <<files, temps, strays>>

LEMMA VisitOfFile ==
    ASSUME VisitFile
    PROVE  \E walking \in walk : \E address \in walking.left : Visit(walking, address)
BY Zenon DEF VisitFile, Visit

LEMMA NextKeepsInv ==
    ASSUME Inv, [Next]_vars
    PROVE  Inv' /\ Kept
<1>1. ASSUME NEW address \in Addresses, BeginUpdate(address) PROVE Inv' /\ Kept
  <2>1. CASE Fail(address) BY <1>1, <2>1, FailKeepsInv DEF BeginUpdate
  <2>2. CASE /\ files[address] # Unreadable
             /\ op' = {[address |-> address, stage |-> "changing",
                        existing |-> files[address], value |-> ValueOf(files[address])]}
             /\ UNCHANGED <<walk, answer>>
    BY <1>1, <2>2, ReadOperation DEF BeginUpdate, Inv, TypeOK
  <2> QED BY <1>1, <2>1, <2>2 DEF BeginUpdate, Read
<1>2. ASSUME NEW running \in op, Step(running) PROVE Inv' /\ Kept
  BY <1>2, StepKeepsInv
<1>3. ASSUME BeginIndex PROVE Inv' /\ Kept
  <2> DEFINE begun == [left |-> {address \in Addresses : files[address] # Absent},
                       entries |-> {}, failures |-> {}]
  <2>1. walk' = {begun} BY <1>3 DEF BeginIndex
  <2>2. begun \in Walk BY DEF Walk
  <2> HIDE DEF begun
  <2>3. TypeOK' BY <1>3, <2>1, <2>2 DEF BeginIndex, Inv, TypeOK
  <2>4. NoLostUpdate' BY <1>3 DEF BeginIndex, Inv, NoLostUpdate
  <2> QED BY <1>3, <2>3, <2>4, SilentIsKept DEF BeginIndex, Inv
<1>4. ASSUME VisitFile PROVE Inv' /\ Kept
  <2>1. PICK walking \in walk : \E address \in walking.left : Visit(walking, address)
    BY <1>4, VisitOfFile
  <2>2. PICK address \in walking.left : Visit(walking, address) BY <2>1
  <2> DEFINE rest == [walking EXCEPT !.left = walking.left \ {address}]
             failed == [rest EXCEPT !.failures = rest.failures \cup {address}]
  <2>3. walking \in Walk BY DEF Inv, TypeOK
  <2>4. address \in Addresses /\ rest \in Walk BY <2>3 DEF Walk
  <2>5. failed \in Walk BY <2>4 DEF Walk
  <2>6. CASE walk' = {failed} /\ UNCHANGED <<op, answer>>
    <3> HIDE DEF failed
    <3>1. TypeOK' BY <2>2, <2>5, <2>6 DEF Visit, Inv, TypeOK
    <3>2. NoLostUpdate' BY <2>2, <2>6 DEF Visit, Inv, NoLostUpdate
    <3> QED BY <2>2, <2>6, <3>1, <3>2, SilentIsKept DEF Visit, Inv
  <2>7. CASE /\ files[address] # Unreadable
             /\ op' = {[address |-> address, stage |-> "comparing",
                        existing |-> files[address], value |-> ValueOf(files[address])]}
             /\ walk' = {rest}
             /\ UNCHANGED answer
    <3> HIDE DEF rest
    <3> QED BY <2>2, <2>4, <2>7, ReadOperation DEF Visit
  <2> QED BY <2>2, <2>6, <2>7 DEF Visit
<1>5. ASSUME EndIndex \/ CancelIndex PROVE Inv' /\ Kept
  <2>1. walk' = {} /\ UNCHANGED <<files, temps, op, answer, strays>>
    BY <1>5 DEF EndIndex, CancelIndex
  <2>2. TypeOK' BY <2>1 DEF Inv, TypeOK
  <2>3. NoLostUpdate' BY <2>1 DEF Inv, NoLostUpdate
  <2> QED BY <2>1, <2>2, <2>3, SilentIsKept DEF Inv
<1>6. ASSUME Kill PROVE Inv' /\ Kept
  <2>1. TypeOK' BY <1>6 DEF Kill, Inv, TypeOK, Answers
  <2>2. NoLostUpdate' BY <1>6 DEF Kill, NoLostUpdate
  <2>3. Promise!Killed BY <1>6 DEF Kill, Promise!Killed
  <2>4. Kept BY <2>3 DEF Kept, Promise!Next
  <2> QED BY <2>1, <2>2, <2>4 DEF Inv
<1>7. ASSUME UNCHANGED vars PROVE Inv' /\ Kept
  <2>1. TypeOK' BY <1>7 DEF vars, Inv, TypeOK
  <2>2. NoLostUpdate' BY <1>7 DEF vars, Inv, NoLostUpdate
  <2> QED BY <1>7, <2>1, <2>2, SilentIsKept DEF vars, Inv
<1> QED BY <1>1, <1>2, <1>3, <1>4, <1>5, <1>6, <1>7 DEF Next

\* What the store keeps at every crash and in every order of its calls.
THEOREM Invariance == Spec => []Inv
<1>1. Inv /\ [Next]_vars => Inv' BY NextKeepsInv
<1> QED BY InitEstablishesInv, <1>1, PTL DEF Spec

\* The files, operations and walks keep their types: in particular no record
\* file ever holds the start of a record.
THEOREM TypeCorrect == Spec => []TypeOK
BY Invariance, PTL DEF Inv

\* What an operation compared with is still there when it writes.
THEOREM UpdatesNotLost == Spec => []NoLostUpdate
BY Invariance, PTL DEF Inv

LEMMA InitIsPromised == Init => Promise!Init
BY DEF Init, Promise!Init, Contents, Promise!Contents, Absent, Promise!Absent,
       Unreadable, Promise!Unreadable, OldFormat, Promise!OldFormat,
       Current, Promise!Current

\* The store implements AtomicStore: whatever fails and whenever the program is
\* killed, every step is an atomic write that is answered truthfully, or none.
THEOREM Refinement == Spec => AtomicWrites
<1>1. Inv /\ [Next]_vars => [Promise!Next]_(Promise!vars)
  BY NextKeepsInv DEF Kept
<1> QED BY InitIsPromised, <1>1, Invariance, PTL DEF Spec, AtomicWrites, Promise!Spec

-----------------------------------------------------------------------------
(* Temporary files *)

\* A temporary file is one that an operation is writing right now, or a stray.
TempsKnown ==
    \A address \in Addresses :
        temps[address] # Absent =>
            \/ address \in strays
            \/ \E running \in op : /\ running.address = address
                                   /\ running.stage \in {"filling", "renaming"}

\* A failed write leaves its temporary file only as a stray.
LEMMA FailRemovingKeepsTemps ==
    ASSUME Inv, TempsKnown, NEW running \in op, FailRemoving(running.address)
    PROVE  TempsKnown'
<1>1. running \in Operation /\ op = {running} BY RunningType DEF Inv
<1>2. temps \in [Addresses -> Contents \cup {Torn}] /\ running.address \in Addresses
  BY <1>1 DEF Inv, TypeOK, Operation
<1>3. CASE temps' = [temps EXCEPT ![running.address] = Absent]
           /\ strays' = strays \ {running.address}
  BY <1>1, <1>2, <1>3 DEF TempsKnown
<1>4. CASE UNCHANGED temps /\ strays' = strays \cup {running.address}
  BY <1>1, <1>4 DEF TempsKnown
<1> QED BY <1>3, <1>4 DEF FailRemoving

LEMMA StepKeepsTemps ==
    ASSUME Inv, TempsKnown, NEW running \in op, Step(running)
    PROVE  TempsKnown'
<1>1. running \in Operation /\ op = {running} BY RunningType DEF Inv
<1>2. temps \in [Addresses -> Contents \cup {Torn}] /\ running.address \in Addresses
  BY <1>1 DEF Inv, TypeOK, Operation
<1>3. ASSUME NEW stage \in {"filling", "renaming"}, NEW content,
             temps' = [temps EXCEPT ![running.address] = content],
             op' = {[running EXCEPT !.stage = stage]}, UNCHANGED strays
      PROVE  TempsKnown'
  <2> DEFINE next == [running EXCEPT !.stage = stage]
  <2>1. next.address = running.address /\ next.stage = stage BY <1>1 DEF Operation
  <2> HIDE DEF next
  <2>2. op' = {next} BY <1>3 DEF next
  <2> QED BY <1>1, <1>2, <1>3, <2>1, <2>2 DEF TempsKnown
<1>4. ASSUME running.stage \notin {"filling", "renaming"}, UNCHANGED <<temps, strays>>
      PROVE  TempsKnown'
  BY <1>1, <1>4 DEF TempsKnown
<1>5. CASE \E value \in Values : Change(running, value)
  BY <1>4, <1>5 DEF Change
<1>6. CASE Compare(running) BY <1>4, <1>6 DEF Compare
<1>7. CASE MakeDirectory(running) BY <1>4, <1>7 DEF MakeDirectory
<1>8. CASE CreateTemporary(running)
  <2>1. CASE FailRemoving(running.address) BY <2>1, FailRemovingKeepsTemps
  <2> QED BY <1>3, <1>8, <2>1 DEF CreateTemporary
<1>9. CASE FillTemporary(running)
  <2>1. CASE FailRemoving(running.address) BY <2>1, FailRemovingKeepsTemps
  <2> QED BY <1>3, <1>9, <2>1 DEF FillTemporary
<1>10. CASE Rename(running)
  <2>1. CASE FailRemoving(running.address) BY <2>1, FailRemovingKeepsTemps
  <2>2. CASE temps' = [temps EXCEPT ![running.address] = Absent]
             /\ strays' = strays \ {running.address}
    BY <1>1, <1>2, <2>2 DEF TempsKnown
  <2> QED BY <1>10, <2>1, <2>2 DEF Rename
<1> QED BY <1>5, <1>6, <1>7, <1>8, <1>9, <1>10 DEF Step

LEMMA NextKeepsTemps ==
    ASSUME Inv, TempsKnown, [Next]_vars
    PROVE  TempsKnown'
<1>1. ASSUME op = {}, UNCHANGED <<temps, strays>> PROVE TempsKnown'
  BY <1>1 DEF TempsKnown
<1>2. CASE \E address \in Addresses : BeginUpdate(address)
  BY <1>1, <1>2 DEF BeginUpdate
<1>3. ASSUME NEW running \in op, Step(running) PROVE TempsKnown'
  BY <1>3, StepKeepsTemps
<1>4. CASE BeginIndex BY <1>1, <1>4 DEF BeginIndex
<1>5. CASE VisitFile BY <1>1, <1>5 DEF VisitFile
<1>6. CASE EndIndex \/ CancelIndex BY <1>1, <1>6 DEF EndIndex, CancelIndex
<1>7. CASE Kill BY <1>7 DEF Kill, TempsKnown
<1>8. CASE UNCHANGED vars BY <1>8 DEF vars, TempsKnown
<1> QED BY <1>2, <1>3, <1>4, <1>5, <1>6, <1>7, <1>8 DEF Next

\* Whatever fails and whenever the program is killed, a temporary file found
\* later was left by a kill during its write or by a removal that failed, and
\* its record has not been written completely since.
THEOREM NoUnknownTemps == Spec => []TempsAccountedFor
<1>1. Init => TempsKnown BY DEF Init, TempsKnown
<1>2. Inv /\ TempsKnown /\ [Next]_vars => TempsKnown' BY NextKeepsTemps
<1>3. TempsKnown => TempsAccountedFor BY DEF TempsKnown, TempsAccountedFor
<1> QED BY <1>1, <1>2, <1>3, Invariance, PTL DEF Spec

-----------------------------------------------------------------------------
(* Indexing *)

\* The end of a visit, the file in it still there, and current if it counts as
\* an entry.
LEMMA VisitEndsAccounted ==
    ASSUME Inv, IndexAccountsForEveryFile, NEW running \in op, op' = {},
           \/ FileNotIndexed(running.address)
           \/ FileIndexed(running.address) /\ files'[running.address].state = "current",
           \A address \in Addresses \ {running.address} : files'[address] = files[address],
           files'[running.address] = Absent <=> files[running.address] = Absent
    PROVE  IndexAccountsForEveryFile'
<1>1. running \in Operation /\ op = {running} BY RunningType DEF Inv
<1>2. CASE walk = {}
  BY <1>2 DEF FileIndexed, FileNotIndexed, IndexAccountsForEveryFile
<1>3. ASSUME NEW walking \in Walk, walk = {walking}
      PROVE  IndexAccountsForEveryFile'
  <2> DEFINE visited == {other.address : other \in op}
             found == {address \in Addresses : files[address] # Absent}
  <2>1. /\ walking.left \cup visited \cup walking.entries \cup walking.failures = found
        /\ walking.left \cap (visited \cup walking.entries \cup walking.failures) = {}
        /\ visited \cap (walking.entries \cup walking.failures) = {}
        /\ walking.entries \cap walking.failures = {}
        /\ \A address \in walking.entries : files[address].state = "current"
    BY <1>3 DEF IndexAccountsForEveryFile
  <2>2. visited = {running.address} /\ {other.address : other \in {}} = {} BY <1>1
  <2>3. found = {address \in Addresses : files'[address] # Absent} OBVIOUS
  <2>4. \A address \in walking.entries : files'[address].state = "current"
    BY <2>1, <2>2 DEF Walk
  <2> HIDE DEF visited, found
  <2>5. ASSUME NEW next \in Walk, walk' = {next}, next.left = walking.left,
               \/ /\ next.entries = walking.entries \cup {running.address}
                  /\ next.failures = walking.failures
                  /\ files'[running.address].state = "current"
               \/ /\ next.entries = walking.entries
                  /\ next.failures = walking.failures \cup {running.address}
        PROVE  IndexAccountsForEveryFile'
    <3>1. /\ next.left \cup {} \cup next.entries \cup next.failures = found
          /\ next.left \cap ({} \cup next.entries \cup next.failures) = {}
          /\ {} \cap (next.entries \cup next.failures) = {}
          /\ next.entries \cap next.failures = {}
      BY <2>1, <2>2, <2>5
    <3>2. \A address \in next.entries : files'[address].state = "current"
      BY <2>4, <2>5
    <3> QED BY <2>2, <2>3, <2>5, <3>1, <3>2 DEF IndexAccountsForEveryFile
  <2>6. CASE FileNotIndexed(running.address)
    <3> DEFINE next == [walking EXCEPT !.failures = walking.failures \cup {running.address}]
    <3>1. /\ next \in Walk /\ next.left = walking.left /\ next.entries = walking.entries
          /\ next.failures = walking.failures \cup {running.address}
      BY <1>1 DEF Walk, Operation
    <3>2. walk' = {next} BY <1>3, <2>6 DEF FileNotIndexed
    <3> HIDE DEF next
    <3> QED BY <2>5, <3>1, <3>2
  <2>7. CASE FileIndexed(running.address) /\ files'[running.address].state = "current"
    <3> DEFINE next == [walking EXCEPT !.entries = walking.entries \cup {running.address}]
    <3>1. /\ next \in Walk /\ next.left = walking.left /\ next.failures = walking.failures
          /\ next.entries = walking.entries \cup {running.address}
      BY <1>1 DEF Walk, Operation
    <3>2. walk' = {next} BY <1>3, <2>7 DEF FileIndexed
    <3> HIDE DEF next
    <3> QED BY <2>5, <2>7, <3>1, <3>2
  <2> QED BY <2>6, <2>7
<1> QED BY <1>2, <1>3 DEF Inv, TypeOK

LEMMA StepKeepsIndex ==
    ASSUME Inv, IndexAccountsForEveryFile, NEW running \in op, Step(running)
    PROVE  IndexAccountsForEveryFile'
<1>1. running \in Operation /\ op = {running} BY RunningType DEF Inv
<1>2. /\ running.address \in Addresses /\ running.existing = files[running.address]
      /\ running.stage = "renaming" => temps[running.address] = Current(running.value)
  BY <1>1 DEF Operation, Inv, NoLostUpdate
<1>3. Current(running.value).state = "current" /\ Current(running.value) # Absent
  BY ContentsDiffer DEF Current
<1>4. ASSUME NEW next, op' = {next}, next.address = running.address,
             UNCHANGED <<files, walk>>
      PROVE  IndexAccountsForEveryFile'
  <2>1. {other.address : other \in op'} = {other.address : other \in op}
    BY <1>1, <1>4
  <2> QED BY <1>4, <2>1 DEF IndexAccountsForEveryFile
<1>5. \A stage, value :
         /\ [running EXCEPT !.stage = stage].address = running.address
         /\ [running EXCEPT !.stage = stage, !.value = value].address = running.address
  BY <1>1 DEF Operation
<1>6. CASE Fail(running.address) /\ UNCHANGED files
  BY <1>6, VisitEndsAccounted DEF Fail
<1>7. CASE \E value \in Values : Change(running, value)
  BY <1>4, <1>5, <1>7 DEF Change
<1>8. CASE Compare(running)
  <2>1. CASE running.existing = Current(running.value) /\ Succeed(running.address, "unchanged")
    BY <1>2, <1>3, <1>8, <2>1, VisitEndsAccounted DEF Compare, Succeed
  <2> QED BY <1>4, <1>5, <1>6, <1>8, <2>1 DEF Compare
<1>9. CASE MakeDirectory(running) BY <1>4, <1>5, <1>6, <1>9 DEF MakeDirectory
<1>10. CASE CreateTemporary(running)
  BY <1>4, <1>5, <1>6, <1>10 DEF CreateTemporary, FailRemoving
<1>11. CASE FillTemporary(running)
  BY <1>4, <1>5, <1>6, <1>11 DEF FillTemporary, FailRemoving
<1>12. CASE Rename(running)
  <2>1. CASE /\ files' = [files EXCEPT ![running.address] = temps[running.address]]
             /\ Succeed(running.address, "written")
    <3>1. files'[running.address] = Current(running.value)
          /\ \A address \in Addresses \ {running.address} : files'[address] = files[address]
      BY <1>2, <1>12, <2>1 DEF Rename, Inv, TypeOK
    <3>2. CASE walk = {}
      BY <2>1, <3>2 DEF Succeed, FileIndexed, IndexAccountsForEveryFile
    <3>3. CASE walk # {}
      <4>1. PICK walking \in walk : running.address \in
               {address \in Addresses : files[address] # Absent}
        BY <1>1, <3>3 DEF IndexAccountsForEveryFile
      <4>2. files[running.address] # Absent BY <4>1
      <4> QED BY <1>3, <2>1, <3>1, <4>2, VisitEndsAccounted DEF Succeed
    <3> QED BY <3>2, <3>3
  <2> QED BY <1>6, <1>12, <2>1 DEF Rename, FailRemoving
<1> QED BY <1>7, <1>8, <1>9, <1>10, <1>11, <1>12 DEF Step

LEMMA VisitKeepsIndex ==
    ASSUME Inv, IndexAccountsForEveryFile, VisitFile
    PROVE  IndexAccountsForEveryFile'
<1>0. PICK walking \in walk : \E address \in walking.left : Visit(walking, address)
  BY VisitOfFile
<1>1. PICK address \in walking.left : Visit(walking, address) BY <1>0
<1> DEFINE rest == [walking EXCEPT !.left = walking.left \ {address}]
           failed == [rest EXCEPT !.failures = rest.failures \cup {address}]
           found == {other \in Addresses : files[other] # Absent}
<1>2. walking \in Walk BY DEF Inv, TypeOK
<1>3. /\ rest.left = walking.left \ {address} /\ rest.entries = walking.entries
      /\ rest.failures = walking.failures
      /\ failed.left = walking.left \ {address} /\ failed.entries = walking.entries
      /\ failed.failures = walking.failures \cup {address}
  BY <1>2 DEF Walk
<1>4. {other.address : other \in op} = {} BY <1>1 DEF Visit
<1>5. /\ walking.left \cup walking.entries \cup walking.failures = found
      /\ walking.left \cap (walking.entries \cup walking.failures) = {}
      /\ walking.entries \cap walking.failures = {}
      /\ \A other \in walking.entries : files[other].state = "current"
  BY <1>4 DEF IndexAccountsForEveryFile
<1>6. files' = files BY <1>1 DEF Visit
<1>7. CASE walk' = {failed} /\ UNCHANGED op
  <2> HIDE DEF failed, rest
  <2>1. {other.address : other \in op'} = {} BY <1>1, <1>7 DEF Visit
  <2>2. /\ failed.left \cup {} \cup failed.entries \cup failed.failures = found
        /\ failed.left \cap ({} \cup failed.entries \cup failed.failures) = {}
        /\ {} \cap (failed.entries \cup failed.failures) = {}
        /\ failed.entries \cap failed.failures = {}
    BY <1>3, <1>5
  <2> QED BY <1>3, <1>5, <1>6, <1>7, <2>1, <2>2 DEF IndexAccountsForEveryFile
<1>8. CASE walk' = {rest} /\ \E next : op' = {next} /\ next.address = address
  <2> HIDE DEF failed, rest
  <2>1. {other.address : other \in op'} = {address} BY <1>8
  <2>2. /\ rest.left \cup {address} \cup rest.entries \cup rest.failures = found
        /\ rest.left \cap ({address} \cup rest.entries \cup rest.failures) = {}
        /\ {address} \cap (rest.entries \cup rest.failures) = {}
        /\ rest.entries \cap rest.failures = {}
    BY <1>3, <1>5
  <2> QED BY <1>3, <1>5, <1>6, <1>8, <2>1, <2>2 DEF IndexAccountsForEveryFile
<1>9. \/ walk' = {failed} /\ UNCHANGED op
      \/ /\ walk' = {rest}
         /\ op' = {[address |-> address, stage |-> "comparing",
                    existing |-> files[address], value |-> ValueOf(files[address])]}
  BY <1>1, Zenon DEF Visit
<1> QED
  <2> HIDE DEF rest, failed
  <2> DEFINE next == [address |-> address, stage |-> "comparing",
                      existing |-> files[address], value |-> ValueOf(files[address])]
  <2>1. next.address = address OBVIOUS
  <2>2. (walk' = {failed} /\ UNCHANGED op) \/ (walk' = {rest} /\ op' = {next}) BY <1>9
  <2> HIDE DEF next
  <2> QED BY <1>7, <1>8, <2>1, <2>2

LEMMA NextKeepsIndex ==
    ASSUME Inv, IndexAccountsForEveryFile, [Next]_vars
    PROVE  IndexAccountsForEveryFile'
<1>1. CASE walk' = {} BY <1>1 DEF IndexAccountsForEveryFile
<1>2. CASE \E address \in Addresses : BeginUpdate(address)
  <2>1. walk' = {} BY <1>2 DEF BeginUpdate, Read, Fail, FileNotIndexed
  <2> QED BY <1>1, <2>1
<1>3. ASSUME NEW running \in op, Step(running) PROVE IndexAccountsForEveryFile'
  BY <1>3, StepKeepsIndex
<1>4. CASE BeginIndex
  <2> DEFINE begun == [left |-> {address \in Addresses : files[address] # Absent},
                       entries |-> {}, failures |-> {}]
  <2>1. walk' = {begun} /\ op' = {} /\ files' = files BY <1>4 DEF BeginIndex
  <2>2. {other.address : other \in op'} = {} BY <2>1
  <2>3. begun.left = {address \in Addresses : files[address] # Absent}
        /\ begun.entries = {} /\ begun.failures = {}
    OBVIOUS
  <2> HIDE DEF begun
  <2> QED BY <2>1, <2>2, <2>3 DEF IndexAccountsForEveryFile
<1>5. CASE VisitFile BY <1>5, VisitKeepsIndex
<1>6. CASE EndIndex \/ CancelIndex \/ Kill BY <1>1, <1>6 DEF EndIndex, CancelIndex, Kill
<1>7. CASE UNCHANGED vars BY <1>7 DEF vars, IndexAccountsForEveryFile
<1> QED BY <1>2, <1>3, <1>4, <1>5, <1>6, <1>7 DEF Next

\* Indexing accounts for every record file exactly once, whatever fails, and
\* every file it indexed is in the current format from then on.
THEOREM EveryFileAccountedFor == Spec => []IndexAccountsForEveryFile
<1>1. Init => IndexAccountsForEveryFile BY DEF Init, IndexAccountsForEveryFile
<1>2. Inv /\ IndexAccountsForEveryFile /\ [Next]_vars => IndexAccountsForEveryFile'
  BY NextKeepsIndex
<1> QED BY <1>1, <1>2, Invariance, PTL DEF Spec
=============================================================================
