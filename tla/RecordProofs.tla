--------------------------- MODULE RecordProofs ----------------------------
(***************************************************************************)
(* Lemmas about the operators of Record: what each returns, and that none  *)
(* loses or rewrites an observation; and before them those on extrema,     *)
(* folds and sequences that the proofs of several modules need.            *)
(***************************************************************************)
EXTENDS Record, SequencesExt, SequenceTheorems, FiniteSetTheorems, WellFoundedInduction, TLAPS

-----------------------------------------------------------------------------
(* Extrema *)

\* A set of naturals has an earliest element: the prefixes 0..x of the set's
\* elements are finite sets, of which one is minimal.
LEMMA EarliestProperty ==
    ASSUME NEW T \in SUBSET Nat, T # {}
    PROVE  Earliest(T) \in T /\ \A other \in T : Earliest(T) <= other
<1> DEFINE Below == {0..x : x \in T}
<1>1. Below \subseteq FiniteSubsetsOf(Nat)
  <2>1. \A x \in T : IsFiniteSet(0..x) BY FS_Interval
  <2>2. \A x \in T : 0..x \subseteq Nat OBVIOUS
  <2> QED BY <2>1, <2>2 DEF FiniteSubsetsOf
<1>2. Below # {} OBVIOUS
<1>3. PICK least \in Below :
          \A below \in Below : <<below, least>> \notin StrictSubsetOrdering(Nat)
  <2> HIDE DEF Below
  <2> QED BY <1>1, <1>2, FS_StrictSubsetOrderingWellFounded, WFMin
<1>4. PICK x \in T : least = 0..x BY <1>3
<1>5. \A y \in T : x <= y
  <2> SUFFICES ASSUME NEW y \in T, y < x PROVE FALSE OBVIOUS
  <2>1. 0..y \subseteq Nat /\ 0..x \subseteq Nat OBVIOUS
  <2>2. 0..y \subseteq 0..x /\ x \in 0..x /\ x \notin 0..y OBVIOUS
  <2>3. <<0..y, 0..x>> \in StrictSubsetOrdering(Nat)
    BY <2>1, <2>2 DEF StrictSubsetOrdering
  <2> QED BY <2>3, <1>3, <1>4
<1> QED BY <1>5 DEF Earliest

\* A bounded set of naturals has a latest element: mirror it at the bound.
LEMMA LatestProperty ==
    ASSUME NEW T \in SUBSET Moment, T # {}
    PROVE  Latest(T) \in T /\ \A other \in T : other <= Latest(T)
<1>0. MaxTime \in Nat /\ Moment = 0..MaxTime BY RecordAssumption DEF Moment
<1> USE <1>0
<1> DEFINE Mirrored == {MaxTime - x : x \in T}
<1>1. \A x \in T : x \in Nat /\ MaxTime - x \in Nat OBVIOUS
<1>2. Mirrored \in SUBSET Nat BY <1>1
<1>3. Mirrored # {} OBVIOUS
<1>4. Earliest(Mirrored) \in Mirrored /\ \A other \in Mirrored : Earliest(Mirrored) <= other
  <2> HIDE DEF Mirrored
  <2> QED BY <1>2, <1>3, EarliestProperty
<1>5. PICK x \in T : Earliest(Mirrored) = MaxTime - x BY <1>4
<1>6. \A y \in T : y <= x
  <2> TAKE y \in T
  <2>1. MaxTime - y \in Mirrored OBVIOUS
  <2>2. MaxTime - x <= MaxTime - y BY <2>1, <1>4, <1>5
  <2> QED BY <2>2, <1>1
<1> QED BY <1>6 DEF Latest

-----------------------------------------------------------------------------
(* Counting up *)

\* A set that holds 0 and, with a number below the limit, the next one, holds all.
LEMMA CountsUp ==
    ASSUME NEW limit \in Nat, NEW T \in SUBSET Nat, 0 \in T,
           \A k \in 0 .. limit - 1 : k \in T => k + 1 \in T
    PROVE  \A k \in 0..limit : k \in T
<1> DEFINE Missing == {k \in 0..limit : k \notin T}
<1> SUFFICES ASSUME Missing # {} PROVE FALSE OBVIOUS
<1>1. Missing \in SUBSET Nat OBVIOUS
<1>2. PICK first \in Missing : \A other \in Missing : first <= other
  <2> HIDE DEF Missing
  <2> QED BY <1>1, EarliestProperty
<1>3. first # 0 /\ first - 1 \in 0 .. limit - 1 BY <1>2
<1>4. first - 1 \in T BY <1>2, <1>3
<1> QED BY <1>2, <1>3, <1>4

\* A nonempty set of numbers up to a limit has a greatest one.
LEMMA MaxProperty ==
    ASSUME NEW limit \in Nat, NEW T \in SUBSET (1..limit), T # {}
    PROVE  Max(T) \in T /\ \A other \in T : Max(T) >= other
<1> DEFINE Mirrored == {limit - x : x \in T}
<1>1. \A x \in T : limit - x \in Nat OBVIOUS
<1>2. Mirrored \in SUBSET Nat /\ Mirrored # {} BY <1>1
<1>3. PICK first \in Mirrored : \A other \in Mirrored : first <= other
  <2> HIDE DEF Mirrored
  <2> QED BY <1>2, EarliestProperty
<1>4. PICK last \in T : first = limit - last BY <1>3
<1>5. \A other \in T : last >= other
  <2> SUFFICES ASSUME NEW other \in T PROVE last >= other OBVIOUS
  <2>1. limit - other \in Mirrored OBVIOUS
  <2>2. limit - last <= limit - other BY <1>3, <1>4, <2>1
  <2>3. last \in Nat /\ other \in Nat OBVIOUS
  <2> QED BY <2>2, <2>3
<1> QED BY <1>5 DEF Max

-----------------------------------------------------------------------------
(* Folds.  What FoldLeft computes along its numbers, for one step at each. *)

\* The sets of the numbers up to k.
Upto(k) == SUBSET (1..k)

\* What is made of a value of V at each number up to limit.
Steps(V, limit) == [V \X (1..limit) -> V]

\* What FoldLeft finds for the set of the first numbers up to limit, and others.
IsIteration(iter, limit, base, step) ==
    \A s \in Upto(limit) :
        iter[s] = IF s = {} THEN base ELSE step[<<iter[s \ {Max(s)}], Max(s)>>]

\* What MapThenFoldSet iterates exists, if the steps keep to a set.
LEMMA IterationExists ==
    ASSUME NEW limit \in Nat, NEW V, NEW base \in V, NEW step \in Steps(V, limit)
    PROVE  \E iter \in [Upto(limit) -> V] : IsIteration(iter, limit, base, step)
<1> DEFINE Iterates(k, iter) == IsIteration(iter, k, base, step)
           Good == {k \in 0..limit : \E iter \in [Upto(k) -> V] : Iterates(k, iter)}
<1> USE DEF IsIteration
<1>1. 0 \in Good
  <2>1. Upto(0) = {{}} BY DEF Upto
  <2>2. [s \in Upto(0) |-> base] \in [Upto(0) -> V] /\ Iterates(0, [s \in Upto(0) |-> base])
    BY <2>1
  <2> HIDE DEF Iterates
  <2> QED BY <2>2
<1>2. ASSUME NEW k \in 0 .. limit - 1, k \in Good PROVE k + 1 \in Good
  <2>1. PICK iter \in [Upto(k) -> V] : Iterates(k, iter) BY <1>2
  <2> DEFINE longer == [s \in Upto(k + 1) |-> IF k + 1 \in s
                                              THEN step[<<iter[s \ {k + 1}], k + 1>>]
                                              ELSE iter[s]]
  <2>2. ASSUME NEW s \in Upto(k + 1)
        PROVE  /\ k + 1 \in s => s \ {k + 1} \in Upto(k) /\ Max(s) = k + 1
               /\ k + 1 \notin s => s \in Upto(k)
    <3>1. \A x \in s : x \in Nat /\ x <= k + 1 BY DEF Upto
    <3>2. ASSUME k + 1 \in s PROVE Max(s) = k + 1
      <4>1. s \in SUBSET (1 .. k + 1) /\ s # {} /\ k + 1 \in Nat BY <3>2 DEF Upto
      <4>2. Max(s) \in s /\ Max(s) >= k + 1 BY <3>2, <4>1, MaxProperty
      <4> QED BY <3>1, <4>2
    <3>3. k + 1 \in s => s \ {k + 1} \subseteq 1..k BY <3>1 DEF Upto
    <3>4. k + 1 \notin s => s \subseteq 1..k BY <3>1 DEF Upto
    <3> QED BY <3>2, <3>3, <3>4 DEF Upto
  <2>3. longer \in [Upto(k + 1) -> V]
    <3> SUFFICES ASSUME NEW s \in Upto(k + 1)
                 PROVE  (IF k + 1 \in s THEN step[<<iter[s \ {k + 1}], k + 1>>] ELSE iter[s]) \in V
      OBVIOUS
    <3>1. k + 1 \in 1..limit OBVIOUS
    <3> QED BY <2>1, <2>2, <3>1 DEF Steps
  <2>4. ASSUME NEW s \in Upto(k + 1)
        PROVE  longer[s] = IF s = {} THEN base ELSE step[<<longer[s \ {Max(s)}], Max(s)>>]
    <3>1. CASE k + 1 \in s
      <4>1. s \ {k + 1} \in Upto(k + 1) /\ k + 1 \notin s \ {k + 1} BY DEF Upto
      <4>2. longer[s \ {k + 1}] = iter[s \ {k + 1}] BY <4>1
      <4> QED BY <2>2, <3>1, <4>2
    <3>2. CASE k + 1 \notin s
      <4>1. s \in Upto(k) BY <2>2, <3>2
      <4>2. longer[s] = iter[s] BY <3>2
      <4>3. CASE s = {} BY <2>1, <4>1, <4>2, <4>3
      <4>4. CASE s # {}
        <5>1. s \ {Max(s)} \in Upto(k + 1) /\ k + 1 \notin s \ {Max(s)} BY <3>2 DEF Upto
        <5>2. longer[s \ {Max(s)}] = iter[s \ {Max(s)}] BY <5>1
        <5> QED BY <2>1, <4>1, <4>2, <4>4, <5>2
      <4> QED BY <4>3, <4>4
    <3> QED BY <3>1, <3>2
  <2> HIDE DEF longer
  <2>5. Iterates(k + 1, longer) BY <2>4
  <2> HIDE DEF Iterates
  <2> QED BY <2>3, <2>5
<1> HIDE DEF Iterates
<1>3. limit \in Good
  <2>1. Good \in SUBSET Nat /\ limit \in 0..limit OBVIOUS
  <2> HIDE DEF Good
  <2> QED BY <1>1, <1>2, <2>1, CountsUp
<1> QED BY <1>3 DEF Iterates

\* What is known of an iteration at first: that it takes a step where it has a value.
Follows(chosen, V, limit, base, step) ==
    /\ chosen[{}] = base
    /\ \A s \in Upto(limit) : s # {} /\ chosen[s \ {Max(s)}] \in V =>
          chosen[s] = step[<<chosen[s \ {Max(s)}], Max(s)>>]

\* What it then comes to along the numbers, one step at each.
IsPath(after, limit, base, step) ==
    /\ after[0] = base
    /\ \A index \in 1..limit : after[index] = step[<<after[index - 1], index>>]

LEMMA Iterated ==
    ASSUME NEW limit \in Nat, NEW V, NEW base \in V, NEW step \in Steps(V, limit),
           NEW chosen, Follows(chosen, V, limit, base, step)
    PROVE  \E after \in [0..limit -> V] :
              IsPath(after, limit, base, step) /\ after[limit] = chosen[1..limit]
<1> DEFINE after == [index \in 0..limit |-> chosen[1..index]]
<1>1. after[0] = base
  <2>1. 1..0 = {} /\ 0 \in 0..limit OBVIOUS
  <2> QED BY <2>1 DEF Follows
<1>2. ASSUME NEW index \in 1..limit, after[index - 1] \in V
      PROVE  /\ after[index] = step[<<after[index - 1], index>>]
             /\ after[index] \in V
  <2>1. 1..index \in Upto(limit) /\ 1..index # {}
    <3>1. index \in 1..index OBVIOUS
    <3>2. \A x \in 1..index : x \in 1..limit OBVIOUS
    <3> QED BY <3>1, <3>2 DEF Upto
  <2>2. Max(1..index) = index
    <3>1. index \in Nat /\ 1..index \in SUBSET (1..index) /\ index \in 1..index OBVIOUS
    <3>2. Max(1..index) \in 1..index /\ Max(1..index) >= index BY <3>1, MaxProperty
    <3> QED BY <3>1, <3>2
  <2>3. (1..index) \ {index} = 1 .. index - 1 OBVIOUS
  <2>4. index - 1 \in 0..limit /\ index \in 0..limit OBVIOUS
  <2>5. after[index - 1] = chosen[1 .. index - 1] /\ after[index] = chosen[1..index] BY <2>4
  <2> HIDE DEF after
  <2>6. after[index] = step[<<after[index - 1], index>>] BY <1>2, <2>1, <2>2, <2>3, <2>5 DEF Follows
  <2> QED BY <1>2, <2>6 DEF Steps
<1>3. after \in [0..limit -> V]
  <2> DEFINE Inside == {index \in 0..limit : after[index] \in V}
  <2>1. 0 \in Inside BY <1>1
  <2>2. ASSUME NEW k \in 0 .. limit - 1, k \in Inside PROVE k + 1 \in Inside
    <3>1. k + 1 \in 1..limit /\ k + 1 \in 0..limit /\ (k + 1) - 1 = k OBVIOUS
    <3> HIDE DEF after
    <3> QED BY <1>2, <2>2, <3>1
  <2>3. Inside \in SUBSET Nat OBVIOUS
  <2>4. \A k \in 0..limit : k \in Inside
    <3> HIDE DEF Inside
    <3> QED BY <2>1, <2>2, <2>3, CountsUp
  <2> QED BY <2>4
<1>4. \A index \in 1..limit : after[index] = step[<<after[index - 1], index>>]
  <2> TAKE index \in 1..limit
  <2>1. index - 1 \in 0..limit OBVIOUS
  <2> HIDE DEF after
  <2> QED BY <1>2, <1>3, <2>1
<1>5. after[limit] = chosen[1..limit] OBVIOUS
<1> HIDE DEF after
<1> QED BY <1>1, <1>3, <1>4, <1>5 DEF IsPath

\* What addReports makes of a history's observations.
Folded(base, reports, time) ==
    FoldLeft(LAMBDA observations, report : ApplyReport(observations, report, time),
             base, reports)

\* The iterations of the loop keep to a set V of lists of observations.
KeepTo(V, reports, limit, time) ==
    \A before \in V : \A index \in 1..limit :
        ApplyReport(before, reports[index], time) \in V

\* What there is after each of them.
IsFold(after, base, reports, limit, time) ==
    /\ after[0] = base
    /\ \A index \in 1..limit :
          after[index] = ApplyReport(after[index - 1], reports[index], time)
    /\ Folded(base, reports, time) = after[limit]

\* One iteration after the other.
LEMMA FoldedReports ==
    ASSUME NEW V, NEW base \in V, NEW reports, NEW limit \in Nat,
           DOMAIN reports = 1..limit, NEW time, KeepTo(V, reports, limit, time)
    PROVE  \E after \in [0..limit -> V] : IsFold(after, base, reports, limit, time)
<1> USE DEF KeepTo
<1> DEFINE Iterates(iter) ==
              iter = [s \in SUBSET DOMAIN reports |->
                        IF s = {} THEN base
                        ELSE ApplyReport(iter[s \ {Max(s)}], reports[Max(s)], time)]
           chosen == CHOOSE iter : Iterates(iter)
<1>0. PICK step \in Steps(V, limit) :
         \A before \in V : \A index \in 1..limit :
            step[<<before, index>>] = ApplyReport(before, reports[index], time)
  <2> DEFINE step == [pair \in V \X (1..limit) |-> ApplyReport(pair[1], reports[pair[2]], time)]
  <2>1. step \in Steps(V, limit) BY DEF Steps
  <2>2. \A before \in V : \A index \in 1..limit :
           step[<<before, index>>] = ApplyReport(before, reports[index], time)
    OBVIOUS
  <2> HIDE DEF step
  <2> QED BY <2>1, <2>2
<1>1. Folded(base, reports, time) = chosen[DOMAIN reports]
  BY DEF Folded, FoldLeft, MapThenFoldSet
<1>2. \E iter : Iterates(iter)
  <2>1. PICK iter \in [Upto(limit) -> V] : IsIteration(iter, limit, base, step)
    BY IterationExists
  <2>2. ASSUME NEW s \in Upto(limit), s # {}
        PROVE  iter[s] = ApplyReport(iter[s \ {Max(s)}], reports[Max(s)], time)
    <3>1. Max(s) \in 1..limit BY <2>2, MaxProperty DEF Upto
    <3>2. iter[s \ {Max(s)}] \in V BY DEF Upto
    <3>3. step[<<iter[s \ {Max(s)}], Max(s)>>]
             = ApplyReport(iter[s \ {Max(s)}], reports[Max(s)], time)
      BY <1>0, <3>1, <3>2
    <3> QED BY <2>1, <2>2, <3>3 DEF IsIteration
  <2>3. Iterates(iter) BY <2>1, <2>2 DEF Upto, IsIteration
  <2> QED BY <2>3
<1>3. Iterates(chosen) BY <1>2
<1> HIDE DEF chosen
<1>4. chosen[{}] = base BY <1>3
<1>5. ASSUME NEW s \in Upto(limit), s # {}, chosen[s \ {Max(s)}] \in V
      PROVE  chosen[s] = step[<<chosen[s \ {Max(s)}], Max(s)>>]
  <2>1. Max(s) \in 1..limit BY <1>5, MaxProperty DEF Upto
  <2>2. chosen[s] = ApplyReport(chosen[s \ {Max(s)}], reports[Max(s)], time)
    BY <1>3, <1>5 DEF Upto
  <2> QED BY <1>0, <1>5, <2>1, <2>2
<1> HIDE DEF Iterates
<1>6. PICK after \in [0..limit -> V] :
         IsPath(after, limit, base, step) /\ after[limit] = chosen[1..limit]
  <2>1. Follows(chosen, V, limit, base, step) BY <1>4, <1>5 DEF Follows
  <2> QED BY <2>1, Iterated
<1>7. \A index \in 1..limit :
         after[index] = ApplyReport(after[index - 1], reports[index], time)
  <2> TAKE index \in 1..limit
  <2>1. index - 1 \in 0..limit OBVIOUS
  <2>2. after[index - 1] \in V BY <2>1
  <2>3. after[index] = step[<<after[index - 1], index>>] BY <1>6 DEF IsPath
  <2> QED BY <1>0, <2>2, <2>3
<1> QED BY <1>1, <1>6, <1>7 DEF IsFold, IsPath

-----------------------------------------------------------------------------
(* Sequences *)

\* A function on a sequence's domain is a sequence of the same length.
LEMMA MappedSequence ==
    ASSUME NEW S, NEW T, NEW s \in Seq(S), NEW f,
           f = [index \in DOMAIN s |-> f[index]],
           \A index \in DOMAIN s : f[index] \in T
    PROVE  f \in Seq(T) /\ Len(f) = Len(s) /\ DOMAIN f = DOMAIN s
<1>1. Len(s) \in Nat /\ DOMAIN s = 1..Len(s) BY LenProperties
<1>2. f \in [1..Len(s) -> T] BY <1>1
<1>3. f \in Seq(T) BY <1>1, <1>2, SeqDef
<1>4. Len(f) \in Nat /\ DOMAIN f = 1..Len(f) BY <1>3, LenProperties
<1> QED BY <1>1, <1>2, <1>3, <1>4

-----------------------------------------------------------------------------
(* One source's history *)

\* The history read from the map is a history, zero when there is no entry.
LEMMA HistoryOfType ==
    ASSUME NEW sources, IsSourcesMap(sources), NEW source \in Sources
    PROVE  HistoryOf(sources, source) \in SourceHistory
<1>1. NewHistory \in SourceHistory
  <2>1. << >> \in Seq(Observation) BY EmptySeq
  <2> QED BY <2>1, RecordAssumption DEF NewHistory, SourceHistory, Moment, ZeroTime
<1> QED BY <1>1 DEF HistoryOf, IsSourcesMap

LEMMA AnsweredProperties ==
    ASSUME NEW history \in SourceHistory, NEW checkedAt \in Time
    PROVE  /\ Answered(history, checkedAt) \in SourceHistory
           /\ Answered(history, checkedAt).observations = history.observations
<1>1. checkedAt \in Moment /\ ZeroTime \in Moment
  BY RecordAssumption DEF Time, Moment, ZeroTime
<1> QED BY <1>1 DEF Answered, SourceHistory

\* Writing a history back keeps the map a map, and changes no other entry.
LEMMA WriteHistoryType ==
    ASSUME NEW sources, IsSourcesMap(sources), NEW source \in Sources,
           NEW history \in SourceHistory
    PROVE  IsSourcesMap(WriteHistory(sources, source, history))
BY DEF IsSourcesMap, WriteHistory

LEMMA ObservationTimes ==
    ASSUME NEW observation \in Observation
    PROVE  observation.firstObserved \in Nat /\ observation.lastObserved \in Nat
BY RecordAssumption DEF Observation, Time

LEMMA GrowsReflexive ==
    ASSUME NEW before \in Seq(Observation)
    PROVE  Grows(before, before)
<1>1. \A index \in DOMAIN before : before[index] \in Observation
  BY LenProperties, ElementOfSeq
<1>2. \A index \in DOMAIN before : before[index].lastObserved \in Int
  BY <1>1, RecordAssumption DEF Observation, Time
<1>3. Len(before) \in Nat BY LenProperties
<1> QED BY <1>2, <1>3 DEF Grows, Continues

LEMMA GrowsTransitive ==
    ASSUME NEW first \in Seq(Observation), NEW second \in Seq(Observation),
           NEW third \in Seq(Observation),
           Grows(first, second), Grows(second, third)
    PROVE  Grows(first, third)
<1>1. /\ Len(first) \in Nat /\ DOMAIN first = 1..Len(first)
      /\ Len(second) \in Nat /\ DOMAIN second = 1..Len(second)
      /\ Len(third) \in Nat /\ DOMAIN third = 1..Len(third)
  BY LenProperties
<1>2. Len(first) <= Len(third) BY <1>1 DEF Grows
<1>3. ASSUME NEW index \in DOMAIN first
      PROVE  Continues(first[index], third[index])
  <2>1. index \in DOMAIN second /\ index \in DOMAIN third BY <1>1 DEF Grows
  <2>2. first[index] \in Observation /\ second[index] \in Observation
        /\ third[index] \in Observation
    BY <2>1, <1>1, ElementOfSeq
  <2>3. Continues(first[index], second[index]) /\ Continues(second[index], third[index])
    BY <2>1 DEF Grows
  <2>4. /\ first[index].lastObserved \in Int /\ second[index].lastObserved \in Int
        /\ third[index].lastObserved \in Int
    BY <2>2, ObservationTimes
  <2> QED BY <2>3, <2>4 DEF Continues
<1> QED BY <1>2, <1>3 DEF Grows

\* An observation that is extended is the same observation, ending no earlier.
LEMMA ExtendedProperties ==
    ASSUME NEW observation \in Observation, NEW checkedAt \in Time
    PROVE  /\ Extended(observation, checkedAt) \in Observation
           /\ Continues(observation, Extended(observation, checkedAt))
<1>1. observation.lastObserved \in Int /\ checkedAt \in Int
  BY RecordAssumption DEF Observation, Time
<1> QED BY <1>1 DEF Extended, Continues, Observation

LEMMA NewObservationType ==
    ASSUME NEW report \in Report, NEW checkedAt \in Time
    PROVE  NewObservation(report, checkedAt) \in Observation
BY DEF NewObservation, Report, Observation

\* One iteration of the loop of addReports extends an observation or adds one.
LEMMA ApplyReportProperties ==
    ASSUME NEW observations \in Seq(Observation), NEW report \in Report,
           NEW checkedAt \in Time
    PROVE  /\ ApplyReport(observations, report, checkedAt) \in Seq(Observation)
           /\ Grows(observations, ApplyReport(observations, report, checkedAt))
<1> DEFINE unchanged == {index \in LatestObservationIndex(observations, report.key) :
                            HasSameContent(observations[index], report)}
           result == ApplyReport(observations, report, checkedAt)
<1>1. /\ Len(observations) \in Nat /\ DOMAIN observations = 1..Len(observations)
      /\ \A index \in DOMAIN observations : observations[index] \in Observation
  BY LenProperties, ElementOfSeq
<1>2. CASE unchanged # {}
  <2> DEFINE extended == [index \in DOMAIN observations |->
                            IF index \in unchanged
                            THEN Extended(observations[index], checkedAt)
                            ELSE observations[index]]
  <2>1. result = extended BY <1>2 DEF ApplyReport
  <2> HIDE DEF unchanged
  <2>2. \A index \in DOMAIN observations :
          /\ extended[index] \in Observation
          /\ Continues(observations[index], extended[index])
    <3> TAKE index \in DOMAIN observations
    <3>1. observations[index] \in Observation BY <1>1
    <3>2. Continues(observations[index], observations[index])
      BY <3>1, RecordAssumption DEF Continues, Observation, Time
    <3> QED BY <3>1, <3>2, ExtendedProperties
  <2>3. extended \in Seq(Observation) /\ Len(extended) = Len(observations)
    <3>1. extended = [index \in DOMAIN observations |-> extended[index]] OBVIOUS
    <3> HIDE DEF extended
    <3> QED BY <3>1, <2>2, MappedSequence
  <2> HIDE DEF extended
  <2> QED BY <2>1, <2>2, <2>3, <1>1 DEF Grows
<1>3. CASE unchanged = {}
  <2>1. result = Append(observations, NewObservation(report, checkedAt))
    BY <1>3 DEF ApplyReport
  <2>2. NewObservation(report, checkedAt) \in Observation BY NewObservationType
  <2>3. /\ result \in Seq(Observation) /\ Len(result) = Len(observations) + 1
        /\ \A index \in DOMAIN observations : result[index] = observations[index]
    BY <2>1, <2>2, <1>1, AppendProperties
  <2>4. Grows(observations, observations) BY GrowsReflexive
  <2>5. Grows(observations, result)
    <3> HIDE DEF result
    <3> QED BY <2>3, <2>4, <1>1 DEF Grows
  <2> QED BY <2>3, <2>5
<1> QED BY <1>2, <1>3

-----------------------------------------------------------------------------
(* The whole record *)

LEMMA FlaggedType ==
    ASSUME NEW sources, IsSourcesMap(sources)
    PROVE  FlaggedObservations(sources) \subseteq Observation
<1> SUFFICES ASSUME NEW observation \in FlaggedObservations(sources)
             PROVE  observation \in Observation
  OBVIOUS
<1>1. PICK name \in DOMAIN sources : observation \in Range(sources[name].observations)
  BY DEF FlaggedObservations
<1>2. sources[name].observations \in Seq(Observation)
  BY DEF IsSourcesMap, SourceHistory
<1>3. PICK index \in DOMAIN sources[name].observations :
          observation = sources[name].observations[index]
  BY <1>1 DEF Range
<1> QED BY <1>2, <1>3, LenProperties, ElementOfSeq

\* Summarise changes only the summary, and makes it say what the history says.
LEMMA SummariseProperties ==
    ASSUME NEW record, IsRecord(record)
    PROVE  /\ IsRecord(Summarise(record))
           /\ Summarise(record).sources = record.sources
           /\ SummaryMatches(Summarise(record))
<1> DEFINE flagged == FlaggedObservations(record.sources)
           firsts == {observation.firstObserved : observation \in flagged}
           lasts == {observation.lastObserved : observation \in flagged}
           first == IF flagged = {} THEN ZeroTime ELSE Earliest(firsts)
           last == IF flagged = {} THEN ZeroTime ELSE Latest(lasts)
           flags == UNION {observation.flags : observation \in flagged}
<1>1. flagged \subseteq Observation BY FlaggedType DEF IsRecord
<1> HIDE DEF flagged
<1>2. firsts \subseteq Moment /\ lasts \subseteq Moment /\ flags \subseteq Families
  BY <1>1, RecordAssumption DEF Observation, Time, Moment
<1>3. /\ first \in Moment /\ last \in Moment
      /\ \A observation \in flagged : first <= observation.firstObserved
      /\ \A observation \in flagged : observation.lastObserved <= last
      /\ flagged # {} =>
            /\ \E observation \in flagged : observation.firstObserved = first
            /\ \E observation \in flagged : observation.lastObserved = last
  <2>1. CASE flagged = {}
    BY <2>1, RecordAssumption DEF Moment, ZeroTime
  <2>2. CASE flagged # {}
    <3>1. firsts # {} /\ lasts # {} BY <2>2
    <3>2. firsts \in SUBSET Nat BY <1>2, RecordAssumption DEF Moment
    <3>3. Earliest(firsts) \in firsts /\ \A moment \in firsts : Earliest(firsts) <= moment
      <4> HIDE DEF firsts
      <4> QED BY <3>1, <3>2, EarliestProperty
    <3>4. Latest(lasts) \in lasts /\ \A moment \in lasts : moment <= Latest(lasts)
      <4> HIDE DEF lasts
      <4> QED BY <3>1, <1>2, LatestProperty
    <3>5. first = Earliest(firsts) /\ last = Latest(lasts) BY <2>2
    <3> HIDE DEF first, last
    <3>6. first \in firsts /\ last \in lasts BY <3>3, <3>4, <3>5
    <3>7. \A observation \in flagged :
              observation.firstObserved \in firsts /\ observation.lastObserved \in lasts
      OBVIOUS
    <3>8. /\ \E observation \in flagged : observation.firstObserved = first
          /\ \E observation \in flagged : observation.lastObserved = last
      BY <3>6
    <3> HIDE DEF firsts, lasts
    <3> QED BY <3>3, <3>4, <3>5, <3>6, <3>7, <3>8, <1>2
  <2> QED BY <2>1, <2>2
<1>4. Summarise(record) =
          [record EXCEPT !.flags = flags, !.firstSeen = first, !.lastSeen = last]
  BY DEF Summarise, flagged
<1> HIDE DEF first, last, flags
<1>5. /\ Summarise(record) \in [firstSeen : Moment, lastSeen : Moment,
                                flags : SUBSET Families, sources : {record.sources}]
      /\ Summarise(record).sources = record.sources
      /\ Summarise(record).flags = flags
      /\ Summarise(record).firstSeen = first
      /\ Summarise(record).lastSeen = last
  BY <1>2, <1>3, <1>4 DEF IsRecord
<1>6. IsRecord(Summarise(record)) BY <1>5 DEF IsRecord
<1>7. FlaggedObservations(Summarise(record).sources) = flagged BY <1>5 DEF flagged
<1>8. flagged = {} => first = ZeroTime /\ last = ZeroTime BY DEF first, last
<1>9. SummaryMatches(Summarise(record))
  BY <1>3, <1>5, <1>7, <1>8 DEF SummaryMatches, flags
<1> QED BY <1>5, <1>6, <1>9

LEMMA SourcesGrowReflexive ==
    ASSUME NEW sources, IsSourcesMap(sources)
    PROVE  SourcesGrow(sources, sources)
<1>1. \A name \in DOMAIN sources : sources[name].observations \in Seq(Observation)
  BY DEF IsSourcesMap, SourceHistory
<1> QED BY <1>1, GrowsReflexive DEF SourcesGrow

LEMMA SourcesGrowTransitive ==
    ASSUME NEW first, IsSourcesMap(first), NEW second, IsSourcesMap(second),
           NEW third, IsSourcesMap(third),
           SourcesGrow(first, second), SourcesGrow(second, third)
    PROVE  SourcesGrow(first, third)
<1> SUFFICES ASSUME NEW name \in DOMAIN first
             PROVE  name \in DOMAIN third
                    /\ Grows(first[name].observations, third[name].observations)
  BY DEF SourcesGrow
<1>1. name \in DOMAIN second /\ name \in DOMAIN third BY DEF SourcesGrow
<1>2. /\ first[name].observations \in Seq(Observation)
      /\ second[name].observations \in Seq(Observation)
      /\ third[name].observations \in Seq(Observation)
  BY <1>1 DEF IsSourcesMap, SourceHistory
<1>3. /\ Grows(first[name].observations, second[name].observations)
      /\ Grows(second[name].observations, third[name].observations)
  BY <1>1 DEF SourcesGrow
<1> QED BY <1>1, <1>2, <1>3, GrowsTransitive

\* A history that grew from the one in the map can be written back.
LEMMA WriteHistoryGrows ==
    ASSUME NEW sources, IsSourcesMap(sources), NEW source \in Sources,
           NEW history \in SourceHistory,
           Grows(HistoryOf(sources, source).observations, history.observations)
    PROVE  SourcesGrow(sources, WriteHistory(sources, source, history))
<1>1. \A name \in DOMAIN sources : Grows(sources[name].observations, sources[name].observations)
  BY GrowsReflexive DEF IsSourcesMap, SourceHistory
<1> QED BY <1>1 DEF SourcesGrow, WriteHistory, HistoryOf

\* The end of addReports keeps the other sources and brings the summary up to date.
LEMMA StoreHistoryProperties ==
    ASSUME NEW record, IsRecord(record), NEW source \in Sources,
           NEW history \in SourceHistory,
           Grows(HistoryOf(record.sources, source).observations, history.observations)
    PROVE  /\ IsRecord(StoreHistory(record, source, history))
           /\ SourcesGrow(record.sources, StoreHistory(record, source, history).sources)
           /\ SummaryMatches(StoreHistory(record, source, history))
<1> DEFINE written == WriteHistory(record.sources, source, history)
           updated == [record EXCEPT !.sources = written]
<1>1. IsSourcesMap(record.sources) BY DEF IsRecord
<1>2. IsSourcesMap(written) BY <1>1, WriteHistoryType
<1>3. SourcesGrow(record.sources, written) BY <1>1, WriteHistoryGrows
<1> HIDE DEF written
<1>4. IsRecord(updated) /\ updated.sources = written BY <1>2 DEF IsRecord
<1>5. StoreHistory(record, source, history) = Summarise(updated) BY DEF StoreHistory, written
<1> HIDE DEF updated
<1> QED BY <1>3, <1>4, <1>5, SummariseProperties

\* The summary looks at nothing but the observations.
LEMMA SameObservationsSameFlagged ==
    ASSUME NEW before, NEW after, DOMAIN before \subseteq DOMAIN after,
           \A name \in DOMAIN before : after[name].observations = before[name].observations,
           \A name \in DOMAIN after \ DOMAIN before : after[name].observations = << >>
    PROVE  FlaggedObservations(after) = FlaggedObservations(before)
<1>1. DOMAIN << >> = {} OBVIOUS
<1> QED BY <1>1 DEF FlaggedObservations, Range

\* A recorded failure leaves every observation, and the summary, as they were.
LEMMA FailureRecordedProperties ==
    ASSUME NEW record, IsRecord(record), NEW source \in Sources, NEW occurredAt \in Time
    PROVE  /\ IsRecord(FailureRecorded(record, source, occurredAt))
           /\ SourcesGrow(record.sources,
                          FailureRecorded(record, source, occurredAt).sources)
           /\ SummaryMatches(record) =>
                 SummaryMatches(FailureRecorded(record, source, occurredAt))
<1> DEFINE history == HistoryOf(record.sources, source)
           failed == [history EXCEPT !.lastError = occurredAt]
           written == WriteHistory(record.sources, source, failed)
<1>1. IsSourcesMap(record.sources) BY DEF IsRecord
<1>2. history \in SourceHistory BY <1>1, HistoryOfType
<1>3. failed \in SourceHistory /\ failed.observations = history.observations
  <2> HIDE DEF history
  <2> QED BY <1>2, RecordAssumption DEF SourceHistory, Time, Moment
<1>4. Grows(history.observations, failed.observations)
  <2>1. history.observations \in Seq(Observation) BY <1>2 DEF SourceHistory
  <2> QED BY <2>1, <1>3, GrowsReflexive
<1> HIDE DEF failed
<1>5. IsSourcesMap(written) BY <1>1, <1>3, WriteHistoryType
<1>6. SourcesGrow(record.sources, written) BY <1>1, <1>3, <1>4, WriteHistoryGrows
<1>7. FlaggedObservations(written) = FlaggedObservations(record.sources)
  <2>1. DOMAIN record.sources \subseteq DOMAIN written BY DEF WriteHistory
  <2>2. \A name \in DOMAIN record.sources :
            written[name].observations = record.sources[name].observations
    BY <1>3 DEF WriteHistory, HistoryOf
  <2>3. \A name \in DOMAIN written \ DOMAIN record.sources :
            written[name].observations = << >>
    BY <1>3 DEF WriteHistory, HistoryOf, NewHistory
  <2> HIDE DEF written
  <2> QED BY <2>1, <2>2, <2>3, SameObservationsSameFlagged
<1>8. FailureRecorded(record, source, occurredAt) = [record EXCEPT !.sources = written]
  BY DEF FailureRecorded, failed
<1> HIDE DEF written
<1>9. /\ IsRecord(FailureRecorded(record, source, occurredAt))
      /\ FailureRecorded(record, source, occurredAt).sources = written
      /\ FailureRecorded(record, source, occurredAt).flags = record.flags
      /\ FailureRecorded(record, source, occurredAt).firstSeen = record.firstSeen
      /\ FailureRecorded(record, source, occurredAt).lastSeen = record.lastSeen
  BY <1>5, <1>8 DEF IsRecord
<1> QED BY <1>6, <1>7, <1>9 DEF SummaryMatches

-----------------------------------------------------------------------------
(* Files *)

\* An encoded key is valid, stays itself when it is encoded again, and is the key it
\* was unless that one was not valid.
LEMMA ValidTextProperties ==
    ASSUME NEW text
    PROVE  /\ ValidText(text) \notin InvalidTexts
           /\ ValidText(ValidText(text)) = ValidText(text)
           /\ text \notin InvalidTexts => ValidText(text) = text
           /\ text \in InvalidTexts => ValidText(text) \in Range(Replacement)
           /\ text \in Keys => ValidText(text) \in Keys
<1>1. CASE text \in InvalidTexts
  <2>1. text \in DOMAIN Replacement /\ Replacement[text] \notin InvalidTexts
    BY <1>1, RecordAssumption
  <2>2. Replacement[text] \in Range(Replacement) BY <2>1 DEF Range
  <2>3. text \in Keys => Replacement[text] \in Keys BY <1>1, RecordAssumption
  <2> QED BY <1>1, <2>1, <2>2, <2>3 DEF ValidText
<1>2. CASE text \notin InvalidTexts BY <1>2 DEF ValidText
<1> QED BY <1>1, <1>2

LEMMA LaidOutProperties ==
    ASSUME NEW observation \in Observation
    PROVE  /\ LaidOut(observation) \in Observation
           /\ Continues(observation, LaidOut(observation))
           /\ LaidOut(observation).lastObserved = observation.lastObserved
           /\ LaidOut(observation).key = ValidText(observation.key)
<1>1. observation.data \in Data /\ observation.key \in Keys BY DEF Observation
<1>2. /\ [observation.data EXCEPT !.layout = "indented"] \in Data
      /\ [observation.data EXCEPT !.layout = "indented"].value = observation.data.value
  BY <1>1 DEF Data
<1> DEFINE data == [observation.data EXCEPT !.layout = "indented"]
           key == ValidText(observation.key)
<1>3. LaidOut(observation) = [observation EXCEPT !.key = key, !.data = data] BY DEF LaidOut
<1>4. /\ data \in Data /\ data.value = observation.data.value
      /\ key \in Keys /\ ValidText(key) = key
  BY <1>1, <1>2, ValidTextProperties
<1> HIDE DEF data, key
<1>5. LaidOut(observation) \in Observation BY <1>3, <1>4 DEF Observation
<1>6. /\ LaidOut(observation).key = key
      /\ LaidOut(observation).flags = observation.flags
      /\ LaidOut(observation).firstObserved = observation.firstObserved
      /\ LaidOut(observation).lastObserved = observation.lastObserved
      /\ LaidOut(observation).data = data
  BY <1>3, <1>4 DEF Observation
<1>7. LaidOut(observation).lastObserved >= observation.lastObserved
  BY <1>6, ObservationTimes
<1> QED BY <1>4, <1>5, <1>6, <1>7 DEF Continues, key

LEMMA EncodedHistoryProperties ==
    ASSUME NEW history \in SourceHistory
    PROVE  /\ EncodedHistory(history) \in SourceHistory
           /\ Grows(history.observations, EncodedHistory(history).observations)
           /\ EncodedHistory(history).observations =
                [index \in DOMAIN history.observations |->
                    LaidOut(history.observations[index])]
           /\ EncodedHistory(history).lastChecked = history.lastChecked
           /\ EncodedHistory(history).lastError = history.lastError
<1> DEFINE observations == history.observations
           laid == [index \in DOMAIN observations |-> LaidOut(observations[index])]
<1>1. /\ observations \in Seq(Observation)
      /\ Len(observations) \in Nat
      /\ \A index \in DOMAIN observations : observations[index] \in Observation
  BY LenProperties, ElementOfSeq DEF SourceHistory
<1>2. \A index \in DOMAIN observations :
          laid[index] \in Observation /\ Continues(observations[index], laid[index])
  BY <1>1, LaidOutProperties
<1>3. laid = [index \in DOMAIN observations |-> laid[index]] OBVIOUS
<1>4. EncodedHistory(history) = [history EXCEPT !.observations = laid]
  BY DEF EncodedHistory
<1>5. laid \in Seq(Observation) /\ Len(laid) = Len(observations)
  <2> HIDE DEF laid, observations
  <2> QED BY <1>1, <1>2, <1>3, MappedSequence
<1>6. Grows(observations, laid)
  <2> HIDE DEF laid, observations
  <2> QED BY <1>1, <1>2, <1>5 DEF Grows
<1>7. /\ EncodedHistory(history) \in SourceHistory
      /\ EncodedHistory(history).observations = laid
      /\ EncodedHistory(history).lastChecked = history.lastChecked
      /\ EncodedHistory(history).lastError = history.lastError
  <2> HIDE DEF laid
  <2> QED BY <1>4, <1>5 DEF SourceHistory
<1> QED BY <1>6, <1>7

\* Encoding a record and decoding the file again loses nothing: the same
\* observations come back, laid out afresh, under the same summary.
LEMMA EncodeProperties ==
    ASSUME NEW record, IsRecord(record)
    PROVE  /\ IsFile(Encode(record))
           /\ Encode(record).version = 2
           /\ Decode(Encode(record)) = Encode(record).record
           /\ IsRecord(Encode(record).record)
           /\ SourcesGrow(record.sources, Encode(record).record.sources)
           /\ SummaryMatches(record) => SummaryMatches(Encode(record).record)
<1> DEFINE sources == record.sources
           encoded == [name \in DOMAIN sources |-> EncodedHistory(sources[name])]
           stored == [record EXCEPT !.sources = encoded]
<1>1. IsSourcesMap(sources) BY DEF IsRecord
<1>2. \A name \in DOMAIN sources : sources[name] \in SourceHistory
  BY <1>1 DEF IsSourcesMap
<1>3. IsSourcesMap(encoded)
  BY <1>1, <1>2, EncodedHistoryProperties DEF IsSourcesMap
<1>4. SourcesGrow(sources, encoded)
  BY <1>2, EncodedHistoryProperties DEF SourcesGrow
<1>5. FlaggedObservations(encoded) =
          {LaidOut(observation) : observation \in FlaggedObservations(sources)}
  <2>1. ASSUME NEW name \in DOMAIN sources
        PROVE  /\ sources[name].observations \in Seq(Observation)
               /\ encoded[name].observations =
                    [index \in DOMAIN sources[name].observations |->
                        LaidOut(sources[name].observations[index])]
    <3>1. sources[name] \in SourceHistory BY <1>2
    <3>2. encoded[name] = EncodedHistory(sources[name]) OBVIOUS
    <3> QED BY <3>1, <3>2, EncodedHistoryProperties DEF SourceHistory
  <2>2. \A name \in DOMAIN sources : \A index \in DOMAIN sources[name].observations :
            LaidOut(sources[name].observations[index]).flags
                = sources[name].observations[index].flags
    BY <2>1, LenProperties, ElementOfSeq, LaidOutProperties DEF Continues
  <2>3. DOMAIN encoded = DOMAIN sources OBVIOUS
  <2> HIDE DEF encoded, sources
  <2>4. ASSUME NEW observation \in FlaggedObservations(encoded)
        PROVE  observation \in
                   {LaidOut(flagged) : flagged \in FlaggedObservations(sources)}
    <3>1. PICK name \in DOMAIN sources :
              observation \in Range(encoded[name].observations)
      BY <2>3 DEF FlaggedObservations
    <3>2. PICK index \in DOMAIN sources[name].observations :
              observation = LaidOut(sources[name].observations[index])
      BY <3>1, <2>1 DEF Range
    <3>3. sources[name].observations[index].flags # {}
      BY <3>2, <2>2 DEF FlaggedObservations
    <3>4. sources[name].observations[index] \in FlaggedObservations(sources)
      BY <3>3 DEF FlaggedObservations, Range
    <3> QED BY <3>2, <3>4
  <2>5. ASSUME NEW flagged \in FlaggedObservations(sources)
        PROVE  LaidOut(flagged) \in FlaggedObservations(encoded)
    <3>1. PICK name \in DOMAIN sources :
              flagged \in Range(sources[name].observations)
      BY DEF FlaggedObservations
    <3>2. PICK index \in DOMAIN sources[name].observations :
              flagged = sources[name].observations[index]
      BY <3>1 DEF Range
    <3>3. LaidOut(flagged).flags # {} BY <3>2, <2>2 DEF FlaggedObservations
    <3>4. LaidOut(flagged) \in Range(encoded[name].observations)
      <4>1. /\ index \in DOMAIN encoded[name].observations
            /\ encoded[name].observations[index] = LaidOut(flagged)
        BY <3>2, <2>1
      <4> QED BY <4>1 DEF Range
    <3> QED BY <3>3, <3>4, <2>3 DEF FlaggedObservations
  <2> QED BY <2>4, <2>5
<1>6. Encode(record) = RecordFile(stored) BY DEF Encode
<1> HIDE DEF encoded
<1>7. /\ IsRecord(stored) /\ stored.sources = encoded
      /\ stored.flags = record.flags /\ stored.firstSeen = record.firstSeen
      /\ stored.lastSeen = record.lastSeen
  BY <1>3 DEF IsRecord
<1>8. HasValidKeys(stored)
  <2> SUFFICES ASSUME NEW name \in DOMAIN sources,
                      NEW observation \in Range(EncodedHistory(sources[name]).observations)
               PROVE  observation.key \notin InvalidTexts
    BY <1>7 DEF HasValidKeys, encoded
  <2>1. sources[name] \in SourceHistory BY <1>2
  <2>2. EncodedHistory(sources[name]).observations
           = [index \in DOMAIN sources[name].observations |->
                LaidOut(sources[name].observations[index])]
    BY <2>1, EncodedHistoryProperties
  <2>3. PICK index \in DOMAIN sources[name].observations :
           observation = LaidOut(sources[name].observations[index])
    BY <2>2 DEF Range
  <2>4. sources[name].observations[index] \in Observation
    BY <2>1, <2>3, LenProperties, ElementOfSeq DEF SourceHistory
  <2> QED BY <2>3, <2>4, LaidOutProperties, ValidTextProperties
<1>9. SummaryMatches(record) => SummaryMatches(stored)
  <2>1. \A observation \in FlaggedObservations(sources) :
            /\ LaidOut(observation).flags = observation.flags
            /\ LaidOut(observation).firstObserved = observation.firstObserved
            /\ LaidOut(observation).lastObserved = observation.lastObserved
    BY <1>1, FlaggedType, LaidOutProperties DEF Continues
  <2> HIDE DEF stored
  <2> QED BY <2>1, <1>5, <1>7 DEF SummaryMatches
<1> HIDE DEF stored
<1>10. Encode(record).version = 2 /\ Encode(record).record = stored
  BY <1>6 DEF RecordFile
<1>11. IsFile(Encode(record)) BY <1>6, <1>7, <1>8, <1>10 DEF IsFile
<1>12. Decode(Encode(record)) = stored BY <1>10 DEF Decode
<1> QED BY <1>4, <1>7, <1>9, <1>10, <1>11, <1>12

\* A migrated result is an observation.
LEMMA MigratedHistoryType ==
    ASSUME NEW results \in Seq(LegacyResult), results # << >>
    PROVE  MigratedHistory(results) \in SourceHistory
<1> DEFINE observations == [index \in DOMAIN results |-> MigratedResult(results[index])]
           moments == {results[index].datetime : index \in DOMAIN results}
<1>1. /\ Len(results) \in Nat \ {0} /\ DOMAIN results = 1..Len(results)
      /\ \A index \in DOMAIN results : results[index] \in LegacyResult
  BY LenProperties, ElementOfSeq, EmptySeq
<1>2. ASSUME NEW result \in LegacyResult
      PROVE  MigratedResult(result) \in Observation
  <2>1. NormaliseFlags(result.flags) \subseteq Families
    BY RecordAssumption DEF NormaliseFlags, LegacyResult
  <2> QED BY <2>1, RecordAssumption DEF MigratedResult, LegacyResult, Observation, Data
<1>3. observations \in Seq(Observation)
  <2>1. \A index \in DOMAIN results : observations[index] \in Observation
    BY <1>1, <1>2
  <2>2. observations = [index \in DOMAIN results |-> observations[index]] OBVIOUS
  <2> HIDE DEF observations
  <2> QED BY <2>1, <2>2, MappedSequence
<1>4. moments # {} /\ moments \subseteq Moment
  BY <1>1, RecordAssumption DEF LegacyResult, Time, Moment
<1>5. Latest(moments) \in Moment
  <2> HIDE DEF moments
  <2> QED BY <1>4, LatestProperty
<1>6. MigratedHistory(results) =
        [lastChecked |-> Latest(moments), lastError |-> ZeroTime,
         observations |-> observations]
  BY DEF MigratedHistory
<1> HIDE DEF moments, observations
<1> QED BY <1>3, <1>5, <1>6, RecordAssumption DEF SourceHistory, Moment, ZeroTime

LEMMA MigrateProperties ==
    ASSUME NEW payload, IsLegacyPayload(payload)
    PROVE  /\ IsRecord(MigrateLegacyPayload(payload))
           /\ HasValidKeys(MigrateLegacyPayload(payload))
           /\ SummaryMatches(MigrateLegacyPayload(payload))
<1> DEFINE sources == [name \in DOMAIN payload |-> MigratedHistory(payload[name])]
           record == [EmptyRecord EXCEPT !.sources = sources]
<1>1. IsSourcesMap(sources)
  BY MigratedHistoryType DEF IsSourcesMap, IsLegacyPayload
<1>2. MigrateLegacyPayload(payload) = Summarise(record) BY DEF MigrateLegacyPayload
<1>3. ASSUME NEW name \in DOMAIN sources, NEW observation \in Range(sources[name].observations)
      PROVE  observation.key \notin InvalidTexts
  <2>1. sources[name].observations
           = [index \in DOMAIN payload[name] |-> MigratedResult(payload[name][index])]
    BY <1>3 DEF MigratedHistory
  <2>2. observation.key = NoKey BY <1>3, <2>1 DEF Range, MigratedResult
  <2> QED BY <2>2, RecordAssumption
<1> HIDE DEF sources
<1>4. IsRecord(record) /\ record.sources = sources
  <2>1. ZeroTime \in Moment BY RecordAssumption DEF Moment, ZeroTime
  <2> QED BY <1>1, <2>1 DEF EmptyRecord, IsRecord
<1> HIDE DEF record
<1>5. Summarise(record).sources = sources BY <1>4, SummariseProperties
<1> QED BY <1>2, <1>3, <1>4, <1>5, SummariseProperties DEF HasValidKeys

LEMMA EmptyRecordProperties == IsRecord(EmptyRecord) /\ SummaryMatches(EmptyRecord)
<1>1. EmptyRecord.sources = [name \in {} |-> NewHistory] BY DEF EmptyRecord
<1>2. IsSourcesMap(EmptyRecord.sources) BY <1>1 DEF IsSourcesMap
<1>3. FlaggedObservations(EmptyRecord.sources) = {} BY <1>1 DEF FlaggedObservations
<1>4. IsRecord(EmptyRecord)
  BY <1>2, RecordAssumption DEF IsRecord, EmptyRecord, Moment, ZeroTime
<1> QED BY <1>3, <1>4 DEF SummaryMatches, EmptyRecord

\* Whatever the format of the file, reading it gives a record.
LEMMA DecodeProperties ==
    ASSUME NEW file, IsFile(file)
    PROVE  /\ IsRecord(Decode(file)) /\ HasValidKeys(Decode(file))
           /\ (file.version = 2 => SummaryMatches(file.record)) =>
                 SummaryMatches(Decode(file))
<1>1. CASE file = NoFile
  <2>1. Decode(file) = EmptyRecord BY <1>1 DEF Decode, NoFile
  <2>2. HasValidKeys(EmptyRecord) BY DEF HasValidKeys, EmptyRecord
  <2> QED BY <2>1, <2>2, EmptyRecordProperties
<1>2. CASE file.version = 1 /\ file = LegacyFile(file.payload) /\ IsLegacyPayload(file.payload)
  <2>1. Decode(file) = MigrateLegacyPayload(file.payload) BY <1>2 DEF Decode
  <2> QED BY <1>2, <2>1, MigrateProperties
<1>3. CASE /\ file.version = 2 /\ file = RecordFile(file.record)
           /\ IsRecord(file.record) /\ HasValidKeys(file.record)
  <2>1. Decode(file) = file.record BY <1>3 DEF Decode
  <2> QED BY <1>3, <2>1
<1> QED BY <1>1, <1>2, <1>3 DEF IsFile

-----------------------------------------------------------------------------
(* What one source's observations say of each other *)

\* Two observations of one thing with none between them differ in what they say.
\* The keys that stand for invalid ones are excepted.
NoRepetition(observations) ==
    \A first, second \in DOMAIN observations :
        (/\ first < second
         /\ observations[first].key = observations[second].key
         /\ observations[first].key \notin Range(Replacement)
         /\ \A between \in first + 1 .. second - 1 :
               observations[between].key # observations[first].key)
        => ~HasSameContent(observations[first], observations[second])

\* An observation of a thing, as it is stored, ends before or when the next one
\* begins.
InOrder(observations) ==
    \A first, second \in DOMAIN observations :
        (first < second /\ ValidText(observations[first].key) = ValidText(observations[second].key))
        => observations[first].lastObserved <= observations[second].firstObserved

\* Stored observations have valid keys: one that has not is of the update in
\* progress, and so are all after it.
AddedSinceInvalid(observations, moment) ==
    \A first, second \in DOMAIN observations :
        first <= second /\ observations[first].key \in InvalidTexts
        => observations[second].firstObserved = moment

EndedBy(observations, moment) ==
    \A index \in DOMAIN observations : observations[index].lastObserved <= moment

\* As it does once it is encoded.
SaysTheSame(before, after) ==
    /\ DOMAIN after = DOMAIN before
    /\ \A index \in DOMAIN before :
          /\ after[index].key = ValidText(before[index].key)
          /\ after[index].flags = before[index].flags
          /\ after[index].data.value = before[index].data.value
          /\ after[index].firstObserved = before[index].firstObserved
          /\ after[index].lastObserved = before[index].lastObserved

\* All three are about what observations say, not about how it is laid out.
LEMMA SayingTheSame ==
    ASSUME NEW before \in Seq(Observation), NEW after, SaysTheSame(before, after)
    PROVE  /\ NoRepetition(before) => NoRepetition(after)
           /\ InOrder(before) => InOrder(after)
           /\ \A moment : EndedBy(before, moment) => EndedBy(after, moment)
<1>1. Len(before) \in Nat /\ DOMAIN before = 1..Len(before) BY LenProperties
<1>2. ASSUME NEW key, key \notin InvalidTexts, key \notin Range(Replacement),
             NEW index \in DOMAIN before
      PROVE  after[index].key = key <=> before[index].key = key
  <2>1. after[index].key = ValidText(before[index].key) BY DEF SaysTheSame
  <2> QED BY <1>2, <2>1, ValidTextProperties
<1>3. ASSUME NoRepetition(before), NEW first \in DOMAIN after, NEW second \in DOMAIN after,
             first < second, after[first].key = after[second].key,
             after[first].key \notin Range(Replacement),
             \A between \in first + 1 .. second - 1 : after[between].key # after[first].key
      PROVE  ~HasSameContent(after[first], after[second])
  <2> DEFINE key == after[first].key
  <2>1. first \in DOMAIN before /\ second \in DOMAIN before BY DEF SaysTheSame
  <2>2. first + 1 .. second - 1 \subseteq DOMAIN before BY <1>1, <2>1
  <2>3. key \notin InvalidTexts BY <2>1, ValidTextProperties DEF SaysTheSame
  <2>4. before[first].key = key /\ before[second].key = key
    BY <1>2, <1>3, <2>1, <2>3
  <2>5. \A between \in first + 1 .. second - 1 : before[between].key # key
    BY <1>2, <1>3, <2>2, <2>3
  <2>6. ~HasSameContent(before[first], before[second])
    BY <1>3, <2>1, <2>4, <2>5 DEF NoRepetition
  <2> QED BY <2>1, <2>6 DEF SaysTheSame, HasSameContent
<1>4. NoRepetition(before) => NoRepetition(after) BY <1>3 DEF NoRepetition
<1>5. InOrder(before) => InOrder(after)
  <2>1. \A index \in DOMAIN before : ValidText(after[index].key) = ValidText(before[index].key)
    BY ValidTextProperties DEF SaysTheSame
  <2> QED BY <2>1 DEF InOrder, SaysTheSame
<1>6. \A moment : EndedBy(before, moment) => EndedBy(after, moment)
  BY DEF EndedBy, SaysTheSame
<1> QED BY <1>4, <1>5, <1>6

LEMMA EncodedSaysTheSame ==
    ASSUME NEW history \in SourceHistory
    PROVE  SaysTheSame(history.observations, EncodedHistory(history).observations)
<1>1. \A index \in DOMAIN history.observations : history.observations[index] \in Observation
  BY LenProperties, ElementOfSeq DEF SourceHistory
<1>2. \A index \in DOMAIN history.observations :
         /\ Continues(history.observations[index], LaidOut(history.observations[index]))
         /\ LaidOut(history.observations[index]).lastObserved
               = history.observations[index].lastObserved
         /\ LaidOut(history.observations[index]).key
               = ValidText(history.observations[index].key)
  BY <1>1, LaidOutProperties
<1>3. EncodedHistory(history).observations =
        [index \in DOMAIN history.observations |-> LaidOut(history.observations[index])]
  BY EncodedHistoryProperties
<1> QED BY <1>2, <1>3 DEF SaysTheSame, Continues

LEMMA EmptyObservations ==
    /\ NoRepetition(<< >>) /\ InOrder(<< >>)
    /\ \A moment : EndedBy(<< >>, moment) /\ AddedSinceInvalid(<< >>, moment)
<1>1. DOMAIN << >> = {} OBVIOUS
<1> QED BY <1>1 DEF NoRepetition, InOrder, EndedBy, AddedSinceInvalid

\* The two ways in which an iteration of the loop of addReports can end: only
\* latest observations are extended, or one that says something new is added.
LEMMA ApplyReportCases ==
    ASSUME NEW observations \in Seq(Observation), NEW report \in Report,
           NEW checkedAt \in Time, NEW result,
           result = ApplyReport(observations, report, checkedAt)
    PROVE  \/ /\ DOMAIN result = DOMAIN observations
              /\ \A index \in DOMAIN observations :
                    \/ result[index] = observations[index]
                    \/ /\ index \in LatestObservationIndex(observations, report.key)
                       /\ result[index] = Extended(observations[index], checkedAt)
           \/ /\ DOMAIN result = 1 .. Len(observations) + 1
              /\ \A index \in DOMAIN observations : result[index] = observations[index]
              /\ result[Len(observations) + 1] = NewObservation(report, checkedAt)
              /\ \A index \in LatestObservationIndex(observations, report.key) :
                    ~HasSameContent(observations[index], report)
<1> DEFINE unchanged == {index \in LatestObservationIndex(observations, report.key) :
                            HasSameContent(observations[index], report)}
<1>1. Len(observations) \in Nat /\ DOMAIN observations = 1..Len(observations)
  BY LenProperties
<1>2. CASE unchanged # {}
  <2>1. result = [index \in DOMAIN observations |->
                    IF index \in unchanged THEN Extended(observations[index], checkedAt)
                    ELSE observations[index]]
    BY <1>2 DEF ApplyReport
  <2> QED BY <2>1
<1>3. CASE unchanged = {}
  <2>1. result = Append(observations, NewObservation(report, checkedAt))
    BY <1>3 DEF ApplyReport
  <2>2. NewObservation(report, checkedAt) \in Observation BY NewObservationType
  <2>3. /\ result \in Seq(Observation) /\ Len(result) = Len(observations) + 1
        /\ \A index \in 1..Len(observations) : result[index] = observations[index]
        /\ result[Len(observations) + 1] = NewObservation(report, checkedAt)
    BY <2>1, <2>2, <1>1, AppendProperties
  <2>4. DOMAIN result = 1 .. Len(observations) + 1 BY <2>3, LenProperties
  <2> QED BY <1>1, <1>3, <2>3, <2>4
<1> QED BY <1>2, <1>3

LEMMA ExtendedSays ==
    ASSUME NEW observation \in Observation, NEW checkedAt \in Time
    PROVE  /\ Extended(observation, checkedAt).key = observation.key
           /\ Extended(observation, checkedAt).flags = observation.flags
           /\ Extended(observation, checkedAt).data = observation.data
           /\ Extended(observation, checkedAt).firstObserved = observation.firstObserved
           /\ observation.lastObserved <= checkedAt =>
                 Extended(observation, checkedAt).lastObserved <= checkedAt
BY ObservationTimes, RecordAssumption DEF Extended, Observation, Time

\* An iteration of the loop never adds what the latest observation of the same
\* thing says already.
LEMMA ApplyReportAddsNoRepetition ==
    ASSUME NEW observations \in Seq(Observation), NEW report \in Report,
           NEW checkedAt \in Time, NoRepetition(observations)
    PROVE  NoRepetition(ApplyReport(observations, report, checkedAt))
<1> DEFINE result == ApplyReport(observations, report, checkedAt)
<1>1. /\ Len(observations) \in Nat /\ DOMAIN observations = 1..Len(observations)
      /\ \A index \in DOMAIN observations : observations[index] \in Observation
  BY LenProperties, ElementOfSeq
<1>2. ASSUME /\ DOMAIN result = DOMAIN observations
             /\ \A index \in DOMAIN observations :
                   \/ result[index] = observations[index]
                   \/ /\ index \in LatestObservationIndex(observations, report.key)
                      /\ result[index] = Extended(observations[index], checkedAt)
      PROVE  NoRepetition(result)
  <2>1. \A index \in DOMAIN observations :
           /\ result[index].key = observations[index].key
           /\ result[index].flags = observations[index].flags
           /\ result[index].data = observations[index].data
    BY <1>1, <1>2, ExtendedSays
  <2> HIDE DEF result
  <2>2. ASSUME NEW first \in DOMAIN result, NEW second \in DOMAIN result,
               first < second, result[first].key = result[second].key,
               result[first].key \notin Range(Replacement),
               \A between \in first + 1 .. second - 1 : result[between].key # result[first].key
        PROVE  ~HasSameContent(result[first], result[second])
    <3>1. first + 1 .. second - 1 \subseteq DOMAIN observations BY <1>1, <1>2
    <3>2. ~HasSameContent(observations[first], observations[second])
      BY <1>2, <2>1, <2>2, <3>1 DEF NoRepetition
    <3> QED BY <1>2, <2>1, <3>2 DEF HasSameContent
  <2> QED BY <2>2 DEF NoRepetition
<1>3. ASSUME /\ DOMAIN result = 1 .. Len(observations) + 1
             /\ \A index \in DOMAIN observations : result[index] = observations[index]
             /\ result[Len(observations) + 1] = NewObservation(report, checkedAt)
             /\ \A index \in LatestObservationIndex(observations, report.key) :
                   ~HasSameContent(observations[index], report)
      PROVE  NoRepetition(result)
  <2> DEFINE added == NewObservation(report, checkedAt)
  <2>1. added.key = report.key /\ added.flags = report.flags /\ added.data = report.data
    BY DEF NewObservation
  <2> HIDE DEF result, added
  <2>2. ASSUME NEW first \in DOMAIN result, NEW second \in DOMAIN result,
               first < second, result[first].key = result[second].key,
               result[first].key \notin Range(Replacement),
               \A between \in first + 1 .. second - 1 : result[between].key # result[first].key
        PROVE  ~HasSameContent(result[first], result[second])
    <3>1. first \in DOMAIN observations /\ result[first] = observations[first]
          /\ first + 1 .. second - 1 \subseteq DOMAIN observations
      BY <1>1, <1>3, <2>2
    <3>2. \A between \in first + 1 .. second - 1 : result[between] = observations[between]
      BY <1>3, <3>1
    <3>3. CASE second \in DOMAIN observations
      BY <1>3, <2>2, <3>1, <3>2, <3>3 DEF NoRepetition
    <3>4. CASE second = Len(observations) + 1
      <4>1. result[second] = added /\ observations[first].key = report.key
        BY <1>3, <2>1, <2>2, <3>1, <3>4 DEF added
      <4>2. \A later \in DOMAIN observations :
               observations[later].key = report.key => later <= first
        BY <1>1, <2>2, <3>1, <3>2, <3>4, <4>1
      <4>3. first \in LatestObservationIndex(observations, report.key)
        BY <3>1, <4>1, <4>2 DEF LatestObservationIndex
      <4>4. ~HasSameContent(observations[first], report) BY <1>3, <4>3
      <4> QED BY <2>1, <3>1, <4>1, <4>4 DEF HasSameContent
    <3> QED BY <1>1, <1>3, <3>3, <3>4
  <2> QED BY <2>2 DEF NoRepetition
<1>4. \/ /\ DOMAIN result = DOMAIN observations
         /\ \A index \in DOMAIN observations :
               \/ result[index] = observations[index]
               \/ /\ index \in LatestObservationIndex(observations, report.key)
                  /\ result[index] = Extended(observations[index], checkedAt)
      \/ /\ DOMAIN result = 1 .. Len(observations) + 1
         /\ \A index \in DOMAIN observations : result[index] = observations[index]
         /\ result[Len(observations) + 1] = NewObservation(report, checkedAt)
         /\ \A index \in LatestObservationIndex(observations, report.key) :
               ~HasSameContent(observations[index], report)
  BY ApplyReportCases
<1> HIDE DEF result
<1>5. NoRepetition(result) BY <1>2, <1>3, <1>4
<1> QED BY <1>5 DEF result

\* A moment that is not before the end of anything observed so far is not
\* before anything observed with it either, and keeps the periods in order.
LEMMA ApplyReportInOrder ==
    ASSUME NEW observations \in Seq(Observation), NEW report \in Report,
           NEW checkedAt \in Time, EndedBy(observations, checkedAt)
    PROVE  /\ EndedBy(ApplyReport(observations, report, checkedAt), checkedAt)
           /\ InOrder(observations) /\ AddedSinceInvalid(observations, checkedAt) =>
                 InOrder(ApplyReport(observations, report, checkedAt))
<1> DEFINE result == ApplyReport(observations, report, checkedAt)
<1>1. /\ Len(observations) \in Nat /\ DOMAIN observations = 1..Len(observations)
      /\ \A index \in DOMAIN observations : observations[index] \in Observation
      /\ checkedAt \in Nat
  BY LenProperties, ElementOfSeq, RecordAssumption DEF Time
<1>2. ASSUME /\ DOMAIN result = DOMAIN observations
             /\ \A index \in DOMAIN observations :
                   \/ result[index] = observations[index]
                   \/ /\ index \in LatestObservationIndex(observations, report.key)
                      /\ result[index] = Extended(observations[index], checkedAt)
      PROVE  /\ EndedBy(result, checkedAt)
             /\ InOrder(observations) /\ AddedSinceInvalid(observations, checkedAt) =>
                   InOrder(result)
  <2>1. \A index \in DOMAIN observations :
           /\ result[index].key = observations[index].key
           /\ result[index].firstObserved = observations[index].firstObserved
           /\ result[index].lastObserved <= checkedAt
    BY <1>1, <1>2, ExtendedSays DEF EndedBy
  <2> HIDE DEF result
  <2>2. EndedBy(result, checkedAt) BY <1>2, <2>1 DEF EndedBy
  <2>3. ASSUME InOrder(observations), AddedSinceInvalid(observations, checkedAt),
               NEW first \in DOMAIN result, NEW second \in DOMAIN result,
               first < second, ValidText(result[first].key) = ValidText(result[second].key)
        PROVE  result[first].lastObserved <= result[second].firstObserved
    <3>1. ValidText(observations[first].key) = ValidText(observations[second].key)
          /\ observations[first].lastObserved <= observations[second].firstObserved
      BY <1>2, <2>1, <2>3 DEF InOrder
    <3>2. CASE observations[first].key = observations[second].key
      <4>1. first \notin LatestObservationIndex(observations, report.key)
        BY <1>1, <1>2, <2>3, <3>2 DEF LatestObservationIndex
      <4> QED BY <1>2, <2>1, <3>1, <4>1
    <3>3. CASE observations[first].key # observations[second].key
      <4>1. \/ observations[first].key \in InvalidTexts
            \/ observations[second].key \in InvalidTexts
        BY <3>1, <3>3, ValidTextProperties
      <4>2. observations[second].firstObserved = checkedAt
        BY <1>1, <1>2, <2>3, <4>1 DEF AddedSinceInvalid
      <4> QED BY <1>2, <2>1, <4>2
    <3> QED BY <3>2, <3>3
  <2> QED BY <2>2, <2>3 DEF InOrder
<1>3. ASSUME /\ DOMAIN result = 1 .. Len(observations) + 1
             /\ \A index \in DOMAIN observations : result[index] = observations[index]
             /\ result[Len(observations) + 1] = NewObservation(report, checkedAt)
      PROVE  /\ EndedBy(result, checkedAt)
             /\ InOrder(observations) /\ AddedSinceInvalid(observations, checkedAt) =>
                   InOrder(result)
  <2> DEFINE added == NewObservation(report, checkedAt)
  <2>1. added.firstObserved = checkedAt /\ added.lastObserved = checkedAt
    BY DEF NewObservation
  <2> HIDE DEF result, added
  <2>2. EndedBy(result, checkedAt)
    BY <1>1, <1>3, <2>1 DEF EndedBy, added
  <2>3. ASSUME InOrder(observations), AddedSinceInvalid(observations, checkedAt),
               NEW first \in DOMAIN result, NEW second \in DOMAIN result,
               first < second, ValidText(result[first].key) = ValidText(result[second].key)
        PROVE  result[first].lastObserved <= result[second].firstObserved
    <3>1. first \in DOMAIN observations /\ result[first] = observations[first]
      BY <1>1, <1>3, <2>3
    <3>2. CASE second \in DOMAIN observations
      BY <1>3, <2>3, <3>1, <3>2 DEF InOrder
    <3>3. CASE second = Len(observations) + 1
      BY <1>3, <2>1, <3>1, <3>3 DEF EndedBy, added
    <3> QED BY <1>1, <1>3, <3>2, <3>3
  <2> QED BY <2>2, <2>3 DEF InOrder
<1>4. \/ /\ DOMAIN result = DOMAIN observations
         /\ \A index \in DOMAIN observations :
               \/ result[index] = observations[index]
               \/ /\ index \in LatestObservationIndex(observations, report.key)
                  /\ result[index] = Extended(observations[index], checkedAt)
      \/ /\ DOMAIN result = 1 .. Len(observations) + 1
         /\ \A index \in DOMAIN observations : result[index] = observations[index]
         /\ result[Len(observations) + 1] = NewObservation(report, checkedAt)
  BY ApplyReportCases
<1> HIDE DEF result
<1>5. /\ EndedBy(result, checkedAt)
      /\ InOrder(observations) /\ AddedSinceInvalid(observations, checkedAt) =>
            InOrder(result)
  BY <1>2, <1>3, <1>4
<1> QED BY <1>5 DEF result

\* What the loop adds is added at the update's moment.
LEMMA ApplyReportAddsNow ==
    ASSUME NEW observations \in Seq(Observation), NEW report \in Report,
           NEW checkedAt \in Time, AddedSinceInvalid(observations, checkedAt)
    PROVE  AddedSinceInvalid(ApplyReport(observations, report, checkedAt), checkedAt)
<1> DEFINE result == ApplyReport(observations, report, checkedAt)
<1>1. /\ Len(observations) \in Nat /\ DOMAIN observations = 1..Len(observations)
      /\ \A index \in DOMAIN observations : observations[index] \in Observation
  BY LenProperties, ElementOfSeq
<1>2. ASSUME /\ DOMAIN result = DOMAIN observations
             /\ \A index \in DOMAIN observations :
                   \/ result[index] = observations[index]
                   \/ /\ index \in LatestObservationIndex(observations, report.key)
                      /\ result[index] = Extended(observations[index], checkedAt)
      PROVE  AddedSinceInvalid(result, checkedAt)
  <2>1. \A index \in DOMAIN observations :
           /\ result[index].key = observations[index].key
           /\ result[index].firstObserved = observations[index].firstObserved
    BY <1>1, <1>2, ExtendedSays
  <2> HIDE DEF result
  <2> QED BY <1>2, <2>1 DEF AddedSinceInvalid
<1>3. ASSUME /\ DOMAIN result = 1 .. Len(observations) + 1
             /\ \A index \in DOMAIN observations : result[index] = observations[index]
             /\ result[Len(observations) + 1] = NewObservation(report, checkedAt)
      PROVE  AddedSinceInvalid(result, checkedAt)
  <2>1. result[Len(observations) + 1].firstObserved = checkedAt
    BY <1>3 DEF NewObservation
  <2> HIDE DEF result
  <2>2. ASSUME NEW first \in DOMAIN result, NEW second \in DOMAIN result,
               first <= second, result[first].key \in InvalidTexts
        PROVE  result[second].firstObserved = checkedAt
    <3>1. CASE second = Len(observations) + 1 BY <2>1, <3>1
    <3>2. CASE second # Len(observations) + 1
      <4>1. first \in DOMAIN observations /\ second \in DOMAIN observations
        BY <1>1, <1>3, <2>2, <3>2
      <4> QED BY <1>3, <2>2, <4>1 DEF AddedSinceInvalid
    <3> QED BY <3>1, <3>2
  <2> QED BY <2>2 DEF AddedSinceInvalid
<1>4. \/ /\ DOMAIN result = DOMAIN observations
         /\ \A index \in DOMAIN observations :
               \/ result[index] = observations[index]
               \/ /\ index \in LatestObservationIndex(observations, report.key)
                  /\ result[index] = Extended(observations[index], checkedAt)
      \/ /\ DOMAIN result = 1 .. Len(observations) + 1
         /\ \A index \in DOMAIN observations : result[index] = observations[index]
         /\ result[Len(observations) + 1] = NewObservation(report, checkedAt)
  BY ApplyReportCases
<1>5. AddedSinceInvalid(result, checkedAt)
  <2> HIDE DEF result
  <2> QED BY <1>2, <1>3, <1>4
<1> QED BY <1>5

\* What is read back from a file says what was written to it.
LEMMA EncodedSources ==
    ASSUME NEW record, IsRecord(record)
    PROVE  /\ DOMAIN Encode(record).record.sources = DOMAIN record.sources
           /\ \A name \in DOMAIN record.sources :
                 /\ record.sources[name] \in SourceHistory
                 /\ Encode(record).record.sources[name] = EncodedHistory(record.sources[name])
<1> DEFINE encoded == [name \in DOMAIN record.sources |-> EncodedHistory(record.sources[name])]
           stored == [record EXCEPT !.sources = encoded]
<1>1. Encode(record).record = stored BY DEF Encode, RecordFile
<1>2. stored.sources = encoded
  <2> HIDE DEF encoded
  <2> QED BY DEF IsRecord
<1>3. \A name \in DOMAIN record.sources : record.sources[name] \in SourceHistory
  BY DEF IsRecord, IsSourcesMap
<1> HIDE DEF stored
<1> QED BY <1>1, <1>2, <1>3

\* The end of addReports puts the history in the source's place.
LEMMA StoredSources ==
    ASSUME NEW record, IsRecord(record), NEW source \in Sources, NEW history \in SourceHistory
    PROVE  StoreHistory(record, source, history).sources
              = WriteHistory(record.sources, source, history)
<1> DEFINE written == WriteHistory(record.sources, source, history)
           updated == [record EXCEPT !.sources = written]
<1>1. IsSourcesMap(written) BY WriteHistoryType DEF IsRecord
<1> HIDE DEF written
<1>2. IsRecord(updated) /\ updated.sources = written BY <1>1 DEF IsRecord
<1>3. StoreHistory(record, source, history) = Summarise(updated) BY DEF StoreHistory, written
<1> HIDE DEF updated
<1>4. Summarise(updated).sources = written BY <1>2, SummariseProperties
<1> QED BY <1>3, <1>4 DEF written

\* A recorded failure does so with the history it found, its error aside.
LEMMA FailureSources ==
    ASSUME NEW record, IsRecord(record), NEW source \in Sources, NEW occurredAt \in Time
    PROVE  FailureRecorded(record, source, occurredAt).sources
              = WriteHistory(record.sources, source,
                    [HistoryOf(record.sources, source) EXCEPT !.lastError = occurredAt])
<1> DEFINE written == WriteHistory(record.sources, source,
                        [HistoryOf(record.sources, source) EXCEPT !.lastError = occurredAt])
<1>1. FailureRecorded(record, source, occurredAt) = [record EXCEPT !.sources = written]
  BY DEF FailureRecorded
<1> HIDE DEF written
<1>2. [record EXCEPT !.sources = written].sources = written BY DEF IsRecord
<1> QED BY <1>1, <1>2 DEF written

\* Nothing in a migrated history is later than its last check.
LEMMA MigratedEnds ==
    ASSUME NEW results \in Seq(LegacyResult), results # << >>
    PROVE  EndedBy(MigratedHistory(results).observations, MigratedHistory(results).lastChecked)
<1> DEFINE moments == {results[index].datetime : index \in DOMAIN results}
<1>1. /\ Len(results) \in Nat \ {0} /\ DOMAIN results = 1..Len(results)
      /\ \A index \in DOMAIN results : results[index] \in LegacyResult
  BY LenProperties, ElementOfSeq, EmptySeq
<1>2. moments # {} /\ moments \subseteq Moment
  BY <1>1, RecordAssumption DEF LegacyResult, Time, Moment
<1>3. \A moment \in moments : moment <= Latest(moments)
  <2> HIDE DEF moments
  <2> QED BY <1>2, LatestProperty
<1>4. \A index \in DOMAIN results : results[index].datetime <= Latest(moments) BY <1>3
<1>5. /\ MigratedHistory(results).lastChecked = Latest(moments)
      /\ MigratedHistory(results).observations
            = [index \in DOMAIN results |-> MigratedResult(results[index])]
  BY DEF MigratedHistory
<1>6. \A index \in DOMAIN results :
          MigratedResult(results[index]).lastObserved = results[index].datetime
  BY DEF MigratedResult
<1> HIDE DEF moments
<1> QED BY <1>4, <1>5, <1>6 DEF EndedBy
=============================================================================
