-------------------------- MODULE EnrichmentProofs --------------------------
(***************************************************************************)
(* Proofs about Enrichment, for any addresses, items and replies: what     *)
(* sorting and compacting make of a list of items, what addReports makes   *)
(* of a history, and with these that a history says what was said last.    *)
(***************************************************************************)
EXTENDS Enrichment, RecordProofs

-----------------------------------------------------------------------------
(* Orders.  A relation is a set of pairs. *)

StrictlyOrders(before, S) ==
    /\ \A x \in S : <<x, x>> \notin before
    /\ \A x, y \in S : x # y => <<x, y>> \in before \/ <<y, x>> \in before
    /\ \A x, y, z \in S :
          <<x, y>> \in before /\ <<y, z>> \in before => <<x, z>> \in before

IsInOrder(ordered, before, S) ==
    \A first, second \in 1..Cardinality(S) :
        first < second => <<ordered[first], ordered[second]>> \in before

\* A finite set has its members in order: each has as many before it as its place says.
LEMMA OrderedExists ==
    ASSUME NEW S, IsFiniteSet(S), NEW before, StrictlyOrders(before, S)
    PROVE  \E ordered \in [1..Cardinality(S) -> S] : IsInOrder(ordered, before, S)
<1> DEFINE size == Cardinality(S)
           Below(x) == {y \in S : <<y, x>> \in before}
           place == [x \in S |-> Cardinality(Below(x)) + 1]
<1>1. size \in Nat BY FS_CardinalityType
<1>2. ASSUME NEW x \in S
      PROVE  /\ IsFiniteSet(Below(x)) /\ Cardinality(Below(x)) \in Nat
             /\ place[x] \in 1..size
  <2>1. Below(x) \subseteq S \ {x} BY DEF StrictlyOrders
  <2>2. IsFiniteSet(S \ {x}) /\ Cardinality(S \ {x}) = size - 1 BY FS_RemoveElement
  <2> HIDE DEF Below
  <2>3. IsFiniteSet(Below(x)) /\ Cardinality(Below(x)) <= size - 1 BY <2>1, <2>2, FS_Subset
  <2>4. Cardinality(Below(x)) \in Nat BY <2>3, FS_CardinalityType
  <2> QED BY <1>1, <2>3, <2>4
<1>3. ASSUME NEW x \in S, NEW y \in S, <<x, y>> \in before
      PROVE  place[x] < place[y]
  <2>1. Below(x) \cup {x} \subseteq Below(y) BY <1>3 DEF StrictlyOrders
  <2>2. x \notin Below(x) BY DEF StrictlyOrders
  <2>3. /\ IsFiniteSet(Below(x)) /\ Cardinality(Below(x)) \in Nat
        /\ IsFiniteSet(Below(y)) /\ Cardinality(Below(y)) \in Nat
    BY <1>2
  <2> HIDE DEF Below
  <2>4. Cardinality(Below(x) \cup {x}) = Cardinality(Below(x)) + 1
    BY <2>2, <2>3, FS_AddElement
  <2>5. Cardinality(Below(x) \cup {x}) <= Cardinality(Below(y)) BY <2>1, <2>3, FS_Subset
  <2>6. Cardinality(Below(x)) + 1 <= Cardinality(Below(y)) BY <2>4, <2>5
  <2> QED BY <2>3, <2>6
<1> HIDE DEF place, size
<1>4. \A x, y \in S : place[x] = place[y] => x = y
  <2> SUFFICES ASSUME NEW x \in S, NEW y \in S, place[x] = place[y], x # y PROVE FALSE
    OBVIOUS
  <2>1. place[x] \in Int /\ place[y] \in Int
    <3>1. place[x] \in 1..size /\ place[y] \in 1..size BY <1>2
    <3> QED BY <3>1
  <2>2. CASE <<x, y>> \in before BY <1>3, <2>1, <2>2
  <2>3. CASE <<y, x>> \in before BY <1>3, <2>1, <2>3
  <2> QED BY <2>2, <2>3 DEF StrictlyOrders
<1>5. \A index \in 1..size : \E x \in S : place[x] = index
  <2>1. place \in Injection(S, 1..size)
    <3>1. DOMAIN place = S BY DEF place
    <3>2. place = [x \in S |-> place[x]] BY DEF place
    <3> QED BY <1>2, <1>4, <3>1, <3>2 DEF Injection, IsInjective
  <2>2. IsFiniteSet(1..size) /\ Cardinality(1..size) = size BY <1>1, FS_Interval
  <2>3. place \in Surjection(S, 1..size) BY <2>1, <2>2, FS_Injection DEF size
  <2> QED BY <2>3 DEF Surjection
<1> DEFINE ordered == [index \in 1..size |-> CHOOSE x \in S : place[x] = index]
<1>6. \A index \in 1..size : ordered[index] \in S /\ place[ordered[index]] = index BY <1>5
<1>7. ordered \in [1..size -> S] BY <1>6
<1> HIDE DEF ordered
<1>8. ASSUME NEW first \in 1..size, NEW second \in 1..size, first < second
      PROVE  <<ordered[first], ordered[second]>> \in before
  <2>1. ordered[first] # ordered[second] BY <1>6, <1>8
  <2>2. ~(place[ordered[second]] < place[ordered[first]]) BY <1>6, <1>8
  <2>3. <<ordered[second], ordered[first]>> \notin before BY <1>3, <1>6, <2>2
  <2> QED BY <1>6, <2>1, <2>3 DEF StrictlyOrders
<1> QED BY <1>7, <1>8 DEF IsInOrder, size

\* They are all there.
LEMMA OrderedHoldsAll ==
    ASSUME NEW S, IsFiniteSet(S), NEW before, StrictlyOrders(before, S),
           NEW ordered \in [1..Cardinality(S) -> S], IsInOrder(ordered, before, S)
    PROVE  /\ Cardinality(S) \in Nat
           /\ \A x \in S : \E index \in 1..Cardinality(S) : ordered[index] = x
<1> DEFINE size == Cardinality(S)
<1>1. size \in Nat BY FS_CardinalityType
<1>2. ASSUME NEW first \in 1..size, NEW second \in 1..size, ordered[first] = ordered[second]
      PROVE  first = second
  <2>1. <<ordered[first], ordered[second]>> \notin before BY <1>2 DEF StrictlyOrders
  <2>2. <<ordered[second], ordered[first]>> \notin before BY <1>2 DEF StrictlyOrders
  <2>3. ~(first < second) /\ ~(second < first) BY <2>1, <2>2 DEF IsInOrder
  <2> QED BY <1>1, <2>3
<1>3. ordered \in Injection(1..size, S) BY <1>2 DEF Injection, IsInjective
<1>4. IsFiniteSet(1..size) /\ Cardinality(1..size) = size BY <1>1, FS_Interval
<1>5. ordered \in Surjection(1..size, S) BY <1>3, <1>4, FS_Injection
<1> QED BY <1>1, <1>5 DEF Surjection

-----------------------------------------------------------------------------
(* Lists in a stable order *)

RisesById(items) ==
    \A first, second \in DOMAIN items : first < second => items[first].id < items[second].id

NeverFallsById(items) ==
    \A first, second \in DOMAIN items : first < second => items[first].id <= items[second].id

\* An item's parts are numbers, and are all there is to it.
LEMMA ItemParts ==
    /\ \A item \in Item : item.id \in Nat /\ item.detail \in Nat
    /\ \A item, other \in Item : item.id = other.id /\ item.detail = other.detail => item = other
<1>1. \A item \in Item : item.id \in Nat /\ item.detail \in Nat BY LookupsAssumption DEF Item
<1>2. \A item \in Item : item = [id |-> item.id, detail |-> item.detail] BY DEF Item
<1> QED BY <1>1, <1>2

\* A list says finitely many things.
LEMMA RangeIsFinite ==
    ASSUME NEW items \in Seq(Item)
    PROVE  IsFiniteSet(Range(items)) /\ Range(items) \subseteq Item
<1>1. Len(items) \in Nat /\ DOMAIN items = 1..Len(items) /\ items \in [1..Len(items) -> Item]
  BY LenProperties
<1>2. items \in Surjection(1..Len(items), Range(items)) BY <1>1 DEF Surjection, Range
<1>3. IsFiniteSet(1..Len(items)) BY <1>1, FS_Interval
<1> QED BY <1>1, <1>2, <1>3, FS_Surjection DEF Range

\* SortedUnique says what the list says.
LEMMA SortedUniqueSays ==
    ASSUME NEW items \in Seq(Item)
    PROVE  SortedUnique(items) \in Seq(Item) /\ Range(SortedUnique(items)) = Range(items)
<1> DEFINE before == {pair \in Item \X Item : ItemBefore(pair[1], pair[2])}
           S == Range(items)
           GoesUp(list) == \A first, second \in 1..Cardinality(S) :
                                first < second => ItemBefore(list[first], list[second])
           sorted == CHOOSE list \in [1..Cardinality(S) -> S] : GoesUp(list)
<1>1. SortedUnique(items) = sorted BY DEF SortedUnique, Ordered
<1>2. IsFiniteSet(S) /\ S \subseteq Item BY RangeIsFinite
<1>3. \A x, y \in Item : <<x, y>> \in before <=> ItemBefore(x, y) OBVIOUS
<1>4. StrictlyOrders(before, S)
  <2>1. \A x \in Item : ~ItemBefore(x, x) BY ItemParts DEF ItemBefore
  <2>2. \A x, y \in Item : x # y => ItemBefore(x, y) \/ ItemBefore(y, x)
    BY ItemParts DEF ItemBefore
  <2>3. \A x, y, z \in Item : ItemBefore(x, y) /\ ItemBefore(y, z) => ItemBefore(x, z)
    BY ItemParts DEF ItemBefore
  <2> HIDE DEF before, S
  <2> QED BY <1>2, <1>3, <2>1, <2>2, <2>3 DEF StrictlyOrders
<1> HIDE DEF S, before
<1>5. ASSUME NEW list \in [1..Cardinality(S) -> S]
      PROVE  GoesUp(list) <=> IsInOrder(list, before, S)
  BY <1>2, <1>3 DEF IsInOrder
<1>6. \E list \in [1..Cardinality(S) -> S] : GoesUp(list)
  <2> HIDE DEF GoesUp
  <2> QED BY <1>2, <1>4, <1>5, OrderedExists
<1>7. sorted \in [1..Cardinality(S) -> S] /\ GoesUp(sorted)
  <2> HIDE DEF GoesUp
  <2> QED BY <1>6
<1> HIDE DEF sorted
<1>8. /\ Cardinality(S) \in Nat
      /\ \A x \in S : \E index \in 1..Cardinality(S) : sorted[index] = x
  BY <1>2, <1>4, <1>5, <1>7, OrderedHoldsAll
<1>9. sorted \in Seq(Item)
  <2>1. sorted \in [1..Cardinality(S) -> Item] BY <1>2, <1>7
  <2> QED BY <1>8, <2>1
<1>10. Range(sorted) = S BY <1>7, <1>8 DEF Range
<1> QED BY <1>1, <1>9, <1>10 DEF S

\* SortedById moves the items about, so that no id is before a lower one.
LEMMA SortedByIdSays ==
    ASSUME NEW items \in Seq(Item)
    PROVE  /\ SortedById(items) \in Seq(Item)
           /\ Range(SortedById(items)) = Range(items)
           /\ NeverFallsById(SortedById(items))
<1> DEFINE S == DOMAIN items
           Before(x, y) == \/ items[x].id < items[y].id
                           \/ items[x].id = items[y].id /\ x < y
           before == {pair \in S \X S : Before(pair[1], pair[2])}
           GoesUp(list) == \A first, second \in 1..Cardinality(S) :
                                first < second => Before(list[first], list[second])
           order == CHOOSE list \in [1..Cardinality(S) -> S] : GoesUp(list)
           sorted == [index \in DOMAIN items |-> items[order[index]]]
<1>1. SortedById(items) = sorted BY DEF SortedById, Ordered
<1>2. /\ Len(items) \in Nat /\ S = 1..Len(items)
      /\ \A x \in S : items[x] \in Item
  BY LenProperties, ElementOfSeq
<1>3. IsFiniteSet(S) /\ Cardinality(S) = Len(items) BY <1>2, FS_Interval
<1>4. \A x, y \in S : <<x, y>> \in before <=> Before(x, y) OBVIOUS
<1>5. \A x \in S : items[x].id \in Nat /\ x \in Nat BY <1>2, ItemParts
<1>6. StrictlyOrders(before, S)
  <2> HIDE DEF S, before
  <2>1. \A x \in S : ~Before(x, x) BY <1>5
  <2>2. \A x, y \in S : x # y => Before(x, y) \/ Before(y, x) BY <1>5
  <2>3. \A x, y, z \in S : Before(x, y) /\ Before(y, z) => Before(x, z) BY <1>5
  <2> HIDE DEF Before
  <2> QED BY <1>4, <2>1, <2>2, <2>3 DEF StrictlyOrders
<1> HIDE DEF S, before, Before
<1>7. ASSUME NEW list \in [1..Cardinality(S) -> S]
      PROVE  GoesUp(list) <=> IsInOrder(list, before, S)
  BY <1>4 DEF IsInOrder
<1>8. \E list \in [1..Cardinality(S) -> S] : GoesUp(list)
  <2> HIDE DEF GoesUp
  <2> QED BY <1>3, <1>6, <1>7, OrderedExists
<1>9. order \in [1..Cardinality(S) -> S] /\ GoesUp(order)
  <2> HIDE DEF GoesUp
  <2> QED BY <1>8
<1> HIDE DEF order
<1>10. \A x \in S : \E index \in 1..Cardinality(S) : order[index] = x
  BY <1>3, <1>6, <1>7, <1>9, OrderedHoldsAll
<1>11. 1..Cardinality(S) = S /\ DOMAIN sorted = S BY <1>2, <1>3 DEF S
<1>12. \A index \in S : order[index] \in S /\ sorted[index] = items[order[index]]
  BY <1>9, <1>11 DEF S
<1> HIDE DEF sorted
<1>13. sorted \in Seq(Item)
  <2>1. sorted = [index \in S |-> sorted[index]] BY DEF sorted, S
  <2>2. sorted \in [1..Len(items) -> Item] BY <1>2, <1>12, <2>1
  <2> QED BY <1>2, <2>2
<1>14. Range(sorted) = Range(items)
  <2>1. \A index \in S : \E x \in S : sorted[index] = items[x] BY <1>12
  <2>2. ASSUME NEW x \in S PROVE \E index \in S : sorted[index] = items[x]
    <3>1. PICK index \in 1..Cardinality(S) : order[index] = x BY <1>10
    <3>2. index \in S BY <1>11, <3>1
    <3> QED BY <1>12, <3>1, <3>2
  <2> QED BY <1>11, <2>1, <2>2 DEF Range, S
<1>15. ASSUME NEW first \in S, NEW second \in S, first < second
       PROVE  sorted[first].id <= sorted[second].id
  <2>1. Before(order[first], order[second]) BY <1>9, <1>11, <1>15
  <2>2. order[first] \in S /\ order[second] \in S BY <1>12
  <2>3. items[order[first]].id <= items[order[second]].id
    BY <1>5, <2>1, <2>2 DEF Before
  <2> QED BY <1>12, <2>3
<1>16. NeverFallsById(sorted) BY <1>11, <1>15 DEF NeverFallsById
<1> QED BY <1>1, <1>13, <1>14, <1>16

\* ItemsAt goes through the places upwards.
LEMMA ItemsAtSays ==
    ASSUME NEW items \in Seq(Item), NEW places \in SUBSET DOMAIN items
    PROVE  \E size \in Nat : \E order \in [1..size -> places] :
              /\ \A first, second \in 1..size : first < second => order[first] < order[second]
              /\ \A x \in places : \E index \in 1..size : order[index] = x
              /\ ItemsAt(items, places) = [index \in 1..size |-> items[order[index]]]
              /\ ItemsAt(items, places) \in Seq(Item)
<1> DEFINE before == {pair \in places \X places : pair[1] < pair[2]}
           GoesUp(list) == \A first, second \in 1..Cardinality(places) :
                                first < second => list[first] < list[second]
           order == CHOOSE list \in [1..Cardinality(places) -> places] : GoesUp(list)
           found == [index \in DOMAIN order |-> items[order[index]]]
<1>1. ItemsAt(items, places) = found BY DEF ItemsAt, Ordered
<1>2. /\ Len(items) \in Nat /\ DOMAIN items = 1..Len(items)
      /\ \A x \in DOMAIN items : items[x] \in Item
  BY LenProperties, ElementOfSeq
<1>3. IsFiniteSet(places) /\ places \subseteq Nat
  <2>1. IsFiniteSet(DOMAIN items) BY <1>2, FS_Interval
  <2>2. IsFiniteSet(places) BY <2>1, FS_Subset
  <2>3. places \subseteq Nat BY <1>2
  <2> QED BY <2>2, <2>3
<1>4. \A x, y \in places : <<x, y>> \in before <=> x < y OBVIOUS
<1> HIDE DEF before
<1>5. StrictlyOrders(before, places) BY <1>3, <1>4 DEF StrictlyOrders
<1>6. ASSUME NEW list \in [1..Cardinality(places) -> places]
      PROVE  GoesUp(list) <=> IsInOrder(list, before, places)
  BY <1>4 DEF IsInOrder
<1>7. \E list \in [1..Cardinality(places) -> places] : GoesUp(list)
  <2> HIDE DEF GoesUp
  <2> QED BY <1>3, <1>5, <1>6, OrderedExists
<1>8. order \in [1..Cardinality(places) -> places] /\ GoesUp(order)
  <2> HIDE DEF GoesUp
  <2> QED BY <1>7
<1> HIDE DEF order
<1>9. /\ Cardinality(places) \in Nat
      /\ \A x \in places : \E index \in 1..Cardinality(places) : order[index] = x
  <2> HIDE DEF GoesUp
  <2> QED BY <1>3, <1>5, <1>6, <1>8, OrderedHoldsAll
<1>10. found = [index \in 1..Cardinality(places) |-> items[order[index]]] BY <1>8
<1>11. found \in Seq(Item)
  <2>1. \A index \in 1..Cardinality(places) : items[order[index]] \in Item BY <1>2, <1>8
  <2>2. found \in [1..Cardinality(places) -> Item] BY <1>10, <2>1
  <2> QED BY <1>9, <2>2
<1>12. \A first, second \in 1..Cardinality(places) :
            first < second => order[first] < order[second]
  BY <1>8
<1> HIDE DEF found, GoesUp
<1>13. PICK size \in Nat : size = Cardinality(places) BY <1>9
<1>14. order \in [1..size -> places] BY <1>8, <1>13
<1>15. ItemsAt(items, places) = [index \in 1..size |-> items[order[index]]]
  BY <1>1, <1>10, <1>13
<1>16. ItemsAt(items, places) \in Seq(Item) BY <1>1, <1>11
<1>17. WITNESS size \in Nat
<1>18. WITNESS order \in [1..size -> places]
<1> QED BY <1>9, <1>12, <1>13, <1>15, <1>16

\* Compact keeps one of the items that are the same, and their order.
LEMMA CompactSays ==
    ASSUME NEW items \in Seq(Item)
    PROVE  /\ Compact(items) \in Seq(Item)
           /\ Range(Compact(items)) = Range(items)
           /\ NeverFallsById(items) => NeverFallsById(Compact(items))
<1> DEFINE S == DOMAIN items
           kept == {index \in S : index = 1 \/ items[index] # items[index - 1]}
<1>1. Compact(items) = ItemsAt(items, kept) BY DEF Compact
<1>2. /\ Len(items) \in Nat /\ S = 1..Len(items)
      /\ \A x \in S : items[x] \in Item
  BY LenProperties, ElementOfSeq
<1>3. kept \in SUBSET S OBVIOUS
<1>4. PICK size \in Nat : \E order \in [1..size -> kept] :
              /\ \A first, second \in 1..size : first < second => order[first] < order[second]
              /\ \A x \in kept : \E index \in 1..size : order[index] = x
              /\ ItemsAt(items, kept) = [index \in 1..size |-> items[order[index]]]
              /\ ItemsAt(items, kept) \in Seq(Item)
  <2> HIDE DEF kept
  <2> QED BY <1>3, ItemsAtSays
<1>5. PICK order \in [1..size -> kept] :
              /\ \A first, second \in 1..size : first < second => order[first] < order[second]
              /\ \A x \in kept : \E index \in 1..size : order[index] = x
              /\ ItemsAt(items, kept) = [index \in 1..size |-> items[order[index]]]
              /\ ItemsAt(items, kept) \in Seq(Item)
  <2> HIDE DEF kept
  <2> QED BY <1>4
<1>6. PICK compact : compact = Compact(items) OBVIOUS
<1> DEFINE places == 1..size
<1>7. /\ DOMAIN compact = places /\ compact \in Seq(Item)
      /\ \A index \in places : order[index] \in kept /\ compact[index] = items[order[index]]
  <2> HIDE DEF kept
  <2> QED BY <1>1, <1>5, <1>6
<1>8. ASSUME NEW x \in S PROVE \E index \in places : compact[index] = items[x]
  <2> DEFINE same == {y \in S : items[y] = items[x]}
  <2>1. same \in SUBSET Nat /\ same # {} BY <1>2
  <2>2. PICK first \in same : \A other \in same : first <= other
    <3> HIDE DEF same
    <3> QED BY <2>1, EarliestProperty
  <2>3. first \in kept
    <3>1. CASE first = 1 BY <3>1
    <3>2. CASE first # 1
      <4>1. first - 1 \in S /\ ~(first <= first - 1) BY <1>2, <3>2
      <4>2. first - 1 \notin same BY <2>2, <4>1
      <4> QED BY <4>1, <4>2
    <3> QED BY <3>1, <3>2
  <2>4. PICK index \in places : order[index] = first BY <1>5, <2>3
  <2> QED BY <1>7, <2>4
<1>9. Range(compact) = Range(items)
  <2> HIDE DEF kept
  <2>1. \A index \in places : \E x \in S : compact[index] = items[x] BY <1>3, <1>7
  <2> HIDE DEF places
  <2> QED BY <1>7, <1>8, <2>1 DEF Range, S
<1>10. ASSUME NeverFallsById(items),
              NEW first \in places, NEW second \in places, first < second
       PROVE  compact[first].id <= compact[second].id
  <2>1. PICK x : x = order[first] OBVIOUS
  <2>2. PICK y : y = order[second] OBVIOUS
  <2>3. x \in S /\ y \in S /\ x < y
    BY <1>3, <1>5, <1>7, <1>10, <2>1, <2>2
  <2>4. compact[first] = items[x] /\ compact[second] = items[y] BY <1>7, <2>1, <2>2
  <2>5. items[x].id <= items[y].id BY <1>10, <2>3 DEF NeverFallsById
  <2> QED BY <2>4, <2>5
<1>11. NeverFallsById(items) => NeverFallsById(compact)
  BY <1>7, <1>10 DEF NeverFallsById
<1> QED BY <1>6, <1>7, <1>9, <1>11

\* A sorted list without ties rises.
LEMMA WithoutTies ==
    ASSUME NEW items \in Seq(Item), NeverFallsById(items), ~HasTies(items)
    PROVE  RisesById(items)
<1> SUFFICES ASSUME NEW first \in DOMAIN items, NEW second \in DOMAIN items, first < second
             PROVE  items[first].id < items[second].id
  BY DEF RisesById
<1>1. first # second
  <2>1. Len(items) \in Nat /\ DOMAIN items = 1..Len(items) BY LenProperties
  <2>2. first \in Nat /\ second \in Nat BY <2>1
  <2> QED BY <2>2
<1>2. items[first] \in Item /\ items[second] \in Item BY ElementOfSeq, LenProperties
<1>3. items[first].id \in Nat /\ items[second].id \in Nat BY <1>2, ItemParts
<1>4. items[first].id <= items[second].id BY DEF NeverFallsById
<1>5. items[first].id # items[second].id BY <1>1 DEF HasTies
<1> QED BY <1>3, <1>4, <1>5

\* Lists that rise by id and hold the same items are the same.
LEMMA RisingListsAreOne ==
    ASSUME NEW list \in Seq(Item), NEW other \in Seq(Item),
           RisesById(list), RisesById(other), Range(list) = Range(other)
    PROVE  list = other
<1>1. ASSUME NEW s \in Seq(Item), NEW t \in Seq(Item), RisesById(s), RisesById(t),
             Range(s) = Range(t)
      PROVE  \A index \in DOMAIN s : index \in DOMAIN t /\ s[index] = t[index]
  <2>1. /\ Len(s) \in Nat /\ DOMAIN s = 1..Len(s)
        /\ Len(t) \in Nat /\ DOMAIN t = 1..Len(t)
        /\ \A index \in DOMAIN s : s[index].id \in Nat
        /\ \A index \in DOMAIN t : t[index].id \in Nat
    BY LenProperties, ElementOfSeq, ItemParts
  <2> DEFINE Differ == {index \in DOMAIN s : ~(index \in DOMAIN t /\ s[index] = t[index])}
  <2> SUFFICES ASSUME Differ # {} PROVE FALSE OBVIOUS
  <2>2. PICK first \in Differ : \A index \in Differ : first <= index
    <3>1. Differ \in SUBSET Nat BY <2>1
    <3> HIDE DEF Differ
    <3> QED BY <3>1, EarliestProperty
  <2>3. ASSUME NEW index \in 1 .. first - 1
        PROVE  index \in DOMAIN t /\ s[index] = t[index]
    <3>1. index \in DOMAIN s /\ ~(first <= index) BY <2>1, <2>2
    <3>2. index \notin Differ BY <2>2, <3>1
    <3> QED BY <3>1, <3>2
  <2>4. PICK place \in DOMAIN t : t[place] = s[first] BY <1>1, <2>2 DEF Range
  <2>5. ~(place < first)
    <3> SUFFICES ASSUME place < first PROVE FALSE OBVIOUS
    <3>1. s[place] = t[place] /\ place \in DOMAIN s BY <2>1, <2>2, <2>3
    <3>2. s[place].id < s[first].id BY <1>1, <2>2, <3>1 DEF RisesById
    <3> QED BY <2>1, <2>2, <2>4, <3>1, <3>2
  <2>6. place # first BY <2>2, <2>4
  <2>7. first \in DOMAIN t /\ first < place BY <2>1, <2>2, <2>5, <2>6
  <2>8. PICK back \in DOMAIN s : s[back] = t[first] BY <1>1, <2>7 DEF Range
  <2>9. t[first].id < t[place].id BY <1>1, <2>7 DEF RisesById
  <2>10. s[back].id < s[first].id BY <2>4, <2>8, <2>9
  <2>11. back < first
    <3> SUFFICES ASSUME first <= back PROVE FALSE BY <2>1, <2>2
    <3>1. first = back \/ first < back BY <2>1, <2>2
    <3>2. s[first].id <= s[back].id BY <1>1, <2>1, <2>2, <3>1 DEF RisesById
    <3> QED BY <2>1, <2>2, <2>10, <3>2
  <2>12. s[back] = t[back] /\ back \in DOMAIN t BY <2>1, <2>2, <2>3, <2>11
  <2>13. t[back].id < t[first].id BY <1>1, <2>7, <2>11, <2>12 DEF RisesById
  <2> QED BY <2>1, <2>7, <2>8, <2>12, <2>13
<1>2. /\ Len(list) \in Nat /\ DOMAIN list = 1..Len(list)
      /\ Len(other) \in Nat /\ DOMAIN other = 1..Len(other)
  BY LenProperties
<1>3. DOMAIN list = DOMAIN other BY <1>1
<1>4. Len(list) = Len(other)
  <2>1. ~(Len(list) < Len(other))
    <3> SUFFICES ASSUME Len(list) < Len(other) PROVE FALSE OBVIOUS
    <3>1. Len(other) \in 1..Len(other) /\ Len(other) \notin 1..Len(list) BY <1>2
    <3> QED BY <1>2, <1>3, <3>1
  <2>2. ~(Len(other) < Len(list))
    <3> SUFFICES ASSUME Len(other) < Len(list) PROVE FALSE OBVIOUS
    <3>1. Len(list) \in 1..Len(list) /\ Len(list) \notin 1..Len(other) BY <1>2
    <3> QED BY <1>2, <1>3, <3>1
  <2>3. \A x, y \in Nat : ~(x < y) /\ ~(y < x) => x = y OBVIOUS
  <2> QED BY <1>2, <2>1, <2>2, <2>3
<1>5. \A index \in 1..Len(list) : list[index] = other[index] BY <1>1, <1>2
<1> QED BY <1>4, <1>5, SeqEqual

-----------------------------------------------------------------------------
(* The lookups *)

\* The kinds of failure stand for no success, and a refused key is one of them.
LEMMA KindsOfFailure ==
    ASSUME NEW status \in Nat
    PROVE  KindOf(status) # "none" /\ KindOf(401) = "unauthorised"
BY DEF KindOf

\* What the enricher's upstream can reply.
LEMMA RepliesAre ==
    ASSUME package \in Packages, NEW reply \in Replies
    PROVE  \/ reply.status \in Nat \ {200} /\ reply.says = "nothing" /\ reply.items = << >>
           \/ /\ reply.status = 200 /\ reply.says \in {"too large", "malformed"}
              /\ reply.items = << >>
           \/ /\ reply.status = 200 /\ reply.says = "ok"
              /\ reply.items \in Bodies[package] /\ reply.items \in Seq(Item)
           \/ /\ package = "urlhaus" /\ reply.status = 200 /\ reply.items = << >>
              /\ reply.says \in {"no_results", "unknown_auth_key", "invalid_host"}
<1>1. ASSUME NEW status \in Statuses, reply = Error(status)
      PROVE  reply.status \in Nat \ {200} /\ reply.says = "nothing" /\ reply.items = << >>
  BY <1>1, EnrichmentAssumption DEF Error
<1>2. ASSUME NEW says \in {"too large", "malformed"}, reply = Body(says, << >>)
      PROVE  reply.status = 200 /\ reply.says = says /\ reply.items = << >>
  BY ONLY <1>2 DEF Body
<1>3. ASSUME NEW items \in Bodies[package], reply = Body("ok", items)
      PROVE  /\ reply.status = 200 /\ reply.says = "ok"
             /\ reply.items \in Bodies[package] /\ reply.items \in Seq(Item)
  BY <1>3, EnrichmentAssumption DEF Body
<1>4. ASSUME package = "urlhaus",
             NEW says \in {"no_results", "unknown_auth_key", "invalid_host"},
             reply = Body(says, << >>)
      PROVE  /\ package = "urlhaus" /\ reply.status = 200 /\ reply.items = << >>
             /\ reply.says \in {"no_results", "unknown_auth_key", "invalid_host"}
  BY <1>4 DEF Body
<1>5. \/ \E status \in Statuses : reply = Error(status)
      \/ \E says \in {"too large", "malformed"} : reply = Body(says, << >>)
      \/ \E items \in Bodies[package] : reply = Body("ok", items)
      \/ /\ package = "urlhaus"
         /\ \E says \in {"no_results", "unknown_auth_key", "invalid_host"} :
               reply = Body(says, << >>)
  BY Zenon DEF Replies
<1> QED BY <1>1, <1>2, <1>3, <1>4, <1>5, Zenon

\* The order in which a package stores the items of an answer.
Stored(name, items) ==
    CASE name \in {"internetdb", "abuseipdb"} -> SortedUnique(items)
      [] name = "ipinfo" -> items
      [] name \in {"otx", "shodan", "urlhaus"} -> SortedById(items)
      [] name = "virustotal" -> Compact(SortedById(items))

\* What becomes of a lookup whose data comes straight from the body.
LEMMA LookUpKnownSays ==
    ASSUME package \in Packages, NEW reply \in Replies, NEW data,
           reply.says \notin {"no_results", "unknown_auth_key", "invalid_host"}
    PROVE  /\ reply.says = "ok" => LookUpKnown(reply, data) = Reported(data)
           /\ reply.says # "ok" => /\ LookUpKnown(reply, data).data = << >>
                                   /\ LookUpKnown(reply, data).error # "none"
           /\ reply.status = 401 => LookUpKnown(reply, data).error = "unauthorised"
           /\ reply.says = "ok" \/ reply.status = 401 =>
                 FetchError(reply) \in {"none", "unauthorised"}
<1>1. CASE reply.status \in Nat \ {200} /\ reply.says = "nothing"
  <2>1. FetchError(reply) = KindOf(reply.status) BY <1>1 DEF FetchError
  <2>2. FetchError(reply) # "none"
    <3>1. reply.status \in Nat BY <1>1
    <3> QED BY <2>1, <3>1, KindsOfFailure
  <2>3. LookUpKnown(reply, data) = Failed(FetchError(reply)) BY <2>2 DEF LookUpKnown
  <2>4. reply.status = 401 => FetchError(reply) = "unauthorised"
    <3>1. 401 \in Nat OBVIOUS
    <3> QED BY <2>1, <3>1, KindsOfFailure
  <2>5. reply.says # "ok" BY <1>1
  <2>7. /\ LookUpKnown(reply, data).data = << >>
        /\ LookUpKnown(reply, data).error = FetchError(reply)
    BY <2>3 DEF Failed
  <2> QED BY <2>2, <2>4, <2>5, <2>7
<1>2. CASE reply.status = 200 /\ reply.says = "too large"
  <2>1. FetchError(reply) = "other" BY <1>2 DEF FetchError
  <2>2. LookUpKnown(reply, data) = Failed("other") BY <2>1 DEF LookUpKnown
  <2>3. LookUpKnown(reply, data).data = << >> /\ LookUpKnown(reply, data).error = "other"
    BY <2>2 DEF Failed
  <2>4. reply.says # "ok" /\ reply.status = 200 BY <1>2, Zenon
  <2>5. reply.status # 401 BY <2>4
  <2> QED BY <2>1, <2>3, <2>4, <2>5, Zenon
<1>3. CASE reply.status = 200 /\ reply.says = "malformed"
  <2>1. FetchError(reply) = "none" BY <1>3 DEF FetchError
  <2>2. LookUpKnown(reply, data) = Failed("other") BY <1>3, <2>1 DEF LookUpKnown, NewReports
  <2>3. LookUpKnown(reply, data).data = << >> /\ LookUpKnown(reply, data).error = "other"
    BY <2>2 DEF Failed
  <2>4. reply.says # "ok" /\ reply.status # 401 BY <1>3
  <2> QED BY <2>3, <2>4
<1>4. CASE reply.status = 200 /\ reply.says = "ok"
  <2>1. FetchError(reply) = "none" BY <1>4 DEF FetchError
  <2>2. LookUpKnown(reply, data) = Reported(data) BY <1>4, <2>1 DEF LookUpKnown, NewReports
  <2>3. reply.status # 401 BY <1>4
  <2> QED BY <1>4, <2>1, <2>2, <2>3
<1>5. \/ reply.status \in Nat \ {200} /\ reply.says = "nothing"
      \/ reply.status = 200 /\ reply.says = "too large"
      \/ reply.status = 200 /\ reply.says = "malformed"
      \/ reply.status = 200 /\ reply.says = "ok"
  <2>1. \/ reply.status \in Nat \ {200} /\ reply.says = "nothing"
        \/ reply.status = 200 /\ reply.says \in {"too large", "malformed"}
        \/ reply.status = 200 /\ reply.says = "ok"
        \/ reply.says \in {"no_results", "unknown_auth_key", "invalid_host"}
    BY RepliesAre, Zenon
  <2> QED BY <2>1, Zenon
<1> QED BY <1>1, <1>2, <1>3, <1>4, <1>5

\* An answer is stored in the package's order, what is no answer adds nothing, and
\* a refusal of the key stops the enricher.
LEMMA LookUpSays ==
    ASSUME package \in Packages, package # "spamhaus", NEW reply \in Replies,
           NEW result, result = LookUp(package, reply)
    PROVE  /\ reply.says = "ok" => result = Reported(Stored(package, reply.items))
           /\ reply.says # "ok" => result.data = << >>
           /\ reply.status = 401 \/ reply.says = "unknown_auth_key" =>
                 result.error = "unauthorised"
<1>1. package \in PerAddress BY EnrichmentAssumption
<1> DEFINE data == Stored(package, reply.items)
           Fits(found) ==
              /\ reply.says = "ok" => found = Reported(data)
              /\ reply.says # "ok" => found.data = << >>
              /\ reply.status = 401 => found.error = "unauthorised"
<1> SUFFICES /\ Fits(result)
             /\ reply.says = "unknown_auth_key" => result.error = "unauthorised"
  OBVIOUS
<1>2. CASE package # "urlhaus"
  <2>0. reply.says \notin {"no_results", "unknown_auth_key", "invalid_host"}
    <3>1. reply.says \in {"nothing", "too large", "malformed", "ok"} BY <1>2, RepliesAre, Zenon
    <3> QED BY <3>1
  <2>1. reply.says # "unknown_auth_key" BY <2>0
  <2>2. Fits(LookUpKnown(reply, data))
    <3> HIDE DEF data
    <3> QED BY <2>0, LookUpKnownSays
  <2>3. Fits(LookUpIfKnown(reply, data))
    <3>1. CASE FetchError(reply) = "not found"
      <4>1. FetchError(reply) \notin {"none", "unauthorised"} BY <3>1, Zenon
      <4>3. reply.says # "ok" /\ reply.status # 401 BY <2>0, <4>1, LookUpKnownSays
      <4> QED BY <3>1, <4>3, Zenon DEF LookUpIfKnown, NothingKnown
    <3>2. CASE FetchError(reply) # "not found"
      <4>1. LookUpIfKnown(reply, data) = LookUpKnown(reply, data) BY <3>2 DEF LookUpIfKnown
      <4> QED BY <2>2, <4>1
    <3> QED BY <3>1, <3>2
  <2>4. reply.status = 403 => Fits(Failed("rejected"))
    <3>1. reply.says = "ok" => reply.status = 200 BY RepliesAre
    <3> QED BY <3>1 DEF Failed
  <2>5. \/ result = LookUpKnown(reply, data)
        \/ result = LookUpIfKnown(reply, data)
        \/ reply.status = 403 /\ result = Failed("rejected")
    <3>1. CASE package = "internetdb" BY <3>1 DEF LookUp, InternetDB, Stored
    <3>2. CASE package = "ipinfo" BY <3>2 DEF LookUp, IPinfo, Stored
    <3>3. CASE package = "abuseipdb" BY <3>3 DEF LookUp, AbuseIPDB, Stored
    <3>4. CASE package = "otx" BY <3>4 DEF LookUp, OTX, Stored
    <3>5. CASE package = "virustotal" BY <3>5 DEF LookUp, VirusTotal, Stored
    <3>6. CASE package = "shodan" BY <3>6 DEF LookUp, Shodan, Stored
    <3> QED BY <1>1, <1>2, <3>1, <3>2, <3>3, <3>4, <3>5, <3>6 DEF PerAddress
  <2> HIDE DEF Fits
  <2> QED BY <2>1, <2>2, <2>3, <2>4, <2>5
<1>3. CASE package = "urlhaus"
  <2>1. result = URLhaus(reply) BY <1>3 DEF LookUp
  <2>2. CASE reply.says = "no_results"
    <3>1. reply.status = 200 BY <2>2, RepliesAre
    <3> QED BY <2>1, <2>2, <3>1 DEF URLhaus, NothingKnown
  <2>3. CASE reply.says = "unknown_auth_key"
    <3>1. reply.status = 200 BY <2>3, RepliesAre
    <3> QED BY <2>1, <2>3, <3>1 DEF URLhaus, Failed
  <2>4. CASE reply.says = "invalid_host"
    <3>1. reply.status = 200 BY <2>4, RepliesAre
    <3> QED BY <2>1, <2>4, <3>1 DEF URLhaus, Failed
  <2>5. CASE reply.says \notin {"no_results", "unknown_auth_key", "invalid_host"}
    <3>1. Fits(LookUpKnown(reply, data))
      <4> HIDE DEF data
      <4> QED BY <2>5, LookUpKnownSays
    <3>2. data = SortedById(reply.items) BY <1>3 DEF Stored
    <3>3. result = LookUpKnown(reply, data) BY <2>1, <2>5, <3>2 DEF URLhaus
    <3> QED BY <2>5, <3>1, <3>3
  <2> QED BY <2>2, <2>3, <2>4, <2>5
<1> QED BY <1>2, <1>3

-----------------------------------------------------------------------------
(* Histories *)

\* What is observed, whatever an upstream is asked: data has to do with items.
Said == [value : Seq(Item), layout : {"compact", "indented"}]

Asked == [key : {NoKey} \cup Ids, flags : {{}}, data : Said]

Noted ==
    [key : {NoKey} \cup Ids, firstObserved : Nat, lastObserved : Nat, flags : {{}}, data : Said]

\* An observation or a report is of an answer as the package stores it or, for
\* Spamhaus, of one netblock.
IsEntry(name, entry) ==
    IF name = "spamhaus"
    THEN \E item \in Item : entry.key = item.id /\ entry.data.value = <<item>>
    ELSE /\ entry.key = NoKey
         /\ \E items \in Bodies[name] : entry.data.value = Stored(name, items)

\* Two successive observations of one thing say different things.
Changes(observations) ==
    \A index \in 1 .. Len(observations) - 1 :
        observations[index].key = observations[index + 1].key
        => observations[index].data.value # observations[index + 1].data.value

Kept(name) ==
    {observations \in Seq(Noted) :
        /\ \A index \in DOMAIN observations : IsEntry(name, observations[index])
        /\ Changes(observations)}

History(name) == [lastChecked : Nat, lastError : Nat, observations : Kept(name)]

SaysLast(observations, value) ==
    observations # << >> /\ observations[Len(observations)].data.value = value

\* What the newest observation of a list said is still said.
StillSays(before, after) ==
    /\ Len(after) = Len(before)
    /\ \A value : SaysLast(before, value) => SaysLast(after, value)

\* A list of reports on one address, as long as limit.
AreReports(name, reports, limit) ==
    /\ DOMAIN reports = 1..limit
    /\ \A index \in 1..limit : reports[index] \in Asked /\ IsEntry(name, reports[index])

\* The order in which answers are stored changes nothing of what they say.
LEMMA StoredSays ==
    ASSUME NEW name \in PerAddress, NEW items \in Seq(Item)
    PROVE  Stored(name, items) \in Seq(Item) /\ Range(Stored(name, items)) = Range(items)
<1>1. SortedById(items) \in Seq(Item) /\ Range(SortedById(items)) = Range(items)
  BY SortedByIdSays
<1>2. /\ Compact(SortedById(items)) \in Seq(Item)
      /\ Range(Compact(SortedById(items))) = Range(items)
  BY <1>1, CompactSays
<1>3. SortedUnique(items) \in Seq(Item) /\ Range(SortedUnique(items)) = Range(items)
  BY SortedUniqueSays
<1>4. CASE name \in {"internetdb", "abuseipdb"} BY <1>3, <1>4 DEF Stored
<1>5. CASE name = "ipinfo" BY <1>5 DEF Stored
<1>6. CASE name \in {"otx", "shodan", "urlhaus"} BY <1>1, <1>6 DEF Stored
<1>7. CASE name = "virustotal" BY <1>2, <1>7 DEF Stored
<1> QED BY <1>4, <1>5, <1>6, <1>7 DEF PerAddress

\* Extending an observation and laying it out keep what it says.
LEMMA NotedParts ==
    ASSUME NEW observation \in Noted, NEW time \in Nat
    PROVE  /\ Extended(observation, time) \in Noted
           /\ Extended(observation, time).key = observation.key
           /\ Extended(observation, time).data = observation.data
           /\ observation.flags = {}
           /\ LaidOut(observation) \in Noted
           /\ LaidOut(observation).key = observation.key
           /\ LaidOut(observation).data.value = observation.data.value
<1>1. /\ Extended(observation, time) \in Noted
      /\ Extended(observation, time).key = observation.key
      /\ Extended(observation, time).data = observation.data
      /\ observation.flags = {}
  BY DEF Noted, Extended
<1>2. PICK data : data = [observation.data EXCEPT !.layout = "indented"] OBVIOUS
<1>3. data \in Said /\ data.value = observation.data.value BY <1>2 DEF Noted, Said
<1>4. ValidText(observation.key) = observation.key
  <2>1. observation.key \in Ids \cup {NoKey} BY DEF Noted
  <2>2. observation.key \notin InvalidTexts BY <2>1, EnrichmentAssumption, RecordAssumption
  <2> QED BY <2>2 DEF ValidText
<1>5. LaidOut(observation) = [observation EXCEPT !.key = observation.key, !.data = data]
  BY <1>2, <1>4 DEF LaidOut
<1>6. /\ LaidOut(observation) \in Noted
      /\ LaidOut(observation).key = observation.key
      /\ LaidOut(observation).data = data
  BY <1>3, <1>5 DEF Noted
<1> QED BY <1>1, <1>3, <1>6

\* Only keys and values matter to the entries and changes of a list.
LEMMA KeptAgain ==
    ASSUME NEW name, NEW before \in Kept(name), NEW after \in Seq(Noted),
           Len(after) = Len(before),
           \A index \in 1..Len(before) :
              /\ after[index].key = before[index].key
              /\ after[index].data.value = before[index].data.value
    PROVE  after \in Kept(name)
<1>1. /\ Len(before) \in Nat /\ DOMAIN before = 1..Len(before)
      /\ DOMAIN after = 1..Len(before) /\ before \in Seq(Noted)
  BY LenProperties DEF Kept
<1>2. \A index \in DOMAIN after : IsEntry(name, after[index])
  BY <1>1 DEF Kept, IsEntry
<1>3. Changes(after)
  <2> SUFFICES ASSUME NEW index \in 1 .. Len(before) - 1, after[index].key = after[index + 1].key
               PROVE  after[index].data.value # after[index + 1].data.value
    BY DEF Changes
  <2>1. index \in 1..Len(before) /\ index + 1 \in 1..Len(before) BY <1>1
  <2>2. Changes(before) BY DEF Kept
  <2> QED BY <2>1, <2>2 DEF Changes
<1> QED BY <1>2, <1>3 DEF Kept

\* An iteration of addReports keeps a list as it has to be, and without keys the
\* newest observation then says what the report says.
LEMMA ApplyKeeps ==
    ASSUME NEW name, NEW observations \in Kept(name), NEW report \in Asked,
           IsEntry(name, report), NEW time \in Nat, NEW result,
           result = ApplyReport(observations, report, time)
    PROVE  /\ result \in Kept(name)
           /\ name # "spamhaus" => SaysLast(result, report.data.value)
<1>1. /\ Len(observations) \in Nat /\ DOMAIN observations = 1..Len(observations)
      /\ observations \in Seq(Noted)
      /\ \A index \in DOMAIN observations : observations[index] \in Noted
  BY LenProperties, ElementOfSeq DEF Kept
<1> DEFINE unchanged == {index \in LatestObservationIndex(observations, report.key) :
                            HasSameContent(observations[index], report)}
<1>2. CASE unchanged # {}
  <2>1. result = [index \in DOMAIN observations |->
                    IF index \in unchanged THEN Extended(observations[index], time)
                    ELSE observations[index]]
    BY <1>2 DEF ApplyReport
  <2>2. PICK at \in unchanged : TRUE BY <1>2
  <2>3. /\ at \in DOMAIN observations
        /\ observations[at].data.value = report.data.value
        /\ \A later \in DOMAIN observations :
              observations[later].key = report.key => later <= at
    BY <2>2 DEF LatestObservationIndex, HasSameContent
  <2> HIDE DEF unchanged
  <2>4. \A index \in DOMAIN observations :
           /\ result[index] \in Noted /\ result[index].key = observations[index].key
           /\ result[index].data = observations[index].data
    BY <1>1, <2>1, NotedParts
  <2>5. result \in Seq(Noted) /\ Len(result) = Len(observations)
    <3>1. result = [index \in 1..Len(observations) |-> result[index]] BY <1>1, <2>1
    <3>2. result \in [1..Len(observations) -> Noted] BY <1>1, <2>4, <3>1
    <3>3. result \in Seq(Noted) BY <1>1, <3>2
    <3> QED BY <1>1, <3>1, <3>3, LenProperties
  <2>6. result \in Kept(name)
    <3>1. \A index \in 1..Len(observations) :
             /\ result[index].key = observations[index].key
             /\ result[index].data.value = observations[index].data.value
      BY <1>1, <2>4
    <3> QED BY <2>5, <3>1, KeptAgain
  <2>7. ASSUME name # "spamhaus" PROVE SaysLast(result, report.data.value)
    <3>1. \A index \in DOMAIN observations : observations[index].key = report.key
      BY <2>7 DEF Kept, IsEntry
    <3>2. Len(observations) \in DOMAIN observations /\ Len(observations) <= at
      BY <1>1, <2>3, <3>1
    <3>3. at = Len(observations) BY <1>1, <2>3, <3>2
    <3>4. result # << >> BY <1>1, <2>5, <3>2
    <3> QED BY <2>3, <2>4, <2>5, <3>3, <3>4 DEF SaysLast
  <2> QED BY <2>6, <2>7
<1>3. CASE unchanged = {}
  <2>1. PICK added : added = NewObservation(report, time) OBVIOUS
  <2>2. result = Append(observations, added) BY <1>3, <2>1 DEF ApplyReport
  <2>3. added \in Noted /\ added.key = report.key /\ added.data = report.data
    BY <2>1 DEF NewObservation, Noted, Asked
  <2>4. /\ result \in Seq(Noted) /\ Len(result) = Len(observations) + 1
        /\ \A index \in 1..Len(observations) : result[index] = observations[index]
        /\ result[Len(observations) + 1] = added
    BY <1>1, <2>2, <2>3, AppendProperties
  <2>5. DOMAIN result = 1 .. Len(observations) + 1 BY <2>4, LenProperties
  <2>6. IsEntry(name, added) BY <2>3 DEF IsEntry
  <2>7. \A index \in DOMAIN result : IsEntry(name, result[index])
    <3>1. \A index \in DOMAIN observations : IsEntry(name, observations[index]) BY DEF Kept
    <3> QED BY <1>1, <2>4, <2>5, <2>6, <3>1
  <2>8. Changes(result)
    <3> SUFFICES ASSUME NEW index \in 1..Len(observations),
                        result[index].key = result[index + 1].key
                 PROVE  result[index].data.value # result[index + 1].data.value
      BY <1>1, <2>4 DEF Changes
    <3>1. CASE index < Len(observations)
      <4>1. index \in 1 .. Len(observations) - 1 /\ index + 1 \in 1..Len(observations)
        BY <1>1, <3>1
      <4>2. result[index] = observations[index] /\ result[index + 1] = observations[index + 1]
        BY <2>4, <4>1
      <4>3. Changes(observations) BY DEF Kept
      <4> QED BY <4>1, <4>2, <4>3 DEF Changes
    <3>2. CASE index = Len(observations)
      <4>1. observations[index].key = report.key BY <2>3, <2>4, <3>2
      <4>2. index \in LatestObservationIndex(observations, report.key)
        BY <1>1, <3>2, <4>1 DEF LatestObservationIndex
      <4>3. ~HasSameContent(observations[index], report) BY <1>3, <4>2
      <4>4. observations[index].flags = {} /\ report.flags = {}
        BY <1>1, NotedParts DEF Asked
      <4>5. observations[index].data.value # report.data.value
        BY <4>3, <4>4, Zenon DEF HasSameContent
      <4>6. result[index] = observations[index] /\ result[index + 1] = added
        BY <2>4, <3>2
      <4> QED BY <2>3, <4>5, <4>6
    <3>3. \A size \in Nat : \A x \in 1..size : x < size \/ x = size OBVIOUS
    <3>4. Len(observations) \in Nat BY <1>1
    <3> QED BY <3>1, <3>2, <3>3, <3>4
  <2>9. SaysLast(result, report.data.value)
    <3>1. result # << >> BY <1>1, <2>4
    <3> QED BY <2>3, <2>4, <3>1 DEF SaysLast
  <2> QED BY <2>4, <2>7, <2>8, <2>9 DEF Kept
<1> QED BY <1>2, <1>3

\* Encoding keeps a history as it has to be, and what it says last.
LEMMA EncodedKeeps ==
    ASSUME NEW name, NEW history \in History(name), NEW result,
           result = EncodedHistory(history).observations
    PROVE  /\ EncodedHistory(history) \in History(name)
           /\ result \in Kept(name)
           /\ StillSays(history.observations, result)
<1> DEFINE observations == history.observations
           laid == [index \in DOMAIN observations |-> LaidOut(observations[index])]
<1>1. /\ Len(observations) \in Nat /\ DOMAIN observations = 1..Len(observations)
      /\ observations \in Seq(Noted) /\ observations \in Kept(name)
      /\ \A index \in DOMAIN observations : observations[index] \in Noted
  BY LenProperties, ElementOfSeq DEF History, Kept
<1>2. EncodedHistory(history) = [history EXCEPT !.observations = laid] BY DEF EncodedHistory
<1>3. \A index \in DOMAIN observations :
         /\ laid[index] \in Noted /\ laid[index].key = observations[index].key
         /\ laid[index].data.value = observations[index].data.value
  <2>1. 0 \in Nat OBVIOUS
  <2> QED BY <1>1, <2>1, NotedParts
<1>4. laid \in Seq(Noted) /\ Len(laid) = Len(observations)
  <2>1. laid = [index \in 1..Len(observations) |-> laid[index]] BY <1>1
  <2> HIDE DEF laid, observations
  <2>2. laid \in [1..Len(observations) -> Noted] BY <1>1, <1>3, <2>1
  <2>3. laid \in Seq(Noted) BY <1>1, <2>2
  <2>4. DOMAIN laid = 1..Len(observations) BY <2>1
  <2> QED BY <1>1, <2>3, <2>4, LenProperties
<1>5. laid \in Kept(name)
  <2> HIDE DEF laid, observations
  <2> QED BY <1>1, <1>3, <1>4, KeptAgain
<1> HIDE DEF laid
<1>6. EncodedHistory(history) \in History(name) /\ result = laid
  BY <1>2, <1>5 DEF History
<1>7. ASSUME NEW value, SaysLast(observations, value) PROVE SaysLast(laid, value)
  <2>1. Len(observations) \in DOMAIN observations
    <3>1. Len(observations) # 0 BY <1>1, <1>7 DEF SaysLast
    <3> QED BY <1>1, <3>1
  <2>2. laid # << >>
    <3>1. Len(observations) # 0 BY <1>1, <1>7 DEF SaysLast
    <3> QED BY <1>4, <3>1
  <2> QED BY <1>3, <1>4, <1>7, <2>1, <2>2 DEF SaysLast
<1> QED BY <1>4, <1>5, <1>6, <1>7 DEF StillSays

\* What is left of an answer in a history: what it said before, without reports,
\* and, for a source that says one thing of an address, what its report says.
LEMMA AddReportsKeeps ==
    ASSUME NEW name, NEW history \in History(name), clock \in Nat,
           NEW limit \in Nat, NEW reports, AreReports(name, reports, limit),
           NEW result, result = AddReports(history, reports)
    PROVE  /\ result \in History(name)
           /\ limit = 0 => StillSays(history.observations, result.observations)
           /\ name # "spamhaus" /\ limit = 1 =>
                 SaysLast(result.observations, reports[1].data.value)
<1>1. PICK answered : answered = Answered(history, clock) OBVIOUS
<1>2. /\ answered \in History(name) /\ answered.observations = history.observations
  BY <1>1 DEF Answered, History, ZeroTime
<1>3. PICK time : time = clock OBVIOUS
<1>4. \A before \in Kept(name) : \A index \in 1..limit :
         /\ ApplyReport(before, reports[index], time) \in Kept(name)
         /\ name # "spamhaus" =>
               SaysLast(ApplyReport(before, reports[index], time), reports[index].data.value)
  BY <1>3, ApplyKeeps DEF AreReports
<1>5. answered.observations \in Kept(name) BY <1>2 DEF History
<1>6. PICK after \in [0..limit -> Kept(name)] :
         /\ after[0] = answered.observations
         /\ \A index \in 1..limit :
               after[index] = ApplyReport(after[index - 1], reports[index], time)
         /\ Folded(answered.observations, reports, time) = after[limit]
  <2>1. PICK V : V = Kept(name) OBVIOUS
  <2>2. PICK base \in V : base = answered.observations BY <1>5, <2>1
  <2>3. KeepTo(V, reports, limit, time) BY <1>4, <2>1 DEF KeepTo
  <2>4. \E after \in [0..limit -> V] : IsFold(after, base, reports, limit, time)
    BY <2>3, FoldedReports DEF AreReports
  <2> QED BY <2>1, <2>2, <2>4 DEF IsFold
<1>7. PICK folded : folded = [answered EXCEPT !.observations = after[limit]] OBVIOUS
<1>8. result = EncodedHistory(folded)
  <2>1. result = EncodedHistory([Answered(history, clock) EXCEPT !.observations =
                    Folded(Answered(history, clock).observations, reports, clock)])
    BY DEF AddReports, Folded, FoldLeft, MapThenFoldSet
  <2> QED BY <1>1, <1>3, <1>6, <1>7, <2>1
<1>9. after[limit] \in Kept(name) /\ after[0] \in Kept(name)
  <2>1. limit \in 0..limit /\ 0 \in 0..limit OBVIOUS
  <2> QED BY <2>1
<1>10. folded \in History(name) /\ folded.observations = after[limit]
  BY <1>2, <1>7, <1>9 DEF History
<1>11. result \in History(name) /\ StillSays(folded.observations, result.observations)
  BY <1>8, <1>10, EncodedKeeps
<1>12. limit = 0 => folded.observations = history.observations
  BY <1>2, <1>6, <1>10
<1>13. ASSUME name # "spamhaus", limit = 1
       PROVE  SaysLast(folded.observations, reports[1].data.value)
  <2>1. 1 \in 1..limit /\ 1 - 1 = 0 BY <1>13
  <2>2. after[1] = ApplyReport(after[0], reports[1], time) BY <1>6, <2>1
  <2> QED BY <1>4, <1>9, <1>10, <1>13, <2>1, <2>2
<1> QED BY <1>11, <1>12, <1>13 DEF StillSays

\* Reports are made for one thing, without flags.
LEMMA NewReportSays ==
    ASSUME NEW key \in {NoKey} \cup Ids, NEW value \in Seq(Item), NEW report,
           report = NewReport(key, {}, value)
    PROVE  report \in Asked /\ report.key = key /\ report.data.value = value
<1>1. NormaliseFlags({}) = {} BY DEF NormaliseFlags
<1> QED BY <1>1 DEF NewReport, Asked, Said

\* A match is about one netblock.
LEMMA MatchesSay ==
    ASSUME NEW netblocks \in Seq(Item), NEW address, NEW reports,
           reports = Matches(netblocks, address)
    PROVE  \E limit \in Nat : AreReports("spamhaus", reports, limit)
<1> DEFINE places == {index \in DOMAIN netblocks : address \in Holds[netblocks[index].id]}
<1>1. PICK matching : matching = ItemsAt(netblocks, places) OBVIOUS
<1>2. matching \in Seq(Item)
  <2>1. places \in SUBSET DOMAIN netblocks OBVIOUS
  <2> HIDE DEF places
  <2> QED BY <1>1, <2>1, ItemsAtSays
<1>3. /\ Len(matching) \in Nat /\ DOMAIN matching = 1..Len(matching)
      /\ \A index \in DOMAIN matching : matching[index] \in Item
  BY <1>2, LenProperties, ElementOfSeq
<1>4. reports = [index \in DOMAIN matching |->
                    NewReport(matching[index].id, {}, <<matching[index]>>)]
  BY <1>1 DEF Matches
<1>5. ASSUME NEW index \in 1..Len(matching)
      PROVE  reports[index] \in Asked /\ IsEntry("spamhaus", reports[index])
  <2>1. PICK item \in Item : item = matching[index] BY <1>3
  <2>2. item.id \in {NoKey} \cup Ids BY DEF Item
  <2>3. PICK value \in Seq(Item) : value = <<item>>
    <3>1. PICK value : value = <<item>> OBVIOUS
    <3>2. value \in Seq(Item) BY <3>1
    <3> QED BY <3>1, <3>2
  <2>4. PICK key \in {NoKey} \cup Ids : key = item.id BY <2>2
  <2>5. PICK report : report = NewReport(key, {}, value) OBVIOUS
  <2>6. reports[index] = report BY <1>3, <1>4, <2>1, <2>3, <2>4, <2>5
  <2>7. report \in Asked /\ report.key = key /\ report.data.value = value
    <3>1. value \in Seq(Item) /\ key \in {NoKey} \cup Ids BY <2>3, <2>4
    <3> QED BY ONLY <2>5, <3>1, NewReportSays
  <2>8. IsEntry("spamhaus", report) BY <2>3, <2>4, <2>7 DEF IsEntry
  <2> QED BY <2>6, <2>7, <2>8
<1> QED BY <1>3, <1>4, <1>5 DEF AreReports

-----------------------------------------------------------------------------
(* The invariant *)

Waiting == [address : Addresses, list : {1, 2}, netblocks : Seq(Item)]

TypeOK ==
    /\ package \in Packages
    /\ histories \in [Addresses -> History(package)]
    /\ clock \in Nat
    /\ left \subseteq Addresses
    /\ request \in SUBSET Waiting
    /\ \A waiting, other \in request : waiting = other
    /\ lists.isLoaded \in BOOLEAN /\ lists.netblocks \in Seq(Item)
    /\ log.keyRefused \in BOOLEAN
    /\ log.downloads \in 0..2
    /\ log \in [answered : SUBSET Addresses, keyRefused : {log.keyRefused},
                downloads : {log.downloads}, whole : SUBSET {1, 2},
                said : [Addresses -> SUBSET Item]]

\* Spamhaus's lists are downloaded one after the other, before anything is answered,
\* and count as loaded without an error only if each arrived well.
ListsTrue ==
    package = "spamhaus" =>
        /\ lists.isLoaded =>
              /\ request = {}
              /\ lists.error = "none" => log.whole = {1, 2}
        /\ ~lists.isLoaded =>
              /\ log.answered = {}
              /\ request = {} => left = {} \/ (log.downloads = 0 /\ log.whole = {})
        /\ \A waiting \in request :
              log.downloads = waiting.list /\ log.whole = 1 .. waiting.list - 1
        /\ log.answered # {} => log.whole = {1, 2}

Inv == TypeOK /\ RefusedKeyEndsLookups /\ ListsTrue /\ LatestIsWhatWasSaid

\* What LatestIsWhatWasSaid says of one address.
SaysWhatWasSaid(observations, said) ==
    IF observations = << >> THEN said = {}
    ELSE Range(Last(observations).data.value) = said

\* What it means in terms of SaysLast.
LEMMA LastSays ==
    ASSUME NEW name, NEW observations \in Kept(name), NEW said
    PROVE  /\ SaysWhatWasSaid(observations, said) /\ Len(observations) = 0 => said = {}
           /\ said = {} /\ Len(observations) = 0 => SaysWhatWasSaid(observations, said)
           /\ SaysWhatWasSaid(observations, said) /\ Len(observations) # 0 =>
                 /\ SaysLast(observations, observations[Len(observations)].data.value)
                 /\ Range(observations[Len(observations)].data.value) = said
           /\ \A value : SaysLast(observations, value) /\ Range(value) = said =>
                 SaysWhatWasSaid(observations, said)
<1>1. observations \in Seq(Noted) BY DEF Kept
<1>2. observations = << >> <=> Len(observations) = 0 BY <1>1
<1>3. Last(observations) = observations[Len(observations)] BY DEF Last
<1> QED BY <1>2, <1>3 DEF SaysWhatWasSaid, SaysLast

\* It only depends on what is said last.
LEMMA SaidAgain ==
    ASSUME NEW name, NEW before \in Kept(name), NEW after \in Kept(name),
           StillSays(before, after), NEW said, SaysWhatWasSaid(before, said)
    PROVE  SaysWhatWasSaid(after, said)
<1>1. CASE Len(before) = 0
  <2>1. said = {} BY <1>1, LastSays
  <2> QED BY <1>1, <2>1, LastSays DEF StillSays
<1>2. CASE Len(before) # 0
  <2>1. PICK value : value = before[Len(before)].data.value OBVIOUS
  <2>2. SaysLast(before, value) /\ Range(value) = said BY <1>2, <2>1, LastSays
  <2>3. SaysLast(after, value) BY <2>2 DEF StillSays
  <2> QED BY <2>2, <2>3, LastSays
<1> QED BY <1>1, <1>2

\* What a reply comes to: its items as one report, or none.
LEMMA ReplyReports ==
    ASSUME package \in Packages, package # "spamhaus", NEW reply \in Replies,
           NEW result, result = LookUp(package, reply), NEW reports,
           reports = [index \in DOMAIN result.data |-> NewReport(NoKey, {}, result.data[index])]
    PROVE  \E limit \in 0..1 :
              /\ AreReports(package, reports, limit)
              /\ reply.says # "ok" => limit = 0
              /\ reply.says = "ok" =>
                    /\ limit = 1 /\ result.error = "none"
                    /\ Range(reports[1].data.value) = Range(reply.items)
                    /\ Range(reply.items) \subseteq Item
<1>1. CASE reply.says # "ok"
  <2>1. result.data = << >> BY <1>1, LookUpSays
  <2>2. DOMAIN reports = 1..0 BY <2>1
  <2>3. 0 \in 0..1 /\ \A index \in 1..0 : FALSE OBVIOUS
  <2> QED BY <1>1, <2>2, <2>3 DEF AreReports
<1>2. CASE reply.says = "ok"
  <2>1. reply.items \in Bodies[package] /\ reply.items \in Seq(Item) BY <1>2, RepliesAre
  <2>2. package \in PerAddress BY EnrichmentAssumption
  <2>3. PICK value : value = Stored(package, reply.items) OBVIOUS
  <2>4. value \in Seq(Item) /\ Range(value) = Range(reply.items)
    BY <2>1, <2>2, <2>3, StoredSays
  <2>5. result = Reported(value) BY <1>2, <2>3, LookUpSays
  <2>6. result.error = "none" /\ result.data = <<value>> BY <2>5 DEF Reported
  <2>7. DOMAIN reports = 1..1 /\ reports[1] = NewReport(NoKey, {}, value) BY <2>6
  <2>8. NoKey \in {NoKey} \cup Ids OBVIOUS
  <2>9. PICK report : report = reports[1] OBVIOUS
  <2>10. report \in Asked /\ report.key = NoKey /\ report.data.value = value
    BY <2>4, <2>7, <2>8, <2>9, NewReportSays
  <2>11. IsEntry(package, report) BY <2>1, <2>3, <2>10 DEF IsEntry
  <2>12. Range(reply.items) \subseteq Item BY <2>1, RangeIsFinite
  <2>13. 1 \in 0..1 /\ \A index \in 1..1 : index = 1 OBVIOUS
  <2>14. AreReports(package, reports, 1) BY <2>7, <2>9, <2>10, <2>11, <2>13 DEF AreReports
  <2> QED BY <1>2, <2>4, <2>6, <2>9, <2>10, <2>12, <2>13, <2>14
<1> QED BY <1>1, <1>2

\* What a conclusion does to the histories and to the addresses left.
LEMMA ConcludeSays ==
    ASSUME TypeOK, NEW address \in Addresses, NEW error, NEW limit \in Nat, NEW reports,
           AreReports(package, reports, limit), Conclude(address, error, reports)
    PROVE  /\ histories' \in [Addresses -> History(package)]
           /\ \A other \in Addresses \ {address} : histories'[other] = histories[other]
           /\ error # "none" =>
                 histories'[address].observations = histories[address].observations
           /\ error = "none" => histories'[address] = AddReports(histories[address], reports)
           /\ left' \subseteq left
           /\ error = "unauthorised" => left' = {}
           /\ request' = {}
<1>1. "none" \notin StoppingErrors /\ "unauthorised" \in StoppingErrors
  BY Zenon DEF StoppingErrors
<1>2. histories \in [Addresses -> History(package)] /\ clock \in Nat BY DEF TypeOK
<1>3. histories[address] \in History(package) BY <1>2
<1>4. PICK history : history = histories[address] OBVIOUS
<1>5. PICK answered : answered = AddReports(history, reports) OBVIOUS
<1>6. answered \in History(package) BY <1>2, <1>3, <1>4, <1>5, AddReportsKeeps
<1>7. PICK failed : failed = [history EXCEPT !.lastError = clock] OBVIOUS
<1>8. failed \in History(package) /\ failed.observations = history.observations
  BY <1>2, <1>3, <1>4, <1>7 DEF History
<1>9. histories' = CASE error = "none" -> [histories EXCEPT ![address] = AddReports(@, reports)]
                     [] error \in StoppingErrors -> histories
                     [] OTHER -> [histories EXCEPT ![address].lastError = clock]
  BY DEF Conclude
<1>10. CASE error = "none"
  <2>1. histories' = [histories EXCEPT ![address] = answered]
    BY <1>1, <1>4, <1>5, <1>9, <1>10
  <2>2. /\ histories' \in [Addresses -> History(package)] /\ histories'[address] = answered
        /\ \A other \in Addresses \ {address} : histories'[other] = histories[other]
    BY <1>2, <1>6, <2>1
  <2>3. left' \subseteq left /\ request' = {} BY DEF Conclude
  <2> QED BY <1>4, <1>5, <1>10, <2>2, <2>3
<1>11. CASE error \in StoppingErrors
  <2>1. histories' = histories BY <1>1, <1>9, <1>11
  <2>2. left' = {} /\ request' = {} BY <1>11 DEF Conclude
  <2>3. error # "none" BY <1>1, <1>11
  <2> QED BY <1>2, <2>1, <2>2, <2>3
<1>12. CASE error # "none" /\ error \notin StoppingErrors
  <2>1. histories' = [histories EXCEPT ![address].lastError = clock] BY <1>9, <1>12
  <2>2. histories' = [histories EXCEPT ![address] = failed] BY <1>4, <1>7, <2>1
  <2>3. /\ histories' \in [Addresses -> History(package)] /\ histories'[address] = failed
        /\ \A other \in Addresses \ {address} : histories'[other] = histories[other]
    BY <1>2, <1>8, <2>2
  <2>4. left' \subseteq left /\ request' = {} BY DEF Conclude
  <2>5. error # "unauthorised" BY <1>1, <1>12
  <2> QED BY <1>4, <1>8, <1>12, <2>3, <2>4, <2>5
<1> QED BY <1>10, <1>11, <1>12

\* Nothing has happened yet.
LEMMA InitInv == Init => Inv
<1> SUFFICES ASSUME Init PROVE Inv OBVIOUS
<1>1. NewHistory \in History(package) /\ NewHistory.observations = << >>
  <2>1. << >> \in Seq(Noted) /\ DOMAIN << >> = {} /\ Len(<< >>) = 0 OBVIOUS
  <2>2. Changes(<< >>) BY <2>1 DEF Changes
  <2>3. << >> \in Kept(package) BY <2>1, <2>2 DEF Kept
  <2> QED BY <2>3 DEF NewHistory, History, ZeroTime
<1>2. TypeOK
  <2>1. /\ package \in Packages /\ clock = 1 /\ left = {} /\ request = {} /\ lists = NoLists
        /\ log = [answered |-> {}, keyRefused |-> FALSE, downloads |-> 0, whole |-> {},
                  said |-> [address \in Addresses |-> {}]]
    BY DEF Init
  <2>2. histories \in [Addresses -> History(package)] BY <1>1 DEF Init
  <2>3. lists.isLoaded \in BOOLEAN /\ lists.netblocks \in Seq(Item) BY <2>1 DEF NoLists
  <2>4. /\ log.keyRefused \in BOOLEAN /\ log.downloads \in 0..2
        /\ log \in [answered : SUBSET Addresses, keyRefused : {log.keyRefused},
                    downloads : {log.downloads}, whole : SUBSET {1, 2},
                    said : [Addresses -> SUBSET Item]]
    BY <2>1
  <2> QED BY <2>1, <2>2, <2>3, <2>4 DEF TypeOK
<1>3. RefusedKeyEndsLookups BY DEF Init, RefusedKeyEndsLookups
<1>4. ListsTrue BY DEF Init, ListsTrue, NoLists
<1>5. LatestIsWhatWasSaid
  <2>1. \A address \in Addresses :
           histories[address].observations = << >> /\ log.said[address] = {}
    BY <1>1 DEF Init
  <2> QED BY <2>1 DEF LatestIsWhatWasSaid
<1> QED BY <1>2, <1>3, <1>4, <1>5 DEF Inv

\* The parts of the log.
LogType(entry) ==
    /\ entry.keyRefused \in BOOLEAN
    /\ entry.downloads \in 0..2
    /\ entry \in [answered : SUBSET Addresses, keyRefused : {entry.keyRefused},
                  downloads : {entry.downloads}, whole : SUBSET {1, 2},
                  said : [Addresses -> SUBSET Item]]

\* Where no history and nothing that was said changes, the newest observations still
\* say it.
LEMMA LatestStays ==
    ASSUME LatestIsWhatWasSaid, package' = package, histories' = histories,
           log'.said = log.said
    PROVE  LatestIsWhatWasSaid'
BY DEF LatestIsWhatWasSaid

\* A run begins with an empty log.
LEMMA StartRunKeeps == ASSUME Inv, StartRun PROVE Inv'
<1>1. TypeOK'
  <2>1. /\ package' = package /\ histories' = histories /\ clock' = clock
        /\ left' \subseteq Addresses /\ request' = {} /\ lists' = NoLists
    BY DEF StartRun
  <2>2. log' = [log EXCEPT !.answered = {}, !.keyRefused = FALSE, !.downloads = 0,
                           !.whole = {}]
    BY DEF StartRun
  <2>3. LogType(log) BY DEF Inv, TypeOK, LogType
  <2>6. /\ log'.answered = {} /\ log'.keyRefused = FALSE /\ log'.downloads = 0
        /\ log'.whole = {} /\ log'.said = log.said
        /\ log' = [answered |-> {}, keyRefused |-> FALSE, downloads |-> 0, whole |-> {},
                   said |-> log.said]
    BY <2>2, <2>3 DEF LogType
  <2>7. log.said \in [Addresses -> SUBSET Item] BY <2>3 DEF LogType
  <2>4. LogType(log') BY <2>6, <2>7 DEF LogType
  <2>5. lists'.isLoaded \in BOOLEAN /\ lists'.netblocks \in Seq(Item) BY <2>1 DEF NoLists
  <2> QED BY <2>1, <2>4, <2>5 DEF Inv, TypeOK, LogType
<1>2. RefusedKeyEndsLookups'
  <2>1. log'.keyRefused = FALSE BY DEF StartRun, Inv, TypeOK
  <2> QED BY <2>1 DEF RefusedKeyEndsLookups
<1>3. ListsTrue'
  <2>1. log'.answered = {} /\ log'.downloads = 0 /\ log'.whole = {} /\ ~lists'.isLoaded
        /\ request' = {}
    BY DEF StartRun, Inv, TypeOK, NoLists
  <2> QED BY <2>1 DEF ListsTrue
<1>4. LatestIsWhatWasSaid'
  <2>1. /\ package' = package /\ histories' = histories /\ log'.said = log.said
    BY DEF StartRun, Inv, TypeOK
  <2> QED BY <2>1, LatestStays DEF Inv
<1> QED BY <1>1, <1>2, <1>3, <1>4 DEF Inv

\* A run that is cut short asks nothing more, and stores nothing.
LEMMA CutShortKeeps == ASSUME Inv, CutShort PROVE Inv'
<1>1. /\ package' = package /\ histories' = histories /\ clock' = clock /\ lists' = lists
      /\ log' = log /\ left' = {} /\ request' = {}
  BY DEF CutShort
<1>2. TypeOK' BY <1>1 DEF Inv, TypeOK
<1>3. RefusedKeyEndsLookups' BY <1>1 DEF RefusedKeyEndsLookups
<1>4. ListsTrue' BY <1>1 DEF Inv, ListsTrue
<1>5. LatestIsWhatWasSaid' BY <1>1, LatestStays DEF Inv
<1> QED BY <1>2, <1>3, <1>4, <1>5 DEF Inv

\* Time passes.
LEMMA TickKeeps == ASSUME Inv, Tick PROVE Inv'
<1>1. /\ package' = package /\ histories' = histories /\ clock' = clock + 1
      /\ lists' = lists /\ log' = log /\ left' = left /\ request' = request
  BY DEF Tick
<1>2. TypeOK' BY <1>1 DEF Inv, TypeOK
<1>3. RefusedKeyEndsLookups' BY <1>1 DEF Inv, RefusedKeyEndsLookups
<1>4. ListsTrue' BY <1>1 DEF Inv, ListsTrue
<1>5. LatestIsWhatWasSaid' BY <1>1, LatestStays DEF Inv
<1> QED BY <1>2, <1>3, <1>4, <1>5 DEF Inv

\* Nothing is sent once the key is refused, as then no address is left.
LEMMA SendKeeps == ASSUME Inv, Send PROVE Inv'
<1>1. PICK address \in left :
         /\ request' = {[address |-> address, list |-> 1, netblocks |-> << >>]}
         /\ left' = left \ {address}
  BY DEF Send
<1>2. /\ package' = package /\ histories' = histories /\ clock' = clock
      /\ lists' = lists /\ log' = log /\ package # "spamhaus"
  BY DEF Send
<1>3. TypeOK'
  <2>1. [address |-> address, list |-> 1, netblocks |-> << >>] \in Waiting
    BY <1>1 DEF Inv, TypeOK, Waiting
  <2> QED BY <1>1, <1>2, <2>1 DEF Inv, TypeOK
<1>4. RefusedKeyEndsLookups' BY <1>1, <1>2 DEF Inv, RefusedKeyEndsLookups
<1>5. ListsTrue' BY <1>2 DEF ListsTrue
<1>6. LatestIsWhatWasSaid' BY <1>2, LatestStays DEF Inv
<1> QED BY <1>3, <1>4, <1>5, <1>6 DEF Inv

\* The first lookup finds nothing loaded, and nothing answered.
LEMMA BeginLoadKeeps == ASSUME Inv, BeginLoad PROVE Inv'
<1>1. PICK address \in left :
         /\ request' = {[address |-> address, list |-> 1, netblocks |-> << >>]}
         /\ left' = left \ {address}
  BY DEF BeginLoad
<1>2. /\ package' = package /\ histories' = histories /\ clock' = clock
      /\ lists' = lists /\ package = "spamhaus" /\ request = {} /\ ~lists.isLoaded
      /\ log' = [log EXCEPT !.downloads = log.downloads + 1]
  BY DEF BeginLoad
<1>3. LogType(log) BY DEF Inv, TypeOK, LogType
<1>4. log.downloads = 0 /\ log.whole = {} /\ log.answered = {}
  BY <1>1, <1>2 DEF Inv, ListsTrue
<1>5. /\ log'.downloads = 1 /\ log'.whole = {} /\ log'.answered = {} /\ log'.said = log.said
      /\ log'.keyRefused = log.keyRefused /\ LogType(log')
  BY <1>2, <1>3, <1>4 DEF LogType
<1>6. TypeOK'
  <2>1. [address |-> address, list |-> 1, netblocks |-> << >>] \in Waiting
    BY <1>1 DEF Inv, TypeOK, Waiting
  <2> QED BY <1>1, <1>2, <1>5, <2>1 DEF Inv, TypeOK, LogType
<1>7. RefusedKeyEndsLookups' BY <1>1, <1>5 DEF Inv, RefusedKeyEndsLookups
<1>8. ListsTrue'
  <2>1. \A waiting \in request' : waiting.list = 1 BY <1>1
  <2>2. 1 .. 1 - 1 = {} OBVIOUS
  <2>3. \A waiting \in request' :
           log'.downloads = waiting.list /\ log'.whole = 1 .. waiting.list - 1
    BY <1>5, <2>1, <2>2
  <2>4. request' # {} /\ lists'.isLoaded = lists.isLoaded BY <1>1, <1>2
  <2> QED BY <1>2, <1>5, <2>3, <2>4 DEF ListsTrue
<1>9. LatestIsWhatWasSaid' BY <1>2, <1>5, LatestStays DEF Inv
<1> QED BY <1>6, <1>7, <1>8, <1>9 DEF Inv

\* The conclusion of a lookup only adds an answered address to the log.
LEMMA ConcludedSays ==
    ASSUME LogType(log), NEW address \in Addresses, NEW error,
           NEW concluded, concluded = Concluded(address, error)
    PROVE  /\ LogType(concluded) /\ concluded.said = log.said
           /\ concluded.whole = log.whole /\ concluded.downloads = log.downloads
           /\ concluded.keyRefused = log.keyRefused
           /\ error # "none" => concluded.answered = log.answered
<1>1. PICK answered \in SUBSET Addresses :
         /\ answered = log.answered \cup (IF error = "none" THEN {address} ELSE {})
  BY DEF LogType
<1>2. concluded = [log EXCEPT !.answered = answered] BY <1>1 DEF Concluded
<1>3. error # "none" => answered = log.answered BY <1>1
<1> QED BY <1>2, <1>3 DEF LogType

\* An answer is what the upstream says from then on, and a refusal leaves nothing
\* to ask.
LEMMA ReceiveKeeps == ASSUME Inv, Receive PROVE Inv'
<1>1. PICK waiting \in request, reply \in Replies :
         LET result == LookUp(package, reply)
             reports == [index \in DOMAIN result.data |->
                           NewReport(NoKey, {}, result.data[index])]
             isRefusal == reply.status = 401 \/ reply.says = "unknown_auth_key"
         IN  /\ Conclude(waiting.address, result.error, reports)
             /\ log' = [Concluded(waiting.address, result.error) EXCEPT
                   !.keyRefused = isRefusal,
                   !.said[waiting.address] =
                       IF reply.says = "ok" THEN Range(reply.items) ELSE @]
  BY DEF Receive
<1>2. PICK result : result = LookUp(package, reply) OBVIOUS
<1>3. PICK reports : reports = [index \in DOMAIN result.data |->
                                  NewReport(NoKey, {}, result.data[index])]
  OBVIOUS
<1>4. PICK address : address = waiting.address OBVIOUS
<1>5. PICK concluded : concluded = Concluded(address, result.error) OBVIOUS
<1>6. PICK refused : refused = (reply.status = 401 \/ reply.says = "unknown_auth_key") OBVIOUS
<1>7. Conclude(address, result.error, reports) BY <1>1, <1>2, <1>3, <1>4
<1>8. log' = [concluded EXCEPT !.keyRefused = refused,
                !.said[address] = IF reply.says = "ok" THEN Range(reply.items) ELSE @]
  BY <1>1, <1>2, <1>4, <1>5, <1>6
<1>9. /\ package \in Packages /\ package # "spamhaus"
      /\ package' = package /\ clock' = clock /\ lists' = lists
      /\ address \in Addresses /\ TypeOK /\ LogType(log)
  BY <1>4 DEF Receive, Inv, TypeOK, Waiting, LogType
<1>10. PICK limit \in 0..1 :
          /\ AreReports(package, reports, limit)
          /\ reply.says # "ok" => limit = 0
          /\ reply.says = "ok" =>
                /\ limit = 1 /\ result.error = "none"
                /\ Range(reports[1].data.value) = Range(reply.items)
                /\ Range(reply.items) \subseteq Item
  BY <1>2, <1>3, <1>9, ReplyReports
<1>11. limit \in Nat OBVIOUS
<1>12. /\ histories' \in [Addresses -> History(package)]
       /\ \A other \in Addresses \ {address} : histories'[other] = histories[other]
       /\ result.error # "none" =>
             histories'[address].observations = histories[address].observations
       /\ result.error = "none" =>
             histories'[address] = AddReports(histories[address], reports)
       /\ left' \subseteq left
       /\ result.error = "unauthorised" => left' = {}
       /\ request' = {}
  BY <1>7, <1>9, <1>10, <1>11, ConcludeSays
<1>13. refused \in BOOLEAN BY <1>6, Zenon
<1>14. refused => result.error = "unauthorised"
  <2>1. refused => reply.status = 401 \/ reply.says = "unknown_auth_key" BY <1>6, Zenon
  <2> QED BY <1>2, <1>9, <2>1, LookUpSays
<1>15. PICK said : said = [log.said EXCEPT ![address] =
                            IF reply.says = "ok" THEN Range(reply.items) ELSE log.said[address]]
  OBVIOUS
<1>16. log.said \in [Addresses -> SUBSET Item] BY <1>9 DEF LogType
<1>17. /\ said \in [Addresses -> SUBSET Item]
       /\ said[address] = IF reply.says = "ok" THEN Range(reply.items) ELSE log.said[address]
       /\ \A other \in Addresses \ {address} : said[other] = log.said[other]
  BY <1>9, <1>10, <1>15, <1>16
<1>18. /\ LogType(concluded) /\ concluded.said = log.said
  BY <1>5, <1>9, ConcludedSays
<1>19. log' = [concluded EXCEPT !.keyRefused = refused, !.said = said]
  BY <1>8, <1>15, <1>18
<1>20. LogType(log') /\ log'.keyRefused = refused /\ log'.said = said
  BY <1>13, <1>17, <1>18, <1>19 DEF LogType
<1>21. TypeOK'
  BY <1>9, <1>12, <1>20 DEF TypeOK, LogType
<1>22. RefusedKeyEndsLookups' BY <1>12, <1>14, <1>20 DEF RefusedKeyEndsLookups
<1>23. ListsTrue' BY <1>9 DEF ListsTrue
<1>24. LatestIsWhatWasSaid'
  <2>1. \A other \in Addresses :
           SaysWhatWasSaid(histories[other].observations, log.said[other])
    BY <1>9 DEF Inv, LatestIsWhatWasSaid, SaysWhatWasSaid
  <2>2. PICK before \in History(package) : before = histories[address] BY <1>9 DEF TypeOK
  <2>3. PICK after \in History(package) : after = histories'[address] BY <1>9, <1>12
  <2>4. before.observations \in Kept(package) /\ after.observations \in Kept(package)
    BY DEF History
  <2>7. PICK added : added = AddReports(before, reports) OBVIOUS
  <2>8. clock \in Nat BY <1>9 DEF TypeOK
  <2>9. /\ limit = 0 => StillSays(before.observations, added.observations)
        /\ limit = 1 => SaysLast(added.observations, reports[1].data.value)
    BY <1>9, <1>10, <1>11, <2>7, <2>8, AddReportsKeeps
  <2>5. SaysWhatWasSaid(after.observations, said[address])
    <3>1. CASE reply.says = "ok"
      <4>1. after = AddReports(before, reports) /\ limit = 1
        BY <1>10, <1>12, <2>2, <2>3, <3>1
      <4>2. SaysLast(after.observations, reports[1].data.value)
        BY <2>7, <2>9, <4>1
      <4>3. Range(reports[1].data.value) = said[address] BY <1>10, <1>17, <3>1
      <4> QED BY <2>4, <4>2, <4>3, LastSays
    <3>2. CASE reply.says # "ok"
      <4>1. said[address] = log.said[address] /\ limit = 0 BY <1>10, <1>17, <3>2
      <4>2. StillSays(before.observations, after.observations)
        <5>1. CASE result.error = "none"
          <6>1. after = AddReports(before, reports) BY <1>12, <2>2, <2>3, <5>1
          <6> QED BY <2>7, <2>9, <4>1, <6>1
        <5>2. CASE result.error # "none"
          <6>1. after.observations = before.observations BY <1>12, <2>2, <2>3, <5>2
          <6> QED BY <6>1 DEF StillSays
        <5> QED BY <5>1, <5>2
      <4>3. SaysWhatWasSaid(before.observations, said[address])
        BY <1>9, <2>1, <2>2, <4>1
      <4> QED BY <2>4, <4>2, <4>3, SaidAgain
    <3> QED BY <3>1, <3>2
  <2>6. \A other \in Addresses :
           SaysWhatWasSaid(histories'[other].observations, log'.said[other])
    BY <1>12, <1>17, <1>20, <2>1, <2>3, <2>5
  <2> QED BY <2>6 DEF LatestIsWhatWasSaid, SaysWhatWasSaid
<1> QED BY <1>21, <1>22, <1>23, <1>24 DEF Inv

\* Only an answer that can be parsed, with netblocks, is a list.
LEMMA ListErrorSays ==
    ASSUME package \in Packages, package = "spamhaus", NEW reply \in Replies
    PROVE  /\ reply.items \in Seq(Item)
           /\ reply.status = 401 => ListError(reply) = "unauthorised"
<1>1. reply.items \in Seq(Item)
  <2>1. << >> \in Seq(Item) OBVIOUS
  <2>2. reply.items = << >> \/ reply.items \in Seq(Item) BY RepliesAre
  <2> QED BY <2>1, <2>2
<1>2. ASSUME reply.status = 401 PROVE ListError(reply) = "unauthorised"
  <2>1. reply.status \in Nat \ {200} /\ reply.says = "nothing"
    <3>1. reply.status # 200 /\ reply.status \in Nat \ {200} BY <1>2
    <3>2. reply.says = "nothing" BY <3>1, RepliesAre, Zenon
    <3> QED BY <3>1, <3>2
  <2>2. FetchError(reply) = KindOf(401) BY <1>2, <2>1 DEF FetchError
  <2>3. 401 \in Nat OBVIOUS
  <2>4. FetchError(reply) = "unauthorised" BY <2>2, <2>3, KindsOfFailure
  <2> QED BY <2>4 DEF ListError
<1> QED BY <1>1, <1>2

\* The second list is only asked for once the first is there.
LEMMA LoadNextListKeeps == ASSUME Inv, LoadNextList PROVE Inv'
<1>1. PICK loading \in request, reply \in Replies :
         /\ loading.list = 1 /\ ListError(reply) = "none"
         /\ request' = {[loading EXCEPT !.list = 2, !.netblocks = reply.items]}
         /\ log' = [log EXCEPT !.downloads = log.downloads + 1,
                               !.whole = log.whole \cup {loading.list}]
  BY DEF LoadNextList
<1>2. /\ package' = package /\ histories' = histories /\ clock' = clock
      /\ left' = left /\ lists' = lists /\ package = "spamhaus"
  BY DEF LoadNextList
<1>3. LogType(log) /\ TypeOK BY DEF Inv, TypeOK, LogType
<1>4. log.downloads = 1 /\ log.whole = {} /\ ~lists.isLoaded
  <2>1. log.downloads = loading.list /\ log.whole = 1 .. loading.list - 1
    BY <1>1, <1>2 DEF Inv, ListsTrue
  <2>2. 1 .. 1 - 1 = {} OBVIOUS
  <2>3. ~lists.isLoaded BY <1>1, <1>2 DEF Inv, ListsTrue
  <2> QED BY <1>1, <2>1, <2>2, <2>3
<1>5. log.answered = {} BY <1>2, <1>4 DEF Inv, ListsTrue
<1>6. log' = [log EXCEPT !.downloads = 2, !.whole = {1}] BY <1>1, <1>4
<1>7. /\ log'.downloads = 2 /\ log'.whole = {1} /\ log'.answered = {} /\ log'.said = log.said
      /\ log'.keyRefused = log.keyRefused /\ LogType(log')
  <2>1. log.answered \in SUBSET Addresses /\ log.said \in [Addresses -> SUBSET Item]
        /\ log.keyRefused \in BOOLEAN
    BY <1>3 DEF LogType
  <2>2. /\ log'.downloads = 2 /\ log'.whole = {1} /\ log'.answered = {}
        /\ log'.said = log.said /\ log'.keyRefused = log.keyRefused
        /\ log' = [answered |-> {}, keyRefused |-> log.keyRefused, downloads |-> 2,
                   whole |-> {1}, said |-> log.said]
    BY <1>3, <1>5, <1>6 DEF LogType
  <2>3. 2 \in 0..2 /\ {1} \in SUBSET {1, 2} OBVIOUS
  <2>4. LogType(log') BY <2>1, <2>2, <2>3 DEF LogType
  <2> QED BY <2>2, <2>4
<1>8. PICK next : next = [loading EXCEPT !.list = 2, !.netblocks = reply.items] OBVIOUS
<1>9. next \in Waiting /\ next.list = 2
  <2>1. loading \in Waiting BY <1>3 DEF TypeOK
  <2>2. reply.items \in Seq(Item) BY <1>2, <1>3, ListErrorSays DEF TypeOK
  <2> QED BY <1>8, <2>1, <2>2 DEF Waiting
<1>10. request' = {next} BY <1>1, <1>8
<1>11. TypeOK' BY <1>2, <1>3, <1>7, <1>9, <1>10 DEF TypeOK, LogType
<1>12. RefusedKeyEndsLookups' BY <1>1, <1>7 DEF Inv, RefusedKeyEndsLookups
<1>13. ListsTrue'
  <2>1. 1 .. 2 - 1 = {1} OBVIOUS
  <2>2. \A waiting \in request' :
           log'.downloads = waiting.list /\ log'.whole = 1 .. waiting.list - 1
    BY <1>7, <1>9, <1>10, <2>1
  <2>3. request' # {} /\ ~lists'.isLoaded BY <1>2, <1>4, <1>10
  <2> QED BY <1>7, <2>2, <2>3 DEF ListsTrue
<1>14. LatestIsWhatWasSaid' BY <1>2, <1>7, LatestStays DEF Inv
<1> QED BY <1>11, <1>12, <1>13, <1>14 DEF Inv

\* With both lists, or with the error of one, the lookup that waited ends.
LEMMA EndLoadKeeps == ASSUME Inv, EndLoad PROVE Inv'
<1>1. PICK loading \in request, reply \in Replies :
         LET error     == ListError(reply)
             netblocks == IF error = "none" THEN loading.netblocks \o reply.items ELSE << >>
         IN  /\ loading.list = 2 \/ error # "none"
             /\ lists' = [isLoaded |-> TRUE, error |-> error, netblocks |-> netblocks]
             /\ Conclude(loading.address, error, Matches(netblocks, loading.address))
             /\ log' = [Concluded(loading.address, error) EXCEPT
                   !.keyRefused = (reply.status = 401),
                   !.whole = IF error = "none" THEN @ \cup {loading.list} ELSE @]
  BY DEF EndLoad
<1>2. PICK error : error = ListError(reply) OBVIOUS
<1>3. PICK netblocks :
         netblocks = IF error = "none" THEN loading.netblocks \o reply.items ELSE << >>
  OBVIOUS
<1>4. PICK address : address = loading.address OBVIOUS
<1>5. PICK concluded : concluded = Concluded(address, error) OBVIOUS
<1>6. PICK reports : reports = Matches(netblocks, address) OBVIOUS
<1>7. PICK refused : refused = (reply.status = 401) OBVIOUS
<1>8. /\ loading.list = 2 \/ error # "none"
      /\ lists' = [isLoaded |-> TRUE, error |-> error, netblocks |-> netblocks]
      /\ Conclude(address, error, reports)
      /\ log' = [concluded EXCEPT
            !.keyRefused = refused,
            !.whole = IF error = "none" THEN concluded.whole \cup {loading.list}
                      ELSE concluded.whole]
  BY <1>1, <1>2, <1>3, <1>4, <1>5, <1>6, <1>7
<1>9. /\ package' = package /\ clock' = clock /\ package = "spamhaus" /\ package \in Packages
      /\ TypeOK /\ LogType(log) /\ loading \in Waiting
  BY DEF EndLoad, Inv, TypeOK, LogType
<1>10. address \in Addresses /\ loading.list \in {1, 2} /\ loading.netblocks \in Seq(Item)
  BY <1>4, <1>9 DEF Waiting
<1>11. netblocks \in Seq(Item)
  <2>1. reply.items \in Seq(Item) BY <1>9, ListErrorSays
  <2>2. loading.netblocks \o reply.items \in Seq(Item) BY <1>10, <2>1, ConcatProperties
  <2>3. << >> \in Seq(Item) OBVIOUS
  <2> QED BY <1>3, <2>2, <2>3
<1>12. PICK limit \in Nat : AreReports(package, reports, limit)
  BY <1>6, <1>9, <1>11, MatchesSay
<1>13. /\ histories' \in [Addresses -> History(package)]
       /\ left' \subseteq left
       /\ error = "unauthorised" => left' = {}
       /\ request' = {}
  BY <1>8, <1>9, <1>10, <1>12, ConcludeSays
<1>14. /\ LogType(concluded) /\ concluded.said = log.said /\ concluded.whole = log.whole
       /\ concluded.downloads = log.downloads
       /\ error # "none" => concluded.answered = log.answered
  BY <1>5, <1>9, <1>10, ConcludedSays
<1>15. PICK whole : whole = IF error = "none" THEN log.whole \cup {loading.list} ELSE log.whole
  OBVIOUS
<1>16. whole \in SUBSET {1, 2} BY <1>9, <1>10, <1>15 DEF LogType
<1>17. refused \in BOOLEAN BY <1>7, Zenon
<1>18. log' = [concluded EXCEPT !.keyRefused = refused, !.whole = whole]
  BY <1>8, <1>14, <1>15
<1>19. /\ LogType(log') /\ log'.keyRefused = refused /\ log'.whole = whole
       /\ log'.downloads = log.downloads /\ log'.answered = concluded.answered
  BY <1>14, <1>16, <1>17, <1>18 DEF LogType
<1>20. lists'.isLoaded = TRUE /\ lists'.error = error /\ lists'.netblocks = netblocks BY <1>8
<1>21. TypeOK' BY <1>9, <1>11, <1>13, <1>19, <1>20 DEF TypeOK, LogType
<1>22. RefusedKeyEndsLookups'
  <2>1. refused => reply.status = 401 BY <1>7, Zenon
  <2>2. refused => error = "unauthorised" BY <1>2, <1>9, <2>1, ListErrorSays
  <2> QED BY <1>13, <1>19, <2>2 DEF RefusedKeyEndsLookups
<1>23. ListsTrue'
  <2>1. log.whole = 1 .. loading.list - 1 /\ ~lists.isLoaded
    BY <1>9 DEF Inv, ListsTrue
  <2>2. error = "none" => log'.whole = {1, 2}
    <3>1. 1 .. 2 - 1 = {1} OBVIOUS
    <3> QED BY <1>8, <1>15, <1>19, <2>1, <3>1
  <2>3. error # "none" => log'.answered = {}
    BY <1>9, <1>14, <1>19, <2>1 DEF Inv, ListsTrue
  <2> QED BY <1>13, <1>20, <2>2, <2>3 DEF ListsTrue
<1>24. LatestIsWhatWasSaid' BY <1>9 DEF LatestIsWhatWasSaid
<1> QED BY <1>21, <1>22, <1>23, <1>24 DEF Inv

\* Later lookups are answered only if the load ended well.
LEMMA LookUpInListsKeeps == ASSUME Inv, LookUpInLists PROVE Inv'
<1>1. PICK address \in left :
         /\ Conclude(address, lists.error, Matches(lists.netblocks, address))
         /\ log' = Concluded(address, lists.error)
  BY DEF LookUpInLists
<1>2. PICK error : error = lists.error OBVIOUS
<1>3. PICK reports : reports = Matches(lists.netblocks, address) OBVIOUS
<1>4. /\ package' = package /\ clock' = clock /\ lists' = lists /\ package = "spamhaus"
      /\ request = {} /\ lists.isLoaded
      /\ TypeOK /\ LogType(log) /\ address \in Addresses /\ lists.netblocks \in Seq(Item)
  BY <1>1 DEF LookUpInLists, Inv, TypeOK, LogType
<1>5. PICK limit \in Nat : AreReports(package, reports, limit)
  BY <1>3, <1>4, MatchesSay
<1>6. /\ histories' \in [Addresses -> History(package)]
      /\ left' \subseteq left
      /\ request' = {}
  BY <1>1, <1>2, <1>3, <1>4, <1>5, ConcludeSays
<1>7. /\ LogType(log') /\ log'.whole = log.whole /\ log'.downloads = log.downloads
      /\ log'.keyRefused = log.keyRefused
      /\ error # "none" => log'.answered = log.answered
  <2>1. PICK concluded : concluded = Concluded(address, error) OBVIOUS
  <2>2. /\ LogType(concluded) /\ concluded.whole = log.whole
        /\ concluded.downloads = log.downloads /\ concluded.keyRefused = log.keyRefused
        /\ error # "none" => concluded.answered = log.answered
    BY <1>4, <2>1, ConcludedSays
  <2>3. log' = concluded BY <1>1, <1>2, <2>1
  <2> QED BY <2>2, <2>3
<1>8. TypeOK' BY <1>4, <1>6, <1>7 DEF TypeOK, LogType
<1>9. RefusedKeyEndsLookups' BY <1>1, <1>7 DEF Inv, RefusedKeyEndsLookups
<1>10. ListsTrue'
  <2>1. error = "none" => log.whole = {1, 2} BY <1>2, <1>4 DEF Inv, ListsTrue
  <2>2. log.answered # {} => log.whole = {1, 2} BY <1>4 DEF Inv, ListsTrue
  <2>3. log'.answered # {} => log'.whole = {1, 2} BY <1>7, <2>1, <2>2
  <2> QED BY <1>2, <1>4, <1>6, <1>7, <2>1, <2>3 DEF ListsTrue
<1>11. LatestIsWhatWasSaid' BY <1>4 DEF LatestIsWhatWasSaid
<1> QED BY <1>8, <1>9, <1>10, <1>11 DEF Inv

\* A package that sorts by id stores lists that never fall.
LEMMA StoredNeverFalls ==
    ASSUME NEW name \in SortsById, NEW items \in Seq(Item)
    PROVE  Stored(name, items) \in Seq(Item) /\ NeverFallsById(Stored(name, items))
<1>1. /\ SortedById(items) \in Seq(Item) /\ NeverFallsById(SortedById(items))
  BY SortedByIdSays
<1>2. /\ Compact(SortedById(items)) \in Seq(Item)
      /\ NeverFallsById(Compact(SortedById(items)))
  BY <1>1, CompactSays
<1>3. CASE name \in {"otx", "shodan", "urlhaus"} BY <1>1, <1>3 DEF Stored
<1>4. CASE name = "virustotal" BY <1>2, <1>4 DEF Stored
<1> QED BY <1>3, <1>4 DEF SortsById

\* So where sorting leaves no ties, what says the same is stored in one order.
LEMMA StoredInOneOrder ==
    ASSUME NEW name \in Packages, name # "spamhaus",
           NEW items \in Bodies[name], NEW other \in Bodies[name],
           name \in SortsById =>
               ~HasTies(Stored(name, items)) /\ ~HasTies(Stored(name, other)),
           Range(Stored(name, items)) = Range(Stored(name, other))
    PROVE  Stored(name, items) = Stored(name, other)
<1>1. name \in PerAddress BY EnrichmentAssumption
<1>2. items \in Seq(Item) /\ other \in Seq(Item) BY EnrichmentAssumption
<1>3. Range(items) = Range(other) BY <1>1, <1>2, StoredSays
<1>4. CASE name \in {"internetdb", "abuseipdb"}
  <2>1. SortedUnique(items) = SortedUnique(other) BY <1>3 DEF SortedUnique, Ordered
  <2> QED BY <1>4, <2>1 DEF Stored
<1>5. CASE name = "ipinfo"
  <2>1. Len(items) = 1 /\ Len(other) = 1 BY <1>5, EnrichmentAssumption
  <2>2. DOMAIN items = {1} /\ DOMAIN other = {1} BY <1>2, <2>1, LenProperties
  <2>3. Range(items) = {items[1]} /\ Range(other) = {other[1]} BY <2>2 DEF Range
  <2>4. items[1] = other[1]
    <3>1. items[1] \in {other[1]} BY <1>3, <2>3
    <3> QED BY <3>1
  <2>5. \A index \in 1..1 : items[index] = other[index] BY <2>4
  <2>6. items = other BY <1>2, <2>1, <2>5, SeqEqual
  <2> QED BY <2>6
<1>6. CASE name \in SortsById
  <2> DEFINE first == Stored(name, items)
             second == Stored(name, other)
  <2>1. /\ first \in Seq(Item) /\ NeverFallsById(first)
        /\ second \in Seq(Item) /\ NeverFallsById(second)
    BY <1>2, <1>6, StoredNeverFalls
  <2>2. ~HasTies(first) /\ ~HasTies(second) /\ Range(first) = Range(second) BY <1>6
  <2> HIDE DEF first, second
  <2>3. RisesById(first) /\ RisesById(second) BY <2>1, <2>2, WithoutTies
  <2>4. first = second BY <2>1, <2>2, <2>3, RisingListsAreOne
  <2> QED BY <2>4 DEF first, second
<1> QED BY <1>1, <1>4, <1>5, <1>6 DEF PerAddress, SortsById

\* So lists of which each says something new do not say the same in another order,
\* and what Spamhaus lists under different keys differs anyway.
LEMMA KeptSaysNothingTwice ==
    ASSUME NEW name \in Packages, NEW observations \in Kept(name),
           NEW index \in 1 .. Len(observations) - 1,
           name \in SortsById => /\ ~HasTies(observations[index].data.value)
                                /\ ~HasTies(observations[index + 1].data.value)
    PROVE  Range(observations[index].data.value) # Range(observations[index + 1].data.value)
<1>1. Len(observations) \in Nat /\ DOMAIN observations = 1..Len(observations)
  BY LenProperties DEF Kept
<1>2. index \in DOMAIN observations /\ index + 1 \in DOMAIN observations BY <1>1
<1>3. PICK first : first = observations[index] OBVIOUS
<1>4. PICK second : second = observations[index + 1] OBVIOUS
<1>5. IsEntry(name, first) /\ IsEntry(name, second) BY <1>2, <1>3, <1>4 DEF Kept
<1>6. first.key = second.key => first.data.value # second.data.value
  BY <1>3, <1>4 DEF Kept, Changes
<1>7. Range(first.data.value) # Range(second.data.value)
  <2>1. CASE name = "spamhaus"
    <3>1. PICK item \in Item : first.key = item.id /\ first.data.value = <<item>>
      BY <1>5, <2>1 DEF IsEntry
    <3>2. PICK other \in Item : second.key = other.id /\ second.data.value = <<other>>
      BY <1>5, <2>1 DEF IsEntry
    <3>3. item # other BY <1>6, <3>1, <3>2
    <3>4. Range(<<item>>) = {item} /\ Range(<<other>>) = {other} BY DEF Range
    <3> QED BY <3>1, <3>2, <3>3, <3>4
  <2>2. CASE name # "spamhaus"
    <3>1. PICK items \in Bodies[name] : first.key = NoKey /\ first.data.value = Stored(name, items)
      BY <1>5, <2>2 DEF IsEntry
    <3>2. PICK other \in Bodies[name] : second.key = NoKey /\ second.data.value = Stored(name, other)
      BY <1>5, <2>2 DEF IsEntry
    <3>3. first.data.value # second.data.value BY <1>6, <3>1, <3>2
    <3>4. name \in SortsById =>
              ~HasTies(Stored(name, items)) /\ ~HasTies(Stored(name, other))
      BY <1>3, <1>4, <3>1, <3>2
    <3> QED BY <2>2, <3>1, <3>2, <3>3, <3>4, StoredInOneOrder
  <2> QED BY <2>1, <2>2
<1> QED BY <1>3, <1>4, <1>7

-----------------------------------------------------------------------------
(* The theorems *)

\* Nothing happens.
LEMMA StutterKeeps == ASSUME Inv, UNCHANGED vars PROVE Inv'
<1>1. /\ package' = package /\ histories' = histories /\ clock' = clock /\ left' = left
      /\ request' = request /\ lists' = lists /\ log' = log
  BY DEF vars
<1>2. TypeOK' BY <1>1 DEF Inv, TypeOK
<1>3. RefusedKeyEndsLookups' BY <1>1 DEF Inv, RefusedKeyEndsLookups
<1>4. ListsTrue' BY <1>1 DEF Inv, ListsTrue
<1>5. LatestIsWhatWasSaid' BY <1>1, LatestStays DEF Inv
<1> QED BY <1>2, <1>3, <1>4, <1>5 DEF Inv

\* The invariant holds in every run of every enricher: histories hold what packages
\* make of answers, and lists and log go together.
THEOREM Invariance == Spec => []Inv
<1>1. Inv /\ [Next]_vars => Inv'
  <2> SUFFICES ASSUME Inv, [Next]_vars PROVE Inv' OBVIOUS
  <2>1. CASE StartRun BY <2>1, StartRunKeeps
  <2>2. CASE CutShort BY <2>2, CutShortKeeps
  <2>3. CASE Tick BY <2>3, TickKeeps
  <2>4. CASE Send BY <2>4, SendKeeps
  <2>5. CASE Receive BY <2>5, ReceiveKeeps
  <2>6. CASE BeginLoad BY <2>6, BeginLoadKeeps
  <2>7. CASE LoadNextList BY <2>7, LoadNextListKeeps
  <2>8. CASE EndLoad BY <2>8, EndLoadKeeps
  <2>9. CASE LookUpInLists BY <2>9, LookUpInListsKeeps
  <2>10. CASE UNCHANGED vars BY <2>10, StutterKeeps
  <2> QED BY <2>1, <2>2, <2>3, <2>4, <2>5, <2>6, <2>7, <2>8, <2>9, <2>10 DEF Next
<1> QED BY InitInv, <1>1, PTL DEF Spec

\* Once the upstream refuses the key, with a status or in a body, the run asks it
\* nothing more.
THEOREM RefusedKeyEnds == Spec => []RefusedKeyEndsLookups
<1>1. Inv => RefusedKeyEndsLookups BY DEF Inv
<1> QED BY <1>1, Invariance, PTL

\* Spamhaus answers for no address of a run unless both lists arrived well, and
\* downloads no list twice.
THEOREM ListsComeFirst == Spec => []AnswersNeedBothLists
<1>1. Inv => AnswersNeedBothLists
  BY DEF Inv, ListsTrue, TypeOK, AnswersNeedBothLists
<1> QED BY <1>1, Invariance, PTL

\* The newest observation of an address says what its upstream last said of it.
THEOREM LatestIsTrue == Spec => []LatestIsWhatWasSaid
<1>1. Inv => LatestIsWhatWasSaid BY DEF Inv
<1> QED BY <1>1, Invariance, PTL

\* No observation says what the one before it says in another order, but those of
\* a package that sorts by id and one of whose lists has two items of one id: for
\* internetdb, ipinfo, abuseipdb and spamhaus this holds of whatever they are sent.
THEOREM OrderIsNoChange == Spec => []ReorderingIsNoChange
<1>1. Inv => ReorderingIsNoChange
  <2> SUFFICES ASSUME Inv, NEW address \in Addresses,
                      NEW index \in 1 .. Len(histories[address].observations) - 1,
                      package \in SortsById =>
                        /\ ~HasTies(histories[address].observations[index].data.value)
                        /\ ~HasTies(histories[address].observations[index + 1].data.value)
               PROVE  Range(histories[address].observations[index].data.value)
                        # Range(histories[address].observations[index + 1].data.value)
    BY DEF ReorderingIsNoChange
  <2>1. package \in Packages BY DEF Inv, TypeOK
  <2>2. PICK observations : observations = histories[address].observations OBVIOUS
  <2>3. observations \in Kept(package) BY <2>2 DEF Inv, TypeOK, History
  <2>4. index \in 1 .. Len(observations) - 1 BY <2>2
  <2>5. package \in SortsById => /\ ~HasTies(observations[index].data.value)
                                /\ ~HasTies(observations[index + 1].data.value)
    BY <2>2
  <2> QED BY <2>1, <2>2, <2>3, <2>4, <2>5, KeptSaysNothingTwice
<1> QED BY <1>1, Invariance, PTL
=============================================================================
