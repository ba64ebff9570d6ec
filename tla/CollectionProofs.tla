-------------------------- MODULE CollectionProofs --------------------------
(***************************************************************************)
(* Proofs about Collection, for any replies of the four feeds and any      *)
(* failures: the names of files lead back to their addresses, an entry is  *)
(* collected whatever else a reply lists, and with these what is stored is *)
(* what was listed.                                                        *)
(***************************************************************************)
EXTENDS Collection, RecordProofs

-----------------------------------------------------------------------------
(* File names *)

\* An octet's decimal text determines it.
LEMMA DecimalDetermines ==
    ASSUME NEW first \in Nat, NEW second \in Nat, Decimal(first) = Decimal(second)
    PROVE  first = second
<1>1. CASE first < 10
  <2>1. Decimal(first) = <<first>>
    BY <1>1 DEF Decimal
  <2>2. second < 10
    <3>1. second \in 10..99 => Decimal(second) = <<second \div 10, second % 10>>
      BY DEF Decimal
    <3>2. second >= 100 => Decimal(second)
             = <<second \div 100, (second \div 10) % 10, second % 10>>
      BY DEF Decimal
    <3>3. <<first>> # <<second \div 10, second % 10>> OBVIOUS
    <3>4. <<first>> # <<second \div 100, (second \div 10) % 10, second % 10>> OBVIOUS
    <3> QED BY <2>1, <3>1, <3>2, <3>3, <3>4
  <2> QED
    BY <2>1, <2>2 DEF Decimal
<1>2. CASE first \in 10..99
  <2>1. Decimal(first) = <<first \div 10, first % 10>> BY <1>2 DEF Decimal
  <2>2. second < 10 => Decimal(second) = <<second>> BY DEF Decimal
  <2>3. second >= 100 => Decimal(second)
           = <<second \div 100, (second \div 10) % 10, second % 10>>
    BY DEF Decimal
  <2>4. second \in 10..99 BY <2>1, <2>2, <2>3
  <2>5. Decimal(second) = <<second \div 10, second % 10>> BY <2>4 DEF Decimal
  <2>6. <<first \div 10, first % 10>> = <<second \div 10, second % 10>> BY <2>1, <2>5
  <2>7. first \div 10 = second \div 10 BY <2>6
  <2>8. first % 10 = second % 10 BY <2>6
  <2>9. first = 10 * (first \div 10) + (first % 10) OBVIOUS
  <2>10. second = 10 * (second \div 10) + (second % 10) OBVIOUS
  <2> QED BY <2>7, <2>8, <2>9, <2>10
<1>3. CASE first >= 100
  BY <1>3 DEF Decimal
<1> QED
  BY <1>1, <1>2, <1>3

\* A group is the number its four hexadecimal digits write.
LEMMA HexadecimalWrites ==
    ASSUME NEW group \in Nat
    PROVE  group = 4096 * (group \div 4096) + 256 * ((group \div 256) % 16)
                      + 16 * ((group \div 16) % 16) + (group % 16)
<1>1. group = 16 * (group \div 16) + (group % 16)
  OBVIOUS
<1>2. group \div 16 = 16 * (group \div 256) + ((group \div 16) % 16)
  OBVIOUS
<1>3. group \div 256 = 16 * (group \div 4096) + ((group \div 256) % 16)
  OBVIOUS
<1> QED
  BY <1>1, <1>2, <1>3

\* So the digits determine it.
LEMMA HexadecimalDetermines ==
    ASSUME NEW first \in Nat, NEW second \in Nat,
           Hexadecimal(first) = Hexadecimal(second)
    PROVE  first = second
<1> DEFINE Written(a, b, c, d) == 4096 * a + 256 * b + 16 * c + d
<1>1. ASSUME NEW group \in Nat
      PROVE  group = Written(group \div 4096, (group \div 256) % 16,
                             (group \div 16) % 16, group % 16)
  BY HexadecimalWrites
<1> DEFINE Digits(group) == Hexadecimal(group)
<1>2. ASSUME NEW group \in Nat
      PROVE  /\ Digits(group)[1] = group \div 4096
             /\ Digits(group)[2] = (group \div 256) % 16
             /\ Digits(group)[3] = (group \div 16) % 16
             /\ Digits(group)[4] = group % 16
  BY DEF Hexadecimal
<1>3. Digits(first) = Digits(second)
  OBVIOUS
<1> HIDE DEF Written, Digits
<1>4. ASSUME NEW group \in Nat
      PROVE  group = Written(Digits(group)[1], Digits(group)[2],
                             Digits(group)[3], Digits(group)[4])
  BY <1>1, <1>2
<1> QED
  BY <1>3, <1>4

\* The two kinds of address are told apart by their version.
LEMMA Versions ==
    ASSUME NEW address \in Address
    PROVE  \/ address.version = 4 /\ address \in IPv4
           \/ address.version = 6 /\ address \in IPv6
<1>1. CASE address \in IPv4
  BY <1>1 DEF IPv4
<1>2. CASE address \in IPv6
  BY <1>2 DEF IPv6
<1> QED
  BY <1>1, <1>2 DEF Address

\* Octets and groups are numbers.
LEMMA Numbers == Octet \subseteq Nat /\ Group \subseteq Nat
BY DEF Octet, Group

\* Two addresses that can be stored never share a file (addressFileName,
\* storage.go:259): a zone, which the name leaves out, is refused, and the parts
\* can be read back from the name.
THEOREM FileNamesDiffer ==
    ASSUME NEW first \in Address, NEW second \in Address,
           IsStorableAddress(first), IsStorableAddress(second),
           AddressFileName(first) = AddressFileName(second)
    PROVE  first = second
<1>1. \/ first.version = 4 /\ first \in IPv4
      \/ first.version = 6 /\ first \in IPv6
  BY Versions, Zenon
<1>2. \/ second.version = 4 /\ second \in IPv4
      \/ second.version = 6 /\ second \in IPv6
  BY Versions, Zenon
<1>3. first.version = second.version
  <2>1. first.version \in {4, 6} /\ second.version \in {4, 6}
    BY <1>1, <1>2
  <2>2. AddressFileName(first).family = AddressFileName(second).family
    OBVIOUS
  <2> QED
    BY <2>1, <2>2 DEF AddressFileName
<1>4. CASE first.version = 4
  <2>1. first \in IPv4 /\ second \in IPv4
    BY ONLY <1>3, <1>4, <1>1, <1>2
  <2>2. ASSUME NEW i \in 1..4
        PROVE  first.parts[i] = second.parts[i]
    <3>1. /\ Decimal(first.parts[i]) = AddressFileName(first).parts[i]
          /\ Decimal(second.parts[i]) = AddressFileName(second).parts[i]
      BY <1>3, <1>4 DEF AddressFileName
    <3>2. first.parts[i] \in Nat /\ second.parts[i] \in Nat
      BY <2>1, Numbers DEF IPv4
    <3> QED
      BY <3>1, <3>2, DecimalDetermines
  <2>3. first.parts = second.parts
    BY <2>1, <2>2 DEF IPv4
  <2> QED
    BY <2>1, <2>3 DEF IPv4
<1>5. CASE first.version = 6
  <2>1. first \in IPv6 /\ second \in IPv6
    BY ONLY <1>3, <1>5, <1>1, <1>2
  <2>2. ASSUME NEW i \in 1..8
        PROVE  first.parts[i] = second.parts[i]
    <3>1. /\ Hexadecimal(first.parts[i]) = AddressFileName(first).parts[i]
          /\ Hexadecimal(second.parts[i]) = AddressFileName(second).parts[i]
      BY <1>3, <1>5 DEF AddressFileName, ExpandIPv6
    <3>2. first.parts[i] \in Nat /\ second.parts[i] \in Nat
      BY <2>1, Numbers DEF IPv6
    <3> QED
      BY <3>1, <3>2, HexadecimalDetermines
  <2>3. first.parts = second.parts
    BY <2>1, <2>2 DEF IPv6
  <2>4. first.zone = NoZone /\ second.zone = NoZone
    BY DEF IsStorableAddress
  <2> QED
    BY <2>1, <2>3, <2>4 DEF IPv6
<1>6. first.version \in {4, 6}
  BY <1>1
<1> QED
  BY <1>4, <1>5, <1>6

\* The number that up to four digits write.
LEMMA NumberWritten ==
    ASSUME NEW base \in Nat, NEW limit \in 1..4, NEW digits \in [1..limit -> Nat]
    PROVE  /\ limit = 1 => Number(digits, base) = digits[1]
           /\ limit = 2 => Number(digits, base) = digits[1] * base + digits[2]
           /\ limit = 3 => Number(digits, base) = (digits[1] * base + digits[2]) * base + digits[3]
           /\ limit = 4 => Number(digits, base)
                 = ((digits[1] * base + digits[2]) * base + digits[3]) * base + digits[4]
<1> DEFINE OneMore(before, place) == before * base + digits[place]
           At(s, place, before) == IF place \in s THEN OneMore(before, place) ELSE before
           First(s) == At(s, 1, 0)
           Second(s) == At(s, 2, First(s))
           Third(s) == At(s, 3, Second(s))
           Fourth(s) == At(s, 4, Third(s))
           Iterates(iter) ==
              iter = [s \in SUBSET DOMAIN digits |->
                        IF s = {} THEN 0 ELSE OneMore(iter[s \ {Max(s)}], Max(s))]
           chosen == CHOOSE iter : Iterates(iter)
<1>1. Number(digits, base) = chosen[DOMAIN digits]
  BY DEF Number, FoldLeft, MapThenFoldSet
<1> HIDE DEF OneMore
<1>2. ASSUME NEW s \in SUBSET (1..limit), s # {}
      PROVE  /\ Max(s) \in s /\ \A other \in s : other <= Max(s)
             /\ Fourth(s) = OneMore(Fourth(s \ {Max(s)}), Max(s))
  <2>1. \E place \in s : \A other \in s : place >= other
    <3>1. \A place \in s : place \in {1, 2, 3, 4} OBVIOUS
    <3>2. CASE 4 \in s BY <3>1, <3>2
    <3>3. CASE 4 \notin s /\ 3 \in s BY <3>1, <3>3
    <3>4. CASE 4 \notin s /\ 3 \notin s /\ 2 \in s
      <4>1. \A other \in s : 2 >= other BY <3>1, <3>4
      <4> QED BY <3>4, <4>1
    <3>5. CASE 4 \notin s /\ 3 \notin s /\ 2 \notin s
      <4>1. \A place \in s : place = 1 BY <3>1, <3>5
      <4>2. PICK place \in s : TRUE BY <1>2
      <4> QED BY <4>1, <4>2
    <3> QED BY <3>2, <3>3, <3>4, <3>5
  <2>2. Max(s) \in s /\ \A other \in s : Max(s) >= other BY <2>1 DEF Max
  <2>3. Max(s) \in {1, 2, 3, 4}
    <3>1. \A place \in s : place \in {1, 2, 3, 4} OBVIOUS
    <3> QED BY <2>2, <3>1
  <2>4. \A place \in 1..4 : place > Max(s) => place \notin s BY <2>2, <2>3
  <2> DEFINE top == Max(s)
             rest == s \ {top}
  <2>5. \A place \in 1..4 : /\ place # top => (place \in rest <=> place \in s)
                            /\ place = top => place \notin rest /\ place \in s
    BY <2>2
  <2> HIDE DEF top, rest
  <2>6. CASE top = 1
    <3>1. 1 \in s /\ 1 \notin rest BY <2>5, <2>6
    <3>2. 2 \notin s /\ 2 \notin rest /\ 3 \notin s /\ 3 \notin rest /\ 4 \notin s /\ 4 \notin rest
      BY <2>4, <2>5, <2>6 DEF top
    <3> QED BY <2>2, <2>3, <2>6, <3>1, <3>2 DEF top, rest
  <2>7. CASE top = 2
    <3>1. 2 \in s /\ 2 \notin rest /\ (1 \in rest <=> 1 \in s) BY <2>5, <2>7
    <3>2. 3 \notin s /\ 3 \notin rest /\ 4 \notin s /\ 4 \notin rest
      BY <2>4, <2>5, <2>7 DEF top
    <3>3. First(rest) = First(s) BY <3>1
    <3> HIDE DEF First
    <3> QED BY <2>2, <2>3, <2>7, <3>1, <3>2, <3>3 DEF top, rest
  <2>8. CASE top = 3
    <3>1. /\ 3 \in s /\ 3 \notin rest
          /\ (1 \in rest <=> 1 \in s) /\ (2 \in rest <=> 2 \in s)
      BY <2>5, <2>8
    <3>2. 4 \notin s /\ 4 \notin rest BY <2>4, <2>5, <2>8 DEF top
    <3>3. Second(rest) = Second(s) BY <3>1
    <3> HIDE DEF Second
    <3> QED BY <2>2, <2>3, <2>8, <3>1, <3>2, <3>3 DEF top, rest
  <2>9. CASE top = 4
    <3>1. /\ 4 \in s /\ 4 \notin rest /\ (1 \in rest <=> 1 \in s)
          /\ (2 \in rest <=> 2 \in s) /\ (3 \in rest <=> 3 \in s)
      BY <2>5, <2>9
    <3>2. Third(rest) = Third(s) BY <3>1
    <3> HIDE DEF Third
    <3> QED BY <2>2, <2>3, <2>9, <3>1, <3>2 DEF top, rest
  <2> QED BY <2>3, <2>6, <2>7, <2>8, <2>9 DEF top
<1>3. Fourth({}) = 0 OBVIOUS
<1> HIDE DEF Fourth
<1>4. Iterates([s \in SUBSET (1..limit) |-> Fourth(s)])
  <2>1. \A s \in SUBSET (1..limit) : s \ {Max(s)} \in SUBSET (1..limit) OBVIOUS
  <2> QED BY <1>2, <1>3, <2>1
<1>5. Iterates(chosen) BY <1>4
<1> HIDE DEF chosen
<1>6. 1..limit # {} OBVIOUS
<1> USE DEF Iterates
<1>7. ASSUME NEW k \in 1..limit PROVE Max(1..k) = k /\ (1..k) \ {k} = 1 .. k - 1
  <2>1. 1..k \in SUBSET (1..limit) /\ 1..k # {} /\ k \in 1..k OBVIOUS
  <2>2. Max(1..k) \in 1..k /\ k <= Max(1..k) BY <1>2, <2>1
  <2> QED BY <2>2
<1>8. ASSUME NEW k \in 1..limit, NEW before \in 0..3, k = before + 1
      PROVE  chosen[1..k] = OneMore(chosen[1..before], k)
  <2>1. 1..k \in SUBSET (1..limit) /\ 1..k # {} BY k \in 1..k
  <2>2. 1..before = (1..k) \ {k} BY <1>8
  <2> QED BY <1>5, <1>7, <2>1, <2>2
<1>9. chosen[1..0] = 0
  <2>1. 1..0 = {} OBVIOUS
  <2> QED BY <1>5, <2>1
<1> HIDE DEF Iterates
<1>10. Number(digits, base) = chosen[1..limit] BY <1>1
<1>11. chosen[1..1] = digits[1]
  <2>1. chosen[1..1] = OneMore(chosen[1..0], 1)
    <3>1. 1 \in 1..limit /\ 0 \in 0..3 /\ 1 = 0 + 1 OBVIOUS
    <3> QED BY ONLY <1>8, <3>1
  <2>2. digits[1] \in Nat OBVIOUS
  <2> QED BY <1>9, <2>1, <2>2 DEF OneMore
<1>12. ASSUME limit >= 2
      PROVE  chosen[1..2] = digits[1] * base + digits[2]
  <2>1. 2 \in 1..limit /\ 1 \in 0..3 /\ 2 = 1 + 1 BY <1>12
  <2>2. chosen[1..2] = OneMore(chosen[1..1], 2) BY ONLY <1>8, <2>1
  <2> QED BY <1>11, <1>12, <2>2 DEF OneMore
<1>13. ASSUME limit >= 3
      PROVE  chosen[1..3] = (digits[1] * base + digits[2]) * base + digits[3]
  <2>1. 3 \in 1..limit /\ 2 \in 0..3 /\ 3 = 2 + 1 BY <1>13
  <2>2. chosen[1..3] = OneMore(chosen[1..2], 3) BY ONLY <1>8, <2>1
  <2> QED BY <1>12, <1>13, <2>2 DEF OneMore
<1>14. ASSUME limit >= 4
      PROVE  chosen[1..4] = ((digits[1] * base + digits[2]) * base + digits[3]) * base + digits[4]
  <2>1. 4 \in 1..limit /\ 3 \in 0..3 /\ 4 = 3 + 1 BY <1>14
  <2>2. chosen[1..4] = OneMore(chosen[1..3], 4) BY ONLY <1>8, <2>1
  <2> QED BY <1>13, <1>14, <2>2 DEF OneMore
<1> HIDE DEF Iterates, chosen
<1>15. CASE limit = 1 BY <1>10, <1>11, <1>15
<1>16. CASE limit = 2 BY <1>10, <1>12, <1>16
<1>17. CASE limit = 3 BY <1>10, <1>13, <1>17
<1>18. CASE limit = 4 BY <1>10, <1>14, <1>18
<1> QED BY <1>15, <1>16, <1>17, <1>18

\* An octet's digits are read as the octet.
LEMMA DecimalIsRead ==
    ASSUME NEW octet \in Octet
    PROVE  Number(Decimal(octet), 10) = octet
<1>1. octet \in Nat /\ octet <= 255 BY DEF Octet
<1>2. CASE octet < 10
  <2>1. Decimal(octet) = <<octet>> BY <1>1, <1>2 DEF Decimal
  <2>2. Decimal(octet) \in [1..1 -> Nat] /\ Decimal(octet)[1] = octet BY <1>1, <2>1
  <2> QED BY <2>2, NumberWritten
<1>3. CASE octet \in 10..99
  <2>1. Decimal(octet) = <<octet \div 10, octet % 10>> BY <1>3 DEF Decimal
  <2>2. octet \div 10 \in Nat /\ octet % 10 \in Nat BY <1>1
  <2>3. Decimal(octet) \in [1..2 -> Nat] BY <2>1, <2>2
  <2>4. Number(Decimal(octet), 10) = Decimal(octet)[1] * 10 + Decimal(octet)[2]
    BY <2>3, NumberWritten
  <2>5. octet = (octet \div 10) * 10 + (octet % 10) BY <1>1
  <2> QED BY <2>1, <2>4, <2>5
<1>4. CASE octet >= 100
  <2>1. Decimal(octet) = <<octet \div 100, (octet \div 10) % 10, octet % 10>>
    BY <1>4 DEF Decimal
  <2>2. octet \div 100 \in Nat /\ (octet \div 10) % 10 \in Nat /\ octet % 10 \in Nat BY <1>1
  <2>3. Decimal(octet) \in [1..3 -> Nat] BY <2>1, <2>2
  <2>4. Number(Decimal(octet), 10)
           = (Decimal(octet)[1] * 10 + Decimal(octet)[2]) * 10 + Decimal(octet)[3]
    BY <2>3, NumberWritten
  <2>5. octet = ((octet \div 100) * 10 + ((octet \div 10) % 10)) * 10 + (octet % 10) BY <1>1
  <2> QED BY <2>1, <2>4, <2>5
<1> QED BY <1>1, <1>2, <1>3, <1>4

\* A group's digits are read as the group.
LEMMA HexadecimalIsRead ==
    ASSUME NEW group \in Group
    PROVE  Number(Hexadecimal(group), 16) = group
<1>1. group \in Nat BY DEF Group
<1>2. /\ group \div 4096 \in Nat /\ (group \div 256) % 16 \in Nat
      /\ (group \div 16) % 16 \in Nat /\ group % 16 \in Nat
  BY <1>1
<1>3. Hexadecimal(group)
         = <<group \div 4096, (group \div 256) % 16, (group \div 16) % 16, group % 16>>
  BY DEF Hexadecimal
<1> DEFINE digits == Hexadecimal(group)
<1>4. digits \in [1..4 -> Nat] BY <1>2, <1>3
<1> HIDE DEF digits
<1>5. Number(digits, 16)
         = ((digits[1] * 16 + digits[2]) * 16 + digits[3]) * 16 + digits[4]
  BY <1>4, NumberWritten
<1>6. /\ digits[1] = group \div 4096 /\ digits[2] = (group \div 256) % 16
      /\ digits[3] = (group \div 16) % 16 /\ digits[4] = group % 16
  BY <1>3 DEF digits
<1>7. group = 4096 * digits[1] + 256 * digits[2] + 16 * digits[3] + digits[4]
  BY <1>1, <1>6, HexadecimalWrites
<1>8. digits[1] \in Nat /\ digits[2] \in Nat /\ digits[3] \in Nat /\ digits[4] \in Nat BY <1>4
<1> QED BY <1>5, <1>7, <1>8 DEF digits

\* The name of a storable address leads back to it and to no other, so that
\* indexing finds every record that was stored (addressFromFileName,
\* storage.go:273).
THEOREM NamesLeadBack ==
    ASSUME NEW address \in Address, IsStorableAddress(address)
    PROVE  AddressFromFileName(AddressFileName(address)) = {address}
<1> DEFINE name == AddressFileName(address)
<1>1. ASSUME ParseParts(name.family, name.parts) = {address}
      PROVE  AddressFromFileName(name) = {address}
  BY <1>1 DEF AddressFromFileName
<1>2. address.zone = NoZone BY DEF IsStorableAddress
<1>3. CASE address.version = 4 /\ address \in IPv4
  <2>1. name = [family |-> "ipv4", parts |-> [i \in 1..4 |-> Decimal(address.parts[i])]]
    BY <1>3 DEF AddressFileName
  <2>2. ASSUME NEW i \in 1..4
        PROVE  /\ name.parts[i] = Decimal(address.parts[i])
               /\ Number(name.parts[i], 10) = address.parts[i]
               /\ address.parts[i] <= 255
    <3>1. address.parts[i] \in Octet BY <1>3 DEF IPv4
    <3>2. address.parts[i] <= 255 BY <3>1 DEF Octet
    <3>3. name.parts[i] = Decimal(address.parts[i]) BY <2>1
    <3> QED BY <3>1, <3>2, <3>3, DecimalIsRead
  <2>3. name.family = "ipv4" /\ Len(name.parts) = 4
    <3>1. name.parts \in Seq({Decimal(address.parts[i]) : i \in 1..4}) /\ DOMAIN name.parts = 1..4
      BY <2>1
    <3> QED BY <2>1, <3>1
  <2> HIDE DEF name
  <2>4. ParseParts(name.family, name.parts) = {V4([i \in 1..4 |-> Number(name.parts[i], 10)])}
    BY <2>2, <2>3 DEF ParseParts
  <2>5. [i \in 1..4 |-> Number(name.parts[i], 10)] = address.parts
    <3>1. address.parts \in [1..4 -> Octet] BY <1>3 DEF IPv4
    <3> QED BY <2>2, <3>1
  <2>6. V4(address.parts) = address BY <1>3 DEF V4, IPv4
  <2> QED BY <1>1, <2>4, <2>5, <2>6 DEF name
<1>4. CASE address.version = 6 /\ address \in IPv6
  <2>1. name = [family |-> "ipv6", parts |-> [i \in 1..8 |-> Hexadecimal(address.parts[i])]]
    BY <1>4 DEF AddressFileName, ExpandIPv6
  <2>2. ASSUME NEW i \in 1..8
        PROVE  /\ Len(name.parts[i]) \in 1..4
               /\ Number(name.parts[i], 16) = address.parts[i]
    <3>1. address.parts[i] \in Group BY <1>4 DEF IPv6
    <3>2. name.parts[i] = Hexadecimal(address.parts[i]) BY <2>1
    <3>3. Len(Hexadecimal(address.parts[i])) = 4 BY DEF Hexadecimal
    <3> QED BY <3>1, <3>2, <3>3, HexadecimalIsRead
  <2>3. name.family = "ipv6" /\ Len(name.parts) = 8
    <3>1. name.parts \in Seq({Hexadecimal(address.parts[i]) : i \in 1..8})
          /\ DOMAIN name.parts = 1..8
      BY <2>1
    <3> QED BY <2>1, <3>1
  <2> HIDE DEF name
  <2>4. ParseParts(name.family, name.parts) = {V6([i \in 1..8 |-> Number(name.parts[i], 16)])}
    BY <2>2, <2>3 DEF ParseParts
  <2>5. [i \in 1..8 |-> Number(name.parts[i], 16)] = address.parts
    <3>1. address.parts \in [1..8 -> Group] BY <1>4 DEF IPv6
    <3> QED BY <2>2, <3>1
  <2>6. V6(address.parts) = address BY <1>2, <1>4 DEF V6, IPv6
  <2> QED BY <1>1, <2>4, <2>5, <2>6 DEF name
<1> QED BY <1>3, <1>4, Versions, Zenon

-----------------------------------------------------------------------------
(* Lists *)

IsFlattening(flatten, lists) ==
    flatten = [i \in 1..Len(lists) |->
                  IF i = 1 THEN lists[i] ELSE flatten[i - 1] \o lists[i]]

Concatenated(S, limit, lists) ==
    [pair \in Seq(S) \X (1..limit) |-> pair[1] \o lists[pair[2]]]

\* There are sequences that each go on with one list more than the one before.
LEMMA FlatteningExists ==
    ASSUME NEW S, NEW lists \in Seq(Seq(S))
    PROVE  \E flatten : IsFlattening(flatten, lists)
<1> DEFINE limit == Len(lists)
           step == Concatenated(S, limit, lists)
<1>1. limit \in Nat /\ \A i \in 1..limit : lists[i] \in Seq(S)
  BY LenProperties, ElementOfSeq
<1>2. step \in Steps(Seq(S), limit)
  <2>1. \A pair \in Seq(S) \X (1..limit) : pair[1] \o lists[pair[2]] \in Seq(S)
    <3> TAKE pair \in Seq(S) \X (1..limit)
    <3>1. pair[1] \in Seq(S) /\ lists[pair[2]] \in Seq(S) BY <1>1
    <3> QED BY <3>1, ConcatProperties
  <2> QED BY <2>1 DEF Steps, Concatenated
<1>3. << >> \in Seq(S) BY EmptySeq
<1> HIDE DEF limit, step
<1>4. PICK iter \in [Upto(limit) -> Seq(S)] : IsIteration(iter, limit, << >>, step)
  BY <1>1, <1>2, <1>3, IterationExists
<1>5. Follows(iter, Seq(S), limit, << >>, step)
  <2>1. {} \in Upto(limit) BY DEF Upto
  <2> QED BY <1>4, <2>1 DEF IsIteration, Follows
<1>6. PICK after \in [0..limit -> Seq(S)] : IsPath(after, limit, << >>, step)
  BY <1>1, <1>2, <1>3, <1>5, Iterated
<1> DEFINE flatten == [i \in 1..limit |-> after[i]]
<1>7. ASSUME NEW i \in 1..limit
      PROVE  after[i] = IF i = 1 THEN lists[i] ELSE flatten[i - 1] \o lists[i]
  <2>1. i - 1 \in 0..limit /\ <<after[i - 1], i>> \in Seq(S) \X (1..limit) BY <1>1
  <2>2. after[i] = after[i - 1] \o lists[i]
    BY <1>6, <2>1 DEF IsPath, step, Concatenated
  <2>3. CASE i = 1
    <3>0. i - 1 = 0 /\ after[0] = << >> BY <1>6, <2>3 DEF IsPath
    <3>1. after[i] = << >> \o lists[i] BY <2>2, <3>0
    <3>2. << >> \o lists[i] = lists[i] BY <1>1, ConcatEmptySeq
    <3> QED BY <2>3, <3>1, <3>2
  <2>4. CASE i # 1
    <3>1. i - 1 \in 1..limit BY <1>1, <2>4
    <3> QED BY <2>2, <2>4, <3>1
  <2> QED BY <2>3, <2>4
<1>8. IsFlattening(flatten, lists)
  <2>1. flatten = [i \in 1..limit |->
                      IF i = 1 THEN lists[i] ELSE flatten[i - 1] \o lists[i]]
    BY <1>7
  <2> HIDE DEF flatten
  <2> QED BY <2>1 DEF IsFlattening, limit
<1> QED BY <1>8

\* A list of lists, one after the other, holds what they hold.
LEMMA FlattenedSays ==
    ASSUME NEW S, NEW lists \in Seq(Seq(S))
    PROVE  /\ FlattenSeq(lists) \in Seq(S)
           /\ \A x : x \in Range(FlattenSeq(lists))
                      <=> \E i \in DOMAIN lists : x \in Range(lists[i])
<1> DEFINE limit == Len(lists)
           chosen == CHOOSE flatten : IsFlattening(flatten, lists)
<1>1. /\ limit \in Nat /\ DOMAIN lists = 1..limit
      /\ \A i \in 1..limit : lists[i] \in Seq(S)
  BY LenProperties, ElementOfSeq
<1>2. CASE limit = 0
  <2>1. lists = << >> /\ FlattenSeq(lists) = lists BY <1>2, EmptySeq DEF FlattenSeq
  <2>2. << >> \in Seq(S) /\ Range(<< >>) = {} BY EmptySeq DEF Range
  <2>3. DOMAIN lists = {} BY <1>1, <1>2
  <2> QED BY <2>1, <2>2, <2>3
<1>3. CASE limit # 0
  <2>1. FlattenSeq(lists) = chosen[limit] BY <1>3 DEF FlattenSeq, IsFlattening
  <2>2. IsFlattening(chosen, lists) BY FlatteningExists
  <2> HIDE DEF chosen
  <2>0. \A i \in 1..limit :
           chosen[i] = IF i = 1 THEN lists[i] ELSE chosen[i - 1] \o lists[i]
    BY <2>2 DEF IsFlattening
  <2> DEFINE Held(i) == UNION {Range(lists[j]) : j \in 1..i}
             Good == {i \in 0..limit : i = 0 \/ (chosen[i] \in Seq(S) /\ Range(chosen[i]) = Held(i))}
  <2>3. ASSUME NEW i \in 0 .. limit - 1, i \in Good PROVE i + 1 \in Good
    <3>0. i + 1 \in 1..limit /\ i + 1 \in 0..limit /\ (i + 1) - 1 = i BY <1>1
    <3>1. CASE i = 0
      <4>1. chosen[1] = lists[1] BY <2>0, <3>0, <3>1
      <4>2. 1..1 = {1} OBVIOUS
      <4> QED BY <1>1, <3>0, <3>1, <4>1, <4>2
    <3>2. CASE i # 0
      <4>1. chosen[i + 1] = chosen[i] \o lists[i + 1]
        <5>1. i + 1 # 1 BY <3>2
        <5> QED BY <2>0, <3>0, <5>1
      <4>2. chosen[i] \in Seq(S) /\ lists[i + 1] \in Seq(S) /\ Range(chosen[i]) = Held(i)
        BY <1>1, <2>3, <3>0, <3>2
      <4>3. /\ chosen[i + 1] \in Seq(S)
            /\ Range(chosen[i + 1]) = Range(chosen[i]) \cup Range(lists[i + 1])
        BY <4>1, <4>2, ConcatProperties, RangeConcatenation
      <4>4. 1 .. i + 1 = (1..i) \cup {i + 1} OBVIOUS
      <4>5. Held(i + 1) = Held(i) \cup Range(lists[i + 1]) BY <4>4
      <4> QED BY <3>0, <4>2, <4>3, <4>5
    <3> QED BY <3>1, <3>2
  <2>4. limit \in Good
    <3>1. Good \in SUBSET Nat /\ 0 \in Good /\ limit \in 0..limit BY <1>1
    <3> HIDE DEF Good
    <3> QED BY <1>1, <2>3, <3>1, CountsUp
  <2>5. chosen[limit] \in Seq(S) /\ Range(chosen[limit]) = Held(limit) BY <1>3, <2>4
  <2>6. \A x : x \in Held(limit) <=> \E i \in DOMAIN lists : x \in Range(lists[i]) BY <1>1
  <2> HIDE DEF Held
  <2> QED BY <2>1, <2>5, <2>6
<1> QED BY <1>2, <1>3

\* A set of one thing, as a list.
LEMMA SetToSeqOfOne ==
    ASSUME NEW x
    PROVE  SetToSeq({x}) = <<x>>
<1> DEFINE size == Cardinality({x})
           list == SetToSeq({x})
<1>1. size = 1 BY FS_Singleton
<1>2. PICK f \in [1..size -> {x}] : IsInjective(f)
  <2>1. [i \in 1..1 |-> x] \in [1..size -> {x}] BY <1>1
  <2>2. \A i \in 1..1 : i = 1 OBVIOUS
  <2>3. IsInjective([i \in 1..1 |-> x]) BY <2>2 DEF IsInjective
  <2> QED BY <2>1, <2>3
<1>3. list \in [1..size -> {x}] BY <1>2 DEF SetToSeq
<1> HIDE DEF list, size
<1>4. list \in [1..1 -> {x}] BY <1>1, <1>3
<1>5. list = [i \in 1..1 |-> x] BY <1>4
<1>6. [i \in 1..1 |-> x] = <<x>> OBVIOUS
<1> QED BY <1>5, <1>6 DEF list

\* A set of at most one thing, as a list.
LEMMA AtMostOneListed ==
    ASSUME NEW S, NEW T \in SUBSET S, \A x, y \in T : x = y
    PROVE  SetToSeq(T) \in Seq(S) /\ Range(SetToSeq(T)) = T
<1> DEFINE size == Cardinality(T)
           list == SetToSeq(T)
<1>1. CASE T = {}
  <2>1. size = 0 BY <1>1, FS_EmptySet
  <2>2. 1..size = {} BY <2>1
  <2>3. PICK f \in [1..size -> T] : IsInjective(f)
    <3>1. [i \in {} |-> i] \in [1..size -> T] BY <2>2
    <3>2. IsInjective([i \in {} |-> i]) BY DEF IsInjective
    <3> QED BY <3>1, <3>2
  <2>4. list \in [1..size -> T] BY <2>3 DEF SetToSeq
  <2> HIDE DEF list, size
  <2>5. list \in [1..0 -> S] /\ Range(list) = {} BY <1>1, <2>1, <2>4 DEF Range
  <2>6. list \in Seq(S) BY <2>5, SeqDef
  <2> QED BY <1>1, <2>5, <2>6 DEF list
<1>2. CASE T # {}
  <2>1. PICK x \in T : T = {x} BY <1>2
  <2>2. SetToSeq(T) = <<x>> BY <2>1, SetToSeqOfOne
  <2>3. <<x>> \in Seq(S) /\ Range(<<x>>) = {x} BY DEF Range
  <2> QED BY <2>1, <2>2, <2>3
<1> QED BY <1>1, <1>2

-----------------------------------------------------------------------------
(* What is collected *)

Storable == {address \in Address : IsStorableAddress(address)}

FourFeeds == {"threatfox", "feodotracker", "criminalip", "viribacktracker"}

\* An entry becomes at most one sighting, of an address that can be stored.
LEMMA SightingsSay ==
    ASSUME NEW text, NEW report
    PROVE  /\ \A one, other \in Sightings(text, report) : one = other
           /\ \A sighting \in Sightings(text, report) :
                 /\ text \in DOMAIN AddressTexts
                 /\ sighting.address \in Storable /\ sighting.report = report
                 /\ sighting = [address |-> sighting.address, report |-> sighting.report]
<1>1. \A address \in ParseAddress(text) :
         address = AddressTexts[text] /\ text \in DOMAIN AddressTexts /\ address \in Storable
  BY FeedsAssumption DEF ParseAddress, Storable
<1> QED BY <1>1 DEF Sightings

\* So does an entry of any feed (newSighting of each package).
LEMMA NewSightingSays ==
    ASSUME NEW name \in FourFeeds, NEW entry
    PROVE  /\ \A one, other \in NewSighting(name, entry) : one = other
           /\ \A sighting \in NewSighting(name, entry) :
                 /\ sighting.address \in Storable
                 /\ sighting = [address |-> sighting.address, report |-> sighting.report]
<1>1. CASE name = "threatfox"
  <2>1. NewSighting(name, entry) = ThreatFoxSighting(entry) BY <1>1 DEF NewSighting
  <2>2. PICK report : ThreatFoxSighting(entry) \subseteq Sightings(entry.ioc[1], report)
    BY DEF ThreatFoxSighting
  <2> QED BY <2>1, <2>2, SightingsSay
<1>2. CASE name = "feodotracker"
  <2>1. NewSighting(name, entry) = FeodoTrackerSighting(entry) BY <1>2 DEF NewSighting
  <2>2. PICK report : FeodoTrackerSighting(entry) \subseteq Sightings(entry.address, report)
    BY DEF FeodoTrackerSighting, Flagged
  <2> QED BY <2>1, <2>2, SightingsSay
<1>3. CASE name = "criminalip"
  <2>1. NewSighting(name, entry) = CriminalIPSighting(entry) BY <1>3 DEF NewSighting
  <2>2. PICK report : CriminalIPSighting(entry) \subseteq Sightings(entry[1], report)
    BY DEF CriminalIPSighting, Flagged
  <2> QED BY <2>1, <2>2, SightingsSay
<1>4. CASE name = "viribacktracker"
  <2>1. NewSighting(name, entry) = ViriBackSighting(entry) BY <1>4 DEF NewSighting
  <2>2. PICK report : ViriBackSighting(entry) \subseteq Sightings(entry[3], report)
    BY DEF ViriBackSighting, Flagged
  <2> QED BY <2>1, <2>2, SightingsSay
<1> QED BY <1>1, <1>2, <1>3, <1>4 DEF FourFeeds

\* What the entries of a list become, each by itself, is what the list becomes
\* (ConvertEntries, entries.go:38).
LEMMA ConvertedSays ==
    ASSUME NEW name \in FourFeeds, NEW E, NEW entries \in Seq(E)
    PROVE  /\ \E S : ConvertEntries(name, entries) \in Seq(S)
           /\ \A sighting : sighting \in Range(ConvertEntries(name, entries))
                <=> \E index \in DOMAIN entries : sighting \in NewSighting(name, entries[index])
<1> DEFINE lists == [index \in DOMAIN entries |-> SetToSeq(NewSighting(name, entries[index]))]
           S == UNION {NewSighting(name, entries[index]) : index \in DOMAIN entries}
<1>1. \A index \in DOMAIN entries :
         /\ lists[index] \in Seq(S)
         /\ Range(lists[index]) = NewSighting(name, entries[index])
  <2> TAKE index \in DOMAIN entries
  <2>1. NewSighting(name, entries[index]) \in SUBSET S OBVIOUS
  <2>2. \A one, other \in NewSighting(name, entries[index]) : one = other BY NewSightingSays
  <2>3. lists[index] = SetToSeq(NewSighting(name, entries[index])) OBVIOUS
  <2> HIDE DEF S, lists
  <2> QED BY <2>1, <2>2, <2>3, AtMostOneListed
<1>2. lists = [index \in DOMAIN entries |-> lists[index]] OBVIOUS
<1>3. ConvertEntries(name, entries) = FlattenSeq(lists) BY DEF ConvertEntries
<1> HIDE DEF lists, S
<1>4. lists \in Seq(Seq(S)) /\ DOMAIN lists = DOMAIN entries BY <1>1, <1>2, MappedSequence
<1> QED BY <1>1, <1>3, <1>4, FlattenedSays

-----------------------------------------------------------------------------
(* Lines of CSV *)

\* The states of reading rows of texts T, of which at most one is in progress.
Readings(T) ==
    {reading \in [rows : Seq(Seq(T)), held : SUBSET Seq(T)] :
        \A one, other \in reading.held : one = other}

\* Lines that are made of texts T.
LinesOf(T) ==
    {line \in [fields : Seq(T), opens : Nat, closes : Nat] :
        {line.opens, line.closes} \subseteq 0..Len(line.fields)}

Unread == [rows |-> << >>, held |-> {}]

\* What is read of the lines one after the other.
IsReading(after, lines) ==
    /\ after[0] = Unread
    /\ \A k \in 1..Len(lines) : after[k] = ReadLine(after[k - 1], lines[k])
    /\ FoldLeft(ReadLine, Unread, lines) = after[Len(lines)]

\* A line adds itself, or a row in progress, or what such a row has become, which
\* goes on holding what was read over the end of a line.
LEMMA ReadLineCases ==
    ASSUME NEW T, Garbled \in T, NEW reading \in Readings(T), NEW line \in LinesOf(T)
    PROVE  LET result == ReadLine(reading, line) IN
           /\ result \in Readings(T)
           /\ \/ /\ reading.held = {} /\ line.opens = 0
                 /\ result = [rows |-> Append(reading.rows, line.fields), held |-> {}]
              \/ /\ reading.held = {} /\ line.opens # 0
                 /\ result.rows = reading.rows
                 /\ \A row \in result.held : Garbled \in Range(row)
              \/ /\ reading.held # {} /\ result = reading
              \/ /\ reading.held # {} /\ result.held = {}
                 /\ \E row \in Seq(T) :
                       /\ result.rows = Append(reading.rows, row)
                       /\ (\A held \in reading.held : Garbled \in Range(held)) =>
                             Garbled \in Range(row)
<1> DEFINE result == ReadLine(reading, line)
<1>1. /\ reading.rows \in Seq(Seq(T)) /\ reading.held \in SUBSET Seq(T)
      /\ reading = [rows |-> reading.rows, held |-> reading.held]
      /\ line.fields \in Seq(T) /\ line.opens \in 0..Len(line.fields)
      /\ line.closes \in 0..Len(line.fields) /\ Len(line.fields) \in Nat
      /\ \A i \in 1..Len(line.fields) : line.fields[i] \in T
  BY LenProperties, ElementOfSeq DEF Readings, LinesOf
<1>2. CASE reading.held = {} /\ line.opens = 0
  <2>1. result = [rows |-> Append(reading.rows, line.fields), held |-> {}]
    BY <1>1, <1>2 DEF ReadLine
  <2>2. Append(reading.rows, line.fields) \in Seq(Seq(T)) BY <1>1, AppendProperties
  <2> HIDE DEF result
  <2>3. result \in Readings(T) BY <2>1, <2>2 DEF Readings
  <2> QED BY <1>2, <2>1, <2>3 DEF result
<1>3. CASE reading.held = {} /\ line.opens # 0
  <2> DEFINE before == SubSeq(line.fields, 1, line.opens - 1)
             row == Append(before, Garbled)
  <2>1. before \in Seq(T)
    <3>1. 1 \in Int /\ line.opens - 1 \in Int BY <1>1
    <3>2. \A i \in 1 .. line.opens - 1 : line.fields[i] \in T BY <1>1
    <3> QED BY <3>1, <3>2, SubSeqProperties
  <2> HIDE DEF before
  <2>2. row \in Seq(T) /\ Len(before) \in Nat /\ Len(row) = Len(before) + 1
        /\ row[Len(before) + 1] = Garbled
    BY <2>1, AppendProperties, LenProperties
  <2>3. result = [rows |-> reading.rows, held |-> {row}] BY <1>1, <1>3 DEF ReadLine, before
  <2> HIDE DEF row, result
  <2>4. Garbled \in Range(row)
    <3>1. DOMAIN row = 1..Len(row) BY <2>2, LenProperties
    <3>2. Len(before) + 1 \in DOMAIN row BY <2>2, <3>1
    <3> QED BY <2>2, <3>2 DEF Range
  <2>5. result \in Readings(T) BY <1>1, <2>2, <2>3 DEF Readings
  <2>6. result.rows = reading.rows /\ \A held \in result.held : Garbled \in Range(held)
    BY <2>3, <2>4
  <2> QED BY <1>3, <2>5, <2>6 DEF result
<1>4. CASE reading.held # {} /\ line.closes = 0
  <2>1. result = reading BY <1>4 DEF ReadLine
  <2> QED BY <1>4, <2>1
<1>5. CASE reading.held # {} /\ line.closes # 0
  <2> DEFINE rest == SubSeq(line.fields, line.closes + 1, Len(line.fields))
             ended == {held \o rest : held \in reading.held}
  <2>1. rest \in Seq(T)
    <3>1. line.closes + 1 \in Int /\ Len(line.fields) \in Int BY <1>1
    <3>2. \A i \in line.closes + 1 .. Len(line.fields) : line.fields[i] \in T BY <1>1
    <3> QED BY <3>1, <3>2, SubSeqProperties
  <2>2. PICK held \in reading.held : reading.held = {held} BY <1>5 DEF Readings
  <2>3. result = [rows |-> reading.rows \o SetToSeq(ended), held |-> {}]
    BY <1>5 DEF ReadLine
  <2> HIDE DEF rest
  <2> DEFINE row == held \o rest
  <2>4. ended = {row} BY <2>2
  <2>5. row \in Seq(T) BY <1>1, <2>1, <2>2, ConcatProperties
  <2> HIDE DEF ended, row, result
  <2>6. SetToSeq(ended) = <<row>>
    <3>1. ended \in SUBSET Seq(T) /\ \A one, other \in ended : one = other BY <2>4, <2>5
    <3>2. SetToSeq(ended) = <<row>> BY <2>4, SetToSeqOfOne
    <3> QED BY <3>2
  <2>7. result.rows = Append(reading.rows, row)
    <3>1. Append(reading.rows, row) = reading.rows \o <<row>> BY <1>1, <2>5, AppendIsConcat
    <3> QED BY <2>3, <2>6, <3>1
  <2>8. result.rows \in Seq(Seq(T)) BY <1>1, <2>5, <2>7, AppendProperties
  <2>9. result \in Readings(T) BY <2>3, <2>7, <2>8 DEF Readings
  <2>10. Garbled \in Range(held) => Garbled \in Range(row)
    BY <1>1, <2>1, <2>2, RangeConcatenation DEF row
  <2>11. result.held = {} BY <2>3
  <2> QED BY <1>5, <2>2, <2>5, <2>7, <2>9, <2>10, <2>11 DEF result
<1> QED BY <1>2, <1>3, <1>4, <1>5

\* One line after the other.
LEMMA LinesAreRead ==
    ASSUME NEW T, Garbled \in T, NEW lines \in Seq(LinesOf(T))
    PROVE  \E after \in [0..Len(lines) -> Readings(T)] : IsReading(after, lines)
<1> DEFINE limit == Len(lines)
           V == Readings(T)
           Iterates(iter) ==
              iter = [s \in SUBSET DOMAIN lines |->
                        IF s = {} THEN Unread
                        ELSE ReadLine(iter[s \ {Max(s)}], lines[Max(s)])]
           chosen == CHOOSE iter : Iterates(iter)
           step == [pair \in V \X (1..limit) |-> ReadLine(pair[1], lines[pair[2]])]
<1>1. /\ limit \in Nat /\ DOMAIN lines = 1..limit
      /\ \A i \in 1..limit : lines[i] \in LinesOf(T)
  BY LenProperties, ElementOfSeq
<1>2. Unread \in V BY EmptySeq DEF Unread, Readings
<1>3. FoldLeft(ReadLine, Unread, lines) = chosen[DOMAIN lines]
  BY DEF FoldLeft, MapThenFoldSet
<1>4. /\ step \in Steps(V, limit)
      /\ \A before \in V : \A index \in 1..limit :
            step[<<before, index>>] = ReadLine(before, lines[index])
  <2>1. \A before \in V : \A index \in 1..limit : ReadLine(before, lines[index]) \in V
    BY <1>1, ReadLineCases
  <2> QED BY <2>1 DEF Steps
<1> HIDE DEF V, step, limit
<1>5. \E iter : Iterates(iter)
  <2>1. PICK iter \in [Upto(limit) -> V] : IsIteration(iter, limit, Unread, step)
    BY <1>1, <1>2, <1>4, IterationExists
  <2>2. ASSUME NEW s \in Upto(limit), s # {}
        PROVE  iter[s] = ReadLine(iter[s \ {Max(s)}], lines[Max(s)])
    <3>1. Max(s) \in 1..limit BY <1>1, <2>2, MaxProperty DEF Upto
    <3>2. iter[s \ {Max(s)}] \in V BY DEF Upto
    <3> QED BY <1>4, <2>1, <2>2, <3>1, <3>2 DEF IsIteration
  <2>3. Iterates(iter) BY <1>1, <2>1, <2>2 DEF Upto, IsIteration
  <2> QED BY <2>3
<1>6. Iterates(chosen) BY <1>5
<1> HIDE DEF chosen
<1>7. chosen[{}] = Unread BY <1>6
<1>8. ASSUME NEW s \in Upto(limit), s # {}, chosen[s \ {Max(s)}] \in V
      PROVE  chosen[s] = step[<<chosen[s \ {Max(s)}], Max(s)>>]
  <2>1. Max(s) \in 1..limit BY <1>1, <1>8, MaxProperty DEF Upto
  <2>2. chosen[s] = ReadLine(chosen[s \ {Max(s)}], lines[Max(s)])
    BY <1>1, <1>6, <1>8 DEF Upto
  <2> QED BY <1>4, <1>8, <2>1, <2>2
<1> HIDE DEF Iterates
<1>9. PICK after \in [0..limit -> V] :
         IsPath(after, limit, Unread, step) /\ after[limit] = chosen[1..limit]
  <2>1. Follows(chosen, V, limit, Unread, step) BY <1>7, <1>8 DEF Follows
  <2>2. limit \in Nat /\ Unread \in V /\ step \in Steps(V, limit) BY <1>1, <1>2, <1>4
  <2> QED BY ONLY <2>1, <2>2, Iterated
<1>10. \A k \in 1..limit : after[k] = ReadLine(after[k - 1], lines[k])
  <2> TAKE k \in 1..limit
  <2>1. k - 1 \in 0..limit BY <1>1
  <2>2. after[k - 1] \in V BY <2>1
  <2>3. after[k] = step[<<after[k - 1], k>>] BY <1>9 DEF IsPath
  <2> QED BY <1>4, <2>2, <2>3
<1> QED BY <1>1, <1>3, <1>9, <1>10 DEF IsReading, IsPath, V, limit

\* The rows that are read of the first k lines: each is one of the lines or holds
\* garbled text, and each line up to one that leaves a quote open is its own row.
RowsSay(reading, lines, k) ==
    /\ Len(reading.rows) <= k
    /\ reading.held # {} => Len(reading.rows) < k
    /\ \A row \in reading.held : Garbled \in Range(row)
    /\ \A j \in 1..Len(reading.rows) :
          \/ Garbled \in Range(reading.rows[j])
          \/ \E i \in j..k : lines[i].opens = 0 /\ reading.rows[j] = lines[i].fields
    /\ \A m \in 0..k : (\A i \in 1..m : lines[i].opens = 0) =>
          /\ m = k => reading.held = {}
          /\ m <= Len(reading.rows)
          /\ \A i \in 1..m : reading.rows[i] = lines[i].fields

\* The next line keeps to that.
LEMMA RowsGoOn ==
    ASSUME NEW T, Garbled \in T, NEW lines \in Seq(LinesOf(T)), NEW k \in 1..Len(lines),
           NEW reading \in Readings(T), RowsSay(reading, lines, k - 1),
           NEW result, result = ReadLine(reading, lines[k])
    PROVE  RowsSay(result, lines, k)
<1>1. /\ lines[k] \in LinesOf(T) /\ reading.rows \in Seq(Seq(T)) /\ Len(reading.rows) \in Nat
      /\ k \in Nat /\ lines[k].fields \in Seq(T)
  BY LenProperties, ElementOfSeq DEF Readings, LinesOf
<1> DEFINE count == Len(reading.rows)
<1>2. ASSUME NEW row \in Seq(T), result.rows = Append(reading.rows, row)
      PROVE  /\ Len(result.rows) = count + 1
             /\ result.rows[count + 1] = row
             /\ \A j \in 1..count : result.rows[j] = reading.rows[j]
  BY <1>1, <1>2, AppendProperties
<1>3. \A j : k - 1 >= j => j..k-1 \subseteq j..k BY <1>1
<1>4. (lines[k].opens = 0 /\ \A i \in 1..k-1 : lines[i].opens = 0)
         <=> \A i \in 1..k : lines[i].opens = 0
  BY <1>1
<1>5. CASE /\ reading.held = {} /\ lines[k].opens = 0
           /\ result = [rows |-> Append(reading.rows, lines[k].fields), held |-> {}]
  <2>1. /\ Len(result.rows) = count + 1 /\ result.rows[count + 1] = lines[k].fields
        /\ \A j \in 1..count : result.rows[j] = reading.rows[j]
        /\ result.held = {}
    BY <1>1, <1>2, <1>5
  <2>2. count <= k - 1 BY DEF RowsSay
  <2>3. ASSUME NEW j \in 1 .. count + 1
        PROVE  \/ Garbled \in Range(result.rows[j])
               \/ \E i \in j..k : lines[i].opens = 0 /\ result.rows[j] = lines[i].fields
    <3>1. CASE j = count + 1
      <4>1. k \in j..k BY <1>1, <2>2, <3>1
      <4> QED BY <1>5, <2>1, <3>1, <4>1
    <3>2. CASE j # count + 1
      <4>1. j \in 1..count BY <1>1, <3>2
      <4>2. \/ Garbled \in Range(reading.rows[j])
            \/ \E i \in j..k-1 : lines[i].opens = 0 /\ reading.rows[j] = lines[i].fields
        BY <4>1 DEF RowsSay
      <4>3. \A i \in j..k-1 : i \in j..k BY <1>1
      <4> QED BY <2>1, <4>1, <4>2, <4>3
    <3> QED BY <3>1, <3>2
  <2>4. ASSUME NEW m \in 0..k, \A i \in 1..m : lines[i].opens = 0
        PROVE  m <= count + 1 /\ \A i \in 1..m : result.rows[i] = lines[i].fields
    <3>1. CASE m = k
      <4>1. \A i \in 1..k-1 : lines[i].opens = 0 BY <1>4, <2>4, <3>1
      <4>2. k - 1 <= count /\ \A i \in 1..k-1 : reading.rows[i] = lines[i].fields
        <5>1. k - 1 \in 0..k-1 BY <1>1
        <5> QED BY <4>1, <5>1 DEF RowsSay
      <4>3. k = count + 1 BY <1>1, <2>2, <4>2
      <4>4. ASSUME NEW i \in 1..k PROVE result.rows[i] = lines[i].fields
        <5>1. CASE i = k BY <2>1, <4>3, <5>1
        <5>2. CASE i # k
          <6>1. i \in 1..k-1 /\ i \in 1..count BY <1>1, <4>3, <5>2
          <6> QED BY <2>1, <4>2, <6>1
        <5> QED BY <5>1, <5>2
      <4> HIDE DEF count
      <4> QED BY <1>1, <3>1, <4>3, <4>4
    <3>2. CASE m # k
      <4>1. m \in 0..k-1 BY <1>1, <3>2
      <4>2. m <= count /\ \A i \in 1..m : reading.rows[i] = lines[i].fields
        BY <2>4, <4>1 DEF RowsSay
      <4>3. \A i \in 1..m : i \in 1..count BY <1>1, <4>1, <4>2
      <4>4. m <= count + 1 BY <1>1, <4>1, <4>2
      <4>5. ASSUME NEW i \in 1..m PROVE result.rows[i] = lines[i].fields
        <5>1. i \in 1..count BY <4>3
        <5>2. result.rows[i] = reading.rows[i] BY <2>1, <5>1
        <5>3. reading.rows[i] = lines[i].fields BY <4>2
        <5> QED BY <5>2, <5>3
      <4> QED BY <4>4, <4>5
    <3> QED BY <3>1, <3>2
  <2>5. Len(result.rows) <= k /\ (result.held # {} => Len(result.rows) < k)
    BY <1>1, <2>1, <2>2
  <2>6. ASSUME NEW j \in 1..Len(result.rows)
        PROVE  \/ Garbled \in Range(result.rows[j])
               \/ \E i \in j..k : lines[i].opens = 0 /\ result.rows[j] = lines[i].fields
    BY <2>1, <2>3
  <2>7. ASSUME NEW m \in 0..k, \A i \in 1..m : lines[i].opens = 0
        PROVE  m <= Len(result.rows) /\ \A i \in 1..m : result.rows[i] = lines[i].fields
    BY <2>1, <2>4, <2>7
  <2> HIDE DEF count
  <2> QED BY <2>1, <2>5, <2>6, <2>7 DEF RowsSay
<1>6. ASSUME result.rows = reading.rows, lines[k].opens # 0 \/ reading.held # {}
      PROVE  /\ \A j \in 1..Len(result.rows) :
                   \/ Garbled \in Range(result.rows[j])
                   \/ \E i \in j..k : lines[i].opens = 0 /\ result.rows[j] = lines[i].fields
             /\ \A m \in 0..k : (\A i \in 1..m : lines[i].opens = 0) =>
                   /\ m # k
                   /\ m <= Len(result.rows)
                   /\ \A i \in 1..m : result.rows[i] = lines[i].fields
  <2>1. ASSUME NEW j \in 1..Len(result.rows)
        PROVE  \/ Garbled \in Range(result.rows[j])
               \/ \E i \in j..k : lines[i].opens = 0 /\ result.rows[j] = lines[i].fields
    <3>1. \/ Garbled \in Range(reading.rows[j])
          \/ \E i \in j..k-1 : lines[i].opens = 0 /\ reading.rows[j] = lines[i].fields
      BY <1>6 DEF RowsSay
    <3>2. \A i \in j..k-1 : i \in j..k BY <1>1, <1>6
    <3> QED BY <1>6, <3>1, <3>2
  <2>2. ASSUME NEW m \in 0..k, \A i \in 1..m : lines[i].opens = 0
        PROVE  m # k /\ m <= count /\ \A i \in 1..m : reading.rows[i] = lines[i].fields
    <3>1. m # k
      <4> SUFFICES ASSUME m = k PROVE FALSE OBVIOUS
      <4>1. \A i \in 1..k : lines[i].opens = 0 BY <2>2
      <4>2. k - 1 \in 0..k-1 /\ \A i \in 1..k-1 : lines[i].opens = 0 BY <1>1, <1>4, <4>1
      <4>3. reading.held = {} BY <4>2 DEF RowsSay
      <4> QED BY <1>4, <1>6, <4>1, <4>3
    <3>2. m \in 0..k-1 BY <1>1, <3>1
    <3> QED BY <2>2, <3>1, <3>2 DEF RowsSay
  <2> QED BY <1>6, <2>1, <2>2
<1>7. CASE /\ reading.held = {} /\ lines[k].opens # 0 /\ result.rows = reading.rows
           /\ \A row \in result.held : Garbled \in Range(row)
  <2>1. count <= k - 1 BY DEF RowsSay
  <2> QED BY <1>1, <1>6, <1>7, <2>1 DEF RowsSay
<1>8. CASE reading.held # {} /\ result = reading
  <2>1. count < k - 1 /\ \A row \in result.held : Garbled \in Range(row) BY <1>8 DEF RowsSay
  <2>2. Len(result.rows) <= k /\ Len(result.rows) < k BY <1>1, <1>8, <2>1
  <2>3. result.rows = reading.rows BY <1>8
  <2> HIDE DEF count
  <2> QED BY <1>6, <1>8, <2>1, <2>2, <2>3 DEF RowsSay
<1>9. CASE /\ reading.held # {} /\ result.held = {}
           /\ \E row \in Seq(T) :
                 /\ result.rows = Append(reading.rows, row)
                 /\ (\A held \in reading.held : Garbled \in Range(held)) => Garbled \in Range(row)
  <2>1. count < k - 1 /\ \A held \in reading.held : Garbled \in Range(held) BY <1>9 DEF RowsSay
  <2>2. PICK row \in Seq(T) : result.rows = Append(reading.rows, row) /\ Garbled \in Range(row)
    BY <1>9, <2>1
  <2>3. /\ Len(result.rows) = count + 1 /\ result.rows[count + 1] = row
        /\ \A j \in 1..count : result.rows[j] = reading.rows[j]
    BY <1>2, <2>2
  <2>4. ASSUME NEW j \in 1 .. count + 1
        PROVE  \/ Garbled \in Range(result.rows[j])
               \/ \E i \in j..k : lines[i].opens = 0 /\ result.rows[j] = lines[i].fields
    <3>1. CASE j = count + 1 BY <2>2, <2>3, <3>1
    <3>2. CASE j # count + 1
      <4>1. j \in 1..count BY <1>1, <3>2
      <4>2. \/ Garbled \in Range(reading.rows[j])
            \/ \E i \in j..k-1 : lines[i].opens = 0 /\ reading.rows[j] = lines[i].fields
        BY <4>1 DEF RowsSay
      <4>3. \A i \in j..k-1 : i \in j..k BY <1>1
      <4> QED BY <2>3, <4>1, <4>2, <4>3
    <3> QED BY <3>1, <3>2
  <2>5. ASSUME NEW m \in 0..k, \A i \in 1..m : lines[i].opens = 0
        PROVE  m <= count /\ \A i \in 1..m : result.rows[i] = lines[i].fields
    <3>1. m # k
      <4> SUFFICES ASSUME m = k PROVE FALSE OBVIOUS
      <4>1. \A i \in 1..k : lines[i].opens = 0 BY <2>5
      <4>2. k - 1 \in 0..k-1 /\ \A i \in 1..k-1 : lines[i].opens = 0 BY <1>1, <1>4, <4>1
      <4>3. reading.held = {} BY <4>2 DEF RowsSay
      <4> QED BY <1>9, <4>3
    <3>2. m \in 0..k-1 BY <1>1, <3>1
    <3>3. m <= count /\ \A i \in 1..m : reading.rows[i] = lines[i].fields
      BY <2>5, <3>2 DEF RowsSay
    <3> QED BY <1>1, <2>3, <3>2, <3>3
  <2>6. /\ Len(result.rows) <= k /\ result.held = {}
        /\ \A m \in 0..k : m <= count => m <= Len(result.rows)
    BY <1>1, <1>9, <2>1, <2>3
  <2>7. \A j \in 1..Len(result.rows) :
           \/ Garbled \in Range(result.rows[j])
           \/ \E i \in j..k : lines[i].opens = 0 /\ result.rows[j] = lines[i].fields
    BY <2>3, <2>4
  <2> HIDE DEF count
  <2> QED BY <2>5, <2>6, <2>7 DEF RowsSay
<1>10. LET read == ReadLine(reading, lines[k]) IN
      \/ /\ reading.held = {} /\ lines[k].opens = 0
         /\ read = [rows |-> Append(reading.rows, lines[k].fields), held |-> {}]
      \/ /\ reading.held = {} /\ lines[k].opens # 0
         /\ read.rows = reading.rows
         /\ \A row \in read.held : Garbled \in Range(row)
      \/ /\ reading.held # {} /\ read = reading
      \/ /\ reading.held # {} /\ read.held = {}
         /\ \E row \in Seq(T) :
               /\ read.rows = Append(reading.rows, row)
               /\ (\A held \in reading.held : Garbled \in Range(held)) => Garbled \in Range(row)
  BY <1>1, ReadLineCases
<1> QED BY <1>5, <1>7, <1>8, <1>9, <1>10

\* So are the records of a file read (ReadCSVRows, csv.go:15): none but the file's
\* lines, save for garbled ones, and each line up to an open quote.
RecordsSay(records, lines) ==
    /\ \A j \in DOMAIN records :
          \/ Garbled \in Range(records[j])
          \/ \E i \in j..Len(lines) : lines[i].opens = 0 /\ records[j] = lines[i].fields
    /\ \A m \in DOMAIN lines : (\A i \in 1..m : lines[i].opens = 0) =>
          m \in DOMAIN records /\ records[m] = lines[m].fields
    /\ (\A i \in DOMAIN lines : lines[i].opens = 0) => Len(records) = Len(lines)

\* The file read line by line says so, its last row ended by the end of the file.
LEMMA RecordsRead ==
    ASSUME NEW T, Garbled \in T, NEW lines \in Seq(LinesOf(T))
    PROVE  ReadRecords(lines) \in Seq(Seq(T)) /\ RecordsSay(ReadRecords(lines), lines)
<1> DEFINE limit == Len(lines)
<1>1. limit \in Nat /\ DOMAIN lines = 1..limit BY LenProperties
<1>2. PICK after \in [0..limit -> Readings(T)] : IsReading(after, lines) BY LinesAreRead
<1> DEFINE Good == {k \in 0..limit : RowsSay(after[k], lines, k)}
<1>3. 0 \in Good
  <2>1. after[0] = [rows |-> << >>, held |-> {}] BY <1>2 DEF IsReading, Unread
  <2>2. Len(<< >>) = 0 /\ 0 \in 0..limit BY <1>1
  <2>3. RowsSay(after[0], lines, 0)
    <3>1. \A m \in 0..0 : m = 0 OBVIOUS
    <3> QED BY <2>1, <2>2, <3>1 DEF RowsSay
  <2> QED BY <2>2, <2>3
<1>4. ASSUME NEW k \in 0 .. limit - 1, k \in Good PROVE k + 1 \in Good
  <2>1. k + 1 \in 1..limit /\ k + 1 \in 0..limit /\ k \in 0..limit /\ (k + 1) - 1 = k BY <1>1
  <2>2. after[k + 1] = ReadLine(after[k], lines[k + 1]) /\ after[k] \in Readings(T)
    BY <1>2, <2>1 DEF IsReading
  <2>3. RowsSay(after[k + 1], lines, k + 1) BY <1>4, <2>1, <2>2, RowsGoOn
  <2> QED BY <2>1, <2>3
<1>5. RowsSay(after[limit], lines, limit) /\ after[limit] \in Readings(T)
  <2>1. Good \in SUBSET Nat /\ limit \in 0..limit BY <1>1
  <2> HIDE DEF Good
  <2>2. limit \in Good BY <1>1, <1>3, <1>4, <2>1, CountsUp
  <2> QED BY <2>1, <2>2 DEF Good
<1> DEFINE rows == after[limit].rows
           held == after[limit].held
           last == SetToSeq(held)
           records == rows \o last
<1>6. ReadRecords(lines) = records BY <1>2 DEF ReadRecords, IsReading, Unread
<1>7. rows \in Seq(Seq(T)) /\ Len(rows) \in Nat /\ last \in Seq(Seq(T)) /\ Range(last) = held
  <2>1. rows \in Seq(Seq(T)) /\ held \in SUBSET Seq(T) /\ \A one, other \in held : one = other
    BY <1>5 DEF Readings
  <2> QED BY <2>1, AtMostOneListed, LenProperties
<1>8. /\ Len(rows) <= limit
      /\ \A row \in held : Garbled \in Range(row)
      /\ \A j \in 1..Len(rows) :
            \/ Garbled \in Range(rows[j])
            \/ \E i \in j..limit : lines[i].opens = 0 /\ rows[j] = lines[i].fields
      /\ \A m \in 0..limit : (\A i \in 1..m : lines[i].opens = 0) =>
            /\ m = limit => held = {}
            /\ m <= Len(rows)
            /\ \A i \in 1..m : rows[i] = lines[i].fields
  BY <1>5 DEF RowsSay
<1> HIDE DEF rows, held, last, limit
<1>9. /\ records \in Seq(Seq(T)) /\ Len(records) = Len(rows) + Len(last) /\ Len(last) \in Nat
      /\ DOMAIN records = 1..Len(records) /\ DOMAIN last = 1..Len(last)
      /\ \A i \in 1..Len(records) :
            records[i] = IF i <= Len(rows) THEN rows[i] ELSE last[i - Len(rows)]
  <2>1. records \in Seq(Seq(T)) BY <1>7, ConcatProperties
  <2> QED BY <1>7, <2>1, ConcatProperties, LenProperties
<1> HIDE DEF records
<1>10. ASSUME NEW j \in DOMAIN records
       PROVE  \/ Garbled \in Range(records[j])
              \/ \E i \in j..limit : lines[i].opens = 0 /\ records[j] = lines[i].fields
  <2>1. CASE j <= Len(rows)
    <3>1. j \in 1..Len(rows) /\ records[j] = rows[j] BY <1>7, <1>9, <2>1
    <3> QED BY <1>8, <3>1
  <2>2. CASE ~ (j <= Len(rows))
    <3>1. j - Len(rows) \in DOMAIN last /\ records[j] = last[j - Len(rows)] BY <1>7, <1>9, <2>2
    <3>2. records[j] \in held BY <1>7, <3>1 DEF Range
    <3> QED BY <1>8, <3>2
  <2> QED BY <2>1, <2>2
<1>11. ASSUME NEW m \in DOMAIN lines, \A i \in 1..m : lines[i].opens = 0
       PROVE  m \in DOMAIN records /\ records[m] = lines[m].fields
  <2>1. m \in 0..limit /\ m \in 1..m BY <1>1
  <2>2. m <= Len(rows) /\ rows[m] = lines[m].fields BY <1>8, <1>11, <2>1
  <2>3. m \in 1..Len(records) BY <1>1, <1>7, <1>9, <2>1, <2>2
  <2> QED BY <1>9, <2>2, <2>3
<1>12. ASSUME \A i \in DOMAIN lines : lines[i].opens = 0 PROVE Len(records) = limit
  <2>1. limit \in 0..limit /\ \A i \in 1..limit : lines[i].opens = 0 BY <1>1, <1>12
  <2>2. held = {} /\ limit <= Len(rows) BY <1>8, <2>1
  <2>3. Len(last) = 0
    <3>1. \A i \in DOMAIN last : last[i] \in {} BY <1>7, <2>2 DEF Range
    <3>2. Len(last) \in Nat /\ DOMAIN last = 1..Len(last) BY <1>9
    <3>3. Len(last) # 0 => 1 \in DOMAIN last BY <3>2
    <3> QED BY <3>1, <3>3
  <2>4. Len(rows) \in Nat /\ Len(rows) <= limit /\ Len(records) = Len(rows) + Len(last)
    BY <1>7, <1>8, <1>9
  <2> QED BY ONLY <1>1, <2>2, <2>3, <2>4
<1> QED BY <1>6, <1>9, <1>10, <1>11, <1>12 DEF RecordsSay, limit

\* The rows among the records: all but the first that have as many columns.
LEMMA RowsRead ==
    ASSUME NEW T, Garbled \in T, NEW lines \in Seq(LinesOf(T)), NEW columns \in Nat
    PROVE  /\ ReadCSVRows(lines, columns) \in Seq(Seq(T))
           /\ \A row : row \in Range(ReadCSVRows(lines, columns))
                 <=> \E index \in DOMAIN ReadRecords(lines) :
                        /\ index # 1 /\ row = ReadRecords(lines)[index] /\ Len(row) = columns
<1> DEFINE records == ReadRecords(lines)
           lists == [index \in DOMAIN records |->
                        IF index # 1 /\ Len(records[index]) = columns
                        THEN <<records[index]>> ELSE << >>]
<1>1. records \in Seq(Seq(T)) BY RecordsRead
<1>2. ReadCSVRows(lines, columns) = FlattenSeq(lists) BY DEF ReadCSVRows
<1> HIDE DEF records
<1>3. \A index \in DOMAIN records : records[index] \in Seq(T) BY <1>1, LenProperties, ElementOfSeq
<1>4. \A index \in DOMAIN records :
         /\ lists[index] \in Seq(Seq(T))
         /\ Range(lists[index]) = {row \in {records[index]} : index # 1 /\ Len(row) = columns}
  <2> TAKE index \in DOMAIN records
  <2>1. << >> \in Seq(Seq(T)) /\ Range(<< >>) = {} BY EmptySeq DEF Range
  <2>2. <<records[index]>> \in Seq(Seq(T)) /\ Range(<<records[index]>>) = {records[index]}
    BY <1>3 DEF Range
  <2> QED BY <2>1, <2>2
<1>5. lists = [index \in DOMAIN records |-> lists[index]] OBVIOUS
<1> HIDE DEF lists
<1>6. lists \in Seq(Seq(Seq(T))) /\ DOMAIN lists = DOMAIN records
  BY <1>1, <1>4, <1>5, MappedSequence
<1> QED BY <1>2, <1>4, <1>6, FlattenedSays DEF records

-----------------------------------------------------------------------------
(* Grouping *)

\* A list is one of what it holds.
LEMMA HeldByASet ==
    ASSUME NEW S, NEW list \in Seq(S), NEW T, \A x \in Range(list) : x \in T
    PROVE  list \in Seq(T)
<1>1. Len(list) \in Nat /\ DOMAIN list = 1..Len(list) /\ list \in [1..Len(list) -> S]
  BY LenProperties
<1>2. list \in [1..Len(list) -> T] BY <1>1 DEF Range
<1> QED BY <1>1, <1>2, SeqDef

\* Each address that is listed is grouped under (runFeed, aggregator.go:269).
LEMMA ListedAddressesSay ==
    ASSUME NEW A, NEW R, NEW list \in Seq([address : A, report : R])
    PROVE  /\ ListedAddresses(list) \in Seq(A)
           /\ Range(ListedAddresses(list)) = {sighting.address : sighting \in Range(list)}
<1> DEFINE IsFirst(index) == ~ \E earlier \in 1 .. index - 1 :
                                    list[earlier].address = list[index].address
           lists == [index \in DOMAIN list |->
                        IF \E earlier \in 1 .. index - 1 :
                              list[earlier].address = list[index].address
                        THEN << >> ELSE <<list[index].address>>]
<1>1. /\ DOMAIN list = 1..Len(list) /\ Len(list) \in Nat
      /\ \A index \in DOMAIN list : list[index] \in [address : A, report : R]
  BY LenProperties, ElementOfSeq
<1>2. ListedAddresses(list) = FlattenSeq(lists) BY DEF ListedAddresses
<1>3. \A index \in DOMAIN list :
         /\ lists[index] \in Seq(A)
         /\ Range(lists[index]) = {address \in {list[index].address} : IsFirst(index)}
  <2> TAKE index \in DOMAIN list
  <2>1. << >> \in Seq(A) /\ Range(<< >>) = {} BY EmptySeq DEF Range
  <2>2. list[index].address \in A BY <1>1
  <2>3. <<list[index].address>> \in Seq(A)
        /\ Range(<<list[index].address>>) = {list[index].address}
    BY <2>2 DEF Range
  <2>4. CASE IsFirst(index)
    <3>1. lists[index] = <<list[index].address>> BY <2>4
    <3> HIDE DEF lists
    <3> QED BY <2>3, <2>4, <3>1
  <2>5. CASE ~IsFirst(index)
    <3>1. lists[index] = << >> BY <2>5
    <3> HIDE DEF lists
    <3> QED BY <2>1, <2>5, <3>1
  <2> QED BY <2>4, <2>5
<1>4. lists = [index \in DOMAIN list |-> lists[index]] OBVIOUS
<1> HIDE DEF lists, IsFirst
<1>5. lists \in Seq(Seq(A)) /\ DOMAIN lists = DOMAIN list BY <1>1, <1>3, <1>4, MappedSequence
<1>6. /\ ListedAddresses(list) \in Seq(A)
      /\ \A address : address \in Range(ListedAddresses(list))
            <=> \E index \in DOMAIN list : address = list[index].address /\ IsFirst(index)
  BY <1>2, <1>3, <1>5, FlattenedSays
<1>7. ASSUME NEW index \in DOMAIN list
      PROVE  \E first \in DOMAIN list : list[first].address = list[index].address /\ IsFirst(first)
  <2> DEFINE Same == {other \in DOMAIN list : list[other].address = list[index].address}
             first == Earliest(Same)
  <2>1. first \in Same /\ \A other \in Same : first <= other
    <3>1. Same \in SUBSET Nat /\ index \in Same BY <1>1
    <3> HIDE DEF Same
    <3> QED BY <3>1, EarliestProperty
  <2> HIDE DEF first
  <2>2. IsFirst(first)
    <3>1. \A earlier \in 1 .. first - 1 : earlier \in DOMAIN list /\ ~(first <= earlier)
      BY <1>1, <2>1
    <3> QED BY <2>1, <3>1 DEF IsFirst
  <2> QED BY <2>1, <2>2
<1>8. \A address : address \in {sighting.address : sighting \in Range(list)}
                     <=> \E index \in DOMAIN list : address = list[index].address
  BY DEF Range
<1> QED BY <1>6, <1>7, <1>8

\* And under an address are its own reports.
ReportsAbout(list, address) ==
    {sighting.report : sighting \in {one \in Range(list) : one.address = address}}

\* The list under an address holds these.
LEMMA ReportsForSay ==
    ASSUME NEW list \in Seq([address : Storable, report : Report]), NEW address
    PROVE  /\ ReportsFor(list, address) \in Seq(Report)
           /\ Range(ReportsFor(list, address)) = ReportsAbout(list, address)
<1> DEFINE lists == [index \in DOMAIN list |->
                        IF list[index].address = address THEN <<list[index].report>> ELSE << >>]
<1>1. /\ DOMAIN list = 1..Len(list) /\ Len(list) \in Nat
      /\ \A index \in DOMAIN list : list[index] \in [address : Storable, report : Report]
  BY LenProperties, ElementOfSeq
<1>2. ReportsFor(list, address) = FlattenSeq(lists) BY DEF ReportsFor
<1>3. \A index \in DOMAIN list :
         /\ lists[index] \in Seq(Report)
         /\ Range(lists[index]) = {report \in {list[index].report} : list[index].address = address}
  <2> TAKE index \in DOMAIN list
  <2>1. << >> \in Seq(Report) /\ Range(<< >>) = {} BY EmptySeq DEF Range
  <2>2. list[index].report \in Report BY <1>1
  <2>3. <<list[index].report>> \in Seq(Report)
        /\ Range(<<list[index].report>>) = {list[index].report}
    BY <2>2 DEF Range
  <2> QED BY <2>1, <2>3
<1>4. lists = [index \in DOMAIN list |-> lists[index]] OBVIOUS
<1> HIDE DEF lists
<1>5. lists \in Seq(Seq(Report)) /\ DOMAIN lists = DOMAIN list BY <1>1, <1>3, <1>4, MappedSequence
<1>6. /\ ReportsFor(list, address) \in Seq(Report)
      /\ \A report : report \in Range(ReportsFor(list, address))
            <=> \E index \in DOMAIN list : list[index].address = address /\ report = list[index].report
  BY <1>2, <1>3, <1>5, FlattenedSays
<1>7. \A report : report \in ReportsAbout(list, address)
         <=> \E index \in DOMAIN list : list[index].address = address /\ report = list[index].report
  BY DEF ReportsAbout, Range
<1>8. Range(ReportsFor(list, address)) = ReportsAbout(list, address) BY <1>6, <1>7
<1> QED BY <1>6, <1>8

-----------------------------------------------------------------------------
(* Collecting *)

CSVFeeds == {"criminalip", "viribacktracker"}

Columns(name) == IF name = "criminalip" THEN 6 ELSE 4

\* What an upstream can answer, as the assumption about replies has it.
IsAnswer(name, answer) ==
    /\ DOMAIN answer = {"status", "says", "listed"}
    /\ answer.listed \in Seq(Range(answer.listed))
    /\ \A entry \in Range(answer.listed) : EntryOf(name, entry)

\* Whether a feed comes to convert what is listed.
Converts(name, answer) ==
    /\ FetchError(answer) = "none"
    /\ name = "threatfox" => answer.says = "ok"
    /\ name = "feodotracker" => answer.says # "malformed"

\* And what it converts.
Decoded(name, listed) ==
    IF name \in CSVFeeds THEN ReadCSVRows(listed, Columns(name)) ELSE listed

\* A feed collects what it converts, if it comes to that.
LEMMA CollectSays ==
    ASSUME NEW name \in FourFeeds, NEW answer
    PROVE  Collect(name, answer).sightings
              = IF Converts(name, answer) THEN ConvertEntries(name, Decoded(name, answer.listed))
                ELSE << >>
<1> DEFINE result == Collect(name, answer).sightings
<1>1. CASE FetchError(answer) # "none"
  <2>1. ~Converts(name, answer) BY <1>1 DEF Converts
  <2>2. result = << >> BY <1>1 DEF Collect, Collected, CollectFailed
  <2> QED BY <2>1, <2>2
<1>2. CASE FetchError(answer) = "none" /\ name = "threatfox"
  <2>1. Converts(name, answer) <=> answer.says = "ok" BY <1>2 DEF Converts
  <2>2. Decoded(name, answer.listed) = answer.listed BY <1>2 DEF Decoded, CSVFeeds
  <2>3. result = ConvertResponse(answer).sightings BY <1>2 DEF Collect
  <2>4. ConvertResponse(answer).sightings
           = IF answer.says = "ok" THEN ConvertEntries("threatfox", answer.listed) ELSE << >>
    BY DEF ConvertResponse, Collected, CollectFailed
  <2> QED BY <1>2, <2>1, <2>2, <2>3, <2>4
<1>3. CASE FetchError(answer) = "none" /\ name = "feodotracker"
  <2>1. Converts(name, answer) <=> answer.says # "malformed" BY <1>3 DEF Converts
  <2>2. Decoded(name, answer.listed) = answer.listed BY <1>3 DEF Decoded, CSVFeeds
  <2>3. result = (IF answer.says = "malformed" THEN CollectFailed("other")
                  ELSE Collected(ConvertEntries(name, answer.listed))).sightings
    BY <1>3 DEF Collect
  <2> QED BY <2>1, <2>2, <2>3 DEF Collected, CollectFailed
<1>4. CASE FetchError(answer) = "none" /\ name = "criminalip"
  <2>1. Converts(name, answer) BY <1>4 DEF Converts
  <2>2. Decoded(name, answer.listed) = ReadCSVRows(answer.listed, 6)
    BY <1>4 DEF Decoded, CSVFeeds, Columns
  <2>3. result = Collected(ConvertEntries(name, ReadCSVRows(answer.listed, 6))).sightings
    BY <1>4 DEF Collect
  <2> QED BY <2>1, <2>2, <2>3 DEF Collected
<1>5. CASE FetchError(answer) = "none" /\ name = "viribacktracker"
  <2>1. Converts(name, answer) BY <1>5 DEF Converts
  <2>2. Decoded(name, answer.listed) = ReadCSVRows(answer.listed, 4)
    BY <1>5 DEF Decoded, CSVFeeds, Columns
  <2>3. result = Collected(ConvertEntries(name, ReadCSVRows(answer.listed, 4))).sightings
    BY <1>5 DEF Collect
  <2> QED BY <2>1, <2>2, <2>3 DEF Collected
<1> QED BY <1>1, <1>2, <1>3, <1>4, <1>5 DEF FourFeeds

\* The texts of lines.
Texts(listed) == {Garbled} \cup UNION {Range(line.fields) : line \in Range(listed)}

\* Lines are made of their texts.
LEMMA LinesAreOfTexts ==
    ASSUME NEW listed, listed \in Seq(Range(listed)), \A line \in Range(listed) : IsLine(line)
    PROVE  listed \in Seq(LinesOf(Texts(listed))) /\ Garbled \in Texts(listed)
<1> DEFINE T == Texts(listed)
<1>1. ASSUME NEW line \in Range(listed) PROVE line \in LinesOf(T)
  <2>1. /\ line = [fields |-> line.fields, opens |-> line.opens, closes |-> line.closes]
        /\ line.fields \in Seq(Range(line.fields))
        /\ {line.opens, line.closes} \subseteq 0..Len(line.fields)
    BY DEF IsLine, Line
  <2>2. \A text \in Range(line.fields) : text \in T BY DEF Texts
  <2> HIDE DEF T
  <2>3. line.fields \in Seq(T) BY <2>1, <2>2, HeldByASet
  <2>4. line.opens \in Nat /\ line.closes \in Nat BY <2>1
  <2>5. line \in [fields : Seq(T), opens : Nat, closes : Nat] BY <2>1, <2>3, <2>4
  <2> QED BY <2>1, <2>5 DEF LinesOf
<1>2. Garbled \in T BY DEF Texts
<1> HIDE DEF T
<1>3. listed \in Seq(LinesOf(T)) BY <1>1, HeldByASet
<1> QED BY <1>2, <1>3 DEF T

\* A list of at most the entries of an answer becomes what its entries do.
LEMMA DecodedSays ==
    ASSUME NEW name \in FourFeeds, NEW listed, listed \in Seq(Range(listed)),
           \A entry \in Range(listed) : EntryOf(name, entry)
    PROVE  LET converted == ConvertEntries(name, Decoded(name, listed)) IN
           /\ \E S : converted \in Seq(S)
           /\ \A sighting : sighting \in Range(converted)
                 <=> \E entry \in Range(Decoded(name, listed)) : sighting \in NewSighting(name, entry)
<1>1. PICK E : Decoded(name, listed) \in Seq(E)
  <2>1. CASE name \in CSVFeeds
    <3>1. Decoded(name, listed) = ReadCSVRows(listed, Columns(name)) BY <2>1 DEF Decoded
    <3>2. \A line \in Range(listed) : IsLine(line) BY <2>1 DEF EntryOf, CSVFeeds
    <3>3. Columns(name) \in Nat BY DEF Columns
    <3>4. Decoded(name, listed) \in Seq(Seq(Texts(listed)))
      BY <3>1, <3>2, <3>3, LinesAreOfTexts, RowsRead
    <3> QED BY <3>4
  <2>2. CASE name \notin CSVFeeds
    <3>1. Decoded(name, listed) = listed BY <2>2 DEF Decoded
    <3> QED BY <3>1
  <2> QED BY <2>1, <2>2
<1> DEFINE entries == Decoded(name, listed)
<1>2. \A entry : entry \in Range(entries) <=> \E index \in DOMAIN entries : entry = entries[index]
  BY DEF Range
<1> HIDE DEF entries
<1>3. entries \in Seq(E) BY <1>1 DEF entries
<1>4. /\ \E S : ConvertEntries(name, entries) \in Seq(S)
      /\ \A sighting : sighting \in Range(ConvertEntries(name, entries))
            <=> \E index \in DOMAIN entries : sighting \in NewSighting(name, entries[index])
  BY <1>3, ConvertedSays
<1> QED BY <1>2, <1>4 DEF entries

\* Of lines of which none leaves a quote open, each but the first becomes its own row.
LEMMA WholeLines ==
    ASSUME NEW name \in CSVFeeds, NEW T, Garbled \in T, NEW lines \in Seq(LinesOf(T)),
           \A i \in DOMAIN lines : lines[i].opens = 0
    PROVE  \A row : row \in Range(Decoded(name, lines))
              <=> \E i \in 2..Len(lines) :
                     row = lines[i].fields /\ Len(row) = Columns(name)
<1> DEFINE records == ReadRecords(lines)
<1>1. Decoded(name, lines) = ReadCSVRows(lines, Columns(name)) /\ Columns(name) \in Nat
  BY DEF Decoded, Columns
<1>2. records \in Seq(Seq(T)) /\ RecordsSay(records, lines) BY RecordsRead
<1>3. \A row : row \in Range(Decoded(name, lines))
         <=> \E index \in DOMAIN records :
                index # 1 /\ row = records[index] /\ Len(row) = Columns(name)
  BY <1>1, RowsRead
<1> HIDE DEF records
<1>4. /\ DOMAIN records = 1..Len(records) /\ DOMAIN lines = 1..Len(lines)
      /\ Len(records) = Len(lines) /\ Len(lines) \in Nat
  BY <1>2, LenProperties DEF RecordsSay
<1>5. \A i \in DOMAIN lines : records[i] = lines[i].fields
  <2> TAKE i \in DOMAIN lines
  <2>1. \A earlier \in 1..i : lines[earlier].opens = 0 BY <1>4
  <2> QED BY <1>2, <2>1 DEF RecordsSay
<1>6. \A index \in DOMAIN records : index # 1 <=> index \in 2..Len(lines) BY <1>4
<1> QED BY <1>3, <1>4, <1>5, <1>6

\* A reply that lists something else is otherwise the same.
Listing(answer, listed) == [answer EXCEPT !.listed = listed]

\* So a feed comes to convert it just as well.
LEMMA ListingSays ==
    ASSUME NEW name, NEW answer, IsAnswer(name, answer), NEW listed
    PROVE  /\ Listing(answer, listed).listed = listed
           /\ Converts(name, Listing(answer, listed)) <=> Converts(name, answer)
<1>1. /\ Listing(answer, listed).listed = listed
      /\ Listing(answer, listed).status = answer.status
      /\ Listing(answer, listed).says = answer.says
  BY DEF Listing, IsAnswer
<1>2. FetchError(Listing(answer, listed)) = FetchError(answer) BY <1>1 DEF FetchError
<1> QED BY <1>1, <1>2 DEF Converts

\* What is collected of an entry that is the only one of its reply.
LEMMA AloneSays ==
    ASSUME feed \in FourFeeds, NEW answer, IsAnswer(feed, answer), NEW index \in Entries(answer)
    PROVE  LET entry == answer.listed[index] IN
           /\ \A sighting \in Range(Alone(answer, index)) : sighting.address \in Storable
           /\ ~IsCSV => \A sighting : sighting \in Range(Alone(answer, index))
                 <=> Converts(feed, answer) /\ sighting \in NewSighting(feed, entry)
           /\ IsCSV /\ entry.opens = 0 => \A sighting : sighting \in Range(Alone(answer, index))
                 <=> /\ Converts(feed, answer) /\ Len(entry.fields) = Columns(feed)
                     /\ sighting \in NewSighting(feed, entry.fields)
<1> DEFINE entry == answer.listed[index]
           header == Line(<< >>, 0, 0)
           alone == IF IsCSV THEN <<header, entry>> ELSE <<entry>>
           decoded == Decoded(feed, alone)
           converted == ConvertEntries(feed, decoded)
<1>1. entry \in Range(answer.listed) /\ EntryOf(feed, entry)
  <2>1. DOMAIN answer.listed = 1..Len(answer.listed) BY LenProperties DEF IsAnswer
  <2>2. index \in DOMAIN answer.listed BY <2>1 DEF Entries
  <2> QED BY <2>2 DEF Range, IsAnswer
<1>2. IsCSV <=> feed \in CSVFeeds BY DEF IsCSV, CSVFeeds
<1>3. Alone(answer, index) = Collect(feed, Listing(answer, alone)).sightings
  BY DEF Alone, Listing
<1>4. Alone(answer, index) = IF Converts(feed, answer) THEN converted ELSE << >>
  <2> HIDE DEF alone
  <2> QED BY <1>3, CollectSays, ListingSays
<1>5. alone \in Seq(Range(alone)) /\ \A one \in Range(alone) : EntryOf(feed, one)
  <2>1. CASE IsCSV
    <3>1. alone = <<header, entry>> BY <2>1
    <3>2. Range(<<header, entry>>) = {header, entry}
      <4>1. DOMAIN <<header, entry>> = {1, 2} OBVIOUS
      <4> QED BY <4>1 DEF Range
    <3>3. <<header, entry>> \in Seq({header, entry}) OBVIOUS
    <3>4. EntryOf(feed, header)
      <4>1. /\ header.fields = << >> /\ header.opens = 0 /\ header.closes = 0
            /\ header = Line(header.fields, header.opens, header.closes)
        BY DEF Line
      <4>2. << >> \in Seq(Range(<< >>)) /\ Len(<< >>) = 0 BY EmptySeq
      <4>3. IsLine(header)
        <5> HIDE DEF header
        <5>1. {header.opens, header.closes} \subseteq 0..Len(header.fields) BY <4>1, <4>2
        <5>2. header.fields \in Seq(Range(header.fields)) BY <4>1, <4>2
        <5> QED BY <4>1, <5>1, <5>2 DEF IsLine
      <4> QED BY <1>2, <2>1, <4>3 DEF EntryOf, CSVFeeds
    <3> HIDE DEF header, entry, alone
    <3> QED BY <1>1, <3>1, <3>2, <3>3, <3>4
  <2>2. CASE ~IsCSV
    <3>1. alone = <<entry>> BY <2>2
    <3>2. Range(<<entry>>) = {entry} /\ <<entry>> \in Seq({entry}) BY DEF Range
    <3> HIDE DEF entry, alone
    <3> QED BY <1>1, <3>1, <3>2
  <2> QED BY <2>1, <2>2
<1> HIDE DEF alone, entry, header
<1>6. \A sighting : sighting \in Range(converted)
         <=> \E one \in Range(decoded) : sighting \in NewSighting(feed, one)
  BY <1>5, DecodedSays DEF converted, decoded
<1>7. Range(<< >>) = {} BY DEF Range
<1> HIDE DEF converted
<1>8. \A sighting \in Range(Alone(answer, index)) : sighting.address \in Storable
  BY <1>4, <1>6, <1>7, NewSightingSays
<1>9. ASSUME ~IsCSV
      PROVE  \A sighting : sighting \in Range(Alone(answer, index))
                <=> Converts(feed, answer) /\ sighting \in NewSighting(feed, entry)
  <2>1. decoded = <<entry>> BY <1>2, <1>9 DEF Decoded, alone
  <2>2. Range(decoded) = {entry} BY <2>1 DEF Range
  <2> QED BY <1>4, <1>6, <1>7, <2>2
<1>10. ASSUME IsCSV, entry.opens = 0
       PROVE  \A sighting : sighting \in Range(Alone(answer, index))
                <=> /\ Converts(feed, answer) /\ Len(entry.fields) = Columns(feed)
                    /\ sighting \in NewSighting(feed, entry.fields)
  <2>1. alone = <<header, entry>> BY <1>10 DEF alone
  <2>2. \A line \in Range(alone) : IsLine(line) BY <1>2, <1>5, <1>10 DEF EntryOf, CSVFeeds
  <2>3. alone \in Seq(LinesOf(Texts(alone))) /\ Garbled \in Texts(alone)
    BY <1>5, <2>2, LinesAreOfTexts
  <2>4. Len(alone) = 2 /\ DOMAIN alone = {1, 2} /\ alone[1] = header /\ alone[2] = entry
    BY <2>1
  <2>5. \A i \in DOMAIN alone : alone[i].opens = 0 BY <1>10, <2>4 DEF header, Line
  <2>6. \A row : row \in Range(decoded)
           <=> \E i \in 2..Len(alone) : row = alone[i].fields /\ Len(row) = Columns(feed)
    BY <1>2, <1>10, <2>3, <2>5, WholeLines
  <2>7. 2..2 = {2} OBVIOUS
  <2>8. \A row : row \in Range(decoded) <=> row = entry.fields /\ Len(row) = Columns(feed)
    BY <2>4, <2>6, <2>7
  <2> QED BY <1>4, <1>6, <1>7, <2>8
<1> QED BY <1>8, <1>9, <1>10 DEF entry

\* A row that was read over the end of a line says so in what it becomes.
LEMMA GarbledRowSays ==
    ASSUME feed \in CSVFeeds, NEW T, NEW row \in Seq(T), Len(row) = Columns(feed),
           Garbled \in Range(row), NEW sighting \in NewSighting(feed, row)
    PROVE  IsGarbled(sighting.report)
<1>1. PICK i \in 1..Len(row) : row[i] = Garbled
  <2>1. DOMAIN row = 1..Len(row) BY LenProperties
  <2> QED BY <2>1 DEF Range
<1>2. IsCSV BY DEF IsCSV, CSVFeeds
<1>3. Garbled \notin DOMAIN AddressTexts /\ Garbled \notin DateTexts BY FeedsAssumption
<1>4. ASSUME NEW text \in {Garbled} PROVE Garbled \in NormaliseFlags({text})
  BY <1>4, FeedsAssumption DEF NormaliseFlags
<1>5. CASE feed = "criminalip"
  <2> DEFINE columns == [column \in 1..4 |-> ValidText(row[column + 2])]
             report == NewReport(row[3], {row[2]}, columns)
  <2>1. sighting \in Sightings(row[1], report) /\ row[6] \in DateTexts
    BY <1>5 DEF NewSighting, CriminalIPSighting, Flagged
  <2>2. row[1] \in DOMAIN AddressTexts /\ sighting.report = report
    <3> HIDE DEF report
    <3> QED BY <2>1, SightingsSay
  <2>3. i \in 2..5
    <3>1. Len(row) = 6 BY <1>5 DEF Columns
    <3>2. i # 1 /\ i # 6 BY <1>1, <1>3, <2>1, <2>2
    <3> QED BY <3>1, <3>2
  <2>4. /\ report.key = row[3] /\ report.flags = NormaliseFlags({row[2]})
        /\ report.data.value = columns
    BY DEF NewReport
  <2>5. CASE i = 2 BY <1>1, <1>2, <1>4, <2>2, <2>4, <2>5 DEF IsGarbled
  <2>6. CASE i = 3 BY <1>1, <1>2, <2>2, <2>4, <2>6 DEF IsGarbled
  <2>7. CASE i \in 4..5
    <3>1. i - 2 \in 1..4 /\ (i - 2) + 2 = i BY <2>7
    <3>2. ValidText(Garbled) = Garbled BY FeedsAssumption DEF ValidText
    <3>3. columns[i - 2] = Garbled /\ i - 2 \in DOMAIN columns BY <1>1, <3>1, <3>2
    <3>4. Garbled \in Range(columns) BY <3>3 DEF Range
    <3> HIDE DEF columns
    <3> QED BY <1>2, <2>2, <2>4, <3>4 DEF IsGarbled
  <2> QED BY <2>3, <2>5, <2>6, <2>7
<1>6. CASE feed = "viribacktracker"
  <2> DEFINE report == NewReport(row[2], {row[1]}, <<ValidText(row[2]), row[4]>>)
  <2>1. sighting \in Sightings(row[3], report) /\ row[4] \in DateTexts
    BY <1>6 DEF NewSighting, ViriBackSighting, Flagged
  <2>2. row[3] \in DOMAIN AddressTexts /\ sighting.report = report
    <3> HIDE DEF report
    <3> QED BY <2>1, SightingsSay
  <2>3. i \in 1..2
    <3>1. Len(row) = 4 BY <1>6 DEF Columns
    <3>2. i # 3 /\ i # 4 BY <1>1, <1>3, <2>1, <2>2
    <3> QED BY <3>1, <3>2
  <2>4. report.key = row[2] /\ report.flags = NormaliseFlags({row[1]}) BY DEF NewReport
  <2>5. CASE i = 1 BY <1>1, <1>2, <1>4, <2>2, <2>4, <2>5 DEF IsGarbled
  <2>6. CASE i = 2 BY <1>1, <1>2, <2>2, <2>4, <2>6 DEF IsGarbled
  <2> QED BY <2>3, <2>5, <2>6
<1> QED BY <1>5, <1>6 DEF CSVFeeds

\* What is known of the sightings of an answer.
LEMMA CollectedSays ==
    ASSUME feed \in FourFeeds, NEW answer, IsAnswer(feed, answer)
    PROVE  LET collected == Collect(feed, answer).sightings IN
           /\ \E S : collected \in Seq(S)
           /\ \A sighting : sighting \in Range(collected)
                 <=> /\ Converts(feed, answer)
                     /\ \E entry \in Range(Decoded(feed, answer.listed)) :
                           sighting \in NewSighting(feed, entry)
<1>1. Range(<< >>) = {} /\ << >> \in Seq({}) BY DEF Range
<1>2. answer.listed \in Seq(Range(answer.listed))
      /\ \A entry \in Range(answer.listed) : EntryOf(feed, entry)
  BY DEF IsAnswer
<1> QED BY <1>1, <1>2, CollectSays, DecodedSays

\* None of them is anything but what an entry alone says, unless it is garbled.
LEMMA ListedOrGarbled ==
    ASSUME feed \in FourFeeds, NEW answer, IsAnswer(feed, answer),
           NEW sighting \in Range(Collect(feed, answer).sightings)
    PROVE  \/ IsGarbled(sighting.report)
           \/ \E index \in Entries(answer) : sighting \in Range(Alone(answer, index))
<1> DEFINE lines == answer.listed
<1>1. PICK row \in Range(Decoded(feed, lines)) :
         Converts(feed, answer) /\ sighting \in NewSighting(feed, row)
  BY CollectedSays
<1>2. lines \in Seq(Range(lines)) /\ DOMAIN lines = 1..Len(lines) /\ Len(lines) \in Nat
  BY LenProperties DEF IsAnswer
<1>3. CASE IsCSV
  <2>1. feed \in CSVFeeds BY <1>3 DEF IsCSV, CSVFeeds
  <2>2. \A line \in Range(lines) : IsLine(line) BY <2>1 DEF IsAnswer, EntryOf, CSVFeeds
  <2> DEFINE T == Texts(lines)
             records == ReadRecords(lines)
  <2>3. lines \in Seq(LinesOf(T)) /\ Garbled \in T BY <1>2, <2>2, LinesAreOfTexts
  <2>4. records \in Seq(Seq(T)) /\ RecordsSay(records, lines) BY <2>3, RecordsRead
  <2>5. Decoded(feed, lines) = ReadCSVRows(lines, Columns(feed)) /\ Columns(feed) \in Nat
    BY <2>1 DEF Decoded, Columns
  <2>6. PICK j \in DOMAIN records : j # 1 /\ row = records[j] /\ Len(row) = Columns(feed)
    BY <1>1, <2>3, <2>5, RowsRead
  <2>7. DOMAIN records = 1..Len(records) /\ Len(records) \in Nat /\ row \in Seq(T)
    BY <2>4, <2>6, LenProperties, ElementOfSeq
  <2>8. CASE Garbled \in Range(row) BY <1>1, <2>1, <2>6, <2>7, <2>8, GarbledRowSays
  <2>9. CASE Garbled \notin Range(row)
    <3>1. PICK i \in j..Len(lines) : lines[i].opens = 0 /\ row = lines[i].fields
      BY <2>4, <2>6, <2>9 DEF RecordsSay
    <3>2. i \in Entries(answer) BY <1>2, <1>3, <2>6, <2>7, <3>1 DEF Entries
    <3>3. sighting \in Range(Alone(answer, i)) BY <1>1, <1>3, <2>6, <3>1, <3>2, AloneSays
    <3> QED BY <3>2, <3>3
  <2> QED BY <2>8, <2>9
<1>4. CASE ~IsCSV
  <2>1. feed \notin CSVFeeds BY <1>4 DEF IsCSV, CSVFeeds
  <2>2. row \in Range(lines) BY <1>1, <2>1 DEF Decoded
  <2>3. PICK index \in DOMAIN lines : row = lines[index] BY <2>2 DEF Range
  <2>4. index \in Entries(answer) BY <1>4 DEF Entries
  <2>5. sighting \in Range(Alone(answer, index)) BY <1>1, <1>4, <2>3, <2>4, AloneSays
  <2> QED BY <2>4, <2>5
<1> QED BY <1>3, <1>4

\* Every entry is collected as it would be alone, up to a line of CSV that leaves a
\* quote open (ConvertEntries, entries.go:38).
LEMMA GoodEntriesCollected ==
    ASSUME feed \in FourFeeds, NEW answer, IsAnswer(feed, answer), NEW index \in Entries(answer),
           \A earlier \in 1..index : ~LeavesQuoteOpen(answer, earlier)
    PROVE  Range(Alone(answer, index)) \subseteq Range(Collect(feed, answer).sightings)
<1> DEFINE lines == answer.listed
<1> SUFFICES ASSUME NEW sighting \in Range(Alone(answer, index))
             PROVE  sighting \in Range(Collect(feed, answer).sightings)
  OBVIOUS
<1>1. lines \in Seq(Range(lines)) /\ DOMAIN lines = 1..Len(lines) /\ Len(lines) \in Nat
  BY LenProperties DEF IsAnswer
<1>2. CASE IsCSV
  <2>1. feed \in CSVFeeds BY <1>2 DEF IsCSV, CSVFeeds
  <2>2. \A line \in Range(lines) : IsLine(line) BY <2>1 DEF IsAnswer, EntryOf, CSVFeeds
  <2> DEFINE T == Texts(lines)
             records == ReadRecords(lines)
             row == lines[index].fields
  <2>3. lines \in Seq(LinesOf(T)) /\ Garbled \in T BY <1>1, <2>2, LinesAreOfTexts
  <2>4. records \in Seq(Seq(T)) /\ RecordsSay(records, lines) BY <2>3, RecordsRead
  <2>5. index \in 2..Len(lines) /\ index \in DOMAIN lines BY <1>1, <1>2 DEF Entries
  <2>6. \A earlier \in 1..index : lines[earlier].opens = 0 BY <1>2 DEF LeavesQuoteOpen
  <2>7. index \in DOMAIN records /\ records[index] = row BY <2>4, <2>5, <2>6 DEF RecordsSay
  <2>8. lines[index].opens = 0
    <3>1. index \in 1..index BY <2>5
    <3> QED BY <2>6, <3>1
  <2>9. /\ Converts(feed, answer) /\ Len(row) = Columns(feed) /\ sighting \in NewSighting(feed, row)
    BY <1>2, <2>8, AloneSays
  <2>10. Decoded(feed, lines) = ReadCSVRows(lines, Columns(feed)) /\ Columns(feed) \in Nat
    BY <2>1 DEF Decoded, Columns
  <2>11. row \in Range(Decoded(feed, lines))
    <3>1. index # 1 BY <2>5
    <3>2. \A one : one \in Range(ReadCSVRows(lines, Columns(feed)))
             <=> \E i \in DOMAIN records : i # 1 /\ one = records[i] /\ Len(one) = Columns(feed)
      BY <2>3, <2>10, RowsRead
    <3> HIDE DEF records, row, T, lines
    <3> QED BY <2>7, <2>9, <2>10, <3>1, <3>2
  <2> QED BY <2>9, <2>11, CollectedSays
<1>3. CASE ~IsCSV
  <2>1. feed \notin CSVFeeds /\ index \in DOMAIN lines BY <1>3 DEF IsCSV, CSVFeeds, Entries
  <2>2. Converts(feed, answer) /\ sighting \in NewSighting(feed, lines[index])
    BY <1>3, AloneSays
  <2>3. lines[index] \in Range(Decoded(feed, lines)) BY <2>1 DEF Decoded, Range
  <2> QED BY <2>2, <2>3, CollectedSays
<1> QED BY <1>2, <1>3

\* A list the other way round holds the same.
LEMMA ReverseSays ==
    ASSUME NEW S, NEW list \in Seq(S)
    PROVE  /\ Reverse(list) \in Seq(S) /\ Len(Reverse(list)) = Len(list)
           /\ \A i \in 1..Len(list) : Reverse(list)[i] = list[Len(list) + 1 - i]
           /\ Range(Reverse(list)) = Range(list)
<1> DEFINE n == Len(list)
           back == Reverse(list)
<1>1. n \in Nat /\ DOMAIN list = 1..n /\ list \in [1..n -> S] BY LenProperties
<1>2. back = [i \in 1..n |-> list[(n - i) + 1]] BY DEF Reverse
<1>3. \A i \in 1..n : (n - i) + 1 \in 1..n /\ (n - i) + 1 = n + 1 - i BY <1>1
<1> HIDE DEF n, back
<1>4. back \in [1..n -> S] BY <1>1, <1>2, <1>3
<1>5. back \in Seq(S) BY <1>1, <1>4, SeqDef
<1>6. Len(back) = n
  <2>1. DOMAIN back = 1..Len(back) /\ Len(back) \in Nat BY <1>5, LenProperties
  <2> QED BY <1>1, <1>4, <2>1
<1>7. \A i \in 1..n : back[i] = list[n + 1 - i] BY <1>2, <1>3
<1>8. Range(back) = Range(list)
  <2>1. \A i \in 1..n : n + 1 - i \in 1..n /\ n + 1 - (n + 1 - i) = i BY <1>1
  <2>2. \A i \in 1..n : list[i] = back[n + 1 - i] BY <1>7, <2>1
  <2> QED BY <1>1, <1>4, <1>7, <2>1, <2>2 DEF Range
<1> QED BY <1>5, <1>6, <1>7, <1>8 DEF n, back

\* An entry with its tags the other way round becomes the same sighting, because
\* they are stored in an order of their own (newSighting, threatfox.go:235).
LEMMA ReorderedEntrySays ==
    ASSUME NEW name \in FourFeeds \ CSVFeeds, NEW entry, EntryOf(name, entry),
           NEW other, other = [field \in DOMAIN entry |->
                                  IF field = "tags" THEN Reverse(entry.tags) ELSE entry[field]]
    PROVE  NewSighting(name, other) = NewSighting(name, entry)
<1>1. CASE name = "threatfox"
  <2>1. {"decodes", "type", "ioc", "id", "family", "firstSeen", "tags"} = DOMAIN entry
        /\ entry.tags \in Seq(Range(entry.tags))
    BY <1>1 DEF EntryOf
  <2>2. /\ other.decodes = entry.decodes /\ other.type = entry.type /\ other.ioc = entry.ioc
        /\ other.id = entry.id /\ other.family = entry.family
        /\ other.firstSeen = entry.firstSeen /\ other.tags = Reverse(entry.tags)
    BY <2>1
  <2>3. Range(other.tags) = Range(entry.tags) BY <2>1, <2>2, ReverseSays
  <2>4. ThreatFoxSighting(other) = ThreatFoxSighting(entry)
    BY <2>2, <2>3 DEF ThreatFoxSighting
  <2> QED BY <1>1, <2>4 DEF NewSighting
<1>2. CASE name = "feodotracker"
  <2>1. {"decodes", "address", "port", "family", "firstSeen", "lastOnline"} = DOMAIN entry
    BY <1>2 DEF EntryOf
  <2>2. /\ other.decodes = entry.decodes /\ other.address = entry.address
        /\ other.port = entry.port /\ other.family = entry.family
        /\ other.firstSeen = entry.firstSeen /\ other.lastOnline = entry.lastOnline
    BY <2>1
  <2>3. FeodoTrackerSighting(other) = FeodoTrackerSighting(entry)
    BY <2>2 DEF FeodoTrackerSighting
  <2> QED BY <1>2, <2>3 DEF NewSighting
<1> QED BY <1>1, <1>2 DEF FourFeeds, CSVFeeds

\* So a reply says the same in another order, if no line of CSV leaves a quote open.
LEMMA ReorderedSays ==
    ASSUME feed \in FourFeeds, NEW answer, IsAnswer(feed, answer),
           \A index \in DOMAIN answer.listed : ~LeavesQuoteOpen(answer, index),
           Collect(feed, answer).sightings # << >>
    PROVE  LET second == Collect(feed, Reordered(answer)).sightings IN
           /\ \E S : second \in Seq(S)
           /\ Range(second) = Range(Collect(feed, answer).sightings)
<1> DEFINE listed == answer.listed
           first == Collect(feed, answer).sightings
           n == Len(listed)
           again == IF IsCSV THEN <<Head(listed)>> \o Reverse(Tail(listed))
                    ELSE [index \in DOMAIN listed |->
                            LET entry == listed[Len(listed) + 1 - index] IN
                            [field \in DOMAIN entry |->
                                IF field = "tags" THEN Reverse(entry.tags) ELSE entry[field]]]
           second == Collect(feed, Listing(answer, again)).sightings
<1>1. Reordered(answer) = Listing(answer, again) BY DEF Reordered, Listing
<1>2. listed \in Seq(Range(listed)) /\ DOMAIN listed = 1..n /\ n \in Nat
  BY LenProperties DEF IsAnswer
<1>3. \E sighting : sighting \in Range(first)
  <2>1. PICK S : first \in Seq(S) BY CollectedSays
  <2>2. Len(first) \in Nat \ {0} /\ DOMAIN first = 1..Len(first) BY <2>1, EmptySeq, LenProperties
  <2>3. 1 \in DOMAIN first BY <2>2
  <2> QED BY <2>3 DEF Range
<1>4. /\ Converts(feed, answer)
      /\ \A sighting : sighting \in Range(first)
            <=> \E entry \in Range(Decoded(feed, listed)) : sighting \in NewSighting(feed, entry)
  BY <1>3, CollectedSays
<1>5. second = ConvertEntries(feed, Decoded(feed, again))
  <2> HIDE DEF again
  <2> QED BY <1>4, CollectSays, ListingSays
<1>6. CASE IsCSV
  <2>1. feed \in CSVFeeds BY <1>6 DEF IsCSV, CSVFeeds
  <2>2. \A line \in Range(listed) : IsLine(line) BY <2>1 DEF IsAnswer, EntryOf, CSVFeeds
  <2> DEFINE T == Texts(listed)
             L == LinesOf(T)
             back == Reverse(Tail(listed))
  <2>3. listed \in Seq(L) /\ Garbled \in T BY <1>2, <2>2, LinesAreOfTexts
  <2>4. \A i \in DOMAIN listed : listed[i].opens = 0 BY <1>6 DEF LeavesQuoteOpen
  <2> HIDE DEF T, L
  <2>5. \A row : row \in Range(Decoded(feed, listed))
           <=> \E i \in 2..n : row = listed[i].fields /\ Len(row) = Columns(feed)
    BY <2>1, <2>3, <2>4, WholeLines DEF L
  <2>6. n # 0
    <3>1. \E i : i \in 2..n BY <1>3, <1>4, <2>5
    <3> QED BY <1>2, <3>1
  <2>7. /\ Head(listed) = listed[1] /\ listed[1] \in L
        /\ Tail(listed) \in Seq(L) /\ Len(Tail(listed)) = n - 1
        /\ \A i \in 1 .. n - 1 : Tail(listed)[i] = listed[i + 1]
    <3>1. listed # << >>
      <4>1. Len(<< >>) = 0 OBVIOUS
      <4> QED BY <2>6, <4>1
    <3>2. 1 \in 1..Len(listed) BY <1>2, <2>6
    <3> QED BY <2>3, <3>1, <3>2, HeadTailProperties, ElementOfSeq
  <2>8. /\ back \in Seq(L) /\ Len(back) = n - 1
        /\ \A i \in 1 .. n - 1 : back[i] = Tail(listed)[n - 1 + 1 - i]
    <3> DEFINE tail == Tail(listed)
    <3> HIDE DEF tail
    <3>1. tail \in Seq(L) /\ Len(tail) = n - 1 BY <2>7 DEF tail
    <3>2. /\ Reverse(tail) \in Seq(L) /\ Len(Reverse(tail)) = Len(tail)
          /\ \A i \in 1..Len(tail) : Reverse(tail)[i] = tail[Len(tail) + 1 - i]
      BY <3>1, ReverseSays
    <3> HIDE DEF n, listed
    <3> QED BY <3>1, <3>2 DEF tail
  <2> HIDE DEF back
  <2>9. again = <<listed[1]>> \o back BY <1>6, <2>7 DEF back
  <2> HIDE DEF again
  <2>10. /\ again \in Seq(L) /\ Len(again) = n
         /\ \A i \in 2..n : again[i] = listed[n + 2 - i]
         /\ again[1] = listed[1]
    <3>1. <<listed[1]>> \in Seq(L) /\ Len(<<listed[1]>>) = 1 /\ <<listed[1]>>[1] = listed[1]
      BY <2>7
    <3> DEFINE head == <<listed[1]>>
    <3> HIDE DEF head
    <3>2. /\ again \in Seq(L) /\ Len(again) = Len(head) + Len(back)
          /\ \A i \in 1 .. Len(head) + Len(back) :
                again[i] = IF i <= Len(head) THEN head[i] ELSE back[i - Len(head)]
      BY <2>8, <2>9, <3>1, ConcatProperties DEF head
    <3>3. Len(head) = 1 /\ head[1] = listed[1] /\ 1 + (n - 1) = n
      BY <1>2, <3>1 DEF head
    <3>4. ASSUME NEW i \in 2..n PROVE again[i] = listed[n + 2 - i]
      <4>1. /\ i - 1 \in 1 .. n - 1 /\ ~(i <= 1) /\ i \in 1..n
            /\ n - 1 + 1 - (i - 1) \in 1 .. n - 1
            /\ (n - 1 + 1 - (i - 1)) + 1 = n + 2 - i
        BY <1>2
      <4>2. again[i] = back[i - 1] BY <2>8, <3>2, <3>3, <4>1
      <4>3. back[i - 1] = Tail(listed)[n - 1 + 1 - (i - 1)] BY <2>8, <4>1
      <4> QED BY <2>7, <4>1, <4>2, <4>3
    <3>5. again[1] = listed[1]
      <4>1. 1 \in 1..n /\ 1 <= 1 BY <1>2, <2>6
      <4> QED BY <2>8, <3>2, <3>3, <4>1
    <3> QED BY <2>8, <3>2, <3>3, <3>4, <3>5
  <2>11. \A i \in 2..n : n + 2 - i \in 2..n /\ n + 2 - (n + 2 - i) = i BY <1>2
  <2>12. DOMAIN again = 1..n BY <2>10, LenProperties
  <2>13. \A i \in DOMAIN again : again[i].opens = 0
    <3> TAKE i \in DOMAIN again
    <3>1. i = 1 \/ i \in 2..n BY <1>2, <2>12
    <3>2. 1 \in DOMAIN listed /\ \A k \in 2..n : k \in DOMAIN listed BY <1>2, <2>6
    <3> QED BY <2>4, <2>10, <2>11, <3>1, <3>2
  <2>14. \A row : row \in Range(Decoded(feed, again))
            <=> \E i \in 2..n : row = again[i].fields /\ Len(row) = Columns(feed)
    BY <2>1, <2>3, <2>10, <2>13, WholeLines DEF L
  <2>15. \A row : row \in Range(Decoded(feed, again)) <=> row \in Range(Decoded(feed, listed))
    <3>1. \A row : row \in Range(Decoded(feed, again)) => row \in Range(Decoded(feed, listed))
      BY <2>5, <2>10, <2>11, <2>14
    <3>2. \A i \in 2..n : listed[i] = again[n + 2 - i] BY <2>10, <2>11
    <3>3. ASSUME NEW row, row \in Range(Decoded(feed, listed))
          PROVE  row \in Range(Decoded(feed, again))
      <4>1. PICK i \in 2..n : row = listed[i].fields /\ Len(row) = Columns(feed) BY <2>5, <3>3
      <4>2. n + 2 - i \in 2..n /\ row = again[n + 2 - i].fields BY <2>11, <3>2, <4>1
      <4> QED BY <2>14, <4>1, <4>2
    <3> QED BY <3>1, <3>3
  <2>16. PICK E : Decoded(feed, again) \in Seq(E)
    <3>1. Decoded(feed, again) = ReadCSVRows(again, Columns(feed)) /\ Columns(feed) \in Nat
      BY <2>1 DEF Decoded, Columns
    <3> QED BY <2>3, <2>10, <3>1, RowsRead DEF L
  <2>17. /\ \E S : second \in Seq(S)
         /\ \A sighting : sighting \in Range(second)
               <=> \E entry \in Range(Decoded(feed, again)) : sighting \in NewSighting(feed, entry)
    <3>1. \A entry : entry \in Range(Decoded(feed, again))
             <=> \E index \in DOMAIN Decoded(feed, again) : entry = Decoded(feed, again)[index]
      BY DEF Range
    <3> QED BY <1>5, <2>16, <3>1, ConvertedSays
  <2>18. Range(second) = Range(first) BY <1>4, <2>15, <2>17
  <2> QED BY <1>1, <2>17, <2>18
<1>7. CASE ~IsCSV
  <2>1. feed \in FourFeeds \ CSVFeeds BY <1>7 DEF IsCSV, CSVFeeds
  <2> DEFINE Swapped(entry) == [field \in DOMAIN entry |->
                                  IF field = "tags" THEN Reverse(entry.tags) ELSE entry[field]]
  <2>2. again = [index \in 1..n |-> Swapped(listed[n + 1 - index])] BY <1>2, <1>7
  <2>3. \A index \in 1..n : n + 1 - index \in 1..n /\ n + 1 - (n + 1 - index) = index BY <1>2
  <2>4. ASSUME NEW entry \in Range(listed)
        PROVE  NewSighting(feed, Swapped(entry)) = NewSighting(feed, entry)
    <3>1. EntryOf(feed, entry) BY DEF IsAnswer
    <3> QED BY <2>1, <3>1, ReorderedEntrySays
  <2> HIDE DEF again, Swapped
  <2>5. PICK E : again \in Seq(E) /\ DOMAIN again = 1..n
    <3>1. again \in [1..n -> Range(again)] BY <2>2 DEF Range
    <3> QED BY <1>2, <3>1, SeqDef
  <2>6. Decoded(feed, again) = again /\ Decoded(feed, listed) = listed BY <2>1 DEF Decoded
  <2>7. /\ \E S : second \in Seq(S)
        /\ \A sighting : sighting \in Range(second)
              <=> \E index \in 1..n : sighting \in NewSighting(feed, again[index])
    BY <1>5, <2>5, <2>6, ConvertedSays
  <2>8. \A index \in 1..n : listed[index] \in Range(listed) BY <1>2 DEF Range
  <2>9. \A index \in 1..n :
           NewSighting(feed, again[index]) = NewSighting(feed, listed[n + 1 - index])
    BY <2>2, <2>3, <2>4, <2>8
  <2>10. \A sighting : sighting \in Range(second)
            <=> \E index \in 1..n : sighting \in NewSighting(feed, listed[n + 1 - index])
    BY <2>7, <2>9
  <2>11. \A sighting : sighting \in Range(first)
            <=> \E index \in 1..n : sighting \in NewSighting(feed, listed[index])
    BY <1>2, <1>4, <2>6 DEF Range
  <2>12. Range(second) = Range(first) BY <2>3, <2>10, <2>11
  <2> QED BY <1>1, <2>7, <2>12
<1> QED BY <1>6, <1>7

-----------------------------------------------------------------------------
(* Storing reports *)

\* A report is stored as of a moment: an observation of it ends then.  Here and
\* below keys are compared as they are encoded.
Stored(observations, report, moment) ==
    \E observation \in Range(observations) :
        /\ ValidText(observation.key) = ValidText(report.key)
        /\ HasSameContent(observation, report)
        /\ observation.lastObserved = moment

\* A report is the last of its key.
IsLatest(observations, report) ==
    \E index \in LatestObservationIndex(observations, report.key) :
        HasSameContent(observations[index], report)

\* An entry about the address said at the moment what a report or observation says.
WasSaid(moment, address, content) ==
    \E said \in heard :
        /\ said.at = moment /\ said.sighting.address = address
        /\ ValidText(said.sighting.report.key) = ValidText(content.key)
        /\ HasSameContent(content, said.sighting.report)

Attributed(observation, address) ==
    \/ IsGarbled(observation)
    \/ \A moment \in {observation.firstObserved, observation.lastObserved} :
          WasSaid(moment, address, observation)

\* What applying a report does: it extends the last observation of its key if that
\* says the same, or it begins a new one (addReports, record.go:166).
LEMMA ApplyReportSays ==
    ASSUME NEW observations \in Seq(Observation), NEW report \in Report, NEW time \in Time,
           NEW result, result = ApplyReport(observations, report, time)
    PROVE  /\ result \in Seq(Observation)
           /\ DOMAIN observations = 1..Len(observations) /\ Len(observations) \in Nat
           /\ DOMAIN observations \subseteq DOMAIN result
           /\ \/ /\ DOMAIN result = DOMAIN observations
                 /\ \E latest \in LatestObservationIndex(observations, report.key) :
                       /\ HasSameContent(observations[latest], report)
                       /\ result[latest] = Extended(observations[latest], time)
                       /\ \A index \in DOMAIN observations :
                             index # latest => result[index] = observations[index]
              \/ /\ DOMAIN result = 1 .. Len(observations) + 1
                 /\ \A index \in DOMAIN observations : result[index] = observations[index]
                 /\ result[Len(observations) + 1] = NewObservation(report, time)
                 /\ ~IsLatest(observations, report)
<1> DEFINE unchanged == {index \in LatestObservationIndex(observations, report.key) :
                            HasSameContent(observations[index], report)}
<1>1. /\ DOMAIN observations = 1..Len(observations) /\ Len(observations) \in Nat
      /\ result \in Seq(Observation)
  BY LenProperties, ApplyReportProperties
<1>2. CASE unchanged # {}
  <2>1. PICK latest \in unchanged : TRUE BY <1>2
  <2>2. \A index \in unchanged : index = latest
    BY <1>1, <2>1 DEF LatestObservationIndex
  <2>3. result = [index \in DOMAIN observations |->
                    IF index \in unchanged THEN Extended(observations[index], time)
                    ELSE observations[index]]
    BY <1>2 DEF ApplyReport
  <2>4. /\ latest \in LatestObservationIndex(observations, report.key)
        /\ HasSameContent(observations[latest], report)
        /\ latest \in DOMAIN observations
    BY <2>1 DEF LatestObservationIndex
  <2> HIDE DEF unchanged
  <2>5. /\ DOMAIN result = DOMAIN observations
        /\ result[latest] = Extended(observations[latest], time)
        /\ \A index \in DOMAIN observations : index # latest => result[index] = observations[index]
    BY <2>1, <2>2, <2>3, <2>4
  <2> QED BY <1>1, <2>4, <2>5
<1>3. CASE unchanged = {}
  <2>1. result = Append(observations, NewObservation(report, time)) BY <1>3 DEF ApplyReport
  <2>2. /\ Len(result) = Len(observations) + 1
        /\ \A index \in 1..Len(observations) : result[index] = observations[index]
        /\ result[Len(observations) + 1] = NewObservation(report, time)
    BY <2>1, NewObservationType, AppendProperties
  <2>3. DOMAIN result = 1 .. Len(observations) + 1 BY <1>1, <2>2, LenProperties
  <2>4. ~IsLatest(observations, report) BY <1>3 DEF IsLatest
  <2>5. \A index \in 1..Len(observations) : index \in 1 .. Len(observations) + 1 BY <1>1
  <2>6. /\ DOMAIN observations \subseteq DOMAIN result
        /\ \A index \in DOMAIN observations : result[index] = observations[index]
    BY <1>1, <2>2, <2>3, <2>5
  <2> QED BY <1>1, <2>2, <2>3, <2>4, <2>6
<1> QED BY <1>2, <1>3

\* Once applied, a report is stored as of now, and so are those before it.
LEMMA ApplyReportStores ==
    ASSUME NEW observations \in Seq(Observation), NEW report \in Report, NEW time \in Time,
           EndedBy(observations, time), NEW result, result = ApplyReport(observations, report, time)
    PROVE  /\ Stored(result, report, time)
           /\ \A other : Stored(observations, other, time) => Stored(result, other, time)
<1>1. \A index \in DOMAIN observations : observations[index] \in Observation
  BY LenProperties, ElementOfSeq
<1>2. CASE /\ DOMAIN result = DOMAIN observations
           /\ \E latest \in LatestObservationIndex(observations, report.key) :
                 /\ HasSameContent(observations[latest], report)
                 /\ result[latest] = Extended(observations[latest], time)
                 /\ \A index \in DOMAIN observations :
                       index # latest => result[index] = observations[index]
  <2>1. PICK latest \in LatestObservationIndex(observations, report.key) :
           /\ HasSameContent(observations[latest], report)
           /\ result[latest] = Extended(observations[latest], time)
           /\ \A index \in DOMAIN observations : index # latest => result[index] = observations[index]
    BY <1>2
  <2>2. latest \in DOMAIN observations /\ observations[latest].key = report.key
    BY <2>1 DEF LatestObservationIndex
  <2>3. /\ result[latest].key = observations[latest].key
        /\ result[latest].flags = observations[latest].flags
        /\ result[latest].data = observations[latest].data
        /\ observations[latest].lastObserved = time => result[latest] = observations[latest]
    BY <1>1, <2>1, <2>2, ExtendedSays DEF Extended, Time
  <2>4. result[latest].lastObserved = time
    <3>1. observations[latest] \in Observation /\ observations[latest].lastObserved <= time
      BY <1>1, <2>2 DEF EndedBy
    <3>2. observations[latest].lastObserved \in Nat /\ time \in Nat
      BY <3>1, ObservationTimes DEF Time
    <3>3. CASE time > observations[latest].lastObserved
      BY <2>1, <3>1, <3>3 DEF Extended, Observation
    <3>4. CASE ~(time > observations[latest].lastObserved)
      BY <2>1, <3>1, <3>2, <3>4 DEF Extended
    <3> QED BY <3>3, <3>4
  <2>5. Stored(result, report, time)
    BY <1>2, <2>1, <2>2, <2>3, <2>4 DEF Stored, Range, HasSameContent
  <2>6. ASSUME NEW other, Stored(observations, other, time) PROVE Stored(result, other, time)
    <3>1. PICK index \in DOMAIN observations :
             /\ ValidText(observations[index].key) = ValidText(other.key)
             /\ HasSameContent(observations[index], other)
             /\ observations[index].lastObserved = time
      BY <2>6 DEF Stored, Range
    <3>2. result[index] = observations[index] BY <2>1, <2>3, <3>1
    <3> QED BY <1>2, <3>1, <3>2 DEF Stored, Range
  <2> QED BY <2>5, <2>6
<1>3. CASE /\ DOMAIN result = 1 .. Len(observations) + 1
           /\ \A index \in DOMAIN observations : result[index] = observations[index]
           /\ result[Len(observations) + 1] = NewObservation(report, time)
  <2>1. DOMAIN observations = 1..Len(observations) /\ Len(observations) \in Nat BY LenProperties
  <2>2. Len(observations) + 1 \in DOMAIN result /\ \A index \in DOMAIN observations : index \in DOMAIN result
    BY <1>3, <2>1
  <2>3. Stored(result, report, time)
    BY <1>3, <2>2 DEF Stored, Range, NewObservation, HasSameContent
  <2>4. \A other : Stored(observations, other, time) => Stored(result, other, time)
    BY <1>3, <2>2 DEF Stored, Range
  <2> QED BY <2>3, <2>4
<1> QED BY <1>2, <1>3, ApplyReportSays

\* What it makes of attributed observations is attributed if the report was said.
LEMMA ApplyReportAttributes ==
    ASSUME NEW observations \in Seq(Observation), NEW report \in Report, NEW time \in Time,
           NEW result, result = ApplyReport(observations, report, time),
           NEW address, IsGarbled(report) \/ WasSaid(time, address, report),
           \A index \in DOMAIN observations : Attributed(observations[index], address)
    PROVE  \A index \in DOMAIN result : Attributed(result[index], address)
<1>1. \A index \in DOMAIN observations : observations[index] \in Observation
  BY LenProperties, ElementOfSeq
<1>2. CASE /\ DOMAIN result = DOMAIN observations
           /\ \E latest \in LatestObservationIndex(observations, report.key) :
                 /\ HasSameContent(observations[latest], report)
                 /\ result[latest] = Extended(observations[latest], time)
                 /\ \A index \in DOMAIN observations :
                       index # latest => result[index] = observations[index]
  <2>1. PICK latest \in LatestObservationIndex(observations, report.key) :
           /\ HasSameContent(observations[latest], report)
           /\ result[latest] = Extended(observations[latest], time)
           /\ \A index \in DOMAIN observations : index # latest => result[index] = observations[index]
    BY <1>2
  <2> DEFINE before == observations[latest]
             after == result[latest]
  <2>2. /\ latest \in DOMAIN observations /\ before.key = report.key
        /\ before.flags = report.flags /\ before.data.value = report.data.value
    BY <2>1 DEF LatestObservationIndex, HasSameContent
  <2>3. /\ after.key = before.key /\ after.flags = before.flags /\ after.data = before.data
        /\ after.firstObserved = before.firstObserved
    BY <1>1, <2>1, <2>2, ExtendedSays
  <2>4. after.lastObserved \in {before.lastObserved, time}
    BY <1>1, <2>1, <2>2 DEF Extended, Observation
  <2>5. Attributed(before, address) BY <2>2
  <2> HIDE DEF before, after
  <2>6. IsGarbled(report) <=> IsGarbled(after) BY <2>2, <2>3 DEF IsGarbled
  <2>7. IsGarbled(before) <=> IsGarbled(after) BY <2>3 DEF IsGarbled
  <2>8. /\ \A moment : WasSaid(moment, address, before) => WasSaid(moment, address, after)
        /\ WasSaid(time, address, report) => WasSaid(time, address, after)
    BY <2>2, <2>3 DEF WasSaid, HasSameContent
  <2>9. Attributed(after, address) BY <2>3, <2>4, <2>5, <2>6, <2>7, <2>8 DEF Attributed
  <2> QED BY <1>2, <2>1, <2>9 DEF after
<1>3. CASE /\ DOMAIN result = 1 .. Len(observations) + 1
           /\ \A index \in DOMAIN observations : result[index] = observations[index]
           /\ result[Len(observations) + 1] = NewObservation(report, time)
  <2>1. DOMAIN observations = 1..Len(observations) /\ Len(observations) \in Nat BY LenProperties
  <2> DEFINE new == NewObservation(report, time)
  <2>2. /\ new.key = report.key /\ new.flags = report.flags /\ new.data = report.data
        /\ new.firstObserved = time /\ new.lastObserved = time
    BY DEF NewObservation
  <2> HIDE DEF new
  <2>3. IsGarbled(report) => IsGarbled(new) BY <2>2 DEF IsGarbled
  <2>4. WasSaid(time, address, report) => WasSaid(time, address, new)
    BY <2>2 DEF WasSaid, HasSameContent
  <2>5. Attributed(new, address) BY <2>2, <2>3, <2>4 DEF Attributed
  <2>6. \A index \in DOMAIN result : index \in DOMAIN observations \/ index = Len(observations) + 1
    BY <1>3, <2>1
  <2> QED BY <1>3, <2>5, <2>6 DEF new
<1> QED BY <1>2, <1>3, ApplyReportSays

HaveValidKeys(observations) ==
    \A index \in DOMAIN observations : observations[index].key \notin InvalidTexts

\* Once applied, a report is the last of its key, and another key's is that still;
\* applied again it adds nothing.
LEMMA ApplyReportSettles ==
    ASSUME NEW observations \in Seq(Observation), NEW report \in Report, NEW time \in Time,
           NEW result, result = ApplyReport(observations, report, time)
    PROVE  /\ IsLatest(result, report)
           /\ \A other : IsLatest(observations, other)
                         /\ (other.key # report.key \/ IsLatest(observations, report))
                            => IsLatest(result, other)
           /\ IsLatest(observations, report) => Len(result) = Len(observations)
           /\ report.key \notin InvalidTexts /\ HaveValidKeys(observations)
              => HaveValidKeys(result)
<1>1. /\ DOMAIN observations = 1..Len(observations) /\ Len(observations) \in Nat
      /\ DOMAIN result = 1..Len(result) /\ Len(result) \in Nat
      /\ \A index \in DOMAIN observations : observations[index] \in Observation
  <2>1. result \in Seq(Observation) BY ApplyReportSays
  <2> QED BY <2>1, LenProperties, ElementOfSeq
<1>2. CASE /\ DOMAIN result = DOMAIN observations
           /\ \E latest \in LatestObservationIndex(observations, report.key) :
                 /\ HasSameContent(observations[latest], report)
                 /\ result[latest] = Extended(observations[latest], time)
                 /\ \A index \in DOMAIN observations :
                       index # latest => result[index] = observations[index]
  <2>1. PICK latest \in LatestObservationIndex(observations, report.key) :
           /\ HasSameContent(observations[latest], report)
           /\ result[latest] = Extended(observations[latest], time)
           /\ \A index \in DOMAIN observations : index # latest => result[index] = observations[index]
    BY <1>2
  <2>2. \A index \in DOMAIN observations :
           /\ result[index].key = observations[index].key
           /\ result[index].flags = observations[index].flags
           /\ result[index].data = observations[index].data
    BY <1>1, <2>1, ExtendedSays
  <2>3. \A key : LatestObservationIndex(result, key) = LatestObservationIndex(observations, key)
    BY <1>2, <2>2 DEF LatestObservationIndex
  <2>4. \A key : LatestObservationIndex(observations, key) \subseteq DOMAIN observations
    BY DEF LatestObservationIndex
  <2>5. \A other : IsLatest(observations, other) => IsLatest(result, other)
    BY <2>2, <2>3, <2>4 DEF IsLatest, HasSameContent
  <2>6. IsLatest(observations, report) BY <2>1 DEF IsLatest
  <2>7. Len(result) = Len(observations)
    <3> DEFINE m == Len(result)
               n == Len(observations)
    <3>1. m \in Nat /\ n \in Nat /\ 1..m = 1..n BY <1>1, <1>2
    <3> HIDE DEF m, n
    <3>2. (m # 0 => m \in 1..m) /\ (n # 0 => n \in 1..n) BY <3>1
    <3>3. (m # 0 => m \in 1..n) /\ (n # 0 => n \in 1..m) BY ONLY <3>1, <3>2, Zenon
    <3>4. m = n BY ONLY <3>1, <3>3
    <3> QED BY <3>4 DEF m, n
  <2>8. HaveValidKeys(observations) => HaveValidKeys(result)
    BY <1>2, <2>2 DEF HaveValidKeys
  <2> QED BY <2>5, <2>6, <2>7, <2>8
<1>3. CASE /\ DOMAIN result = 1 .. Len(observations) + 1
           /\ \A index \in DOMAIN observations : result[index] = observations[index]
           /\ result[Len(observations) + 1] = NewObservation(report, time)
           /\ ~IsLatest(observations, report)
  <2> DEFINE new == Len(observations) + 1
  <2>1. /\ new \in DOMAIN result
        /\ \A index \in DOMAIN result : index <= new /\ (index = new \/ index \in DOMAIN observations)
        /\ \A index \in DOMAIN observations : index \in DOMAIN result
    BY <1>1, <1>3
  <2>2. result[new].key = report.key /\ HasSameContent(result[new], report)
    BY <1>3 DEF NewObservation, HasSameContent
  <2> HIDE DEF new
  <2>3. new \in LatestObservationIndex(result, report.key)
    BY <2>1, <2>2 DEF LatestObservationIndex
  <2>4. IsLatest(result, report) BY <2>2, <2>3 DEF IsLatest
  <2>5. ASSUME NEW other, IsLatest(observations, other), other.key # report.key
        PROVE  IsLatest(result, other)
    <3>1. PICK index \in LatestObservationIndex(observations, other.key) :
             HasSameContent(observations[index], other)
      BY <2>5 DEF IsLatest
    <3>2. /\ index \in DOMAIN observations /\ observations[index].key = other.key
          /\ \A later \in DOMAIN observations : observations[later].key = other.key => later <= index
      BY <3>1 DEF LatestObservationIndex
    <3>3. index \in LatestObservationIndex(result, other.key)
      BY <1>3, <2>1, <2>2, <2>5, <3>2 DEF LatestObservationIndex
    <3> QED BY <1>3, <3>1, <3>2, <3>3 DEF IsLatest
  <2>6. ASSUME report.key \notin InvalidTexts, HaveValidKeys(observations)
        PROVE  HaveValidKeys(result)
    <3> SUFFICES ASSUME NEW index \in DOMAIN result PROVE result[index].key \notin InvalidTexts
      BY DEF HaveValidKeys
    <3>1. CASE index = new BY <2>2, <2>6, <3>1
    <3>2. CASE index \in DOMAIN observations BY <1>3, <2>6, <3>2 DEF HaveValidKeys
    <3> QED BY <2>1, <3>1, <3>2
  <2> QED BY <1>3, <2>4, <2>5, <2>6
<1> QED BY <1>2, <1>3, ApplyReportSays

\* One report after the other, as of one moment.
LEMMA FoldedSays ==
    ASSUME NEW base \in Seq(Observation), NEW reports \in Seq(Report), NEW time \in Time,
           EndedBy(base, time), NEW result, result = Folded(base, reports, time)
    PROVE  /\ result \in Seq(Observation) /\ Grows(base, result) /\ EndedBy(result, time)
           /\ \A report \in Range(reports) : Stored(result, report, time)
           /\ \A address :
                 /\ \A report \in Range(reports) : IsGarbled(report) \/ WasSaid(time, address, report)
                 /\ \A index \in DOMAIN base : Attributed(base[index], address)
                 => \A index \in DOMAIN result : Attributed(result[index], address)
<1> DEFINE limit == Len(reports)
<1>1. /\ limit \in Nat /\ DOMAIN reports = 1..limit
      /\ \A k \in 1..limit : reports[k] \in Report
  BY LenProperties, ElementOfSeq
<1> HIDE DEF limit
<1>2. PICK after \in [0..limit -> Seq(Observation)] : IsFold(after, base, reports, limit, time)
  <2>1. KeepTo(Seq(Observation), reports, limit, time) BY <1>1, ApplyReportProperties DEF KeepTo
  <2> QED BY <1>1, <2>1, FoldedReports
<1> DEFINE Said(address) ==
              /\ \A report \in Range(reports) : IsGarbled(report) \/ WasSaid(time, address, report)
              /\ \A index \in DOMAIN base : Attributed(base[index], address)
           Good == {k \in 0..limit :
                      /\ Grows(base, after[k]) /\ EndedBy(after[k], time)
                      /\ \A i \in 1..k : Stored(after[k], reports[i], time)
                      /\ \A address : Said(address) =>
                            \A index \in DOMAIN after[k] : Attributed(after[k][index], address)}
<1>3. 0 \in Good
  <2>1. after[0] = base /\ 0 \in 0..limit /\ 1..0 = {} BY <1>1, <1>2 DEF IsFold
  <2>2. Grows(base, base) BY GrowsReflexive
  <2> QED BY <2>1, <2>2
<1>4. ASSUME NEW k \in 0 .. limit - 1, k \in Good PROVE k + 1 \in Good
  <2>1. k + 1 \in 1..limit /\ k + 1 \in 0..limit /\ k \in 0..limit /\ (k + 1) - 1 = k BY <1>1
  <2> DEFINE before == after[k]
             next == after[k + 1]
  <2>2. /\ next = ApplyReport(before, reports[k + 1], time)
        /\ before \in Seq(Observation) /\ next \in Seq(Observation) /\ reports[k + 1] \in Report
    BY <1>1, <1>2, <2>1 DEF IsFold
  <2>3. /\ Grows(base, before) /\ EndedBy(before, time)
        /\ \A i \in 1..k : Stored(before, reports[i], time)
        /\ \A address : Said(address) =>
              \A index \in DOMAIN before : Attributed(before[index], address)
    BY <1>4
  <2> HIDE DEF before, next
  <2>4. Grows(base, next)
    <3>1. Grows(before, next) BY <2>2, ApplyReportProperties
    <3> QED BY <2>2, <2>3, <3>1, GrowsTransitive
  <2>5. EndedBy(next, time) BY <2>2, <2>3, ApplyReportInOrder
  <2>6. ASSUME NEW i \in 1 .. k + 1 PROVE Stored(next, reports[i], time)
    <3>1. i \in 1..k \/ i = k + 1 BY <1>1
    <3>2. EndedBy(before, time) BY <2>3
    <3>3. /\ Stored(next, reports[k + 1], time)
          /\ \A other : Stored(before, other, time) => Stored(next, other, time)
      BY <2>2, <3>2, ApplyReportStores
    <3> QED BY <2>3, <3>1, <3>3
  <2>7. ASSUME NEW address, Said(address)
        PROVE  \A index \in DOMAIN next : Attributed(next[index], address)
    <3>1. IsGarbled(reports[k + 1]) \/ WasSaid(time, address, reports[k + 1])
      BY <1>1, <2>1, <2>7 DEF Range
    <3>2. \A index \in DOMAIN before : Attributed(before[index], address)
      <4> HIDE DEF Said
      <4> QED BY <2>3, <2>7
    <3> DEFINE report == reports[k + 1]
    <3>3. /\ report \in Report /\ before \in Seq(Observation) /\ time \in Time
          /\ next = ApplyReport(before, report, time)
          /\ IsGarbled(report) \/ WasSaid(time, address, report)
      BY <2>2, <3>1
    <3> HIDE DEF report
    <3> QED BY ONLY <3>2, <3>3, ApplyReportAttributes
  <2> QED BY <2>1, <2>4, <2>5, <2>6, <2>7 DEF next
<1>5. limit \in Good
  <2>1. Good \in SUBSET Nat /\ limit \in 0..limit BY <1>1
  <2> HIDE DEF Good
  <2> QED BY <1>1, <1>3, <1>4, <2>1, CountsUp
<1>6. result = after[limit] /\ after[limit] \in Seq(Observation)
  <2>1. limit \in 0..limit BY <1>1
  <2> QED BY <1>2, <2>1 DEF IsFold, Folded
<1>7. \A report \in Range(reports) : \E i \in 1..limit : report = reports[i] BY <1>1 DEF Range
<1> QED BY <1>5, <1>6, <1>7

\* Reports of different keys are each the last of its key at the end.
LEMMA FoldedSettles ==
    ASSUME NEW base \in Seq(Observation), NEW reports \in Seq(Report), NEW time \in Time,
           IsInjective([index \in DOMAIN reports |-> reports[index].key]),
           NEW result, result = Folded(base, reports, time)
    PROVE  /\ result \in Seq(Observation)
           /\ \A report \in Range(reports) : IsLatest(result, report)
           /\ HaveValidKeys(base) /\ (\A report \in Range(reports) : report.key \notin InvalidTexts)
              => HaveValidKeys(result)
<1> DEFINE limit == Len(reports)
<1>1. /\ limit \in Nat /\ DOMAIN reports = 1..limit
      /\ \A k \in 1..limit : reports[k] \in Report
  BY LenProperties, ElementOfSeq
<1> HIDE DEF limit
<1>2. PICK after \in [0..limit -> Seq(Observation)] : IsFold(after, base, reports, limit, time)
  <2>1. KeepTo(Seq(Observation), reports, limit, time) BY <1>1, ApplyReportProperties DEF KeepTo
  <2> QED BY <1>1, <2>1, FoldedReports
<1>3. \A i, j \in 1..limit : i # j => reports[i].key # reports[j].key
  BY <1>1 DEF IsInjective
<1> DEFINE AllValid ==
              HaveValidKeys(base) /\ \A report \in Range(reports) : report.key \notin InvalidTexts
           Good == {k \in 0..limit :
                      /\ \A i \in 1..k : IsLatest(after[k], reports[i])
                      /\ AllValid => HaveValidKeys(after[k])}
<1>4. 0 \in Good
  <2>1. 0 \in 0..limit /\ 1..0 = {} /\ after[0] = base BY <1>1, <1>2 DEF IsFold
  <2> QED BY <2>1
<1>5. ASSUME NEW k \in 0 .. limit - 1, k \in Good PROVE k + 1 \in Good
  <2>1. k + 1 \in 1..limit /\ k + 1 \in 0..limit /\ k \in 0..limit /\ (k + 1) - 1 = k BY <1>1
  <2> DEFINE before == after[k]
             next == after[k + 1]
  <2>2. /\ next = ApplyReport(before, reports[k + 1], time)
        /\ before \in Seq(Observation) /\ reports[k + 1] \in Report
    BY <1>1, <1>2, <2>1 DEF IsFold
  <2>3. /\ \A i \in 1..k : IsLatest(before, reports[i])
        /\ AllValid => HaveValidKeys(before)
    BY <1>5
  <2> HIDE DEF before, next
  <2>4. ASSUME NEW i \in 1 .. k + 1 PROVE IsLatest(next, reports[i])
    <3>1. CASE i = k + 1 BY <2>2, <3>1, ApplyReportSettles
    <3>2. CASE i # k + 1
      <4>1. i \in 1..k /\ i \in 1..limit BY <1>1, <2>1, <3>2
      <4>2. reports[i].key # reports[k + 1].key BY <1>3, <2>1, <3>2, <4>1
      <4> QED BY <2>2, <2>3, <4>1, <4>2, ApplyReportSettles
    <3> QED BY <3>1, <3>2
  <2>5. ASSUME AllValid PROVE HaveValidKeys(next)
    <3>1. reports[k + 1].key \notin InvalidTexts BY <1>1, <2>1, <2>5 DEF Range
    <3>2. HaveValidKeys(before) BY <2>3, <2>5
    <3> QED BY <2>2, <3>1, <3>2, ApplyReportSettles
  <2> QED BY <2>1, <2>4, <2>5 DEF next
<1>6. limit \in Good
  <2>1. Good \in SUBSET Nat /\ limit \in 0..limit BY <1>1
  <2> HIDE DEF Good
  <2> QED BY <1>1, <1>4, <1>5, <2>1, CountsUp
<1>7. result = after[limit] /\ after[limit] \in Seq(Observation)
  <2>1. limit \in 0..limit BY <1>1
  <2> QED BY <1>2, <2>1 DEF IsFold
<1>8. \A report \in Range(reports) : \E i \in 1..limit : report = reports[i] BY <1>1 DEF Range
<1> QED BY <1>6, <1>7, <1>8

\* Reports that are the last of their keys add nothing.
LEMMA FoldedAgain ==
    ASSUME NEW base \in Seq(Observation), NEW reports \in Seq(Report), NEW time \in Time,
           \A report \in Range(reports) : IsLatest(base, report)
    PROVE  Len(Folded(base, reports, time)) = Len(base)
<1> DEFINE limit == Len(reports)
<1>1. /\ limit \in Nat /\ DOMAIN reports = 1..limit
      /\ \A k \in 1..limit : reports[k] \in Report /\ reports[k] \in Range(reports)
  <2>1. limit \in Nat /\ DOMAIN reports = 1..limit BY LenProperties
  <2> QED BY <2>1, ElementOfSeq DEF Range
<1> HIDE DEF limit
<1>2. PICK after \in [0..limit -> Seq(Observation)] : IsFold(after, base, reports, limit, time)
  <2>1. KeepTo(Seq(Observation), reports, limit, time) BY <1>1, ApplyReportProperties DEF KeepTo
  <2> QED BY <1>1, <2>1, FoldedReports
<1> DEFINE Good == {k \in 0..limit :
                      /\ Len(after[k]) = Len(base)
                      /\ \A report \in Range(reports) : IsLatest(after[k], report)}
<1>3. 0 \in Good
  <2>1. after[0] = base /\ 0 \in 0..limit BY <1>1, <1>2 DEF IsFold
  <2> QED BY <2>1
<1>4. ASSUME NEW k \in 0 .. limit - 1, k \in Good PROVE k + 1 \in Good
  <2>1. k + 1 \in 1..limit /\ k + 1 \in 0..limit /\ k \in 0..limit /\ (k + 1) - 1 = k BY <1>1
  <2> DEFINE before == after[k]
             next == after[k + 1]
  <2>2. /\ next = ApplyReport(before, reports[k + 1], time)
        /\ before \in Seq(Observation) /\ reports[k + 1] \in Report
        /\ reports[k + 1] \in Range(reports)
    BY <1>1, <1>2, <2>1 DEF IsFold
  <2>3. Len(before) = Len(base) /\ \A report \in Range(reports) : IsLatest(before, report)
    BY <1>4
  <2> HIDE DEF before, next
  <2>4. Len(next) = Len(base) /\ \A report \in Range(reports) : IsLatest(next, report)
    BY <2>2, <2>3, ApplyReportSettles
  <2> QED BY <2>1, <2>4 DEF next
<1>5. limit \in Good
  <2>1. Good \in SUBSET Nat /\ limit \in 0..limit BY <1>1
  <2> HIDE DEF Good
  <2> QED BY <1>1, <1>3, <1>4, <2>1, CountsUp
<1> QED BY <1>2, <1>5 DEF IsFold

\* A query that fails collects nothing.
LEMMA FailureCollectsNothing ==
    ASSUME NEW name \in FourFeeds, NEW answer, Collect(name, answer).error # "none"
    PROVE  Collect(name, answer).sightings = << >>
<1> SUFFICES ASSUME Converts(name, answer) PROVE FALSE BY CollectSays
<1>1. \A list : Collected(list).error = "none" BY DEF Collected
<1>2. FetchError(answer) = "none" BY DEF Converts
<1>3. CASE name = "threatfox"
  <2>1. answer.says = "ok" BY <1>3 DEF Converts
  <2>2. Collect(name, answer) = ConvertResponse(answer) BY <1>2, <1>3 DEF Collect
  <2>3. ConvertResponse(answer) = Collected(ConvertEntries("threatfox", answer.listed))
    BY <2>1 DEF ConvertResponse
  <2> QED BY <1>1, <2>2, <2>3
<1>4. CASE name = "feodotracker"
  <2>1. Collect(name, answer) = Collected(ConvertEntries(name, answer.listed))
    BY <1>2, <1>4 DEF Collect, Converts
  <2> QED BY <1>1, <2>1
<1>5. CASE name = "criminalip"
  <2>1. Collect(name, answer) = Collected(ConvertEntries(name, ReadCSVRows(answer.listed, 6)))
    BY <1>2, <1>5 DEF Collect
  <2> QED BY <1>1, <2>1
<1>6. CASE name = "viribacktracker"
  <2>1. Collect(name, answer) = Collected(ConvertEntries(name, ReadCSVRows(answer.listed, 4)))
    BY <1>2, <1>6 DEF Collect
  <2> QED BY <1>1, <2>1
<1> QED BY <1>3, <1>4, <1>5, <1>6 DEF FourFeeds

\* A file that can be read holds observations, with the keys the encoder wrote.
LEMMA FilesHold ==
    ASSUME feed \in Sources, NEW file, IsFile(file)
    PROVE  /\ IsRecord(Decode(file)) /\ HistoryOf(Decode(file).sources, feed) \in SourceHistory
           /\ ObservationsIn(file) \in Seq(Observation)
           /\ HaveValidKeys(ObservationsIn(file))
<1>1. IsRecord(Decode(file)) /\ HasValidKeys(Decode(file)) BY DecodeProperties
<1>2. HistoryOf(Decode(file).sources, feed) \in SourceHistory BY <1>1, HistoryOfType DEF IsRecord
<1>3. HaveValidKeys(ObservationsIn(file))
  <2> DEFINE sources == Decode(file).sources
  <2>1. CASE feed \in DOMAIN sources
    <3>1. ObservationsIn(file) = sources[feed].observations
      BY <2>1 DEF ObservationsIn, HistoryOf
    <3> QED BY <1>1, <2>1, <3>1 DEF HasValidKeys, HaveValidKeys, Range
  <2>2. CASE feed \notin DOMAIN sources
    <3>1. ObservationsIn(file) = << >> BY <2>2 DEF ObservationsIn, HistoryOf, NewHistory
    <3> QED BY <3>1 DEF HaveValidKeys
  <2> QED BY <2>1, <2>2
<1> QED BY <1>1, <1>2, <1>3 DEF ObservationsIn, SourceHistory

\* An update writes what applying the reports makes of it.
LEMMA UpdatedSays ==
    ASSUME feed \in Sources, NEW time \in Time, NEW file, IsFile(file),
           NEW reports \in Seq(Report),
           EndedBy(ObservationsIn(file), time),
           NEW updated, updated = UpdatedFile(file, reports, time)
    PROVE  /\ IsFile(updated)
           /\ SaysTheSame(Folded(ObservationsIn(file), reports, time), ObservationsIn(updated))
<1> DEFINE record == Decode(file)
           history == HistoryOf(record.sources, feed)
           answered == Answered(history, time)
           base == ObservationsIn(file)
           folded == Folded(base, reports, time)
           next == [answered EXCEPT !.observations = folded]
           stored == StoreHistory(record, feed, next)
<1>1. IsRecord(record) /\ history \in SourceHistory /\ base \in Seq(Observation)
      /\ base = history.observations
  BY FilesHold DEF ObservationsIn
<1>2. answered \in SourceHistory /\ answered.observations = base BY <1>1, AnsweredProperties
<1>3. WithReports(record, reports, time) = stored BY <1>2 DEF WithReports, Folded
<1>4. folded \in Seq(Observation) /\ Grows(base, folded) BY <1>1, FoldedSays
<1> HIDE DEF answered, history, base, folded, record
<1>5. next \in SourceHistory /\ next.observations = folded BY <1>2, <1>4 DEF SourceHistory
<1> HIDE DEF next
<1>6. IsRecord(stored)
  <2>1. Grows(HistoryOf(record.sources, feed).observations, next.observations)
    BY <1>1, <1>4, <1>5 DEF history
  <2> QED BY <1>1, <1>5, <2>1, StoreHistoryProperties
<1>7. stored.sources = WriteHistory(record.sources, feed, next) BY <1>1, <1>5, StoredSources
<1>8. feed \in DOMAIN stored.sources /\ stored.sources[feed] = next BY <1>7 DEF WriteHistory
<1> HIDE DEF stored
<1>9. updated = Encode(stored) BY <1>3 DEF record, UpdatedFile
<1>10. IsFile(updated) /\ Decode(updated) = Encode(stored).record BY <1>6, <1>9, EncodeProperties
<1>11. /\ feed \in DOMAIN Decode(updated).sources
       /\ Decode(updated).sources[feed] = EncodedHistory(next)
  BY <1>6, <1>8, <1>10, EncodedSources
<1>12. ObservationsIn(updated) = EncodedHistory(next).observations
  BY <1>11 DEF ObservationsIn, HistoryOf
<1>13. SaysTheSame(folded, ObservationsIn(updated)) BY <1>5, <1>12, EncodedSaysTheSame
<1> QED BY <1>10, <1>13 DEF folded, base

\* What is said of observations is about what they say.
LEMMA SayingTheSameThings ==
    ASSUME NEW before, NEW after, SaysTheSame(before, after)
    PROVE  /\ \A report, moment : Stored(before, report, moment) => Stored(after, report, moment)
           /\ \A address : (\A index \in DOMAIN before : Attributed(before[index], address))
                           => \A index \in DOMAIN after : Attributed(after[index], address)
<1>1. ASSUME NEW report, NEW moment, Stored(before, report, moment)
      PROVE  Stored(after, report, moment)
  <2>1. PICK index \in DOMAIN before :
           /\ ValidText(before[index].key) = ValidText(report.key)
           /\ HasSameContent(before[index], report) /\ before[index].lastObserved = moment
    BY <1>1 DEF Stored, Range
  <2>2. /\ index \in DOMAIN after /\ after[index].key = ValidText(before[index].key)
        /\ HasSameContent(after[index], report) /\ after[index].lastObserved = moment
    BY <2>1 DEF SaysTheSame, HasSameContent
  <2>3. ValidText(after[index].key) = ValidText(report.key)
    BY <2>1, <2>2, ValidTextProperties
  <2> QED BY <2>2, <2>3 DEF Stored, Range
<1>2. ASSUME NEW address, NEW index \in DOMAIN after, Attributed(before[index], address)
      PROVE  Attributed(after[index], address)
  <2> DEFINE one == before[index]
             other == after[index]
  <2>1. /\ other.key = ValidText(one.key) /\ other.flags = one.flags
        /\ other.data.value = one.data.value
        /\ other.firstObserved = one.firstObserved /\ other.lastObserved = one.lastObserved
    BY DEF SaysTheSame
  <2>2. Attributed(one, address) BY <1>2
  <2> HIDE DEF one, other
  <2>3. IsGarbled(one) => IsGarbled(other)
    <3>1. ValidText(Garbled) = Garbled BY FeedsAssumption DEF ValidText
    <3> QED BY <2>1, <3>1 DEF IsGarbled
  <2>4. \A moment : WasSaid(moment, address, one) => WasSaid(moment, address, other)
    <3>1. ValidText(other.key) = ValidText(one.key) BY <2>1, ValidTextProperties
    <3> QED BY <2>1, <3>1 DEF WasSaid, HasSameContent
  <2>5. Attributed(other, address) BY <2>1, <2>2, <2>3, <2>4 DEF Attributed
  <2> QED BY <2>5 DEF other
<1>3. DOMAIN after = DOMAIN before BY DEF SaysTheSame
<1> QED BY <1>1, <1>2, <1>3

\* An encoded list is as long as the list.
LEMMA SameLength ==
    ASSUME NEW before \in Seq(Observation), NEW after \in Seq(Observation),
           SaysTheSame(before, after)
    PROVE  Len(after) = Len(before)
<1>1. /\ Len(before) \in Nat /\ DOMAIN before = 1..Len(before)
      /\ Len(after) \in Nat /\ DOMAIN after = 1..Len(after)
  BY LenProperties
<1>2. DOMAIN after = DOMAIN before BY DEF SaysTheSame
<1>3. PICK m \in Nat : m = Len(after) BY <1>1
<1>4. PICK n \in Nat : n = Len(before) BY <1>1
<1>5. 1..m = 1..n BY <1>1, <1>2, <1>3, <1>4
<1>6. ~(m < n)
  <2> SUFFICES ASSUME m < n PROVE FALSE OBVIOUS
  <2>1. n \in 1..n /\ n \notin 1..m OBVIOUS
  <2> QED BY <1>5, <2>1
<1>7. ~(n < m)
  <2> SUFFICES ASSUME n < m PROVE FALSE OBVIOUS
  <2>1. m \in 1..m /\ m \notin 1..n OBVIOUS
  <2> QED BY <1>5, <2>1
<1> QED BY <1>3, <1>4, <1>6, <1>7

\* Observations that ended by a moment ended by a later one.
LEMMA StillEnded ==
    ASSUME NEW observations \in Seq(Observation), NEW moment \in Nat, NEW later \in Nat,
           moment <= later, EndedBy(observations, moment)
    PROVE  EndedBy(observations, later)
<1>1. \A index \in DOMAIN observations : observations[index] \in Observation
  BY ElementOfSeq, LenProperties
<1>2. \A index \in DOMAIN observations : observations[index].lastObserved \in Nat
  BY <1>1, RecordAssumption DEF Observation, Time
<1> QED BY <1>2 DEF EndedBy

\* What is the last of a valid key is that once it is encoded, if all keys are valid.
LEMMA LatestOnceEncoded ==
    ASSUME NEW before \in Seq(Observation), NEW after \in Seq(Observation),
           SaysTheSame(before, after), HaveValidKeys(before)
    PROVE  /\ Len(after) = Len(before)
           /\ \A report : IsLatest(before, report) => IsLatest(after, report)
<1>1. DOMAIN after = DOMAIN before /\ Len(after) = Len(before)
  BY SameLength DEF SaysTheSame
<1>2. \A index \in DOMAIN before :
         /\ after[index].key = before[index].key
         /\ after[index].flags = before[index].flags
         /\ after[index].data.value = before[index].data.value
  BY ValidTextProperties DEF SaysTheSame, HaveValidKeys
<1>3. ASSUME NEW report, IsLatest(before, report) PROVE IsLatest(after, report)
  <2>1. PICK index \in LatestObservationIndex(before, report.key) :
           HasSameContent(before[index], report)
    BY <1>3 DEF IsLatest
  <2>2. index \in DOMAIN before BY <2>1 DEF LatestObservationIndex
  <2>3. index \in LatestObservationIndex(after, report.key)
    BY <1>1, <1>2, <2>1 DEF LatestObservationIndex
  <2>4. HasSameContent(after[index], report) BY <1>2, <2>1, <2>2 DEF HasSameContent
  <2> QED BY <2>3, <2>4 DEF IsLatest
<1> QED BY <1>1, <1>3

-----------------------------------------------------------------------------
(* The inductive invariant *)

InTime ==
    /\ feed \in FeedNames
    /\ clock \in Time /\ stamp \in 0..clock
    /\ addresses # << >> => stamp \in Time

\* Each file is a storable address's, and what is in it of the feed was said of the
\* address, no later than at the last run.
FilesRead ==
    /\ \A name \in DOMAIN files : \E address \in Storable : name = AddressFileName(address)
    /\ \A address \in Storable :
          /\ IsFile(FileAt(AddressFileName(address)))
          /\ EndedBy(ObservationsOf(address), stamp)
          /\ \A observation \in Range(ObservationsOf(address)) : Attributed(observation, address)

\* So was what is still to be stored.
SightingsSaid ==
    /\ sightings \in Seq([address : Storable, report : Report])
    /\ addresses \in Seq(Storable)
    /\ \A said \in heard : said.sighting.address \in Storable
    /\ \A sighting \in Range(sightings) :
          IsGarbled(sighting.report) \/ [at |-> stamp, sighting |-> sighting] \in heard

\* Each sighting of the last reply is still to be stored, has failed or is stored.
SightingsAccountedFor ==
    \A answer \in reply :
        /\ answer \in Replies[feed] /\ sightings = Collect(feed, answer).sightings
        /\ \A sighting \in Range(sightings) :
              \/ sighting.address \in Range(addresses) \cup failed
              \/ Stored(ObservationsOf(sighting.address), sighting.report, stamp)

IInv == InTime /\ FilesRead /\ SightingsSaid /\ SightingsAccountedFor

\* What the assumptions say of the feed that is followed and its replies.
LEMMA FeedsFollowed ==
    ASSUME feed \in FeedNames
    PROVE  /\ feed \in FourFeeds /\ feed \in Sources
           /\ \A answer \in Replies[feed] :
                 /\ IsAnswer(feed, answer)
                 /\ \A sighting \in Range(Collect(feed, answer).sightings) :
                       sighting.report \in Report
BY CollectionAssumption DEF FourFeeds, IsAnswer

\* What is collected is reports under addresses that can be stored.
LEMMA CollectedAre ==
    ASSUME feed \in FeedNames, NEW answer \in Replies[feed],
           NEW collected, collected = Collect(feed, answer).sightings
    PROVE  /\ collected \in Seq([address : Storable, report : Report])
           /\ \A sighting \in Range(collected) : sighting \in [address : Storable, report : Report]
<1>1. feed \in FourFeeds /\ IsAnswer(feed, answer)
      /\ \A sighting \in Range(collected) : sighting.report \in Report
  BY FeedsFollowed
<1>2. \A sighting \in Range(collected) :
         /\ sighting.address \in Storable
         /\ sighting = [address |-> sighting.address, report |-> sighting.report]
  BY <1>1, CollectedSays, NewSightingSays
<1>3. \A sighting \in Range(collected) : sighting \in [address : Storable, report : Report]
  BY <1>1, <1>2
<1>4. PICK S : collected \in Seq(S) BY <1>1, CollectedSays
<1> QED BY <1>3, <1>4, HeldByASet

\* Who hears more still heard what was said.
LEMMA StillAttributed ==
    ASSUME feed' = feed, heard \subseteq heard'
    PROVE  \A observation, address :
              Attributed(observation, address) => Attributed(observation, address)'
BY DEF Attributed, WasSaid, IsGarbled, IsCSV

\* The files are still read when more is heard and time goes on.
LEMMA FilesStillRead ==
    ASSUME FilesRead, InTime, files' = files, feed' = feed, heard \subseteq heard',
           stamp' \in Nat, stamp <= stamp'
    PROVE  FilesRead'
<1>1. \A name : FileAt(name)' = FileAt(name) BY DEF FileAt
<1>2. \A address : ObservationsOf(address)' = ObservationsOf(address)
  BY <1>1 DEF ObservationsOf, ObservationsIn
<1>3. \A name \in DOMAIN files' : \E address \in Storable : name = AddressFileName(address)
  BY DEF FilesRead
<1>4. ASSUME NEW address \in Storable
      PROVE  /\ IsFile(FileAt(AddressFileName(address))')
             /\ EndedBy(ObservationsOf(address)', stamp')
             /\ \A observation \in Range(ObservationsOf(address)') :
                   Attributed(observation, address)'
  <2>1. IsFile(FileAt(AddressFileName(address))) BY DEF FilesRead
  <2>2. ObservationsOf(address) \in Seq(Observation)
    BY <2>1, FeedsFollowed, FilesHold DEF InTime, ObservationsOf, ObservationsIn
  <2>3. EndedBy(ObservationsOf(address), stamp') /\ EndedBy(ObservationsOf(address)', stamp')
    <3> DEFINE observations == ObservationsOf(address)
    <3>1. EndedBy(observations, stamp) BY DEF FilesRead
    <3>2. ObservationsOf(address)' = observations BY <1>2
    <3>3. stamp \in Nat BY RecordAssumption DEF InTime, Time
    <3>4. observations \in Seq(Observation) BY <2>2
    <3> HIDE DEF observations
    <3>5. EndedBy(observations, stamp') BY <3>1, <3>3, <3>4, StillEnded
    <3> QED BY <3>2, <3>5 DEF observations
  <2>4. \A observation \in Range(ObservationsOf(address)) : Attributed(observation, address)'
    BY StillAttributed DEF FilesRead
  <2>5. ObservationsOf(address)' = ObservationsOf(address) BY <1>2
  <2> QED BY <1>1, <2>1, <2>3, <2>4, <2>5
<1> QED BY <1>1, <1>2, <1>3, <1>4 DEF FilesRead

\* There are no files at first, and nothing was said.
LEMMA CollectionBegins == Init => IInv
<1> SUFFICES ASSUME Init PROVE IInv OBVIOUS
<1>1. InTime BY RecordAssumption DEF Init, InTime, Time, ZeroTime
<1>2. FilesRead
  <2>1. DOMAIN files = {} BY DEF Init
  <2>2. \A name : FileAt(name) = NoFile BY <2>1 DEF FileAt
  <2>3. \A address : ObservationsOf(address) = << >>
    <3>1. Decode(NoFile) = EmptyRecord BY DEF Decode, NoFile
    <3>2. \A address : ObservationsOf(address) = HistoryOf(EmptyRecord.sources, feed).observations
      BY <2>2, <3>1, Zenon DEF ObservationsOf, ObservationsIn
    <3>3. HistoryOf(EmptyRecord.sources, feed).observations = << >>
      BY DEF EmptyRecord, HistoryOf, NewHistory
    <3> QED BY <3>2, <3>3
  <2>4. IsFile(NoFile) BY DEF IsFile
  <2>5. EndedBy(<< >>, stamp) /\ \A observation \in Range(<< >>) : FALSE BY DEF EndedBy, Range
  <2> QED BY <2>1, <2>2, <2>3, <2>4, <2>5 DEF FilesRead
<1>3. SightingsSaid
  <2>1. \A S : << >> \in Seq(S) BY EmptySeq
  <2>2. \A sighting \in Range(<< >>) : FALSE BY DEF Range
  <2> QED BY <2>1, <2>2 DEF Init, SightingsSaid
<1>4. SightingsAccountedFor BY DEF Init, SightingsAccountedFor
<1> QED BY <1>1, <1>2, <1>3, <1>4 DEF IInv

\* A reply is grouped, and what it lists is heard (runFeed, aggregator.go:269).
LEMMA CollectFeedKeeps ==
    ASSUME IInv, NEW answer \in Replies[feed], CollectFeed(answer)
    PROVE  IInv'
<1> DEFINE collected == Collect(feed, answer)
<1>1. feed \in FourFeeds /\ IsAnswer(feed, answer) BY FeedsFollowed DEF IInv, InTime
<1>2. /\ UNCHANGED <<feed, files, clock>> /\ stamp' = clock /\ heard \subseteq heard'
      /\ sightings' = collected.sightings /\ failed' = {}
      /\ addresses' = ListedAddresses(collected.sightings)
      /\ reply' \subseteq {answer}
  BY DEF CollectFeed
<1>4. collected.sightings \in Seq([address : Storable, report : Report])
  BY CollectedAre DEF IInv, InTime
<1>5. /\ addresses' \in Seq(Storable)
      /\ Range(addresses') = {sighting.address : sighting \in Range(sightings')}
  BY <1>2, <1>4, ListedAddressesSay
<1>6. stamp <= clock /\ clock \in Time /\ clock \in Nat BY RecordAssumption DEF IInv, InTime, Time
<1>7. InTime' BY <1>2, <1>6 DEF IInv, InTime
<1>8. FilesRead' BY <1>2, <1>6, FilesStillRead DEF IInv
<1>9. SightingsSaid'
  <2>1. \A said \in heard' : said.sighting.address \in Storable
    <3>1. ASSUME NEW said \in heard' \ heard PROVE said.sighting.address \in Storable
      <4>1. PICK index \in Entries(answer) : \E sighting \in Range(Alone(answer, index)) :
               said = [at |-> clock, sighting |-> sighting]
        BY <3>1 DEF CollectFeed
      <4>2. \A sighting \in Range(Alone(answer, index)) : sighting.address \in Storable
        BY <1>1, AloneSays
      <4> QED BY <4>1, <4>2
    <3> QED BY <3>1 DEF IInv, SightingsSaid
  <2>2. ASSUME NEW sighting \in Range(collected.sightings)
        PROVE  IsGarbled(sighting.report)' \/ [at |-> clock, sighting |-> sighting] \in heard'
    <3>1. collected.error = "none"
      <4>1. collected.sightings # << >> BY DEF Range
      <4> QED BY <1>1, <4>1, FailureCollectsNothing
    <3>2. heard' = heard \cup {[at |-> clock, sighting |-> one] :
                     one \in UNION {Range(Alone(answer, index)) : index \in Entries(answer)}}
      BY <3>1 DEF CollectFeed
    <3>3. CASE IsGarbled(sighting.report) BY <1>2, <3>3 DEF IsGarbled, IsCSV
    <3>4. CASE ~IsGarbled(sighting.report)
      <4>1. PICK index \in Entries(answer) : sighting \in Range(Alone(answer, index))
        BY <1>1, <3>4, ListedOrGarbled
      <4> QED BY <3>2, <4>1
    <3> QED BY <3>3, <3>4
  <2> HIDE DEF collected
  <2> QED BY <1>2, <1>4, <1>5, <2>1, <2>2 DEF SightingsSaid
<1>10. SightingsAccountedFor'
  <2> HIDE DEF collected
  <2>1. \A sighting \in Range(sightings') : sighting.address \in Range(addresses') BY <1>5
  <2>2. \A one \in reply' : one \in Replies[feed]' /\ sightings' = Collect(feed', one).sightings
    BY <1>2 DEF collected
  <2> QED BY <2>1, <2>2 DEF SightingsAccountedFor
<1> QED BY <1>7, <1>8, <1>9, <1>10 DEF IInv

\* An update stores the reports of its address and leaves other files alone
\* (runFeed, aggregator.go:294).
LEMMA UpdateStores ==
    ASSUME IInv, addresses # << >>, NEW address, address = Head(addresses),
           feed' = feed, heard' = heard,
           files' = [other \in DOMAIN files \cup {AddressFileName(address)} |->
                        IF other = AddressFileName(address)
                        THEN UpdatedFile(FileAt(AddressFileName(address)),
                                         ReportsFor(sightings, address), stamp)
                        ELSE files[other]]
    PROVE  /\ \A sighting \in Range(sightings) : sighting.address = address =>
                 Stored(ObservationsOf(address)', sighting.report, stamp)
           /\ \A other \in Storable \ {address} : ObservationsOf(other)' = ObservationsOf(other)
           /\ stamp' = stamp => FilesRead'
<1>1. PICK name : name = AddressFileName(address) OBVIOUS
<1>2. PICK file : file = FileAt(name) OBVIOUS
<1>3. PICK reports : reports = ReportsFor(sightings, address) OBVIOUS
<1>4. PICK updated : updated = UpdatedFile(file, reports, stamp) OBVIOUS
<1>5. files' = [other \in DOMAIN files \cup {name} |-> IF other = name THEN updated ELSE files[other]]
  BY <1>1, <1>2, <1>3, <1>4
<1>6. address \in Storable BY HeadTailProperties DEF IInv, SightingsSaid
<1>7. feed \in Sources /\ stamp \in Time BY FeedsFollowed DEF IInv, InTime
<1>8. PICK base : base = ObservationsOf(address) /\ base = ObservationsIn(file)
  BY <1>1, <1>2 DEF ObservationsOf, ObservationsIn
<1>9. /\ IsFile(file) /\ EndedBy(base, stamp)
      /\ \A observation \in Range(base) : Attributed(observation, address)
  BY <1>1, <1>2, <1>6, <1>8 DEF IInv, FilesRead
<1>10. base \in Seq(Observation) BY <1>7, <1>8, <1>9, FilesHold
<1>11. reports \in Seq(Report)
       /\ \A report : report \in Range(reports)
             <=> \E sighting \in Range(sightings) :
                    sighting.address = address /\ sighting.report = report
  <2>1. sightings \in Seq([address : Storable, report : Report]) BY DEF IInv, SightingsSaid
  <2>2. /\ reports \in Seq(Report)
        /\ Range(reports) = ReportsAbout(sightings, address)
    BY <1>3, <2>1, ReportsForSay
  <2> QED BY <2>2 DEF ReportsAbout
<1>12. PICK folded : folded = Folded(base, reports, stamp) OBVIOUS
<1>13. IsFile(updated) /\ SaysTheSame(folded, ObservationsIn(updated))
  BY <1>4, <1>7, <1>8, <1>9, <1>11, <1>12, UpdatedSays
<1>14. \A report \in Range(reports) : IsGarbled(report) \/ WasSaid(stamp, address, report)
  <2>1. ASSUME NEW report \in Range(reports), ~IsGarbled(report) PROVE WasSaid(stamp, address, report)
    <3>1. PICK sighting \in Range(sightings) :
             sighting.address = address /\ sighting.report = report
      BY <1>11, <2>1
    <3>2. [at |-> stamp, sighting |-> sighting] \in heard
      BY <2>1, <3>1 DEF IInv, SightingsSaid
    <3> QED BY <3>1, <3>2 DEF WasSaid, HasSameContent
  <2> QED BY <2>1
<1>15. \A index \in DOMAIN base : Attributed(base[index], address) BY <1>9 DEF Range
<1>16. /\ folded \in Seq(Observation) /\ EndedBy(folded, stamp)
       /\ \A report \in Range(reports) : Stored(folded, report, stamp)
       /\ \A index \in DOMAIN folded : Attributed(folded[index], address)
  BY <1>7, <1>9, <1>10, <1>11, <1>12, <1>14, <1>15, FoldedSays
<1>17. PICK written : written = ObservationsIn(updated) OBVIOUS
<1>18. /\ EndedBy(written, stamp)
       /\ \A report \in Range(reports) : Stored(written, report, stamp)
       /\ \A observation \in Range(written) : Attributed(observation, address)
  BY <1>13, <1>16, <1>17, SayingTheSame, SayingTheSameThings DEF Range
<1>19. FileAt(name)' = updated /\ \A other : other # name => FileAt(other)' = FileAt(other)
  BY <1>5 DEF FileAt
<1>20. ObservationsOf(address)' = written
  BY <1>1, <1>17, <1>19 DEF ObservationsOf, ObservationsIn
<1>21. \A other \in Storable \ {address} :
          /\ AddressFileName(other) # name
          /\ FileAt(AddressFileName(other))' = FileAt(AddressFileName(other))
          /\ ObservationsOf(other)' = ObservationsOf(other)
  BY <1>1, <1>6, <1>19, FileNamesDiffer DEF Storable, ObservationsOf, ObservationsIn
<1>22. ASSUME stamp' = stamp PROVE FilesRead'
  <2>1. \A one \in DOMAIN files' : \E other \in Storable : one = AddressFileName(other)
    BY <1>1, <1>5, <1>6 DEF IInv, FilesRead
  <2>2. \A other \in Storable :
           /\ IsFile(FileAt(AddressFileName(other))')
           /\ EndedBy(ObservationsOf(other)', stamp)
           /\ \A observation \in Range(ObservationsOf(other)') : Attributed(observation, other)
    <3>1. ASSUME NEW other \in Storable, other # address
          PROVE  /\ IsFile(FileAt(AddressFileName(other))')
                 /\ EndedBy(ObservationsOf(other)', stamp)
                 /\ \A observation \in Range(ObservationsOf(other)') : Attributed(observation, other)
      <4>1. /\ FileAt(AddressFileName(other))' = FileAt(AddressFileName(other))
            /\ ObservationsOf(other)' = ObservationsOf(other)
        BY <1>21, <3>1
      <4>2. /\ IsFile(FileAt(AddressFileName(other)))
            /\ EndedBy(ObservationsOf(other), stamp)
            /\ \A observation \in Range(ObservationsOf(other)) : Attributed(observation, other)
        BY DEF IInv, FilesRead
      <4> QED BY <4>1, <4>2
    <3>2. /\ IsFile(FileAt(AddressFileName(address))')
          /\ EndedBy(ObservationsOf(address)', stamp)
          /\ \A observation \in Range(ObservationsOf(address)') : Attributed(observation, address)
      BY <1>1, <1>13, <1>18, <1>19, <1>20
    <3> QED BY <3>1, <3>2
  <2>3. \A observation, other : Attributed(observation, other) => Attributed(observation, other)'
    BY StillAttributed
  <2> QED BY <1>22, <2>1, <2>2, <2>3 DEF FilesRead
<1>23. \A sighting \in Range(sightings) : sighting.address = address =>
          Stored(ObservationsOf(address)', sighting.report, stamp)
  BY <1>11, <1>18, <1>20
<1> QED BY <1>21, <1>22, <1>23

\* One address is updated, or fails.
LEMMA StoreReportsKeeps ==
    ASSUME IInv, StoreReports
    PROVE  IInv'
<1>1. /\ UNCHANGED <<feed, clock, sightings, stamp, reply, heard>>
      /\ addresses # << >> /\ addresses' = Tail(addresses)
  BY DEF StoreReports
<1>2. PICK address : address = Head(addresses) OBVIOUS
<1>3. /\ addresses \in Seq(Storable) /\ addresses' \in Seq(Storable)
      /\ Range(addresses) \subseteq {address} \cup Range(addresses')
  <2>1. PICK list : list = addresses OBVIOUS
  <2>2. list \in Seq(Storable) /\ list # << >> BY <1>1, <2>1 DEF IInv, SightingsSaid
  <2>3. /\ Tail(list) \in Seq(Storable) /\ Len(list) \in Nat
        /\ \A index \in 1..Len(list) :
              list[index] = Head(list)
              \/ (index - 1 \in 1..Len(Tail(list)) /\ list[index] = Tail(list)[index - 1])
    BY <2>2
  <2>4. DOMAIN list = 1..Len(list) /\ DOMAIN Tail(list) = 1..Len(Tail(list)) BY <2>2, <2>3, LenProperties
  <2>5. Range(list) \subseteq {Head(list)} \cup Range(Tail(list)) BY <2>3, <2>4 DEF Range
  <2> QED BY <1>1, <1>2, <2>1, <2>2, <2>3, <2>5
<1>4. InTime' BY <1>1 DEF IInv, InTime
<1>5. SightingsSaid'
  <2>1. \A report : IsGarbled(report) => IsGarbled(report)' BY <1>1 DEF IsGarbled, IsCSV
  <2> QED BY <1>1, <1>3, <2>1 DEF IInv, SightingsSaid
<1>6. CASE /\ failed' = failed
           /\ files' = [other \in DOMAIN files \cup {AddressFileName(address)} |->
                           IF other = AddressFileName(address)
                           THEN UpdatedFile(FileAt(AddressFileName(address)),
                                            ReportsFor(sightings, address), stamp)
                           ELSE files[other]]
  <2>1. /\ \A sighting \in Range(sightings) : sighting.address = address =>
              Stored(ObservationsOf(address)', sighting.report, stamp)
        /\ \A other \in Storable \ {address} : ObservationsOf(other)' = ObservationsOf(other)
        /\ FilesRead'
    BY <1>1, <1>2, <1>6, UpdateStores
  <2>2. \A sighting \in Range(sightings) : sighting.address \in Storable
    <3>1. PICK S : S = [address : Storable, report : Report] OBVIOUS
    <3>2. sightings \in Seq(S) BY <3>1 DEF IInv, SightingsSaid
    <3>3. \A sighting \in Range(sightings) : sighting \in S
      BY ONLY <3>2, ElementOfSeq, LenProperties DEF Range
    <3> QED BY <3>1, <3>3
  <2>3. SightingsAccountedFor'
    <3>1. ASSUME NEW answer \in reply', NEW sighting \in Range(sightings)
          PROVE  \/ sighting.address \in Range(addresses') \cup failed'
                 \/ Stored(ObservationsOf(sighting.address)', sighting.report, stamp)
      <4>1. CASE sighting.address = address BY <2>1, <4>1
      <4>2. CASE sighting.address # address
        <5>1. \/ sighting.address \in Range(addresses') \cup failed'
              \/ Stored(ObservationsOf(sighting.address), sighting.report, stamp)
          BY <1>1, <1>3, <1>6, <3>1, <4>2 DEF IInv, SightingsAccountedFor
        <5>2. ObservationsOf(sighting.address)' = ObservationsOf(sighting.address)
          BY <2>1, <2>2, <4>2
        <5> QED BY <5>1, <5>2
      <4> QED BY <4>1, <4>2
    <3> QED BY <1>1, <3>1 DEF IInv, SightingsAccountedFor
  <2> QED BY <1>4, <1>5, <2>1, <2>3 DEF IInv
<1>7. CASE files' = files /\ failed' = failed \cup {address}
  <2>1. FilesRead'
    <3>1. stamp \in Nat BY RecordAssumption DEF IInv, InTime, Time
    <3> QED BY <1>1, <1>7, <3>1, FilesStillRead DEF IInv
  <2>2. \A one : ObservationsOf(one)' = ObservationsOf(one)
    BY <1>1, <1>7 DEF ObservationsOf, ObservationsIn, FileAt
  <2>3. SightingsAccountedFor'
    BY <1>1, <1>3, <1>7, <2>2 DEF IInv, SightingsAccountedFor
  <2> QED BY <1>4, <1>5, <2>1, <2>3 DEF IInv
<1> QED BY <1>2, <1>6, <1>7 DEF StoreReports

\* Every step keeps the invariant.
LEMMA CollectionKeeps == IInv /\ [Next]_vars => IInv'
<1> SUFFICES ASSUME IInv, [Next]_vars PROVE IInv' OBVIOUS
<1>1. ASSUME NEW answer \in Replies[feed], CollectFeed(answer) PROVE IInv'
  BY <1>1, CollectFeedKeeps
<1>2. CASE StoreReports BY <1>2, StoreReportsKeeps
<1>3. ASSUME UNCHANGED <<feed, files, sightings, stamp, failed, heard>>,
             clock' \in Time, clock <= clock',
             \/ UNCHANGED <<addresses, reply>>
             \/ addresses' = << >> /\ reply' = {}
      PROVE  IInv'
  <2>1. clock \in Nat /\ clock' \in Nat /\ stamp \in Nat BY <1>3, RecordAssumption DEF IInv, InTime, Time
  <2>2. InTime' BY <1>3, <2>1 DEF IInv, InTime
  <2>3. FilesRead' BY <1>3, <2>1, FilesStillRead DEF IInv
  <2>4. SightingsSaid'
    <3>1. \A report : IsGarbled(report) => IsGarbled(report)' BY <1>3 DEF IsGarbled, IsCSV
    <3>2. addresses' \in Seq(Storable) BY <1>3, EmptySeq DEF IInv, SightingsSaid
    <3> QED BY <1>3, <3>1, <3>2 DEF IInv, SightingsSaid
  <2>5. SightingsAccountedFor'
    <3>1. \A one : ObservationsOf(one)' = ObservationsOf(one)
      BY <1>3 DEF ObservationsOf, ObservationsIn, FileAt
    <3> QED BY <1>3, <3>1 DEF IInv, SightingsAccountedFor
  <2> QED BY <2>2, <2>3, <2>4, <2>5 DEF IInv
<1>4. clock \in Time /\ clock <= clock BY RecordAssumption DEF IInv, InTime, Time
<1>5. CASE CutShort BY <1>3, <1>4, <1>5 DEF CutShort
<1>6. CASE Tick
  <2>1. clock' \in Time /\ clock <= clock' BY <1>4, <1>6, RecordAssumption DEF Tick, Time
  <2> QED BY <1>3, <1>6, <2>1 DEF Tick
<1>7. CASE UNCHANGED vars BY <1>3, <1>4, <1>7 DEF vars
<1> QED BY <1>1, <1>2, <1>5, <1>6, <1>7 DEF Next

-----------------------------------------------------------------------------
(* What the invariant says *)

\* An address that can be stored is the only way to write its host.
LEMMA HostsApart ==
    ASSUME NEW one \in Storable, NEW other \in Storable, Host(one) = Host(other)
    PROVE  one = other
<1>1. one \in Address /\ other \in Address /\ one.zone = NoZone /\ other.zone = NoZone
      /\ ~Is4In6(one) /\ ~Is4In6(other)
  BY DEF Storable, IsStorableAddress
<1>2. one.parts = other.parts BY <1>1 DEF Host
<1>3. \A address \in IPv4 : DOMAIN address.parts = 1..4 BY DEF IPv4
<1>4. \A address \in IPv6 : DOMAIN address.parts = 1..8 BY DEF IPv6
<1>5. 1..4 # 1..8
  <2>1. 8 \in 1..8 /\ 8 \notin 1..4 OBVIOUS
  <2> QED BY <2>1
<1>6. CASE one \in IPv4 /\ other \in IPv4 BY <1>1, <1>2, <1>6 DEF IPv4
<1>7. CASE one \in IPv6 /\ other \in IPv6 BY <1>1, <1>2, <1>7 DEF IPv6
<1> QED BY <1>1, <1>2, <1>3, <1>4, <1>5, <1>6, <1>7 DEF Address

\* Every file is that of one address, which is read from its name.
LEMMA FilesLeadBack ==
    ASSUME IInv, NEW name \in DOMAIN files
    PROVE  \E address \in Storable :
              name = AddressFileName(address) /\ AddressFromFileName(name) = {address}
BY NamesLeadBack DEF IInv, FilesRead, Storable

\* Names lead back, and hosts are told apart.
LEMMA ImpliesOneFilePerHost == IInv => OneFilePerHost
<1> SUFFICES ASSUME IInv PROVE OneFilePerHost OBVIOUS
<1>1. \A first, second \in DOMAIN files :
         \A one \in AddressFromFileName(first), other \in AddressFromFileName(second) :
             Host(one) = Host(other) => first = second
  BY FilesLeadBack, HostsApart
<1>2. \A said \in heard :
         AddressFromFileName(AddressFileName(said.sighting.address)) = {said.sighting.address}
  BY NamesLeadBack DEF IInv, SightingsSaid, Storable
<1> QED BY <1>1, <1>2 DEF OneFilePerHost

\* What is stored has keys that are encoded already.
LEMMA StoredKeys ==
    ASSUME IInv, NEW address \in Storable, NEW observation \in Range(ObservationsOf(address))
    PROVE  ValidText(observation.key) = observation.key
<1>1. PICK file : file = FileAt(AddressFileName(address)) OBVIOUS
<1>2. IsFile(file) /\ feed \in Sources BY <1>1, FeedsFollowed DEF IInv, FilesRead, InTime
<1>3. HaveValidKeys(ObservationsIn(file)) BY <1>2, FilesHold
<1>4. ObservationsOf(address) = ObservationsIn(file) BY <1>1 DEF ObservationsOf
<1>5. observation.key \notin InvalidTexts BY <1>3, <1>4 DEF HaveValidKeys, Range
<1> QED BY <1>5, ValidTextProperties

\* What the files hold is attributed.
LEMMA ImpliesOnlyListed == IInv => OnlyListedIsStored
<1> SUFFICES ASSUME IInv, NEW name \in DOMAIN files, NEW address \in AddressFromFileName(name),
                    NEW observation \in Range(ObservationsOf(address))
             PROVE  /\ Attributed(observation, address)
                    /\ ValidText(observation.key) = observation.key
  BY DEF OnlyListedIsStored, Attributed, WasSaid
<1>1. address \in Storable BY FilesLeadBack
<1> QED BY <1>1, StoredKeys DEF IInv, FilesRead

\* A good entry is among the sightings, and these are accounted for.
LEMMA ImpliesGoodEntries == IInv => GoodEntriesStored
<1> SUFFICES ASSUME IInv, NEW answer \in reply, addresses = << >>, NEW index \in Entries(answer),
                    \A earlier \in 1..index : ~LeavesQuoteOpen(answer, earlier),
                    NEW sighting \in Range(Alone(answer, index))
             PROVE  \/ sighting.address \in failed
                    \/ \E observation \in Range(ObservationsOf(sighting.address)) :
                          /\ observation.key = ValidText(sighting.report.key)
                          /\ HasSameContent(observation, sighting.report)
                          /\ observation.lastObserved = stamp
  BY DEF GoodEntriesStored, AreStored
<1>1. answer \in Replies[feed] /\ sightings = Collect(feed, answer).sightings
  BY DEF IInv, SightingsAccountedFor
<1>2. feed \in FourFeeds /\ IsAnswer(feed, answer) BY <1>1, FeedsFollowed DEF IInv, InTime
<1>3. sighting \in Range(sightings) BY <1>1, <1>2, GoodEntriesCollected
<1>4. Range(addresses) = {} BY DEF Range
<1>5. \/ sighting.address \in failed
      \/ Stored(ObservationsOf(sighting.address), sighting.report, stamp)
  BY <1>3, <1>4 DEF IInv, SightingsAccountedFor
<1>6. sighting.address \in Storable
  <2>1. sighting \in [address : Storable, report : Report]
    BY <1>1, <1>3, CollectedAre DEF IInv, InTime
  <2> QED BY <2>1
<1> QED BY <1>5, <1>6, StoredKeys DEF Stored

\* The reports of an address are settled once applied, and come again in some order.
LEMMA ImpliesRelisting == IInv => RelistingAddsNothing
<1> SUFFICES ASSUME IInv, NEW answer \in Replies[feed],
                    \A index \in DOMAIN answer.listed : ~LeavesQuoteOpen(answer, index),
                    NEW address \in Range(ListedAddresses(Collect(feed, answer).sightings)),
                    IsInjective(KeysListed(answer, address)),
                    Range(KeysListed(answer, address)) \cap InvalidTexts = {}
             PROVE  SecondListingAddsNothing(answer, address)
  BY DEF RelistingAddsNothing, Legible
<1>1. PICK first : first = Collect(feed, answer).sightings OBVIOUS
<1>2. PICK second : second = Collect(feed, Reordered(answer)).sightings OBVIOUS
<1>3. feed \in FourFeeds /\ feed \in Sources /\ IsAnswer(feed, answer) /\ clock \in Time
  BY FeedsFollowed DEF IInv, InTime
<1>4. \A sighting \in Range(first) : sighting \in [address : Storable, report : Report]
  BY <1>1, CollectedAre DEF IInv, InTime
<1>5. first \in Seq([address : Storable, report : Report])
  BY <1>1, CollectedAre DEF IInv, InTime
<1>6. address \in Storable /\ first # << >>
  <2>1. address \in {sighting.address : sighting \in Range(first)}
    BY <1>1, <1>5, ListedAddressesSay
  <2>2. Range(first) # {} BY <2>1
  <2>3. Range(<< >>) = {} BY DEF Range
  <2> QED BY <1>4, <2>1, <2>2, <2>3
<1>7. Range(second) = Range(first) /\ second \in Seq([address : Storable, report : Report])
  <2>1. Range(second) = Range(first) /\ \E S : second \in Seq(S)
    BY <1>1, <1>2, <1>3, <1>6, ReorderedSays
  <2>2. PICK S : second \in Seq(S) BY <2>1
  <2> QED BY <1>4, <2>1, <2>2, HeldByASet
<1> DEFINE reports == ReportsFor(first, address)
           again == ReportsFor(second, address)
<1>8. /\ IsInjective([index \in DOMAIN reports |-> reports[index].key])
      /\ \A report \in Range(reports) : report.key \notin InvalidTexts
  BY <1>1 DEF KeysListed, Range
<1>9. /\ reports \in Seq(Report) /\ again \in Seq(Report)
      /\ Range(again) = Range(reports)
  <2>1. reports \in Seq(Report) /\ Range(reports) = ReportsAbout(first, address)
    BY <1>5, ReportsForSay
  <2>2. again \in Seq(Report) /\ Range(again) = ReportsAbout(second, address)
    BY <1>7, ReportsForSay
  <2> QED BY <1>7, <2>1, <2>2 DEF ReportsAbout
<1> HIDE DEF reports, again
<1>10. PICK file : file = FileAt(AddressFileName(address)) OBVIOUS
<1>11. /\ IsFile(file) /\ ObservationsIn(file) \in Seq(Observation)
       /\ EndedBy(ObservationsIn(file), clock) /\ HaveValidKeys(ObservationsIn(file))
  <2>1. IsFile(file) /\ EndedBy(ObservationsIn(file), stamp)
    BY <1>6, <1>10 DEF IInv, FilesRead, ObservationsOf
  <2>2. ObservationsIn(file) \in Seq(Observation) /\ HaveValidKeys(ObservationsIn(file))
    BY <1>3, <2>1, FilesHold
  <2>3. stamp \in Nat /\ clock \in Nat /\ stamp <= clock
    BY RecordAssumption DEF IInv, InTime, Time
  <2>4. EndedBy(ObservationsIn(file), clock) BY <2>1, <2>2, <2>3, StillEnded
  <2> QED BY <2>1, <2>2, <2>4
<1>12. PICK base : base = ObservationsIn(file) OBVIOUS
<1>13. PICK settled : settled = Folded(base, reports, clock) OBVIOUS
<1>14. /\ settled \in Seq(Observation) /\ HaveValidKeys(settled)
       /\ \A report \in Range(reports) : IsLatest(settled, report)
       /\ EndedBy(settled, clock)
  BY <1>3, <1>8, <1>9, <1>11, <1>12, <1>13, FoldedSettles, FoldedSays
<1>15. PICK once : once = UpdatedFile(file, reports, clock) OBVIOUS
<1>16. IsFile(once) /\ SaysTheSame(settled, ObservationsIn(once))
  BY <1>3, <1>9, <1>11, <1>12, <1>13, <1>15, UpdatedSays
<1>17. ObservationsIn(once) \in Seq(Observation) BY <1>3, <1>16, FilesHold
<1>18. /\ \A report \in Range(reports) : IsLatest(ObservationsIn(once), report)
       /\ EndedBy(ObservationsIn(once), clock)
  BY <1>14, <1>16, <1>17, LatestOnceEncoded, SayingTheSame
<1>19. PICK twice : twice = UpdatedFile(once, again, clock) OBVIOUS
<1>20. /\ IsFile(twice)
       /\ SaysTheSame(Folded(ObservationsIn(once), again, clock), ObservationsIn(twice))
  BY <1>3, <1>9, <1>16, <1>18, <1>19, UpdatedSays
<1>21. Len(Folded(ObservationsIn(once), again, clock)) = Len(ObservationsIn(once))
  BY <1>3, <1>9, <1>17, <1>18, FoldedAgain
<1>22. Len(ObservationsIn(twice)) = Len(Folded(ObservationsIn(once), again, clock))
  <2>1. ObservationsIn(twice) \in Seq(Observation) BY <1>3, <1>20, FilesHold
  <2>2. Folded(ObservationsIn(once), again, clock) \in Seq(Observation)
    BY <1>3, <1>9, <1>17, <1>18, FoldedSays
  <2> QED BY <1>20, <2>1, <2>2, SameLength
<1> QED BY <1>1, <1>2, <1>10, <1>15, <1>19, <1>21, <1>22
    DEF SecondListingAddsNothing, reports, again

-----------------------------------------------------------------------------
(* The theorems *)

\* What the files hold, what is still to be stored and what was heard hold together
\* through every run (runFeed, aggregator.go:258).
THEOREM CollectionHoldsTogether == Spec => []IInv
BY CollectionBegins, CollectionKeeps, PTL DEF Spec

\* A complete run has stored every well-formed entry that no open quote precedes, or
\* its address is among the failures (ConvertEntries, entries.go:38).
THEOREM GoodEntriesAreStored == Spec => []GoodEntriesStored
BY CollectionHoldsTogether, ImpliesGoodEntries, PTL

\* Every observation says what an entry about its file's address said at the first
\* and at the last moment it covers, or was read over the end of a line (addReports,
\* record.go:166).
THEOREM StoredIsListed == Spec => []OnlyListedIsStored
BY CollectionHoldsTogether, ImpliesOnlyListed, PTL

\* From whatever the files hold, a reply that comes a second time in another order,
\* once the first is written and read again, adds no observation of an address of
\* which it lists each key once and in valid UTF-8 (latestObservationIndex,
\* record.go:206, and hasSameContent, record.go:220).
THEOREM RelistedAddsNothing == Spec => []RelistingAddsNothing
BY CollectionHoldsTogether, ImpliesRelisting, PTL

\* No host has two files, and each file's name leads back to its address
\* (addressFromFileName, storage.go:273).
THEOREM HostsHaveOneFile == Spec => []OneFilePerHost
BY CollectionHoldsTogether, ImpliesOneFilePerHost, PTL
=============================================================================
