-------------------------------- MODULE Paths --------------------------------
(***************************************************************************)
(* Addresses and the names of their record files: internal/aggregator/     *)
(* storage.go, from addressFileName on.  The module has no variables.      *)
(*                                                                         *)
(* An IPv4 address is four octets, an IPv6 address eight groups of 16 bits *)
(* and a zone.  A file name is the top directory and the parts below it,   *)
(* without ".json"; a part is a list of digits, as text is.                *)
(***************************************************************************)
EXTENDS Integers, SequencesExt

\* What Zone() returns as the empty string.
NoZone == "none"

V4(octets) == [version |-> 4, parts |-> octets, zone |-> NoZone]
V6(groups) == [version |-> 6, parts |-> groups, zone |-> NoZone]
InZone(address, zone) == [address EXCEPT !.zone = zone]

Octet == 0 .. 2^8 - 1
Group == 0 .. 2^16 - 1

IPv4 == [version : {4}, parts : [1..4 -> Octet], zone : {NoZone}]
IPv6 == [version : {6}, parts : [1..8 -> Group], zone : STRING]
Address == IPv4 \cup IPv6

\* ::ffff:0:0/96, in which IPv6 writes IPv4 addresses.
Is4In6(address) ==
    /\ address.version = 6
    /\ SubSeq(address.parts, 1, 6) = <<0, 0, 0, 0, 0, 65535>>

IsUnzonedAddress(address) == address.zone = NoZone   \* mutant: IPv4-mapped ones are stored

IsStorableAddress(address) == address.zone = NoZone /\ ~Is4In6(address)

-----------------------------------------------------------------------------
(* File names *)

Decimal(octet) ==
    CASE octet < 10  -> <<octet>>
      [] octet \in 10..99 -> <<octet \div 10, octet % 10>>
      [] octet >= 100 -> <<octet \div 100, (octet \div 10) % 10, octet % 10>>

\* Four hexadecimal digits, leading zeros included.
Hexadecimal(group) ==
    <<group \div 4096, (group \div 256) % 16, (group \div 16) % 16, group % 16>>

ExpandIPv6(address) == [i \in 1..8 |-> Hexadecimal(address.parts[i])]

AddressFileName(address) ==
    IF address.version = 4
    THEN [family |-> "ipv4", parts |-> [i \in 1..4 |-> Decimal(address.parts[i])]]
    ELSE [family |-> "ipv6", parts |-> ExpandIPv6(address)]

Number(digits, base) == FoldLeft(LAMBDA number, digit : number * base + digit, 0, digits)

\* What netip.ParseAddr accepts of such parts: octets without leading zeros, and
\* groups of one to four digits.  An address, or nothing: {} or a singleton.
ParseParts(family, parts) ==
    CASE family = "ipv4" /\ Len(parts) = 4
         /\ \A i \in 1..4 : Number(parts[i], 10) <= 255 /\ Decimal(Number(parts[i], 10)) = parts[i]
         -> {V4([i \in 1..4 |-> Number(parts[i], 10)])}
      [] family = "ipv6" /\ Len(parts) = 8 /\ \A i \in 1..8 : Len(parts[i]) \in 1..4
         -> {V6([i \in 1..8 |-> Number(parts[i], 16)])}
      [] OTHER -> {}

\* A name counts only if it is exactly the one the address would be given.
AddressFromFileName(name) ==
    {address \in ParseParts(name.family, name.parts) : name = AddressFileName(address)}

-----------------------------------------------------------------------------

\* The host an address stands for, however it is written.
Host(address) ==
    IF Is4In6(address)
    THEN LET high == address.parts[7]
             low  == address.parts[8]
         IN  <<high \div 256, high % 256, low \div 256, low % 256>>
    ELSE address.parts
=============================================================================
