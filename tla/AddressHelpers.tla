--------------------------- MODULE AddressHelpers ---------------------------
(***************************************************************************)
(* utility/address_helpers.py and stack/ip_address.py: the conversions    *)
(* between a dotted IPv4 string and the 32-bit value stored in            *)
(* IpV4Addr.addr, and the type tag IpAddr gives an address.               *)
(*                                                                         *)
(* A dotted string is represented by the sequence of its segments after   *)
(* ip_string.split('.') and int(): <<1, 2, 3, 4>> is "1.2.3.4". int()     *)
(* accepts any decimal numeral, so a segment is any natural (negative     *)
(* numerals are left out: the Bitwise operators are defined on naturals). *)
(* int_ip_to_string produces four segments, each str() of a byte.         *)
(***************************************************************************)
EXTENDS Integers, Sequences, SequencesExt, Bitwise

CONSTANTS
    Inputs,     \* the dotted strings a caller passes, as segment sequences
    AddrKinds   \* the classes of the address passed to IpAddr

VARIABLES
    ip,         \* the string passed to IpV4Addr(ip_str)
    addrKind    \* the class of the object passed to IpAddr(addr)

vars == <<ip, addrKind>>

-----------------------------------------------------------------------------
(* Python ints are unbounded and TLC's are 32-bit, so a number is the     *)
(* sequence of its base-256 digits, least significant first, without      *)
(* trailing zeros (<<>> is 0). Shifts by 8 and masks with 0xFF act on     *)
(* whole digits.                                                           *)
RECURSIVE Digits(_)
Digits(v) == IF v = 0 THEN <<>> ELSE <<v % 256>> \o Digits(v \div 256)

Digit(n, i) == IF i <= Len(n) THEN n[i] ELSE 0

Normal(n) ==
    LET top == {i \in DOMAIN n : n[i] # 0}
    IN  IF top = {} THEN <<>> ELSE SubSeq(n, 1, Max(top))

ShiftLeft8(n) == IF n = <<>> THEN <<>> ELSE <<0>> \o n

BitOr(m, n) ==
    [i \in 1..(IF Len(m) >= Len(n) THEN Len(m) ELSE Len(n)) |->
        Digit(m, i) | Digit(n, i)]

(* int_ip_from_string: fold (hi << 8) | lo over the reversed segments,    *)
(* starting from 0.                                                        *)
IntIpFromStringInOrder(segs) ==
    FoldLeft(LAMBDA hi, lo : BitOr(ShiftLeft8(hi), Digits(lo)), <<>>, segs)
IntIpFromString(segs) ==
    FoldLeft(LAMBDA hi, lo : BitOr(ShiftLeft8(hi), Digits(lo)), <<>>,
             Reverse(segs))

(* IpV4Addr.__init__: the Python int is stored in a c_uint32 field, which *)
(* keeps its low 32 bits, the first four digits.                           *)
IpV4Addr(segs) ==
    LET n == IntIpFromString(segs)
    IN  Normal(SubSeq(n, 1, IF Len(n) <= 4 THEN Len(n) ELSE 4))

(* int_ip_to_string: (ip_int >> shift) & 0xFF at shifts 0, 8, 16, 24.     *)
IntIpToStringHighFirst(x) == [i \in 1..4 |-> Digit(x, 5 - i)]
IntIpToString(x) == [i \in 1..4 |-> Digit(x, i)]

(* IpAddr.__init__: the type tag, or the ValueError it raises. The second *)
(* test repeats isinstance(addr, IpV4Addr).                                *)
IpAddrType(kind) ==
    IF kind = "IpV4Addr" THEN 0
    ELSE IF kind = "IpV4Addr" THEN 6
    ELSE -1  \* ValueError

-----------------------------------------------------------------------------
(* Each step is a new call with another input.                            *)
Init == ip \in Inputs /\ addrKind \in AddrKinds

Convert == ip' \in Inputs /\ addrKind' \in AddrKinds

Spec == Init /\ [][Convert]_vars

-----------------------------------------------------------------------------
IsDottedQuad(segs) == Len(segs) = 4 /\ \A i \in 1..4 : segs[i] < 256

(* IpV4Addr stores a dotted quad as the little-endian value that lwIP     *)
(* expects on a little-endian host (int_ip_from_string through the        *)
(* c_uint32 field): byte i of the value is segment i.                      *)
ParsesLittleEndian ==
    IsDottedQuad(ip) => \A i \in 1..4 : Digit(IpV4Addr(ip), i) = ip[i]

(* NetIf.get_address returns the dotted quad the interface was added with: *)
(* int_ip_to_string inverts int_ip_from_string on dotted quads.            *)
RoundTrip == IsDottedQuad(ip) => IntIpToString(IpV4Addr(ip)) = ip

====
