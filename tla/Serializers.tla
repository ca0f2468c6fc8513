------------------------------ MODULE Serializers ------------------------------
(***************************************************************************)
(* The serializers of UUIDs and UUris (src/datamodel/serializer).          *)
(*                                                                         *)
(* A text is a sequence of characters, a character a string of length one. *)
(* An authority name is one character of a text.  A deserializer gives the *)
(* set of what it reads: the empty set stands for its exception.           *)
(***************************************************************************)
EXTENDS Uuids, UUris, SequencesExt

CONSTANTS
    Widths,             \* hex digits of the groups of a UUID: 8, 4, 4, 4, 12
    PartSize            \* UUID_PART_SIZE, the bytes of half a word: 4

-------------------------------------------------------------------------------
(* Hexadecimal numbers. *)

Lower == <<"0", "1", "2", "3", "4", "5", "6", "7", "8", "9", "a", "b", "c", "d", "e", "f">>
Upper == <<"0", "1", "2", "3", "4", "5", "6", "7", "8", "9", "A", "B", "C", "D", "E", "F">>

\* The value of a digit of either case
Digit == [c \in ToSet(Lower) \union ToSet(Upper) |->
             (CHOOSE d \in 1..16 : c \in {Lower[d], Upper[d]}) - 1]
isHex(c) == c \in DOMAIN Digit

\* n without its last k digits; 64 bits are 16 hexadecimal digits
Rest(n, base) ==
    LET rest[k \in 0..16] == IF k = 0 THEN n ELSE rest[k - 1] \div base
    IN  rest

Digits(n, base, len) == [i \in 1..len |-> Rest(n, base)[len - i] % base]

\* std::hex with std::setw(width) and std::setfill('0'): padded, never cut
Hex(n, width, digits) ==
    LET len == Min({k \in width..16 : Rest(n, 16)[k] = 0})
    IN  [i \in 1..len |-> digits[Digits(n, 16, len)[i] + 1]]

\* The number that a sequence of digits to a base stands for
Number(digits, base) ==
    LET prefix[n \in 0..Len(digits)] ==
            IF n = 0 THEN 0 ELSE base * prefix[n - 1] + digits[n]
    IN  prefix[Len(digits)]

Value(s) == Number([i \in DOMAIN s |-> Digit[s[i]]], 16)

\* The groups of a UUID and the halves of its words fit into their digits.
ASSUME WidthsAssumption ==
    /\ Widths \in [1..5 -> 1..16]
    /\ \A n \in 0 .. TimeHigh - 1 : Rest(n, 16)[Widths[1]] = 0
    /\ \A n \in 0 .. TimeLow - 1 : Rest(n, 16)[Widths[2]] = 0
    /\ \A n \in 0 .. Versions * RandomA - 1 : Rest(n, 16)[Widths[3]] = 0
    /\ \A n \in 0 .. Variants * RandomBHigh - 1 : Rest(n, 16)[Widths[4]] = 0
    /\ \A n \in 0 .. Timestamps - 1 : Rest(n, 16)[Widths[5]] = 0
    /\ PartSize \in 1..16
    /\ \A n \in 0 .. Half - 1 : Rest(n, 256)[PartSize] = 0

-------------------------------------------------------------------------------
(* UUIDs.  Of std::stoull() it is kept that it reads the digits a group    *)
(* starts with, ignores what follows them, and throws if there are none.   *)

UuidIn(digits, w) ==
    LET g == Groups(w)
    IN  Hex(g.time_high, Widths[1], digits) \o <<"-">> \o
        Hex(g.time_low, Widths[2], digits) \o <<"-">> \o
        Hex(g.version, Widths[3], digits) \o <<"-">> \o
        Hex(g.variant, Widths[4], digits) \o <<"-">> \o
        Hex(g.random, Widths[5], digits)

\* Faulty variant: std::uppercase, as for UUris.
UuidTextUpper(w) == UuidIn(Upper, w)
UuidText(w) == UuidIn(Lower, w)

\* The position before the first digit of a group: that of the separator, from the
\* second group on
Offset ==
    LET w == Widths
    IN  <<0, w[1] + 1, w[1] + w[2] + 2, w[1] + w[2] + w[3] + 3,
          w[1] + w[2] + w[3] + w[4] + 4>>
TotalLength == Offset[5] + Widths[5]

Leading(s) ==
    SubSeq(s, 1, Max({n \in 0..Len(s) : \A i \in 1..n : isHex(s[i])}))

WellFormed(text) ==
    /\ Len(text) = TotalLength
    /\ \A k \in 2..5 : text[Offset[k]] = "-"

ReadUuid(text) ==
    LET digits == [k \in 1..5 |-> Leading(SubSeq(text, Offset[k] + 1, Offset[k] + Widths[k]))]
        value  == [k \in 1..5 |-> Value(digits[k])]
    IN  IF WellFormed(text) /\ \A k \in 1..5 : digits[k] # <<>>
        THEN {FromGroups([time_high |-> value[1], time_low |-> value[2],
                          version |-> value[3], variant |-> value[4],
                          random |-> value[5]])}
        ELSE {}

\* AsBytes: the bytes of the parts, the most significant first
BigEndian(n) == Digits(n, 256, PartSize)

UuidBytes(w) ==
    LET p == Parts(w)
    IN  BigEndian(p.msb_high) \o BigEndian(p.msb_low) \o
        BigEndian(p.lsb_high) \o BigEndian(p.lsb_low)

FromBigEndian(bytes) == Number(bytes, 256)

ReadBytes(bytes) ==
    LET Part(k) == FromBigEndian(SubSeq(bytes, PartSize * k + 1, PartSize * (k + 1)))
    IN  IF Len(bytes) = 4 * PartSize
        THEN {FromParts([msb_high |-> Part(0), msb_low |-> Part(1),
                         lsb_high |-> Part(2), lsb_low |-> Part(3)])}
        ELSE {}

-------------------------------------------------------------------------------
(* UUris. *)

\* ue_id holds the instance in its upper 16 bits and the service in its lower ones.
\* Faulty variant: the service is not padded.
EntityIdShort(u) ==
    IF u.instance = 0 THEN Hex(u.service, 1, Upper)
    ELSE Hex(u.instance, 1, Upper) \o Hex(u.service, 1, Upper)

EntityId(u) ==
    IF u.instance = 0 THEN Hex(u.service, 1, Upper)
    ELSE Hex(u.instance, 1, Upper) \o Hex(u.service, 4, Upper)

CanWriteUri(u) == isValidFilter(u)

UriText(u) ==
    (IF isLocal(u) THEN <<>> ELSE <<"/", "/", u.authority>>)
        \o <<"/">> \o EntityId(u)
        \o <<"/">> \o Hex(u.version, 1, Upper)
        \o <<"/">> \o Hex(u.resource, 1, Upper)

\* What extractSegment() cuts off a view, and what is left of the view
extractSegment(view) ==
    {[segment |-> SubSeq(view, 1, end - 1), rest |-> SubSeq(view, end + 1, Len(view))] :
        end \in {i \in DOMAIN view : view[i] = "/" /\ \A j \in 1 .. i - 1 : view[j] # "/"}}

Significant(segment) ==
    SubSeq(segment, 1 + Cardinality({n \in 1 .. Len(segment) - 1 :
                                        \A i \in 1..n : segment[i] = "0"}),
           Len(segment))

\* Faulty variant: what follows the digits is ignored.
isUint32Prefix(segment) ==
    segment # <<>> /\ isHex(segment[1])

\* segmentToUint32(): the whole segment, and no more than 32 bits
isUint32(segment) ==
    /\ segment # <<>>
    /\ \A i \in DOMAIN segment : isHex(segment[i])
    /\ Len(Significant(segment)) <= 8

High(segment) ==
    LET s == Significant(Leading(segment)) IN Value(SubSeq(s, 1, Len(s) - 4))
Low(segment) ==
    LET s == Significant(Leading(segment)) IN Value(SubSeq(s, Max({1, Len(s) - 3}), Len(s)))

\* Versions and resources above 16 bits are refused alike, so one stands for all.
SmallNumber(segment) == IF High(segment) = 0 THEN Low(segment) ELSE UINT16_MAX + 1

SCHEMA_PREFIX == <<"u", "p", ":", "/", "/">>
REMOTE_PREFIX == <<"/", "/">>
LOCAL_PREFIX  == <<"/">>

\* A name of several characters is an ordinary one.
Name(segment) ==
    CASE Len(segment) = 0 -> "" [] Len(segment) = 1 -> segment[1] [] OTHER -> "name"

\* The numbers that follow the authority
ReadNumbers(authority, view) ==
    LET uri(id, version) ==
            [authority |-> authority, instance |-> High(id.segment),
             service |-> Low(id.segment), version |-> SmallNumber(version.segment),
             resource |-> SmallNumber(version.rest)]
    IN  UNION {{uri(id, version) : version \in
                   {v \in extractSegment(id.rest) :
                       /\ isUint32(id.segment) /\ isUint32(v.segment) /\ isUint32(v.rest)
                       /\ isValidFilter(uri(id, v))}} :
               id \in extractSegment(view)}

ReadUri(text) ==
    LET after(prefix)  == SubSeq(text, Len(prefix) + 1, Len(text))
        remote(prefix) == UNION {ReadNumbers(Name(name.segment), name.rest) :
                                    name \in extractSegment(after(prefix))}
    IN  IF IsPrefix(SCHEMA_PREFIX, text) THEN remote(SCHEMA_PREFIX)
        ELSE IF IsPrefix(REMOTE_PREFIX, text) THEN remote(REMOTE_PREFIX)
        ELSE IF IsPrefix(LOCAL_PREFIX, text) THEN ReadNumbers("", after(LOCAL_PREFIX))
        ELSE {}

===============================================================================
