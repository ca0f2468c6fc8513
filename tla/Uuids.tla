--------------------------------- MODULE Uuids ---------------------------------
(***************************************************************************)
(* The layout of a UUID of version 7: the two 64-bit words that            *)
(* UuidBuilder packs, the fields that the validators read from them, and   *)
(* the numbers that the serializers make of them.                          *)
(*                                                                         *)
(* The width of a field is given by the number of its values, so that a    *)
(* shift is a multiplication or a division and a mask a remainder.  In the *)
(* code these numbers are the powers of two named below; they are          *)
(* parameters because model checking uses narrower words.                  *)
(***************************************************************************)
EXTENDS Naturals

CONSTANTS
    TimeHigh,           \* 2^32, the timestamp's first group in a string
    TimeLow,            \* 2^16, its second group
    RandomA,            \* 2^12, UUID_RANDOM_A_MASK + 1
    RandomBHigh,        \* 2^14, MASK_14_BITS + 1
    Half                \* 2^32, half a word

Versions   == 16        \* UUID_VERSION_MASK + 1
Variants   == 4         \* UUID_VARIANT_MASK + 1
Timestamps == TimeHigh * TimeLow
RandomB    == RandomBHigh * Timestamps

ASSUME LayoutAssumption ==
    /\ TimeHigh \in Nat \ {0}
    /\ TimeLow \in Nat \ {0}
    /\ RandomA \in Nat \ {0}
    /\ RandomBHigh \in Nat \ {0}
    /\ Half \in Nat \ {0}
    /\ Half * Half = (Timestamps * Versions) * RandomA
    /\ Half * Half = Variants * RandomB

\* The two words of a v1::UUID
Words == [msb : 0 .. Half * Half - 1, lsb : 0 .. Half * Half - 1]

-------------------------------------------------------------------------------
(* The fields.  The random bits of both words are one number here. *)

Fields == [version : 0 .. Versions - 1, variant : 0 .. Variants - 1,
           ms : 0 .. Timestamps - 1, random : 0 .. RandomA * RandomB - 1]

\* UuidBuilder::build(), for a version, a variant, a time and random bits
Packed(id) ==
    [msb |-> (id.ms * Versions + id.version) * RandomA + (id.random \div RandomB),
     lsb |-> id.variant * RandomB + (id.random % RandomB)]

internalGetVersion(w) == (w.msb \div RandomA) % Versions
internalGetVariant(w) == (w.lsb \div RandomB) % Variants
getUuidTimestamp(w)   == ((w.msb \div RandomA) \div Versions) % Timestamps

Unpacked(w) ==
    [version |-> internalGetVersion(w), variant |-> internalGetVariant(w),
     ms |-> getUuidTimestamp(w),
     random |-> (w.msb % RandomA) * RandomB + (w.lsb % RandomB)]

-------------------------------------------------------------------------------
(* The five groups of the string, and the four parts of the bytes. *)

\* Faulty variant: the random bits are cut one bit too early.
GroupsShort(w) ==
    LET time   == getUuidTimestamp(w)
        random == w.lsb % RandomB
    IN  [time_high |-> (time \div TimeLow) % TimeHigh,
         time_low  |-> time % TimeLow,
         version   |-> internalGetVersion(w) * RandomA + (w.msb % RandomA),
         variant   |-> internalGetVariant(w) * RandomBHigh
                       + ((random \div Timestamps) % (RandomBHigh \div 2)),
         random    |-> random % Timestamps]

Groups(w) ==
    LET time   == getUuidTimestamp(w)
        random == w.lsb % RandomB
    IN  [time_high |-> (time \div TimeLow) % TimeHigh,
         time_low  |-> time % TimeLow,
         version   |-> internalGetVersion(w) * RandomA + (w.msb % RandomA),
         variant   |-> internalGetVariant(w) * RandomBHigh
                       + ((random \div Timestamps) % RandomBHigh),
         random    |-> random % Timestamps]

FromGroups(g) ==
    [msb |-> ((g.time_high * TimeLow + g.time_low) * Versions
                 + ((g.version \div RandomA) % Versions)) * RandomA
             + (g.version % RandomA),
     lsb |-> ((g.variant \div RandomBHigh) % Variants) * RandomB
             + (g.variant % RandomBHigh) * Timestamps + g.random]

Parts(w) ==
    [msb_high |-> w.msb \div Half, msb_low |-> w.msb % Half,
     lsb_high |-> w.lsb \div Half, lsb_low |-> w.lsb % Half]

FromParts(p) ==
    [msb |-> p.msb_high * Half + p.msb_low, lsb |-> p.lsb_high * Half + p.lsb_low]

===============================================================================
