------------------------------ MODULE UuidProofs ------------------------------
(***************************************************************************)
(* Proofs about the layout of UUIDs, for fields of any width: what the     *)
(* builder packs is what the validators read, and neither the string nor   *)
(* the bytes lose a bit.  And facts about the time that an id carries,     *)
(* which the proofs about the users of UuidBuilder share.                  *)
(***************************************************************************)
EXTENDS Uuids, Messages, TLAPS

-------------------------------------------------------------------------------
(* Numbers put together from a quotient and a remainder. *)

\* Division and remainder put together give the number again.
LEMMA Split ==
    ASSUME NEW a \in Nat, NEW n \in Nat \ {0}
    PROVE  /\ a \div n \in Nat
           /\ a % n \in 0 .. n - 1
           /\ a = (a \div n) * n + (a % n)
OBVIOUS

\* A number put together from a quotient and a remainder falls apart into them.
LEMMA Join ==
    ASSUME NEW q \in Nat, NEW n \in Nat \ {0}, NEW r \in 0 .. n - 1
    PROVE  /\ q * n + r \in Nat
           /\ (q * n + r) \div n = q
           /\ (q * n + r) % n = r
OBVIOUS

\* The number put together stays below the product of the radices.
LEMMA JoinBound ==
    ASSUME NEW m \in Nat \ {0}, NEW n \in Nat \ {0},
           NEW q \in 0 .. m - 1, NEW r \in 0 .. n - 1
    PROVE  q * n + r \in 0 .. m * n - 1
<1>1. q * n \in Nat /\ m * n \in Nat
  OBVIOUS
<1>2. (q + 1) * n <= m * n
  OBVIOUS
<1>3. (q + 1) * n = q * n + n
  OBVIOUS
<1> QED
  BY <1>1, <1>2, <1>3

\* The quotient of a number below the product stays below its radix.
LEMMA SplitBound ==
    ASSUME NEW m \in Nat \ {0}, NEW n \in Nat \ {0}, NEW a \in 0 .. m * n - 1
    PROVE  a \div n \in 0 .. m - 1
<1> DEFINE q == a \div n
<1>1. q \in Nat /\ a % n \in 0 .. n - 1 /\ a = q * n + (a % n)
  BY Split
<1>2. SUFFICES ASSUME q >= m PROVE FALSE
  BY <1>1
<1>3. q * n >= m * n
  BY <1>1, <1>2
<1>4. q * n \in Nat /\ m * n \in Nat
  BY <1>1
<1> QED
  BY <1>1, <1>3, <1>4

\* Masking a number that fits changes nothing.
LEMMA SmallMod ==
    ASSUME NEW n \in Nat \ {0}, NEW a \in 0 .. n - 1
    PROVE  a % n = a
OBVIOUS

\* A field of a word, read: the rest above it and the field, both in range.
LEMMA Read ==
    ASSUME NEW m \in Nat \ {0}, NEW n \in Nat \ {0}, NEW a \in 0 .. m * n - 1
    PROVE  /\ a \div n \in 0 .. m - 1
           /\ a % n \in 0 .. n - 1
           /\ a = (a \div n) * n + (a % n)
<1>1. m * n \in Nat
  OBVIOUS
<1>2. a \in Nat
  BY <1>1
<1> QED
  BY <1>2, Split, SplitBound

\* A field r below n under a number q below m: both can be read again.
Writes(m, n, q, r) ==
    /\ q * n + r \in 0 .. m * n - 1
    /\ (q * n + r) \div n = q
    /\ (q * n + r) % n = r

\* A field that was written into a word in range can be read from it.
LEMMA Write ==
    ASSUME NEW m \in Nat \ {0}, NEW n \in Nat \ {0},
           NEW q \in 0 .. m - 1, NEW r \in 0 .. n - 1
    PROVE  Writes(m, n, q, r)
<1>1. q \in Nat
  OBVIOUS
<1> QED
  BY <1>1, Join, JoinBound DEF Writes

\* The radices are numbers, and so are their products.
LEMMA Radices ==
    /\ TimeHigh \in Nat \ {0} /\ TimeLow \in Nat \ {0}
    /\ RandomA \in Nat \ {0} /\ RandomBHigh \in Nat \ {0} /\ Half \in Nat \ {0}
    /\ Timestamps \in Nat \ {0} /\ RandomB \in Nat \ {0}
    /\ Versions \in Nat \ {0} /\ Variants \in Nat \ {0}
    /\ Timestamps * Versions \in Nat \ {0}
    /\ RandomBHigh * Timestamps = RandomB
<1>1. \A a, b \in Nat \ {0} : a * b \in Nat \ {0}
  OBVIOUS
<1> QED
  BY <1>1, LayoutAssumption DEF Timestamps, RandomB, Versions, Variants

-------------------------------------------------------------------------------
(* The theorems. *)

\* What UuidBuilder::build() packs into the two words is what the validators
\* (internalGetVersion(), internalGetVariant(), getUuidTimestamp()) read from them:
\* no field reaches into its neighbour.
THEOREM FieldsSurvive ==
    \A id \in Fields : Packed(id) \in Words /\ Unpacked(Packed(id)) = id
<1> TAKE id \in Fields
<1> DEFINE a == id.random \div RandomB
           b == id.random % RandomB
           t == id.ms * Versions + id.version
           w == Packed(id)
<1>1. /\ id.ms \in 0 .. Timestamps - 1 /\ id.version \in 0 .. Versions - 1
      /\ id.variant \in 0 .. Variants - 1 /\ id.random \in 0 .. RandomA * RandomB - 1
  BY DEF Fields
<1>2. /\ a \in 0 .. RandomA - 1 /\ b \in 0 .. RandomB - 1
      /\ id.random = a * RandomB + b
  BY <1>1, Read, Radices
<1>3. /\ t \in 0 .. Timestamps * Versions - 1
      /\ t \div Versions = id.ms /\ t % Versions = id.version
  <2>1. id.ms \in 0 .. Timestamps - 1 /\ id.version \in 0 .. Versions - 1
    BY <1>1
  <2>2. Timestamps \in Nat \ {0} /\ Versions \in Nat \ {0}
    BY Radices
  <2>3. Writes(Timestamps, Versions, id.ms, id.version)
    BY <2>1, <2>2, Write, Zenon
  <2> QED
    BY <2>3 DEF Writes
<1>4. w.msb = t * RandomA + a /\ w.lsb = id.variant * RandomB + b
  BY DEF Packed
<1> HIDE DEF t, a, b
<1>5. /\ t * RandomA + a \in 0 .. (Timestamps * Versions) * RandomA - 1
      /\ (t * RandomA + a) \div RandomA = t /\ (t * RandomA + a) % RandomA = a
  <2>1. t \in 0 .. Timestamps * Versions - 1 /\ a \in 0 .. RandomA - 1
    BY <1>2, <1>3
  <2>2. Timestamps * Versions \in Nat \ {0} /\ RandomA \in Nat \ {0}
    BY Radices
  <2>3. Writes(Timestamps * Versions, RandomA, t, a)
    BY <2>1, <2>2, Write, Zenon
  <2> QED
    BY <2>3 DEF Writes
<1>6. /\ id.variant * RandomB + b \in 0 .. Variants * RandomB - 1
      /\ (id.variant * RandomB + b) \div RandomB = id.variant
      /\ (id.variant * RandomB + b) % RandomB = b
  <2>1. id.variant \in 0 .. Variants - 1 /\ b \in 0 .. RandomB - 1
    BY <1>1, <1>2
  <2>2. Variants \in Nat \ {0} /\ RandomB \in Nat \ {0}
    BY Radices
  <2>3. Writes(Variants, RandomB, id.variant, b)
    BY <2>1, <2>2, Write, Zenon
  <2> QED
    BY <2>3 DEF Writes
<1>7. w \in Words
  BY <1>4, <1>5, <1>6, LayoutAssumption DEF Words, Packed
<1>8. internalGetVersion(w) = id.version
  BY <1>3, <1>4, <1>5 DEF internalGetVersion
<1>9. internalGetVariant(w) = id.variant
  <2>1. internalGetVariant(w) = id.variant % Variants
    BY <1>4, <1>6 DEF internalGetVariant
  <2>2. id.variant \in 0 .. Variants - 1 /\ Variants \in Nat \ {0}
    BY <1>1, Radices
  <2>3. id.variant % Variants = id.variant
    BY <2>2, SmallMod, Zenon
  <2> QED
    BY <2>1, <2>3
<1>10. getUuidTimestamp(w) = id.ms
  <2>1. getUuidTimestamp(w) = id.ms % Timestamps
    BY <1>3, <1>4, <1>5 DEF getUuidTimestamp
  <2>2. id.ms \in 0 .. Timestamps - 1 /\ Timestamps \in Nat \ {0}
    BY <1>1, Radices
  <2>3. id.ms % Timestamps = id.ms
    BY <2>2, SmallMod, Zenon
  <2> QED
    BY <2>1, <2>3
<1>11. (w.msb % RandomA) * RandomB + (w.lsb % RandomB) = id.random
  BY <1>2, <1>4, <1>5, <1>6
<1>12. Unpacked(w) = id
  BY <1>8, <1>9, <1>10, <1>11 DEF Unpacked, Fields
<1> QED
  BY <1>7, <1>12

\* AsString::deserialize() of the five groups that AsString::serialize() writes is
\* the UUID itself, whatever its bits.
THEOREM StringSurvives ==
    \A w \in Words : FromGroups(Groups(w)) = w
<1> TAKE w \in Words
<1> DEFINE m == w.msb \div RandomA
           a == w.msb % RandomA
           v == m % Versions
           t == m \div Versions
           x == w.lsb \div RandomB
           r == w.lsb % RandomB
           g == Groups(w)
<1>1. w.msb \in 0 .. (Timestamps * Versions) * RandomA - 1
  BY LayoutAssumption DEF Words
<1>2. w.lsb \in 0 .. Variants * RandomB - 1
  BY LayoutAssumption DEF Words
<1>3. m \in 0 .. Timestamps * Versions - 1 /\ a \in 0 .. RandomA - 1 /\ w.msb = m * RandomA + a
  BY <1>1, Read, Radices
<1>4. t \in 0 .. Timestamps - 1 /\ v \in 0 .. Versions - 1 /\ m = t * Versions + v
  <2> HIDE DEF m
  <2> QED
    BY <1>3, Read, Radices
<1>5. x \in 0 .. Variants - 1 /\ r \in 0 .. RandomB - 1 /\ w.lsb = x * RandomB + r
  BY <1>2, Read, Radices
<1>6. getUuidTimestamp(w) = t /\ internalGetVersion(w) = v /\ internalGetVariant(w) = x
  BY <1>4, <1>5, SmallMod, Radices DEF getUuidTimestamp, internalGetVersion, internalGetVariant
<1> HIDE DEF m, a, v, t, x, r
<1>7. /\ t \div TimeLow \in 0 .. TimeHigh - 1 /\ t % TimeLow \in 0 .. TimeLow - 1
      /\ t = (t \div TimeLow) * TimeLow + (t % TimeLow)
  <2>1. TimeHigh \in Nat \ {0} /\ TimeLow \in Nat \ {0}
    BY Radices
  <2>2. t \in 0 .. TimeHigh * TimeLow - 1
    BY <1>4 DEF Timestamps
  <2> QED
    BY <2>1, <2>2, Read, Zenon
<1>8. /\ r \div Timestamps \in 0 .. RandomBHigh - 1 /\ r % Timestamps \in 0 .. Timestamps - 1
      /\ r = (r \div Timestamps) * Timestamps + (r % Timestamps)
  <2>1. RandomBHigh \in Nat \ {0} /\ Timestamps \in Nat \ {0}
    BY Radices
  <2>2. r \in 0 .. RandomBHigh * Timestamps - 1
    BY <1>5, Radices
  <2> QED
    BY <2>1, <2>2, Read, Zenon
<1>9. /\ (v * RandomA + a) \div RandomA = v /\ (v * RandomA + a) % RandomA = a
  <2>1. Writes(Versions, RandomA, v, a)
    BY <1>3, <1>4, Write, Radices
  <2> QED
    BY <2>1 DEF Writes
<1>10. /\ (x * RandomBHigh + (r \div Timestamps)) \div RandomBHigh = x
       /\ (x * RandomBHigh + (r \div Timestamps)) % RandomBHigh = r \div Timestamps
  <2>1. x \in 0 .. Variants - 1 /\ r \div Timestamps \in 0 .. RandomBHigh - 1
    BY <1>5, <1>8
  <2>2. Variants \in Nat \ {0} /\ RandomBHigh \in Nat \ {0}
    BY Radices
  <2>3. Writes(Variants, RandomBHigh, x, r \div Timestamps)
    BY <2>1, <2>2, Write, Zenon
  <2> QED
    BY <2>3 DEF Writes
<1>11. /\ g.time_high = t \div TimeLow /\ g.time_low = t % TimeLow
       /\ g.version = v * RandomA + a
       /\ g.variant = x * RandomBHigh + (r \div Timestamps)
       /\ g.random = r % Timestamps
  BY <1>6, <1>7, <1>8, SmallMod, Radices DEF Groups, a, r
<1> HIDE DEF g
<1>12. /\ g.time_high * TimeLow + g.time_low = t
       /\ (g.version \div RandomA) % Versions = v /\ g.version % RandomA = a
  BY <1>4, <1>7, <1>9, <1>11, SmallMod, Radices
<1>13. /\ (g.variant \div RandomBHigh) % Variants = x
       /\ (g.variant % RandomBHigh) * Timestamps + g.random = r
  BY <1>5, <1>8, <1>10, <1>11, SmallMod, Radices
<1>14. FromGroups(g).msb = w.msb
  BY <1>3, <1>4, <1>12 DEF FromGroups
<1>15. FromGroups(g).lsb = w.lsb
  <2>1. (g.variant % RandomBHigh) * Timestamps \in Nat /\ g.random \in Nat
    BY <1>8, <1>10, <1>11, Radices
  <2>2. x * RandomB \in Nat
    BY <1>5, Radices
  <2> QED
    BY <1>5, <1>13, <2>1, <2>2 DEF FromGroups
<1>16. FromGroups(g) = [msb |-> FromGroups(g).msb, lsb |-> FromGroups(g).lsb]
  BY DEF FromGroups
<1>17. w = [msb |-> w.msb, lsb |-> w.lsb]
  BY DEF Words
<1> QED
  BY <1>14, <1>15, <1>16, <1>17 DEF g

\* The same for AsBytes: four big-endian parts of half a word each.
THEOREM BytesSurvive ==
    \A w \in Words : FromParts(Parts(w)) = w
<1> TAKE w \in Words
<1>1. w.msb \in Nat /\ w.lsb \in Nat /\ w = [msb |-> w.msb, lsb |-> w.lsb]
  BY Radices DEF Words
<1>2. /\ w.msb = (w.msb \div Half) * Half + (w.msb % Half)
      /\ w.lsb = (w.lsb \div Half) * Half + (w.lsb % Half)
  BY <1>1, Split, Radices
<1> QED
  BY <1>1, <1>2 DEF FromParts, Parts

-------------------------------------------------------------------------------
(* Stamps.  A UUID holds whole milliseconds, the clock is finer. *)

\* An id that was made at or before a time.
Stamped(id, time) ==
    id.version = 7 /\ id.variant = 2 /\ id.ms \in Nat /\ id.ms * TicksPerMs <= time

\* k milliseconds that have passed at time n are within the stamp of n.
LEMMA StampBounds ==
  ASSUME NEW n \in Nat
  PROVE  /\ n \div TicksPerMs \in Nat
         /\ (n \div TicksPerMs) * TicksPerMs <= n
         /\ \A k \in Nat : k * TicksPerMs <= n => k <= n \div TicksPerMs
<1> DEFINE q == n \div TicksPerMs
<1>1. TicksPerMs \in Nat /\ TicksPerMs > 0
  BY ClockAssumption
<1>2. q \in Nat /\ q * TicksPerMs <= n /\ n < (q + 1) * TicksPerMs
  BY <1>1
<1>3. ASSUME NEW k \in Nat, k * TicksPerMs <= n PROVE k <= q
  <2> HIDE DEF q
  <2>1. ASSUME k >= q + 1 PROVE FALSE
    <3>1. k * TicksPerMs >= (q + 1) * TicksPerMs
      BY <1>1, <1>2, <2>1
    <3> QED
      BY <3>1, <1>1, <1>2, <1>3
  <2> QED
    BY <2>1, <1>2
<1> QED
  BY <1>2, <1>3

\* A stamp stays valid as the clock advances.
LEMMA StampedLater ==
  ASSUME NEW id, NEW n \in Nat, NEW n2 \in Nat, n <= n2, Stamped(id, n)
  PROVE  Stamped(id, n2)
<1>1. id.ms * TicksPerMs \in Nat
  BY ClockAssumption DEF Stamped
<1> QED
  BY <1>1 DEF Stamped

\* The stamp of a time lags behind it by less than a millisecond.
LEMMA StampLags ==
  ASSUME NEW n \in Nat
  PROVE  n - (n \div TicksPerMs) * TicksPerMs \in 0 .. TicksPerMs - 1
<1> DEFINE q == n \div TicksPerMs
<1>1. TicksPerMs \in Nat /\ TicksPerMs > 0
  BY ClockAssumption
<1>2. q \in Nat /\ q * TicksPerMs <= n /\ n < (q + 1) * TicksPerMs
  BY <1>1
<1> HIDE DEF q
<1>3. (q + 1) * TicksPerMs = q * TicksPerMs + TicksPerMs /\ q * TicksPerMs \in Nat
  BY <1>1, <1>2
<1> QED
  BY <1>1, <1>2, <1>3 DEF q

\* A stamped id passes the validator's check of a UUID.
LEMMA StampedIsUuid ==
  ASSUME NEW id, NEW time, Stamped(id, time)
  PROVE  isUuid(id, time)
  BY DEF Stamped, isUuid

===============================================================================
