-------------------------- MODULE DurationsProofs --------------------------
(***************************************************************************)
(* What the arithmetic of Durations does, for every width and every        *)
(* fraction of a second.                                                   *)
(***************************************************************************)
EXTENDS Durations, TLAPS

LEMMA ModuloIsBounded ==
  ASSUME NEW a \in Int, NEW b \in Int, b > 0
  PROVE  a % b \in 0 .. b - 1
OBVIOUS

LEMMA ModuloOfSmall ==
  ASSUME NEW b \in Int, NEW a \in 0 .. b - 1
  PROVE  a % b = a
OBVIOUS

LEMMA QuotientIsUnique ==
  ASSUME NEW b \in Int, b > 0, NEW q \in Int, NEW a \in q * b .. q * b + b - 1
  PROVE  a \div b = q
OBVIOUS

\* A result of Duration arithmetic is a Duration.
LEMMA WrapIsDuration ==
  ASSUME NEW d \in Int
  PROVE  Wrap(d) \in -HalfRange .. HalfRange - 1
<1>1. HalfRange \in Int /\ 2 * HalfRange > 0
  BY DurationsAreWide
<1>2. (d + HalfRange) % (2 * HalfRange) \in 0 .. 2 * HalfRange - 1
  BY <1>1, ModuloIsBounded
<1>3. QED
  BY <1>1, <1>2 DEF Wrap

\* What a Duration can hold does not wrap.
LEMMA DurationIsExact ==
  ASSUME NEW d \in -HalfRange .. HalfRange - 1
  PROVE  Wrap(d) = d
<1>1. HalfRange \in Int /\ d + HalfRange \in 0 .. 2 * HalfRange - 1
  BY DurationsAreWide
<1>2. (d + HalfRange) % (2 * HalfRange) = d + HalfRange
  BY <1>1, ModuloOfSmall
<1>3. QED
  BY <1>1, <1>2 DEF Wrap

\* A whole number of seconds is read back as it was.
LEMMA SecondsAreReadBack ==
  ASSUME NEW n \in Nat
  PROVE  ToSeconds(n * Unit) = n
<1>1. Unit \in Int /\ Unit > 0 /\ 2 * Unit > 0 /\ n * Unit \in Int
  BY DurationsAreWide
<1>2. 2 * (n * Unit) + Unit = n * (2 * Unit) + Unit
  BY <1>1
<1>3. 2 * (n * Unit) + Unit \in n * (2 * Unit) .. n * (2 * Unit) + 2 * Unit - 1
  BY <1>1, <1>2
<1>4. QED
  BY <1>1, <1>3, QuotientIsUnique DEF ToSeconds

\* More seconds are a longer time, and the other way round.
LEMMA SecondsAreMonotonic ==
  ASSUME NEW m \in Int, NEW n \in Int
  PROVE  m * Unit >= n * Unit <=> m >= n
BY DurationsAreWide
=============================================================================
