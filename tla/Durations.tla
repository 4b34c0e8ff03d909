----------------------------- MODULE Durations ------------------------------
(***************************************************************************)
(* time.Duration: a signed integer of limited width that counts fractions  *)
(* of a second.  The width and the fraction are parameters; in the code    *)
(* they are 2^63 and 10^9.                                                 *)
(***************************************************************************)
EXTENDS Integers

CONSTANTS
  Unit,      \* time.Second
  HalfRange  \* the first number a Duration cannot hold

ASSUME DurationsAreWide == Unit \in Nat \ {0} /\ HalfRange \in Nat /\ HalfRange > Unit

\* Arithmetic wraps.
Wrap(d) == ((d + HalfRange) % (2 * HalfRange)) - HalfRange

\* time.Duration(n) * time.Second
Seconds(n) == Wrap(n * Unit)

\* The seconds of a positive Duration, to the nearest: Round(time.Second).Seconds().
ToSeconds(d) == (2 * d + Unit) \div (2 * Unit)
=============================================================================
