----------------------------- MODULE MCHashTable -----------------------------
(***************************************************************************)
(* A small hash table: four keys, whose rolling sums are computed as       *)
(* hash() computes them, from strings of small characters.  The width of   *)
(* the sum is cut from 2^32 to 2^6 so that it wraps, as a path of seven    *)
(* characters makes the real one wrap.                                     *)
(***************************************************************************)
EXTENDS HashTable, SequencesExt

CONSTANTS k1, k2, k3, k4, v1, v2

MCKey == {k1, k2, k3, k4}
MCValue == {v1, v2}

SumWidth == 64

(* hash(): sum = sum * p + *key, in 32 bits *)
RollingSum(string) == FoldLeft(LAMBDA sum, c : (sum * 31 + c) % SumWidth, 0, string)

Spelling(k) ==
  CASE k = k1 -> <<1>> [] k = k2 -> <<1, 2>> [] k = k3 -> <<3>> [] k = k4 -> <<2, 1, 1>>

MCSum == [k \in MCKey |-> RollingSum(Spelling(k))]
==============================================================================
