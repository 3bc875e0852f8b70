------------------------------ MODULE Versions ------------------------------
(***************************************************************************)
(* utils/version.py: comparing the dotted numbers found in version texts.  *)
(*                                                                         *)
(* A version text is kept as far as parse_version tells texts apart: the   *)
(* epoch Debian writes in front ("1:2.43.0-1"; NoEpoch when there is       *)
(* none), and the first dotted run of numbers after it, << >> when there   *)
(* is no digit.                                                            *)
(***************************************************************************)
EXTENDS Integers, Sequences

NoEpoch == -1
None == [epoch |-> NoEpoch, numbers |-> << >>]   \* no text, or one without a number

Text(numbers) == [epoch |-> NoEpoch, numbers |-> numbers]
WithEpoch(e, numbers) == [epoch |-> e, numbers |-> numbers]

\* The first run of numbers joined by dots: a colon ends it.
ParseVersion(text) == IF text.epoch # NoEpoch THEN <<text.epoch>> ELSE text.numbers

\* Names with an underscore are plausible mistakes in the definition that
\* follows them; they show that a property can fail and are used nowhere.

PaddedTo_AsIs(v, n) == v

PaddedTo(v, n) == [i \in 1 .. n |-> IF i <= Len(v) THEN v[i] ELSE 0]

Longer(v, w) == IF Len(v) < Len(w) THEN Len(w) ELSE Len(v)

\* The order of Python's tuples: the first difference decides, a prefix is smaller.
TupleLess(v, w) ==
  \/ \E i \in DOMAIN v \cap DOMAIN w :
       v[i] < w[i] /\ \A j \in 1 .. i - 1 : v[j] = w[j]
  \/ Len(v) < Len(w) /\ \A i \in DOMAIN v : v[i] = w[i]

\* -1, 0 or 1, as compare_versions of two texts with numbers.
CompareVersions(a, b) ==
  LET n == Longer(ParseVersion(a), ParseVersion(b))
      v == PaddedTo(ParseVersion(a), n)
      w == PaddedTo(ParseVersion(b), n)
  IN IF TupleLess(v, w) THEN -1 ELSE IF TupleLess(w, v) THEN 1 ELSE 0

Conclusive(installed, minimum) ==
  ParseVersion(installed) # << >> /\ ParseVersion(minimum) # << >>

BelowMinimum_OrEqual(installed, minimum) ==
  Conclusive(installed, minimum) /\ CompareVersions(installed, minimum) <= 0

\* meets_minimum has three answers: these are "is not False" and "is False".
BelowMinimum(installed, minimum) ==
  Conclusive(installed, minimum) /\ CompareVersions(installed, minimum) < 0
NotBelowMinimum(installed, minimum) == ~BelowMinimum(installed, minimum)
=============================================================================
