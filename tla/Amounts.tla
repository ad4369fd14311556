------------------------------ MODULE Amounts ------------------------------
(***************************************************************************)
(* Numbers that may be missing.  The calculations of the code take floats  *)
(* and None; here they take whole numbers and None, and a quotient is      *)
(* rounded down (the code rounds to a fixed number of decimals).           *)
(***************************************************************************)
EXTENDS Integers, SequencesExt

CONSTANTS
  None             \* a value that was never given

ASSUME MissingAssumption == None \notin Int

Known(f) == {k \in DOMAIN f : f[k] # None}

OrZero(v) == IF v = None THEN 0 ELSE v
OrElse(v, default) == IF v = None THEN default ELSE v

AtLeastZero(v) == IF v < 0 THEN 0 ELSE v
AtMost(v, cap) == IF v > cap THEN cap ELSE v
Distance(a, b) == IF a < b THEN b - a ELSE a - b

(* Figures put together: of two of one name, the first counts.  (It is the *)
(* @@ of module TLC, which provers cannot expand.)                         *)
f ++ g == [k \in DOMAIN f \union DOMAIN g |-> IF k \in DOMAIN f THEN f[k] ELSE g[k]]

Total(f, S) == MapThenSumSet(LAMBDA k : f[k], S)

(* a / b of the code where b may be nothing: no quotient then.             *)
Quotient(a, b) == IF a = None \/ b = None \/ b = 0 THEN None ELSE a \div b
Percentage(a, b) == IF a = None \/ b = None \/ b = 0 THEN None ELSE (100 * a) \div b

MeanOf(f, S) == IF S = {} THEN None ELSE Total(f, S) \div Cardinality(S)
=============================================================================
