---------------------------- MODULE ThreeValued ----------------------------
(* SQL's logic of true, false and unknown, and comparisons of values of    *)
(* which one may be NULL.                                                  *)
EXTENDS Naturals

Null == 0  \* NULL, None, a missing field, no reference; no value equals it

Truth(b) == IF b THEN "true" ELSE "false"
Not3(x) == IF x = "true" THEN "false" ELSE IF x = "false" THEN "true" ELSE "unknown"
And3(x, y) == IF "false" \in {x, y} THEN "false" ELSE IF "unknown" \in {x, y} THEN "unknown" ELSE "true"
Or3(x, y) == Not3(And3(Not3(x), Not3(y)))

Holds(rel, x, y) ==
  CASE rel = "=" -> x = y [] rel = "!=" -> x # y [] rel = "<" -> x < y [] rel = ">=" -> x >= y
    [] rel = "<=" -> x <= y [] rel = ">" -> x > y
Compared(rel, x, y) == IF Null \in {x, y} THEN "unknown" ELSE Truth(Holds(rel, x, y))
=============================================================================
