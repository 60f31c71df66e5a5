------------------------------ MODULE Interval ------------------------------
(* lclosed_interval (src/src/interval.hpp): the integers from min on, below  *)
(* max.  The code uses no other interval.                                    *)
EXTENDS Naturals

Interval(min, max) == [min |-> min, max |-> max]

contains(r, value) == r.min <= value /\ value < r.max

empty(r) == r.min >= r.max

length(r) == IF empty(r) THEN 0 ELSE r.max - r.min
=============================================================================
