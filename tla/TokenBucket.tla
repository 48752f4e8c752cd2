---------------------------- MODULE TokenBucket ----------------------------
(***************************************************************************)
(* What a rate limiter promises: a bucket of tokens that a clock fills.    *)
(* Every Interval ticks Rate is added, up to Capacity; a grant takes Unit  *)
(* and asks only that something is left.  Unit is one token; Rate and      *)
(* Capacity count in the same fractions of a token.                        *)
(***************************************************************************)
EXTENDS Integers

CONSTANTS Capacity, Rate, Interval, Unit

VARIABLES level,  \* what is in the bucket
          phase   \* ticks since it was last filled

bucketVars == <<level, phase>>

Init == level = Capacity /\ phase = 0

Lower(a, b) == IF a < b THEN a ELSE b

Wait == phase + 1 < Interval /\ phase' = phase + 1 /\ UNCHANGED level

Fill == /\ phase + 1 = Interval
        /\ phase' = 0
        /\ level' = Lower(Capacity, level + Rate)

Grant == level > 0 /\ level' = level - Unit /\ UNCHANGED phase

Reset == level' = Capacity /\ phase' = 0

Next == Wait \/ Fill \/ Grant \/ Reset

Spec == Init /\ [][Next]_bucketVars
=============================================================================
