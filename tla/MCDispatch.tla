------------------------------- MODULE MCDispatch -------------------------------
(* Dispatch for TLC: a pool with room for two closures, so that it runs out. *)
EXTENDS Dispatch

CONSTANTS a1, a2, m1

MCKinds == {"control"}
MCClosureWords == [kind \in MCKinds |-> 3]
MCAsyncs == {a1, a2}
MCMessages == {m1}

\* A larger pool than the run's, with requests of several sizes: what n operations
\* of the allocator can make of it.  An ASSUME is evaluated before the run.
Large == INSTANCE Tlsf WITH PoolWords <- 24, SlLog2 <- 2
Sizes == {1, 4, 5, 9}
PoolsAfter[n \in 0..6] ==
    IF n = 0 THEN {Large!Create}
    ELSE PoolsAfter[n - 1]
         \cup {Large!Malloc(p, s) : <<p, s>> \in
                  {x \in PoolsAfter[n - 1] \X Sizes : Large!Located(x[1], x[2]) # Large!NoBlock}}
         \cup UNION {{Large!FreeBlock(p, b) : b \in Large!Used(p)} : p \in PoolsAfter[n - 1]}

ASSUME LargePoolSound == \A p \in PoolsAfter[6] : Large!Partition(p) /\ Large!ListsAccurate(p)

================================================================================
