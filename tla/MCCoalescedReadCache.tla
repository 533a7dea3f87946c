------------------------ MODULE MCCoalescedReadCache ------------------------
(* A small instance of CoalescedReadCache.                                 *)
EXTENDS CoalescedReadCache, TLC

CONSTANTS t1, t2, t3, k1, f1, f2, f3

MCThreads == {t1, t2, t3}
MCKeys == {k1}
MCFlights == {f1, f2, f3}

ThreadSymmetry == Permutations(MCThreads)
=============================================================================
