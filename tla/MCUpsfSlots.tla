----------------------------- MODULE MCUpsfSlots -----------------------------
EXTENDS UpsfSlots, TLC

(* Threads, pthread_ts, slots and addresses are interchangeable; none is   *)
(* singled out by Init or Next.                                            *)
Symmetry == Permutations(Threads) \cup Permutations(Tids)
                \cup Permutations(Slots) \cup Permutations(Addrs)
=============================================================================
