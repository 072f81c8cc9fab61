--------------------------- MODULE MCOrderSystem ---------------------------
(***************************************************************************)
(* Model-checking instance of OrderSystem: requests are interchangeable,   *)
(* and so are the Stripe sessions.                                         *)
(***************************************************************************)
EXTENDS OrderSystem, TLC

Symmetry == Permutations(Procs) \cup Permutations(Sessions)

StockSymmetry == Permutations(Procs) \cup Permutations(Sessions)
                 \cup Permutations(Orders)
=============================================================================
