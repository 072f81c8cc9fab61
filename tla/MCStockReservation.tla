------------------------- MODULE MCStockReservation -------------------------
(***************************************************************************)
(* Model-checking instance of StockReservation: orders and variants are    *)
(* interchangeable.                                                        *)
(***************************************************************************)
EXTENDS StockReservation, TLC

Symmetry == Permutations(Orders) \cup Permutations(Variants)
=============================================================================
