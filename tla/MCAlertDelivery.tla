--------------------------- MODULE MCAlertDelivery ---------------------------
(* Instances of AlertDelivery for TLC. *)
EXTENDS AlertDelivery, TLC

Interchangeable == Permutations(Offers) \cup Permutations(Workers)
=============================================================================
