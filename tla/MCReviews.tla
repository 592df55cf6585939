------------------------------ MODULE MCReviews ------------------------------
(* Small instances of Reviews: two tiers, files of a few lines. *)
EXTENDS Reviews
=============================================================================
