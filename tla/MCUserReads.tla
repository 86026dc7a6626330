----------------------------- MODULE MCUserReads -----------------------------
(* A small instance of UserReads for TLC. *)
EXTENDS UserReadsInvariant
=============================================================================
