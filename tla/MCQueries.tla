------------------------------ MODULE MCQueries ------------------------------
(* A small instance of Queries for TLC: one of the three users has no name. *)
EXTENDS Queries
CONSTANTS u1, u2, u3
MCUsers   == {u1, u2, u3}
MCNameOf  == [u \in MCUsers |-> IF u = u1 THEN "ann" ELSE IF u = u2 THEN "bob" ELSE None]
MCEmailsOf == [u \in MCUsers |-> IF u = u1 THEN {"plain", "idn"} ELSE {"plain"}]
MCSkips   == {-1, 0, 2}
MCLimits  == {Word, 0, 2, 3}
MCMinCounts == {None, Word, 0, 2, 3}
\* An answer is only read in the step that gives it: states that differ in it only are one.
MCView == <<row, now, req, newer>>
=============================================================================
