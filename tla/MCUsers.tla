------------------------------- MODULE MCUsers -------------------------------
(* Small instances of Users for TLC. *)
EXTENDS UsersInvariant, TLC

\* One account and every route but the lookups by email that only read.
RowOffered == Kinds \ {"get_by_email"}
RowBodies  == {[active |-> TRUE], [active |-> FALSE]}

\* Routes of every step, and PUT bodies of every shape: changed, unset, null.
LiveOffered == Kinds \ {"get", "delete"}
LiveBodies  == {[active |-> Null]} \cup
               {[email |-> e, active |-> FALSE] : e \in Emails}

Symmetric == Permutations(Requests) \cup Permutations(Ids) \cup Permutations(Emails)
=============================================================================
