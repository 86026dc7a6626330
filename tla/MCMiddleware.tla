---------------------------- MODULE MCMiddleware ----------------------------
(* A small instance of Middleware for TLC. *)
EXTENDS Middleware, TLC

CONSTANT SentIds

\* GETs with every If-None-Match; the other routes without; an id sent or not.
AllAsks ==
  {[kind |-> "get", user |-> u, tag |-> t, id |-> None] :
     u \in Users, t \in Docs \cup {Down, Star, Malformed, None}}
  \cup {[kind |-> k, user |-> u, tag |-> None, id |-> i] :
     k \in {"delete", "stats", "health"}, u \in Users, i \in SentIds}

Symmetric == Permutations(Requests)
=============================================================================
