----------------------------- MODULE MCSandbox -----------------------------
(* A small instance of SandboxRunner for TLC. *)
EXTENDS SandboxInvariant
=============================================================================
