-------------------------- MODULE MCGatewaySession --------------------------
(* Constants for checking GatewaySession: connections are interchangeable. *)
EXTENDS GatewaySession, TLC

ConnSymmetry == Permutations(Conns)

=============================================================================
