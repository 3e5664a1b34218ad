----------------------------- MODULE RouteGate -----------------------------
(***************************************************************************)
(* What the loopback gateway promises: a tunnel is opened only where the   *)
(* policy of the moment routes it, and a change of policy leaves open only *)
(* tunnels the new policy would open just as they are.                     *)
(*                                                                         *)
(* PrivateRoute (the manager, whose slots change the policy several times) *)
(* and GatewaySession (the handshake that opens a tunnel) both implement   *)
(* this specification.                                                     *)
(***************************************************************************)
EXTENDS GatewayPolicy

CONSTANT Conns      \* client connections

VARIABLES
    policy,         \* the policy in force
    tunnels         \* what each connection is tunnelled to

\* A connection with no tunnel.
Free == [host |-> "clearnet", route |-> NoRoute]

Tunnels == [host : Hosts, route : Routes]

TypeOK == policy \in Policies /\ tunnels \in [Conns -> Tunnels]

Routed(p, t) == t.route # NoRoute /\ RouteFor(p, t.host) = t.route

Init == policy = BlockingPolicy /\ tunnels = [c \in Conns |-> Free]

Open(c, h) ==
    /\ tunnels[c] = Free
    /\ RouteFor(policy, h) # NoRoute
    /\ tunnels' = [tunnels EXCEPT ![c] = [host |-> h, route |-> RouteFor(policy, h)]]
    /\ UNCHANGED policy

\* Any policy may be installed and any tunnel may close; those that stay open
\* are routed by the new policy.
Change ==
    /\ policy' \in Policies
    /\ tunnels' \in [Conns -> Tunnels]
    /\ \A c \in Conns : tunnels'[c] # Free =>
          tunnels'[c] = tunnels[c] /\ Routed(policy', tunnels[c])

Next == Change \/ \E c \in Conns, h \in Hosts : Open(c, h)

Spec == Init /\ [][Next]_<<policy, tunnels>>

\* Every open tunnel is one the policy in force would open the same way.
TunnelsRouted == \A c \in Conns : tunnels[c] # Free => Routed(policy, tunnels[c])

=============================================================================
