------------------------------ MODULE TorClaims ------------------------------
(***************************************************************************)
(* What the documentation says of the Tor connection and TorConnection     *)
(* does not satisfy; the README describes its run's counterexample.        *)
(***************************************************************************)
EXTENDS MCTorConnection

\* "A selected Tor strategy is not shown as Connected until Tor bootstrap and
\* browser-route verification both succeed" (BUILDING.md).  A verification page
\* opened for the former transport is not closed when a strategy is applied by
\* hand, and its answer makes the new one Connected while it bootstraps.
ConnectedAfterBootstrap ==
    tor.state = "Connected" => tor.progress = "full" \/ tor.endpoint = "external"
=============================================================================
