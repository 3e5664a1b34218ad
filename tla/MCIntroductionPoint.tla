----------------------- MODULE MCIntroductionPoint -----------------------
(* Circuits, requests and nonces are interchangeable. *)
EXTENDS IntroductionPoint, TLC

Interchangeable == Permutations(Registrations) \cup Permutations(Requests) \cup Permutations(Nonces)

==========================================================================
