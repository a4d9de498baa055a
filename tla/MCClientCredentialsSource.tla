---------------------- MODULE MCClientCredentialsSource ----------------------
(***************************************************************************)
(* Instances of ClientCredentialsSource for TLC.  Three calls are the      *)
(* fewest with a leader, a waiter and a later leader that publishes before *)
(* the waiter reads the result.                                            *)
(***************************************************************************)
EXTENDS ClientCredentialsSource, TLC

CONSTANTS c1, c2, c3

MCCalls       == {c1, c2, c3}
MCSymmetry    == Permutations(MCCalls)
\* A token that is stale on arrival (expires_in = Skew) and one that is not.
MCLifetimes   == {1, 2}
=============================================================================
