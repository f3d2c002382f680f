------------------------------- MODULE MC_Pool -------------------------------
(* Model-checking instance of Pool: two user threads, a pool of at most    *)
(* two connections with a floor of one, and three connection identities   *)
(* (one more than the maximum, for a connect racing a discard).           *)
EXTENDS Pool, TLC

CONSTANTS u1, u2, c1, c2, c3

MCUsers == {u1, u2}
MCConns == {c1, c2, c3}

(* Users and connections are interchangeable; used by the safety-only run. *)
Symm == Permutations(MCUsers) \cup Permutations(MCConns)

=============================================================================
