---------------------------- MODULE MCStatusPush ----------------------------
(* Model-checking instance of StatusPush: two addresses besides a nil IP,  *)
(* three environment updates (enough for an address change after the      *)
(* connection and the local curator appeared) and two failures.           *)
EXTENDS StatusPush

CONSTANTS a1, a2

MCAddrs == {a1, a2}

=============================================================================
