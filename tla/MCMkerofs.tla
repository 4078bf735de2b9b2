----------------------------- MODULE MCMkerofs -----------------------------
(* Two names, so that directories have children to sort. *)
EXTENDS Mkerofs

MCNameOrder == <<"a", "b">>

=============================================================================
