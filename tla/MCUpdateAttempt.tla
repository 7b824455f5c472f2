--------------------------- MODULE MCUpdateAttempt ----------------------------
(* Small instances of UpdateAttempt for TLC. *)
EXTENDS UpdateAttempt, TLC

CONSTANTS u1, u2

\* Both flavours of the ladder over two updaters.
Ladders == (u1 :> <<"store">>) @@ (u2 :> <<"appinstall", "helper">>)
=============================================================================
