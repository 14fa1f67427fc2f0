--------------------------- MODULE MCControlChannel ---------------------------
(***************************************************************************)
(* Instances for TLC: two sockets of one user or of two, one team of that   *)
(* user or one of each, and the inputs the sockets send.                    *)
(***************************************************************************)
EXTENDS ControlChannel, TLC

CONSTANTS u1, u2, s1, s2, t1, t2

PlayersUserOf == (s1 :> u1) @@ (s2 :> u2)
PlayersOwner == (t1 :> u1) @@ (t2 :> u2)

DevicesUserOf == [s \in Sockets |-> u1]
DevicesOwner == [t \in Teams |-> IF t = t1 THEN u1 ELSE NoUser]

Walk == {"move_left"}
=============================================================================
