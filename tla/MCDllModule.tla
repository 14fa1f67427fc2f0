----------------------------- MODULE MCDllModule -----------------------------
(***************************************************************************)
(* Instance for TLC: two builds of WA, the second with its code moved and   *)
(* without two of the functions, and three socket numbers, so that one      *)
(* given up can be given out again.  A byte is a string.                    *)
(***************************************************************************)
EXTENDS DllModule, TLC

CONSTANTS b1, b2

MCBytes == {"push", "mov", "ret", "I", "C", "D", "T", "A"}

\* Each signature ends in the byte that tells it from the others.
MCPattern ==
  ("InitializeW2App" :> <<"push", Wild, "I">>) @@
  ("ConstructGameGlobal" :> <<"push", "C">>) @@
  ("DestroyGameGlobal" :> <<"push", Wild, "D">>) @@
  ("CTurnGameHandleMessage" :> <<"push", "T">>) @@
  ("ReadAmmoFromWAM" :> <<Wild, "A">>)

MCImage ==
  (b1 :> <<"push", "C", "push", "mov", "I", "push", "T", "push", "ret", "D", "ret", "A">>) @@
  (b2 :> <<"push", "mov", "I", "push", "mov", "D", "push", "C">>)

MCHome ==
  (b1 :> (("InitializeW2App" :> 3) @@ ("ConstructGameGlobal" :> 1) @@
          ("DestroyGameGlobal" :> 8) @@ ("CTurnGameHandleMessage" :> 6) @@
          ("ReadAmmoFromWAM" :> 11))) @@
  (b2 :> (("InitializeW2App" :> 1) @@ ("ConstructGameGlobal" :> 7) @@
          ("DestroyGameGlobal" :> 4) @@ ("CTurnGameHandleMessage" :> 0) @@
          ("ReadAmmoFromWAM" :> 0)))
=============================================================================
