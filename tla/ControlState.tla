----------------------------- MODULE ControlState -----------------------------
(***************************************************************************)
(* The held-input state the DLL keeps between its IPC thread, which applies *)
(* press and release edges, and the game thread, which reads it once per    *)
(* frame (src/dll/src/ControlState.h, ControlState.cpp).  The five booleans *)
(* of Snapshot that are levels are one set, "held"; the two one-shots keep  *)
(* a field each.  Every operation runs under one mutex, so each is a        *)
(* function from a state to a state.                                        *)
(***************************************************************************)
EXTENDS Integers

HeldActions == {"move_left", "move_right", "aim_up", "aim_down", "fire"}

OneShotActions == {"select_weapon", "jump"}

Actions == HeldActions \cup OneShotActions

Phases == {"press", "release"}

NoWeapon == -1

ControlStates ==
  [held : SUBSET HeldActions, select_weapon : Int, jump : BOOLEAN]

\* Snapshot{}: also what clear() leaves behind.
EmptyState == [held |-> {}, select_weapon |-> NoWeapon, jump |-> FALSE]

(* Variants used as mutants: a one-shot tracked as a level, a release that    *)
(* takes back a jump, and one-shots that survive the read.                    *)
ApplyAllAsLevels(s, action, phase, value) ==
  [s EXCEPT !.held = IF phase = "press" THEN @ \cup {action} ELSE @ \ {action}]

ApplyReleaseDropsJump(s, action, phase, value) ==
  LET pressed == IF phase = "press" THEN {action} ELSE {}
  IN  [held          |-> (s.held \ {action}) \cup (pressed \cap HeldActions),
       select_weapon |-> IF "select_weapon" \in pressed THEN value
                                                        ELSE s.select_weapon,
       jump          |-> IF action = "jump" THEN phase = "press" ELSE s.jump]

ConsumeNothing(s) == s

\* ControlState::apply: a level follows the phase of its last edge, a
\* one-shot is set by a press and does not see a release.
ApplyEdge(s, action, phase, value) ==
  LET pressed == IF phase = "press" THEN {action} ELSE {}
  IN  [held          |-> (s.held \ {action}) \cup (pressed \cap HeldActions),
       select_weapon |-> IF "select_weapon" \in pressed THEN value
                                                        ELSE s.select_weapon,
       jump          |-> s.jump \/ "jump" \in pressed]

\* What ControlState::read leaves in place of the state it copies.
ConsumeOneShots(s) == [s EXCEPT !.select_weapon = NoWeapon, !.jump = FALSE]

\* Every input the state still asks the game thread to act on.
Requested(s) ==
  s.held \cup {a \in {"jump"} : s.jump}
         \cup {a \in {"select_weapon"} : s.select_weapon # NoWeapon}
=============================================================================
