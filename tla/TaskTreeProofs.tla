---------------------------- MODULE TaskTreeProofs ----------------------------
(***************************************************************************)
(* What TaskTree.tla claims of a frame, for any teams and any set of trees: *)
(* the worm that gets a weapon, the snapshot that is kept, the cells of the *)
(* ammo table.  Every step is one of InputDispatch.tla with "ready" decided *)
(* by the tree, so what InputDispatchProofs.tla proves holds here, too.     *)
(***************************************************************************)
EXTENDS TaskTree, InputDispatchProofs, WellFoundedInduction, TLAPS

\* A nonempty set of naturals has a least member, and Least takes it.
LEMMA LeastIsLeast ==
  ASSUME NEW P, P \subseteq Nat, P # {}
  PROVE  Least(P) \in P /\ \A j \in P : Least(P) <= j
<1> DEFINE Less == {ss \in Nat \X Nat : ss[1] < ss[2]}
<1>1. IsWellFoundedOn(Less, Nat)
  BY NatLessThanWellFounded DEF OpToRel
<1>2. ASSUME NEW i \in P, NEW j \in P, ~ (<<j, i>> \in Less)
      PROVE  i <= j
  <2>1. <<j, i>> \in Nat \X Nat /\ i \in Nat /\ j \in Nat
    OBVIOUS
  <2> QED
    BY <1>2, <2>1
<1> HIDE DEF Less
<1>3. PICK i \in P : \A j \in P : ~ (<<j, i>> \in Less)
  BY <1>1, WFMin
<1>4. \A j \in P : i <= j
  BY <1>2, <1>3
<1> QED
  BY <1>4 DEF Least

-----------------------------------------------------------------------------
(* A step of the tree model is a step of the model it refines.               *)

LEMMA TreeStep == [TreeNext]_treeVars => [Next]_vars
<1> SUFFICES ASSUME TreeNext
             PROVE  Next
  BY DEF treeVars
<1>1. CASE Frames
  <2>1. PICK tree \in Trees, table \in BOOLEAN : TreeFrame(tree, table)
    BY <1>1 DEF Frames
  <2>2. (table /\ Holders(tree) # {}) \in BOOLEAN
    OBVIOUS
  <2> QED
    BY <2>1, <2>2 DEF TreeFrame, Next
<1>2. CASE TreeTearDown
  BY <1>2 DEF TreeTearDown, Next
<1>3. CASE OtherStep
  BY <1>3 DEF OtherStep, Next
<1> QED
  BY <1>1, <1>2, <1>3 DEF TreeNext

(* Whatever trees the frames find, the DLL's input path is the one           *)
(* InputDispatch.tla describes (onFrame, ControlHooks.cpp).                  *)
THEOREM TreeImplementsDispatch == TreeSpec => Spec
<1>1. TreeInit => Init
  BY DEF TreeInit
<1> QED
  BY <1>1, TreeStep, PTL DEF TreeSpec, Spec

\* The whole invariant of the input path, in the tree model.
LEMMA DispatchInvariance == TreeSpec => []Inv
  BY TreeImplementsDispatch, Invariance, PTL

-----------------------------------------------------------------------------
(* Which worm a frame arms.                                                  *)

\* Positions are naturals.
LEMMA Positions ==
  ASSUME NEW tree \in Seq(TeamTasks)
  PROVE  /\ \A i \in DOMAIN tree : /\ i \in Nat
                                  /\ tree[i].number \in Teams
                                  /\ tree[i].worms \in Seq(Worms)
         /\ \A i \in DOMAIN tree : \A j \in DOMAIN tree[i].worms :
              /\ j \in Nat
              /\ tree[i].worms[j].number \in Nat
              /\ tree[i].worms[j].active \in BOOLEAN
<1>1. ASSUME NEW i \in DOMAIN tree
      PROVE  /\ i \in Nat
             /\ tree[i].number \in Teams
             /\ tree[i].worms \in Seq(Worms)
  <2>1. tree[i] \in TeamTasks /\ i \in Nat
    OBVIOUS
  <2> QED
    BY <2>1 DEF TeamTasks
<1>2. ASSUME NEW i \in DOMAIN tree, NEW j \in DOMAIN tree[i].worms
      PROVE  /\ j \in Nat
             /\ tree[i].worms[j].number \in Nat
             /\ tree[i].worms[j].active \in BOOLEAN
  <2>1. tree[i].worms \in Seq(Worms)
    BY <1>1
  <2>2. tree[i].worms[j] \in Worms /\ j \in Nat
    BY <2>1
  <2> QED
    BY <2>2 DEF Worms
<1> QED
  BY <1>1, <1>2

\* Where there is a holder, the worm found stands in one of its tasks.
LEMMA FoundWorm ==
  ASSUME NEW tree \in Seq(TeamTasks), Holders(tree) # {}
  PROVE  \E i \in DOMAIN tree :
           /\ tree[i].number = turnTeam
           /\ \E j \in Candidates(tree[i]) :
                FindActiveTurnWorm(tree) = tree[i].worms[j]
<1>1. Holders(tree) \subseteq Nat
  BY Positions DEF Holders, TasksOf
<1>2. PICK i \in Holders(tree) : i = Least(Holders(tree))
  BY <1>1, LeastIsLeast
<1>3. i \in DOMAIN tree /\ tree[i].number = turnTeam /\ Candidates(tree[i]) # {}
  BY DEF Holders, TasksOf
<1>4. Candidates(tree[i]) \subseteq Nat
  BY <1>3, Positions DEF Candidates, CurrentWorms, ActiveWorms
<1>5. Least(Candidates(tree[i])) \in Candidates(tree[i])
  BY <1>3, <1>4, LeastIsLeast
<1> QED
  BY <1>2, <1>3, <1>5 DEF FindActiveTurnWorm

\* A candidate is a worm a reader of the tree may name, and there is one if there
\* is such a worm.
LEMMA CandidatesMayArm ==
  ASSUME NEW tree \in Seq(TeamTasks), NEW i \in DOMAIN tree,
         tree[i].number = turnTeam
  PROVE  \A j \in Candidates(tree[i]) : tree[i].worms[j] \in MayArm(tree, turnTeam)
<1> SUFFICES ASSUME NEW j \in Candidates(tree[i])
             PROVE  tree[i].worms[j] \in MayArm(tree, turnTeam)
  OBVIOUS
<1> DEFINE worms == {tree[i].worms[k] : k \in DOMAIN tree[i].worms}
           w == tree[i].worms[j]
<1>1. j \in DOMAIN tree[i].worms
  BY DEF Candidates, CurrentWorms, ActiveWorms
<1>2. w \in worms
  BY <1>1
<1>3. w \in UNION {{tree[k].worms[l] : l \in DOMAIN tree[k].worms} : k \in DOMAIN tree}
  BY <1>2
<1>4. \/ w.number = tree[i].current
      \/ w.active /\ \A v \in worms : v.number # tree[i].current
  BY DEF Candidates, CurrentWorms, ActiveWorms
<1> QED
  BY <1>2, <1>3, <1>4 DEF MayArm

LEMMA MayArmHasHolder ==
  ASSUME NEW tree \in Seq(TeamTasks), MayArm(tree, turnTeam) # {}
  PROVE  Holders(tree) # {}
<1>1. PICK w \in MayArm(tree, turnTeam), i \in DOMAIN tree :
         /\ tree[i].number = turnTeam
         /\ w \in {tree[i].worms[j] : j \in DOMAIN tree[i].worms}
         /\ w.number = tree[i].current \/ w.active
  BY DEF MayArm
<1>2. PICK j \in DOMAIN tree[i].worms : w = tree[i].worms[j]
  BY <1>1
<1>3. Candidates(tree[i]) # {}
  BY <1>1, <1>2 DEF Candidates, CurrentWorms, ActiveWorms
<1> QED
  BY <1>1, <1>3 DEF Holders, TasksOf

\* When a frame tells WA of a weapon.
LEMMA WeaponMessage ==
  ASSUME state \in ControlStates, NEW ready \in BOOLEAN
  PROVE  "select_weapon" \in FrameMessages(ready)
           <=> /\ GameLive
               /\ state.select_weapon \in Weapons
               /\ turnTeam # NoTeam
               /\ ready
<1>1. state.held \subseteq HeldActions
  BY DEF ControlStates
<1> QED
  BY <1>1 DEF FrameMessages, Dispatched, WeaponMessages, FireMessages, HeldActions, Weapons

\* Only a frame arms a worm.
LEMMA ArmedByFrame ==
  ASSUME TreeNext, ~Frames
  PROVE  armed' = {}
  BY DEF TreeNext, TreeTearDown, OtherStep

\* What a step arms, where it is allowed to and when it has to.
LEMMA StepArms ==
  ASSUME Inv, TreeNext
  PROVE  /\ \A a \in armed' :
              /\ \E w \in MayArm(found'.tree, turnTeam) : w.number = a.worm
              /\ a.weapon = state.select_weapon
              /\ "select_weapon" \in out'
         /\ (/\ Frames /\ GameLive /\ state.select_weapon \in Weapons
             /\ found'.table /\ MayArm(found'.tree, turnTeam) # {})
              => armed' # {}
<1>1. state \in ControlStates
  BY DEF Inv, TypeInv, TypeOK, HooksTypeOK
<1>2. CASE ~Frames
  BY <1>2, ArmedByFrame
<1>3. CASE Frames
  <2>1. PICK tree \in Trees, table \in BOOLEAN : TreeFrame(tree, table)
    BY <1>3 DEF Frames
  <2> DEFINE ready == table /\ Holders(tree) # {}
  <2>2. /\ ready \in BOOLEAN
        /\ out' = FrameMessages(ready)
        /\ found'.tree = tree /\ found'.table = table
        /\ armed' = Arms(tree, ready)
    BY <2>1 DEF TreeFrame, Frame
  <2>3. tree \in Seq(TeamTasks)
    BY TreesAssumption
  <2>4. "select_weapon" \in out'
          <=> GameLive /\ state.select_weapon \in Weapons /\ turnTeam # NoTeam /\ ready
    BY <1>1, <2>2, WeaponMessage
  <2>5. armed' = IF "select_weapon" \in out'
                 THEN {[worm |-> FindActiveTurnWorm(tree).number,
                        weapon |-> state.select_weapon]}
                 ELSE {}
    BY <2>2 DEF Arms
  <2>6. Holders(tree) # {} =>
          \E w \in MayArm(tree, turnTeam) : w = FindActiveTurnWorm(tree)
    <3> SUFFICES ASSUME Holders(tree) # {}
                 PROVE  \E w \in MayArm(tree, turnTeam) : w = FindActiveTurnWorm(tree)
      OBVIOUS
    <3>1. PICK i \in DOMAIN tree :
             /\ tree[i].number = turnTeam
             /\ \E j \in Candidates(tree[i]) : FindActiveTurnWorm(tree) = tree[i].worms[j]
      BY <2>3, FoundWorm
    <3>2. PICK j \in Candidates(tree[i]) : FindActiveTurnWorm(tree) = tree[i].worms[j]
      BY <3>1
    <3> QED
      BY <2>3, <3>1, <3>2, CandidatesMayArm
  <2>7. MayArm(tree, turnTeam) # {} => Holders(tree) # {} /\ turnTeam # NoTeam
    <3>1. MayArm(tree, turnTeam) # {} => \E i \in DOMAIN tree : tree[i].number = turnTeam
      BY DEF MayArm
    <3> QED
      BY <2>3, <3>1, MayArmHasHolder, Positions, NoTeamAssumption
  <2>8. ASSUME NEW a \in armed'
        PROVE  /\ \E w \in MayArm(found'.tree, turnTeam) : w.number = a.worm
               /\ a.weapon = state.select_weapon
               /\ "select_weapon" \in out'
    <3>1. "select_weapon" \in out'
      BY <2>5
    <3>2. a = [worm |-> FindActiveTurnWorm(tree).number, weapon |-> state.select_weapon]
      BY <2>5, <3>1
    <3>3. \E w \in MayArm(tree, turnTeam) : w = FindActiveTurnWorm(tree)
      BY <2>4, <2>6, <3>1
    <3> QED
      BY <2>2, <3>1, <3>2, <3>3
  <2>9. ASSUME GameLive, state.select_weapon \in Weapons,
               found'.table, MayArm(found'.tree, turnTeam) # {}
        PROVE  armed' # {}
    <3>1. "select_weapon" \in out'
      BY <2>2, <2>4, <2>7, <2>9
    <3> QED
      BY <2>5, <3>1
  <2> QED
    BY <2>8, <2>9
<1> QED
  BY <1>2, <1>3

(* Only the turn team's worm gets a weapon, whatever tree a frame finds       *)
(* (findActiveTurnWorm, applyWeapon).                                         *)
THEOREM WeaponsGoToTheTurnWorm == TreeSpec => ArmsTheTurnWorm
<1>1. Inv /\ [TreeNext]_treeVars
        => [\A a \in armed' :
              /\ \E w \in MayArm(found'.tree, turnTeam) : w.number = a.worm
              /\ a.weapon = state.select_weapon
              /\ "select_weapon" \in out']_treeVars
  BY StepArms
<1> QED
  BY <1>1, DispatchInvariance, PTL DEF TreeSpec, ArmsTheTurnWorm

(* A request is lost only for want of a weapon table, a turn or a worm.       *)
THEOREM RequestsArmAWorm == TreeSpec => WeaponReachesWorm
<1>1. Inv /\ [TreeNext]_treeVars
        => [(/\ Frames /\ GameLive /\ state.select_weapon \in Weapons
             /\ found'.table /\ MayArm(found'.tree, turnTeam) # {})
              => armed' # {}]_treeVars
  BY StepArms
<1> QED
  BY <1>1, DispatchInvariance, PTL DEF TreeSpec, WeaponReachesWorm

-----------------------------------------------------------------------------
(* Types.                                                                     *)

\* The types TaskTree.tla adds to those of InputDispatch.tla.
TreeTypes ==
  /\ ammo \in {"untried", "found", "failed"}
  /\ published \in Snapshots
  /\ found.tree \in Seq(TeamTasks) /\ found.table \in BOOLEAN
  /\ armed \subseteq [worm : Nat, weapon : Weapons]

LEMMA NoSnapshotType == NoSnapshot \in Snapshots
<1>1. <<>> \in Seq(TeamTasks)
  OBVIOUS
<1>2. 0 \in 0 .. MaxGames
  BY MaxGamesAssumption
<1> QED
  BY <1>1, <1>2 DEF NoSnapshot, Snapshots

\* The worm found has a number.
LEMMA FoundWormType ==
  ASSUME NEW tree \in Seq(TeamTasks), Holders(tree) # {}
  PROVE  FindActiveTurnWorm(tree).number \in Nat
<1>1. PICK i \in DOMAIN tree :
         \E j \in Candidates(tree[i]) : FindActiveTurnWorm(tree) = tree[i].worms[j]
  BY FoundWorm
<1>2. PICK j \in DOMAIN tree[i].worms : FindActiveTurnWorm(tree) = tree[i].worms[j]
  BY <1>1 DEF Candidates, CurrentWorms, ActiveWorms
<1> QED
  BY <1>2, Positions

LEMMA NextTreeTypes ==
  ASSUME Inv, TreeTypes, [TreeNext]_treeVars
  PROVE  TreeTypes'
<1> USE DEF TreeTypes
<1>0. TypeOK /\ state \in ControlStates
  BY DEF Inv, TypeInv, TypeOK, HooksTypeOK
<1>1. CASE Frames
  <2>1. PICK tree \in Trees, table \in BOOLEAN : TreeFrame(tree, table)
    BY <1>1 DEF Frames
  <2> DEFINE ready == table /\ Holders(tree) # {}
  <2>2. tree \in Seq(TeamTasks)
    BY TreesAssumption
  <2>3. /\ ready \in BOOLEAN
        /\ ScansAmmo
        /\ published' = Snapshot(tree, ammo')
        /\ found' = [tree |-> tree, table |-> table]
        /\ armed' = Arms(tree, ready)
    BY <2>1 DEF TreeFrame
  <2>4. ammo' \in {"untried", "found", "failed"}
    BY <2>3 DEF ScansAmmo
  <2>5. published' \in Snapshots
    <3>1. <<>> \in Seq(TeamTasks)
      OBVIOUS
    <3>2. gameId \in 0 .. MaxGames /\ turnTeam \in Teams \cup {NoTeam}
      BY <1>0 DEF TypeOK, HooksTypeOK
    <3>3. (IF ammo' = "found" THEN turnTeam ELSE NoTeam) \in Teams \cup {NoTeam}
      BY <3>2
    <3>4. CASE GameLive
      BY <2>2, <2>3, <3>2, <3>3, <3>4 DEF Snapshot, Snapshots
    <3>5. CASE ~GameLive
      BY <2>3, <3>1, <3>2, <3>5 DEF Snapshot, Snapshots
    <3> QED
      BY <3>4, <3>5
  <2>6. armed' \subseteq [worm : Nat, weapon : Weapons]
    <3>1. CASE "select_weapon" \in FrameMessages(ready)
      <4>1. state.select_weapon \in Weapons /\ Holders(tree) # {}
        BY <1>0, <2>3, <3>1, WeaponMessage
      <4>2. FindActiveTurnWorm(tree).number \in Nat
        BY <2>2, <4>1, FoundWormType
      <4> QED
        BY <2>3, <4>1, <4>2 DEF Arms
    <3>2. CASE "select_weapon" \notin FrameMessages(ready)
      BY <2>3, <3>2 DEF Arms
    <3> QED
      BY <3>1, <3>2
  <2> QED
    BY <2>2, <2>3, <2>4, <2>5, <2>6
<1>2. CASE TreeTearDown
  BY <1>2, NoSnapshotType DEF TreeTearDown
<1>3. CASE OtherStep
  BY <1>3 DEF OtherStep
<1>4. CASE UNCHANGED treeVars
  BY <1>4 DEF treeVars
<1> QED
  BY <1>1, <1>2, <1>3, <1>4 DEF TreeNext

\* No snapshot outlives its game (publishSnapshot, onGameTornDown).
PublishedIsCurrent ==
  published.round_active => GameLive /\ published.game_id = gameId

LEMMA NextPublished ==
  ASSUME PublishedIsCurrent, [TreeNext]_treeVars
  PROVE  PublishedIsCurrent'
<1> USE DEF PublishedIsCurrent, GameLive
<1>1. CASE Frames
  BY <1>1 DEF Frames, TreeFrame, Frame, OnFrame, Snapshot
<1>2. CASE TreeTearDown
  BY <1>2 DEF TreeTearDown, NoSnapshot
<1>3. CASE OtherStep
  BY <1>3 DEF OtherStep, NoTurnMessage, InitializeW2App, ConstructGameGlobal,
              DestroyReturns, TurnMessage, FinishTurn, StartTurn, Command, HandleCommand
<1>4. CASE UNCHANGED treeVars
  BY <1>4 DEF treeVars, vars, hookVars
<1> QED
  BY <1>1, <1>2, <1>3, <1>4 DEF TreeNext

(* Types of the whole path; a weapon that reaches a worm has one of WA's 70   *)
(* ids, so the entry pointer applyWeapon() writes lies in the table.          *)
THEOREM TreeTypeCorrect == TreeSpec => []TreeTypeOK
<1>1. TreeInit => TreeTypes
  <2>1. <<>> \in Seq(TeamTasks)
    OBVIOUS
  <2> QED
    BY <2>1, NoSnapshotType DEF TreeInit, TreeTypes
<1>2. TreeInit => PublishedIsCurrent
  BY DEF TreeInit, NoSnapshot, PublishedIsCurrent
<1>3. Inv /\ TreeTypes /\ PublishedIsCurrent => TreeTypeOK
  BY DEF Inv, TypeInv, TreeTypes, PublishedIsCurrent, TreeTypeOK
<1> QED
  BY <1>1, <1>2, <1>3, NextTreeTypes, NextPublished, DispatchInvariance, PTL DEF TreeSpec

-----------------------------------------------------------------------------
(* The ammo table: for any teams WA may number, no cell is read for two of    *)
(* them, for two weapons, or once as ammo and once as a delay                 *)
(* (readTurnTeamWeapons).                                                     *)
THEOREM AmmoCellsAreApart ==
  ASSUME NEW teams, teams \subseteq Nat
  PROVE  CellsAreApart(teams)
<1> SUFFICES ASSUME NEW t \in teams, NEW u \in teams,
                    NEW v \in Weapons, NEW w \in Weapons
             PROVE  /\ AmmoCell(t, v) # DelayCell(u, w)
                    /\ AmmoCell(t, v) = AmmoCell(u, w) => t = u /\ v = w
                    /\ DelayCell(t, v) = DelayCell(u, w) => t = u /\ v = w
  BY DEF CellsAreApart
<1>1. t \in Nat /\ u \in Nat /\ v \in 1 .. 70 /\ w \in 1 .. 70
  BY DEF Weapons
<1> QED
  BY <1>1 DEF AmmoCell, DelayCell
=============================================================================
