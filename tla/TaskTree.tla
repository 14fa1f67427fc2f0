------------------------------- MODULE TaskTree -------------------------------
(***************************************************************************)
(* A frame and the game memory it reads: the tree of task objects under the *)
(* turn-game task, the weapon table and the ammo table                      *)
(* (src/dll/src/ControlHooks.cpp, entities/CTask*.h).  InputDispatch leaves *)
(* open in each frame whether a weapon request finds its worm ("ready");    *)
(* here that follows from what traverse() meets.                            *)
(*                                                                          *)
(* WA owns that memory and changes it between frames as it likes, so each   *)
(* frame finds some member of Trees: the Team tasks in the order of a       *)
(* traversal, each with the children that are not null.  Fields nothing     *)
(* decides on (positions, timers, owners) are left out.                     *)
(***************************************************************************)
EXTENDS InputDispatch, Sequences

CONSTANT Trees   \* the trees a frame may find

Worms == [number : Nat, active : BOOLEAN]
TeamTasks == [number : Teams, current : Nat, worms : Seq(Worms)]

ASSUME TreesAssumption == Trees \subseteq Seq(TeamTasks)

VARIABLES
  ammo,       \* g_ammoScanTried and g_ammoTable: "untried", "found" or "failed"
  published,  \* g_snapshot
  found,      \* history: the tree of the last frame, and whether it had a weapon table
  armed       \* history: the worm that frame gave a weapon, as a set of at most one

treeVars == <<vars, ammo, published, found, armed>>

-----------------------------------------------------------------------------
(* findActiveTurnWorm(), over positions: a traversal meets the least first.  *)

Least(positions) == CHOOSE i \in positions : \A j \in positions : i <= j

CurrentWorms(team) ==
  {i \in DOMAIN team.worms : team.worms[i].number = team.current}

ActiveWorms(team) == {i \in DOMAIN team.worms : team.worms[i].active}

\* Variant used as a mutant: an active worm before the current one.
CandidatesActiveFirst(team) ==
  IF ActiveWorms(team) # {} THEN ActiveWorms(team) ELSE CurrentWorms(team)

\* The current worm by its number, else those flagged active.
Candidates(team) ==
  IF CurrentWorms(team) # {} THEN CurrentWorms(team) ELSE ActiveWorms(team)

TasksOf(tree, team) == {i \in DOMAIN tree : tree[i].number = team}

\* Variant used as a mutant: the first Team task of the number decides.
HoldersFirstOnly(tree) ==
  {i \in TasksOf(tree, turnTeam) :
     Candidates(tree[i]) # {} /\ \A j \in TasksOf(tree, turnTeam) : i <= j}

\* The Team tasks of the turn team that have one to offer; none without a turn.
Holders(tree) == {i \in TasksOf(tree, turnTeam) : Candidates(tree[i]) # {}}

FindActiveTurnWorm(tree) ==
  LET team == tree[Least(Holders(tree))]
  IN  team.worms[Least(Candidates(team))]

-----------------------------------------------------------------------------
(* The ammo table: shorts, 143 to a team; the delay of a weapon is 142 bytes *)
(* after its ammo.                                                           *)

Weapons == 1 .. 70

AmmoCell(team, weapon) == weapon + 143 * team

DelayCell(team, weapon) == AmmoCell(team, weapon) + 71

\* resolveAmmoTable(): one scan in the life of the DLL, when a turn first needs it.
ScansAmmo ==
  IF ammo = "untried" /\ GameLive /\ turnTeam # NoTeam
  THEN ammo' \in {"found", "failed"}
  ELSE UNCHANGED ammo

\* buildSnapshot(): nothing but the game id without a game; the weapons are those
\* of the turn team.
Snapshot(tree, table) ==
  IF GameLive
  THEN [game_id |-> gameId, round_active |-> TRUE, turn_team |-> turnTeam,
        teams |-> tree, weapons |-> IF table = "found" THEN turnTeam ELSE NoTeam]
  ELSE [game_id |-> gameId, round_active |-> FALSE, turn_team |-> NoTeam,
        teams |-> <<>>, weapons |-> NoTeam]

\* GameSnapshot{}.
NoSnapshot == [game_id |-> 0, round_active |-> FALSE, turn_team |-> NoTeam,
               teams |-> <<>>, weapons |-> NoTeam]

-----------------------------------------------------------------------------
TreeInit ==
  /\ Init
  /\ ammo = "untried"
  /\ published = NoSnapshot
  /\ found = [tree |-> <<>>, table |-> FALSE]
  /\ armed = {}

\* applyWeapon(): index and entry pointer of the worm are written together, and
\* the message is sent, once id, table and worm have passed.
Arms(tree, ready) ==
  {[worm |-> FindActiveTurnWorm(tree).number, weapon |-> state.select_weapon] :
     m \in FrameMessages(ready) \cap {"select_weapon"}}

\* onFrame().
TreeFrame(tree, table) ==
  LET ready == table /\ Holders(tree) # {}
  IN  /\ Frame(ready)
      /\ ScansAmmo
      /\ published' = Snapshot(tree, ammo')
      /\ found' = [tree |-> tree, table |-> table]
      /\ armed' = Arms(tree, ready)

\* onGameTornDown() clears the snapshot, too.
TreeTearDown ==
  /\ TearDown
  /\ published' = NoSnapshot
  /\ armed' = {}
  /\ UNCHANGED <<ammo, found>>

OtherStep ==
  /\ NoTurnMessage \/ TurnMessage \/ \E cmd \in Commands : Command(cmd)
  /\ armed' = {}
  /\ UNCHANGED <<ammo, published, found>>

Frames == \E tree \in Trees, table \in BOOLEAN : TreeFrame(tree, table)

TreeNext == Frames \/ TreeTearDown \/ OtherStep

TreeSpec == TreeInit /\ [][TreeNext]_treeVars

(* Frames keep coming, as in InputDispatch.                                  *)
FairTreeSpec == TreeSpec /\ WF_treeVars(Frames)

-----------------------------------------------------------------------------
Snapshots ==
  [game_id : 0 .. MaxGames, round_active : BOOLEAN, turn_team : Teams \cup {NoTeam},
   teams : Seq(TeamTasks), weapons : Teams \cup {NoTeam}]

(* Types of the path InputDispatch describes and of what a frame reads and   *)
(* writes; the snapshot kept for the IPC thread is of no game that is over.  *)
TreeTypeOK ==
  /\ TypeOK
  /\ ammo \in {"untried", "found", "failed"}
  /\ published \in Snapshots
  /\ published.round_active => GameLive /\ published.game_id = gameId
  /\ found.tree \in Seq(TeamTasks) /\ found.table \in BOOLEAN
  /\ armed \subseteq [worm : Nat, weapon : Weapons]

\* The worms a reader of the tree would call the turn team's to arm: the current
\* worm of a team task of that team, or an active one of a team task that has no
\* worm with the current number.
MayArm(tree, team) ==
  {w \in UNION {{tree[i].worms[j] : j \in DOMAIN tree[i].worms} : i \in DOMAIN tree} :
     \E i \in DOMAIN tree :
       LET task == tree[i]
           worms == {task.worms[j] : j \in DOMAIN task.worms}
       IN  /\ task.number = team
           /\ w \in worms
           /\ \/ w.number = task.current
              \/ w.active /\ \A v \in worms : v.number # task.current}

(* No weapon goes to a wrong worm: the frame that arms a worm takes the turn *)
(* team's current one, or an active one if that is not to be found, gives it *)
(* a weapon WA has, and tells WA in the same frame.                          *)
ArmsTheTurnWorm ==
  [][\A a \in armed' :
       /\ \E w \in MayArm(found'.tree, turnTeam) : w.number = a.worm
       /\ a.weapon = state.select_weapon
       /\ "select_weapon" \in out']_treeVars

(* A frame consumes every weapon request and keeps none for the next.  It    *)
(* loses one of a real weapon only if the weapon table is not loaded, or the *)
(* tree has no worm of the turn team that may be armed: no other early       *)
(* return, stale field or order of tasks costs the player the choice.        *)
WeaponReachesWorm ==
  [][(/\ Frames /\ GameLive /\ state.select_weapon \in Weapons
      /\ found'.table /\ MayArm(found'.tree, turnTeam) # {})
       => armed' # {}]_treeVars

\* The lines of the ammo table a snapshot reads for different teams and weapons.
CellsAreApart(teams) ==
  \A t, u \in teams : \A v, w \in Weapons :
    /\ AmmoCell(t, v) # DelayCell(u, w)
    /\ AmmoCell(t, v) = AmmoCell(u, w) => t = u /\ v = w
    /\ DelayCell(t, v) = DelayCell(u, w) => t = u /\ v = w
=============================================================================
