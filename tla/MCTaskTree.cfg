\* Every property of the DLL's input path, over two games, two teams and the
\* trees of MCTaskTree.
SPECIFICATION FairTreeSpec
CONSTANTS
  t1 = t1
  t2 = t2
  Teams = {t1, t2}
  NoTeam = NoTeam
  Inputs <- MCInputs
  Values <- MCValues
  Trees <- MCTrees
  MaxGames = 2
INVARIANTS
  TreeTypeOK
  StateIsAsked
PROPERTIES
  FireAlternates
  DispatchIsAsked
  JumpIsServed
  ReleaseLaunches
  ArmsTheTurnWorm
  WeaponReachesWorm
