SPECIFICATION PageSpec
CONSTANTS
  Teams = {t1}
  NoTeam = NoTeam
  Fetches = {f1, f2}
  Troubles = {"failure", "elsewhere", "drop", "remount", "restart", "offline"}
  MaxTroubles = 2
  MaxGames = 2
  MaxInbox = 2
  MaxClaims = 2
SYMMETRY Symmetry
INVARIANTS PageTypeOK MyTeamExplained
