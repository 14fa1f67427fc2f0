SPECIFICATION FairSpec
CONSTANTS
  Teams = {t1}
  NoTeam = NoTeam
  Buttons = {move_left, fire}
  Fetches = {f1}
  Troubles = {"failure", "elsewhere", "drop", "remount", "restart", "offline", "close"}
  MaxTroubles = 2
  MaxGames = 1
  MaxInbox = 1
  MaxClaims = 1
INVARIANTS TypeOK NothingStuck
PROPERTIES TurnLossLetsGo
