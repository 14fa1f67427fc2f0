SPECIFICATION PageSpec
CONSTANTS
  Teams = {t1}
  NoTeam = NoTeam
  Fetches = {f1}
  Troubles = {"drop"}
  MaxTroubles = 1
  MaxGames = 2
  MaxInbox = 1
  MaxClaims = 1
INVARIANTS NewGameIsNoticed
