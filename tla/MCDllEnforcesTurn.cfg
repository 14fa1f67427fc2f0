\* README.md: the turn-holder check is enforced inside the DLL.
SPECIFICATION Spec
CONSTANTS
  u1 = u1
  u2 = u2
  s1 = s1
  s2 = s2
  t1 = t1
  t2 = t2
  NoTeam = NoTeam
  NoUser = NoUser
  Offline = Offline
  Teams = {t1, t2}
  Users = {u1, u2}
  Sockets = {s1, s2}
  UserOf <- PlayersUserOf
  Owner <- PlayersOwner
  Inputs <- Walk
  Values = {}
  MaxGames = 1
  MaxWire = 2
  MaxPushed = 1
  MaxFaults = 0
PROPERTY DllEnforcesTurn
