\* WA_INTERNALS.md: held inputs are released; no fault at all.
SPECIFICATION Spec
CONSTANTS
  u1 = u1
  u2 = u2
  s1 = s1
  s2 = s2
  t1 = t1
  t2 = t2
  NoTeam = NoTeam
  NoUser = NoUser
  Offline = Offline
  Teams = {t1}
  Users = {u1}
  Sockets = {s1}
  UserOf <- DevicesUserOf
  Owner <- DevicesOwner
  Inputs <- Walk
  Values = {}
  MaxGames = 2
  MaxWire = 2
  MaxPushed = 1
  MaxFaults = 0
INVARIANT NoWormWalksAlone
