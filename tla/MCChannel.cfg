\* One user with two sockets, who has one of two teams at first; two faults.
SPECIFICATION FairSpec
CONSTANTS
  u1 = u1
  u2 = u2
  s1 = s1
  s2 = s2
  t1 = t1
  t2 = t2
  NoTeam = NoTeam
  NoUser = NoUser
  Offline = Offline
  Teams = {t1, t2}
  Users = {u1}
  Sockets = {s1, s2}
  UserOf <- DevicesUserOf
  Owner <- DevicesOwner
  Inputs <- Walk
  Values = {}
  MaxGames = 1
  MaxWire = 2
  MaxPushed = 1
  MaxFaults = 2
INVARIANTS
  TypeOK
  NoOrphanHold
  HeldHasTeam
PROPERTIES
  OrphanIsReleased
  ImplementsLevels
