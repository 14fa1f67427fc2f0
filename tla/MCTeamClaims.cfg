\* Two games over two WA processes and two backend processes, and overlapping
\* requests of one user.
SPECIFICATION FairSpec
CONSTANTS
  NoTeam = NoTeam
  Teams = {t1, t2}
  Users = {u1}
  Requests = {r1, r2}
  MaxGames = 2
  MaxSessions = 2
  MaxRestarts = 1
INVARIANTS
  TypeOK
  UniqueClaims
  StaleClaimsExplained
PROPERTIES
  ClaimsSurviveOutages
  PastClaimsGo
