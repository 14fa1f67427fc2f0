\* store.py: mappings are ephemeral per-game claims.
SPECIFICATION Spec
CONSTANTS
  NoTeam = NoTeam
  Teams = {t1, t2}
  Users = {u1, u2}
  Requests = {r1}
  MaxGames = 2
  MaxSessions = 1
  MaxRestarts = 1
INVARIANT ClaimsArePerGame
