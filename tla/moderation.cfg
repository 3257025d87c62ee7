SPECIFICATION ModerationSpec
CONSTANTS
  Kinds = {"set", "item"}
  Authors = {u1}
  Admins = {m1, m2}
  Reporters = {r1, r2}
  EntryIds = {e1, e2, e3}
  Threshold = 2
  ComplaintsAlone = TRUE
  NoEntry = NoEntry
INVARIANTS ModerationTypeOK   CommunitySetIsQueued
PROPERTIES VerdictStands AllowedMoves
CHECK_DEADLOCK FALSE
