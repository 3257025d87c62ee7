SPECIFICATION Spec
CONSTANTS
  Base <- MCBase
  Punctuation <- MCPunctuation
  Exchanges <- MCExchanges
  Modes = {"strict", "normal", "forgiving"}
  Times = {1000, 30000}
  Fallbacks = {20000}
  Intensities = {75, 100, 130}
  Absences = {"recent", "to90", "longer"}
  Confidences = {0, 2, 5}
  MaxDays = 60
  MaxReviews = 5
VIEW WithoutLast
INVARIANT CardTypeOK
PROPERTIES JudgedByEdits LapseShortens LaterRecallsGrow SlowestIsNotFast
CHECK_DEADLOCK FALSE
