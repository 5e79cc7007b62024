SPECIFICATION MCSpec
CONSTANTS
  Tab = {a, b}
  Heard = {a}
  Thread = {t1, t2}
  Existing = {t1}
  NoThread = NoThread
  NoAnswer = NoAnswer
  MaxClicks = 2
  MaxAnswers = 2
  MaxUnderWay = 2
INVARIANTS SessionTypeOK SuggestionsOfLastAnswer MissingThreadLeft DeletedLeavesSidebar
PROPERTIES SuggestionsSettle TabsAgree
CHECK_DEADLOCK FALSE
