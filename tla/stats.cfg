SPECIFICATION StatsSpec
CONSTANTS
    i1 = i1
    i2 = i2
    i3 = i3
    l1 = l1
    l2 = l2
    Items = {i1, i2, i3}
    Langs = {l1, l2}
    ItemLang <- LangOf
    Sessions = {s1, s2}
    MaxRangeDays = 2
    MaxDay = 3
    MaxAnswers = 2
SYMMETRY Symmetry
INVARIANTS NewWordsOnce DailyCountsReviews
PROPERTIES StreakKept
CHECK_DEADLOCK FALSE
