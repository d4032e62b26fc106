SPECIFICATION Spec
CONSTANTS
  List = {mine, all, urgent}
  Save = {s1, s2}
  Filter = {f1, f2}
  MaxPages = 3
SYMMETRY SiteSymmetry
INVARIANTS RoutedAsMeant RefusalsAreKnown AnswersFit ShownIsCurrent PageExists
CHECK_DEADLOCK FALSE
