SPECIFICATION Spec
CONSTANTS
  MaxVersion = 3
  Helpers = {h1}
  Downloads = {}
  Prompt = FALSE
  Habits = {"hasty"}
  None = None
  MaxFaults = 1
INVARIANT LastGoodKept
