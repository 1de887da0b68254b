SPECIFICATION FairSpec
CONSTANTS
  MaxVersion = 3
  Helpers = {h1, h2}
  Downloads = {1}
  Prompt = TRUE
  Habits = {"hasty", "downloads"}
  None = None
  MaxFaults = 2
INVARIANTS LastGoodKept ReplacementIsRevertible
PROPERTY BrokenUpdateIsReplaced
