\* One failed read of the marker.
SPECIFICATION Spec
CONSTANTS
  MaxVersion = 2
  Helpers = {h1}
  Downloads = {}
  Prompt = TRUE
  Habits = {"hasty"}
  None = None
  MaxFaults = 1
INVARIANT SomeLauncherWorks
