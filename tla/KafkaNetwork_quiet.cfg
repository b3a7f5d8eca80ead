\* Owners that signal nothing.
SPECIFICATION Spec
CONSTANT Declared <- MCToday
INVARIANT QuietFindingRecommends
CHECK_DEADLOCK FALSE
