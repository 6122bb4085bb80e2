\* WriteCards need not be called again.
CHECK_DEADLOCK FALSE
SPECIFICATION Spec
CONSTANTS
  Objects <- MCObjects
  Tags = {"t1", "t2"}
  Patterns <- MCPatterns
  Wildcards = {{"*"}, {"*", "any"}}
  DefaultWild = {"*"}
  MaxObjects = 3
  MaxCalls = 2
INVARIANTS TypeOK CardsComplete NoStrangers ShapesPresent
