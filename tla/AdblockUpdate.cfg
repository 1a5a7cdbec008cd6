SPECIFICATION Spec
CONSTANTS
  Categories = {"ads", "cookies"}
  Published <- MCPublished
  MaxFaults = 2
INVARIANTS
  ListsAreOneVersion
PROPERTIES
  PreviousSurvives
  NeverBackward
  ActivatedIsComplete
