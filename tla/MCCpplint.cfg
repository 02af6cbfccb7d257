SPECIFICATION Spec
CONSTANTS
  Headers <- MCHeaders
  Name <- MCName
  Rank <- MCRank
  ThirdParty = {"lua"}
  Inputs <- MCInputs
  Texts <- MCTexts
  Options <- MCOptions
  ShortNamespace = 2
  Trigger = 1
INVARIANTS NestingFollowsTaken CleanseAgrees DuplicatesReal FileIsolated
CHECK_DEADLOCK FALSE
