SPECIFICATION Spec
CONSTANTS
  Ids <- MCIds
  Types = {"A", "B"}
  Chains <- MCChains
  Versions <- MCVersions
  NoVersion = NoVersion
  Formats = {"text", "tree", "counted"}
INVARIANTS TypeOK RoundTrip LoadAnswers
