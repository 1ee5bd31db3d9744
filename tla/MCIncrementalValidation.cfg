SPECIFICATION Spec
CONSTANTS
  people = people
  tags = tags
  peopleDefinition = peopleDefinition
  alice = alice
  bob = bob
  tagsFile = tagsFile
  Collections = {people, tags}
  DefinitionFiles = {peopleDefinition}
  Bases = {}
  RecordFiles = {alice, bob, tagsFile}
  DefinedBy <- PeopleDefined
  Owners <- OwnFiles
  Shared = {tags}
  Contents <- SomeContents
  NoKey = NoKey
  Garbage = Garbage
  Absent = Absent
  Loose = Loose
  Strict = Strict
  MaxEdits = 1
INVARIANTS
  TypeOK
  NewFaultsAreFound
  FindingsAreFaults
  OnlyTheRange
  CountsMatchFindings
CHECK_DEADLOCK FALSE
