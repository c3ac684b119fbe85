SPECIFICATION Spec
CONSTANTS
  Scripts = {"up.sh"}
  Original <- Translations
  Notes = {"notes.md"}
  Licences = "licensing.md"
  Slug <- Slugs
  Worlds <- SomeWorlds
  Now <- World
  Start <- Repository
  Shapes <- Lines
  Absent = Absent
  Missing = Missing
  Elsewhere = "Elsewhere"
  MaxChanges = 3
INVARIANTS
  NoSectionIsEmpty
  PairsReadAlike
  FailsElsewhereForThreeReasons
CHECK_DEADLOCK FALSE
