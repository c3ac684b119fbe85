SPECIFICATION MCSpec
CONSTANTS
  Files <- Paths
  KindOf <- Kinds
  Rules <- TwoRules
  Notices <- OneNotice
  Flags <- Flagged
  Characters <- Letters
  Hangul <- Syllables
  Overlap <- Words
  Absent = Absent
  Repositories <- ToEdit
INVARIANT PlacesAreKept
