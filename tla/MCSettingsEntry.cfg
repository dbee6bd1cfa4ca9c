SPECIFICATION EntrySpec
CONSTANTS
  Effects = {e1, e2, e3}
INVARIANTS
  EntryStandsIn
