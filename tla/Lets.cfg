SPECIFICATION Spec
CONSTANTS
  Width = 4
  Programs <- MCPrograms
INVARIANTS StaticTypeHolds TypesAreSets EqualityIsEquivalence QuotientAndRemainder RangesHoldTheirLength KeysAreFoundByEquality IndexCountsFromTheEnd
CHECK_DEADLOCK FALSE
