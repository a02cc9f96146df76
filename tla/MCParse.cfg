CONSTANTS
  MAX_SCHEMA_DEPTH = 3
  MAX_EXPR_DEPTH = 2
  Heaps <- MCHeaps
  Words <- MCWords
  Spelling <- MCSpelling
SPECIFICATION ParseSpec
INVARIANTS StackBounded LocatedOnce AcceptsWellFormed SuggestsTypo
PROPERTY ParseEnds
