CONSTANTS
  BITS = 3
  WORDS = 3
  SeqSpace = 36
SPECIFICATION Spec
INVARIANTS
  Representation
  SearchesAgree
PROPERTY
  RefinesSet
