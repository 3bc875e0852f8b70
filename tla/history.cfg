\* Two processes appending, together or in turn; any append may be torn.
SPECIFICATION LogSpec
CONSTANTS
  w1 = w1  w2 = w2
  Writer <- MCWriter
  MaxAppends = 6
INVARIANTS LogTypeOK SequentialIds TearsAreLocal
PROPERTY StableNames
SYMMETRY Symmetry
CHECK_DEADLOCK FALSE
