SPECIFICATION Spec
CONSTANTS HashLen = 3  MaxBlocks = 7  ByteMax = 7  MaxLength = 25
INVARIANTS ExpandsAsRfc5869 FirstScalar BuffersAreWiped
CHECK_DEADLOCK FALSE
