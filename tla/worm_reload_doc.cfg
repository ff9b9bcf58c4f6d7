SPECIFICATION Spec
CONSTANTS
  b1 = b1
  b2 = b2
  ContentHashes <- MCContentHashes
  MaxRead = 2
  MaxAppends = 3
INVARIANT VerifiesAfterReload
