\* A game that ends while its messages are dismissed.
CONSTANTS
  Chains = {1}
  ByteRange = 256
  MaxPending = 2
SPECIFICATION Spec
INVARIANT EndIsReported
