SPECIFICATION Spec
CONSTANTS
  LeafCount = 4
  MaxLeaves = 5
  Byte = 12
  MantissaBytes = 2
  AmountBytes = 1
  MAX_ADDRESSES = 2
  MAX_RECEIPTS = 2
  Malformed = Malformed
  Radix = 3
  DECIMALS = 2
  MaxExponent = 2
  NoExponent = NoExponent
  BPS_DENOMINATOR = 10
  MAX_FEE_BPS = 5
  Unset = Unset
INVARIANTS
  ProofsVerify
  RoundTrip
  MoneyExact
  FeesFit
  UnsafeOnlyByText
