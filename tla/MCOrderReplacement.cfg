CONSTANTS
  b1 = b1
  b2 = b2
  s1 = s1
  kb = kb
  kc = kc
  ks = ks
  NoKey = NoKey
  NoOrder = NoOrder
  MaxSeq = 2
  MaxNotifications = 5
  Ids <- MCIds
  BundleKeys = {kb, kc}
  ShareKeys = {ks}
  KeysOf <- MCKeysOf
SPECIFICATION MCSpec
INVARIANT
  HighestSequenceHonoured
PROPERTIES
  RemovesAreLive
  ImplementsContract
