CONSTANTS
  x1 = x1
  x2 = x2
  x3 = x3
  x4 = x4
  x5 = x5
  ka = ka
  kb = kb
  kc = kc
  kd = kd
  b1 = b1
  b2 = b2
  Items <- MCItems
  Keys <- MCKeys
  KeyOf <- MCKeyOf
  Buckets <- MCBuckets
  BucketOf <- MCBucketOf
  Null = Null
  MaxN = 2
SPECIFICATION Spec
INVARIANTS
  TableExact
  WalkIsValid
  ApplyVisitsAll
