CONSTANTS
  Keys = {k1, k2, k3, k4, k5}
  Values = {v1, v2}
  Capacity = 3
  Expire = 2
  MaxNow = 3
  lru_head_ = lru_head_
  Null = Null
SPECIFICATION Spec
SYMMETRY Symmetry
INVARIANTS
  CacheExact
  GetIsFresh
