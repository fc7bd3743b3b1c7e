CONSTANTS
  s1 = s1
  s2 = s2
  s3 = s3
  s4 = s4
  Signatures <- MCSignatures
  ttl_ticks = 3
  max_entries = 3
  MaxCacheTime = 9
SPECIFICATION CacheSpec
SYMMETRY Symmetry
INVARIANT RemembersExactly
CHECK_DEADLOCK FALSE
