SPECIFICATION FairSpec
CONSTANTS
  t1 = t1
  t2 = t2
  siteA = siteA
  siteAB = siteAB
  siteV = siteV
  NoOne = NoOne
  Threads = {t1, t2}
  Sites = {siteA, siteAB, siteV}
  RawSite = siteV
  FileOf <- McFileOf
  VmoduleFlags <- McFlags
  Patterns <- McOverlap
  Levels = {0, 1}
  MaxCalls <- McCalls
INVARIANTS TypeOK CachedListExact CacheCoherent SetIsReadModifyWrite
PROPERTIES ControlMovesForward ControlSpec CallsReturn
