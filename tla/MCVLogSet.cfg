SPECIFICATION Spec
CONSTANTS
  t1 = t1
  t2 = t2
  siteA = siteA
  siteAB = siteAB
  siteV = siteV
  NoOne = NoOne
  Threads = {t1, t2}
  Sites = {siteA, siteAB, siteV}
  RawSite = siteV
  FileOf <- McFileOf
  VmoduleFlags <- McFlags
  Patterns <- McPatterns
  Levels = {0, 1}
  MaxCalls <- McCalls
INVARIANT SetTakesEffect
