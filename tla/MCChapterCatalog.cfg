SPECIFICATION FairSpec
CONSTANTS
  w1 = w1
  e1 = e1
  c1 = c1
  c2 = c2
  Workers = {w1}
  Editors = {e1}
  Crawlers = {c1, c2}
  MaxKeys = 8
  MaxEvents = 3
INVARIANTS TypeOK
PROPERTIES CrawlKeepsTranslation EverySessionEnds SavedIsCounted
CHECK_DEADLOCK FALSE
