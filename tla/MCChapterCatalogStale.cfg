SPECIFICATION Spec
CONSTANTS
  w1 = w1
  e1 = e1
  c1 = c1
  c2 = c2
  Workers = {}
  Editors = {}
  Crawlers = {c1, c2}
  MaxKeys = 5
  MaxEvents = 2
PROPERTIES StaleWriterFails
CHECK_DEADLOCK FALSE
