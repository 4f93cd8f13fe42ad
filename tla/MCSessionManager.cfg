CONSTANTS
  s1 = s1
  s2 = s2
  gc = gc
  httpd = httpd
  Sids <- MCSids
  Collectors <- MCCollectors
  Httpd = httpd
  Total = 2
  Duration = 1
  TicksPerSecond = 1
  MaxSessions = 4
  MaxTime = 3
SPECIFICATION FairSpec
INVARIANTS OneHome NoLostClose CountCoversSlots
PROPERTIES ImplementsLifecycle OwedIsClosed ExpiredLeaves
