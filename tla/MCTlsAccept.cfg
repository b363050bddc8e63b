CONSTANTS
  h1 = h1
  h2 = h2
  s1 = s1
  s2 = s2
  Modes = {"dot", "doh"}
  Honest = {h1, h2}
  Stalled = {s1, s2}
  Slots = 2
SPECIFICATION TlsSpec
PROPERTIES RefusedOnlyWhenBusy HonestServed
CHECK_DEADLOCK FALSE
