CONSTANTS
  l1 = l1
  l2 = l2
  c1 = c1
  Configs <- MCConfigs
  First <- MCFirst
  Listeners = {l1, l2}
  Sessions = {c1}
  MaxEdits = 2
  MaxSignals = 2
SPECIFICATION Spec
INVARIANT QueryOnCurrentRules
PROPERTIES ReplacedReleased LastReloadWins OneFailsAllStop
CHECK_DEADLOCK FALSE
