SPECIFICATION Spec
SYMMETRY MCSymmetry
CONSTANTS
  t1 = t1 t2 = t2 t3 = t3 s1 = s1 s2 = s2 k1 = k1 k2 = k2
  NoSession = NoSession NoTurn = NoTurn NoCompaction = NoCompaction
  Session = {s1, s2}
  Turn = {t1, t2}
  Compaction = {k1, k2}
  MaxLoadout = 1
  MaxModel = 1
INVARIANTS TypeOK EntryIsTheTurn RebuiltOncePerRequest ModelSwitchIsHonest
           CompactionIsListed
PROPERTIES LastOutRebuilds LockSpec
CHECK_DEADLOCK FALSE
