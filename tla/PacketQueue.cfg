SPECIFICATION Spec
CONSTANTS
  o1 = o1
  o2 = o2
  t1 = t1
  t2 = t2
  ioctl = ioctl
  unloader = unloader
  Packets = {o1, o2}
  Timers = {t1, t2}
  Ioctl = ioctl
  Unloaders = {}
  Nobody = Nobody
  Dir <- MCDirBoth
  Bytes <- MCBytes
  Settings <- MCShaped
  Freq <- MCFreq
  W = 65536
  INITIAL_TOKEN_COUNT = 1500
  MaxElapsed = 1
  MaxRequests = 2
SYMMETRY MCTimers
INVARIANTS
  TypeOK
  NoLostWakeup
  TimerToken
  ShapingOffDrains
  NoCircularWait
