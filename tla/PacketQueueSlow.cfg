SPECIFICATION FairSpec
CONSTANTS
  o1 = o1
  o2 = o2
  t1 = t1
  t2 = t2
  ioctl = ioctl
  unloader = unloader
  Packets = {o1}
  Timers = {t1}
  Ioctl = ioctl
  Unloaders = {}
  Nobody = Nobody
  Dir <- MCDir
  Bytes <- MCBytes
  Settings <- MCSlow
  Freq <- MCFreq
  W = 65536
  INITIAL_TOKEN_COUNT = 1500
  MaxElapsed = 2
  MaxRequests = 1
PROPERTIES
  QueuedLeaves
