SPECIFICATION Spec
CONSTANTS
  o1 = o1
  o2 = o2
  t1 = t1
  t2 = t2
  ioctl = ioctl
  unloader = unloader
  Packets = {o1, o2}
  Timers = {t1}
  Ioctl = ioctl
  Unloaders = {unloader}
  Nobody = Nobody
  Dir <- MCDir
  Bytes <- MCBytes
  Settings <- MCLossy
  Freq <- MCFreq
  W = 65536
  INITIAL_TOKEN_COUNT = 1500
  MaxElapsed = 1
  MaxRequests = 2
PROPERTIES
  ByteAccounting
  ImplementsLink
INVARIANTS
  OneOwner
