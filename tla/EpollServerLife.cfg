CONSTANTS
  read_fd = read_fd
  f1 = f1
  f2 = f2
  Fds <- MCFds
  wake_cb = wake_cb
  k1 = k1
  Callbacks <- MCCallbacks
  NoCallback = NoCallback
  NoFd = NoFd
  EPOLLIN = EPOLLIN
  Events <- MCEvents
  Masks <- MCMasks
  ReadSize = 1
  PipeSize = 2
  MaxLate = 2
SPECIFICATION LifeSpec
PROPERTIES
  EveryReadyFdIsServed
  WakeIsHeard
