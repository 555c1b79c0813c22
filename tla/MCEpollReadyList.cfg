CONSTANTS
  f1 = f1
  f2 = f2
  Fds <- MCFds
  Callbacks = {k1}
  NoCallback = NoCallback
  NoFd = NoFd
  EPOLLIN = EPOLLIN
  EPOLLOUT = EPOLLOUT
  Events <- MCEvents
  Masks <- MCMasks
SYMMETRY Symmetry
SPECIFICATION Spec
INVARIANTS
  ReadyListVerified
  NodeOutlivesOnEvent
  KernelAgrees
  NoEdgeIsLost
PROPERTIES
  ServedOncePerRound
