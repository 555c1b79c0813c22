-------------------------- MODULE MCEpollReadyList --------------------------
(* Model checking of EpollReadyList: two descriptors, EPOLLIN and EPOLLOUT. *)
EXTENDS EpollReadyList, TLC

CONSTANTS EPOLLIN, EPOLLOUT, f1, f2

MCFds == {f1, f2}
MCEvents == {EPOLLIN, EPOLLOUT}
MCMasks == {{EPOLLIN}, {EPOLLIN, EPOLLOUT}}
Symmetry == Permutations(MCFds)
=============================================================================
