------------------------- MODULE MCEpollServerLife -------------------------
(* Model checking of EpollServerLife: the pipe and two sockets, one event. *)
EXTENDS EpollServerLife

CONSTANTS f1, f2, k1

MCFds == {read_fd, f1, f2}
MCCallbacks == {wake_cb, k1}
MCEvents == {EPOLLIN}
MCMasks == {{EPOLLIN}}
=============================================================================
