-------------------------- MODULE EpollServerLife --------------------------
(***************************************************************************)
(* An EpollServer from its constructor on, with the pipe that Wake writes  *)
(* to from another thread (net/tools/epoll_server/epoll_server.cc).  The   *)
(* read end is a descriptor like those of EpollReadyList, with the         *)
(* server's own callback; unlike a client's sockets it is registered       *)
(* level-triggered.                                                        *)
(*                                                                         *)
(* timeout_in_us_ is negative here and there are no alarms, so a round     *)
(* with nothing to serve sleeps until something is reported.               *)
(***************************************************************************)
EXTENDS EpollReadyList

CONSTANTS
  read_fd,       \* the read end of the pipe
  wake_cb,       \* the ReadPipeCallback
  EPOLLIN,
  ReadSize,      \* bytes one read of the callback takes: sizeof(int)
  PipeSize,      \* bound: bytes in the pipe
  MaxLate        \* bound: calls of Wake while the callback empties the pipe

ASSUME LifeAssumption ==
  /\ read_fd \in Fds
  /\ wake_cb \in Callbacks
  /\ EPOLLIN \in Events
  /\ ReadSize \in Nat \ {0}
  /\ PipeSize \in Nat \ {0}
  /\ MaxLate \in Nat

VARIABLES
  pipe,          \* external: bytes written by Wake and not read
  pipe_blocks,   \* external: O_NONBLOCK is not set on the read end
  late,          \* external: calls of Wake since the callback began
  drained        \* data_read <= 0: the callback's loop is over

pipeVars == <<pipe, pipe_blocks, late, drained>>
lifeVars == <<vars, pipeVars>>

-----------------------------------------------------------------------------
(* The constructor *)

\* The flags of the read end after RegisterFD, with its SetNonblocking.
BlocksAfterRegistration_Unchanged == TRUE

BlocksAfterRegistration == FALSE

\* The mask the constructor registers.
WakeMask == {EPOLLIN}

\* EpollServer(): empty lists, a pipe, and RegisterFD of its read end.
LifeInit ==
  /\ pipe = 0
  /\ pipe_blocks = BlocksAfterRegistration
  /\ late = 0
  /\ drained = FALSE
  /\ cb_map = [fd \in {read_fd} |->
       [cb |-> wake_cb, event_mask |-> WakeMask, events_asserted |-> {},
        events_to_fake |-> {}, in_use |-> FALSE]]
  /\ interest = [fd \in {read_fd} |-> WakeMask]
  /\ lists = [ready |-> << >>, tmp |-> << >>, size |-> 0]
  /\ phase = "outside"
  /\ running = NoFd
  /\ reported = {}
  /\ owed = [fd \in Fds |-> {}]
  /\ stale = {}

-----------------------------------------------------------------------------
(* Wake and its callback *)

\* The server is inside ReadPipeCallback::OnEvent.
InPipeCallback == phase = "on_event" /\ running = read_fd

\* From any thread, at any time: also while the callback empties the pipe and
\* between its last read and its return.  That it stops reading is owed to those
\* who call Wake: its loop has no bound of its own.
Wake ==
  /\ pipe < PipeSize
  /\ pipe' = pipe + 1
  /\ IF InPipeCallback
     THEN late < MaxLate /\ late' = late + 1
     ELSE UNCHANGED late
  /\ UNCHANGED <<vars, pipe_blocks, drained>>

\* ReadPipeCallback::OnEvent reads until there is nothing more.
ReadPipe ==
  /\ InPipeCallback
  /\ ~ drained
  /\ pipe > 0
  /\ pipe' = IF pipe > ReadSize THEN pipe - ReadSize ELSE 0
  /\ UNCHANGED <<vars, pipe_blocks, late, drained>>

\* The last read finds the pipe empty, and fails with EAGAIN or blocks ...
LastRead ==
  /\ InPipeCallback
  /\ ~ drained
  /\ pipe = 0
  /\ ~ pipe_blocks
  /\ drained' = TRUE
  /\ UNCHANGED <<vars, pipe, pipe_blocks, late>>

\* ... and the callback returns.
ReadPipeReturns ==
  /\ InPipeCallback
  /\ drained
  /\ OnEventReturns({})
  /\ drained' = FALSE
  /\ late' = 0
  /\ UNCHANGED <<pipe, pipe_blocks>>

-----------------------------------------------------------------------------
(* Clients and rounds *)

\* Clients have other descriptors and callbacks.
Clients ==
  /\ running # read_fd
  /\ \E fd \in Fds \ {read_fd} :
       \/ \E cb \in Callbacks \ {wake_cb}, mask \in Masks : RegisterFD(fd, cb, mask)
       \/ UnregisterFD(fd)
       \/ \E mask \in Masks : SetFDReady(fd, mask)
       \/ SetFDNotReady(fd)
       \/ \E mask \in Masks : FakeEvent(fd, mask)
  /\ UNCHANGED pipeVars

OnEventOfClientReturns ==
  /\ running # read_fd
  /\ \E mask \in Masks \cup {{}} : OnEventReturns(mask)
  /\ UNCHANGED pipeVars

\* epoll_wait returns only if there is something, or did not sleep because the
\* ready list was not empty.
WaitIsOver == lists.ready # << >>

EpollWaitReturns ==
  /\ WaitIsOver
  /\ SwapLists
  /\ UNCHANGED pipeVars

LifeRound ==
  \/ EpollWait /\ UNCHANGED pipeVars
  \/ EpollWaitReturns
  \/ CallOnEvent /\ UNCHANGED pipeVars
  \/ ReadPipe
  \/ LastRead
  \/ ReadPipeReturns
  \/ OnEventOfClientReturns
  \/ RoundEnds /\ UNCHANGED pipeVars

\* Level-triggered: as long as there is a byte in the pipe.
PipeIsReported ==
  /\ pipe > 0
  /\ EpollReports(read_fd, {EPOLLIN})
  /\ UNCHANGED pipeVars

LifeNext ==
  \/ Wake
  \/ Clients
  \/ LifeRound
  \/ PipeIsReported
  \/ \E fd \in Fds \ {read_fd}, mask \in SUBSET Events :
       EpollReports(fd, mask) /\ UNCHANGED pipeVars

\* Rounds follow each other, and every epoll_wait reports what is readable.
LifeSpec ==
  /\ LifeInit
  /\ [][LifeNext]_lifeVars
  /\ WF_lifeVars(LifeRound)
  /\ SF_lifeVars(PipeIsReported)

-----------------------------------------------------------------------------
(* Properties *)

\* "Force the epoll server to wake up": from whatever point of a round another
\* thread calls Wake, the bytes are read, and a server that is asleep by then
\* wakes up and the round returns; its callback does not get stuck itself.
WakeIsHeard ==
  /\ pipe > 0 ~> pipe = 0
  /\ pipe > 0 /\ phase # "outside" ~> phase = "outside"
=============================================================================
