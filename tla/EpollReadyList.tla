--------------------------- MODULE EpollReadyList ---------------------------
(***************************************************************************)
(* The file descriptors of EpollServer                                     *)
(* (net/tools/epoll_server/epoll_server.cc): cb_map_, the ready list that  *)
(* its nodes are threaded on, and a round of events.                       *)
(*                                                                         *)
(* One thread runs everything, but every call of the interface may also    *)
(* come from inside a callback's OnEvent, while the round is traversing    *)
(* the list: those calls are the actions of the client.  LIST_INSERT_HEAD  *)
(* and LIST_REMOVE are operations on two sequences of descriptors; le_prev *)
(* is not NULL exactly for the descriptors on one of them.                 *)
(***************************************************************************)
EXTENDS Integers, Sequences, FiniteSets, SequencesExt

CONSTANTS
  Fds,          \* file descriptors
  Callbacks,    \* EpollCallbackInterface objects
  NoCallback,   \* NULL
  NoFd,         \* no callback is running
  Events,       \* EPOLLIN, EPOLLOUT, ...; a mask is a set of them
  Masks         \* bound: the masks that clients pass

ASSUME ReadyListAssumption ==
  /\ NoCallback \notin Callbacks
  /\ NoFd \notin Fds
  /\ Masks \subseteq (SUBSET Events) \ {{}}

VARIABLES
  cb_map,       \* the nodes (CBAndEventMask) by descriptor
  interest,     \* external: the kernel's epoll set and its masks
  lists,        \* ready_list_, tmp_list_ and ready_list_size_
  phase,        \* what the thread is in: see Phases
  running,      \* the descriptor whose OnEvent is on the stack, or NoFd
  reported,     \* descriptors this epoll_wait has returned so far
  owed,         \* auxiliary: kernel events OnEvent is still to be told of
  stale         \* auxiliary: nodes with an event of an earlier registration

Phases == {"outside",    \* clients run: the main loop, alarms
           "events",     \* the loop of HandleEvent over epoll_wait's events
           "serving",    \* the loop of CallReadyListCallbacks
           "on_event"}   \* in it, a callback

vars == <<cb_map, interest, lists, phase, running, reported, owed, stale>>
roundVars == <<phase, running, reported>>

Node == [cb : Callbacks \cup {NoCallback}, event_mask : SUBSET Events,
         events_asserted : SUBSET Events, events_to_fake : SUBSET Events,
         in_use : BOOLEAN]

-----------------------------------------------------------------------------
(* The ready list *)

Listed(l) == ToSet(l.ready) \cup ToSet(l.tmp)

AddToReadyList_ToTmp(l, fd) ==
  IF fd \in Listed(l) THEN l
  ELSE IF l.tmp = << >>
       THEN [l EXCEPT !.ready = <<fd>> \o @, !.size = @ + 1]
       ELSE [l EXCEPT !.tmp = <<fd>> \o @, !.size = @ + 1]

AddToReadyList_CountsAlways(l, fd) ==
  IF fd \in Listed(l) THEN [l EXCEPT !.size = @ + 1]
  ELSE [l EXCEPT !.ready = <<fd>> \o @, !.size = @ + 1]

AddToReadyList(l, fd) ==
  IF fd \in Listed(l) THEN l
  ELSE [l EXCEPT !.ready = <<fd>> \o @, !.size = @ + 1]

\* LIST_REMOVE; on a list that fd is not on, nothing.
Unlinked(list, fd) ==
  IF fd \in ToSet(list)
  THEN RemoveAt(list, CHOOSE k \in DOMAIN list : list[k] = fd)
  ELSE list

RemoveFromReadyList(l, fd) ==
  IF fd \in Listed(l)
  THEN [ready |-> Unlinked(l.ready, fd), tmp |-> Unlinked(l.tmp, fd), size |-> l.size - 1]
  ELSE l

Swapped(l) == [ready |-> l.tmp, tmp |-> l.ready, size |-> l.size]

-----------------------------------------------------------------------------
(* cb_map_ and the kernel's copy of it *)

IsRegistered(fd) == fd \in DOMAIN cb_map /\ cb_map[fd].cb # NoCallback

With(f, x, value) == [y \in DOMAIN f \cup {x} |-> IF y = x THEN value ELSE f[y]]
Without(f, x) == [y \in DOMAIN f \ {x} |-> f[y]]

\* epoll_ctl: the kernel refuses to add a descriptor it has and to change or
\* delete one it has not.  The program would end there (LOG(FATAL)); here its
\* record would differ from the kernel's.
AddFD(fd, mask) == IF fd \in DOMAIN interest THEN interest ELSE With(interest, fd, mask)
ModFD(fd, mask) == [interest EXCEPT ![fd] = mask]
DelFD(fd) == Without(interest, fd)

\* The node after RegisterFD: a new one, or the one that is there, of which
\* events_asserted and in_use stay as they are.
RegisteredNode_KeepsMask(fd, cb, mask) ==
  IF fd \in DOMAIN cb_map
  THEN [cb_map[fd] EXCEPT !.cb = cb, !.events_to_fake = {}]
  ELSE [cb |-> cb, event_mask |-> mask, events_asserted |-> {},
        events_to_fake |-> {}, in_use |-> FALSE]

RegisteredNode(fd, cb, mask) ==
  IF fd \in DOMAIN cb_map
  THEN [cb_map[fd] EXCEPT !.cb = cb, !.event_mask = mask, !.events_to_fake = {}]
  ELSE [cb |-> cb, event_mask |-> mask, events_asserted |-> {},
        events_to_fake |-> {}, in_use |-> FALSE]

\* cb_map_ after UnregisterFD: a node that OnEvent is using stays, with no cb.
Unregistered_Erased(fd) == Without(cb_map, fd)

Unregistered(fd) ==
  IF cb_map[fd].in_use
  THEN [cb_map EXCEPT ![fd].cb = NoCallback, ![fd].event_mask = {},
                      ![fd].events_to_fake = {}]
  ELSE Without(cb_map, fd)

-----------------------------------------------------------------------------
(* Calls of clients *)

ClientRuns == phase \in {"outside", "on_event"}

\* RegisterFD; a callback that was registered is replaced.
RegisterFD(fd, cb, mask) ==
  /\ ClientRuns
  /\ lists' = IF IsRegistered(fd) THEN RemoveFromReadyList(lists, fd) ELSE lists
  /\ interest' = IF IsRegistered(fd) THEN ModFD(fd, mask) ELSE AddFD(fd, mask)
  /\ cb_map' = With(cb_map, fd, RegisteredNode(fd, cb, mask))
  /\ owed' = [owed EXCEPT ![fd] = {}]
  /\ stale' = IF RegisteredNode(fd, cb, mask).events_asserted # {}
              THEN stale \cup {fd} ELSE stale
  /\ UNCHANGED roundVars

UnregisterFD(fd) ==
  /\ ClientRuns
  /\ IsRegistered(fd)
  /\ lists' = RemoveFromReadyList(lists, fd)
  /\ interest' = DelFD(fd)
  /\ cb_map' = Unregistered(fd)
  /\ owed' = [owed EXCEPT ![fd] = {}]
  /\ stale' = stale \ {fd}
  /\ UNCHANGED roundVars

\* ModifyFD, which StopRead, StartRead, StopWrite, StartWrite and
\* ModifyCallback call.
ModifyFD(fd, remove_event, add_event) ==
  /\ ClientRuns
  /\ IsRegistered(fd)
  /\ LET mask == (cb_map[fd].event_mask \ remove_event) \cup add_event IN
       /\ cb_map' = [cb_map EXCEPT ![fd].event_mask = mask]
       /\ interest' = ModFD(fd, mask)
  /\ UNCHANGED <<lists, roundVars, owed, stale>>

SetFDReady_OneField(fd, events_to_fake) ==
  /\ ClientRuns
  /\ IsRegistered(fd)
  /\ cb_map' = [cb_map EXCEPT ![fd].events_to_fake = events_to_fake,
                              ![fd].events_asserted = {}]
  /\ lists' = AddToReadyList(lists, fd)
  /\ UNCHANGED <<interest, roundVars, owed, stale>>

SetFDReady(fd, events_to_fake) ==
  /\ ClientRuns
  /\ IsRegistered(fd)
  /\ cb_map' = [cb_map EXCEPT ![fd].events_to_fake = events_to_fake]
  /\ lists' = AddToReadyList(lists, fd)
  /\ UNCHANGED <<interest, roundVars, owed, stale>>

\* The falling edge: what was asserted no longer holds.
SetFDNotReady(fd) ==
  /\ ClientRuns
  /\ fd \in DOMAIN cb_map
  /\ lists' = RemoveFromReadyList(lists, fd)
  /\ owed' = [owed EXCEPT ![fd] = {}]
  /\ UNCHANGED <<cb_map, interest, roundVars, stale>>

\* HandleEvent: the mask replaces the one that was asserted before.
HandleEvent(fd, event_mask) ==
  /\ IsRegistered(fd)
  /\ cb_map' = [cb_map EXCEPT ![fd].events_asserted = event_mask]
  /\ lists' = AddToReadyList(lists, fd)
  /\ stale' = stale \ {fd}

\* A client fakes an event, which stands for the fd's events from now on.
FakeEvent(fd, event_mask) ==
  /\ ClientRuns
  /\ HandleEvent(fd, event_mask)
  /\ owed' = [owed EXCEPT ![fd] = {}]
  /\ UNCHANGED <<interest, roundVars>>

-----------------------------------------------------------------------------
(* WaitForEventsAndCallHandleEvents *)

EpollWait ==
  /\ phase = "outside"
  /\ phase' = "events"
  /\ UNCHANGED <<cb_map, interest, lists, running, reported, owed, stale>>

\* One event of epoll_wait.
EpollReports(fd, event_mask) ==
  /\ phase = "events"
  /\ fd \in DOMAIN interest \ reported
  /\ event_mask # {} /\ event_mask \subseteq interest[fd]
  /\ HandleEvent(fd, event_mask)
  /\ reported' = reported \cup {fd}
  /\ owed' = [owed EXCEPT ![fd] = @ \cup event_mask]
  /\ UNCHANGED <<interest, phase, running>>

\* CallReadyListCallbacks, up to its loop; with an empty list it is not called.
SwapLists ==
  /\ phase = "events"
  /\ phase' = "serving"
  /\ lists' = Swapped(lists)
  /\ reported' = {}
  /\ UNCHANGED <<cb_map, interest, running, owed, stale>>

\* The events OnEvent is called with for the node.
InEvents(fd) == cb_map[fd].events_asserted \cup cb_map[fd].events_to_fake

\* The node at the head leaves the list, its events are cleared, and then
\* OnEvent begins.
Taken(fd) ==
  [cb_map EXCEPT ![fd].events_asserted = {}, ![fd].events_to_fake = {},
                 ![fd].in_use = TRUE]

CallOnEvent ==
  /\ phase = "serving"
  /\ lists.tmp # << >>
  /\ LET fd == Head(lists.tmp) IN
       /\ lists' = RemoveFromReadyList(lists, fd)
       /\ cb_map' = Taken(fd)
       /\ running' = fd
       /\ owed' = [owed EXCEPT ![fd] = {}]
       /\ stale' = stale \ {fd}
  /\ phase' = "on_event"
  /\ UNCHANGED <<interest, reported>>

\* What becomes of the node: it goes if it was unregistered meanwhile, and is
\* back on the list if the callback asked for it.
AfterOnEvent(fd, out_ready_mask) ==
  LET node == [cb_map[fd] EXCEPT !.in_use = FALSE] IN
    IF node.cb = NoCallback THEN Without(cb_map, fd)
    ELSE IF out_ready_mask # {}
         THEN [cb_map EXCEPT ![fd] = [node EXCEPT !.events_to_fake = out_ready_mask]]
         ELSE [cb_map EXCEPT ![fd] = node]

OnEventReturns(out_ready_mask) ==
  /\ phase = "on_event"
  /\ phase' = "serving"
  /\ running' = NoFd
  /\ cb_map' = AfterOnEvent(running, out_ready_mask)
  /\ lists' = IF IsRegistered(running) /\ out_ready_mask # {}
              THEN AddToReadyList(lists, running) ELSE lists
  /\ UNCHANGED <<interest, reported, owed, stale>>

RoundEnds ==
  /\ phase = "serving"
  /\ lists.tmp = << >>
  /\ phase' = "outside"
  /\ UNCHANGED <<cb_map, interest, lists, running, reported, owed, stale>>

-----------------------------------------------------------------------------
Init ==
  /\ cb_map = << >>
  /\ interest = << >>
  /\ lists = [ready |-> << >>, tmp |-> << >>, size |-> 0]
  /\ phase = "outside"
  /\ running = NoFd
  /\ reported = {}
  /\ owed = [fd \in Fds |-> {}]
  /\ stale = {}

ClientCalls ==
  \E fd \in Fds :
    \/ \E cb \in Callbacks, mask \in Masks : RegisterFD(fd, cb, mask)
    \/ UnregisterFD(fd)
    \/ \E remove_event, add_event \in Masks \cup {{}} :
         ModifyFD(fd, remove_event, add_event)
    \/ \E mask \in Masks : SetFDReady(fd, mask)
    \/ SetFDNotReady(fd)
    \/ \E mask \in Masks : FakeEvent(fd, mask)

Round ==
  \/ EpollWait
  \/ SwapLists
  \/ CallOnEvent
  \/ \E mask \in Masks \cup {{}} : OnEventReturns(mask)
  \/ RoundEnds

Next ==
  \/ ClientCalls
  \/ Round
  \/ \E fd \in Fds, mask \in SUBSET Events : EpollReports(fd, mask)

\* The program calls WaitForEventsAndExecuteCallbacks in a loop without end
\* (quic_perf_server.cc, QuicClient::WaitForEvents), and callbacks return.
Fairness == WF_vars(Round)

Spec == Init /\ [][Next]_vars /\ Fairness

-----------------------------------------------------------------------------
(* Properties *)

\* The type invariant of the descriptors' side of EpollServer.
TypeOK ==
  /\ DOMAIN cb_map \subseteq Fds
  /\ \A fd \in DOMAIN cb_map : cb_map[fd] \in Node
  /\ DOMAIN interest \subseteq Fds
  /\ \A fd \in DOMAIN interest : interest[fd] \in SUBSET Events
  /\ lists \in [ready : Seq(Fds), tmp : Seq(Fds), size : Nat]
  /\ phase \in Phases
  /\ running \in Fds \cup {NoFd}
  /\ reported \subseteq Fds
  /\ owed \in [Fds -> SUBSET Events]
  /\ stale \subseteq Fds

\* VerifyReadyList (CHECK_EQ) and the DCHECKs of the list: no descriptor is on
\* it twice, the size is right, tmp_list_ is empty except while it is served,
\* and CallReadyListCallbacks finds a callback in every node.
ReadyListVerified ==
  /\ lists.size = Len(lists.ready) + Len(lists.tmp)
  /\ lists.size = Cardinality(Listed(lists))
  /\ phase \in {"outside", "events"} => lists.tmp = << >>
  /\ \A fd \in Listed(lists) : IsRegistered(fd)

\* The node outlives the OnEvent that uses it, whatever the callback registers
\* and unregisters; a node with no callback exists only for that long.
NodeOutlivesOnEvent ==
  /\ phase = "on_event" => running \in DOMAIN cb_map
  /\ \A fd \in DOMAIN cb_map :
       /\ cb_map[fd].in_use <=> (phase = "on_event" /\ fd = running)
       /\ cb_map[fd].cb = NoCallback => cb_map[fd].in_use

\* The kernel watches the registered descriptors and no other, for their masks;
\* so no epoll_ctl fails, which would be LOG(FATAL).
KernelAgrees ==
  /\ DOMAIN interest = {fd \in DOMAIN cb_map : cb_map[fd].cb # NoCallback}
  /\ \A fd \in DOMAIN interest : interest[fd] = cb_map[fd].event_mask

\* An edge that epoll_wait reported is reported once: it stays with the node, and
\* the node on the list, until OnEvent is told.
NoEdgeIsLost ==
  \A fd \in Fds : owed[fd] # {} =>
    fd \in Listed(lists) /\ owed[fd] \subseteq cb_map[fd].events_asserted

\* Every descriptor on the ready list is served, or taken off it by a client:
\* one that stays ready forever starves no other.
EveryReadyFdIsServed ==
  \A fd \in Fds : fd \in Listed(lists) ~> fd \notin Listed(lists)

\* "Once iteration is done, tmp_list_ will be empty, and ready_list_ will have all
\* the new ready fds" (epoll_server.cc:52): what OnEvent and its out_ready_mask
\* make ready waits for the next round, so that a round serves a descriptor once
\* and ends after as many calls as there were descriptors when it swapped.
ServedOncePerRound ==
  [][(phase \in {"serving", "on_event"}) =>
       /\ ToSet(lists.tmp') \subseteq ToSet(lists.tmp)
       /\ running' \notin {running, NoFd} =>
            running' \in ToSet(lists.tmp) \ ToSet(lists.tmp')]_vars

\* "The previous callback is unregistered" (epoll_server.h, RegisterFD): of what
\* was asserted to its predecessor, a callback's OnEvent is told nothing but what
\* its own SetFDReady asked for.
OnlyItsOwnEvents ==
  [][running' # running /\ running' \in stale =>
       cb_map[running'].events_asserted \subseteq cb_map[running'].events_to_fake]_vars
=============================================================================
