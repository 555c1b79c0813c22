# A verification of quic_toy's server runtime

The repository holds programs that measure QUIC against TCP. Their QUIC half
is a small runtime for a server and a client around the library libquic: an epoll event loop with
alarms, a UDP server, a dispatcher of packets to sessions, and a list of closed
connection ids. This project models that runtime, and the two TCP programs beside
it, in TLA+, checks it with TLC and proves theorems about it with TLAPS. libquic
itself is not in the repository: what a `QuicConnection` or a `QuicFramer` may do at
each call is modelled as an environment.

## The system

One thread runs everything. `main` calls `QuicServer::WaitForEvents` in a loop
without end; each call is one round of `EpollServer`: wait, call the callbacks of
descriptors that are ready, then run the alarms that are due. What is hard here is
therefore not parallelism but re-entrancy: a callback may call every operation of
the structure that is being traversed to call it. The client is one thread too, whose
`main` interleaves its own writes with rounds of the same loop. Only `Wake`, which
writes to a pipe, is meant for other threads, and only the TCP server has a signal
handler.

| Part | State | Operations | Used by |
|---|---|---|---|
| `EpollServer`, descriptors (`epoll_server.cc`) | `cb_map_`, `ready_list_`, `tmp_list_` and their size, the kernel's interest list, the wake pipe | the constructor, `RegisterFD`, `UnregisterFD`, `ModifyFD`, `SetFDReady`, `SetFDNotReady`, `HandleEvent`, a round of events, `Wake` | server, client |
| `EpollServer`, alarms, with `EpollAlarm` and `QuicEpollAlarm` | `alarm_map_`, `all_alarms_`, the skip set, `registered_`, the deadline, `recorded_now_in_us_` | `RegisterAlarm`, `UnregisterAlarm`, `Set`, `Cancel`, `Fire`, the time to sleep, the alarm loop, the destructor | dispatcher, time wait list, connections, server stream |
| `QuicServer` and `QuicDefaultPacketWriter` | the socket, `write_blocked_` | `Listen`; `OnEvent`: read to EAGAIN, then `OnCanWrite`; `Shutdown` | epoll server, dispatcher |
| `QuicDispatcher` | `session_map_`, `closed_session_list_`, `write_blocked_list_`, the delete alarm, the framer and `current_packet_` | `ProcessPacket` with the visitor's callbacks, `OnCanWrite`, `OnWriteBlocked`, `OnConnectionClosed`, `DeleteSessions`, `Shutdown` | server, sessions, time wait list |
| `QuicTimeWaitListManager` | `connection_id_map_`, `pending_packets_queue_`, the clean-up alarm | `AddConnectionIdToTimeWait`, `ProcessPacket`, `OnCanWrite`, `CleanUpOldConnectionIds` | dispatcher |
| `QuicServerSession`, `QuicServerStream` | a connection, its streams, a performance alarm | `OnConnectionClosed`, `OnWriteBlocked`, `CreateIncomingDynamicStream`, `OnClose` | libquic |
| `QuicClient` and `quic_perf_client` | socket, session, writer | `Initialize`, `Connect`, `OnEvent`, `Disconnect`, the sending loops | `main` |
| `tcp_perf_client`, `tcp_perf_server` | a socket, `BYTES_RECEIVED` | the writing loops; accept, the reading loop, the handler of SIGALRM | `main` |

What makes each part correct, and what a test would hardly reach, is the list
"hazards" in `PROJECT.json`, each at its line. In short:

- dispatcher: raw pointers in `write_blocked_list_` stay valid whatever closes; a
  session has one owner from creation to deletion; an id is live or waiting, never
  both; whoever could not write is resumed; a packet has one handler and is parsed
  with the version of its own id, though all ids share one framer;
- time wait list: an id waits its whole period, one alarm retires them all, and a
  peer that keeps sending is answered ever more rarely;
- alarms: the alarm loop's iterator and the four records of one alarm survive
  whatever `OnAlarm` sets, cancels and deletes; nothing due is missed; the loop ends;
  the server neither spins nor oversleeps;
- descriptors: the intrusive list and the nodes survive whatever `OnEvent`
  registers and unregisters; edges are not lost; nobody is starved; `Wake` is heard;
- the loop as a whole: the socket is edge-triggered, so what is left unread or
  unwritten must be signalled again by somebody;
- client: it writes between rounds as well as in them, and runs a round only while it
  waits for something, so the event it waits for must come, or its connection close;
- TCP programs: every byte that was written is in the count, and the count is handed
  to `cout` every period while the server reads.

## The modules

| Module | Models | Correspondence |
|---|---|---|
| `TimeWaitList` | the list and its alarm | `connection_id_map` is the linked hash map as a sequence, oldest first. `Added` and `Counted` are the list after `AddConnectionIdToTimeWait` and after the first lines of `ProcessPacket`; the actions are those calls and the alarm |
| `TimeWaitThrottle` | a memory of what each id drew and what was answered; EXTENDS `TimeWaitList` | every step is one of `TimeWaitList` with two history variables that count, per id, packets and answers of the whole stay on the list |
| `ConnectionLifecycle` | nothing in particular: the abstract specification | an id is free, live or waiting, and how it may move between the three |
| `Dispatcher` | dispatcher, packet writer, pending queue, sessions; EXTENDS `TimeWaitList` | a session is the address it lives at, so that a dangling pointer and reused memory can be told apart. Each handler is one action with every call it makes; the iterations of `OnCanWrite` and `Shutdown` are actions of their own |
| `PacketPath` | one packet in the dispatcher, step by step | what `Dispatcher` takes in one step: `stage` is the callback of the visitor the framer is at, `framer_version` the version that is shared by all ids. The time wait list is reduced to the version of each record; any record may be trimmed when one is added |
| `EpollAlarms` | alarms | the multimap is a sequence and the iterator, `cursor`, a position that moves with its entry. Clients act outside, in events and inside `OnAlarm` (the phase `on_alarm`). `WaitTime` and `EpollTimeout` are the time to sleep, with a millisecond of `UsPerMs` clock ticks |
| `AlarmService` | nothing in particular: the abstract specification | a clock, a deadline for each alarm, the alarm that fires, those a round found due, and when each may change. No map, iterator, token or skip set |
| `SessionAlarms` | who owns alarms; EXTENDS `EpollAlarms` | an alarm belongs to a session, which closes anywhere and is deleted inside `OnAlarm` of `delete_sessions_alarm_`; `server` is "gone" after `~EpollServer`, which comes before `~QuicDispatcher`. It implements `AlarmService`: the owners' clock is `ApproximateNow`, `running` is on the stack, `due` is pending |
| `EpollReadyList` | descriptors | two sequences are the intrusive lists, `le_prev` is non-NULL for what is on one of them. `AddFD`, `ModFD` and `DelFD` are `epoll_ctl`, which the kernel refuses when the entry is or is not there. Clients act outside and inside `OnEvent` |
| `EpollServerLife` | the constructor and the wake pipe; EXTENDS `EpollReadyList` | the pipe is a number of bytes, its read end a descriptor with the server's callback, reported as long as there is a byte. `Wake` happens between any two steps, those of the callback included; `drained` is behind the read that found the pipe empty, where the callback has only to return |
| `ServerLoop` | `Listen`, `OnEvent`, an edge-triggered socket, the blocked writers | the first phases are the socket's way from `socket()` through the options and `bind` to `RegisterFD`; between all phases from `bind` on datagrams arrive and leave. `connections` is `session_map_`: a packet may open one, and a packet, an alarm or its own `OnCanWrite` may close one (`ConnectionCloses`), which takes it off the list from any place. The `exit(0)` of one that closes with an open stream is in `Dispatcher` |
| `QuicClient` | the client and the `main` that drives it | `program` is where `main` is, `phase` where a round is. The stream's buffer, the congestion window, the send buffer and the packet writer are one record, `out`, and `Written`, `Flushed`, `Resumed` are what the connection makes of it |
| `TcpPerf` | both TCP programs | a write hands its chunk over in pieces as the connection has room, a read takes any piece. The signal handler is an action between any two steps of `main` |
| `MC*` | instances for TLC | model values, symmetry, masks |
| `TimeWaitListProofs`, `DispatcherProofs`, `SessionAlarmsProofs`, `EpollReadyListProofs`, `ServerLoopProofs`, `QuicClientProofs`, `PacketPathProofs`, `TcpPerfProofs` | the theorems | `SessionAlarmsProofs` is also about `EpollAlarms`, `EpollReadyListProofs` also about `EpollServerLife` |

External, modelled from how this code uses it: the kernel's sockets, pipe and epoll,
the clock and the timer, `std::multimap::insert`, `QuicFramer`, and
`QuicConnection`. A connection that is given a
packet, an alarm or a chance to write does nothing, writes, or closes (having sent
a close packet or not); when a write is refused it keeps the packet and reports
itself blocked; when it is closed it is silent. A stream that is open when its
connection closes is closed first, which in this program is `exit(0)`.

Definitions named `X_Something` in front of a definition `X` are mutants: what `X`
would be with a plausible bug. Each property of a passing run is violated with one.

## The runs

| Run | Asks | Bounds |
|---|---|---|
| `time_wait_list` | that an id waits its period, one alarm covers all, and answers become exponentially rarer over a whole stay, reinsertions included | 3 ids and room for 2: the third overflows it. Period 2, clock to 5: a record can expire, wait again and expire again. 9 packets for each id: past the third power of 2. The ASSUMEs check the bit trick of `ShouldSendResponse` up to 1100, and that `PowerOfTwo` is 2^k up to k = 20 |
| `dispatcher` | pointers, owners, wake-ups, order of responses, and that `Dispatcher` implements `ConnectionLifecycle` | 2 ids, 3 addresses, room for 1 id in time wait, so one id pushes the other out; 3 responses: two wait while one is retried; 3 packets: one of them, the third, unanswered |
| `packet_path` | that a packet has one handler, stops at its header, and is parsed with the version of its id | 2 ids, so the framer keeps the version of the other; 2 supported versions and one that is not; resets, packets without a version, port 0 |
| `epoll_alarms` | records, iterator, due alarms, no endless loop, time to sleep; freed alarms are forgotten, closed sessions deleted, no alarm turns to a server that is gone; that all this implements `AlarmService` | 2 sessions, the delete alarm and a recurring alarm, times 1 to 4: entries before, at and after the iterator, and one session's alarm run while another's is deleted. A millisecond of 2 ticks: waits of a fraction of it. Timeout 3 ticks: shorter and longer than the wait for an alarm |
| `ready_list` | list, nodes, kernel, edges, and that what becomes ready in a round waits for the next | 2 descriptors, 2 events: one is served while the other is on either list. Masks are {IN} and {IN, OUT} |
| `ready_list_live` | no starvation, and `Wake` is heard | the wake pipe and 2 descriptors of clients, 1 event; the pipe holds 2 bytes and a read takes 1, so the callback's loop goes round. `MaxLate` = 2 calls of `Wake` come while it reads: before, between and behind its reads |
| `server_loop` | no lost wake-up from `bind` on, everyone is resumed, in turn and once per `OnCanWrite`, rounds end | 2 connections, which open and close, and the time wait list, so that one that closes has others before and behind it; buffers of 2 datagrams: full, half full, empty. At most `MaxBurst` = 2 datagrams arrive, and `MaxAlarms` = 2 alarms of connections run, in a round. The run meets all three on the list, and a packet writer that is blocked when all have closed |
| `client` | no lost wake-up, nothing buffered that could go out, and that `Connect` and the transfer end | 3 chunks and a window of 2: the stream buffers; send buffer of 2: it blocks in a round and between rounds. 2 rounds of silence make a timeout, 1 datagram arrives while a round reads |
| `tcp_perf` | every byte is counted, the count is reported while the server reads, both ends end | a total of 5 in chunks of 2: the last chunk goes beyond it; or a time of 2. Room for 3 bytes: a write is cut short and resumed; reads of less than 3: a read is full, part full, or the end |

The server of `epoll_alarms` is destroyed, the dispatcher really stops (`exit(0)`,
`Shutdown`), the client's and the TCP programs' `main` return, and the TCP server may
wait in `accept` for ever: these runs do not look for deadlocks; the others do.

Three more runs show where the code does something else than its comments say:

- `shutdown_reaches_all`: `Shutdown` "sends ConnectionClose frames to all connected
  clients". The first session with an open stream ends the process in
  `QuicServerStream::OnClose`, and the clients behind it are told nothing.
- `alarm_set_in_loop` (`EpollAlarms` alone, in `MCEpollAlarms`): "Execute the
  OnAlarm() only if we did not register it in this
  loop itself". Only alarms that *return* a time are skipped. A `QuicEpollAlarm`
  registers itself, and for a time that has come it runs again at once.
  `AlarmMovesForward` is why the time wait list is not caught by that; the
  dispatcher's `DeleteSessionsAlarm`, set for `ApproximateNow`, does run in the same
  loop when a connection's alarm closes it, which `SessionAlarms` shows to be harmless.
- `stale_events`: a node that is registered again keeps `events_asserted`, and the
  new callback is told of the old one's events.

### Fairness

`ServerLoop` assumes weak fairness of the server's steps, because `main` loops for
ever, and of the network taking datagrams from the send buffer. Arrivals are not
fair, and that `Listen` fails, so that `main` returns, is a choice. That a round ends
is owed to a bound on arrivals, `MaxBurst`: the code reads
until EAGAIN with no limit, and under traffic that never pauses alarms would
starve. A writer that is resumed, or has a packet or an alarm, writes at most once: of
several packets the last decides whether it ends on the list. A round runs at most
`MaxAlarms` alarms of connections; the alarm loop's own end is the matter of
`SessionAlarms`. A connection that closes is not resumed, so `EveryWriterIsResumed` is
about those that stay open.

`EpollServerLife` assumes weak fairness of the round: callbacks return and the round
is called again. A round with nothing to serve sleeps until something is reported
(the timeout is negative and there are no alarms). It also assumes strong fairness of the kernel
reporting the pipe: the read end is level-triggered, so every `epoll_wait` that finds
a byte there reports it, but between two calls nothing is reported. Neither `Wake` nor
the clients' events are fair. While the callback reads, `Wake` is called at most
`MaxLate` times: its loop reads until the pipe is empty and has no bound of its own.
What arrives behind its last read is reported by the next `epoll_wait`.

`QuicClient` assumes the same of its steps and of the network, that time passes, and
strong fairness of one thing: a server that keeps answering acknowledges something at
last. It need not answer at all: the connection's timeout, which is libquic's, is a
number of rounds in which nothing was read (`Patience`; during the handshake, of any
rounds, since its time is limited whatever arrives). `epoll_wait` always returns
because `Initialize` sets a timeout of 50 ms. `TransferEnds` excepts a connection that
is closed: `main` then waits for `HasBufferedData` for ever, since its loops
(`quic_perf_client.cc:101`) never test `connected()`.

`TcpPerf` assumes weak fairness of the server's steps, but not of a read that fails,
and of the timer's signal. `EveryCountIsReported` is about the time while the server
reads: when it has read the end of the stream it returns without waiting for its alarm,
so the last count is never printed; and what the handler gives to `cout` may stay in its
buffer until then. The client is on another host and may stop: only `BothEnd`
supposes, in its premise, that it runs on and that its clock does.

One observation is in no property: with an edge-triggered socket the faked EPOLLOUT
of `OnEvent` is not needed for wake-ups. The kernel reports the socket when its full
buffer drains, and `ServerLoop` satisfies every property without it. It makes the
server spin while it is blocked.

## The theorems

TLC checks the small instances above; the theorems hold for every value of the constants
that the modules' ASSUMEs admit.

`TimeWaitListProofs` assumes a period greater than 0 and a maximum other than 0 (with 0
the code loops for ever). The inductive invariant `TwInv` is the type invariant, the
order by age, the maximum, `AlarmCoversEveryRecord`, and `InThePast`: records were added
in the past and the alarm is at most one period away. `AlarmCoversEveryRecord` is not
inductive without it, for a record added now expires one period from now and nothing but
`InThePast` puts the alarm before that. The lemmas about the list say that erasing,
trimming and retiring leave an ordered part of the list and that adding puts a youngest
record at its end. From the invariant follow `TwTypeCorrect`, `TwOldestFirst`,
`TwWithinMaximum`, `TwAlarmCovers` and the action properties `TwAlarmMovesForward`,
which needs that the oldest record left by `CleanUpOldConnectionIds` is younger than a
period, and `TwLeavesOnlyWhenDue`: a record that is trimmed was first in a list that is
full before and after, for the reinsertion of an id that is on it removes its old record
and trims nothing.

`TwAnswersBackOff` is about a whole stay on the list, and takes two arguments. One is
arithmetic: `ShouldSendResponse` tests `n & (n - 1)`, where `BitAnd` and `PowerOfTwo`
are recursive functions. The library's induction theorems cannot be instantiated here,
so the proof takes the least element of the set of counterexamples (`LeastNumber`, from
well-founded minimality; `InductionOnSet`), shows first that both functions exist and
satisfy their recursion, then that `BitAnd` works digit by digit (`BitAndOfDigits`), and
by induction on halves that the test holds for the powers of 2 and nothing else: the
theorem `RespondsToPowersOfTwo`, for every count. The other is the history.
`ThrottleInv` says that the count in a record is what its id drew since it came, through
every reinsertion (`CountsCarriedOver`: erasing, trimming and appending keep the counts
of the others), and that the answers are as many as there are powers of 2 up to it. A
packet adds one to both the count and the history; whether it adds to the answers is the
first argument. `ThrottleOnlyWatches` says that the history constrains nothing: every
behaviour of `TimeWaitThrottle` is one of `TimeWaitList`.

`DispatcherProofs` begins with `DispatcherUsesManager`: every step of `Dispatcher` is a
step of `TimeWaitList` or leaves its variables alone, so `TwInv` and both action
properties hold in the dispatcher with no second proof. The invariant `DispatcherInv`
adds three parts that are inductive together. The writers (`WritersInv`): those on the
list are live or the time wait list manager, nobody twice, and those refused are on it.
`NoDanglingWriter` depends on the other parts, since a connection may close while it is
on the list, and on closing it may be refused the close packet and put itself back. The
sessions (`SessionsInv`): an address has one id in `session_map_`, and is not in
`closed_session_list_`, which has none twice. The responses (`QueueInv`): the queue is
what was built after the last that was sent. `DispatcherImplementsLifecycle` is the
refinement. `DispatcherIdStep` says what a step does to the ids: it opens a session for
one, retires one, counts a packet for one, runs the clean-up, or leaves them all alone.
Each is shown to be a step of `ConnectionLifecycle` or a stutter; an id that leaves the
list because another needs its place may be forgotten since the order by age makes the
first record the oldest and one record for each id makes a full list a full set. The
assumptions: `NoSession` is no session, and `TimeWait` neither a session nor
`NoSession`.

`SessionAlarmsProofs` proves the safety properties of alarms and their owners for all
alarms, times, timeouts and lengths of a tick. The invariant `AlarmsInv` says three
things that the properties do not. `Sorted`: the multimap is in the order of its times,
so that the entries before the end of the loop are those that are due. `Ahead`: the
alarms that are still to be run have an entry the iterator has not passed, which makes
`DueAlarmsAreRun` inductive; it survives an insertion before the iterator because the
iterator moves with its entry. `Agree`: `RecordsAgree`, position by position, with the
entry under the iterator left out while its alarm runs; that entry stands for no
registration, so an alarm that sets itself again has two entries and one registration.
When the epoll server is gone what is left is `GoneInv`. `FreedAlarmsAreForgotten` needs
all of it: a session is deleted in the alarm of another, whose entry is the one under
the iterator, and for its own alarm `Cancel` removes the only entry `Agree` allows.
`ClosedSessionsAreDeleted` needs that the delete alarm, while it runs, is not set. The
action property `AlarmsRecurringRunOncePerLoop` needs that the alarms that would run
twice are in the skip set, and `AlarmsSleepUntilFirst` is integer division. The
assumptions: QUIC alarms and recurring alarms are different objects, and a millisecond
has at least one tick.

`AlarmsImplementService` is the refinement of `AlarmService`. `SetOrCancel` is a call of
a client, which sees only its deadline change and its alarm leave those that are due;
`Fire` is the step at which the loop enters `OnAlarm`, and needs that the entry under
the iterator is one of a set alarm whose time has come (`Agree`, `Sorted` and the end of
the loop). That the owners' clock stands still while an alarm is due or runs needs one
invariant more, `RoundClock`: the time a round recorded is the clock, until the round is
over. All other steps of the loop are silent, and when the epoll server is gone nothing
is due.

`EpollReadyListProofs` proves the safety properties of descriptors. Most of `ReadyInv`
is inductive by itself: the lists (`ListsOK`), a callback in every listed node, the node
in use, the kernel's entries. `NoEdgeIsLost` is not, since an event the kernel reports
replaces the mask of the node, and another edge may be owed there. `EdgeInRound` adds
where in the round an owed edge is: its descriptor has been reported, and `epoll_wait`
reports none twice; once the lists are swapped it is on `tmp_list_`, which is empty when
the round ends. `ReadyListServedOncePerRound` is the safety half of
`EveryReadyFdIsServed`: no call from inside `OnEvent` puts anything on `tmp_list_`, a
callback is called only for what is on it, and taken off before, so a round ends after
as many calls as the list was long. The assumption on masks, that they are non-empty
sets of events, is that of the callers. `ServerLifeInvariant` carries all this over to
`EpollServerLife`, whose steps are steps of `EpollReadyList` or leave it alone
(`LifeIsReadyList`), from the constructor on, and adds `PipeIsWatched`: nothing
unregisters the read end of the wake pipe, and reading it never blocks; and
`EachCallReads`: only inside the callback is its reading done, so each call begins to
read.

`ServerLoopProofs` proves that no wake-up is lost, from `Listen` on, for any number of
connections and any buffers. `BlockedIsSignalled` covers a packet writer that is blocked
while nobody is on the list, which happens when the only connection there closes: the
next to write would be refused by `write_blocked_` alone. In this state
`out_ready_mask` is empty, so only the kernel's edge is left, and the property is not
inductive: a faked EPOLLOUT satisfies it, and `OnEvent` fakes none again once nobody is on the
list. The invariant `LoopInv` therefore says of a blocked packet writer more than of
the list: since it met a full buffer there was an edge, the buffer is still full, or the
EPOLLOUT is among the events of the `OnEvent` that runs (`BlockedIsOwed`). `WritersOK`
adds that nobody is on the list twice, and that whoever is on it, or is being resumed,
is live. `LoopWritersTakeTurns` is the safety half of `EveryWriterIsResumed` and
`EveryRoundEnds`: a writer that is refused keeps its place or goes behind all others; a
writer leaves from the front, for its `OnCanWrite`, or from anywhere because its own
connection closes, which moves nobody behind another; and whoever joins the list while
`OnCanWrite` runs was refused, which ends its loop. So with n writers in front of it a
writer is resumed after at most n others, however the calls of `OnCanWrite` are cut.

`QuicClientProofs` proves `WakeUpIsComing` and the types for every transfer, window,
buffer and timeout. The invariant `ClientInv` adds `NotYetConnected`: until `Connect`
nothing has run that could consume the event `RegisterFD` causes, which is the one that
resumes a writer blocked before the first round. The lemmas say what each call of the
connection makes of the way out (`Kept`): a writer that is blocked afterwards met a full
send buffer, whose draining is an edge. `ClientBufferedForAReason` is the safety half of
`TransferEnds`: with `WakeUpIsComing` it says that whatever the stream of an open
connection buffers waits for an acknowledgement or for an edge to come, and never for
`main`, which only runs rounds. `ReasonInv` adds that nothing is buffered before there
is a connection.

`PacketPathProofs` proves all properties of `PacketPath`, for any ids and versions, from
`PathInv`. None of them is inductive: that a packet ends before the payload depends on
what was decided at its public header. `ForTimeWait` says it: once the visitor has let
the framer go on, the id is in time wait, the framer has the version of its record, and
the packet is no reset; and `NotHandledYet`, that no session has had it. The assumption
added for the proof is that `NoPacket` is no packet.

`TcpPerfProofs` proves `TransferIsCounted` for all totals, chunks and buffers. The
invariant conserves bytes (`Conserved`) and relates the loop variable to what was handed
over (`HandedOver`), which holds as long as the server has not failed: a write that is
cut short counts as a whole chunk. The last lemma says that the first multiple of the
chunk size that reaches the total is the total rounded up.

The type invariants, but for that of `SessionAlarms`, and `OldestFirst` and
`WithinMaximum` are theorems that no run checks: a small instance adds nothing to their
proofs.

Model-checked only: the liveness properties (`EveryReadyFdIsServed`, `WakeIsHeard`,
`EveryWriterIsResumed`, `EveryRoundEnds`, `ConnectEnds`, `TransferEnds`,
`EveryCountIsReported`, `BothEnd`), since liveness under fairness and ENABLED are out of
TLAPS's reach. That `PowerOfTwo` is the power 2^k of the library is checked up to k =
20; the theorems are about `PowerOfTwo`, which is its recursion. Every safety property
of a passing run, and both refinements, are theorems.

## Not modelled

- libquic: the protocol, the crypto handshake, congestion control, the bytes of
  packets and responses. It is not in the repository; see "External" above.
- Control messages and addresses in `quic_socket_utils.cc`: formatting for the
  kernel. Of `recvmsg` EAGAIN is the one error modelled, as no other is pending on
  a UDP socket that is not connected.
- `EPOLLERR` and `EPOLLHUP`: `EpollReadyList` never reports them. The server's
  `OnEvent` ignores the first and never looks for the second.
- `CleanupFDToCBMap`, by which `~EpollServer` calls `OnShutdown` of every
  descriptor's callback: none of the callbacks of these programs does anything there,
  so its care for callbacks that unregister others meets no case. The alarms' half
  of the destructor is in `SessionAlarms`. `quic_perf_server` itself never destroys a
  server that listens; the order of destruction is that of the class.
- Event tracing, which is compiled out, logging, options and output.
- Option values for which the programs loop without end: a maximum of 0
  connections in time wait, a chunk size of 0. The ASSUMEs exclude them.
- `num_packets` beyond 2^31: packets for one id within one stay in the list.
- A packet the kernel still refuses when `CloseConnection` runs is lost with the
  socket; no statement of the repository promises its delivery.
- The build patch, the scripts and the recorded measurements.

## The plan

Done, in this order: the time wait list and its proofs, the dispatcher with the
abstract lifecycle, the alarms, the descriptors, the server loop and its proofs, the
client and its proofs; then the path of a packet, the owners of alarms up to the end
of the epoll server, the constructor and the wake pipe, `Listen`, and the TCP
programs; then the proofs about a packet's path and the TCP programs, about the
descriptors, the dispatcher with its refinement, and the alarms; last the throttle, the
refinement of the alarms, and the safety halves of liveness. The order puts first
what holds raw pointers and what everything else shares.

No part of the runtime's own logic is left to model, and no safety property of a passing
run to prove. What a further step could add is outside this code: a model of
libquic's connection and alarms to put in the place of the environment they are here, or a
prover with temporal rules for fairness.
