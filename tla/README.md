# TLA+ models of linux_tcp_lib

These modules specify the library's own logic: the queues through which threads hand work
to each other, the epoll loop (`cellManager`) with the threads and the kernel it works with,
the receive and send paths of one connection, the client, and the life cycle of a server.
TLC checks them on small instances; TLAPS proves theorems about all of them for every value
of their constants.

## The system

The library is a TCP server and a TCP client. The threads of a server are

- one **acceptor** (`tcpServer::run`, `server.cpp`), which accepts connections;
- `2 * cpus + 2` **cell managers** (`cell_manager.cpp`), each a thread with an epoll
  set of its own; a connection belongs to manager `clientid % N`, where `clientid`
  is the socket's descriptor;
- the **application's threads**, which start and stop the server and call `SendData`.

A client has one **reader** thread; any thread of the application may send and close.

| component | state | operations | interacts through |
| --- | --- | --- | --- |
| `srt_queue` (`mqueue.h`) | `post_index_`, `get_index_`, table of pages, slots with a flag | `push` from any thread, `pop` from one, `get_msg_page` | shared memory; one mutex around page allocation |
| acceptor (`server.cpp`) | listening socket | `Listen`, `HandleAccept`, `SendData`, start/stop | stores a cell in the manager's `m_Cell`, pushes `A` |
| cell manager (`cell_manager.cpp`) | `m_Cell`, the task queue, epoll set | `addTask`, `delTask`, `sendTask`; `handleAdd/Del/Send`, `checkWrite`, `doEvent`, `doRecv`, `doSend` | pops `A`, `D`, `S` tasks; calls `tNotify` (`OnConnect`, `OnRecvData`, `OnDisconnect`, `OnError`) |
| client cell (`client_cell.h`) | receive buffer and two positions, ring of messages and two positions, `m_Events` | none of its own | owned by the manager |
| framing (`common/src/*_notify.cpp`) | none | `OnRecvData` cuts the buffer into messages | called by the manager, or by the client's reader |
| `tcpClient` (`tcpClient.cpp`) | `_sock`, `_isConnect`, `t1`, receive buffer and two indexes | `InitSocket`, `Connect`, `Start`, `Stop`, `Close`, `SendData`, `OnRun`, `RecvData` | the fields, from several threads without a lock; the process's descriptor table |
| `drb_queue` (`mqueue.h`) | `post_index_`, `write_index_`, page table that grows | `push`, `get`, `size` | shared memory; one mutex around growth |
| `process_thread`, life cycle (`thread.cpp`, `server.cpp`, `tcp_server.cpp`) | `is_running_`, `thread_`, `m_CellManager`, `m_tcpserver_` | `start`, `stop`, destructors | flags read in loops, join, delete |

What makes them correct, and hard:

- **srt_queue.** `push` tests the capacity, takes a place and publishes it in separate
  steps; pages are allocated by whoever needs one and deleted by the reader. It must
  lose, duplicate and reorder nothing, never use a deleted page, and let every
  accepted message through.
- **drb_queue.** The page table is replaced while others look at it without the mutex, its
  size before the table itself. Nobody may look past its end; what is pushed must be found.
- **Cell manager.** Tasks, events, `m_Cell` and callbacks name a connection by its
  descriptor, which the kernel gives out again; three kinds of threads touch `m_Cell`.
  The callbacks of a connection must come in order, no open connection may be lost,
  no deleted cell used, no message written twice or out of order.
- **Receive path.** Edge-triggered reads into a buffer with compaction; no overlap,
  no stuck buffer, no endless loop.
- **Send ring.** Partial writes, a full ring, empty messages.
- **Client.** `Close` in several threads at once, while descriptors go to others;
  reconnection; messages split over reads.
- **Life cycle.** `stop` against threads that have not started, callbacks and senders;
  everything closed, joined before it is deleted, deleted once.

PROJECT.json lists every component with its status and every hazard with its line.

## Modules

| module | what it is |
| --- | --- |
| `TaskQueue` | abstract queue: `Reserve` a place, `Publish` it, `Take` the head once published |
| `SrtQueue`, `MCSrtQueue` | `srt_queue` at the grain of single shared accesses; implements `TaskQueue` |
| `SrtQueueProofs` | theorems about `SrtQueue` for any number of producers, the refinement among them |
| `DurableLog` | abstract log: `Reserve` a place, `Fill` it once, `Count` it |
| `DrbQueue` | `drb_queue` at the grain of single shared accesses; implements `DurableLog` |
| `DrbQueueProofs` | theorems about `DrbQueue`, the refinement among them |
| `CellManager`, `MCCellManager` | a cell manager, the acceptor, senders, peers and the kernel; uses `TaskQueue`'s actions on its own `queue` |
| `CellManagerProofs` | theorems about `CellManager` |
| `RecvBuffer`, `MCRecvBuffer` | `doRecv` and `OnRecvData` for one connection, at the grain of single reads |
| `RecvBufferProofs` | theorems about `RecvBuffer` |
| `SendRing` | `handleSend`, `checkWrite`, `doSend`, `~clientCell` for one connection, at the grain of single writes |
| `SendRingProofs` | theorems about `SendRing` |
| `TcpClient` | `easyTcpClient`'s fields and descriptors, used by several threads |
| `TcpClientProofs` | theorems about `TcpClient` |
| `ClientBuffer`, `MCClientBuffer` | `RecvData` and the client's `OnRecvData`, over several connections of one object |
| `ClientBufferProofs` | theorems about `ClientBuffer` |
| `Lifecycle` | start, stop and destruction of servers, acceptors and managers |
| `LifecycleProofs` | theorems about `Lifecycle` |

Operators marked `FAULT` are plausible bugs of the definition below them; no
specification uses them. Each property is checked to fail when one of them takes
that definition's place.

The components compose where one uses another: `CellManager` takes its queue from
`TaskQueue`, which `SrtQueue` implements; `RecvBuffer` and `SendRing` refine what
`CellManager` does with one connection; `ClientBuffer` refines one `Recv` of `TcpClient`;
`Lifecycle` reduces a manager's work to a connection that is stored, announced, closed.

### SrtQueue

`post_index`, `get_index` are the members of the same names. `page[pi]` says what
`page_indexes_[pi]` holds (`"null"`, a `"live"` page, or between lines 125 and 126
the pointer to a `"freed"` one), `slots[pi]` the slots of its page and `gen[pi]`
which allocation it is. A thread's page pointer is the number of the allocation it
got; `Usable` tells whether that page is still there. `pc`, `arg`, `seen`, `mine`,
`ptr` are a producer's position in `push` and its locals, `cpc`, `cptr`, `got` the
reader's. `claimed` and `popped` are histories: accepted messages in the order of
the fetch-and-inc, and returned messages. `overrun` is one too: a place has been handed out
beyond the `Window`, which ends where the table, going round, comes to the reader's page
again. Producers that pass the capacity test together can come that far if they are three or
more; the queue's promises are stated for as long as it has not happened, and that it happens
is a finding (`srt_overrun`).

Steps: the read of `post_index_` (`PushStart`), the read of `get_index_` with the
outcome (`PushRefuse`, `PushAdmit`), the fetch-and-inc (`PushClaim`), the unlocked
test (`PushLook`), the locked section (`PushAlloc`), the unlocked reload
(`PushLoad`), the message store, the flag store; and likewise for `pop`. The reader
allocates a page too when it is ahead of the producer. The model is sequentially
consistent: the code relies on volatile and one fence, formally a data race; on
x86-64 the stores are not reordered. Line 95 reads two volatile operands in an order C++ leaves
open; the model has left to right, as compiled.

### DrbQueue

`post_index`, `write_index`, `page_index_count`, `page_indexes` are the members;
`page_indexes` is the table in use, a function whose domain is its real length, so that an
index past it is seen; `heap` holds the pages allocated. `get_msg_page` is seven steps: the
unlocked read of the size (`ReadCount`) and of the entry (`ReadSlot`), the mutex with the
second look at the size (`Lock`), the store of the new size (`PublishCount`) and then of the
new table (`PublishTable`), the second look at the entry (`MakePage`), which ends the locked
section, and the reload (`ReadAgain`). `push` goes on with the store of the message, of the
flag and the increment of `write_index_`; `get` with the read of the cell. An access outside
the table is undefined: it is recorded in `wild` and the model stops there. `together` is a
history: two pushes have been under way at once. The old table, which the code leaks, is
not kept. `DurableLog` sees the queue as a sequence of places and a size: a place, once
filled, stays as it is, and the size never exceeds the places filled.

### CellManager

A connection is a number the code never sees; `fd` gives its descriptor, `m_Cell` maps a
descriptor to the connection whose cell is stored under it. `sock` and `peer` are the two
ends, `interest` and `listed` the epoll set and its ready list: an edge (data,
end of connection, `EPOLL_CTL_ADD`, `EPOLL_CTL_MOD`) puts a socket on the list,
`epoll_wait` empties it. `mpc` walks through `run`: tasks, `checkWrite`, wait, events.
`handleDel` is two steps, before and after the descriptor is closed, since the
acceptor may act in between; the other handlers are one step each, as no other
thread's step can change what they use. `doRecv` either returns (`EventIO`) or, after a read
that filled the buffer exactly, goes round on its descriptor (`EventSpin`, `reading`) until
that peer sends or ends. A push by another thread is two steps
(`Reserve`, `Publish`); the manager's own pushes are one, since the only reader of the queue is
the one pushing. `session` is what the callbacks told the application. `doubled` and `lost` are
histories: two `D` tasks for one descriptor have been in the queue; the connections whose `A` or
`D` task the queue refused, or whose cell, stored between `close` (line 190) and `erase` (202),
went with that of an earlier owner of its descriptor.

Abstracted here: bytes, partial writes and buffer positions (the next two modules); the hash table inside
`m_Cell` (its operations are atomic; concurrent use without a lock is undefined in
the code and stays a hazard); other managers, which share nothing but the acceptor;
`m_Events`, whose bits follow from `interest` (its uninitialised value only reaches an
`EPOLL_CTL_MOD` that fails).

`tcpServer::SendData` has no return statement, so what it returns is undefined; nothing
in the library reads it. An `S` task the full queue refuses, or whose connection is gone,
leaks its copy of the message.

### RecvBuffer

A byte is its offset in the peer's stream, and `stream` gives the length of the message
that starts at an offset, header included (a length of a header or less stands for a
`data_size` that is not positive). `recvBuf`, `recvReadPos`, `recvWritePos`,
`breakflag`, `readpos` are the code's variables; `sent`, `peer`, `ready` are the kernel's
side: `ready` is the socket's place on epoll's list, set by an arrival and by
`checkWrite`'s `EPOLL_CTL_MOD` (`Rearm`), cleared when the event is delivered. The peer
may act between any two reads. `Read` is one `read` with its result, `ReadAgain` the
`continue` after `EAGAIN`, `ReadEnd` an error or end; `Deliver`, `Refuse`, `ParseDone` are
the three ways one round of `OnRecvData`'s loop goes (`on_read` true, false, no whole
message), `Shift` moves or resets the positions. `EventHup` queues the `D` task and leaves
unread bytes unread, as `doEvent` does. What happens after that is `CellManager`'s
subject. The `USE_DISPATCH` variant of `OnRecvData`, which the makefiles do not select, is
not modelled.

### SendRing

A byte is its offset among all the bytes the ring has accepted; a slot's record has
`sendCell`'s `size` and `sendPos`, and as history its number and the offset of its first
byte. `space` is the room in the socket's buffer; a write takes at most that, and only a
peer that reads from a full buffer makes an event of it. `watch` is `EPOLLOUT` in
`m_Events` and in epoll's mask, which the code sets together. The outcomes of one `write`
are actions: `WritePart`, `WriteAll`, `WriteAgain` (`EAGAIN`), `WriteNothing` (0),
`WriteError`, `WriteKilled` (`SIGPIPE`, once the error of a reset has been reported, or
after a FIN). `RecvFails` is the `doRecv` that `doEvent` runs before `doSend` for the same
event. Tasks arrive whenever `handleTask` runs; a `D` task may stay queued for a while, as
an unpublished push can hold it back.

### TcpClient

`sock`, `isConnect`, `t1` are `_sock`, `_isConnect` and the reader thread; `fds` is the
descriptor table of the process, in which `"new"` and `"linked"` descriptors are the client's,
`"other"` ones somebody else's; `socket` takes the lowest free number, as the kernel does.
`Close` is five steps (test, `close(2)`, reset of `_sock`, reset of `_isConnect`,
`OnDisconnect`), which any thread may be in; the reader's loop is the test of `isRun`, `select`,
`FD_ISSET` and `recv`, each of which reads `_sock` anew; `SendData` is a test and a `send`.
`FD_SET` with -1 writes outside the set: `IsSet` then goes either way. `OtherOpen` and
`OtherClose` are the rest of the process. `strayed` records system calls that reached
somebody else's descriptor; `used` that there has been a connection since `Stop` last
returned. `Patient` restricts the application to what the test programs do: it connects when
stopped and nobody is sending, and starts one reader at a time; what it does on other
threads, and when it stops, is free. A `SIGPIPE` in `send` is left out, since it ends the
process.

### ClientBuffer

`buf`, `readIndex`, `writeIndex` are `_szMsgBuf`, `m_ReadIndex`, `m_WriteIndex`. A byte is the
number of its connection and its offset in what the server sends there; after `Reconnect`,
which leaves buffer and indexes alone as `Connect` and `Start` do, bytes of an old connection
are still in it. `Recv` is one `recv` into the room behind `m_WriteIndex`, `Handle` one round
of `OnRecvData`'s loop, `Advance` the end of `RecvData` with its move to the front,
`HandledNothing` and `RecvNothing` the two ways it returns -1, with the reason in `cause`.

### Lifecycle

For every server and each of its parts (the acceptor, part 0, and the managers) `object` says
whether it has been made or deleted, `running` is `is_running_`, `handle` whether `thread_` is
set, `thread` where its thread is, `open` whose descriptors are open. `pc` and `turn` walk the
application's thread through `tcp_server::start`, `tcpServer::start`, `tcpServer::stop`,
`process_thread::stop` and the destructors. `SetRunning` is the first statement of
`_thread_proc`: until then `stop` believes that there is no thread, after a nap of 10 ms that
the model lets pass or not. `pthread_create` may fail.

A connection is `"pending"` at the listening socket and `"accepted"` with a descriptor.
`addTask` leaves it `"stored"` in its manager, or `"refused"` when the queue takes no task; it is
`"queued"` once its task and those before it are published, and then `"announced"`. `handleDel`
makes it `"closing"` (`End`, its descriptor is free again) and `"closed"` (`Erase`). `Erase` takes
out what `m_Cell` has under the descriptor by then: a connection stored there meanwhile is
`"lost"`, open and in no `m_Cell`. A task an earlier owner of the descriptor left may announce or
end a connection too (`Stale`). A pass of a manager is its tasks, its wait, and its events, in
which it may stay in `doRecv` (`Spin`). What else happens to a connection is `CellManager`'s.

Use and deletion of a deleted part are recorded in `wild`,
and the model stops there. `broken` records which of two rules that nothing enforces the
application has not kept: `"stop"`, it stops a server only once its threads run; `"send"`,
nobody is in `SendData` without a server or while one is being stopped.

## Runs

| run | what it shows |
| --- | --- |
| `srt_queue` | three producers, until the queue is overrun: `OvershootBounded`, `HeldPagesAreLive`, `KeptUnlessOverrun`, `PagesAreReturned`; the refinement of `TaskQueue`; every accepted message is popped |
| `srt_overrun` | three producers overrun the queue and lose an accepted message (finding) |
| `cell_manager` | two connections at once or one after the other on one descriptor, queue and ring full at times: memory safety, nothing unannounced is served, writes once and in order, callbacks in order unless two `D` tasks named one descriptor; everything not lost is announced and released, as long as `doRecv` returns |
| `callback_order` | with two `D` tasks for a descriptor given out again, `OnDisconnect` without `OnConnect` (finding) |
| `recv_buffer` | whatever the reads cut: messages whole and in order, no overlapping copy, a full buffer has a cause, nothing stranded by the edge-triggered socket |
| `recv_spin` | a read that fills the buffer exactly makes `doRecv` loop on `EAGAIN` (finding) |
| `send_ring` | partial writes, full ring, full socket, resets: bytes once and in order, messages freed once, no write after a failed one, what can be written is written |
| `tcp_client` | no announced connection ends in silence, `Close` closes the client's own socket, `Stop` returns and leaves nothing behind |
| `client_buffer` | messages handled whole and in order on the first connection, indexes and copies in bounds on all, what arrives is handled unless the connection ends for one of three named causes |
| `client_split` | a read that brings only a part of a message ends the connection (finding) |
| `drb_queue` | nobody outside the table with one push at a time, `get` returns what was pushed, the refinement of `DurableLog`, every push can be read |
| `lifecycle` | joined before deleted, nothing deleted used, everything closed when `stop` returns, `stop` returns, what is accepted is announced or closed |

The type invariant of a module is a conjunct of one of its invariants.

**Conditions.** Some properties carry a condition under which alone the code has them; each
names a variable of the model, and the section on divergences says what happens without it.
The properties of `SrtQueue` but `OvershootBounded`: `overrun`. `OrderUnlessDoubled`: `doubled`.
`GetFinds` and `InTable`: `together`. `HandledIntact` of the client: `conn = 1`.
`NoSilentEnd` and `StopIsClean`: `Patient`. `JoinedBeforeDeleted` and `NothingDeletedIsUsed`: `broken`.
`StopClosesAll` excepts connections that are `"lost"`; `AcceptedIsAnnounced` those and the
`"refused"` ones, and `ConnectedAreAnnounced` and `EndedAreReleased` those in `lost`. That every
`doRecv` returns, which `recv_spin` shows the code does not guarantee, is a premise of the last three
(`ManagerReturns`, `ManagersReturn`) and of the server's `StopReturns`: a manager that goes round
in `doRecv` does not look at its tasks nor at `is_running_`, and `stop` waits for it for ever. The
exception `wild # {}` of the last two is for a system that has stopped at the use of a deleted object.

**Bounds.** The queue's instance has two pages of two slots: capacity 2, wrap-around
after 4 places. Three producers and `MaxPosts = 3` let five places be taken, so the table goes
round, pages are deleted and allocated again while pushes are under way, and the queue is
overrun. `srt_queue` has one message, since its places and flags tell a lost or an early
one, and states after an overrun, of which nothing is claimed and which stay so, are not
expanded (`BeforeOverrun`); that different messages are not swapped is proved (`OrderTheorem`).
`srt_overrun` has two messages and no such limit. `cell_manager` has two connections and two
descriptors: both are open at once, so that a pass has two events and one connection may wait
for the other, or the second gets the descriptor of the first; two messages, a ring of one and a
queue of three, so that both refuse. `callback_order` has one descriptor and a queue of
ten. `recv_buffer` and `client_buffer` have a buffer of 8 bytes, a header of
1 and ten bytes of stream, so that it fills, compacts and starts over; the messages are as
short as possible, up to half the buffer, longer than half, longer than the buffer, and one
invalid; two connections of the client show what one leaves to the next. `send_ring` has a ring
of three slots (two messages) and four messages, so that it is full and wraps around; sizes 0,
1 and 2 against a socket buffer of 2, so that writes are partial; and two writes per `doSend`,
fewer than may be needed. `tcp_client` has two descriptors and one foreign owner, so that the
client's number can go to somebody else and come back, two readers in turn, a sender, and six
calls: two connections with readers, and a stop in between or at the end. `drb_queue` starts with a table of
one page of two messages and pushes four, so that the table doubles while two producers and a
getter hold pages of it; its invariant was also checked with five. `lifecycle` has two
managers, so that one is deleted while the other lives, two connections on two descriptors, one in each
manager, either of which may be given out again, and a sender; a second
server in a row was checked by hand with one connection.

**Fairness.** Weak fairness of each thread that is inside a call of the library, and of the
threads of the library, whose loops run until they are stopped: the operating system schedules
them, `select` and `epoll_wait` return within a second, and they wait for each other only in
`join` and at a mutex. Strong fairness once: of `Lock` in `DrbQueue`, as a mutex that becomes
free again and again is got in the end. A pass of a manager that enters `doRecv` is fair only
as far as `doRecv` returns: going round there (`EventSpin`, `Spin`) is left by the peer's act, which
nothing makes happen, and where a property needs it, it is a premise. In `Lifecycle`, what is in a
manager's queue is a number of connections, so the tasks end; senders that push faster than the
manager pops, which would keep it in `handleTask`, are not in the model. Nothing is assumed of peers, of what the rest of a process does, or of when the
application calls. In `SendRing`, that the peer reads is a premise of `PendingIsWritten`. The
fair actions of a model that records undefined behaviour are those it takes as long as there
was none.

**Deadlock** is checked for `SrtQueue` and `CellManager`: the reader and the manager
poll, so they always have a step. The other models follow one connection, or a bounded number
of calls, and really stop: when the connection is gone or its buffer stuck, when the calls are
used up, when the process is killed or has done something undefined.

## Where the code and its comments disagree

Four runs show the code doing otherwise than the repository says, and are findings.

- `callback_order`: `notify.h:29` guarantees the order `OnConnect`, `OnRecvData`,
  `OnDisconnect`. Two `D` tasks for one descriptor (`cell_manager.cpp:306`), with the
  descriptor given out again in between, call `OnDisconnect` for a connection that was never
  announced, and close it.
- `recv_spin`: `cell_manager.cpp:345` leaves the read loop when the data has been read. A read
  that fills the free space exactly does not leave it, and `EAGAIN` at line 332 goes round.
- `srt_overrun`: `mqueue.h:87` calls `push` safe from several threads. The capacity test (line 95)
  and the claim (line 99) are two steps: three threads can be a whole page past the capacity,
  and a message `push` accepted goes to a page the reader deletes. With the default sizes the
  queue must hold almost 2^31 messages.
- `client_split`: `tcpClient.cpp:137` speaks of joined and split messages (`粘包 拆包`). A read that
  brings only a part of a message ends the connection (`tcpClient.cpp:149`, return value 0 of
  `OnRecvData`).

The models show more, which a reader can reproduce by changing a constant or dropping a
condition:

- With descriptors given out again, a connection whose cell is stored between `close`
  (`cell_manager.cpp:190`) and `erase` (202) of an earlier one is lost: open, in no `m_Cell`, and
  closed by no destructor. A refused `A` task (`cell_manager.cpp:88`) leaves one unannounced.
  `StopClosesAll`, `ConnectedAreAnnounced` and `EndedAreReleased` without their exceptions fail.
- An `S` task queued for a connection that has ended is written to the next one on its descriptor
  (`cell_manager.cpp:176`).
- A full ring drops the message without the `OnError(-3)` of `notify.h:33`
  (`cell_manager.cpp:164`), and an empty message stays at the head of the ring for ever
  (`cell_manager.cpp:415`): `PendingIsWritten` without its last disjunct fails.
- A client's `Close` that another thread has overtaken closes a descriptor which by then belongs
  to somebody else (`tcpClient.cpp:84`): `ClosesItsSocket` without its exception fails.
  `OnDisconnect` may be called twice for one connection, once by each closer.
- The client's buffer survives a reconnection (`tcpClient.cpp:53`): with `conn = 1` dropped,
  `HandledIntact` fails, since the rest of an old message is parsed with the new bytes.
- Overlapping pushes on `drb_queue`, documented as safe, look past the end of the table: at
  the old table with the new size (`mqueue.h:329`), or at a table that was doubled to a size
  equal to the page number (`mqueue.h:322`, `>` for `>=`). `InTable` without `together` shows
  the first with the run's constants and the second with `PageMsgs = 1`.
- A server stopped before its threads run deletes objects that the threads then use
  (`thread.cpp:151`), and its destructor may delete the managers twice (`server.cpp:173`):
  the properties without `broken` fail.

## Proofs

Every theorem holds for all constants that satisfy the assumptions named in its module
(`...Assumption`), with the bounds among them (`MaxPosts`, `MaxPush`, `MaxCalls`, ...)
arbitrary. A property alone is seldom inductive; each module therefore has an invariant
`IInv` that implies it, which TLC checked on an instance before it was proved. The proof that
a step keeps `IInv` has a lemma or a step for each action, and facts about positions, pages
and wrap-around are lemmas of their own.

**`SrtQueueProofs`**, for any set of producers, any messages and any table sizes:

- `TypeCorrect`: `Spec => []TypeOK`.
- `OvershootTheorem`: `Spec => []OvershootBounded`. A step must also say how many producers
  may still claim. `CountInv` does: for every `y` at least `Capacity` past the reader, the
  places handed out from `y` on and the producers that read `post_index_` before it reached
  `y` and have not claimed together number at most all producers. A claim turns a member of
  the second group into one of the first, a new read of `post_index_` never adds to the
  second, and the reader only narrows the range of `y`. `LooksFullMeansCapacity` connects
  line 95's shift of a difference with a number of messages.

`MemoryCorrect` proves `~ overrun => IInv`, also for any number of producers, and from
it follow `AcceptedTheorem` (nothing accepted is lost), `OrderTheorem` (messages are returned
once, in order), `PointersTheorem` (no use of a deleted page) and `PagesTheorem` (an entry of
the table has a page only for a place between the reader and the last push, or the reader's
own). `ClaimedInv`, a part of `IInv`, keeps all claimed places inside the window, where
different places have different slots, so no two threads ever work on one slot; `PushInv`,
`SlotInv` and `PopInv` then say what each thread's position implies for its page and its slot.
A step that leaves the window sets `overrun`, which is why the invariant speaks of nothing after
it. `TwoNeverOverrun` derives from `CountInv` that two producers stay inside, whatever the
table sizes: for them the theorems need no condition. With three the condition cannot be
dropped, as `srt_overrun` shows.

`QueueImplemented` is the refinement, `Spec => ImplementsTaskQueue`, up to the step that overruns the queue.
The fetch-and-inc is `Reserve`, the store of the flag `Publish`, the increment of `get_index_`
`Take`; every other step changes nothing `TaskQueue` sees. `Publish` needs that the flag
stored is the one of the thread's own place and no other's, `Take` that the reader's message is
the abstract head, both of which `IInv` says; the bound on the abstract queue's length is
`OvershootBounded`. So `CellManager`, whose queue has an acceptor, a manager and many senders,
rests on a queue proved of the code as long as that is not overrun; what happens to tasks
after an overrun is not covered by `CellManager`.

**`DrbQueueProofs`**, for any threads and table sizes. `TableInv` says that the table is as
long as its size says except while a thread is between the two stores, and that what this
thread will store is a copy of the table that long; `PageInv` that an entry, once set, stays,
and that two entries are different pages; `CellInv` that a cell whose flag is set holds the message pushed at its place. From them follows
`GetTheorem` (`GetFinds`). `OrderedInv`, while no two pushes have overlapped, says that the
pusher is at most one page behind the end of the table, and that every place counted has its
page and message, so a getter never needs the mutex; `TableTheorem` (`InTable`) follows.

`LogImplemented` is the refinement of `DurableLog`, also when pushes overlap. `PushInv`: pushes
under way have different positions, the position of an unfinished one has no flag, and
`write_index_` is the number of pushes that are finished with it. What the log holds at a place
is what was pushed there, from the moment its flag is set. Flags stay, because a page stays in
every table and its message is never overwritten; `size()` cannot count a place that is not
filled, because each increment belongs to one flag. Steps after an access past the table are not
covered: the model has none.

**`CellManagerProofs`**, for any connections, descriptors, senders and capacities. The
properties hang together over the descriptors: an event names one, a task names one, and the
kernel gives them out again. `StoredInv` says which connection `m_Cell` leads to, with the one
exception inside `handleDel`, `EraseInv` that nothing watches the descriptor between `delete`
and `erase`, even when it has been given out again and stored again, `WatchInv` that epoll watches
only what is stored and announced. `CellsTheorem` and `WatchedTheorem` follow. `OrderInv`
orders the messages of every connection's ring and wire, and those
still in the queue, in one line by their numbers, and gives `WrittenTheorem`; `SenderInv` counts the
senders about to push. `CallbackTheorem` (`Spec => OrderUnlessDoubled`) needs the history
of a descriptor, which has many owners: `OnceInv` says, until two `D` tasks for one descriptor
are in the queue, that a descriptor has one `A` task or one `D` task at most, and neither when the kernel
gives it out again, so what a task names is still the connection it was made for. Refused tasks
and cells lost in an erase only remove tasks and cells, which it allows. With two `D`
tasks the order is broken, which is the finding `callback_order`.

**`RecvBufferProofs`**, for every even buffer size, any header, any streams: `TypeCorrect` (no
read past the buffer's end), `StreamTheorem`, `IntactTheorem`, `FullTheorem`,
`DisjointTheorem`. The invariant adds `ParseInv` to them: what the position in `doRecv`
implies for the buffer. That moved regions cannot overlap follows from half of the size
being where moving starts.

**`SendRingProofs`**, for every ring, socket buffer, number of writes and set of sizes:
`TypeCorrect`, `StreamTheorem`, `OrderTheorem`, `FreedTheorem`, `FailureTheorem`. The
invariant adds that the ring's messages are different ones (`IdsInv`), which `FreedOnce`
needs, and that after a failed write the manager is outside `doSend` with the connection
ended (`FailedInv`). `BetweenPut`, `BetweenGet` and `BetweenWalk` are the facts about
positions that wrap around.

**`ClientBufferProofs`**, for every even buffer size, any header, any streams and any number of
connections. That indexes stay in bounds and copies are disjoint (`DisjointTheorem`) is
inductive with `ParseInv` alone, whatever the bytes say, so it survives the stale bytes of an
old connection. `IntactTheorem` needs `StreamInv`: on the first connection, what lies between
the indexes is the stream from the last message handled on.

**`TcpClientProofs`**, for any readers, senders and descriptors. `SocketInv`: the descriptor in
`_sock` is the client's own unless a thread in `Close` has closed it and not yet reset the
field. `SocketTheorem` (`ClosesItsSocket`) is an action property that follows from it.
`SilentTheorem` (`Patient => (Spec => []NoSilentEnd)`) counts: connections announced are the
disconnections reported or about to be, plus one if the client is still marked connected, at
most (`Balance`); `OrderInv`, which `Patient` gives, says that nothing marks the client
connected between a `Stop` and the next `connect`. `StopTheorem` (`Patient => (Spec =>
StopIsClean)`), an action property, adds `StopInv`: the one descriptor of the client that is open
is the one in `_sock` (`LostInv`), no thread about to reset `_sock` finds a new one there
(`UnsetInv`), the readers inside their loop are `t1` (`ReaderInv`), nobody sends while the
application connects (`QuietInv`), and past its own `Close` the object has no socket (`EndInv`).

**`LifecycleProofs`**, for any number of managers, servers, connections and senders. `IInv` says
what the position of the application's thread implies for every server and part that it has
passed or not yet reached (`ServersInv`, `TurnInv`), when the acceptor may still be accepting
(`AcceptorInv`), and where an open descriptor (`OpenInv`) and a connection (`ConnInv`) may be.
`ClosingInv` says that a connection between `close` and `erase` is the one its manager's thread is
about to erase, so that a thread which has ended leaves none behind and `~cellManager` finds in
`m_Cell` all that is open but the lost. `IInv`
holds whether or not the application waits for its threads, and gives `TypeCorrect` and
`ClosedTheorem` (`StopClosesAll`). `ThreadsInv` and `JoinInv` hold while servers are stopped only
once their threads run, and give `JoinedTheorem`; `SendInv` besides while nobody sends without a
server, and gives `UsedTheorem`.

**Only model-checked**: the liveness properties, since fairness and `ENABLED` are out of the
prover's reach. Every invariant and every action property of a passing run is a theorem, and so
are both refinements.

## Not modelled

- `trace.cpp`, `tools.cpp`, `base.h`: logging, formatting, wrappers of system calls and
  compiler intrinsics, without state of their own that the rest depends on.
- `send_cell` and `micro_buffer`: dead code. The makefile leaves their directory out and nothing
  uses them. The ring of messages that runs is the one of `clientCell` (`SendRing`), and
  `micro_buffer`'s two positions and its compaction are those of `RecvBuffer`.
- The class `thread` of `thread.cpp`, which nothing uses (`process_thread` is in `Lifecycle`),
  and the Windows branches.
- `release` of both queues, which their destructors call: nobody uses the queue by then, except
  in the cases `Lifecycle` records as the use of a deleted object.
- The test applications, except as the senders and callers of the models; the application's own
  callbacks, except that they are told.
- The hash table inside `m_Cell`, and what its concurrent use without a lock does to it: there
  is no faithful set of outcomes to choose from. It is listed as a hazard without a property.
- Reordering of stores: all models are sequentially consistent.
- Memory that is leaked (`drb_queue`'s old tables, an `S` task's copy that nobody takes), and
  the undefined result of `tcpServer::SendData`.
- `SIGPIPE` in a client's `send`, and the `USE_DISPATCH` variant of `OnRecvData`.

## Plan

The refinement between components: that `RecvBuffer` and `SendRing` are what `CellManager`'s
`doRecv` and `doSend` abstract from, stated as mappings and checked.
