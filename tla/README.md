# A TLA+ model of FAME-Z

FAME-Z joins virtual machines into an emulated Gen-Z fabric. QEMU gives every
machine an IVSHMEM device: a piece of memory shared by all of them, and one
doorbell per pair of machines. A Python server hands out ids and event
descriptors and acts as the switch; a kernel driver and a character device let
users of a machine exchange messages through mailslots in the shared memory.

This directory models the parts of that system whose correctness depends on
order, concurrency and failure, checks them with TLC on small instances, and
proves the central properties with TLAPS for every value of the constants.
Paths below are relative to the repository, `PROJECT.json` gives the lines each
definition models.

## The system

| Component | State | Operations | Meets the others in |
|---|---|---|---|
| Messaging in `famez.ko` (`famez_IVSHMSG.c`, `famez_MSI-X.c`, `famez_link.c`) | own mailslot, `incoming_slot`, wait queue | `famez_create_outgoing`, `all_msix`, `famez_link_request`, `famez_await_incoming`, `famez_release_incoming` | mailslots and doorbells of all peers |
| Bridge file (`fz_bridge.c`) | `nr_users`, `outgoing` | open, flush, release, read, write, poll | `famez_adapter`, messaging |
| Probe and removal (`famez_pci.c`, `famez_adapter.c`, `famez_MSI-X.c`) | adapter, BARs, vectors, `famez_adapter_list`, `famez_adapter_sema` | `famez_init_one`, `famez_remove_one` | PCI core, list, first message to the server |
| Registration (`famez_register.c`, `genz_device.c`) | minor bitmap, device nodes | `famez_register`, `genz_register_bridge`, `famez_deregister` | list and semaphore of `famez.ko` |
| Gen-Z bus and class (`genz_bus.c`, `genz_class.c`) | bus and class registrations | module init and exit | driver core |
| Server membership (`twisted_server.py`) | `SI.clients`, `SI.recycled`, a proxy per connection | `connectionMade`, `connectionLost`, `create_new_peer_id`, `send_initial_info` | UNIX sockets, mailbox |
| Mailbox (`famez_mailbox.py`) | the shared file | initialise, retrieve, fill, clear | all peers |
| Link protocol (`famez_requests.py`) | tags, trackers, attributes | handlers for ping, Link RFC, CTL, acknowledgment | mailbox, doorbells |
| Python client (`twisted_client.py`) | `id2fd_list`, `id2EN_list`, nodenames | `dataReceived`, `connectionLost`, commands | server's socket, mailbox |
| Event notifiers (`ivshmem_eventfd.py`) | eventfds | incr, reset, doRead | Twisted reactor |
| Driver in one module (`kernel/famez/monolithic`) | `legible_slot`, two semaphores, the resources of the probe | `famez_probe`, `famez_remove`, `all_msix`, `bridge_read`, `bridge_write` | mailslots, PCI core |
| QEMU's server and client (`docs/ivshmem-server`, `docs/ivshmem-client`) | `cur_id`, `peer_list`, a client's table of peers | accept, notify, free, close; connect, handle a message, ring | UNIX sockets, eventfds, signals |
| Command lines, experiments | – | argument parsing, scratch programs | – |

What is hard in it, and what has to be right:

* **Mailslots.** There is one slot per sender and no queue. `buflen` is a
  handshake between machines that share no lock: the sender may write when it is
  zero, the receiver zeroes it. The sender may be in process context and in
  several interrupt handlers at once; the receiver copies without a lock, and
  its `incoming_slot` is a single pointer that the next interrupt overwrites. A
  message must stay whole until taken, be taken once, by its addressee, and
  nobody may wait for ever.
* **Membership.** Clients come, crash and come back while the stream that
  describes the others is still in their sockets, and a send that fails is
  swallowed. Ids must be unique and doorbells must reach the present holder of
  an id.
  QEMU's own server and client, whose protocol the Python server repeats, do
  the same with non-blocking sockets whose full buffers lose notifications, a
  16 bit id that comes round, and a signal handler.
* **The bridge file.** A counter and a pointer in the adapter stand for a user,
  while the kernel calls flush and release by its own reference counts.
* **Probe and removal.** A dozen places can fail; threads for several devices
  and a loading bridge driver share the list of adapters.
* **Semaphores in an interrupt handler.** The driver in one module waits for a
  semaphore in `all_msix`, and signals end waits in the middle of a protocol.

The full list of hazards, each at its line, is in `PROJECT.json`.

## The modules

| Module | Models | Proofs |
|---|---|---|
| `FamezMsg` | messaging in `famez.ko`, read and write, the server's mailbox thread and its answers | `FamezMsgProofs` |
| `IvshmsgServer` | server membership and the Python client's tables | `IvshmsgServerProofs` |
| `BridgeFile` | open, flush, release and the file references around them | `BridgeFileProofs` |
| `FamezDriver` | probe, removal, adapter list, registration, minors, load and unload of `genz.ko` | `FamezDriverProofs` |
| `Membership` | what an ivshmem server promises: the abstract specification | `MembershipProofs` (that `IvshmsgServer` implements it) |
| `Ivshmem` | QEMU's ivshmem server and client, with their sockets and deaths | `IvshmemProofs`, `IvshmemTableProofs` |
| `Monolithic` | the driver in one module: probe, removal, interrupts, reads, writes | `MonolithicProofs` |

`IvshmsgServer` (without recycling) and `Ivshmem` both implement `Membership`:
each has an `INSTANCE Membership WITH` its refinement mapping, and `Implements`
is checked as a property and proved as a theorem. The two servers share no code and no data structure;
what they have in common is stated once.

The `MC...` modules add addresses or symmetry sets for TLC. A definition whose
comment says "mutant" is not part of any specification: it is a plausible bug,
kept so that each property can be shown to notice one.

### FamezMsg

A peer of `Kernel` is a machine with `famez.ko`, one reader and one writer;
`Server` is the Python server, whose id is the highest. Variables follow the
code: `slot[i]` is `struct famez_mailslot` (the `buflen`, the body, `peer_id`,
`peer_CID`), `incoming[n]` is `adapter->incoming_slot`, `pending[n]` the MSI-X
vectors raised and not serviced, `out[n][c]` the `famez_create_outgoing` that
context `c` of machine `n` is in: the process context (write(2) under
`wbuf_mutex`, or insmod), or the handler of the vector of sender `c`.

`famez_create_outgoing` is split where others can see a difference: the test of
`buflen` (`SlotReady`, or one of three time-outs with the three callers'
reactions), the store of `buflen` (`ClaimSlot`), the copy (`FillSlot`), the
doorbell (`RingDoorbell`). What `all_msix` does under `incoming_slot_lock` is one
step: up to the point where `famez_link_request` drops the lock to answer (the
answer is then an `out` in that vector's context), or up to the store of
`incoming_slot` (`MsixDeliver`). Its `wake_up` comes after the unlock and is a
step of its own (`MsixWake`).

read(2) takes no lock while it waits, so each of its steps is separate:
`AwaitFound` and `AwaitEmpty` are the tests of `incoming_slot`, the first one and
those of the loop in `wait_event_interruptible`; `AwaitQueue` puts the reader on
the queue, after which it tests once more before it sleeps; `AwaitSignal` and
`AwaitInterrupted` are signals. `ReadCopy` and `ReleaseIncoming` follow.
`famez_release_incoming` takes the spinlock with interrupts enabled. An interrupt
on that processor before the unlock makes `all_msix` spin on top of the holder:
`MsixSpins`. The machine is then `Hung` and followed no further. The server's
single thread retrieves, clears, handles and fills in steps of its own.

A message is its kind. `buflen` holds the kind whose length was stored, so a
length and a body that do not belong together are visible. `sent` is a history
variable: what a machine sent last and whether somebody has taken it.

### IvshmsgServer

The server is one reactor thread, so `ConnectionMade` (with `buildProtocol`) and
`ConnectionLost` are single steps, with everything they send. What they send
waits in `inbox[c]` until the client's recvmsg returns a `Chunk` of it: up to
and with the first descriptor, or less. `ivshmem_send_one_msg` catches every
exception, and nobody looks at its result except for the version, which is sent
into an empty socket: `SendFails` takes any other message on a connection of
`Lossy` out of its queue, a whole batch or some of its descriptors (`Torn`). It
does so while the message is within reach of the next recvmsg, the latest moment
at which its absence makes a difference, which keeps the graph small and loses no
behaviour of the client. `missed` is a history variable: the clients to which a send
failed. An eventfd list is named by the
connection that created it, so that a stale list shows. A new connection after
a crash is a new element of `Conns`. `Recycle`, `Smart` and `DiesUnaccepted`
select the server's options and whether clients may disappear between
connect(2) and accept.

### BridgeFile

An element of `Files` is one open(2). `ref[f]` counts what holds a reference on
it: descriptors, calls in progress, and closes before flush, between flush's
test of `f_count` and its decrement, and after it. The last reference to go
starts release. `overlapped` is a history variable.

### FamezDriver

`res[d]` is the set of things the driver holds for a device, so that each error
path shows what it gives back. `list`, `sema`, `minors` and `nodes` are the
code's globals; `stale` marks list entries whose adapter was freed, and a walk
that meets one oopses. `Down` and `DownInterrupted` model
`down_interruptible` with its result ignored. `faulted` is a history variable: a signal broke a wait for the
semaphore, or the first message of a probe timed out. `genz` and `classes`
follow `genz_bus_init`, which registers the classes one by one and then the bus,
and `genz_bus_exit`; a bridge driver can load only when `genz.ko` has, and pins
it.

### Membership

`holds` gives each connection its id, `view` what its client can ring. A view
lags, but only takes in connections that joined, and lets go of one only when
that one has left or the client has ended its own connection. The abstract
specification has no sockets, lists or messages.

### Ivshmem

The server is one thread around `select`: `LoopTest`, `EnterSelect` and
`SelectReturns` are separate because SIGTERM may come between them. Accepting a
connection computes all that `handle_new_conn` is going to send (`sends`), and
each `sendmsg` is a step (`SendOne`): clients read, and die, in between. A
descriptor is named by the connection and vector it was made for. `Room` is the
buffer of a socket: a send into a full one is ignored by the server, except for
the initial info; `lost` is a history variable that marks its connection. The
client reads version, id and memory (`ReadInfo`), then peers
(`HandleServerMsg`); whatever it cannot accept, and the end of the file, make it
close and start again (`Disconnect`). `ReadReset` is the `recvmsg` error that an
unsigned comparison hides. The refinement mapping takes `Present` (the list and
the one being accepted) for the holders of ids, and the owners of the
descriptors in a client's table for its view.

### Monolithic

`stage` and `held` follow `famez_probe` and `famez_remove` through their error
paths, and what a path forgets to free stays in `held`: the configuration after a
failed `mapBARs`, the lookup and its name after a failed `misc_register`, `wbuf`
when the device goes under an open file. A greeting that fails leaves the device
`stranded`, with everything registered and no driver. `famez_remove` asks nobody:
`unplugged` says that the file is still open. A call that comes later reads a
freed lookup (`CallUnplugged`), and a call inside when `destroy_config` runs goes
on with freed locks (`DestroyUnderCall`); both are a `Crash`. `irqs` are the
vectors attached. `pc[t]` is a thread in `bridge_read` or
`bridge_write`; the semaphores are counts. `victim[s]` is the thread that the
handler for sender `s` interrupted: it stands still until the handler returns,
which is how a handler comes to wait for a lock that can no longer be given
back. `MsixBug` is what `monolithic/famez.h:17-19` warns of: the handler has to
sleep, for the slot or for the semaphore, and the kernel goes down with
"scheduling while atomic". It may also get away with it. `badLock` and `badUps` are history variables for the two waits that a
signal can end: in `all_msix`, which then posts without the lock, and in
`bridge_write`, which then gives back a semaphore it never had. Overlapping
opens and closes are `BridgeFile`'s, and senders that pass the test of the slot
together are `FamezMsg`'s.

## The runs

| Run | Instance | Shows |
|---|---|---|
| `msg_mail` | two machines, server with `--noPFM` | `DoorbellMeansMail`, `ReadIntact`, `HandedOverOnce` |
| `msg_progress` | one machine that writes to itself, managing server, one restart | `TypeOK`, `ReleaseHasSlot`, `NoLostWakeup`, `OutgoingReturns`, `InterruptsServed` |
| `server_recycle` | three connections, two ids, recycling, random ids, sends to one client fail | `TypeOK`, `IdsUnique`, `DoorbellsReach` |
| `server_norecycle` | three connections, two ids, sends to one client fail | `TablesCurrent`, `DeadSlotCleared`, `Implements` |
| `server_progress` | two connections, two ids, all sends may fail, clients stop at any moment | `JoinEnds`, `LeaverForgotten` |
| `bridge` | three opens, three references | `TypeOK`, `Exclusive`, `WritesOwnBuffers`, `NothingLeft` |
| `driver` | two devices, one bridge driver, two classes, two interrupts, every fault | `TypeOK`, `Unwound`, `WalkSafe`, `MinorsDistinct`, `ProbeEnds` |
| `ivshmem` | two clients, three connections, two ids, a buffer of four messages, every fault | `TypeOK`, `IdsUnique`, `TableFollows`, `StaysConnected`, `NothingLeft`, `Implements`, `QuitTaken`, `Settles`, `LossNoticed` |
| `mono` | two threads, two senders, every fault | `TypeOK`, `LocksBalance`, `ReleasesWhatItRead`, `CallsLive`, `CallsEnd` |
| `msg_stomp` | one machine, managing server | violates `DoorbellMeansMail` |
| `server_unaccepted` | a client gone before accept | violates `OnlyMembersRemoved` |
| `bridge_bug` | one open | violates `NoBug` |

The last three are disagreements between the code and its own comments or
assertions, quoted in `PROJECT.json`.

1. *Two senders, one slot.* The test of `buflen` and the store are not one step.
   A sender in process context and a reply from the interrupt handler of the same
   machine both pass the test; the first message is overwritten although its
   doorbell rings. In TLC's trace the sender is `famez_init_one` with its first
   message, while the server's Peer-Attribute is being answered; write(2) goes
   through the same `famez_create_outgoing` in the same context.
2. *A stranger's id is removed.* A connection that failed at the first send
   keeps an id it does not own; when it is lost, the member with that id goes.
3. *BUG_ON in release.* A close that overlaps a read finds `f_count` 2, does not
   count the user out, and the last reference reaches `BUG_ON(nr_users)`.

**Bounds.** Two machines are what a handshake needs to go wrong between a
sender, a receiver and the server, and one machine with several vectors is what
contention for one slot needs; larger instances only repeat these pairs, and
where the claim is for any number it is proved. One machine with a reader
(`Readers`) is enough for the wait queue, the spinlock and the time-outs of
`msg_progress`; it writes to itself (`MCToSelf`), so that its own handler
contends with its writer, and the server's Peer-Attribute makes handlers answer.
A Link RFC with the CTL-Write and Standalone Acknowledgment it leads to makes the
liveness graph too large; it is in the instance of `msg_stomp`, and the theorems
on types and readers cover it. Three connections over two ids let an id change
hands while another client watches, and let the third be refused; `Lossy` holds
one of them, so a client that misses messages is beside two that do not. In
`server_progress` both miss messages.
Three opens let one be rejected while another is in release. Two devices and a
driver are the smallest set in which two walks of the list collide; two
interrupts let the second request fail after the first succeeded;
`MINORBITS = 2` lets the search run out. `Restarts` is 0 or 1 instead of 2: each
restart repeats the same wait. In `ivshmem` two ids and three connections make
`cur_id` come round and meet an id still in use, and let the search fail; a
buffer of four holds the initial info and one notification, so notifications do
get lost; one vector and one start of the server keep the graph within reach,
so the order of several vectors is not covered by that run, nor is a second
start (which `bind` refuses while the path exists). In `mono` two threads are a
reader and a writer, or two of a kind; two senders are what it takes for a
second interrupt to find the slot of the first.

**Symmetry** is used for opens, and for connections on which no send fails, in
runs without liveness properties.

**Deadlock** is checked in `msg_mail` and `mono`. In the other runs the
system may really stop: all connections used up, all opens done, a task dead
after an oops, a lone machine whose probe failed.

**Fairness.** `FamezMsg`: weak fairness for a thread inside
`famez_create_outgoing`, whose wait is bounded by `PRIOR_RESP_WAIT`; for a
vector that is pending or whose handler runs; for a reader that is inside the
kernel and not asleep; and for the server's reactor. All but the last hold on a
machine that is not `Hung`: the spinlock gives no more than that. No interrupt
has to come on top of the reader, no signal is owed, and nobody is obliged to
read, to write or to load the driver. `IvshmsgServer`: weak fairness of both reactors for a socket that is
ready; no send has to fail and none has to succeed. `FamezDriver`: weak fairness of a walk, strong fairness of a probe and a
removal, because the kernel's semaphore queues its waiters first come, first
served; no signal is ever owed. `Ivshmem`: weak fairness of the server's thread
and of each client's reading; nobody has to connect, type, fail or die, and no
signal is owed. `Monolithic`: strong fairness of a handler, which may wait for
the semaphore (`up` hands it to the one that waited longest), and of a thread
that has its lock (interrupts may stop it, again and again, but not for ever). A
handler that has to sleep may end in `MsixBug` instead.

What the liveness properties say is as narrow as the code makes it.
`OutgoingReturns` and `InterruptsServed` except a hung machine, and
`InterruptsServed` says that nothing else keeps an interrupt from being served.
`JoinEnds` excepts a client to which a send failed: such a client may wait for
its batch for ever. `QuitTaken` starts from a server that is not between its test of the flag
and `select`. `Settles` speaks of clients that lost no notification. `CallsEnd`
names the two ways in which handlers and writes do not end: `all_msix` waits on
top of the reader that holds its lock, or the kernel has gone down.

## What is proved

All theorems hold for every value of the constants that satisfies the named
assumptions of the modules.

* `TypeCorrect` (`FamezMsgProofs`): `Spec => []TypeOK`. `TypeOK` alone is not
  inductive: `PcInv` adds what the program counters imply (a vector stands for a
  peer, an `out` in progress has a message, a read in progress a sender).
* `DoorbellTheorem`, `ReadIntactTheorem`, `HandedOverOnceTheorem`: assuming the
  server does not manage the fabric (`~ Smart`), a message stays whole and with
  its addressee from its doorbell until it is released, a read returns all of
  it, and nobody takes it twice. The inductive invariant says: whoever has a
  reason to look into a slot (`Holds`: a vector, an `incoming_slot`, a read, a
  retrieve) finds the message meant for it and the slot's owner is not past the
  test of `buflen` (`MailInv`); one message raises one interrupt (`OnceInv`);
  a slot is as full as its owner's program counter says (`FillInv`); and no
  interrupt handler answers (`SilentInv`). The last is why the assumption is
  needed: with a managing server, handlers do answer, and `msg_stomp` is the
  counterexample. It holds among kernel peers because each of them has wiped the
  `peer_id` its correspondents would answer to.
* `ReleaseHasSlotTheorem`, `NoLostWakeupTheorem`: with any server, a read that
  has found a message finds `incoming_slot` set until it releases it, although
  interrupts replace it meanwhile; and when a reader sleeps while it is set, a
  handler is between its store and its `wake_up`. The invariant (`ReaderInv`)
  relates the reader's program counter to `incoming_slot` and to the handlers
  that have still to wake somebody. What carries it is the second test, after the
  reader is on the queue: a store before that test is seen by it, and a store
  after it has its `wake_up` still to come.
* `ExclusiveTheorem` (`BridgeFileProofs`): whatever calls overlap, the bridge
  device has one user. `nr_users` is not the number of users (see `bridge_bug`),
  but it is never less than the number of opens in progress and files somebody
  still uses (`CountInv`), so an open that finds zero is alone (`OneInv`).
  `BridgeTypeTheorem`, `WritesOwnBuffersTheorem`, `NothingLeftTheorem` add what
  holds while no two calls have overlapped (`FullInv`): at most one file is
  inside a call, at most one is past the test in open, its buffers are its own,
  and then `nr_users` does count the users exactly.
  `NoBugTheorem` is the other side of `bridge_bug`: without overlap
  `BUG_ON(nr_users)` never fails, so a test of single calls cannot find it.
* `DriverTypeTheorem`, `UnwoundTheorem`, `WalkSafeTheorem`,
  `MinorsDistinctTheorem` (`FamezDriverProofs`): types, error paths, the list and
  the minors. `ResInv` ties the set of resources held to the place a probe or a
  removal has reached, `SemaInv` the semaphore to who may be walking the list,
  `ClassInv` the registered classes to the state of `genz.ko`. The search for a
  minor needs that the least free number exists when the bitmap is not full, and
  that numbers below the bound are not all taken by fewer nodes.
* `MonoTypeTheorem`, `LocksBalanceTheorem`, `ReleasesTheorem`, `CallsLiveTheorem`
  (`MonolithicProofs`). The balance of the two semaphores is not inductive by
  itself, because every probe makes them anew: `StageInv` (what is held at each
  stage of probe and removal) and `FileInv` (no call without an open file, no
  open file without a registered device, unless it was unplugged and the
  removal is under way) say that nobody is inside a call then. `CallsLive` says
  who may rely on what: a handler on everything, a call on everything unless the
  device was removed under its file, and then on the configuration until
  `destroy_config`; and that a removal, or a probe that fails before its
  greeting, gives back all but the memory the code leaks.
* `IdsUniqueTheorem` (`IvshmsgServerProofs`): assuming no client disappears
  before it is accepted, ids are unique. The invariant says that `SI.clients`
  holds exactly the connections that were made, each at its id.
  `OnlyMembersRemovedTheorem` follows from the same invariant: losing a
  connection takes no other's id. Without the assumption `server_unaccepted`
  refutes it. `ServerTypeTheorem` (from `BaseInv`) and `DeadSlotTheorem` (from
  `NameInv`: a slot that carries a nodename has a connected owner) need no such
  assumption; none of them depends on which sends fail. `DoorbellsTheorem` has it
  too, and rests on `EnInv` and `ToldInv`: with recycling, the eventfds of an id
  are made once, and everything a client has or is about to read of an id are
  those.
* `TablesCurrentTheorem`, `ImplementsTheorem` (`MembershipProofs`): without
  recycling, and if no client disappears before it is accepted, a client to which
  no send failed and that has read everything knows the present members, and
  server and clients implement `Membership` whatever sends fail. The tables lag
  behind by what is in the sockets, so the invariant is about histories: for each
  client and each id, the table's entry followed by the messages on the way.
  Every holder it names but the last is lost, and all have held the id (`Past`);
  this holds for every client, because a failed send only takes an element out of
  the history, and it is what the refinement needs. As long as no send failed the
  history also ends with the present holder (`EndsWith`), which gives the tables.
  Reading a message drops the first element of the history, a join or a loss
  appends one.
* `TypeTheorem`, `NothingLeftTheorem`, `IdsUniqueTheorem`, `ImplementsTheorem`
  (`IvshmemProofs`): for QEMU's server and client, with lost notifications,
  deaths, failures and reuse of ids, and no hypothesis beyond the assumptions on
  the constants. `PlaceInv` and `ConnInv` say that a connection is in one place
  (to be made, in the backlog, being accepted, in the list, freed) and that its
  socket and its eventfds are open in the places where the code owns them;
  `InfoInv` relates what a client has read of the initial info to what is in its
  buffer and what is still to be sent, which is why the id a client takes for
  its own is the server's. For the refinement, `NameInv` says that an
  advertisement of a connection carries that connection's id, and `GoneInv` that
  whatever a client has heard, or is about to hear, of an id before the
  notification of its loss is about connections that have left: this is
  why a client never lets go of a peer that is there, although the ids come
  round and notifications get lost. The lists that `handle_new_conn` works off
  are built by `FlattenSeq`; what their elements are is shown once, by taking a
  shortest prefix that fails.

* `TableFollowsTheorem`, `StaysConnectedTheorem` (`IvshmemTableProofs`): what is
  in a client's buffer, and what the handler at work has still to send, makes
  the client's table the list of peers with all their vectors, in order
  (`Foreseen(c) = Directory`), and the client accepts each message of it, as
  long as none was lost. `TableFollows` is not inductive: it says what a table
  becomes, not that each step of the way is acceptable. `TableInv` says both,
  with `Leads(n, i, t, s, u)`: there is a sequence of tables from `t` to `u`, one
  per message of `s`, each the next one's predecessor by an acceptable message.
  Its second part is about `handle_new_conn` while it sends the initial info: a
  failure there drops the new connection and all that was to be sent of it, so
  what the others have in their buffers must lead to the directory without it.
  The handlers append what leads from one directory to the next (`AdvertsLead`
  for all vectors of one peer, `NewConnLeads` for a newcomer, who hears of
  everybody while everybody hears of it, `FreeLeads` for a departure); a client
  that reads takes the front off. `FoldIs` closes the gap to the fold that
  `Foreseen` is written with: the community module's `FoldLeft` takes its
  arguments in the order of their numbers by a function that is chosen by its
  equation, so the equation is first shown to have a solution.

The assumptions on constants are the ones each module names. Beyond saying that
a bound is a number and a flag is Boolean they say: `Null` and `None`, which stand
for the code's null pointers, are not also a connection, a thread or a
descriptor; machines have ids between 1 and the server's; a socket's buffer has
room for the three messages of the initial info (`SockBufAssumption`); a client
takes as many vectors as the server makes; `cur_id` has at least two values;
there are finitely many threads, senders and opens.

Only model-checked is liveness (`OutgoingReturns`, `InterruptsServed`,
`JoinEnds`, `LeaverForgotten`, `ProbeEnds`, `QuitTaken`, `Settles`,
`LossNoticed`, `CallsEnd`), which the proof system does not handle. `Membership`
has no fairness, so the two refinements are of safety only.

Every invariant and every action property of the passing runs is stated by a
theorem. The three runs that end in a violation each have a theorem that says
when the violated property does hold: while the server does not manage the
fabric, while no two calls overlap, while every client lives to be accepted.

## Other disagreements the models show

These are behaviours of the modelled code that need no run of their own.

Messaging, server and driver:

* `famez_IVSHMSG.c:126`: `famez_release_incoming` uses `incoming_slot` again
  after the copy. If another message came meanwhile, the read frees that one
  unread, and the slot it did read stays busy. The driver in one module does
  not have this: there the lock is kept through the copy (`ReleasesWhatItRead`).
* `famez_MSI-X.c:53` overwrites an `incoming_slot` that nobody has read. The slot
  of that sender is never freed, and each of its later sends times out.
* `famez_IVSHMSG.c:125` takes the spinlock of `all_msix` with interrupts enabled;
  an interrupt on the same processor spins for ever (`MsixSpins`).
* `famez_pci.c:123`: a probe whose first message times out frees an adapter that
  is already on `famez_adapter_list`.
* `famez_adapter.c:178` clears the slot with its `peer_id`, which `famez.h:49`
  says the server sets; every sender then has CID 0, and pings between drivers
  are answered to peer 0, that is, dropped.
* `twisted_server.py:163` does not advertise a peer with a recycled id; a client
  that joined while the id was vacant never learns of it, while
  `docs/ivshmem-spec.txt:160` promises connect notifications.
* `twisted_server.py:228` announces the loss of a refused connection, id -1, to
  all clients; `twisted_client.py:213` asserts that ids are not negative.
* `ivshmem_sendrecv.py:35` swallows failed sends. A client that misses a batch of
  its first pass may never be ready; one that misses a later batch, or a
  departure, keeps a table that is wrong.
* `twisted_client.py:209`: a disconnect notification that comes with the batch
  after it in one recvmsg fails the assertion on 8 bytes.
* `twisted_client.py:176` wants the initial info in one piece; the server sends
  it as three messages.
* `twisted_server.py:222` returns before `clear_mailslot` when recycling, so a
  killed peer's nodename stays, unlike `famez_mailbox.py:235` says.
* `famez_register.c:79`: `famez_deregister` does nothing, so device nodes
  outlive the driver that `fz_bridge.c:325` says is unbound.
* `genz_device.c:110` searches `GENZ_MINORBITS` (14) bits of a bitmap of 16k.
* `genz_bus.c`: `genz_bus_exit` leaves the device `genz_dev_root` that
  `genz_bus_init` registers.

QEMU's server and client:

* `docs/ivshmem-server/main.c:152`: a SIGTERM between the test of the flag and
  `select` is only noticed after the next event.
* `docs/ivshmem-spec.txt:216` has a peer's vectors come in order from 0. A full
  buffer drops some of them and the server goes on, so a client may number
  vector 1 as 0.
* `ivshmem-server.c:184`: a client that has gone before it was accepted makes
  `handle_new_conn` fail, and with it the loop and the server.
* `ivshmem-server.c:160`: the search for an id gives up one short of all ids.
* `ivshmem-client.c:48` compares the result of `recvmsg`, -1 on error, with an
  unsigned size: the error is not noticed there.
* `ivshmem-client.c:132`: a vector too many is refused without closing the
  descriptor that came with it.
* The path of the socket stays after `listen` failed or the server was killed,
  and the next start fails.

The driver in one module:

* `famez_bridge.c:259`: an interrupted wait for `wbuf_lock` goes to a label that
  gives the semaphore back; from then on two writers share one buffer.
* `famez_MSI-X.c:114` waits in interrupt context for a lock that the interrupted
  thread may hold, and sleeps there, which `famez.h:17` knows to end in a BUG.
* `famez_config.c:282` removes the device under an open file; `:299` only remarks
  on it.
* `famez_config.c`: a failure of `mapBARs` leaves the configuration allocated; a
  failure of `misc_register` leaves the bridge's tables allocated; a greeting
  that fails leaves everything registered (the slots the server makes are large
  enough for it).

## Not modelled

* `alloc_genzdev`, `register_genzdev` and `genz_init_one`: nothing in the
  repository registers a device or driver with the Gen-Z bus that makes the core
  call them.
* The mailbox's byte layout and `calculate_mailslot`, the read and write formats
  and their length tests (`fz_bridge.c:172`), poll (it changes nothing).
* A second reader of the same file of `fz_bridge` (`famez_IVSHMSG.c:105`). What
  other processors still do after one of them spins for ever.
* Removal of a device under an open file in `famez.ko` (`famez_pci.c:164`); in the
  driver in one module, what the file does after `destroy_config`, and a second
  probe after a failed greeting.
* A version that does not fit into a new socket: its send is the one whose result
  the Python server looks at, and it fails in the model only when the client has
  gone.
* Tags and trackers of the Link protocol (`famez_requests.py:88`); the server's
  own slot as its readers see it (`famez_mailbox.py:226`); messages that Python
  clients send.
* The server's silent mode, dump commands, command lines, logging; QEMU's option
  parsing.
* The experiments: scratch programs that write to the bridge in a loop.

## Plan

1. *Link protocol*: the tag table, CTL-Write and acknowledgment with lost and
   repeated answers; the server's own slot and the stomping in `fill`.
2. *More of the kernel side*: a second reader; `BridgeFile` composed with removal
   of the device under open files; lengths in the read and write formats and the
   mailbox layout.
