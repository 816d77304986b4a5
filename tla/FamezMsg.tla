------------------------------- MODULE FamezMsg -------------------------------
(***************************************************************************)
(* The IVSHMSG mailslot and doorbell protocol as the kernel driver         *)
(* famez.ko and the Python server run it: famez_create_outgoing, the MSI-X *)
(* handler all_msix with famez_link_request, famez_await_incoming and      *)
(* famez_release_incoming behind read(2), and the server's                 *)
(* FAMEZ_MailBox.retrieve and fill.                                        *)
(*                                                                         *)
(* Every peer owns one mailslot in memory shared by all of them.  A sender *)
(* writes its OWN slot and rings the receiver's doorbell; the receiver     *)
(* finds the sender from the interrupt vector, takes the message out of    *)
(* the sender's slot and sets its buflen to zero, which is what allows the *)
(* sender to send again.                                                   *)
(*                                                                         *)
(* A peer of Kernel is a virtual machine with famez.ko and at most one     *)
(* reader and one writer of the bridge device.  A message is abstracted to *)
(* its kind; a slot's `buflen' is the kind whose length was stored, None   *)
(* for zero, so that a length and a body that do not belong together show. *)
(***************************************************************************)
EXTENDS Integers

CONSTANTS
    Kernel,     \* ids of the peers that run famez.ko
    Server,     \* globals->server_id, the id of the Python server
    Readers,    \* ids of those where a process reads the bridge device
    Smart,      \* the server manages the fabric (FALSE is --noPFM)
    UserMsgs,   \* kinds of message that users write to the bridge device
    Addresses,  \* <<SID, CID>> pairs that users write to
    Restarts    \* how often famez_bridge_write restarts (2 in the source)

SID_DEFAULT == 27           \* FAMEZ_SID_DEFAULT
CID_IS_PEER_ID == -42       \* FAMEZ_SID_CID_IS_PEER_ID

None == "none"
Msgs == {"data", "ping", "pong", "attr", "ack", "rfc", "ctl", "sa"}

ASSUME ServerAssumption  == Server \in Nat \ {0}
ASSUME KernelAssumption  == Kernel \subseteq 1 .. (Server - 1)
ASSUME ReaderAssumption  == Readers \subseteq Kernel
ASSUME SmartAssumption   == Smart \in BOOLEAN
ASSUME UserAssumption    == UserMsgs \subseteq Msgs
ASSUME AddressAssumption == Addresses \subseteq Int \X Nat
ASSUME RestartAssumption == Restarts \in Nat

Null  == 0                      \* a NULL incoming_slot; slot 0 is the globals
Ids   == 1 .. Server            \* slots that hold mail
Peers == Kernel \cup {Server}

\* Contexts in which a kernel peer may be inside famez_create_outgoing: the
\* process context 0 (write(2) under wbuf_mutex, or the insmod thread), and
\* the handler of each interrupt vector, named by the sender it stands for.
Process == 0
Contexts == {Process} \cup Ids

VARIABLES
    up,         \* up[n]: where famez_init_one is, or how it ended
    slot,       \* slot[i]: the mailslots in shared memory
    pending,    \* pending[n]: vectors raised at n and not yet serviced
    incoming,   \* incoming[n]: adapter->incoming_slot, the id of the sender
    out,        \* out[n][c]: the famez_create_outgoing in context c of n
    rd,         \* rd[n]: the read(2) of n's reader
    core,       \* core[n]: has a CTL-Write set adapter->core's SID0 and CID0
    srv,        \* the server's thread, inside a callback or idle
    announce,   \* peers whose connectionMade has yet to send Peer-Attribute
    sent        \* history: sent[n], the last message n sent with success

vars == <<up, slot, pending, incoming, out, rd, core, srv, announce, sent>>

Idle == [pc |-> "idle", dest |-> Null, msg |-> None, tries |-> 0]
RdIdle == [pc |-> "idle", from |-> Null, len |-> None, buf |-> None,
           cid |-> 0, ok |-> FALSE]
SrvIdle == [pc |-> "idle", from |-> Null, len |-> None, buf |-> None,
            dest |-> Null, msg |-> None]
NotSent == [to |-> Null, msg |-> None, seen |-> TRUE]

\* FAMEZ_MailBox._initialize_mailbox: an empty slot that knows its peer id.
FreshSlot(i) == [buflen |-> None, buf |-> None, peer_id |-> i, peer_CID |-> 0]

Init ==
    /\ up = [n \in Kernel |-> "off"]
    /\ slot = [i \in Ids |-> FreshSlot(i)]
    /\ pending = [i \in Ids |-> {}]
    /\ incoming = [n \in Kernel |-> Null]
    /\ out = [n \in Kernel |-> [c \in Contexts |-> Idle]]
    /\ rd = [n \in Kernel |-> RdIdle]
    /\ core = [n \in Kernel |-> FALSE]
    /\ srv = SrvIdle
    /\ announce = IF Smart THEN Kernel ELSE {}
    /\ sent = [n \in Kernel |-> NotSent]

-------------------------------------------------------------------------------
(* famez_create_outgoing *)

\* The peer an address names, and the checks that reject one at the start.
PeerOf(SID, CID) == IF SID = CID_IS_PEER_ID THEN CID ELSE CID \div 100

Accepts(SID, CID) ==
    /\ SID \in {SID_DEFAULT, CID_IS_PEER_ID}
    /\ PeerOf(SID, CID) >= 1
    /\ PeerOf(SID, CID) <= Server

Request(dest, msg, tries) ==
    [pc |-> "wait", dest |-> dest, msg |-> msg, tries |-> tries]

\* The body of famez_bridge_write: wbuf_mutex admits one writer at a time,
\* and -ERESTARTSYS is retried.  A rejected address changes nothing.
BridgeWrite(n, SID, CID, msg) ==
    /\ up[n] = "on"
    /\ out[n][Process].pc = "idle"
    /\ Accepts(SID, CID)
    /\ out' = [out EXCEPT ![n][Process] = Request(PeerOf(SID, CID), msg, Restarts)]
    /\ UNCHANGED <<up, slot, pending, incoming, rd, core, srv, announce, sent>>

\* (mutant: the busy flag is not looked at)
SlotReadyUnchecked(n, c) ==
    /\ out[n][c].pc = "wait"
    /\ out' = [out EXCEPT ![n][c].pc = "claim"]
    /\ UNCHANGED <<up, slot, pending, incoming, rd, core, srv, announce, sent>>

\* my_slot->buflen is zero, in the loop or when it is read once more after it.
SlotReady(n, c) ==
    /\ out[n][c].pc = "wait"
    /\ slot[n].buflen = None
    /\ out' = [out EXCEPT ![n][c].pc = "claim"]
    /\ UNCHANGED <<up, slot, pending, incoming, rd, core, srv, announce, sent>>

\* (mutants: one restart too many; restarts without end)
WriteTimeoutOffByOne(n, c) ==
    /\ c = Process /\ up[n] = "on"
    /\ out[n][c].pc = "wait"
    /\ slot[n].buflen # None
    /\ out' = IF out[n][c].tries >= 0
              THEN [out EXCEPT ![n][c].tries = @ - 1]
              ELSE [out EXCEPT ![n][c] = Idle]
    /\ UNCHANGED <<up, slot, pending, incoming, rd, core, srv, announce, sent>>

WriteTimeoutForEver(n, c) ==
    /\ c = Process /\ up[n] = "on"
    /\ out[n][c].pc = "wait"
    /\ slot[n].buflen # None
    /\ out' = [out EXCEPT ![n][c].tries = IF @ > 0 THEN @ - 1 ELSE Restarts]
    /\ UNCHANGED <<up, slot, pending, incoming, rd, core, srv, announce, sent>>

\* PRIOR_RESP_WAIT passes and the slot is still busy: -ERESTARTSYS.  A write
\* tries again or gives up with -ETIMEDOUT, a reply from the interrupt handler
\* is dropped, and famez_init_one fails and tears the adapter down.
WriteTimeout(n, c) ==
    /\ c = Process /\ up[n] = "on"
    /\ out[n][c].pc = "wait"
    /\ slot[n].buflen # None
    /\ out' = IF out[n][c].tries > 0
              THEN [out EXCEPT ![n][c].tries = @ - 1]
              ELSE [out EXCEPT ![n][c] = Idle]
    /\ UNCHANGED <<up, slot, pending, incoming, rd, core, srv, announce, sent>>

\* (mutant: the interrupt handler waits without a limit)
ReplyTimeoutNever(n, c) == FALSE

ReplyTimeout(n, c) ==
    /\ c # Process
    /\ out[n][c].pc = "wait"
    /\ slot[n].buflen # None
    /\ out' = [out EXCEPT ![n][c] = Idle]
    /\ UNCHANGED <<up, slot, pending, incoming, rd, core, srv, announce, sent>>

ProbeTimeout(n, c) ==
    /\ c = Process /\ up[n] = "probing"
    /\ out[n][c].pc = "wait"
    /\ slot[n].buflen # None
    /\ \A s \in Ids : out[n][s].pc = "idle"     \* free_irq waits for handlers
    /\ up' = [up EXCEPT ![n] = "failed"]
    /\ out' = [out EXCEPT ![n][c] = Idle]
    /\ UNCHANGED <<slot, pending, incoming, rd, core, srv, announce, sent>>

\* The stores, in program order: buflen, then the body.  (last_responder only
\* ever feeds a log message and is left out.)
ClaimSlot(n, c) ==
    /\ out[n][c].pc = "claim"
    /\ slot' = [slot EXCEPT ![n].buflen = out[n][c].msg]
    /\ out' = [out EXCEPT ![n][c].pc = "copy"]
    /\ UNCHANGED <<up, pending, incoming, rd, core, srv, announce, sent>>

FillSlot(n, c) ==
    /\ out[n][c].pc = "copy"
    /\ slot' = [slot EXCEPT ![n].buf = out[n][c].msg]
    /\ out' = [out EXCEPT ![n][c].pc = "ring"]
    /\ UNCHANGED <<up, pending, incoming, rd, core, srv, announce, sent>>

\* A doorbell for an id that no peer holds is dropped by QEMU.
Raise(dest, from) ==
    pending' = IF dest \in Peers
               THEN [pending EXCEPT ![dest] = @ \cup {from}] ELSE pending

\* The Doorbell store, and the return of buflen, which ends famez_init_one.
RingDoorbell(n, c) ==
    /\ out[n][c].pc = "ring"
    /\ Raise(out[n][c].dest, n)
    /\ sent' = [sent EXCEPT ![n] = [to |-> out[n][c].dest,
                                    msg |-> out[n][c].msg, seen |-> FALSE]]
    /\ up' = [up EXCEPT ![n] = IF c = Process THEN "on" ELSE @]
    /\ out' = [out EXCEPT ![n][c] = Idle]
    /\ UNCHANGED <<slot, incoming, rd, core, srv, announce>>

-------------------------------------------------------------------------------
(* famez_init_one: the adapter, its interrupts, the first message *)

\* famez_adapter_create clears the whole of its own slot, famez_ISR_setup
\* arms the vectors, and the server is asked for its attributes.
InitOne(n) ==
    /\ up[n] = "off"
    /\ up' = [up EXCEPT ![n] = "probing"]
    /\ slot' = [slot EXCEPT ![n] = [FreshSlot(n) EXCEPT !.peer_id = 0]]
    /\ out' = [out EXCEPT ![n][Process] = Request(Server, "attr", 0)]
    /\ UNCHANGED <<pending, incoming, rd, core, srv, announce, sent>>

\* QEMU consumes an event for a device whose MSI-X is not enabled.
QemuDrops(n, s) ==
    /\ up[n] \in {"off", "failed"}
    /\ s \in pending[n]
    /\ pending' = [pending EXCEPT ![n] = @ \ {s}]
    /\ UNCHANGED <<up, slot, incoming, out, rd, core, srv, announce, sent>>

-------------------------------------------------------------------------------
(* all_msix and famez_link_request *)

\* A ping must match exactly; the other two match on the body alone.
IsLinkRequest(m) ==
    \/ m.buf = "ping" /\ m.buflen = "ping"
    \/ m.buf \in {"attr", "ctl"}

LinkReply == [ping |-> "pong", attr |-> "ack", ctl |-> "sa"]

\* An interrupt line is not re-entered while its handler runs.
Raised(n, s) ==
    /\ up[n] \in {"probing", "on"}
    /\ s \in pending[n]
    /\ out[n][s].pc = "idle"

\* The handler gets incoming_slot_lock; what it does under the lock is a step,
\* as is what read(2) does under it.
Interrupt(n, s) ==
    /\ Raised(n, s)
    /\ pending' = [pending EXCEPT ![n] = @ \ {s}]

\* read(2) takes the lock in famez_release_incoming without disabling
\* interrupts, and before it lets go the interrupt arrives on its processor:
\* the handler spins for ever on top of the one that would unlock.
MsixSpins(n, s) ==
    /\ Raised(n, s)
    /\ rd[n].pc = "release"
    /\ rd' = [rd EXCEPT ![n].pc = "hung"]
    /\ UNCHANGED <<up, slot, pending, incoming, out, core, srv, announce, sent>>

Seen(s) == IF s \in Kernel THEN [sent EXCEPT ![s].seen = TRUE] ELSE sent

\* (mutant: the handler lets go of incoming_slot as well)
MsixLinkRequestReleases(n, s) ==
    /\ Interrupt(n, s)
    /\ IsLinkRequest(slot[s])
    /\ slot' = [slot EXCEPT ![s].peer_CID = slot[s].peer_id * 100,
                            ![s].buflen = None]
    /\ incoming' = [incoming EXCEPT ![n] = Null]
    /\ core' = [core EXCEPT ![n] = @ \/ slot[s].buf = "ctl"]
    /\ out' = IF Accepts(CID_IS_PEER_ID, slot[s].peer_id)
              THEN [out EXCEPT ![n][s] =
                      Request(slot[s].peer_id, LinkReply[slot[s].buf], 0)]
              ELSE out
    /\ sent' = Seen(s)
    /\ UNCHANGED <<up, rd, srv, announce>>

\* famez_link_request takes the message: free the sender's slot under the
\* lock, drop the lock, answer the peer_id found in the slot.
MsixLinkRequest(n, s) ==
    /\ Interrupt(n, s)
    /\ IsLinkRequest(slot[s])
    /\ slot' = [slot EXCEPT ![s].peer_CID = slot[s].peer_id * 100,
                            ![s].buflen = None]
    /\ core' = [core EXCEPT ![n] = @ \/ slot[s].buf = "ctl"]
    /\ out' = IF Accepts(CID_IS_PEER_ID, slot[s].peer_id)
              THEN [out EXCEPT ![n][s] =
                      Request(slot[s].peer_id, LinkReply[slot[s].buf], 0)]
              ELSE out
    /\ sent' = Seen(s)
    /\ UNCHANGED <<up, incoming, rd, srv, announce>>

\* (mutant: the slot is freed before the read)
MsixDeliverFrees(n, s) ==
    /\ Interrupt(n, s)
    /\ ~ IsLinkRequest(slot[s])
    /\ slot' = [slot EXCEPT ![s].peer_CID = slot[s].peer_id * 100,
                            ![s].buflen = None]
    /\ incoming' = [incoming EXCEPT ![n] = s]
    /\ out' = [out EXCEPT ![n][s].pc = "wake"]
    /\ UNCHANGED <<up, rd, core, srv, announce, sent>>

\* Anything else is left for read(2), over whatever was left there before, and
\* the lock is dropped.
MsixDeliver(n, s) ==
    /\ Interrupt(n, s)
    /\ ~ IsLinkRequest(slot[s])
    /\ slot' = [slot EXCEPT ![s].peer_CID = slot[s].peer_id * 100]
    /\ incoming' = [incoming EXCEPT ![n] = s]
    /\ out' = [out EXCEPT ![n][s].pc = "wake"]
    /\ UNCHANGED <<up, rd, core, srv, announce, sent>>

\* wake_up, with the lock no longer held: it finds nobody on the queue, or the
\* reader, asleep or about to test, which will go round its wait loop.
MsixWake(n, s) ==
    /\ out[n][s].pc = "wake"
    /\ rd' = [rd EXCEPT ![n].pc = IF @ \in {"queued", "sleep"}
                                  THEN "prepare" ELSE @]
    /\ out' = [out EXCEPT ![n][s] = Idle]
    /\ UNCHANGED <<up, slot, pending, incoming, core, srv, announce, sent>>

-------------------------------------------------------------------------------
(* famez_bridge_read: famez_await_incoming, the copy, famez_release_incoming *)

\* incoming_slot is set, at the first test or at a test of the wait loop.  The
\* pointer returned is read once more, but only this reader resets it.
AwaitFound(n) ==
    /\ up[n] = "on"
    /\ rd[n].pc \in {"idle", "queued"}
    /\ incoming[n] # Null
    /\ rd' = [rd EXCEPT ![n] = [RdIdle EXCEPT !.pc = "copy",
                                              !.from = incoming[n]]]
    /\ UNCHANGED <<up, slot, pending, incoming, out, core, srv, announce, sent>>

\* incoming_slot is NULL: enter the wait loop, or, on the queue already, sleep.
\* (A nonblocking read returns -EAGAIN and has changed nothing.)
AwaitEmpty(n) ==
    /\ up[n] = "on"
    /\ rd[n].pc \in {"idle", "queued"}
    /\ incoming[n] = Null
    /\ rd' = [rd EXCEPT ![n].pc = IF @ = "queued" THEN "sleep" ELSE "prepare"]
    /\ UNCHANGED <<up, slot, pending, incoming, out, core, srv, announce, sent>>

\* (mutant: the reader queues and sleeps on the strength of the test before)
AwaitQueueUntested(n) ==
    /\ rd[n].pc = "prepare"
    /\ rd' = [rd EXCEPT ![n].pc = "sleep"]
    /\ UNCHANGED <<up, slot, pending, incoming, out, core, srv, announce, sent>>

\* prepare_to_wait_event: on the queue, not yet asleep, the test still to come.
AwaitQueue(n) ==
    /\ rd[n].pc = "prepare"
    /\ rd' = [rd EXCEPT ![n].pc = "queued"]
    /\ UNCHANGED <<up, slot, pending, incoming, out, core, srv, announce, sent>>

\* A signal wakes the reader, or is pending when it is about to queue and ends
\* the wait unless there is a message.
AwaitSignal(n) ==
    /\ rd[n].pc = "sleep"
    /\ rd' = [rd EXCEPT ![n].pc = "prepare"]
    /\ UNCHANGED <<up, slot, pending, incoming, out, core, srv, announce, sent>>

AwaitInterrupted(n) ==
    /\ rd[n].pc = "prepare"
    /\ incoming[n] = Null
    /\ rd' = [rd EXCEPT ![n] = RdIdle]
    /\ UNCHANGED <<up, slot, pending, incoming, out, core, srv, announce, sent>>

\* The header and the body reach the user, or neither is used: the buffer is
\* too short or a copy_to_user faults.
ReadCopy(n, ok) ==
    /\ rd[n].pc = "copy"
    /\ LET m == slot[rd[n].from] IN
         rd' = [rd EXCEPT ![n].pc = "release", ![n].ok = ok,
                  ![n].len = m.buflen, ![n].buf = m.buf, ![n].cid = m.peer_CID]
    /\ sent' = Seen(rd[n].from)
    /\ UNCHANGED <<up, slot, pending, incoming, out, core, srv, announce>>

\* (mutant: incoming_slot is not reset)
ReleaseIncomingKeeps(n) ==
    /\ rd[n].pc = "release"
    /\ incoming[n] # Null
    /\ slot' = [slot EXCEPT ![incoming[n]].buflen = None]
    /\ rd' = [rd EXCEPT ![n] = RdIdle]
    /\ UNCHANGED <<up, pending, incoming, out, core, srv, announce, sent>>

\* Whatever incoming_slot points to by now is what is freed.
ReleaseIncoming(n) ==
    /\ rd[n].pc = "release"
    /\ incoming[n] # Null
    /\ slot' = [slot EXCEPT ![incoming[n]].buflen = None]
    /\ incoming' = [incoming EXCEPT ![n] = Null]
    /\ rd' = [rd EXCEPT ![n] = RdIdle]
    /\ UNCHANGED <<up, pending, out, core, srv, announce, sent>>

-------------------------------------------------------------------------------
(* The server: one thread, one slot for all of its correspondents *)

\* connectionMade ends with a Peer-Attribute request when the server is smart.
SrvAnnounce(d) ==
    /\ srv.pc = "idle"
    /\ d \in announce
    /\ announce' = announce \ {d}
    /\ srv' = [SrvIdle EXCEPT !.pc = "fill", !.dest = d, !.msg = "attr"]
    /\ UNCHANGED <<up, slot, pending, incoming, out, rd, core, sent>>

\* EventfdReader.doRead resets the event, retrieve copies the message ...
SrvRetrieve(s) ==
    /\ srv.pc = "idle"
    /\ s \in pending[Server]
    /\ pending' = [pending EXCEPT ![Server] = @ \ {s}]
    /\ srv' = [SrvIdle EXCEPT !.pc = "clear", !.from = s,
                              !.len = slot[s].buflen, !.buf = slot[s].buf]
    /\ sent' = Seen(s)
    /\ UNCHANGED <<up, slot, incoming, out, rd, core, announce>>

\* handle_request: what the server answers.  A Standalone Acknowledgment is
\* followed by Peer-Attribute when its tag is one of the server's.
SrvAnswers(len, buf) ==
    CASE len # buf                -> {None}
      [] buf = "ping"             -> {"pong"}
      [] buf = "attr"             -> {"ack"}
      [] buf = "rfc" /\ Smart     -> {"ctl"}
      [] buf = "sa"  /\ Smart     -> {"attr", None}
      [] OTHER                    -> {None}

\* ... and zeroes its length; then the handler runs.
SrvHandle(answer) ==
    /\ srv.pc = "clear"
    /\ answer \in SrvAnswers(srv.len, srv.buf)
    /\ slot' = [slot EXCEPT ![srv.from].buflen = None]
    /\ srv' = IF answer = None THEN SrvIdle
              ELSE [SrvIdle EXCEPT !.pc = "fill", !.dest = srv.from,
                                   !.msg = answer]
    /\ UNCHANGED <<up, pending, incoming, out, rd, core, announce, sent>>

\* fill waits 1.05 s for its slot and then stomps on what is still there.
SrvFill ==
    /\ srv.pc = "fill"
    /\ slot' = [slot EXCEPT ![Server].buflen = srv.msg]
    /\ srv' = [srv EXCEPT !.pc = "kick"]
    /\ UNCHANGED <<up, pending, incoming, out, rd, core, announce, sent>>

SrvKick ==
    /\ srv.pc = "kick"
    /\ slot' = [slot EXCEPT ![Server].buf = srv.msg]
    /\ Raise(srv.dest, Server)
    /\ srv' = SrvIdle
    /\ UNCHANGED <<up, incoming, out, rd, core, announce, sent>>

-------------------------------------------------------------------------------

CreateOutgoing(n, c) ==
    \/ SlotReady(n, c) \/ ClaimSlot(n, c) \/ FillSlot(n, c) \/ RingDoorbell(n, c)
    \/ WriteTimeout(n, c) \/ ReplyTimeout(n, c) \/ ProbeTimeout(n, c)

AllMsix(n, s) == MsixLinkRequest(n, s) \/ MsixDeliver(n, s)

\* One vector's handler: entered when idle, then in one place at a time.
Handler(n, s) == AllMsix(n, s) \/ MsixWake(n, s) \/ CreateOutgoing(n, s)

BridgeRead(n) ==
    \/ AwaitFound(n) \/ AwaitEmpty(n) \/ AwaitQueue(n)
    \/ AwaitSignal(n) \/ AwaitInterrupted(n)
    \/ \E ok \in BOOLEAN : ReadCopy(n, ok)
    \/ ReleaseIncoming(n)

ServerStep ==
    \/ \E s \in Ids : SrvRetrieve(s) \/ SrvAnnounce(s)
    \/ \E a \in Msgs \cup {None} : SrvHandle(a)
    \/ SrvFill \/ SrvKick

\* A machine that spins for ever is followed no further: what its other
\* processors may still do, they may do before the interrupt comes.
Hung(n) == rd[n].pc = "hung"

Next ==
    \/ \E n \in Kernel : ~ Hung(n) /\
         \/ InitOne(n)
         \/ n \in Readers /\ BridgeRead(n)
         \/ \E a \in Addresses, m \in UserMsgs : BridgeWrite(n, a[1], a[2], m)
         \/ CreateOutgoing(n, Process)
         \/ \E s \in Ids : Handler(n, s) \/ MsixSpins(n, s) \/ QemuDrops(n, s)
    \/ ServerStep

Spec == Init /\ [][Next]_vars

\* On a machine that is not hung, a thread inside famez_create_outgoing and a
\* reader inside the kernel keep running, and an interrupt that is pending and
\* not in service is taken (the spinlock serves its waiters in turn) and its
\* handler gets to its wake_up.  The Python thread keeps running.  Nobody has
\* to write or to read, and no signal has to come.
Fairness ==
    /\ \A n \in Kernel :
         /\ WF_vars(~ Hung(n) /\ CreateOutgoing(n, Process))
         /\ \A s \in Ids : WF_vars(~ Hung(n) /\ Handler(n, s))
         /\ WF_vars(rd[n].pc \notin {"idle", "sleep"} /\ BridgeRead(n))
    /\ WF_vars(ServerStep)

FairSpec == Spec /\ Fairness

-------------------------------------------------------------------------------
(* Properties *)

Maybe(S) == S \cup {None}
SlotType == [buflen : Maybe(Msgs), buf : Maybe(Msgs), peer_id : 0 .. Server,
             peer_CID : Nat]
OutType  == [pc : {"idle", "wait", "claim", "copy", "ring", "wake"},
             dest : 0 .. Server, msg : Maybe(Msgs), tries : 0 .. Restarts]
RdType   == [pc : {"idle", "prepare", "queued", "sleep", "copy", "release",
                   "hung"},
             from : 0 .. Server, len : Maybe(Msgs), buf : Maybe(Msgs),
             cid : Nat, ok : BOOLEAN]
SrvType  == [pc : {"idle", "clear", "fill", "kick"}, from : 0 .. Server,
             len : Maybe(Msgs), buf : Maybe(Msgs), dest : 0 .. Server,
             msg : Maybe(Msgs)]
SentType == [to : 0 .. Server, msg : Maybe(Msgs), seen : BOOLEAN]

\* Every variable keeps to the values its code can give it; in particular no
\* step leaves 0 .. server_id in a peer id, an incoming_slot or a doorbell.
TypeOK ==
    /\ up \in [Kernel -> {"off", "probing", "on", "failed"}]
    /\ slot \in [Ids -> SlotType]
    /\ pending \in [Ids -> SUBSET Ids]
    /\ incoming \in [Kernel -> 0 .. Server]
    /\ out \in [Kernel -> [Contexts -> OutType]]
    /\ rd \in [Kernel -> RdType]
    /\ core \in [Kernel -> BOOLEAN]
    /\ srv \in SrvType
    /\ announce \subseteq Kernel
    /\ sent \in [Kernel -> SentType]

\* Slot s holds, whole, the message its owner sent last, and it is for x.
HoldsMailFor(s, x) ==
    /\ sent[s].msg # None
    /\ slot[s].buflen = sent[s].msg
    /\ slot[s].buf = sent[s].msg
    /\ sent[s].to = x

\* buflen is the handshake: from the doorbell until the receiver lets go of
\* it, a kernel peer's slot keeps the message that was sent.  A vector not yet
\* serviced, and an incoming_slot not yet released, therefore always lead to
\* a slot with the last message its owner sent, to this very peer.
DoorbellMeansMail ==
    /\ \A x \in Ids, s \in Kernel : s \in pending[x] => HoldsMailFor(s, x)
    /\ \A x \in Kernel, s \in Kernel : incoming[x] = s => HoldsMailFor(s, x)

\* A read(2) that returns a message of a kernel peer returns all of it and
\* nothing else, and returns it to the peer it was sent to, although neither
\* the wait nor the copy holds incoming_slot_lock.
ReadIntact ==
    \A x \in Kernel :
        (rd[x].pc = "release" /\ rd[x].ok /\ rd[x].from \in Kernel) =>
            /\ rd[x].len = sent[rd[x].from].msg
            /\ rd[x].buf = sent[rd[x].from].msg
            /\ sent[rd[x].from].to = x

\* No message of a kernel peer is handed over twice: whoever is about to take
\* one (the interrupt handler, the server, a read) is the first to do so.
HandedOverOnce ==
    \A s \in Kernel :
        /\ \A x \in Ids : s \in pending[x] => ~ sent[s].seen
        /\ \A x \in Kernel :
             (rd[x].pc = "copy" /\ rd[x].from = s) => ~ sent[s].seen

\* famez_release_incoming dereferences incoming_slot without a test: with one
\* reader it is never NULL there, whatever the interrupt handler did since.
ReleaseHasSlot ==
    \A x \in Kernel : rd[x].pc = "release" => incoming[x] # Null

\* A reader that sleeps on incoming_slot_wqh although incoming_slot is set has
\* a wake_up coming: the handler that set it is between its unlock and its
\* wake_up.  The reader tests incoming_slot and queues without any lock, and
\* the handler stores it and wakes in two steps.
NoLostWakeup ==
    \A x \in Kernel :
        (rd[x].pc = "sleep" /\ incoming[x] # Null) =>
            \E s \in Ids : out[x][s].pc = "wake"

\* Every famez_create_outgoing returns, and so does every handler: the bounded
\* wait and the two restarts leave no writer and no interrupt handler inside
\* it for ever.  Only a machine hung in all_msix is excepted.
OutgoingReturns ==
    \A n \in Kernel, c \in Contexts :
        out[n][c].pc # "idle" ~> (out[n][c].pc = "idle" \/ Hung(n))

\* Every interrupt of a running driver is serviced, however long the handlers
\* of other vectors spin in famez_create_outgoing and however often read(2)
\* takes the lock, or else one came on top of the read(2) that held the lock
\* and the machine hangs: spin_lock without irqsave leaves no third outcome.
InterruptsServed ==
    \A n \in Kernel, s \in Ids :
        (up[n] = "on" /\ s \in pending[n]) ~> (s \notin pending[n] \/ Hung(n))
===============================================================================
