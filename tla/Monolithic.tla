------------------------------ MODULE Monolithic ------------------------------
(***************************************************************************)
(* The driver in one module (kernel/famez/monolithic): the probe and       *)
(* removal of one device, its interrupt handler, and the reads and writes  *)
(* of threads that share one open file.                                    *)
(*                                                                         *)
(* The locks are semaphores that a signal may stop the wait for.  all_msix *)
(* takes one too, in interrupt context: when it has to wait, the task that *)
(* it interrupted waits with it, and a signal for that task ends the wait, *)
(* or the kernel finds it "scheduling while atomic" and goes down.         *)
(* Peers are whoever rings and reads.  Opens and closes that overlap with  *)
(* calls are the same statements as in BridgeFile and are left to it.      *)
(***************************************************************************)
EXTENDS Integers, FiniteSets

CONSTANTS
    Threads,    \* threads that use the file
    Senders,    \* peers with a mailslot; a vector is known by its sender
    Null

ASSUME ThreadsAssumption == IsFiniteSet(Threads) /\ Threads # {}
ASSUME SendersAssumption == IsFiniteSet(Senders)
ASSUME NullAssumption    == Null \notin Threads \cup Senders

VARIABLES
    stage,          \* how far famez_probe or famez_remove has come
    held,           \* what they have taken and not given back
    irqs,           \* vectors that request_irq has attached to all_msix
    unplugged,      \* was the device removed under an open file
    file,           \* is the bridge open
    pc,             \* pc[t]: where thread t is in bridge_read or bridge_write
    slot,           \* slot[t]: legible_slot in bridge_read
    legible_slot,   \* config->legible_slot
    legible_lock,   \* count of config->legible_slot_lock
    wbuf_lock,      \* count of buffers->wbuf_lock
    hpc,            \* hpc[s]: where all_msix is for the vector of s
    victim,         \* victim[s]: the thread it runs on top of
    msglen,         \* is my_slot->msglen not zero
    badLock,        \* history: all_msix has gone on while a reader had the lock
    badUps          \* history: how often bridge_write gave back what it never had

probe  == <<stage, held, irqs, unplugged>>
bridge == <<file, pc, slot, wbuf_lock, badUps>>
isr    == <<hpc, victim, badLock>>
legible == <<legible_slot, legible_lock>>
vars   == <<probe, bridge, isr, legible, msglen>>

AllIdle   == [t \in Threads |-> "idle"]
NoSlots   == [t \in Threads |-> Null]
Quiet     == [s \in Senders |-> "idle"]
NoVictims == [s \in Senders |-> Null]

Init ==
    /\ stage = "none" /\ held = {} /\ irqs = {} /\ unplugged = FALSE
    /\ file = FALSE /\ wbuf_lock = 1 /\ badUps = 0 /\ pc = AllIdle /\ slot = NoSlots
    /\ legible_slot = Null /\ legible_lock = 1
    /\ hpc = Quiet /\ victim = NoVictims /\ badLock = FALSE
    /\ msglen = FALSE

\* The kernel goes down; the mailslot is in the memory of the host.
Crash ==
    /\ stage' = "crashed" /\ held' = {} /\ irqs' = {} /\ unplugged' = FALSE
    /\ file' = FALSE /\ wbuf_lock' = 1 /\ badUps' = 0 /\ pc' = AllIdle /\ slot' = NoSlots
    /\ legible_slot' = Null /\ legible_lock' = 1
    /\ hpc' = Quiet /\ victim' = NoVictims /\ badLock' = FALSE
    /\ UNCHANGED msglen

-------------------------------------------------------------------------------
(* famez_sendmail, for a writer, the handler's pong and the probe's greeting *)

\* Interrupted threads stand still.
Runs(t) == \A s \in Senders : victim[s] # t

\* Once the slot is free, or half a second has passed and a message is stomped
\* on, the slot is filled and the doorbell rung.  The test and the stores are
\* one step here; senders that pass the test together are in FamezMsg.
SendReady == ~ msglen /\ msglen' = TRUE
SendStomps == msglen /\ UNCHANGED msglen

\* (mutant: nothing is stomped on)
SendmailPatient == SendReady

Sendmail == SendReady \/ SendStomps

\* The peer has read the message.
PeerFrees ==
    /\ msglen
    /\ msglen' = FALSE
    /\ UNCHANGED <<probe, bridge, isr, legible>>

-------------------------------------------------------------------------------
(* famez_probe and famez_remove *)

Goes(from, to) == stage = from /\ stage' = to
Users == <<unplugged, bridge, isr>>

Reboot ==
    /\ Goes("crashed", "none")
    /\ UNCHANGED <<held, irqs, Users, legible, msglen>>

\* pci_enable_device.  What an earlier probe leaked is out of reach.
Enable ==
    /\ Goes("none", "enabled")
    /\ held' = {"enabled"}
    /\ UNCHANGED <<irqs, Users, legible, msglen>>

\* Not an IVSHMSG device, or no memory for the configuration.
ProbeEarlyFails ==
    /\ Goes("enabled", "none")
    /\ held' = held \ {"enabled"}
    /\ UNCHANGED <<irqs, Users, legible, msglen>>

\* (mutant: the semaphore starts at two)
CreateConfigTwo ==
    /\ Goes("enabled", "config")
    /\ held' = held \cup {"config"}
    /\ legible_slot' = Null /\ legible_lock' = 2
    /\ UNCHANGED <<irqs, Users, msglen>>

\* create_config up to mapBARs.
CreateConfig ==
    /\ Goes("enabled", "config")
    /\ held' = held \cup {"config"}
    /\ legible_slot' = Null /\ legible_lock' = 1
    /\ UNCHANGED <<irqs, Users, msglen>>

BARs == {"regions", "regs", "globals"}

MapBARs ==
    /\ Goes("config", "mapped")
    /\ held' = held \cup BARs
    /\ UNCHANGED <<irqs, Users, legible, msglen>>

\* mapBARs gives back what it took, but create_config returns without freeing
\* the configuration; the driver core forgets the pointer to it.
MapBARsFails ==
    /\ Goes("config", "none")
    /\ held' = held \ {"enabled"}
    /\ UNCHANGED <<irqs, Users, legible, msglen>>

\* The rest of create_config; the slot is wiped.
MsixEntries ==
    /\ Goes("mapped", "created")
    /\ held' = held \cup {"entries"} /\ msglen' = FALSE
    /\ UNCHANGED <<irqs, Users, legible>>

\* destroy_config.
Config == BARs \cup {"config", "entries"}

\* The globals do not fit, or no memory: destroy_config, then the device is
\* disabled.
CreateFails ==
    /\ Goes("mapped", "none")
    /\ held' = held \ (Config \cup {"enabled"})
    /\ UNCHANGED <<irqs, Users, legible, msglen>>

AllocVectors ==
    /\ Goes("created", "irqs")
    /\ held' = held \cup {"vectors"}
    /\ UNCHANGED <<irqs, Users, legible, msglen>>

\* Too few vectors: the entries stay for destroy_config; or none could be
\* allocated: they are freed here.
NoVectors ==
    /\ Goes("created", "disable")
    /\ held' \in {held, held \ {"entries"}}
    /\ UNCHANGED <<irqs, Users, legible, msglen>>

RequestIrq(s) ==
    /\ stage = "irqs" /\ s \notin irqs
    /\ irqs' = irqs \cup {s}
    /\ UNCHANGED <<stage, held, Users, legible, msglen>>

RequestIrqFails ==
    /\ Goes("irqs", "teardown") /\ irqs # Senders
    /\ UNCHANGED <<held, irqs, Users, legible, msglen>>

\* The lookup with its name, and misc_register.
BridgeSetup ==
    /\ Goes("irqs", "misc") /\ irqs = Senders
    /\ held' = held \cup {"lookup", "misc"}
    /\ UNCHANGED <<irqs, Users, legible, msglen>>

\* (mutant: the error of the bridge goes to the label after the tear-down)
BridgeSetupFailsLate ==
    /\ Goes("irqs", "disable") /\ irqs = Senders
    /\ held' \in {held, held \cup {"lookup"}}
    /\ UNCHANGED <<irqs, Users, legible, msglen>>

\* No memory; or misc_register failed, and nobody frees the lookup.
BridgeSetupFails ==
    /\ Goes("irqs", "teardown") /\ irqs = Senders
    /\ held' \in {held, held \cup {"lookup"}}
    /\ UNCHANGED <<irqs, Users, legible, msglen>>

\* The device goes on the list, where it cannot be already: it is there only
\* while it is bound or stranded.  Then the greeting.
ProbeDone ==
    /\ Goes("misc", "bound")
    /\ held' = held \cup {"listed"} /\ Sendmail
    /\ UNCHANGED <<irqs, Users, legible>>

\* The greeting does not fit into the slot: the probe fails and undoes nothing.
\* The driver core has no driver to remove, so the vectors, the bridge and the
\* list entry stay.  (A later probe finds the regions taken; not followed.)
ProbeGreetFails ==
    /\ Goes("misc", "stranded")
    /\ held' = held \cup {"listed"}
    /\ UNCHANGED <<irqs, Users, legible, msglen>>

\* famez_remove, by rmmod or by an unbind, which no open file prevents, up to
\* famez_bridge_teardown: the lookup goes although an open file refers to it.
Remove ==
    /\ Goes("bound", "teardown")
    /\ held' = held \ {"lookup", "misc"}
    /\ unplugged' = file
    /\ UNCHANGED <<irqs, bridge, isr, legible, msglen>>

\* free_irq waits for a handler that runs.
FreeIrq(s) ==
    /\ stage = "teardown" /\ s \in irqs /\ hpc[s] = "idle"
    /\ irqs' = irqs \ {s}
    /\ UNCHANGED <<stage, held, Users, legible, msglen>>

FreeVectors ==
    /\ Goes("teardown", "disable") /\ irqs = {}
    /\ held' = held \ {"vectors", "entries"}
    /\ UNCHANGED <<irqs, Users, legible, msglen>>

\* Threads inside a call.
Inside == {t \in Threads : pc[t] # "idle"}

\* pci_disable_device, the list, and destroy_config.  If the file is open its
\* buffers go, wbuf is leaked, and the file is not followed further.
Destroy ==
    /\ Goes("disable", "none") /\ Inside = {}
    /\ held' = (held \ (Config \cup {"enabled", "listed"}))
                 \cup (IF file THEN {"wbuf"} ELSE {})
    /\ unplugged' = FALSE /\ file' = FALSE /\ wbuf_lock' = 1 /\ badUps' = 0
    /\ UNCHANGED <<irqs, pc, slot, isr, legible, msglen>>

\* A call that is still inside goes on with locks and a queue that are freed.
DestroyUnderCall ==
    /\ stage = "disable" /\ Inside # {}
    /\ Crash

ProbeStep ==
    \/ Reboot \/ Enable \/ ProbeEarlyFails \/ CreateConfig \/ MapBARs \/ MapBARsFails
    \/ MsixEntries \/ CreateFails \/ AllocVectors \/ NoVectors \/ RequestIrqFails
    \/ BridgeSetup \/ BridgeSetupFails \/ ProbeDone \/ ProbeGreetFails
    \/ Remove \/ FreeVectors \/ Destroy \/ DestroyUnderCall
    \/ \E s \in Senders : RequestIrq(s) \/ FreeIrq(s)

-------------------------------------------------------------------------------
(* all_msix *)

\* A thread that sleeps is not on a processor.
Interruptible ==
    {t \in Threads : pc[t] \in {"test", "copy", "body", "send"} /\ Runs(t)}

Handler(s, from, to) == hpc[s] = from /\ hpc' = [hpc EXCEPT ![s] = to]

\* (mutant: the slot is posted before the lock is asked for)
InterruptPosts(s) ==
    /\ s \in irqs /\ hpc[s] = "idle"
    /\ \E to \in {"pong", "lock"} : hpc' = [hpc EXCEPT ![s] = to]
    /\ \E t \in Interruptible \cup {Null} : victim' = [victim EXCEPT ![s] = t]
    /\ legible_slot' = s
    /\ UNCHANGED <<probe, bridge, badLock, legible_lock, msglen>>

\* A peer has rung; the handler starts on top of some thread, or of none of
\* these.  A "ping" is answered, anything else is for a reader.
Interrupt(s) ==
    /\ s \in irqs /\ hpc[s] = "idle"
    /\ \E to \in {"pong", "lock"} : hpc' = [hpc EXCEPT ![s] = to]
    /\ \E t \in Interruptible \cup {Null} : victim' = [victim EXCEPT ![s] = t]
    /\ UNCHANGED <<probe, bridge, badLock, legible, msglen>>

\* famez_sendmail, whose sleeps for the slot have come to an end.
MsixPong(s) ==
    /\ Handler(s, "pong", "idle") /\ Sendmail
    /\ victim' = [victim EXCEPT ![s] = Null]
    /\ UNCHANGED <<probe, bridge, badLock, legible>>

\* The semaphore is free, or became so while the handler waited.
MsixLock(s) ==
    /\ Handler(s, "lock", "locked")
    /\ legible_lock > 0 /\ legible_lock' = legible_lock - 1
    /\ UNCHANGED <<probe, bridge, victim, badLock, legible_slot, msglen>>

\* Who has legible_slot_lock in famez_await_legible_slot or bridge_read.
Readers == {t \in Threads : pc[t] \in {"test", "copy"}}

\* bad_lock: a signal for the interrupted task ends the wait.
MsixBadLock(s) ==
    /\ Handler(s, "lock", "idle")
    /\ legible_lock = 0
    /\ legible_slot' = s /\ badLock' = (Readers # {})
    /\ victim' = [victim EXCEPT ![s] = Null]
    /\ UNCHANGED <<probe, bridge, legible_lock, msglen>>

\* A slot that nobody has read is stomped.  wake_up makes readers look again.
MsixPost(s) ==
    /\ Handler(s, "locked", "idle")
    /\ legible_slot' = s /\ legible_lock' = legible_lock + 1
    /\ victim' = [victim EXCEPT ![s] = Null]
    /\ UNCHANGED <<probe, bridge, badLock, msglen>>

\* The handler has to sleep, for the slot or for the semaphore, and that does
\* not end well: "scheduling while atomic".
MsixBug(s) ==
    /\ (hpc[s] = "pong" /\ msglen) \/ (hpc[s] = "lock" /\ legible_lock = 0)
    /\ Crash

\* What the handler does when nothing, or no more, keeps it waiting.
AllMsix(s) == MsixPong(s) \/ MsixLock(s) \/ MsixPost(s)

-------------------------------------------------------------------------------
(* The device file *)

At(t, from, to) == pc[t] = from /\ Runs(t) /\ pc' = [pc EXCEPT ![t] = to]

\* A call finds the configuration by way of the lookup, and starts with its
\* lock: down_interruptible takes it, or waits.
Calls(t, to) == file /\ ~ unplugged /\ At(t, "idle", to)
Downs(t, at, to) == Calls(t, to) \/ At(t, at, to)

\* A call or a close after famez_bridge_teardown reads a freed lookup.
CallUnplugged(t) ==
    /\ unplugged /\ pc[t] = "idle"
    /\ Crash

\* bridge_open: the only user gets buffers with a lock of their own.
Open ==
    /\ "misc" \in held /\ ~ file
    /\ file' = TRUE
    /\ UNCHANGED <<probe, pc, slot, wbuf_lock, badUps, isr, legible, msglen>>

\* bridge_flush and bridge_release, with no call inside: the buffers go, and
\* the next ones have a fresh lock.
Close ==
    /\ file /\ ~ unplugged /\ Inside = {}
    /\ file' = FALSE /\ wbuf_lock' = 1 /\ badUps' = 0
    /\ UNCHANGED <<probe, pc, slot, isr, legible, msglen>>

\* bridge_read calls famez_await_legible_slot.
ReadWait(t) ==
    /\ legible_lock = 0
    /\ Calls(t, "rlock")
    /\ UNCHANGED <<probe, file, slot, wbuf_lock, badUps, isr, legible, msglen>>

ReadLock(t) ==
    /\ Downs(t, "rlock", "test")
    /\ legible_lock > 0 /\ legible_lock' = legible_lock - 1
    /\ UNCHANGED <<probe, file, slot, wbuf_lock, badUps, isr, legible_slot, msglen>>

\* There is a slot to read, with the lock held.
ReadFound(t) ==
    /\ At(t, "test", "copy")
    /\ legible_slot # Null
    /\ slot' = [slot EXCEPT ![t] = legible_slot]
    /\ UNCHANGED <<probe, file, wbuf_lock, badUps, isr, legible, msglen>>

\* Nothing yet: the lock is given back, and the reader sleeps or, with
\* O_NONBLOCK, returns.
ReadNothing(t) ==
    /\ legible_slot = Null
    /\ At(t, "test", "sleep") \/ At(t, "test", "idle")
    /\ legible_lock' = legible_lock + 1 /\ badLock' = FALSE
    /\ UNCHANGED <<probe, file, slot, wbuf_lock, badUps, hpc, victim, legible_slot,
                   msglen>>

\* A signal ends the wait for the lock, or for a slot.
ReadInterrupted(t) ==
    /\ (At(t, "rlock", "idle") /\ legible_lock = 0) \/ At(t, "sleep", "idle")
    /\ UNCHANGED <<probe, file, slot, wbuf_lock, badUps, isr, legible, msglen>>

ReadWoken(t) ==
    /\ legible_slot # Null
    /\ At(t, "sleep", "rlock")
    /\ UNCHANGED <<probe, file, slot, wbuf_lock, badUps, isr, legible, msglen>>

\* The copy is done, or failed: famez_release_legible_slot.
ReadRelease(t) ==
    /\ At(t, "copy", "idle")
    /\ slot' = [slot EXCEPT ![t] = Null]
    /\ legible_slot' = Null /\ legible_lock' = legible_lock + 1 /\ badLock' = FALSE
    /\ UNCHANGED <<probe, file, wbuf_lock, badUps, hpc, victim, msglen>>

WriteWait(t) ==
    /\ wbuf_lock = 0
    /\ Calls(t, "wlock")
    /\ UNCHANGED <<probe, file, slot, wbuf_lock, badUps, isr, legible, msglen>>

WriteLock(t) ==
    /\ Downs(t, "wlock", "body")
    /\ wbuf_lock > 0 /\ wbuf_lock' = wbuf_lock - 1
    /\ UNCHANGED <<probe, file, slot, badUps, isr, legible, msglen>>

\* The wait is interrupted, and unlock_return gives back what it never had.
WriteInterrupted(t) ==
    /\ At(t, "wlock", "idle")
    /\ wbuf_lock = 0 /\ wbuf_lock' = 1 /\ badUps' = badUps + 1
    /\ UNCHANGED <<probe, file, slot, isr, legible, msglen>>

\* The text is copied and split, and is good.
WriteSplit(t) ==
    /\ At(t, "body", "send")
    /\ UNCHANGED <<probe, file, slot, wbuf_lock, badUps, isr, legible, msglen>>

\* (mutant: a text that is refused returns at once)
WriteRefusedKeeps(t) ==
    /\ At(t, "body", "idle")
    /\ UNCHANGED <<probe, file, slot, wbuf_lock, badUps, isr, legible, msglen>>

\* A bad address, no colon, no peer, or too long.
WriteRefused(t) ==
    /\ At(t, "body", "idle")
    /\ wbuf_lock' = wbuf_lock + 1
    /\ UNCHANGED <<probe, file, slot, badUps, isr, legible, msglen>>

WriteSend(t) ==
    /\ At(t, "send", "idle") /\ Sendmail
    /\ wbuf_lock' = wbuf_lock + 1
    /\ UNCHANGED <<probe, file, slot, badUps, isr, legible>>

\* What a thread does by itself once it has the lock it needs.
Proceeds(t) ==
    \/ ReadFound(t) \/ ReadNothing(t) \/ ReadRelease(t)
    \/ WriteSplit(t) \/ WriteRefused(t) \/ WriteSend(t)

Call(t) ==
    \/ CallUnplugged(t) \/ ReadWait(t) \/ ReadLock(t) \/ ReadInterrupted(t)
    \/ ReadWoken(t) \/ WriteWait(t) \/ WriteLock(t) \/ WriteInterrupted(t)
    \/ Proceeds(t)

-------------------------------------------------------------------------------

Next ==
    \/ ProbeStep \/ PeerFrees \/ Open \/ Close
    \/ \E s \in Senders :
         Interrupt(s) \/ AllMsix(s) \/ MsixBadLock(s) \/ MsixBug(s)
    \/ \E t \in Threads : Call(t)

Spec == Init /\ [][Next]_vars

\* Code that has its lock runs on, between interrupts too; up() hands the
\* semaphore to the one who has waited longest, so a handler that waits is not
\* passed over for ever.  A handler that sleeps may instead be a BUG.
FairSpec ==
    /\ Spec
    /\ \A s \in Senders : SF_vars(AllMsix(s))
    /\ \A t \in Threads : SF_vars(Proceeds(t))

-------------------------------------------------------------------------------
(* Properties *)

Writers == {t \in Threads : pc[t] \in {"body", "send"}} \* in wbuf
Active  == {s \in Senders : hpc[s] # "idle"}

\* Every thread and handler is at a place the code has, and no semaphore
\* counts below zero or, where nothing was interrupted, above one.
TypeOK ==
    /\ stage \in {"none", "enabled", "config", "mapped", "created", "irqs", "misc",
                  "bound", "stranded", "teardown", "disable", "crashed"}
    /\ held \subseteq Config \cup {"enabled", "vectors", "lookup", "misc", "listed", "wbuf"}
    /\ irqs \subseteq Senders /\ unplugged \in BOOLEAN
    /\ file \in BOOLEAN /\ msglen \in BOOLEAN /\ badLock \in BOOLEAN
    /\ pc \in [Threads -> {"idle", "rlock", "test", "sleep", "copy", "wlock", "body",
                           "send"}]
    /\ slot \in [Threads -> Senders \cup {Null}]
    /\ legible_slot \in Senders \cup {Null} /\ legible_lock \in {0, 1}
    /\ badUps \in Nat /\ wbuf_lock \in 0 .. (1 + badUps)
    /\ hpc \in [Senders -> {"idle", "pong", "lock", "locked"}]
    /\ victim \in [Senders -> Threads \cup {Null}]

\* "Intermix locking with that in msix_all()" (famez_bridge.c:168): reader and
\* handler give legible_slot_lock back exactly as often as they took it, on
\* every path; and so do writers with wbuf_lock, up to the interrupted ones.
LocksBalance ==
    /\ legible_lock + Cardinality(Readers)
         + Cardinality({s \in Senders : hpc[s] = "locked"}) = 1
    /\ wbuf_lock + Cardinality(Writers) = 1 + badUps

\* The slot that a read frees is the one it has copied: no interrupt replaces
\* legible_slot in between, nor does another reader clear it, until a wait of
\* all_msix was interrupted.
ReleasesWhatItRead ==
    ~ badLock => \A t \in Threads : pc[t] = "copy" => legible_slot = slot[t]

\* While a vector is attached or a handler runs, the configuration, its tables
\* and mappings are there; so they are, with the lookup and the device, while
\* the file is open, unless the device was removed under it ("# users is
\* non-zero, very interesting", famez_config.c:299), and then a call that was
\* inside still has the configuration until destroy_config.  A removal, and
\* every error path of a probe but the greeting's, gives back all but memory:
\* configuration, lookup, wbuf.
CallsLive ==
    /\ (irqs # {} \/ Active # {}) => Config \cup {"enabled", "vectors"} \subseteq held
    /\ Active \subseteq irqs
    /\ (file /\ ~ unplugged) => BARs \cup {"config", "lookup", "misc"} \subseteq held
    /\ Inside # {} => file /\ BARs \cup {"config"} \subseteq held
    /\ stage = "none" => irqs = {} /\ held \subseteq {"config", "lookup", "wbuf"}

\* all_msix on top of the very reader that has the lock it waits for.
OnItsHolder(s) == hpc[s] = "lock" /\ victim[s] \in Readers

\* The machine is down, or hangs in an interrupt handler.
Down == stage = "crashed" \/ \E s \in Senders : OnItsHolder(s)

\* Handlers and writes come to an end, whatever they wait for: a slot that
\* nobody reads is stomped, and a lock is given back, except where a handler
\* waits on top of the reader that holds it or its sleep is a BUG.
CallsEnd ==
    /\ \A s \in Senders : s \in Active ~> (s \notin Active \/ Down)
    /\ \A t \in Threads : t \in Writers ~> (t \notin Writers \/ Down)
===============================================================================
