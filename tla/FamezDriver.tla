------------------------------ MODULE FamezDriver -----------------------------
(***************************************************************************)
(* How famez.ko takes and gives back the devices (famez_init_one and       *)
(* famez_remove_one with the adapter and the MSI-X set-up they call), and  *)
(* how a bridge driver binds itself to all of them (famez_register with    *)
(* genz_register_bridge).  The two meet in famez_adapter_list, which       *)
(* famez_adapter_sema guards.                                              *)
(*                                                                         *)
(* The PCI core runs one probe or remove at a time for a device, and those *)
(* of different devices, and insmod of a bridge driver, side by side.      *)
(* Every call that can fail may fail.  A probe's resources are one set per *)
(* device, so that each error path shows what it gives back; the order of  *)
(* the list does not matter and it is a set.  Under all of it is genz.ko,  *)
(* which registers the Gen-Z classes and bus when it is loaded.            *)
(***************************************************************************)
EXTENDS Integers, FiniteSets

CONSTANTS
    Devs,           \* IVSHMEM devices, each in a slot of its own
    Drivers,        \* bridge drivers that call famez_register
    NEvents,        \* globals->nEvents: interrupts of a device
    MINORBITS,      \* GENZ_MINORBITS
    NClasses,       \* the named entries of genz_classes after RESERVED
    AnswerLost,     \* may the first message of a probe time out
    Signals         \* may a signal end a wait for the semaphore

ASSUME NEventsAssumption == NEvents \in Nat \ {0}
ASSUME MinorAssumption   == MINORBITS \in Nat \ {0}
ASSUME ClassAssumption   == NClasses \in Nat \ {0}
ASSUME FaultAssumption   == {AnswerLost, Signals} \subseteq BOOLEAN

MAXMINORS == 2 ^ MINORBITS

VARIABLES
    pc,         \* pc[d]: how far the probe or the removal of d has come
    res,        \* res[d]: what the driver holds for d
    irqs,       \* irqs[d]: interrupts requested and not freed
    list,       \* famez_adapter_list, by device
    faulted,    \* history: a signal or a lost answer has been met
    stale,      \* devices whose entry on the list is a freed adapter
    sema,       \* famez_adapter_sema
    drv,        \* drv[b]: a bridge driver is out, walking the list, or in
    walked,     \* walked[b]: devices its walk has bound
    minors,     \* bridge_minor_bitmap
    nodes,      \* device nodes that device_create has made
    genz,       \* genz.ko: out, loading up to its classes or its bus, in, gone
    classes     \* how many classes are registered, from the first

vars == <<pc, res, irqs, list, faulted, stale, sema, drv, walked, minors, nodes,
          genz, classes>>

Init ==
    /\ pc = [d \in Devs |-> "unbound"]
    /\ res = [d \in Devs |-> {}]
    /\ irqs = [d \in Devs |-> 0]
    /\ list = {} /\ stale = {} /\ sema = 1 /\ faulted = FALSE
    /\ drv = [b \in Drivers |-> "out"]
    /\ walked = [b \in Drivers |-> {}]
    /\ minors = {} /\ nodes = {}
    /\ genz = "out" /\ classes = 0

Go(d, from, to) == pc[d] = from /\ pc' = [pc EXCEPT ![d] = to]

GenZ     == <<genz, classes>>
Bindings == <<drv, walked, minors, nodes, GenZ>>
Listing  == <<list, faulted, stale, sema>>

-------------------------------------------------------------------------------
(* genz.ko: genz_bus_init and genz_bus_exit *)

Driver == <<pc, res, irqs, Listing, drv, walked, minors, nodes>>

ClassRegister ==
    /\ genz \in {"out", "classes"} /\ classes < NClasses
    /\ genz' = "classes" /\ classes' = classes + 1
    /\ UNCHANGED Driver

\* genz_classes_init: the ones that succeeded are unregistered, from the last.
ClassRegisterFails ==
    /\ genz = "classes" /\ classes < NClasses
    /\ genz' = "out" /\ classes' = 0
    /\ UNCHANGED Driver

BusRegister ==
    /\ genz = "classes" /\ classes = NClasses
    /\ genz' = "bus"
    /\ UNCHANGED <<Driver, classes>>

\* bus_register fails, or device_add of the root after it: genz_bus_exit.
GenzInitFails ==
    /\ genz = "bus" \/ (genz = "classes" /\ classes = NClasses)
    /\ genz' = "out" /\ classes' = 0
    /\ UNCHANGED Driver

\* The root device is there (auto0): the modules above can be loaded.
GenzInit ==
    /\ genz = "bus"
    /\ genz' = "in"
    /\ UNCHANGED <<Driver, classes>>

\* rmmod, after famez.ko and the bridge drivers, which use its symbols.  The
\* root device stays, so it cannot be loaded again.
GenzExit ==
    /\ genz = "in"
    /\ \A d \in Devs : pc[d] = "unbound"
    /\ \A b \in Drivers : drv[b] = "out"
    /\ genz' = "gone" /\ classes' = 0
    /\ UNCHANGED Driver

Genz == ClassRegister \/ ClassRegisterFails \/ BusRegister \/ GenzInitFails
        \/ GenzInit \/ GenzExit

-------------------------------------------------------------------------------
(* What the error paths and the removal give back *)

\* The Gen-Z core structure comes and goes as a whole with its table.
CoreStructure == {"core"}

unmapBARs(S) == S \ {"bars"}

\* famez_adapter_destroy, on an adapter that the list may still point to.
Destroy(d) == unmapBARs(res[d]) \ ({"adapter", "drvdata", "entries"} \cup CoreStructure)
Freed(d)   == stale \cup (list \cap {d})

\* famez_ISR_teardown
Teardown(S) == S \ {"vectors", "entries"}

Disable(S) == S \ {"enabled"}

-------------------------------------------------------------------------------
(* famez_init_one *)

EnableDevice(d) ==
    /\ Go(d, "unbound", "enabled") /\ genz = "in"
    /\ res' = [res EXCEPT ![d] = @ \cup {"enabled"}]
    /\ UNCHANGED <<irqs, Listing, Bindings>>

\* The device lacks IVSHMSG features, or the first allocations fail.
NoAdapter(d) ==
    /\ Go(d, "enabled", "unbound")
    /\ res' = [res EXCEPT ![d] = Disable(@)]
    /\ UNCHANGED <<irqs, Listing, Bindings>>

\* famez_adapter_create, up to the back pointers and then the regions.
CreateAdapter(d) ==
    /\ Go(d, "enabled", "created")
    /\ res' = [res EXCEPT ![d] = @ \cup {"adapter", "drvdata"} \cup CoreStructure]
    /\ UNCHANGED <<irqs, Listing, Bindings>>

MapBARs(d) ==
    /\ Go(d, "created", "mapped")
    /\ res' = [res EXCEPT ![d] = @ \cup {"bars"}]
    /\ UNCHANGED <<irqs, Listing, Bindings>>

\* No regions, a mailbox layout or an id that does not fit, or no vectors:
\* create, or init_one, destroys the adapter and the device is disabled.
CreateFails(d) ==
    /\ Go(d, "created", "unbound") \/ Go(d, "mapped", "unbound")
    /\ res' = [res EXCEPT ![d] = Disable(Destroy(d))]
    /\ stale' = Freed(d)
    /\ UNCHANGED <<irqs, list, faulted, sema, Bindings>>

\* famez_ISR_setup
AllocVectors(d) ==
    /\ Go(d, "mapped", "irqs")
    /\ res' = [res EXCEPT ![d] = @ \cup {"vectors", "entries"}]
    /\ UNCHANGED <<irqs, Listing, Bindings>>

\* (mutant: one interrupt too many)
RequestIrqOneMore(d) ==
    /\ pc[d] = "irqs" /\ irqs[d] <= NEvents
    /\ irqs' = [irqs EXCEPT ![d] = @ + 1]
    /\ UNCHANGED <<pc, res, Listing, Bindings>>

RequestIrq(d) ==
    /\ pc[d] = "irqs" /\ irqs[d] < NEvents
    /\ irqs' = [irqs EXCEPT ![d] = @ + 1]
    /\ UNCHANGED <<pc, res, Listing, Bindings>>

\* (mutant: the jump goes past err_free_completed_irqs)
RequestIrqFailsLate(d) ==
    /\ irqs[d] < NEvents
    /\ Go(d, "irqs", "unbound")
    /\ res' = [res EXCEPT ![d] = Disable(Teardown(Destroy(d)))]
    /\ stale' = Freed(d)
    /\ UNCHANGED <<irqs, list, faulted, sema, Bindings>>

\* pci_irq_vector or request_irq fails: what was requested so far is freed.
RequestIrqFails(d) ==
    /\ irqs[d] < NEvents
    /\ Go(d, "irqs", "unbound")
    /\ irqs' = [irqs EXCEPT ![d] = 0]
    /\ res' = [res EXCEPT ![d] = Disable(Teardown(Destroy(d)))]
    /\ stale' = Freed(d)
    /\ UNCHANGED <<list, faulted, sema, Bindings>>

\* down_interruptible, whose result both callers ignore: a signal that comes
\* while the semaphore is taken lets the caller through without it.
Down(d, from, to) ==
    /\ Go(d, from, to)
    /\ sema > 0
    /\ sema' = sema - 1
    /\ UNCHANGED <<res, irqs, list, faulted, stale, Bindings>>

DownInterrupted(d) ==
    /\ Signals /\ sema = 0
    /\ \/ irqs[d] = NEvents /\ Go(d, "irqs", "listing")
       \/ Go(d, "removing", "delisting")
    /\ faulted' = TRUE
    /\ UNCHANGED <<res, irqs, list, stale, sema, Bindings>>

InitDown(d) == irqs[d] = NEvents /\ Down(d, "irqs", "listing")

\* The walk reads pdev of every adapter on the list; a freed one has none.
InitList(d) ==
    /\ Go(d, "listing", IF stale = {} THEN "listed" ELSE "oops")
    /\ list' = IF stale = {} THEN list \cup {d} ELSE list
    /\ sema' = IF stale = {} THEN sema + 1 ELSE sema
    /\ UNCHANGED <<res, irqs, faulted, stale, Bindings>>

\* famez_create_outgoing, to the server.
FirstMessage(d) ==
    /\ Go(d, "listed", "bound")
    /\ UNCHANGED <<res, irqs, Listing, Bindings>>

\* It times out: err_MSIX_teardown and on, and the adapter stays on the list.
FirstMessageFails(d) ==
    /\ AnswerLost
    /\ Go(d, "listed", "unbound")
    /\ irqs' = [irqs EXCEPT ![d] = 0]
    /\ res' = [res EXCEPT ![d] = Disable(Teardown(Destroy(d)))]
    /\ stale' = Freed(d)
    /\ faulted' = TRUE
    /\ UNCHANGED <<list, sema, Bindings>>

-------------------------------------------------------------------------------
(* famez_remove_one *)

\* (mutant: the adapter is destroyed before it leaves the list)
RemoveTeardownDestroys(d) ==
    /\ Go(d, "bound", "removing")
    /\ irqs' = [irqs EXCEPT ![d] = 0]
    /\ res' = [res EXCEPT ![d] = Disable(Teardown(Destroy(d)))]
    /\ UNCHANGED <<Listing, Bindings>>

RemoveTeardown(d) ==
    /\ Go(d, "bound", "removing")
    /\ irqs' = [irqs EXCEPT ![d] = 0]
    /\ res' = [res EXCEPT ![d] = Disable(Teardown(@))]
    /\ UNCHANGED <<Listing, Bindings>>

RemoveDown(d) == Down(d, "removing", "delisting")

RemoveList(d) ==
    /\ Go(d, "delisting", IF stale = {} THEN "delisted" ELSE "oops")
    /\ list' = IF stale = {} THEN list \ {d} ELSE list
    /\ sema' = IF stale = {} THEN sema + 1 ELSE sema
    /\ UNCHANGED <<res, irqs, faulted, stale, Bindings>>

RemoveDestroy(d) ==
    /\ Go(d, "delisted", "unbound")
    /\ res' = [res EXCEPT ![d] = Destroy(d)]
    /\ stale' = Freed(d)
    /\ UNCHANGED <<irqs, list, faulted, sema, Bindings>>

-------------------------------------------------------------------------------
(* famez_register, for all adapters on the list *)

RegisterDown(b) ==
    /\ drv[b] = "out" /\ sema > 0 /\ genz = "in"
    /\ sema' = sema - 1
    /\ drv' = [drv EXCEPT ![b] = "walk"]
    /\ walked' = [walked EXCEPT ![b] = {}]
    /\ UNCHANGED <<pc, res, irqs, list, faulted, stale, minors, nodes, GenZ>>

\* genz_register_bridge: find_first_zero_bit looks at GENZ_MINORBITS bits.
FreeMinors == {m \in 0 .. (MINORBITS - 1) : m \notin minors}
Lowest(S) == CHOOSE m \in S : \A k \in S : m <= k
Node(b, d, m) == [drv |-> b, dev |-> d, minor |-> m]
NameTaken(b, d) == \E n \in nodes : n.drv = b /\ n.dev = d

\* (mutant: the bit is not set)
RegisterBridgeBitless(b, d) ==
    /\ drv[b] = "walk" /\ d \in list \ (walked[b] \cup stale)
    /\ FreeMinors # {} /\ ~ NameTaken(b, d)
    /\ nodes' = nodes \cup {Node(b, d, Lowest(FreeMinors))}
    /\ walked' = [walked EXCEPT ![b] = @ \cup {d}]
    /\ UNCHANGED <<pc, res, irqs, Listing, drv, minors, GenZ>>

RegisterBridge(b, d) ==
    /\ drv[b] = "walk" /\ d \in list \ (walked[b] \cup stale)
    /\ FreeMinors # {} /\ ~ NameTaken(b, d)
    /\ minors' = minors \cup {Lowest(FreeMinors)}
    /\ nodes' = nodes \cup {Node(b, d, Lowest(FreeMinors))}
    /\ walked' = [walked EXCEPT ![b] = @ \cup {d}]
    /\ UNCHANGED <<pc, res, irqs, Listing, drv, GenZ>>

\* (mutant: the error path returns with the semaphore taken)
RegisterFailsLocked(b, d, late) ==
    /\ drv[b] = "walk" /\ d \in list \ (walked[b] \cup stale)
    /\ late => FreeMinors # {}
    /\ minors' = IF late THEN minors \cup {Lowest(FreeMinors)} ELSE minors
    /\ drv' = [drv EXCEPT ![b] = "out"]
    /\ UNCHANGED <<pc, res, irqs, Listing, walked, nodes, GenZ>>

\* It fails before the bit is set (no minor left, no chrdev region) or late
\* (no memory, cdev_add, a device of that name), when the bit stays set.  The
\* walk ends, insmod fails, and what was bound before stays bound.
RegisterFails(b, d, late) ==
    /\ drv[b] = "walk" /\ d \in list \ (walked[b] \cup stale)
    /\ late => FreeMinors # {}
    /\ minors' = IF late THEN minors \cup {Lowest(FreeMinors)} ELSE minors
    /\ drv' = [drv EXCEPT ![b] = "out"]
    /\ sema' = sema + 1
    /\ UNCHANGED <<pc, res, irqs, list, faulted, stale, walked, nodes, GenZ>>

\* A freed adapter on the list has no pdev to take the name from.
RegisterOops(b, d) ==
    /\ drv[b] = "walk" /\ d \in (list \cap stale) \ walked[b]
    /\ drv' = [drv EXCEPT ![b] = "oops"]
    /\ UNCHANGED <<pc, res, irqs, Listing, walked, minors, nodes, GenZ>>

\* Without a binding insmod of the bridge driver fails with -ENODEV.
fzbridge_init(bindings) == IF bindings = {} THEN "out" ELSE "in"

\* The end of the list.
RegisterDone(b) ==
    /\ drv[b] = "walk" /\ list \subseteq walked[b]
    /\ sema' = sema + 1
    /\ drv' = [drv EXCEPT ![b] = fzbridge_init(walked[b])]
    /\ UNCHANGED <<pc, res, irqs, list, faulted, stale, walked, minors, nodes, GenZ>>

\* rmmod: famez_deregister returns zero and does nothing.
BridgeExit(b) ==
    /\ drv[b] = "in"
    /\ drv' = [drv EXCEPT ![b] = "out"]
    /\ UNCHANGED <<pc, res, irqs, Listing, walked, minors, nodes, GenZ>>

-------------------------------------------------------------------------------

\* What goes on by itself once a probe or a removal has started.
InitOne(d) ==
    \/ NoAdapter(d) \/ CreateAdapter(d) \/ MapBARs(d) \/ CreateFails(d)
    \/ AllocVectors(d) \/ RequestIrq(d) \/ RequestIrqFails(d)
    \/ InitDown(d) \/ InitList(d) \/ FirstMessage(d) \/ FirstMessageFails(d)

RemoveOne(d) == RemoveDown(d) \/ RemoveList(d) \/ RemoveDestroy(d)

Register(b) ==
    \/ RegisterDone(b)
    \/ \E d \in Devs : RegisterBridge(b, d) \/ RegisterOops(b, d)
    \/ \E d \in Devs, late \in BOOLEAN : RegisterFails(b, d, late)

Next ==
    \/ Genz
    \/ \E d \in Devs :
         EnableDevice(d) \/ RemoveTeardown(d) \/ InitOne(d) \/ RemoveOne(d)
         \/ DownInterrupted(d)
    \/ \E b \in Drivers : RegisterDown(b) \/ BridgeExit(b) \/ Register(b)

Spec == Init /\ [][Next]_vars

\* Threads inside the driver keep running, and the semaphore is first come
\* first served.  Nobody has to send a signal.
Fairness ==
    /\ \A d \in Devs : SF_vars(InitOne(d)) /\ SF_vars(RemoveOne(d))
    /\ \A b \in Drivers : WF_vars(Register(b))

FairSpec == Spec /\ Fairness

-------------------------------------------------------------------------------
(* Properties *)

Holdings == {"enabled", "adapter", "core", "drvdata", "bars", "vectors", "entries"}
Stages == {"unbound", "enabled", "created", "mapped", "irqs", "listing", "listed",
           "bound", "removing", "delisting", "delisted", "oops"}

\* The values the code can give its state; no more interrupts than nEvents.
TypeOK ==
    /\ pc \in [Devs -> Stages]
    /\ res \in [Devs -> SUBSET Holdings]
    /\ irqs \in [Devs -> 0 .. NEvents]
    /\ stale \subseteq list /\ list \subseteq Devs
    /\ sema \in Nat /\ faulted \in BOOLEAN
    /\ drv \in [Drivers -> {"out", "walk", "in", "oops"}]
    /\ walked \in [Drivers -> SUBSET Devs]
    /\ minors \subseteq 0 .. (MAXMINORS - 1)
    /\ nodes \subseteq [drv : Drivers, dev : Devs, minor : 0 .. (MAXMINORS - 1)]
    /\ genz \in {"out", "classes", "bus", "in", "gone"} /\ classes \in 0 .. NClasses

\* Wherever a probe fails, and however a removal goes, the driver gives back
\* all that it took: no interrupt stays armed on a freed adapter, no vector,
\* region or memory is leaked and the device is disabled.  genz.ko gives
\* back its classes too, wherever its load fails.
Unwound ==
    /\ \A d \in Devs : pc[d] = "unbound" => res[d] = {} /\ irqs[d] = 0
    /\ genz \in {"out", "gone"} => classes = 0

\* Until a signal or a lost answer has been met, whoever walks
\* famez_adapter_list is alone there, and every adapter on it is allocated.
InList == {d \in Devs : pc[d] \in {"listing", "delisting"}}
          \cup {b \in Drivers : drv[b] = "walk"}
WalkSafe ==
    ~ faulted =>
        /\ Cardinality(InList) <= 1
        /\ \A d \in list : "adapter" \in res[d]

\* Two device nodes never share a minor number, and none has one that
\* genz_register_bridge could give out again.
MinorsDistinct ==
    /\ \A n, m \in nodes : n.minor = m.minor => n = m
    /\ \A n \in nodes : n.minor \in minors

\* Every probe and every removal comes to an end, and so does every walk: until
\* such a fault, no path through them leaves famez_adapter_sema taken.
ProbeEnds ==
    /\ \A d \in Devs : pc[d] # "unbound" ~> (pc[d] \in {"unbound", "bound"} \/ faulted)
    /\ \A b \in Drivers : drv[b] = "walk" ~> drv[b] # "walk"
===============================================================================
