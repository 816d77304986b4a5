--------------------------- MODULE FamezDriverProofs --------------------------
(***************************************************************************)
(* Probe, removal and registration, for any number of devices, bridge      *)
(* drivers, interrupts and classes.                                        *)
(*                                                                         *)
(* ResInv says what a device may still hold, or no longer hold, at each    *)
(* place of the probe and the removal: each error label frees a set of its *)
(* own, and it is enough only because of the place the jump comes from.    *)
(* SemaInv says that until a fault famez_adapter_sema counts whoever is in *)
(* the list, and that the list follows the places of the devices.          *)
(***************************************************************************)
EXTENDS FamezDriver, FiniteSetTheorems, WellFoundedInduction, TLAPS

Owned == {"created", "mapped", "irqs", "listing", "listed", "bound", "removing",
          "delisting", "delisted"}
OnList == {"listed", "bound", "removing", "delisting"}
Inside == {"listing", "delisting"}

ResInv == \A d \in Devs :
    /\ pc[d] = "unbound" => res[d] = {}
    /\ pc[d] = "enabled" => res[d] \subseteq {"enabled"}
    /\ pc[d] \in {"created", "mapped"} => res[d] \cap {"vectors", "entries"} = {}
    /\ pc[d] \in {"removing", "delisting", "delisted"} =>
         res[d] \cap {"enabled", "vectors", "entries"} = {}
    /\ pc[d] \in Owned => "adapter" \in res[d]
    /\ irqs[d] # 0 => pc[d] \in {"irqs", "listing", "listed", "bound", "oops"}

ClassInv == genz \in {"out", "gone"} => classes = 0

WalkD == {d \in Devs : pc[d] \in Inside}
WalkB == {b \in Drivers : drv[b] = "walk"}

Alone == \/ sema = 1 /\ WalkD = {} /\ WalkB = {}
         \/ sema = 0 /\ WalkB = {} /\ \E d \in Devs : WalkD = {d}
         \/ sema = 0 /\ WalkD = {} /\ \E b \in Drivers : WalkB = {b}

SemaInv == ~ faulted =>
    /\ stale = {}
    /\ \A d \in Devs : pc[d] # "oops" /\ (d \in list <=> pc[d] \in OnList)
    /\ Alone

Inv == TypeOK /\ ResInv /\ ClassInv /\ SemaInv /\ MinorsDistinct

-------------------------------------------------------------------------------
(* Minor numbers *)

\* A set of numbers that is not empty has a smallest one.
LEMMA Smallest ==
    ASSUME NEW S \in SUBSET Nat, S # {} PROVE \E m \in S : \A k \in S : m <= k
<1>1. PICK m \in S : \A k \in S : ~ (<<k, m>> \in OpToRel(<, Nat))
  BY NatLessThanWellFounded, WFMin
<1>2. \A k \in S : ~ (k < m)
  BY <1>1 DEF OpToRel
<1> QED
  BY <1>2

\* The bits that find_first_zero_bit looks at are bits of the bitmap: a number
\* is at most the number of subsets of a set of that size.
LEMMA BitmapSize == MAXMINORS \in Nat /\ MINORBITS <= MAXMINORS
<1> DEFINE S == 1 .. MINORBITS
           f == [x \in S |-> {x}]
<1>1. IsFiniteSet(S) /\ Cardinality(S) = MINORBITS
  BY MinorAssumption, FS_Interval
<1>2. IsFiniteSet(SUBSET S) /\ Cardinality(SUBSET S) = 2 ^ MINORBITS
  BY <1>1, FS_SUBSET
<1>3. f \in Injection(S, SUBSET S)
  BY DEF Injection, IsInjective
<1>4. Cardinality(S) <= Cardinality(SUBSET S)
  BY <1>2, <1>3, FS_Injection
<1>5. Cardinality(SUBSET S) \in Nat
  BY <1>2, FS_CardinalityType
<1> QED
  BY <1>1, <1>2, <1>4, <1>5 DEF MAXMINORS

\* The minor number that genz_register_bridge finds is not in use.
LEMMA LowestFree ==
    ASSUME FreeMinors # {}
    PROVE  /\ Lowest(FreeMinors) \in FreeMinors
           /\ Lowest(FreeMinors) \in 0 .. (MAXMINORS - 1)
           /\ Lowest(FreeMinors) \notin minors
<1>1. FreeMinors \in SUBSET Nat
  BY DEF FreeMinors
<1>2. \E m \in FreeMinors : \A k \in FreeMinors : m <= k
  BY <1>1, Smallest
<1>3. Lowest(FreeMinors) \in FreeMinors
  BY <1>2 DEF Lowest
<1> QED
  BY <1>3, BitmapSize, MinorAssumption DEF FreeMinors

-------------------------------------------------------------------------------

LEMMA InvInit == Init => Inv
<1> SUFFICES ASSUME Init PROVE Inv
  OBVIOUS
<1>0. irqs \in [Devs -> 0 .. NEvents] /\ classes \in 0 .. NClasses
  BY NEventsAssumption, ClassAssumption DEF Init
<1>1. TypeOK
  BY <1>0 DEF Init, TypeOK, Stages
<1>2. ResInv /\ ClassInv /\ MinorsDistinct
  BY DEF Init, ResInv, ClassInv, MinorsDistinct, Owned
<1>3. SemaInv
  BY DEF Init, SemaInv, Alone, WalkD, WalkB, Inside, OnList
<1> QED
  BY <1>1, <1>2, <1>3 DEF Inv

\* A step of genz.ko.
LEMMA GenzInv == ASSUME Inv, Genz PROVE Inv'
<1> USE DEF Inv
<1>1. UNCHANGED <<pc, res, irqs, list, faulted, stale, sema, drv, walked, minors, nodes>>
  BY DEF Genz, ClassRegister, ClassRegisterFails, BusRegister, GenzInitFails, GenzInit,
         GenzExit, Driver, Listing
<1>2. /\ genz' \in {"out", "classes", "bus", "in", "gone"} /\ classes' \in 0 .. NClasses
      /\ ClassInv'
  BY ClassAssumption
     DEF Genz, ClassRegister, ClassRegisterFails, BusRegister, GenzInitFails, GenzInit,
         GenzExit, TypeOK, ClassInv
<1>3. TypeOK'
  BY <1>1, <1>2 DEF TypeOK
<1>4. ResInv' /\ SemaInv' /\ MinorsDistinct'
  BY <1>1 DEF ResInv, SemaInv, Alone, WalkD, WalkB, MinorsDistinct
<1> QED
  BY <1>2, <1>3, <1>4

-------------------------------------------------------------------------------
(* Devices *)

\* A step of a device that does not meet the list.
LEMMA Outside ==
    ASSUME Inv, NEW d \in Devs, NEW from, NEW to, Go(d, from, to),
           {from, to} \cap (Inside \cup {"oops"}) = {},
           from \in OnList <=> to \in OnList,
           UNCHANGED <<list, faulted, sema, Bindings>>,
           stale' = stale \/ (stale' = Freed(d) /\ from \notin OnList)
    PROVE  SemaInv' /\ ClassInv' /\ MinorsDistinct'
<1>1. pc' = [pc EXCEPT ![d] = to] /\ pc[d] = from /\ pc \in [Devs -> Stages]
  BY DEF Go, Inv, TypeOK
<1>2. WalkD' = WalkD /\ WalkB' = WalkB
  BY <1>1 DEF WalkD, WalkB, Bindings
<1>3. ~ faulted => stale' = {}
  BY <1>1 DEF Inv, SemaInv, Freed
<1>4. \A e \in Devs : (pc'[e] \in OnList <=> pc[e] \in OnList)
                      /\ (pc'[e] = "oops" => pc[e] = "oops")
  BY <1>1
<1>5. SemaInv'
  BY <1>2, <1>3, <1>4 DEF Inv, SemaInv, Alone
<1> QED
  BY <1>5 DEF Inv, ClassInv, MinorsDistinct, Bindings, GenZ

\* What such a step leaves of the types.
LEMMA DeviceType ==
    ASSUME TypeOK, NEW d \in Devs, NEW to \in Stages, pc' = [pc EXCEPT ![d] = to],
           res' \in [Devs -> SUBSET Holdings], irqs' \in [Devs -> 0 .. NEvents],
           stale' \subseteq list', list' \subseteq Devs, sema' \in Nat,
           faulted' \in BOOLEAN, UNCHANGED Bindings
    PROVE  TypeOK'
  BY DEF TypeOK, Bindings, GenZ

\* Taking the semaphore, and giving it back.
LEMMA TakesSema ==
    ASSUME Inv, NEW d \in Devs, NEW from, NEW to \in Inside, Down(d, from, to),
           from \notin Inside, from \in OnList <=> to \in OnList
    PROVE  SemaInv' /\ ClassInv' /\ MinorsDistinct'
<1>1. /\ pc' = [pc EXCEPT ![d] = to] /\ pc[d] = from /\ pc \in [Devs -> Stages]
      /\ sema > 0 /\ sema' = sema - 1
      /\ UNCHANGED <<list, faulted, stale, drv>>
  BY DEF Down, Go, Inv, TypeOK, Bindings
<1>2. WalkB' = WalkB /\ WalkD' = WalkD \cup {d}
  BY <1>1 DEF WalkB, WalkD
<1>3. ~ faulted => Alone'
  BY <1>1, <1>2 DEF Inv, SemaInv, Alone
<1>4. \A e \in Devs : (pc'[e] \in OnList <=> pc[e] \in OnList)
                      /\ (pc'[e] = "oops" => pc[e] = "oops")
  BY <1>1 DEF Inside
<1>5. SemaInv'
  BY <1>1, <1>3, <1>4 DEF Inv, SemaInv
<1> QED
  BY <1>5 DEF Inv, Down, ClassInv, MinorsDistinct, Bindings, GenZ

LEMMA GivesSema ==
    ASSUME Inv, ~ faulted, NEW d \in Devs, pc[d] \in Inside, NEW to,
           to \notin Inside, pc' = [pc EXCEPT ![d] = to],
           sema' = sema + 1, drv' = drv
    PROVE  Alone'
<1>1. d \in WalkD /\ WalkD' = WalkD \ {d} /\ WalkB' = WalkB
  BY DEF WalkD, WalkB, Inv, TypeOK
<1>2. WalkD = {d} /\ WalkB = {} /\ sema = 0
  BY <1>1 DEF Inv, SemaInv, Alone
<1> QED
  BY <1>1, <1>2 DEF Alone

LEMMA InitInv ==
    ASSUME Inv, NEW d \in Devs, EnableDevice(d) \/ RemoveTeardown(d) \/ InitOne(d)
    PROVE  Inv'
<1> USE DEF Inv
<1>t. TypeOK
  OBVIOUS
<1> DEFINE Rest == SemaInv' /\ ClassInv' /\ MinorsDistinct'
<1>1. CASE EnableDevice(d)
  <2>1. Rest
    BY <1>1, Outside DEF EnableDevice, Listing, Inside, OnList
  <2>2. TypeOK'
    BY <1>1, DeviceType DEF EnableDevice, Go, Listing, TypeOK, Holdings, Stages
  <2>3. ResInv'
    BY <1>1 DEF EnableDevice, Go, ResInv, Owned, TypeOK
  <2> QED
    BY <2>1, <2>2, <2>3
<1>2. CASE NoAdapter(d)
  <2>1. Rest
    BY <1>2, Outside DEF NoAdapter, Listing, Inside, OnList
  <2>2. TypeOK'
    BY <1>2, DeviceType DEF NoAdapter, Go, Listing, TypeOK, Disable, Stages
  <2>3. ResInv'
    BY <1>2 DEF NoAdapter, Go, ResInv, Owned, TypeOK, Disable
  <2> QED
    BY <2>1, <2>2, <2>3
<1>3. CASE CreateAdapter(d)
  <2>1. Rest
    BY <1>3, Outside DEF CreateAdapter, Listing, Inside, OnList
  <2>2. TypeOK'
    BY <1>3, DeviceType DEF CreateAdapter, Go, Listing, TypeOK, Holdings, Stages,
                            CoreStructure
  <2>3. ResInv'
    BY <1>3 DEF CreateAdapter, Go, ResInv, Owned, TypeOK, CoreStructure
  <2> QED
    BY <2>1, <2>2, <2>3
<1>4. CASE MapBARs(d)
  <2>1. Rest
    BY <1>4, Outside DEF MapBARs, Listing, Inside, OnList
  <2>2. TypeOK'
    BY <1>4, DeviceType DEF MapBARs, Go, Listing, TypeOK, Holdings, Stages
  <2>3. ResInv'
    BY <1>4 DEF MapBARs, Go, ResInv, Owned, TypeOK
  <2> QED
    BY <2>1, <2>2, <2>3
<1>5. CASE CreateFails(d)
  <2>1. Rest
    BY <1>5, Outside DEF CreateFails, Inside, OnList
  <2>2. TypeOK'
    BY <1>5, DeviceType DEF CreateFails, Go, TypeOK, Disable, Destroy, unmapBARs,
                            Freed, Stages
  <2>3. ResInv'
    BY <1>5 DEF CreateFails, Go, ResInv, Owned, TypeOK, Disable, Destroy, unmapBARs,
                CoreStructure, Holdings
  <2> QED
    BY <2>1, <2>2, <2>3
<1>6. CASE AllocVectors(d)
  <2>1. Rest
    BY <1>6, Outside DEF AllocVectors, Listing, Inside, OnList
  <2>2. TypeOK'
    BY <1>6, DeviceType DEF AllocVectors, Go, Listing, TypeOK, Holdings, Stages
  <2>3. ResInv'
    BY <1>6 DEF AllocVectors, Go, ResInv, Owned, TypeOK
  <2> QED
    BY <2>1, <2>2, <2>3
<1>7. CASE RequestIrq(d)
  <2>1. irqs' \in [Devs -> 0 .. NEvents] /\ \A e \in Devs \ {d} : irqs'[e] = irqs[e]
    BY <1>7, NEventsAssumption DEF RequestIrq, TypeOK
  <2>2. UNCHANGED <<pc, res, list, faulted, stale, sema, Bindings>>
    BY <1>7 DEF RequestIrq, Listing
  <2>3. TypeOK' /\ ClassInv' /\ MinorsDistinct'
    BY <2>1, <2>2 DEF TypeOK, ClassInv, MinorsDistinct, Bindings, GenZ
  <2>4. ResInv' /\ SemaInv'
    BY <1>7, <2>1, <2>2 DEF RequestIrq, ResInv, SemaInv, Alone, WalkD, WalkB, Bindings
  <2> QED
    BY <2>3, <2>4
<1>8. CASE RequestIrqFails(d)
  <2>1. Rest
    BY <1>8, Outside DEF RequestIrqFails, Inside, OnList
  <2>2. TypeOK'
    <3>1. irqs' \in [Devs -> 0 .. NEvents]
      BY <1>8, NEventsAssumption DEF RequestIrqFails, TypeOK
    <3>2. res' \in [Devs -> SUBSET Holdings]
      BY <1>8 DEF RequestIrqFails, TypeOK, Disable, Teardown, Destroy, unmapBARs
    <3> QED
      BY <1>8, <3>1, <3>2, DeviceType DEF RequestIrqFails, Go, TypeOK, Freed, Stages
  <2>3. ResInv'
    BY <1>8 DEF RequestIrqFails, Go, ResInv, Owned, TypeOK, Disable, Teardown,
                Destroy, unmapBARs, CoreStructure, Holdings
  <2> QED
    BY <2>1, <2>2, <2>3
<1>9. CASE FirstMessage(d)
  <2>1. Rest
    BY <1>9, Outside DEF FirstMessage, Listing, Inside, OnList
  <2>2. TypeOK'
    BY <1>9, DeviceType DEF FirstMessage, Go, Listing, TypeOK, Stages
  <2>3. ResInv'
    BY <1>9 DEF FirstMessage, Go, ResInv, Owned, TypeOK
  <2> QED
    BY <2>1, <2>2, <2>3
<1>10. CASE FirstMessageFails(d)
  <2>1. Rest
    BY <1>10 DEF FirstMessageFails, SemaInv, ClassInv, MinorsDistinct, Bindings, GenZ
  <2>2. TypeOK'
    <3>1. irqs' \in [Devs -> 0 .. NEvents]
      BY <1>10, NEventsAssumption DEF FirstMessageFails, TypeOK
    <3>2. res' \in [Devs -> SUBSET Holdings]
      BY <1>10 DEF FirstMessageFails, TypeOK, Disable, Teardown, Destroy, unmapBARs
    <3> QED
      BY <1>10, <3>1, <3>2, DeviceType DEF FirstMessageFails, Go, TypeOK, Freed, Stages
  <2>3. ResInv'
    BY <1>10 DEF FirstMessageFails, Go, ResInv, Owned, TypeOK, Disable, Teardown,
                 Destroy, unmapBARs, CoreStructure, Holdings
  <2> QED
    BY <2>1, <2>2, <2>3
<1>11. CASE RemoveTeardown(d)
  <2>1. Rest
    BY <1>11, Outside DEF RemoveTeardown, Listing, Inside, OnList
  <2>2. TypeOK'
    <3>1. irqs' \in [Devs -> 0 .. NEvents]
      BY <1>11, NEventsAssumption DEF RemoveTeardown, TypeOK
    <3>2. res' \in [Devs -> SUBSET Holdings]
      BY <1>11 DEF RemoveTeardown, TypeOK, Disable, Teardown
    <3> QED
      BY <1>11, <3>1, <3>2, DeviceType DEF RemoveTeardown, Go, TypeOK, Listing, Stages
  <2>3. ResInv'
    BY <1>11 DEF RemoveTeardown, Go, ResInv, Owned, TypeOK, Disable, Teardown
  <2> QED
    BY <2>1, <2>2, <2>3
<1>12. CASE InitDown(d)
  <2>1. TypeOK'
    <3>1. sema' \in Nat
      BY <1>12 DEF InitDown, Down, TypeOK
    <3>2. pc' \in [Devs -> Stages]
      BY <1>12 DEF InitDown, Down, Go, TypeOK, Stages
    <3>3. UNCHANGED <<res, irqs, list, faulted, stale, Bindings>>
      BY <1>12 DEF InitDown, Down
    <3> QED
      BY <3>1, <3>2, <3>3 DEF TypeOK, Bindings, GenZ
  <2>2. ResInv'
    BY <1>12 DEF InitDown, Down, Go, ResInv, Owned, TypeOK
  <2>3. Rest
    BY <1>12, TakesSema DEF InitDown, Inside, OnList
  <2> QED
    BY <2>1, <2>2, <2>3
<1>13. CASE InitList(d)
  <2>1. TypeOK'
    <3>1. sema' \in Nat
      BY <1>13 DEF InitList, TypeOK
    <3>2. pc' \in [Devs -> Stages]
      BY <1>13 DEF InitList, Go, TypeOK, Stages
    <3>3. stale' \subseteq list' /\ list' \subseteq Devs
      BY <1>13 DEF InitList, TypeOK
    <3>4. UNCHANGED <<res, irqs, faulted, Bindings>>
      BY <1>13 DEF InitList
    <3> QED
      BY <3>1, <3>2, <3>3, <3>4 DEF TypeOK, Bindings, GenZ
  <2>2. ResInv'
    BY <1>13 DEF InitList, Go, ResInv, Owned, TypeOK
  <2>3. ClassInv' /\ MinorsDistinct'
    BY <1>13 DEF InitList, ClassInv, MinorsDistinct, Bindings, GenZ
  <2>4. SemaInv'
    <3> SUFFICES ASSUME ~ faulted PROVE SemaInv'
      BY <1>13 DEF InitList, SemaInv
    <3>1. /\ stale = {} /\ stale' = {} /\ pc[d] = "listing"
          /\ pc' = [pc EXCEPT ![d] = "listed"] /\ list' = list \cup {d}
          /\ sema' = sema + 1 /\ drv' = drv
      BY <1>13 DEF InitList, Go, SemaInv, Bindings
    <3>2. Alone'
      BY <3>1, GivesSema DEF Inside
    <3> QED
      BY <3>1, <3>2 DEF SemaInv, TypeOK, OnList
  <2> QED
    BY <2>1, <2>2, <2>3, <2>4
<1> QED
  BY <1>1, <1>2, <1>3, <1>4, <1>5, <1>6, <1>7, <1>8, <1>9, <1>10, <1>11, <1>12,
     <1>13 DEF InitOne

LEMMA RemoveInv ==
    ASSUME Inv, NEW d \in Devs, RemoveOne(d) \/ DownInterrupted(d)
    PROVE  Inv'
<1> USE DEF Inv
<1>1. CASE RemoveDown(d)
  <2>1. TypeOK'
    <3>1. sema' \in Nat
      BY <1>1 DEF RemoveDown, Down, TypeOK
    <3>2. pc' \in [Devs -> Stages]
      BY <1>1 DEF RemoveDown, Down, Go, TypeOK, Stages
    <3>3. UNCHANGED <<res, irqs, list, faulted, stale, Bindings>>
      BY <1>1 DEF RemoveDown, Down
    <3> QED
      BY <3>1, <3>2, <3>3 DEF TypeOK, Bindings, GenZ
  <2>2. ResInv'
    BY <1>1 DEF RemoveDown, Down, Go, ResInv, Owned, TypeOK
  <2>3. SemaInv' /\ ClassInv' /\ MinorsDistinct'
    BY <1>1, TakesSema DEF RemoveDown, Inside, OnList
  <2> QED
    BY <2>1, <2>2, <2>3
<1>2. CASE RemoveList(d)
  <2>1. TypeOK'
    <3>1. sema' \in Nat
      BY <1>2 DEF RemoveList, TypeOK
    <3>2. pc' \in [Devs -> Stages]
      BY <1>2 DEF RemoveList, Go, TypeOK, Stages
    <3>3. stale' \subseteq list' /\ list' \subseteq Devs
      BY <1>2 DEF RemoveList, TypeOK
    <3>4. UNCHANGED <<res, irqs, faulted, Bindings>>
      BY <1>2 DEF RemoveList
    <3> QED
      BY <3>1, <3>2, <3>3, <3>4 DEF TypeOK, Bindings, GenZ
  <2>2. ResInv'
    BY <1>2 DEF RemoveList, Go, ResInv, Owned, TypeOK
  <2>3. ClassInv' /\ MinorsDistinct'
    BY <1>2 DEF RemoveList, ClassInv, MinorsDistinct, Bindings, GenZ
  <2>4. SemaInv'
    <3> SUFFICES ASSUME ~ faulted PROVE SemaInv'
      BY <1>2 DEF RemoveList, SemaInv
    <3>1. /\ stale = {} /\ stale' = {} /\ pc[d] = "delisting"
          /\ pc' = [pc EXCEPT ![d] = "delisted"] /\ list' = list \ {d}
          /\ sema' = sema + 1 /\ drv' = drv
      BY <1>2 DEF RemoveList, Go, SemaInv, Bindings
    <3>2. Alone'
      BY <3>1, GivesSema DEF Inside
    <3> QED
      BY <3>1, <3>2 DEF SemaInv, TypeOK, OnList
  <2> QED
    BY <2>1, <2>2, <2>3, <2>4
<1>3. CASE RemoveDestroy(d)
  <2>1. SemaInv' /\ ClassInv' /\ MinorsDistinct'
    BY <1>3, Outside DEF RemoveDestroy, Inside, OnList
  <2>2. TypeOK'
    BY <1>3, DeviceType DEF RemoveDestroy, Go, TypeOK, Destroy, unmapBARs, Freed, Stages
  <2>3. ResInv'
    BY <1>3 DEF RemoveDestroy, Go, ResInv, Owned, TypeOK, Destroy, unmapBARs,
                CoreStructure, Holdings
  <2> QED
    BY <2>1, <2>2, <2>3
<1>4. CASE DownInterrupted(d)
  <2>1. TypeOK'
    BY <1>4, DeviceType DEF DownInterrupted, Go, TypeOK, Stages
  <2>2. ResInv'
    BY <1>4 DEF DownInterrupted, Go, ResInv, Owned, TypeOK
  <2>3. SemaInv' /\ ClassInv' /\ MinorsDistinct'
    BY <1>4 DEF DownInterrupted, SemaInv, ClassInv, MinorsDistinct, Bindings, GenZ
  <2> QED
    BY <2>1, <2>2, <2>3
<1> QED
  BY <1>1, <1>2, <1>3, <1>4 DEF RemoveOne

-------------------------------------------------------------------------------
(* Bridge drivers *)

LEMMA RegisterInv ==
    ASSUME Inv, NEW b \in Drivers, RegisterDown(b) \/ BridgeExit(b) \/ Register(b)
    PROVE  Inv'
<1> USE DEF Inv
<1>k. UNCHANGED <<pc, res, irqs, list, faulted, stale, genz, classes>>
  BY DEF RegisterDown, BridgeExit, Register, RegisterDone, RegisterBridge,
         RegisterOops, RegisterFails, Listing, GenZ
<1>r. ResInv' /\ ClassInv' /\ WalkD' = WalkD
  BY <1>k DEF ResInv, ClassInv, WalkD
<1>1. CASE RegisterDown(b)
  <2>1. TypeOK' /\ MinorsDistinct'
    BY <1>1, <1>k DEF RegisterDown, TypeOK, MinorsDistinct
  <2>2. WalkB' = WalkB \cup {b} /\ sema > 0 /\ sema' = sema - 1
    BY <1>1 DEF RegisterDown, WalkB, TypeOK
  <2>3. SemaInv'
    BY <1>k, <1>r, <2>2 DEF SemaInv, Alone
  <2> QED
    BY <1>r, <2>1, <2>3
<1>2. CASE BridgeExit(b)
  <2>1. TypeOK' /\ MinorsDistinct'
    BY <1>2, <1>k DEF BridgeExit, Listing, TypeOK, MinorsDistinct
  <2>2. WalkB' = WalkB /\ sema' = sema
    BY <1>2 DEF BridgeExit, Listing, WalkB, TypeOK
  <2>3. SemaInv'
    BY <1>k, <1>r, <2>2 DEF SemaInv, Alone
  <2> QED
    BY <1>r, <2>1, <2>3
<1>3. CASE RegisterDone(b)
  <2>1. TypeOK' /\ MinorsDistinct'
    BY <1>3, <1>k DEF RegisterDone, fzbridge_init, TypeOK, MinorsDistinct
  <2>2. b \in WalkB /\ WalkB' = WalkB \ {b} /\ sema' = sema + 1
    BY <1>3 DEF RegisterDone, fzbridge_init, WalkB, TypeOK
  <2>3. SemaInv'
    BY <1>k, <1>r, <2>2 DEF SemaInv, Alone
  <2> QED
    BY <1>r, <2>1, <2>3
<1>4. ASSUME NEW d \in Devs, RegisterOops(b, d) PROVE Inv'
  <2>1. TypeOK' /\ MinorsDistinct'
    BY <1>4, <1>k DEF RegisterOops, Listing, TypeOK, MinorsDistinct
  <2>2. faulted
    BY <1>4 DEF RegisterOops, SemaInv
  <2> QED
    BY <1>k, <1>r, <2>1, <2>2 DEF SemaInv
<1>5. ASSUME NEW d \in Devs, NEW late \in BOOLEAN, RegisterFails(b, d, late) PROVE Inv'
  <2>1. minors \subseteq minors' /\ minors' \subseteq 0 .. (MAXMINORS - 1)
    BY <1>5, LowestFree DEF RegisterFails, TypeOK
  <2>2. TypeOK' /\ MinorsDistinct'
    BY <1>5, <1>k, <2>1 DEF RegisterFails, TypeOK, MinorsDistinct
  <2>3. b \in WalkB /\ WalkB' = WalkB \ {b} /\ sema' = sema + 1
    BY <1>5 DEF RegisterFails, WalkB, TypeOK
  <2>4. SemaInv'
    BY <1>k, <1>r, <2>3 DEF SemaInv, Alone
  <2> QED
    BY <1>r, <2>2, <2>4
<1>6. ASSUME NEW d \in Devs, RegisterBridge(b, d) PROVE Inv'
  <2> DEFINE m == Lowest(FreeMinors)
  <2>1. m \in 0 .. (MAXMINORS - 1) /\ m \notin minors
    BY <1>6, LowestFree DEF RegisterBridge
  <2>2. minors' = minors \cup {m} /\ nodes' = nodes \cup {Node(b, d, m)}
    BY <1>6 DEF RegisterBridge
  <2> HIDE DEF m
  <2>3. Node(b, d, m) \in [drv : Drivers, dev : Devs, minor : 0 .. (MAXMINORS - 1)]
        /\ Node(b, d, m).minor = m
    BY <2>1 DEF Node
  <2>4. MinorsDistinct'
    BY <2>1, <2>2, <2>3 DEF MinorsDistinct
  <2>5. drv' = drv /\ sema' = sema /\ walked' = [walked EXCEPT ![b] = @ \cup {d}]
    BY <1>6 DEF RegisterBridge, Listing
  <2>6. TypeOK'
    BY <1>k, <2>1, <2>2, <2>3, <2>5 DEF TypeOK
  <2>7. SemaInv'
    BY <1>k, <1>r, <2>5 DEF SemaInv, Alone, WalkB
  <2> QED
    BY <1>r, <2>4, <2>6, <2>7
<1> QED
  BY <1>1, <1>2, <1>3, <1>4, <1>5, <1>6 DEF Register

LEMMA InvStep == Inv /\ [Next]_vars => Inv'
<1> SUFFICES ASSUME Inv, [Next]_vars PROVE Inv'
  OBVIOUS
<1>1. CASE UNCHANGED vars
  <2>1. TypeOK' /\ ResInv' /\ ClassInv' /\ MinorsDistinct'
    BY <1>1 DEF Inv, vars, TypeOK, ResInv, ClassInv, MinorsDistinct
  <2>2. SemaInv'
    BY <1>1 DEF Inv, vars, SemaInv, Alone, WalkD, WalkB
  <2> QED
    BY <2>1, <2>2 DEF Inv
<1> QED
  BY <1>1, GenzInv, InitInv, RemoveInv, RegisterInv DEF Next

-------------------------------------------------------------------------------

\* The driver's tables keep to their ranges: no more interrupts than nEvents, no
\* minor number outside the bitmap, and no semaphore below zero.
THEOREM DriverTypeTheorem == Spec => []TypeOK
<1>1. Inv => TypeOK
  BY DEF Inv
<1> QED
  BY InvInit, InvStep, <1>1, PTL DEF Spec

\* famez_init_one and famez_remove_one give back all that they took, from
\* whichever place they fail; and so do genz_bus_init and genz_bus_exit.
THEOREM UnwoundTheorem == Spec => []Unwound
<1>1. Inv => Unwound
  BY DEF Inv, ResInv, ClassInv, Unwound
<1> QED
  BY InvInit, InvStep, <1>1, PTL DEF Spec

\* famez_adapter_sema keeps probes, removals and registrations apart in the
\* list, and no freed adapter is on it, until a signal or a lost answer.
THEOREM WalkSafeTheorem == Spec => []WalkSafe
<1>1. Inv => WalkSafe
  <2> SUFFICES ASSUME Inv, ~ faulted
               PROVE  Cardinality(InList) <= 1 /\ \A d \in list : "adapter" \in res[d]
    BY DEF WalkSafe
  <2>1. InList = WalkD \cup WalkB
    BY DEF InList, WalkD, WalkB, Inside
  <2>2. InList = {} \/ \E x : InList = {x}
    <3>1. Alone
      BY DEF Inv, SemaInv
    <3>2. CASE WalkD = {} /\ WalkB = {}
      BY <2>1, <3>2
    <3>3. CASE WalkB = {} /\ \E d \in Devs : WalkD = {d}
      BY <2>1, <3>3
    <3>4. CASE WalkD = {} /\ \E b \in Drivers : WalkB = {b}
      BY <2>1, <3>4
    <3> QED
      BY <3>1, <3>2, <3>3, <3>4 DEF Alone
  <2>3. Cardinality(InList) <= 1
    <3>1. CASE InList = {}
      <4>1. Cardinality(InList) = 0
        BY <3>1, FS_EmptySet
      <4> QED
        BY <4>1
    <3>2. CASE \E x : InList = {x}
      <4>1. PICK x : InList = {x}
        BY <3>2
      <4>2. Cardinality(InList) = 1
        BY <4>1, FS_Singleton
      <4> QED
        BY <4>2
    <3> QED
      BY <2>2, <3>1, <3>2
  <2>4. \A d \in list : "adapter" \in res[d]
    BY DEF Inv, TypeOK, SemaInv, ResInv, OnList, Owned
  <2> QED
    BY <2>3, <2>4
<1> QED
  BY InvInit, InvStep, <1>1, PTL DEF Spec

\* genz_register_bridge gives no minor number to two nodes.
THEOREM MinorsDistinctTheorem == Spec => []MinorsDistinct
<1>1. Inv => MinorsDistinct
  BY DEF Inv
<1> QED
  BY InvInit, InvStep, <1>1, PTL DEF Spec
===============================================================================
