--------------------------- MODULE MonolithicProofs ---------------------------
(***************************************************************************)
(* The driver in one module, for any number of threads and senders.        *)
(*                                                                         *)
(* The semaphores alone do not give the argument: create_config makes them *)
(* anew, so nobody may be between a down and an up then.  StageInv says    *)
(* what famez_probe and famez_remove hold at each stage, FileInv that      *)
(* calls need the open file, the file a device that is registered or was   *)
(* removed under it, and handlers an attached vector.  With them           *)
(* LocksBalance is inductive, and the bounds on the semaphores and the     *)
(* mutual exclusion of readers and handlers follow from it.                *)
(***************************************************************************)
EXTENDS Monolithic, FiniteSetTheorems, TLAPS

MonoStages == {"none", "enabled", "config", "mapped", "created", "irqs", "misc",
               "bound", "stranded", "teardown", "disable", "crashed"}
Things == Config \cup {"enabled", "vectors", "lookup", "misc", "listed", "wbuf"}
Pcs == {"idle", "rlock", "test", "sleep", "copy", "wlock", "body", "send"}
Hpcs == {"idle", "pong", "lock", "locked"}

MonoType ==
    /\ stage \in MonoStages /\ held \subseteq Things /\ irqs \subseteq Senders
    /\ unplugged \in BOOLEAN
    /\ file \in BOOLEAN /\ msglen \in BOOLEAN /\ badLock \in BOOLEAN
    /\ pc \in [Threads -> Pcs]
    /\ slot \in [Threads -> Senders \cup {Null}]
    /\ legible_slot \in Senders \cup {Null} /\ legible_lock \in Nat
    /\ badUps \in Nat /\ wbuf_lock \in Nat
    /\ hpc \in [Senders -> Hpcs]
    /\ victim \in [Senders -> Threads \cup {Null}]

\* The stages in which the device is registered, and in which there are vectors.
Up   == {"misc", "bound", "stranded"}
Vect == Up \cup {"irqs", "teardown"}

\* What a stage of the probe or the removal can rely on, and what it can have
\* left behind.
StageInv ==
    /\ stage = "none" => held \subseteq {"config", "lookup", "wbuf"}
    /\ stage = "crashed" => held = {}
    /\ stage = "enabled" => held = {"enabled"}
    /\ stage = "config" => held = {"enabled", "config"}
    /\ stage = "mapped" => held = BARs \cup {"enabled", "config"}
    /\ stage \in Vect \cup {"created", "disable"} =>
         BARs \cup {"enabled", "config"} \subseteq held /\ "wbuf" \notin held
    /\ stage \in Vect \cup {"created"} => "entries" \in held
    /\ stage \in {"created", "disable"} => "vectors" \notin held
    /\ stage \in Vect => "vectors" \in held
    /\ stage \in Up => {"lookup", "misc"} \subseteq held
    /\ "misc" \in held => stage \in Up
    /\ irqs # {} => stage \in Vect

\* An open file is that of a registered device, or of one that was removed
\* under it; a call that is inside has the file, a handler its vector.
FileInv ==
    /\ file => stage \in Up \/ unplugged
    /\ unplugged => file /\ stage \in {"teardown", "disable"}
    /\ Inside # {} => file
    /\ Active \subseteq irqs

Locked == {s \in Senders : hpc[s] = "locked"}

Inv == MonoType /\ StageInv /\ FileInv /\ LocksBalance /\ ReleasesWhatItRead

-------------------------------------------------------------------------------
(* Counting *)

LEMMA CountOne ==
    ASSUME NEW S, IsFiniteSet(S)
    PROVE  /\ Cardinality(S) \in Nat
           /\ Cardinality(S) = 0 <=> S = {}
           /\ \A x : x \notin S => Cardinality(S \cup {x}) = Cardinality(S) + 1
           /\ \A x : x \in S => Cardinality(S \ {x}) = Cardinality(S) - 1
  BY FS_CardinalityType, FS_EmptySet, FS_AddElement, FS_RemoveElement

\* Readers, writers and handlers are finite sets.
LEMMA Finite == IsFiniteSet(Readers) /\ IsFiniteSet(Writers) /\ IsFiniteSet(Locked)
  BY ThreadsAssumption, SendersAssumption, FS_Subset DEF Readers, Writers, Locked

LEMMA Counts == /\ Cardinality(Readers) \in Nat /\ Cardinality(Writers) \in Nat
                /\ Cardinality(Locked) \in Nat
  BY Finite, CountOne

\* legible_slot_lock excludes: whoever finds it free is alone, and so is its
\* holder.
LEMMA Excluded ==
    ASSUME MonoType, LocksBalance
    PROVE  /\ legible_lock > 0 => Readers = {} /\ Locked = {}
           /\ Locked # {} => Readers = {}
           /\ \A t, u \in Readers : t = u
           /\ legible_lock \in {0, 1}
           /\ wbuf_lock \in 0 .. (1 + badUps)
<1>b. /\ legible_lock + Cardinality(Readers) + Cardinality(Locked) = 1
      /\ wbuf_lock + Cardinality(Writers) = 1 + badUps
      /\ legible_lock \in Nat /\ wbuf_lock \in Nat /\ badUps \in Nat
  BY DEF LocksBalance, MonoType, Locked
<1>z. (Cardinality(Readers) = 0 <=> Readers = {}) /\ (Cardinality(Locked) = 0 <=> Locked = {})
  BY Finite, CountOne
<1>1. legible_lock > 0 => Readers = {} /\ Locked = {}
  BY <1>b, <1>z, Counts
<1>2. Locked # {} => Readers = {}
  BY <1>b, <1>z, Counts
<1>3. ASSUME NEW t \in Readers, NEW u \in Readers PROVE t = u
  <2>1. Cardinality(Readers) = 1
    BY <1>3, <1>b, <1>z, Counts
  <2>2. Cardinality(Readers \ {t}) = 0
    BY <2>1, Finite, CountOne
  <2>3. IsFiniteSet(Readers \ {t})
    BY Finite, FS_Subset
  <2>4. Readers \ {t} = {}
    BY <2>2, <2>3, CountOne
  <2> QED
    BY <2>4
<1>4. legible_lock \in {0, 1} /\ wbuf_lock \in 0 .. (1 + badUps)
  BY <1>b, Counts
<1> QED
  BY <1>1, <1>2, <1>3, <1>4

-------------------------------------------------------------------------------

LEMMA InvInit == Init => Inv
<1> SUFFICES ASSUME Init PROVE Inv
  OBVIOUS
<1>1. MonoType
  BY DEF Init, MonoType, MonoStages, Pcs, Hpcs, AllIdle, NoSlots, Quiet, NoVictims
<1>2. StageInv /\ FileInv /\ ReleasesWhatItRead
  BY DEF Init, StageInv, FileInv, Inside, Active, ReleasesWhatItRead, AllIdle, Quiet,
         Up, Vect
<1>3. Readers = {} /\ Writers = {} /\ {s \in Senders : hpc[s] = "locked"} = {}
  BY DEF Init, Readers, Writers, AllIdle, Quiet
<1>4. Cardinality({}) = 0
  BY FS_EmptySet
<1>5. LocksBalance
  BY <1>3, <1>4 DEF LocksBalance, Init
<1> QED
  BY <1>1, <1>2, <1>5 DEF Inv

\* A machine that went down has nothing left that could be wrong.
LEMMA CrashInv == ASSUME Inv, Crash PROVE Inv'
<1> USE DEF Crash, AllIdle, NoSlots, Quiet, NoVictims
<1>1. MonoType'
  BY DEF Inv, MonoType, MonoStages, Pcs, Hpcs
<1>2. StageInv' /\ FileInv' /\ ReleasesWhatItRead'
  BY DEF StageInv, FileInv, Inside, Active, ReleasesWhatItRead, Up, Vect
<1>3. Readers' = {} /\ Writers' = {} /\ {s \in Senders : hpc'[s] = "locked"} = {}
  BY DEF Readers, Writers
<1>4. Cardinality({}) = 0
  BY FS_EmptySet
<1>5. legible_lock' = 1 /\ wbuf_lock' = 1 /\ badUps' = 0
  OBVIOUS
<1>6. LocksBalance'
  BY <1>3, <1>4, <1>5 DEF LocksBalance
<1> QED
  BY <1>1, <1>2, <1>6 DEF Inv

-------------------------------------------------------------------------------
(* famez_probe and famez_remove *)

\* A step of the probe or the removal that leaves the locks alone.
LEMMA ProbeStepInv ==
    ASSUME Inv, MonoType', StageInv', FileInv', UNCHANGED <<bridge, isr, legible>>
    PROVE  Inv'
<1>1. UNCHANGED <<pc, slot, hpc, legible_slot, legible_lock, wbuf_lock, badUps, badLock>>
  BY DEF bridge, isr, legible
<1>2. Readers' = Readers /\ Writers' = Writers
  BY <1>1 DEF Readers, Writers
<1>3. LocksBalance' /\ ReleasesWhatItRead'
  BY <1>1, <1>2 DEF Inv, LocksBalance, ReleasesWhatItRead
<1> QED
  BY <1>3 DEF Inv

LEMMA ProbeInv == ASSUME Inv, ProbeStep PROVE Inv'
<1> USE DEF Inv
<1>n. /\ stage \in {"none", "crashed", "enabled", "config", "mapped", "created"}
           => irqs = {} /\ ~ file /\ ~ unplugged
      /\ stage = "disable" => irqs = {}
  BY DEF StageInv, FileInv, Up, Vect
<1> DEFINE Keeps == UNCHANGED <<bridge, isr, legible>>
           Good  == MonoType' /\ StageInv' /\ FileInv'
<1> USE DEF Users, bridge, isr, legible, FileInv, Inside, Active, Up, Vect
<1>1. CASE Reboot
  <2>1. Keeps /\ Good
    BY <1>1, <1>n DEF Reboot, Goes, MonoType, MonoStages, StageInv, Things, Config
  <2> QED
    BY <2>1, ProbeStepInv
<1>2. CASE Enable
  <2>1. Keeps /\ Good
    BY <1>2, <1>n DEF Enable, Goes, MonoType, MonoStages, StageInv, Things, Config
  <2> QED
    BY <2>1, ProbeStepInv
<1>3. CASE ProbeEarlyFails
  <2>1. Keeps /\ Good
    BY <1>3, <1>n DEF ProbeEarlyFails, Goes, MonoType, MonoStages, StageInv,
                      Things, Config
  <2> QED
    BY <2>1, ProbeStepInv
<1>4. CASE CreateConfig
  <2>1. Good
    BY <1>4, <1>n DEF CreateConfig, Goes, MonoType, MonoStages, StageInv, Things, Config
  <2>2. Readers = {} /\ {s \in Senders : hpc[s] = "locked"} = {}
    BY <1>4, <1>n DEF CreateConfig, Goes, Readers
  <2>3. /\ Readers' = {} /\ {s \in Senders : hpc'[s] = "locked"} = {}
        /\ Writers' = Writers
    BY <1>4, <2>2 DEF CreateConfig, Readers, Writers
  <2>4. Cardinality({}) = 0
    BY FS_EmptySet
  <2>5. LocksBalance'
    <3>1. legible_lock' = 1 /\ wbuf_lock' = wbuf_lock /\ badUps' = badUps
      BY <1>4 DEF CreateConfig
    <3>2. legible_lock' + Cardinality(Readers')
            + Cardinality({s \in Senders : hpc'[s] = "locked"}) = 1
      BY <3>1, <2>3, <2>4
    <3> QED
      BY <3>1, <3>2, <2>3 DEF LocksBalance
  <2>6. ReleasesWhatItRead'
    BY <2>3 DEF ReleasesWhatItRead, Readers
  <2> QED
    BY <2>1, <2>5, <2>6
<1>5. CASE MapBARs
  <2>1. Keeps /\ Good
    BY <1>5, <1>n DEF MapBARs, BARs, Goes, MonoType, MonoStages, StageInv, Things,
                      Config
  <2> QED
    BY <2>1, ProbeStepInv
<1>6. CASE MapBARsFails
  <2>1. Keeps /\ Good
    BY <1>6, <1>n DEF MapBARsFails, Goes, MonoType, MonoStages, StageInv, Things,
                      Config
  <2> QED
    BY <2>1, ProbeStepInv
<1>7. CASE MsixEntries
  <2>1. Keeps /\ FileInv'
    BY <1>7, <1>n DEF MsixEntries, Goes
  <2>2. MonoType'
    BY <1>7 DEF MsixEntries, Goes, MonoType, MonoStages, Things, Config
  <2>3. StageInv'
    BY <1>7, <1>n DEF MsixEntries, Goes, StageInv, BARs
  <2> QED
    BY <2>1, <2>2, <2>3, ProbeStepInv
<1>8. CASE CreateFails
  <2>1. Keeps /\ Good
    BY <1>8, <1>n DEF CreateFails, Config, BARs, Goes, MonoType, MonoStages,
                      StageInv, Things
  <2> QED
    BY <2>1, ProbeStepInv
<1>9. CASE AllocVectors
  <2>1. Keeps /\ Good
    BY <1>9, <1>n DEF AllocVectors, Goes, MonoType, MonoStages, StageInv, Things,
                      Config
  <2> QED
    BY <2>1, ProbeStepInv
<1>10. CASE NoVectors
  <2>1. Keeps /\ FileInv'
    BY <1>10, <1>n DEF NoVectors, Goes
  <2>2. MonoType'
    BY <1>10 DEF NoVectors, Goes, MonoType, MonoStages, Things, Config
  <2>3. StageInv'
    BY <1>10, <1>n DEF NoVectors, Goes, StageInv, BARs
  <2> QED
    BY <2>1, <2>2, <2>3, ProbeStepInv
<1>11. CASE RequestIrqFails
  <2>1. Keeps /\ Good
    BY <1>11, <1>n DEF RequestIrqFails, Goes, MonoType, MonoStages, StageInv,
                       Things, Config
  <2> QED
    BY <2>1, ProbeStepInv
<1>12. CASE BridgeSetupFails
  <2>1. Keeps /\ Good
    BY <1>12, <1>n DEF BridgeSetupFails, Goes, MonoType, MonoStages, StageInv,
                       Things, Config
  <2> QED
    BY <2>1, ProbeStepInv
<1>13. CASE BridgeSetup
  <2>1. Keeps /\ Good
    BY <1>13, <1>n DEF BridgeSetup, Goes, MonoType, MonoStages, StageInv, Things,
                       Config
  <2> QED
    BY <2>1, ProbeStepInv
<1>14. CASE ProbeDone
  <2>1. Keeps /\ Good
    BY <1>14, <1>n DEF ProbeDone, Sendmail, SendReady, SendStomps, Goes, MonoType,
                       MonoStages, StageInv, Things, Config
  <2> QED
    BY <2>1, ProbeStepInv
<1>15. CASE ProbeGreetFails
  <2>1. Keeps /\ Good
    BY <1>15, <1>n DEF ProbeGreetFails, Goes, MonoType, MonoStages, StageInv,
                       Things, Config
  <2> QED
    BY <2>1, ProbeStepInv
<1>16. CASE Remove
  <2>1. Keeps /\ stage = "bound" /\ stage' = "teardown" /\ irqs' = irqs /\ unplugged' = file
    BY <1>16 DEF Remove, Goes
  <2>2. /\ held' = held \ {"lookup", "misc"} /\ "wbuf" \notin held
        /\ Config \cup {"enabled", "vectors"} \subseteq held
    BY <1>16 DEF Remove, Goes, StageInv, Config
  <2>3. MonoType'
    BY <1>16, <2>1, <2>2 DEF Remove, MonoType, MonoStages
  <2>4. StageInv'
    BY <2>1, <2>2 DEF StageInv, Config, BARs
  <2>5. FileInv'
    BY <2>1
  <2> QED
    BY <2>1, <2>3, <2>4, <2>5, ProbeStepInv
<1>17. CASE FreeVectors
  <2>1. Keeps /\ FileInv'
    BY <1>17, <1>n DEF FreeVectors, Goes
  <2>2. MonoType'
    BY <1>17 DEF FreeVectors, Goes, MonoType, MonoStages, Things, Config
  <2>3. StageInv'
    BY <1>17, <1>n DEF FreeVectors, Goes, StageInv, BARs
  <2> QED
    BY <2>1, <2>2, <2>3, ProbeStepInv
<1>18. CASE Destroy
  <2>1. /\ UNCHANGED <<irqs, pc, slot, hpc, victim, badLock, legible_slot, legible_lock>>
        /\ Inside = {} /\ wbuf_lock' = 1 /\ badUps' = 0
    BY <1>18 DEF Destroy
  <2>2. /\ Readers = {} /\ Writers = {} /\ Readers' = {} /\ Writers' = {}
        /\ Locked' = Locked
    BY <2>1 DEF Readers, Writers, Locked
  <2>3. MonoType'
    BY <1>18 DEF Destroy, Goes, MonoType, MonoStages, Things
  <2>4. StageInv'
    <3>1. held \subseteq Config \cup {"enabled", "listed", "lookup"} /\ irqs' = {}
      BY <1>18, <1>n DEF Destroy, Goes, StageInv, MonoType, Things
    <3>2. held' \subseteq {"lookup", "wbuf"} /\ stage' = "none"
      BY <1>18, <3>1 DEF Destroy, Goes
    <3> QED
      BY <3>1, <3>2 DEF StageInv
  <2>5. FileInv'
    BY <1>18, <1>n DEF Destroy, Goes
  <2>6. Cardinality({}) = 0
    BY FS_EmptySet
  <2>7. LocksBalance'
    <3>1. wbuf_lock' + Cardinality(Writers') = 1 + badUps'
      BY <2>1, <2>2, <2>6
    <3>2. legible_lock' + Cardinality(Readers') + Cardinality(Locked') = 1
      BY <2>1, <2>2 DEF LocksBalance, Locked
    <3> QED
      BY <3>1, <3>2 DEF LocksBalance, Locked
  <2>8. ReleasesWhatItRead'
    BY <2>1 DEF ReleasesWhatItRead
  <2> QED
    BY <2>3, <2>4, <2>5, <2>7, <2>8
<1>19. CASE DestroyUnderCall
  BY <1>19, CrashInv DEF DestroyUnderCall
<1>20. ASSUME NEW s \in Senders, RequestIrq(s) \/ FreeIrq(s) PROVE Inv'
  <2>1. Keeps /\ Good
    BY <1>20 DEF RequestIrq, FreeIrq, MonoType, MonoStages, StageInv
  <2> QED
    BY <2>1, ProbeStepInv
<1> QED
  BY <1>1, <1>2, <1>3, <1>4, <1>5, <1>6, <1>7, <1>8, <1>9, <1>10,
     <1>11, <1>12, <1>13, <1>14, <1>15, <1>16, <1>17, <1>18, <1>19,
     <1>20 DEF ProbeStep

-------------------------------------------------------------------------------
(* Interrupts and calls *)

\* A step that leaves the probe, the locks and what they guard alone.
LEMMA Aside ==
    ASSUME Inv, MonoType', FileInv',
           UNCHANGED <<probe, legible, wbuf_lock, badUps, badLock, pc, slot>>, Locked' = Locked
    PROVE  Inv'
<1>1. StageInv'
  BY DEF Inv, probe, StageInv, Up, Vect
<1>2. Readers' = Readers /\ Writers' = Writers
  BY DEF Readers, Writers
<1>3. LocksBalance'
  BY <1>2 DEF Inv, legible, LocksBalance, Locked
<1>4. ReleasesWhatItRead'
  BY DEF Inv, legible, ReleasesWhatItRead
<1> QED
  BY <1>1, <1>3, <1>4 DEF Inv

\* LocksBalance after a step, from how the holders have changed.
LEMMA Rebalance ==
    ASSUME Inv, MonoType',
           legible_lock' + Cardinality(Readers') + Cardinality(Locked')
             = legible_lock + Cardinality(Readers) + Cardinality(Locked),
           wbuf_lock' + Cardinality(Writers') - badUps'
             = wbuf_lock + Cardinality(Writers) - badUps
    PROVE  LocksBalance'
<1>1. /\ legible_lock + Cardinality(Readers) + Cardinality(Locked) = 1
      /\ wbuf_lock + Cardinality(Writers) = 1 + badUps
  BY DEF Inv, LocksBalance, Locked
<1>2. /\ badUps \in Nat /\ badUps' \in Nat /\ wbuf_lock \in Nat /\ wbuf_lock' \in Nat
      /\ Cardinality(Writers) \in Nat /\ Cardinality(Writers') \in Nat
  <2>1. Writers' \subseteq Threads
    BY DEF Writers
  <2>2. IsFiniteSet(Writers')
    BY <2>1, ThreadsAssumption, FS_Subset
  <2> QED
    BY <2>2, CountOne, Counts DEF Inv, MonoType
<1>3. legible_lock' + Cardinality(Readers') + Cardinality(Locked') = 1
  BY <1>1
<1>4. wbuf_lock' + Cardinality(Writers') = 1 + badUps'
  BY <1>1, <1>2
<1> QED
  BY <1>3, <1>4 DEF LocksBalance, Locked

LEMMA HandlerInv ==
    ASSUME Inv, NEW s \in Senders,
           Interrupt(s) \/ AllMsix(s) \/ MsixBadLock(s)
    PROVE  Inv'
<1> USE DEF Inv
<1>k. UNCHANGED probe /\ UNCHANGED bridge /\ Readers' = Readers /\ Writers' = Writers
  BY DEF Interrupt, AllMsix, MsixPong, MsixPost, MsixLock, MsixBadLock, Readers, Writers,
         bridge
<1>c. wbuf_lock' + Cardinality(Writers') - badUps' = wbuf_lock + Cardinality(Writers) - badUps
  BY <1>k DEF bridge
<1>t. MonoType'
  <2> USE DEF MonoType, Hpcs, Handler, probe, bridge, legible
  <2>1. CASE Interrupt(s)
    BY <2>1 DEF Interrupt, Interruptible
  <2>2. CASE MsixPong(s)
    <3>1. msglen' \in BOOLEAN
      BY <2>2 DEF MsixPong, Sendmail, SendReady, SendStomps
    <3> QED
      BY <2>2, <3>1 DEF MsixPong
  <2>3. CASE MsixPost(s)
    BY <2>3 DEF MsixPost
  <2>4. CASE MsixBadLock(s)
    <3>1. badLock' \in BOOLEAN
      BY <2>4 DEF MsixBadLock
    <3> QED
      BY <2>4, <3>1 DEF MsixBadLock
  <2>5. CASE MsixLock(s)
    BY <2>5 DEF MsixLock
  <2> QED
    BY <2>1, <2>2, <2>3, <2>4, <2>5 DEF AllMsix
<1>f. FileInv' /\ StageInv'
  <2>1. s \in irqs
    BY DEF FileInv, Active, Interrupt, AllMsix, MsixPong, MsixPost, MsixLock,
           MsixBadLock, Handler
  <2>2. \A z \in Senders : hpc'[z] = hpc[z] \/ z = s
    BY DEF MonoType, Interrupt, AllMsix, MsixPong, MsixPost, MsixLock, MsixBadLock, Handler
  <2> QED
    BY <1>k, <2>1, <2>2 DEF FileInv, StageInv, Active, Inside, Up, Vect, probe, bridge
<1>1. CASE Interrupt(s) \/ MsixPong(s)
  <2>1. Locked' = Locked /\ UNCHANGED <<legible, badLock>>
    BY <1>1 DEF Interrupt, MsixPong, Handler, Locked, MonoType
  <2> QED
    BY <1>k, <1>t, <1>f, <2>1, Aside DEF bridge
<1>2. CASE MsixLock(s)
  <2>1. /\ s \notin Locked /\ Locked' = Locked \cup {s}
        /\ legible_lock' = legible_lock - 1 /\ legible_slot' = legible_slot
        /\ badLock' = badLock
    BY <1>2 DEF MsixLock, Handler, Locked, MonoType
  <2>2. Cardinality(Locked') = Cardinality(Locked) + 1
    BY <2>1, Finite, CountOne
  <2>3. LocksBalance'
    <3>1. legible_lock' + Cardinality(Readers') + Cardinality(Locked')
            = legible_lock + Cardinality(Readers) + Cardinality(Locked)
      BY <1>k, <2>1, <2>2, Counts DEF MonoType
    <3> QED
      BY <1>t, <1>c, <3>1, Rebalance
  <2>4. ReleasesWhatItRead'
    BY <1>k, <2>1 DEF ReleasesWhatItRead, bridge
  <2> QED
    BY <1>t, <1>f, <2>3, <2>4
<1>3. CASE MsixBadLock(s)
  <2>1. Locked' = Locked /\ legible_lock' = legible_lock /\ badLock' = (Readers # {})
    BY <1>3 DEF MsixBadLock, Handler, Locked, MonoType
  <2>2. LocksBalance'
    BY <1>t, <1>k, <1>c, <2>1, Rebalance
  <2>3. ReleasesWhatItRead'
    BY <1>k, <2>1 DEF ReleasesWhatItRead, Readers
  <2> QED
    BY <1>t, <1>f, <2>2, <2>3
<1>4. CASE MsixPost(s)
  <2>1. /\ s \in Locked /\ Locked' = Locked \ {s}
        /\ legible_lock' = legible_lock + 1
    BY <1>4 DEF MsixPost, Handler, Locked, MonoType
  <2>2. Cardinality(Locked') = Cardinality(Locked) - 1
    BY <2>1, Finite, CountOne
  <2>3. LocksBalance'
    <3>1. legible_lock' + Cardinality(Readers') + Cardinality(Locked')
            = legible_lock + Cardinality(Readers) + Cardinality(Locked)
      BY <1>k, <2>1, <2>2, Counts DEF MonoType
    <3> QED
      BY <1>t, <1>c, <3>1, Rebalance
  <2>4. ReleasesWhatItRead'
    BY <1>k, <2>1, Excluded DEF ReleasesWhatItRead, Readers
  <2> QED
    BY <1>t, <1>f, <2>3, <2>4
<1> QED
  BY <1>1, <1>2, <1>3, <1>4 DEF AllMsix

LEMMA CallInv == ASSUME Inv, NEW t \in Threads, Call(t), ~ CallUnplugged(t) PROVE Inv'
<1> USE DEF Inv
<1>k. /\ UNCHANGED <<probe, hpc, victim, file>>
      /\ Locked' = Locked /\ Cardinality(Locked') = Cardinality(Locked)
  BY DEF Call, ReadWait, ReadLock, ReadFound, ReadNothing, ReadInterrupted, ReadWoken,
         WriteWait, WriteLock, WriteInterrupted, Proceeds, ReadRelease, WriteSplit,
         WriteRefused, WriteSend, isr, Locked
<1>p. /\ pc[t] # "idle" \/ file
      /\ \E p \in Pcs : pc' = [pc EXCEPT ![t] = p]
  <2> USE DEF At, Calls, Downs, Pcs
  <2>1. CASE ReadWait(t) \/ ReadLock(t) \/ WriteWait(t) \/ WriteLock(t)
    BY <2>1 DEF ReadWait, ReadLock, WriteWait, WriteLock
  <2>2. CASE ReadInterrupted(t) \/ ReadWoken(t) \/ WriteInterrupted(t)
    BY <2>2 DEF ReadInterrupted, ReadWoken, WriteInterrupted
  <2>3. CASE Proceeds(t)
    BY <2>3 DEF Proceeds, ReadFound, ReadNothing, ReadRelease, WriteSplit, WriteRefused,
                WriteSend
  <2> QED
    BY <2>1, <2>2, <2>3 DEF Call
<1>o. pc' \in [Threads -> Pcs] /\ \A u \in Threads \ {t} : pc'[u] = pc[u]
  BY <1>p DEF MonoType
<1>f. FileInv' /\ StageInv'
  <2>1. file
    BY <1>p DEF FileInv, Inside
  <2> QED
    BY <1>k, <2>1 DEF FileInv, StageInv, Active, Inside, Up, Vect, probe
<1>1. CASE ReadWait(t) \/ ReadInterrupted(t) \/ ReadWoken(t) \/ WriteWait(t) \/ WriteSplit(t)
  <2> USE DEF At, Calls, Downs
  <2>1. UNCHANGED <<legible, wbuf_lock, badUps, badLock, slot, msglen>>
    BY <1>1 DEF ReadWait, ReadInterrupted, ReadWoken, WriteWait, WriteSplit, isr
  <2>2. /\ pc[t] \notin {"test", "copy"} /\ pc'[t] \notin {"test", "copy"}
        /\ (pc[t] \in {"body", "send"}) <=> (pc'[t] \in {"body", "send"})
    BY <1>1 DEF ReadWait, ReadInterrupted, ReadWoken, WriteWait, WriteSplit, MonoType
  <2>3. Readers' = Readers /\ Writers' = Writers
    BY <1>o, <2>2 DEF Readers, Writers
  <2>4. MonoType'
    BY <1>k, <1>o, <2>1 DEF MonoType, probe, legible
  <2>5. ReleasesWhatItRead'
    BY <1>o, <2>1, <2>2 DEF ReleasesWhatItRead, legible
  <2> QED
    BY <1>k, <1>f, <2>1, <2>3, <2>4, <2>5, Rebalance DEF legible
<1>2. CASE ReadLock(t)
  <2>1. /\ pc[t] \in {"idle", "rlock"} /\ pc'[t] = "test"
        /\ legible_lock > 0 /\ legible_lock' = legible_lock - 1
        /\ UNCHANGED <<legible_slot, slot, wbuf_lock, badUps, badLock, msglen>>
    BY <1>2 DEF ReadLock, Calls, Downs, At, MonoType, isr
  <2>2. t \notin Readers /\ Readers' = Readers \cup {t} /\ Writers' = Writers
    BY <1>o, <2>1 DEF Readers, Writers
  <2>3. MonoType'
    BY <1>k, <1>o, <2>1 DEF MonoType, probe
  <2>4. LocksBalance'
    <3>1. Cardinality(Readers') = Cardinality(Readers) + 1
      BY <2>2, Finite, CountOne
    <3>2. legible_lock' + Cardinality(Readers') + Cardinality(Locked')
            = legible_lock + Cardinality(Readers) + Cardinality(Locked)
      BY <1>k, <2>1, <3>1, Counts DEF MonoType
    <3> QED
      BY <2>1, <2>2, <2>3, <3>2, Rebalance
  <2>5. ReleasesWhatItRead'
    BY <1>o, <2>1 DEF ReleasesWhatItRead
  <2> QED
    BY <1>f, <2>3, <2>4, <2>5
<1>7. CASE ReadFound(t)
  <2>1. /\ pc[t] = "test" /\ pc'[t] = "copy" /\ slot' = [slot EXCEPT ![t] = legible_slot]
        /\ UNCHANGED <<legible_lock, legible_slot, wbuf_lock, badUps, badLock, msglen>>
    BY <1>7 DEF ReadFound, At, MonoType, isr, legible
  <2>2. t \in Readers /\ Readers' = Readers /\ Writers' = Writers
    BY <1>o, <2>1 DEF Readers, Writers
  <2>3. MonoType'
    BY <1>k, <1>o, <2>1 DEF MonoType, probe
  <2>4. LocksBalance'
    BY <1>k, <2>1, <2>2, <2>3, Rebalance
  <2>5. ReleasesWhatItRead'
    <3>1. \A u \in Threads : pc'[u] = "copy" => u = t
      BY <2>2, Excluded DEF Readers
    <3> QED
      BY <2>1, <3>1 DEF ReleasesWhatItRead, MonoType
  <2> QED
    BY <1>f, <2>3, <2>4, <2>5
<1>8. CASE ReadNothing(t)
  <2>1. /\ pc[t] = "test" /\ pc'[t] \in {"sleep", "idle"}
        /\ legible_lock' = legible_lock + 1 /\ badLock' \in BOOLEAN
        /\ UNCHANGED <<legible_slot, slot, wbuf_lock, badUps, msglen>>
    BY <1>8 DEF ReadNothing, At, MonoType
  <2>2. t \in Readers /\ Readers' = Readers \ {t} /\ Writers' = Writers
    BY <1>o, <2>1 DEF Readers, Writers
  <2>3. MonoType'
    BY <1>k, <1>o, <2>1 DEF MonoType, probe
  <2>4. LocksBalance'
    <3>1. Cardinality(Readers') = Cardinality(Readers) - 1
      BY <2>2, Finite, CountOne
    <3>2. legible_lock' + Cardinality(Readers') + Cardinality(Locked')
            = legible_lock + Cardinality(Readers) + Cardinality(Locked)
      BY <1>k, <2>1, <3>1, Counts DEF MonoType
    <3> QED
      BY <2>1, <2>2, <2>3, <3>2, Rebalance
  <2>5. ReleasesWhatItRead'
    <3>1. Readers' = {}
      BY <2>2, Excluded
    <3> QED
      BY <3>1 DEF ReleasesWhatItRead, Readers
  <2> QED
    BY <1>f, <2>3, <2>4, <2>5
<1>3. CASE ReadRelease(t)
  <2>1. /\ pc[t] = "copy" /\ pc'[t] = "idle"
        /\ legible_lock' = legible_lock + 1 /\ legible_slot' = Null
        /\ slot' = [slot EXCEPT ![t] = Null] /\ badLock' \in BOOLEAN
        /\ UNCHANGED <<wbuf_lock, badUps, msglen>>
    BY <1>3 DEF ReadRelease, At, MonoType
  <2>2. t \in Readers /\ Readers' = Readers \ {t} /\ Writers' = Writers
    BY <1>o, <2>1 DEF Readers, Writers
  <2>3. MonoType'
    BY <1>k, <1>o, <2>1 DEF MonoType, probe
  <2>4. LocksBalance'
    <3>1. Cardinality(Readers') = Cardinality(Readers) - 1
      BY <2>2, Finite, CountOne
    <3>2. legible_lock' + Cardinality(Readers') + Cardinality(Locked')
            = legible_lock + Cardinality(Readers) + Cardinality(Locked)
      BY <1>k, <2>1, <3>1, Counts DEF MonoType
    <3> QED
      BY <2>1, <2>2, <2>3, <3>2, Rebalance
  <2>5. ReleasesWhatItRead'
    <3>1. Readers' = {}
      BY <2>2, Excluded
    <3> QED
      BY <3>1 DEF ReleasesWhatItRead, Readers
  <2> QED
    BY <1>f, <2>3, <2>4, <2>5
<1>4. CASE WriteLock(t)
  <2>1. /\ pc[t] \in {"idle", "wlock"} /\ pc'[t] = "body"
        /\ wbuf_lock > 0 /\ wbuf_lock' = wbuf_lock - 1
        /\ UNCHANGED <<legible_lock, legible_slot, slot, badUps, badLock, msglen>>
    BY <1>4 DEF WriteLock, Calls, Downs, At, MonoType, legible, isr
  <2>2. t \notin Writers /\ Writers' = Writers \cup {t} /\ Readers' = Readers
    BY <1>o, <2>1 DEF Readers, Writers
  <2>3. MonoType'
    BY <1>k, <1>o, <2>1 DEF MonoType, probe
  <2>4. LocksBalance'
    <3>1. Cardinality(Writers') = Cardinality(Writers) + 1
      BY <2>2, Finite, CountOne
    <3>2. wbuf_lock' + Cardinality(Writers') - badUps'
            = wbuf_lock + Cardinality(Writers) - badUps
      BY <2>1, <3>1, Counts DEF MonoType
    <3> QED
      BY <1>k, <2>1, <2>2, <2>3, <3>2, Rebalance
  <2>5. ReleasesWhatItRead'
    BY <1>o, <2>1 DEF ReleasesWhatItRead
  <2> QED
    BY <1>f, <2>3, <2>4, <2>5
<1>5. CASE WriteInterrupted(t)
  <2>1. /\ pc[t] = "wlock" /\ pc'[t] = "idle"
        /\ wbuf_lock = 0 /\ wbuf_lock' = 1 /\ badUps' = badUps + 1
        /\ UNCHANGED <<legible_lock, legible_slot, slot, badLock, msglen>>
    BY <1>5 DEF WriteInterrupted, At, MonoType, legible, isr
  <2>2. Writers' = Writers /\ Readers' = Readers
    BY <1>o, <2>1 DEF Readers, Writers
  <2>3. MonoType'
    BY <1>k, <1>o, <2>1 DEF MonoType, probe
  <2>4. LocksBalance'
    <3>1. wbuf_lock' + Cardinality(Writers') - badUps'
            = wbuf_lock + Cardinality(Writers) - badUps
      BY <2>1, <2>2, Counts DEF MonoType
    <3> QED
      BY <1>k, <2>1, <2>2, <2>3, <3>1, Rebalance
  <2>5. ReleasesWhatItRead'
    BY <1>o, <2>1 DEF ReleasesWhatItRead
  <2> QED
    BY <1>f, <2>3, <2>4, <2>5
<1>6. CASE WriteRefused(t) \/ WriteSend(t)
  <2>1. /\ pc[t] \in {"body", "send"} /\ pc'[t] = "idle"
        /\ wbuf_lock' = wbuf_lock + 1 /\ msglen' \in BOOLEAN
        /\ UNCHANGED <<legible_lock, legible_slot, slot, badUps, badLock>>
    BY <1>6 DEF WriteRefused, WriteSend, At, MonoType, legible, isr, Sendmail,
                SendReady, SendStomps
  <2>2. t \in Writers /\ Writers' = Writers \ {t} /\ Readers' = Readers
    BY <1>o, <2>1 DEF Readers, Writers
  <2>3. MonoType'
    BY <1>k, <1>o, <2>1 DEF MonoType, probe
  <2>4. LocksBalance'
    <3>1. Cardinality(Writers') = Cardinality(Writers) - 1
      BY <2>2, Finite, CountOne
    <3>2. wbuf_lock' + Cardinality(Writers') - badUps'
            = wbuf_lock + Cardinality(Writers) - badUps
      BY <2>1, <3>1, Counts DEF MonoType
    <3> QED
      BY <1>k, <2>1, <2>2, <2>3, <3>2, Rebalance
  <2>5. ReleasesWhatItRead'
    BY <1>o, <2>1 DEF ReleasesWhatItRead
  <2> QED
    BY <1>f, <2>3, <2>4, <2>5
<1> QED
  BY <1>1, <1>2, <1>3, <1>4, <1>5, <1>6, <1>7, <1>8 DEF Call, Proceeds

LEMMA InvStep == Inv /\ [Next]_vars => Inv'
<1> SUFFICES ASSUME Inv, [Next]_vars PROVE Inv'
  OBVIOUS
<1>1. CASE PeerFrees \/ UNCHANGED vars
  <2>1. /\ UNCHANGED <<probe, bridge, isr, legible>> /\ msglen' \in BOOLEAN
    BY <1>1 DEF PeerFrees, vars, Inv, MonoType
  <2>2. MonoType' /\ FileInv' /\ Locked' = Locked
    BY <2>1 DEF Inv, MonoType, FileInv, Inside, Active, Locked, Up, probe, bridge, isr,
                legible
  <2> QED
    BY <2>1, <2>2, Aside DEF bridge, isr
<1>2. CASE Open
  <2>1. UNCHANGED <<probe, legible, wbuf_lock, badUps, badLock, pc, slot>>
    BY <1>2 DEF Open, isr
  <2>2. MonoType' /\ FileInv' /\ Locked' = Locked
    BY <1>2 DEF Open, Inv, MonoType, FileInv, StageInv, Inside, Active, Locked, Up,
                probe, isr, legible
  <2> QED
    BY <2>1, <2>2, Aside
<1>3. CASE Close
  <2>1. /\ MonoType' /\ FileInv' /\ StageInv'
        /\ Readers' = Readers /\ Locked' = Locked
        /\ Writers = {} /\ Writers' = {}
    BY <1>3 DEF Close, Inv, MonoType, FileInv, StageInv, Inside, Active, Readers,
                Writers, Locked, probe, isr, legible
  <2>2. ReleasesWhatItRead'
    BY <1>3, <2>1 DEF Close, Inv, ReleasesWhatItRead, isr, legible
  <2>3. wbuf_lock = 1 + badUps /\ Cardinality(Writers) = 0 /\ Cardinality(Writers') = 0
    BY <2>1, FS_EmptySet DEF Inv, LocksBalance, MonoType
  <2>4. LocksBalance'
    BY <1>3, <2>1, <2>3, Rebalance DEF Close, legible, Inv, MonoType
  <2> QED
    BY <2>1, <2>2, <2>4 DEF Inv
<1>4. ASSUME NEW s \in Senders, MsixBug(s) PROVE Inv'
  BY <1>4, CrashInv DEF MsixBug
<1>5. ASSUME NEW t \in Threads, CallUnplugged(t) PROVE Inv'
  BY <1>5, CrashInv DEF CallUnplugged
<1> QED
  BY <1>1, <1>2, <1>3, <1>4, <1>5, ProbeInv, HandlerInv, CallInv DEF Next

-------------------------------------------------------------------------------

\* Threads, handlers and semaphores keep to the values the code has for them:
\* legible_slot_lock never counts above one, wbuf_lock only after a write whose
\* wait was interrupted.
THEOREM MonoTypeTheorem == Spec => []TypeOK
<1>1. Inv => TypeOK
  <2> SUFFICES ASSUME Inv PROVE TypeOK
    OBVIOUS
  <2>1. legible_lock \in {0, 1} /\ wbuf_lock \in 0 .. (1 + badUps)
    BY Excluded DEF Inv
  <2> QED
    BY <2>1 DEF Inv, MonoType, TypeOK, MonoStages, Things, Pcs, Hpcs
<1> QED
  BY InvInit, InvStep, <1>1, PTL DEF Spec

\* bridge_read, bridge_write and all_msix give back each lock exactly as often
\* as they took it, on every path and through every probe and removal.
THEOREM LocksBalanceTheorem == Spec => []LocksBalance
<1>1. Inv => LocksBalance
  BY DEF Inv
<1> QED
  BY InvInit, InvStep, <1>1, PTL DEF Spec

\* famez_release_legible_slot frees the slot that its reader has copied, unless
\* a signal broke a wait of all_msix.
THEOREM ReleasesTheorem == Spec => []ReleasesWhatItRead
<1>1. Inv => ReleasesWhatItRead
  BY DEF Inv
<1> QED
  BY InvInit, InvStep, <1>1, PTL DEF Spec

\* No vector is attached and no handler runs once what they use has been given
\* back, on every path of famez_probe and famez_remove; an open file whose device
\* was not removed under it has the device and the configuration, and a call that
\* is inside keeps the configuration to the end of the removal.  After a
\* removal, and after a probe that failed before its greeting, nothing is left
\* but memory.
THEOREM CallsLiveTheorem == Spec => []CallsLive
<1>1. Inv => CallsLive
  BY DEF Inv, StageInv, FileInv, CallsLive, Config, Up, Vect
<1> QED
  BY InvInit, InvStep, <1>1, PTL DEF Spec
===============================================================================
