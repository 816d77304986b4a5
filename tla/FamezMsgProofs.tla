---------------------------- MODULE FamezMsgProofs ----------------------------
(***************************************************************************)
(* Proofs about FamezMsg, for any set of kernel peers: type correctness of *)
(* every instance, and, when the server does not manage the fabric, that   *)
(* a kernel peer's message stays in its slot from its doorbell until its   *)
(* receiver lets go of it, is read whole, by the peer it was sent to, and  *)
(* only once.                                                              *)
(***************************************************************************)
EXTENDS FamezMsg, TLAPS

-------------------------------------------------------------------------------
(* The inductive invariant *)

\* Peer x has a reason to look into slot s: an interrupt to service, an
\* incoming_slot, a read in progress, or (the server) a retrieve.
Reads(s, x)   == rd[x].pc \in {"copy", "release"} /\ rd[x].from = s
Clears(s, x)  == x = Server /\ srv.pc = "clear" /\ srv.from = s
Awaits(s, x)  == x \in Kernel /\ (incoming[x] = s \/ Reads(s, x))
Holds(s, x)   == s \in pending[x] \/ Awaits(s, x) \/ Clears(s, x)

\* Such a peer finds the message meant for it, and the owner of the slot is
\* not past the test of buflen.
MailInv ==
    \A s \in Kernel, x \in Ids :
        Holds(s, x) => /\ HoldsMailFor(s, x)
                       /\ out[s][Process].pc \in {"idle", "wait"}

\* One message raises one interrupt: while it is pending nothing else at its
\* receiver points to the slot.
OnceInv ==
    \A s \in Kernel, x \in Ids :
        s \in pending[x] => ~ Awaits(s, x) /\ ~ Clears(s, x)

\* Nobody has taken the message yet, except a read that is about to release it
\* or hangs there.
SeenInv ==
    \A s \in Kernel, x \in Ids :
        /\ s \in pending[x] => ~ sent[s].seen
        /\ x \in Kernel /\ incoming[x] = s =>
             ~ sent[s].seen \/ (rd[x].pc \in {"release", "hung"} /\ rd[x].from = s)
        /\ x \in Kernel /\ rd[x].pc = "copy" /\ rd[x].from = s => ~ sent[s].seen

\* What a read has copied is what was sent.
CopyInv ==
    \A x \in Kernel : rd[x].pc = "release" /\ rd[x].from \in Kernel =>
        /\ rd[x].len = sent[rd[x].from].msg
        /\ rd[x].buf = sent[rd[x].from].msg

\* The slot of a peer that is past the test is as far filled as its thread is.
FillInv ==
    \A n \in Kernel :
        /\ out[n][Process].pc \in {"copy", "ring"} =>
             slot[n].buflen = out[n][Process].msg
        /\ out[n][Process].pc = "ring" => slot[n].buf = out[n][Process].msg

\* No interrupt handler of a kernel peer ever answers: kernel peers have
\* wiped their peer_id, and this server asks nothing.
SilentInv ==
    /\ \A n \in Kernel, s \in Ids : out[n][s].pc \in {"idle", "wake"}
    /\ \A n \in Kernel : up[n] # "off" => slot[n].peer_id = 0
    /\ \A n \in Kernel : up[n] = "off" => /\ sent[n].msg = None
                                          /\ out[n][Process].pc = "idle"
    /\ slot[Server].buf \in {None, "pong", "ack"}
    /\ srv.pc \in {"fill", "kick"} => srv.msg \in {"pong", "ack"}
    /\ announce = {}

\* The parts of type correctness that depend on a program counter.
PcInv ==
    /\ \A x \in Ids : pending[x] \subseteq Peers
    /\ \A x \in Kernel : incoming[x] \in Peers \cup {Null}
    /\ \A n \in Kernel, c \in Contexts :
         out[n][c].pc \notin {"idle", "wake"} => out[n][c].msg \in Msgs
    /\ \A x \in Kernel : rd[x].pc \in {"copy", "release"} => rd[x].from \in Ids
    /\ srv.pc = "clear" => srv.from \in Ids
    /\ srv.pc \in {"fill", "kick"} => srv.msg \in Msgs

Inv == /\ TypeOK /\ PcInv /\ SilentInv /\ FillInv
       /\ MailInv /\ OnceInv /\ SeenInv /\ CopyInv

-------------------------------------------------------------------------------
(* Type correctness *)

LEMMA ConstantFacts ==
    /\ Server \in Ids /\ Server \notin Kernel
    /\ Kernel \subseteq Ids /\ Peers \subseteq Ids
    /\ Process \notin Ids /\ Process \in Contexts /\ Ids \subseteq Contexts
    /\ Null \notin Ids /\ Ids \subseteq 0 .. Server /\ Null \in 0 .. Server
    /\ None \notin Msgs
BY ServerAssumption, KernelAssumption
   DEF Ids, Peers, Contexts, Process, Null, None, Msgs

\* The initial records have their types.
LEMMA RecordFacts ==
    /\ Idle \in OutType /\ RdIdle \in RdType
    /\ SrvIdle \in SrvType /\ NotSent \in SentType
    /\ \A i \in Ids : FreshSlot(i) \in SlotType
BY ConstantFacts, RestartAssumption
   DEF Idle, OutType, RdIdle, RdType, SrvIdle, SrvType, NotSent, SentType,
       FreshSlot, SlotType, Maybe, Ids, Null

\* Stores into one field of a record in a function keep its type.
LEMMA SlotStores ==
    ASSUME NEW f \in [Ids -> SlotType], NEW i \in Ids, NEW m \in Maybe(Msgs)
    PROVE  /\ [f EXCEPT ![i].buflen = m] \in [Ids -> SlotType]
           /\ [f EXCEPT ![i].buf = m] \in [Ids -> SlotType]
BY DEF SlotType

LEMMA SlotStamps ==
    ASSUME NEW f \in [Ids -> SlotType], NEW i \in Ids, NEW d \in Nat
    PROVE  /\ [f EXCEPT ![i].peer_CID = d] \in [Ids -> SlotType]
           /\ [f EXCEPT ![i].peer_CID = d, ![i].buflen = None]
                \in [Ids -> SlotType]
BY DEF SlotType, Maybe

LEMMA OutStores ==
    ASSUME NEW f \in [Kernel -> [Contexts -> OutType]], NEW n \in Kernel,
           NEW c \in Contexts, NEW r \in OutType,
           NEW p \in {"idle", "wait", "claim", "copy", "ring", "wake"}
    PROVE  /\ [f EXCEPT ![n][c] = r] \in [Kernel -> [Contexts -> OutType]]
           /\ [f EXCEPT ![n][c].pc = p] \in [Kernel -> [Contexts -> OutType]]
BY DEF OutType

LEMMA ReaderStores ==
    ASSUME NEW f \in [Kernel -> RdType], NEW n \in Kernel
    PROVE  /\ [f EXCEPT ![n].pc = "prepare"] \in [Kernel -> RdType]
           /\ [f EXCEPT ![n].pc = "queued"] \in [Kernel -> RdType]
           /\ [f EXCEPT ![n].pc = "hung"] \in [Kernel -> RdType]
           /\ [f EXCEPT ![n].pc = IF @ = "queued" THEN "sleep" ELSE "prepare"]
                \in [Kernel -> RdType]
           /\ [f EXCEPT ![n].pc = IF @ \in {"queued", "sleep"}
                                  THEN "prepare" ELSE @] \in [Kernel -> RdType]
BY DEF RdType

LEMMA OutRestarts ==
    ASSUME NEW f \in [Kernel -> [Contexts -> OutType]], NEW n \in Kernel,
           NEW c \in Contexts, NEW t \in 0 .. Restarts
    PROVE  [f EXCEPT ![n][c].tries = t] \in [Kernel -> [Contexts -> OutType]]
<1> DEFINE T == 0 .. Restarts
<1>1. f[n][c] \in [pc : {"idle", "wait", "claim", "copy", "ring", "wake"},
                   dest : 0 .. Server, msg : Maybe(Msgs), tries : T] /\ t \in T
  BY DEF OutType
<1> HIDE DEF T
<1>2. [f[n][c] EXCEPT !.tries = t]
         \in [pc : {"idle", "wait", "claim", "copy", "ring", "wake"},
             dest : 0 .. Server, msg : Maybe(Msgs), tries : T]
  BY <1>1
<1>3. [f[n][c] EXCEPT !.tries = t] \in OutType
  BY <1>2 DEF OutType, T
<1> QED BY <1>3

LEMMA SentStores ==
    ASSUME NEW f \in [Kernel -> SentType], NEW s
    PROVE  [f EXCEPT ![s].seen = TRUE] \in [Kernel -> SentType]
BY DEF SentType

LEMMA SentMarks ==
    ASSUME NEW f \in [Kernel -> SentType], NEW s \in Kernel, NEW i \in Kernel
    PROVE  /\ [f EXCEPT ![s].seen = TRUE][i].msg = f[i].msg
           /\ [f EXCEPT ![s].seen = TRUE][i].to = f[i].to
           /\ i # s => [f EXCEPT ![s].seen = TRUE][i] = f[i]
BY DEF SentType

TypeInv == TypeOK /\ PcInv

LEMMA TypeInit == Init => TypeInv
<1> SUFFICES ASSUME Init PROVE TypeInv
  OBVIOUS
<1>1. TypeOK
  BY ConstantFacts, RecordFacts, SmartAssumption DEF Init, TypeOK
<1>2. PcInv
  BY ConstantFacts DEF Init, PcInv, Idle, RdIdle, SrvIdle
<1> QED BY <1>1, <1>2 DEF TypeInv

LEMMA TypeStep == TypeInv /\ [Next]_vars => TypeInv'
<1> SUFFICES ASSUME TypeInv, [Next]_vars PROVE TypeInv'
  OBVIOUS
<1> USE ConstantFacts, RecordFacts DEF TypeInv
<1>1. ASSUME NEW n \in Kernel, InitOne(n) PROVE TypeInv'
  <2>1. slot' \in [Ids -> SlotType]
    BY <1>1 DEF TypeOK, InitOne, SlotType, FreshSlot, Maybe
  <2>2. Request(Server, "attr", 0) \in OutType
    BY <1>1, RestartAssumption DEF TypeOK, Request, OutType, Maybe, Msgs
  <2>3. out' \in [Kernel -> [Contexts -> OutType]]
    BY <1>1, OutStores, <2>2 DEF TypeOK, InitOne
  <2>4. TypeOK'
    BY <1>1, <2>1, <2>2, <2>3 DEF TypeOK, InitOne
  <2>5. PcInv'
    BY <1>1 DEF TypeOK, PcInv, InitOne, Request, Msgs
  <2> QED BY <2>4, <2>5
<1>2. ASSUME NEW n \in Kernel, NEW a \in Addresses,
            NEW m \in UserMsgs, BridgeWrite(n, a[1], a[2], m) PROVE TypeInv'
  <2>1. Request(PeerOf(a[1], a[2]), m, Restarts) \in OutType
    BY <1>2, AddressAssumption, UserAssumption, ServerAssumption,
       RestartAssumption DEF TypeOK, BridgeWrite, Accepts, PeerOf,
       Request, OutType, Maybe
  <2>2. out' \in [Kernel -> [Contexts -> OutType]]
    BY <1>2, OutStores, <2>1 DEF TypeOK, BridgeWrite
  <2>3. TypeOK'
    BY <1>2, <2>1, <2>2 DEF TypeOK, BridgeWrite
  <2>4. PcInv'
    BY <1>2, UserAssumption DEF TypeOK, PcInv, BridgeWrite, Request
  <2> QED BY <2>3, <2>4
<1>3. ASSUME NEW n \in Kernel, NEW c \in Contexts, SlotReady(n, c) PROVE TypeInv'
  <2>1. out' \in [Kernel -> [Contexts -> OutType]]
    BY <1>3, OutStores DEF TypeOK, SlotReady
  <2>2. TypeOK'
    BY <1>3, <2>1 DEF TypeOK, SlotReady
  <2>3. PcInv'
    BY <1>3 DEF TypeOK, PcInv, SlotReady, OutType
  <2> QED BY <2>2, <2>3
<1>4. ASSUME NEW n \in Kernel, NEW c \in Contexts, ClaimSlot(n, c) PROVE TypeInv'
  <2>1. out' \in [Kernel -> [Contexts -> OutType]]
    BY <1>4, OutStores DEF TypeOK, ClaimSlot
  <2>2. out[n][c].msg \in Maybe(Msgs)
    BY <1>4 DEF TypeOK, OutType
  <2>3. slot' \in [Ids -> SlotType]
    BY <1>4, SlotStores, <2>2 DEF TypeOK, ClaimSlot
  <2>4. TypeOK'
    BY <1>4, <2>1, <2>2, <2>3 DEF TypeOK, ClaimSlot
  <2>5. PcInv'
    BY <1>4 DEF TypeOK, PcInv, ClaimSlot, OutType
  <2> QED BY <2>4, <2>5
<1>5. ASSUME NEW n \in Kernel, NEW c \in Contexts, FillSlot(n, c) PROVE TypeInv'
  <2>1. out' \in [Kernel -> [Contexts -> OutType]]
    BY <1>5, OutStores DEF TypeOK, FillSlot
  <2>2. out[n][c].msg \in Maybe(Msgs)
    BY <1>5 DEF TypeOK, OutType
  <2>3. slot' \in [Ids -> SlotType]
    BY <1>5, SlotStores, <2>2 DEF TypeOK, FillSlot
  <2>4. TypeOK'
    BY <1>5, <2>1, <2>2, <2>3 DEF TypeOK, FillSlot
  <2>5. PcInv'
    BY <1>5 DEF TypeOK, PcInv, FillSlot, OutType
  <2> QED BY <2>4, <2>5
<1>6. ASSUME NEW n \in Kernel, NEW c \in Contexts, RingDoorbell(n, c) PROVE TypeInv'
  <2>1. out' \in [Kernel -> [Contexts -> OutType]]
    BY <1>6, OutStores DEF TypeOK, RingDoorbell
  <2>2. sent' \in [Kernel -> SentType]
    BY <1>6 DEF TypeOK, RingDoorbell, OutType, SentType
  <2>3. pending' \in [Ids -> SUBSET Ids]
    BY <1>6 DEF TypeOK, RingDoorbell, Raise
  <2>4. TypeOK'
    BY <1>6, <2>1, <2>2, <2>3 DEF TypeOK, RingDoorbell
  <2>5. PcInv'
    BY <1>6 DEF TypeOK, PcInv, RingDoorbell, Raise, Idle, Peers
  <2> QED BY <2>4, <2>5
<1>7. ASSUME NEW n \in Kernel, NEW c \in Contexts, WriteTimeout(n, c) PROVE TypeInv'
  <2>1. out[n][c].tries > 0 => out[n][c].tries - 1 \in 0 .. Restarts
    BY <1>7, RestartAssumption DEF TypeOK, OutType
  <2>2. ASSUME NEW t \in 0 .. Restarts, t = out[n][c].tries - 1
       PROVE  [out EXCEPT ![n][c].tries = @ - 1]
                \in [Kernel -> [Contexts -> OutType]]
    BY <1>7, OutRestarts, <2>2 DEF TypeOK, OutType
  <2>3. out' \in [Kernel -> [Contexts -> OutType]]
    BY <1>7, <2>1, <2>2, OutStores DEF TypeOK, WriteTimeout
  <2>4. TypeOK'
    BY <1>7, <2>1, <2>2, <2>3 DEF TypeOK, WriteTimeout
  <2>5. PcInv'
    BY <1>7 DEF TypeOK, PcInv, WriteTimeout, OutType, Idle
  <2> QED BY <2>4, <2>5
<1>8. ASSUME NEW n \in Kernel, NEW c \in Contexts, ReplyTimeout(n, c) PROVE TypeInv'
  <2>1. out' \in [Kernel -> [Contexts -> OutType]]
    BY <1>8, OutStores DEF TypeOK, ReplyTimeout
  <2>2. TypeOK'
    BY <1>8, <2>1 DEF TypeOK, ReplyTimeout
  <2>3. PcInv'
    BY <1>8 DEF TypeOK, PcInv, ReplyTimeout, Idle
  <2> QED BY <2>2, <2>3
<1>9. ASSUME NEW n \in Kernel, NEW c \in Contexts, ProbeTimeout(n, c) PROVE TypeInv'
  <2>1. out' \in [Kernel -> [Contexts -> OutType]]
    BY <1>9, OutStores DEF TypeOK, ProbeTimeout
  <2>2. TypeOK'
    BY <1>9, <2>1 DEF TypeOK, ProbeTimeout
  <2>3. PcInv'
    BY <1>9 DEF TypeOK, PcInv, ProbeTimeout, Idle
  <2> QED BY <2>2, <2>3
<1>10. ASSUME NEW n \in Kernel, NEW s \in Ids, QemuDrops(n, s) PROVE TypeInv'
  <2>1. TypeOK'
    BY <1>10 DEF TypeOK, QemuDrops
  <2>2. PcInv'
    BY <1>10 DEF TypeOK, PcInv, QemuDrops
  <2> QED BY <2>1, <2>2
<1>11. ASSUME NEW n \in Kernel, NEW s \in Ids, MsixLinkRequest(n, s) PROVE TypeInv'
  <2>1. /\ slot[s].peer_id \in 0 .. Server
        /\ slot[s].peer_id * 100 \in Nat /\ None \in Maybe(Msgs)
    BY <1>11, ServerAssumption DEF TypeOK, SlotType, Maybe
  <2>2. PICK d \in Nat : d = slot[s].peer_id * 100
    BY <1>11, <2>1 DEF TypeOK
  <2>3. slot' = [slot EXCEPT ![s].peer_CID = d, ![s].buflen = None]
    BY <1>11, <2>2 DEF TypeOK, MsixLinkRequest
  <2>4. slot' \in [Ids -> SlotType]
    BY <1>11, SlotStamps, <2>3 DEF TypeOK
  <2>5. LinkReply[slot[s].buf] \in Msgs
    BY <1>11 DEF TypeOK, MsixLinkRequest, IsLinkRequest, LinkReply, Msgs
  <2>6. Request(slot[s].peer_id, LinkReply[slot[s].buf], 0) \in OutType
    BY <1>11, <2>1, <2>5, RestartAssumption DEF TypeOK, Request,
       OutType, Maybe
  <2>7. out' \in [Kernel -> [Contexts -> OutType]]
    BY <1>11, OutStores, <2>6 DEF TypeOK, MsixLinkRequest
  <2>8. sent' \in [Kernel -> SentType]
    BY <1>11, SentStores DEF TypeOK, MsixLinkRequest, Seen
  <2>9. pending' \in [Ids -> SUBSET Ids]
    BY <1>11 DEF TypeOK, MsixLinkRequest, Interrupt, Raised
  <2>10. core' \in [Kernel -> BOOLEAN]
    BY <1>11 DEF TypeOK, MsixLinkRequest
  <2>11. TypeOK'
    BY <1>11, <2>1, <2>2, <2>3, <2>4, <2>5, <2>6, <2>7, <2>8, <2>9,
       <2>10 DEF TypeOK, MsixLinkRequest
  <2>12. PcInv'
    BY <1>11, <2>5 DEF TypeOK, PcInv, MsixLinkRequest, Interrupt, Raised,
       Request
  <2> QED BY <2>11, <2>12
<1>12. ASSUME NEW n \in Kernel, NEW s \in Ids, MsixDeliver(n, s) PROVE TypeInv'
  <2>1. slot[s].peer_id * 100 \in Nat
    BY <1>12, ServerAssumption DEF TypeOK, SlotType
  <2>2. PICK d \in Nat : d = slot[s].peer_id * 100
    BY <1>12, <2>1 DEF TypeOK
  <2>3. slot' = [slot EXCEPT ![s].peer_CID = d]
    BY <1>12, <2>2 DEF TypeOK, MsixDeliver
  <2>4. slot' \in [Ids -> SlotType]
    BY <1>12, SlotStamps, <2>3 DEF TypeOK
  <2>5. out' \in [Kernel -> [Contexts -> OutType]]
    BY <1>12, OutStores DEF TypeOK, MsixDeliver
  <2>6. pending' \in [Ids -> SUBSET Ids]
    BY <1>12 DEF TypeOK, MsixDeliver, Interrupt, Raised
  <2>7. TypeOK'
    BY <1>12, <2>1, <2>2, <2>3, <2>4, <2>5, <2>6 DEF TypeOK, MsixDeliver
  <2>8. PcInv'
    BY <1>12 DEF TypeOK, PcInv, MsixDeliver, Interrupt, Raised, OutType
  <2> QED BY <2>7, <2>8
<1>24. ASSUME NEW n \in Kernel, NEW s \in Ids, MsixWake(n, s) PROVE TypeInv'
  <2>1. rd' \in [Kernel -> RdType]
    BY <1>24, ReaderStores DEF TypeOK, MsixWake
  <2>2. out' \in [Kernel -> [Contexts -> OutType]]
    BY <1>24, OutStores DEF TypeOK, MsixWake
  <2>3. TypeOK'
    BY <1>24, <2>1, <2>2 DEF TypeOK, MsixWake
  <2>4. PcInv'
    BY <1>24 DEF TypeOK, PcInv, MsixWake, RdType, Idle
  <2> QED BY <2>3, <2>4
<1>25. ASSUME NEW n \in Kernel, NEW s \in Ids, MsixSpins(n, s) PROVE TypeInv'
  <2>1. rd' \in [Kernel -> RdType]
    BY <1>25, ReaderStores DEF TypeOK, MsixSpins
  <2>2. TypeOK'
    BY <1>25, <2>1 DEF TypeOK, MsixSpins
  <2>3. PcInv'
    BY <1>25 DEF TypeOK, PcInv, MsixSpins, RdType
  <2> QED BY <2>2, <2>3
<1>13. ASSUME NEW n \in Kernel, AwaitFound(n) PROVE TypeInv'
  <2>1. rd' \in [Kernel -> RdType]
    BY <1>13 DEF TypeOK, AwaitFound, RdType, RdIdle
  <2>2. TypeOK'
    BY <1>13, <2>1 DEF TypeOK, AwaitFound
  <2>3. PcInv'
    BY <1>13 DEF TypeOK, PcInv, AwaitFound, RdIdle
  <2> QED BY <2>2, <2>3
<1>14. ASSUME NEW n \in Kernel, AwaitEmpty(n) PROVE TypeInv'
  <2>1. rd' \in [Kernel -> RdType]
    BY <1>14, ReaderStores DEF TypeOK, AwaitEmpty
  <2>2. TypeOK'
    BY <1>14, <2>1 DEF TypeOK, AwaitEmpty
  <2>3. PcInv'
    BY <1>14 DEF TypeOK, PcInv, AwaitEmpty, RdType
  <2> QED BY <2>2, <2>3
<1>26. ASSUME NEW n \in Kernel, AwaitQueue(n) PROVE TypeInv'
  <2>1. rd' \in [Kernel -> RdType]
    BY <1>26, ReaderStores DEF TypeOK, AwaitQueue
  <2>2. TypeOK'
    BY <1>26, <2>1 DEF TypeOK, AwaitQueue
  <2>3. PcInv'
    BY <1>26 DEF TypeOK, PcInv, AwaitQueue, RdType
  <2> QED BY <2>2, <2>3
<1>27. ASSUME NEW n \in Kernel, AwaitSignal(n) PROVE TypeInv'
  <2>1. rd' \in [Kernel -> RdType]
    BY <1>27, ReaderStores DEF TypeOK, AwaitSignal
  <2>2. TypeOK'
    BY <1>27, <2>1 DEF TypeOK, AwaitSignal
  <2>3. PcInv'
    BY <1>27 DEF TypeOK, PcInv, AwaitSignal, RdType
  <2> QED BY <2>2, <2>3
<1>15. ASSUME NEW n \in Kernel, AwaitInterrupted(n) PROVE TypeInv'
  <2>1. TypeOK'
    BY <1>15 DEF TypeOK, AwaitInterrupted
  <2>2. PcInv'
    BY <1>15 DEF TypeOK, PcInv, AwaitInterrupted, RdIdle
  <2> QED BY <2>1, <2>2
<1>16. ASSUME NEW n \in Kernel, NEW ok \in BOOLEAN, ReadCopy(n, ok) PROVE TypeInv'
  <2>1. slot[rd[n].from] \in SlotType
    BY <1>16 DEF TypeOK, ReadCopy, PcInv
  <2>2. [rd[n] EXCEPT !.pc = "release", !.ok = ok,
          !.len = slot[rd[n].from].buflen, !.buf = slot[rd[n].from].buf,
          !.cid = slot[rd[n].from].peer_CID] \in RdType
    BY <1>16, <2>1 DEF TypeOK, RdType, SlotType
  <2>3. rd' \in [Kernel -> RdType]
    BY <1>16, <2>2 DEF TypeOK, ReadCopy
  <2>4. sent' \in [Kernel -> SentType]
    BY <1>16, SentStores DEF TypeOK, ReadCopy, Seen
  <2>5. TypeOK'
    BY <1>16, <2>1, <2>2, <2>3, <2>4 DEF TypeOK, ReadCopy
  <2>6. PcInv'
    BY <1>16, ZenonT(60) DEF TypeOK, PcInv, ReadCopy, RdType
  <2> QED BY <2>5, <2>6
<1>17. ASSUME NEW n \in Kernel, ReleaseIncoming(n) PROVE TypeInv'
  <2>1. incoming[n] \in Ids /\ None \in Maybe(Msgs)
    BY <1>17 DEF TypeOK, ReleaseIncoming, PcInv, Maybe
  <2>2. slot' \in [Ids -> SlotType]
    BY <1>17, SlotStores, <2>1 DEF TypeOK, ReleaseIncoming
  <2>3. TypeOK'
    BY <1>17, <2>1, <2>2 DEF TypeOK, ReleaseIncoming
  <2>4. PcInv'
    BY <1>17 DEF TypeOK, PcInv, ReleaseIncoming, RdIdle
  <2> QED BY <2>3, <2>4
<1>18. ASSUME NEW s \in Ids, SrvRetrieve(s) PROVE TypeInv'
  <2>1. srv' \in SrvType
    BY <1>18 DEF TypeOK, SrvRetrieve, SrvIdle, SrvType, SlotType
  <2>2. sent' \in [Kernel -> SentType]
    BY <1>18, SentStores DEF TypeOK, SrvRetrieve, Seen
  <2>3. TypeOK'
    BY <1>18, <2>1, <2>2 DEF TypeOK, SrvRetrieve
  <2>4. PcInv'
    BY <1>18 DEF TypeOK, PcInv, SrvRetrieve, SrvIdle
  <2> QED BY <2>3, <2>4
<1>19. ASSUME NEW s \in Ids, SrvAnnounce(s) PROVE TypeInv'
  <2>1. srv' \in SrvType
    BY <1>19 DEF TypeOK, SrvAnnounce, SrvIdle, SrvType, Maybe, Msgs
  <2>2. TypeOK'
    BY <1>19, <2>1 DEF TypeOK, SrvAnnounce
  <2>3. PcInv'
    BY <1>19 DEF TypeOK, PcInv, SrvAnnounce, SrvIdle, Msgs
  <2> QED BY <2>2, <2>3
<1>20. ASSUME NEW a \in Msgs \cup {None}, SrvHandle(a) PROVE TypeInv'
  <2>1. srv.from \in Ids /\ None \in Maybe(Msgs)
    BY <1>20 DEF TypeOK, SrvHandle, PcInv, Maybe
  <2>2. slot' \in [Ids -> SlotType]
    BY <1>20, SlotStores, <2>1 DEF TypeOK, SrvHandle
  <2>3. srv' \in SrvType
    BY <1>20 DEF TypeOK, SrvHandle, SrvIdle, SrvType, Maybe
  <2>4. TypeOK'
    BY <1>20, <2>1, <2>2, <2>3 DEF TypeOK, SrvHandle
  <2>5. PcInv'
    BY <1>20 DEF TypeOK, PcInv, SrvHandle, SrvIdle
  <2> QED BY <2>4, <2>5
<1>21. ASSUME SrvFill PROVE TypeInv'
  <2>1. srv.msg \in Maybe(Msgs) /\ srv' \in SrvType
    BY <1>21 DEF TypeOK, SrvFill, SrvType
  <2>2. slot' \in [Ids -> SlotType]
    BY <1>21, SlotStores, <2>1 DEF TypeOK, SrvFill
  <2>3. TypeOK'
    BY <1>21, <2>1, <2>2 DEF TypeOK, SrvFill
  <2>4. PcInv'
    BY <1>21 DEF TypeOK, PcInv, SrvFill, SrvType
  <2> QED BY <2>3, <2>4
<1>22. ASSUME SrvKick PROVE TypeInv'
  <2>1. srv.msg \in Maybe(Msgs)
    BY <1>22 DEF TypeOK, SrvType
  <2>2. slot' \in [Ids -> SlotType]
    BY <1>22, SlotStores, <2>1 DEF TypeOK, SrvKick
  <2>3. pending' \in [Ids -> SUBSET Ids]
    BY <1>22 DEF TypeOK, SrvKick, Raise
  <2>4. TypeOK'
    BY <1>22, <2>1, <2>2, <2>3 DEF TypeOK, SrvKick
  <2>5. PcInv'
    BY <1>22 DEF TypeOK, PcInv, SrvKick, Raise, SrvIdle, Peers
  <2> QED BY <2>4, <2>5
<1>23. CASE UNCHANGED vars
  BY <1>23 DEF vars, TypeOK, PcInv
<1> QED
  BY <1>1, <1>2, <1>3, <1>4, <1>5, <1>6, <1>7, <1>8, <1>9, <1>10, <1>11,
     <1>12, <1>13, <1>14, <1>15, <1>16, <1>17, <1>18, <1>19, <1>20, <1>21,
     <1>22, <1>23, <1>24, <1>25, <1>26, <1>27
     DEF Next, Handler, CreateOutgoing, AllMsix, BridgeRead, ServerStep

\* Every reachable state of every instance has the declared types.
THEOREM TypeCorrect == Spec => []TypeOK
<1>1. Spec => []TypeInv
  BY TypeInit, TypeStep, PTL DEF Spec
<1>2. TypeInv => TypeOK
  BY DEF TypeInv
<1> QED BY <1>1, <1>2, PTL

-------------------------------------------------------------------------------
(* The reader *)

\* A handler of x has set incoming_slot and is about to call wake_up.
Waking(x) == \E s \in Ids : out[x][s].pc = "wake"

\* incoming_slot is set from the moment a read has found it until its release,
\* and it is set while the reader sleeps only if a wake_up is to come.
ReaderInv ==
    /\ rd \in [Kernel -> RdType] /\ incoming \in [Kernel -> 0 .. Server]
    /\ out \in [Kernel -> [Contexts -> OutType]]
    /\ \A x \in Kernel :
         /\ rd[x].pc \in {"copy", "release"} => incoming[x] # Null
         /\ rd[x].pc = "sleep" /\ incoming[x] # Null => Waking(x)

LEMMA ReaderInit == Init /\ TypeOK => ReaderInv
<1> SUFFICES ASSUME Init, TypeOK PROVE ReaderInv
  OBVIOUS
<1>1. \A x \in Kernel : rd[x].pc = "idle"
  BY DEF Init, RdIdle
<1>2. /\ rd \in [Kernel -> RdType] /\ incoming \in [Kernel -> 0 .. Server]
      /\ out \in [Kernel -> [Contexts -> OutType]]
  BY DEF TypeOK
<1> QED
  BY <1>1, <1>2 DEF ReaderInv

\* The reader queues before the test that sends it to sleep, so a wake_up after
\* the store finds it; and no step takes a handler from its wake_up but the
\* wake_up (<1>w).
LEMMA ReaderStep == ReaderInv /\ TypeOK' /\ [Next]_vars => ReaderInv'
<1> SUFFICES ASSUME ReaderInv, TypeOK', [Next]_vars PROVE ReaderInv'
  OBVIOUS
<1> USE ConstantFacts
<1>t. /\ rd' \in [Kernel -> RdType] /\ incoming' \in [Kernel -> 0 .. Server]
      /\ out' \in [Kernel -> [Contexts -> OutType]]
  BY DEF TypeOK
<1>w. ASSUME NEW n \in Kernel, NEW c \in Contexts, out[n][c].pc # "wake",
             \A x \in Kernel, d \in Contexts :
                <<x, d>> # <<n, c>> => out'[x][d] = out[x][d]
      PROVE  \A x \in Kernel : Waking(x) => Waking(x)'
  BY <1>w DEF Waking
<1>1. CASE /\ UNCHANGED <<rd, incoming>>
           /\ \A x \in Kernel : Waking(x) => Waking(x)'
  BY <1>t, <1>1 DEF ReaderInv
<1>2. ASSUME NEW n \in Kernel, NEW s \in Ids, MsixDeliver(n, s) PROVE ReaderInv'
  <2>1. /\ incoming' = [incoming EXCEPT ![n] = s] /\ s # Null
        /\ rd' = rd /\ out[n][s].pc = "idle"
        /\ out' = [out EXCEPT ![n][s].pc = "wake"]
    BY <1>2 DEF MsixDeliver, Interrupt, Raised
  <2>2. out'[n][s].pc = "wake" /\ \A x \in Kernel \ {n} : out'[x] = out[x]
    BY <2>1 DEF ReaderInv, OutType
  <2>3. Waking(n)' /\ \A x \in Kernel \ {n} : Waking(x)' = Waking(x)
    BY <2>2 DEF Waking
  <2> QED
    BY <1>t, <2>1, <2>3 DEF ReaderInv
<1>3. ASSUME NEW n \in Kernel, AwaitFound(n) PROVE ReaderInv'
  BY <1>t, <1>3 DEF AwaitFound, ReaderInv, RdIdle, Waking
<1>4. ASSUME NEW n \in Kernel, AwaitEmpty(n) PROVE ReaderInv'
  BY <1>t, <1>4 DEF AwaitEmpty, ReaderInv, RdType, Waking
<1>5. ASSUME NEW n \in Kernel, AwaitInterrupted(n) PROVE ReaderInv'
  BY <1>t, <1>5 DEF AwaitInterrupted, ReaderInv, RdIdle, Waking
<1>6. ASSUME NEW n \in Kernel, NEW ok \in BOOLEAN, ReadCopy(n, ok) PROVE ReaderInv'
  <2>1. /\ rd[n].pc = "copy" /\ rd'[n].pc = "release" /\ incoming' = incoming
        /\ \A x \in Kernel \ {n} : rd'[x] = rd[x]
        /\ out' = out
    BY <1>6 DEF ReadCopy, ReaderInv, RdType
  <2> QED
    BY <1>t, <2>1 DEF ReaderInv, Waking
<1>7. ASSUME NEW n \in Kernel, ReleaseIncoming(n) PROVE ReaderInv'
  BY <1>t, <1>7 DEF ReleaseIncoming, ReaderInv, RdIdle, Waking
<1>12. ASSUME NEW n \in Kernel, NEW s \in Ids, MsixWake(n, s) PROVE ReaderInv'
  <2>1. /\ incoming' = incoming /\ \A x \in Kernel \ {n} : out'[x] = out[x]
        /\ \A x \in Kernel \ {n} : rd'[x] = rd[x]
        /\ rd'[n].pc \in {rd[n].pc, "prepare"} /\ rd'[n].pc # "sleep"
    BY <1>12 DEF MsixWake, ReaderInv, RdType
  <2> QED
    BY <1>t, <2>1 DEF ReaderInv, Waking
<1>13. ASSUME NEW n \in Kernel,
              (\E s \in Ids : MsixSpins(n, s)) \/ AwaitQueue(n) \/ AwaitSignal(n)
       PROVE  ReaderInv'
  <2>1. /\ incoming' = incoming /\ out' = out
        /\ \A x \in Kernel \ {n} : rd'[x] = rd[x]
        /\ rd'[n].pc \in {"hung", "queued", "prepare"}
    BY <1>13 DEF MsixSpins, AwaitQueue, AwaitSignal, ReaderInv, RdType
  <2> QED
    BY <1>t, <2>1 DEF ReaderInv, Waking
<1>8. ASSUME NEW n \in Kernel, NEW c \in Contexts, CreateOutgoing(n, c)
      PROVE  /\ UNCHANGED <<rd, incoming>>
             /\ \A x \in Kernel : Waking(x) => Waking(x)'
  <2>1. /\ UNCHANGED <<rd, incoming>> /\ out[n][c].pc # "wake"
        /\ \A x \in Kernel, d \in Contexts :
             <<x, d>> # <<n, c>> => out'[x][d] = out[x][d]
    BY <1>8 DEF CreateOutgoing, SlotReady, ClaimSlot, FillSlot, RingDoorbell,
                WriteTimeout, ReplyTimeout, ProbeTimeout, ReaderInv
  <2> QED BY <1>w, <2>1
<1>9. ASSUME ServerStep PROVE UNCHANGED <<rd, incoming, out>>
  BY <1>9 DEF ServerStep, SrvRetrieve, SrvAnnounce, SrvHandle, SrvFill, SrvKick
<1>10. ASSUME NEW n \in Kernel,
              \/ InitOne(n)
              \/ \E a \in Addresses, m \in UserMsgs : BridgeWrite(n, a[1], a[2], m)
       PROVE  /\ UNCHANGED <<rd, incoming>>
              /\ \A x \in Kernel : Waking(x) => Waking(x)'
  BY <1>10, SMTT(60) DEF InitOne, BridgeWrite, Waking, ReaderInv
<1>14. ASSUME NEW n \in Kernel, NEW s \in Ids, MsixLinkRequest(n, s)
       PROVE  /\ UNCHANGED <<rd, incoming>>
              /\ \A x \in Kernel : Waking(x) => Waking(x)'
  <2>1. /\ UNCHANGED <<rd, incoming>> /\ out[n][s].pc # "wake"
        /\ \A x \in Kernel, d \in Contexts :
             <<x, d>> # <<n, s>> => out'[x][d] = out[x][d]
    BY <1>14 DEF MsixLinkRequest, Interrupt, Raised, ReaderInv
  <2> QED BY <1>w, <2>1
<1>15. ASSUME NEW n \in Kernel, NEW s \in Ids, QemuDrops(n, s)
       PROVE  UNCHANGED <<rd, incoming, out>>
  BY <1>15 DEF QemuDrops
<1>11. ASSUME UNCHANGED vars PROVE UNCHANGED <<rd, incoming, out>>
  BY <1>11 DEF vars
<1>16. UNCHANGED out => \A x \in Kernel : Waking(x) => Waking(x)'
  BY DEF Waking
<1> HIDE ConstantFacts
<1> QED
  BY <1>1, <1>2, <1>3, <1>4, <1>5, <1>6, <1>7, <1>8, <1>9, <1>10, <1>11,
     <1>12, <1>13, <1>14, <1>15, <1>16, ConstantFacts
     DEF Next, Handler, BridgeRead, AllMsix

LEMMA ReaderAlways == Spec => []ReaderInv
<1> QED BY ReaderInit, ReaderStep, TypeCorrect, PTL DEF Spec

\* Whatever the server does and the interrupt handler did since the read found
\* its message, famez_release_incoming finds incoming_slot set.
THEOREM ReleaseHasSlotTheorem == Spec => []ReleaseHasSlot
<1>1. ReaderInv => ReleaseHasSlot
  BY DEF ReaderInv, ReleaseHasSlot
<1> QED BY <1>1, ReaderAlways, PTL

\* No wake_up is lost between the tests of incoming_slot in
\* famez_await_incoming and the sleep, although the test before the queueing is
\* stale by then and all_msix wakes some time after its store.
THEOREM NoLostWakeupTheorem == Spec => []NoLostWakeup
<1>1. ReaderInv => NoLostWakeup
  BY DEF ReaderInv, Waking, NoLostWakeup
<1> QED BY <1>1, ReaderAlways, PTL

-------------------------------------------------------------------------------
(* The mail invariant *)

LEMMA InvInit == ~ Smart /\ Init => Inv
<1> SUFFICES ASSUME ~ Smart, Init PROVE Inv
  OBVIOUS
<1> USE ConstantFacts
<1>1. TypeOK /\ PcInv
  BY TypeInit DEF TypeInv
<1>2. SilentInv /\ FillInv
  BY DEF Init, SilentInv, FillInv, Idle, FreshSlot, SrvIdle, NotSent
<1>3. \A s \in Kernel, x \in Ids : ~ Holds(s, x)
  BY DEF Init, Holds, Awaits, Reads, Clears, RdIdle, SrvIdle
<1>4. MailInv /\ OnceInv /\ SeenInv /\ CopyInv
  BY <1>3 DEF Init, MailInv, OnceInv, SeenInv, CopyInv, Holds, Awaits, RdIdle
<1> QED BY <1>1, <1>2, <1>4 DEF Inv

\* The heart of the argument.  A step of famez_create_outgoing past the test
\* of buflen meets nobody who looks into the slot (<1>b), so only taking a
\* message clears a length, and OnceInv makes the taker the only one left.
LEMMA InvStep == ~ Smart /\ Inv /\ [Next]_vars => Inv'
<1> SUFFICES ASSUME ~ Smart, Inv, [Next]_vars PROVE Inv'
  OBVIOUS
<1>t. TypeOK' /\ PcInv'
  BY TypeStep DEF Inv, TypeInv
<1> USE ConstantFacts DEF Inv, TypeOK, PcInv
<1>a. ASSUME NEW n \in Kernel, NEW c \in Contexts,
             out[n][c].pc \notin {"idle", "wake"}
      PROVE  c = Process
  BY <1>a DEF SilentInv, Contexts
<1>b. ASSUME NEW n \in Kernel, out[n][Process].pc \notin {"idle", "wait"}
      PROVE  \A x \in Ids : ~ Holds(n, x)
  BY <1>b DEF MailInv
<1>1. ASSUME NEW n \in Kernel, InitOne(n) PROVE Inv'
  <2>1. SilentInv'
    BY <1>1 DEF SilentInv, InitOne
  <2>2. FillInv'
    BY <1>1 DEF FillInv, InitOne, Request
  <2>3. MailInv'
    BY <1>1 DEF MailInv, Holds, Awaits, Reads, Clears, HoldsMailFor,
       SilentInv, InitOne
  <2>4. OnceInv'
    BY <1>1 DEF OnceInv, Awaits, Reads, Clears, InitOne
  <2>5. SeenInv'
    BY <1>1 DEF SeenInv, InitOne
  <2>6. CopyInv'
    BY <1>1 DEF CopyInv, InitOne
  <2> QED BY <1>t, <2>1, <2>2, <2>3, <2>4, <2>5, <2>6
<1>2. ASSUME NEW n \in Kernel, NEW a \in Addresses,
            NEW m \in UserMsgs, BridgeWrite(n, a[1], a[2], m) PROVE Inv'
  <2>1. SilentInv'
    BY <1>2 DEF SilentInv, BridgeWrite
  <2>2. FillInv'
    BY <1>2 DEF FillInv, BridgeWrite, Request
  <2>3. MailInv'
    BY <1>2 DEF MailInv, Holds, Awaits, Reads, Clears, HoldsMailFor,
       BridgeWrite, Request
  <2>4. OnceInv'
    BY <1>2 DEF OnceInv, Awaits, Reads, Clears, BridgeWrite
  <2>5. SeenInv'
    BY <1>2 DEF SeenInv, BridgeWrite
  <2>6. CopyInv'
    BY <1>2 DEF CopyInv, BridgeWrite
  <2> QED BY <1>t, <2>1, <2>2, <2>3, <2>4, <2>5, <2>6
<1>3. ASSUME NEW n \in Kernel, NEW c \in Contexts, SlotReady(n, c) PROVE Inv'
  <2>1. SilentInv'
    BY <1>3 DEF SilentInv, SlotReady
  <2>2. FillInv'
    BY <1>3 DEF FillInv, SlotReady
  <2>3. MailInv'
    BY <1>3 DEF MailInv, Holds, Awaits, Reads, Clears, HoldsMailFor,
       SlotReady
  <2>4. OnceInv'
    BY <1>3 DEF OnceInv, Awaits, Reads, Clears, SlotReady
  <2>5. SeenInv'
    BY <1>3 DEF SeenInv, SlotReady
  <2>6. CopyInv'
    BY <1>3 DEF CopyInv, SlotReady
  <2> QED BY <1>t, <2>1, <2>2, <2>3, <2>4, <2>5, <2>6
<1>4. ASSUME NEW n \in Kernel, NEW c \in Contexts, ClaimSlot(n, c) PROVE Inv'
  <2>1. c = Process /\ out[n][Process].pc = "claim"
    BY <1>4, <1>a DEF ClaimSlot
  <2>2. /\ slot'[n].buflen = out[n][Process].msg
        /\ \A i \in Kernel \ {n} : slot'[i] = slot[i]
    BY <1>4, <2>1 DEF ClaimSlot, SlotType
  <2>3. /\ out'[n][Process].pc = "copy"
        /\ \A i \in Kernel : out'[i][Process].msg = out[i][Process].msg
        /\ \A i \in Kernel \ {n} : out'[i] = out[i]
    BY <1>4, <2>1 DEF ClaimSlot, OutType
  <2>4. FillInv'
    BY <2>2, <2>3 DEF FillInv
  <2>5. \A i \in Kernel, x \in Ids : Holds(i, x)' => Holds(i, x) /\ i # n
    BY <1>4, <1>b, <2>1 DEF ClaimSlot, Holds, Awaits, Reads, Clears
  <2>6. MailInv'
    BY <1>4, <2>2, <2>3, <2>5 DEF MailInv, HoldsMailFor, ClaimSlot
  <2>7. SilentInv'
    BY <1>4 DEF SilentInv, ClaimSlot
  <2>8. OnceInv'
    BY <1>4 DEF OnceInv, Awaits, Reads, Clears, ClaimSlot
  <2>9. SeenInv'
    BY <1>4 DEF SeenInv, ClaimSlot
  <2>10. CopyInv'
    BY <1>4 DEF CopyInv, ClaimSlot
  <2> QED BY <1>t, <2>4, <2>6, <2>7, <2>8, <2>9, <2>10
<1>5. ASSUME NEW n \in Kernel, NEW c \in Contexts, FillSlot(n, c) PROVE Inv'
  <2>1. c = Process /\ out[n][Process].pc = "copy"
    BY <1>5, <1>a DEF FillSlot
  <2>2. /\ slot'[n].buflen = slot[n].buflen
        /\ slot'[n].buf = out[n][Process].msg
        /\ \A i \in Kernel \ {n} : slot'[i] = slot[i]
    BY <1>5, <2>1 DEF FillSlot, SlotType
  <2>3. /\ out'[n][Process].pc = "ring"
        /\ \A i \in Kernel : out'[i][Process].msg = out[i][Process].msg
        /\ \A i \in Kernel \ {n} : out'[i] = out[i]
    BY <1>5, <2>1 DEF FillSlot, OutType
  <2>4. FillInv'
    BY <2>1, <2>2, <2>3 DEF FillInv
  <2>5. \A i \in Kernel, x \in Ids : Holds(i, x)' => Holds(i, x) /\ i # n
    BY <1>5, <1>b, <2>1 DEF FillSlot, Holds, Awaits, Reads, Clears
  <2>6. MailInv'
    BY <1>5, <2>2, <2>3, <2>5 DEF MailInv, HoldsMailFor, FillSlot
  <2>7. SilentInv'
    BY <1>5 DEF SilentInv, FillSlot
  <2>8. OnceInv'
    BY <1>5 DEF OnceInv, Awaits, Reads, Clears, FillSlot
  <2>9. SeenInv'
    BY <1>5 DEF SeenInv, FillSlot
  <2>10. CopyInv'
    BY <1>5 DEF CopyInv, FillSlot
  <2> QED BY <1>t, <2>4, <2>6, <2>7, <2>8, <2>9, <2>10
<1>6. ASSUME NEW n \in Kernel, NEW c \in Contexts, RingDoorbell(n, c) PROVE Inv'
  <2>1. c = Process /\ out[n][Process].pc = "ring"
    BY <1>6, <1>a DEF RingDoorbell
  <2>2. /\ out'[n][Process].pc = "idle"
        /\ \A i \in Kernel, s \in Ids : out'[i][s] = out[i][s]
        /\ \A i \in Kernel \ {n} : out'[i] = out[i]
    BY <1>6, <2>1 DEF RingDoorbell, Idle
  <2>3. /\ up'[n] = "on"
        /\ \A i \in Kernel \ {n} : up'[i] = up[i]
        /\ up[n] # "off"
    BY <1>6, <2>1 DEF RingDoorbell, SilentInv
  <2>4. LET m == out[n][Process].msg IN
        /\ slot[n].buflen = m /\ slot[n].buf = m /\ m \in Msgs
        /\ sent'[n] = [to |-> out[n][Process].dest, msg |-> m, seen |-> FALSE]
        /\ \A i \in Kernel \ {n} : sent'[i] = sent[i]
    BY <1>6, <2>1 DEF RingDoorbell, FillInv, SentType
  <2>5. SilentInv'
    BY <1>6, <2>2, <2>3, <2>4 DEF SilentInv, RingDoorbell
  <2>6. \A i \in Kernel, x \in Ids :
           i \in pending'[x] <=> \/ i \in pending[x]
                                 \/ i = n /\ x = out[n][Process].dest /\ x \in Peers
    BY <1>6, <2>1 DEF RingDoorbell, Raise
  <2>7. \A i \in Kernel, x \in Ids : /\ Awaits(i, x)' <=> Awaits(i, x)
                                     /\ Clears(i, x)' <=> Clears(i, x)
    BY <1>6 DEF RingDoorbell, Awaits, Reads, Clears
  <2>8. MailInv'
    <3> SUFFICES ASSUME NEW i \in Kernel, NEW x \in Ids, Holds(i, x)'
                 PROVE  HoldsMailFor(i, x)' /\ out'[i][Process].pc \in {"idle", "wait"}
      BY DEF MailInv
    <3>1. CASE i = n
      <4>1. x = out[n][Process].dest
        BY <3>1, <1>b, <2>1, <2>6, <2>7 DEF Holds
      <4> QED BY <1>6, <3>1, <4>1, <2>2, <2>4 DEF HoldsMailFor, RingDoorbell
    <3>2. CASE i # n
      <4>1. Holds(i, x)
        BY <3>2, <2>6, <2>7 DEF Holds
      <4> QED BY <1>6, <3>2, <4>1, <2>2, <2>4 DEF MailInv, HoldsMailFor, RingDoorbell
    <3> QED BY <3>1, <3>2
  <2>9. OnceInv'
    BY <2>1, <2>6, <2>7, <1>b DEF OnceInv, Holds
  <2>10. CopyInv'
    <3>1. \A x \in Kernel : rd[x].pc = "release" => rd[x].from # n
      BY <2>1, <1>b DEF Holds, Awaits, Reads
    <3> QED BY <1>6, <2>4, <3>1 DEF CopyInv, RingDoorbell
  <2>11. FillInv'
    BY <1>6 DEF FillInv, RingDoorbell, Idle
  <2>12. SeenInv'
    BY <1>6 DEF SeenInv, RingDoorbell, Raise
  <2> QED BY <1>t, <2>5, <2>8, <2>9, <2>10, <2>11, <2>12
<1>7. ASSUME NEW n \in Kernel, NEW c \in Contexts, WriteTimeout(n, c) PROVE Inv'
  <2>1. SilentInv'
    BY <1>7 DEF SilentInv, WriteTimeout
  <2>2. FillInv'
    BY <1>7 DEF FillInv, WriteTimeout, Idle
  <2>3. MailInv'
    BY <1>7 DEF MailInv, Holds, Awaits, Reads, Clears, HoldsMailFor,
       WriteTimeout, Idle
  <2>4. OnceInv'
    BY <1>7 DEF OnceInv, Awaits, Reads, Clears, WriteTimeout
  <2>5. SeenInv'
    BY <1>7 DEF SeenInv, WriteTimeout
  <2>6. CopyInv'
    BY <1>7 DEF CopyInv, WriteTimeout
  <2> QED BY <1>t, <2>1, <2>2, <2>3, <2>4, <2>5, <2>6
<1>8. ASSUME NEW n \in Kernel, NEW c \in Contexts, ReplyTimeout(n, c) PROVE Inv'
  <2>1. SilentInv'
    BY <1>8 DEF SilentInv, ReplyTimeout
  <2>2. FillInv'
    BY <1>8 DEF FillInv, ReplyTimeout
  <2>3. MailInv'
    BY <1>8 DEF MailInv, Holds, Awaits, Reads, Clears, HoldsMailFor,
       ReplyTimeout
  <2>4. OnceInv'
    BY <1>8 DEF OnceInv, Awaits, Reads, Clears, ReplyTimeout
  <2>5. SeenInv'
    BY <1>8 DEF SeenInv, ReplyTimeout
  <2>6. CopyInv'
    BY <1>8 DEF CopyInv, ReplyTimeout
  <2> QED BY <1>t, <2>1, <2>2, <2>3, <2>4, <2>5, <2>6
<1>9. ASSUME NEW n \in Kernel, NEW c \in Contexts, ProbeTimeout(n, c) PROVE Inv'
  <2>1. SilentInv'
    BY <1>9 DEF SilentInv, ProbeTimeout
  <2>2. FillInv'
    BY <1>9 DEF FillInv, ProbeTimeout, Idle
  <2>3. MailInv'
    BY <1>9 DEF MailInv, Holds, Awaits, Reads, Clears, HoldsMailFor,
       ProbeTimeout, Idle
  <2>4. OnceInv'
    BY <1>9 DEF OnceInv, Awaits, Reads, Clears, ProbeTimeout
  <2>5. SeenInv'
    BY <1>9 DEF SeenInv, ProbeTimeout
  <2>6. CopyInv'
    BY <1>9 DEF CopyInv, ProbeTimeout
  <2> QED BY <1>t, <2>1, <2>2, <2>3, <2>4, <2>5, <2>6
<1>10. ASSUME NEW n \in Kernel, NEW s \in Ids, QemuDrops(n, s) PROVE Inv'
  <2>1. SilentInv'
    BY <1>10 DEF SilentInv, QemuDrops
  <2>2. FillInv'
    BY <1>10 DEF FillInv, QemuDrops
  <2>3. MailInv'
    BY <1>10 DEF MailInv, Holds, Awaits, Reads, Clears, HoldsMailFor,
       QemuDrops
  <2>4. OnceInv'
    BY <1>10 DEF OnceInv, Awaits, Reads, Clears, QemuDrops
  <2>5. SeenInv'
    BY <1>10 DEF SeenInv, QemuDrops
  <2>6. CopyInv'
    BY <1>10 DEF CopyInv, QemuDrops
  <2> QED BY <1>t, <2>1, <2>2, <2>3, <2>4, <2>5, <2>6
<1>11. ASSUME NEW n \in Kernel, NEW s \in Ids, MsixLinkRequest(n, s) PROVE Inv'
  <2>1. s \in Kernel /\ slot[s].peer_id = 0
    <3>1. s # Server
      BY <1>11 DEF MsixLinkRequest, IsLinkRequest, SilentInv, None
    <3>2. s \in Kernel /\ sent[s].msg # None
      BY <1>11, <3>1 DEF MsixLinkRequest, Interrupt, Raised, Peers, MailInv, Holds, HoldsMailFor
    <3> QED BY <3>2 DEF SilentInv
  <2>2. out' = out
    BY <1>11, <2>1 DEF MsixLinkRequest, Accepts, PeerOf, CID_IS_PEER_ID
  <2>3. /\ slot'[s].peer_id = slot[s].peer_id
        /\ \A i \in Ids \ {s} : slot'[i] = slot[i]
    BY <1>11 DEF MsixLinkRequest, SlotType
  <2>4. /\ sent'[s].msg = sent[s].msg
        /\ \A i \in Kernel \ {s} : sent'[i] = sent[i]
    BY <1>11, <2>1 DEF MsixLinkRequest, Seen, SentType
  <2>5. SilentInv'
    <3>1. /\ slot'[Server] = slot[Server]
          /\ \A i \in Kernel : /\ slot'[i].peer_id = slot[i].peer_id
                              /\ sent'[i].msg = sent[i].msg
      BY <2>1, <2>3, <2>4
    <3>2. UNCHANGED <<up, srv, announce>>
      BY <1>11 DEF MsixLinkRequest
    <3> HIDE DEF TypeOK, PcInv
    <3> QED BY <2>2, <3>1, <3>2 DEF SilentInv
  <2>6. \A x \in Ids : ~ Holds(s, x)'
    <3>1. s \in pending[n] /\ Holds(s, n)
      BY <1>11 DEF MsixLinkRequest, Interrupt, Raised, Holds
    <3>2. \A x \in Ids : Holds(s, x) => x = n
      BY <2>1, <3>1 DEF MailInv, HoldsMailFor
    <3>3. ~ Awaits(s, n) /\ ~ Clears(s, n)
      BY <2>1, <3>1 DEF OnceInv
    <3>4. /\ UNCHANGED <<incoming, rd, srv>> /\ s \notin pending'[n]
          /\ \A x \in Ids \ {n} : pending'[x] = pending[x]
      BY <1>11 DEF MsixLinkRequest, Interrupt, Raised
    <3> QED
      BY <3>2, <3>3, <3>4 DEF Holds, Awaits, Reads, Clears
  <2>7. SeenInv'
    BY <1>11, <2>4, <2>6 DEF SeenInv, MsixLinkRequest, Interrupt, Raised, Holds, Awaits, Reads
  <2>8. FillInv'
    BY <1>11 DEF FillInv, MailInv, Holds, MsixLinkRequest, Interrupt, Raised
  <2>9. MailInv'
    BY <1>11 DEF MailInv, Holds, Awaits, Reads, Clears, HoldsMailFor,
       OnceInv, MsixLinkRequest, Interrupt, Raised, Seen
  <2>10. OnceInv'
    BY <1>11 DEF OnceInv, Awaits, Reads, Clears, MsixLinkRequest,
       Interrupt, Raised
  <2>11. CopyInv'
    BY <1>11 DEF CopyInv, MsixLinkRequest, Seen
  <2> QED BY <1>t, <2>5, <2>7, <2>8, <2>9, <2>10, <2>11
<1>12. ASSUME NEW n \in Kernel, NEW s \in Ids, MsixDeliver(n, s) PROVE Inv'
  <2>1. SilentInv'
    BY <1>12 DEF SilentInv, MsixDeliver
  <2>2. FillInv'
    BY <1>12 DEF FillInv, MsixDeliver
  <2>3. MailInv'
    BY <1>12 DEF MailInv, Holds, Awaits, Reads, Clears, HoldsMailFor,
       MsixDeliver, Interrupt, Raised
  <2>4. OnceInv'
    BY <1>12 DEF OnceInv, Awaits, Reads, Clears, MsixDeliver, Interrupt, Raised
  <2>5. SeenInv'
    BY <1>12 DEF SeenInv, MsixDeliver, Interrupt, Raised
  <2>6. CopyInv'
    BY <1>12 DEF CopyInv, MsixDeliver
  <2> QED BY <1>t, <2>1, <2>2, <2>3, <2>4, <2>5, <2>6
<1>13. ASSUME NEW n \in Kernel, AwaitFound(n) PROVE Inv'
  <2>1. SilentInv'
    BY <1>13 DEF SilentInv, AwaitFound
  <2>2. FillInv'
    BY <1>13 DEF FillInv, AwaitFound
  <2>3. MailInv'
    BY <1>13 DEF MailInv, Holds, Awaits, Reads, Clears, HoldsMailFor,
       AwaitFound
  <2>4. OnceInv'
    BY <1>13 DEF OnceInv, Awaits, Reads, Clears, AwaitFound
  <2>5. SeenInv'
    BY <1>13 DEF SeenInv, AwaitFound
  <2>6. CopyInv'
    BY <1>13 DEF CopyInv, AwaitFound
  <2> QED BY <1>t, <2>1, <2>2, <2>3, <2>4, <2>5, <2>6
<1>14. ASSUME NEW n \in Kernel, AwaitEmpty(n) PROVE Inv'
  <2>1. SilentInv'
    BY <1>14 DEF SilentInv, AwaitEmpty
  <2>2. FillInv'
    BY <1>14 DEF FillInv, AwaitEmpty
  <2>3. MailInv'
    BY <1>14 DEF MailInv, Holds, Awaits, Reads, Clears, HoldsMailFor,
       AwaitEmpty
  <2>4. OnceInv'
    BY <1>14 DEF OnceInv, Awaits, Reads, Clears, AwaitEmpty
  <2>5. SeenInv'
    BY <1>14 DEF SeenInv, AwaitEmpty
  <2>6. CopyInv'
    BY <1>14 DEF CopyInv, AwaitEmpty
  <2> QED BY <1>t, <2>1, <2>2, <2>3, <2>4, <2>5, <2>6
<1>26. ASSUME NEW n \in Kernel, AwaitQueue(n) PROVE Inv'
  <2>1. SilentInv'
    BY <1>26 DEF SilentInv, AwaitQueue
  <2>2. FillInv'
    BY <1>26 DEF FillInv, AwaitQueue
  <2>3. MailInv'
    BY <1>26 DEF MailInv, Holds, Awaits, Reads, Clears, HoldsMailFor,
       AwaitQueue
  <2>4. OnceInv'
    BY <1>26 DEF OnceInv, Awaits, Reads, Clears, AwaitQueue
  <2>5. SeenInv'
    BY <1>26 DEF SeenInv, AwaitQueue
  <2>6. CopyInv'
    BY <1>26 DEF CopyInv, AwaitQueue
  <2> QED BY <1>t, <2>1, <2>2, <2>3, <2>4, <2>5, <2>6
<1>27. ASSUME NEW n \in Kernel, AwaitSignal(n) PROVE Inv'
  <2>1. SilentInv'
    BY <1>27 DEF SilentInv, AwaitSignal
  <2>2. FillInv'
    BY <1>27 DEF FillInv, AwaitSignal
  <2>3. MailInv'
    BY <1>27 DEF MailInv, Holds, Awaits, Reads, Clears, HoldsMailFor,
       AwaitSignal
  <2>4. OnceInv'
    BY <1>27 DEF OnceInv, Awaits, Reads, Clears, AwaitSignal
  <2>5. SeenInv'
    BY <1>27 DEF SeenInv, AwaitSignal
  <2>6. CopyInv'
    BY <1>27 DEF CopyInv, AwaitSignal
  <2> QED BY <1>t, <2>1, <2>2, <2>3, <2>4, <2>5, <2>6
<1>24. ASSUME NEW n \in Kernel, NEW s \in Ids, MsixWake(n, s) PROVE Inv'
  <2>1. SilentInv'
    BY <1>24 DEF SilentInv, MsixWake, Idle
  <2>2. FillInv'
    BY <1>24 DEF FillInv, MsixWake, Idle
  <2>3. MailInv'
    BY <1>24 DEF MailInv, Holds, Awaits, Reads, Clears, HoldsMailFor,
       MsixWake, Idle
  <2>4. OnceInv'
    BY <1>24 DEF OnceInv, Awaits, Reads, Clears, MsixWake
  <2>5. SeenInv'
    BY <1>24 DEF SeenInv, MsixWake
  <2>6. CopyInv'
    BY <1>24 DEF CopyInv, MsixWake
  <2> QED BY <1>t, <2>1, <2>2, <2>3, <2>4, <2>5, <2>6
<1>25. ASSUME NEW n \in Kernel, NEW s \in Ids, MsixSpins(n, s) PROVE Inv'
  <2>1. SilentInv'
    BY <1>25 DEF SilentInv, MsixSpins
  <2>2. FillInv'
    BY <1>25 DEF FillInv, MsixSpins
  <2>3. MailInv'
    BY <1>25 DEF MailInv, Holds, Awaits, Reads, Clears, HoldsMailFor,
       MsixSpins
  <2>4. OnceInv'
    BY <1>25 DEF OnceInv, Awaits, Reads, Clears, MsixSpins
  <2>5. SeenInv'
    BY <1>25 DEF SeenInv, MsixSpins
  <2>6. CopyInv'
    BY <1>25 DEF CopyInv, MsixSpins
  <2> QED BY <1>t, <2>1, <2>2, <2>3, <2>4, <2>5, <2>6
<1>15. ASSUME NEW n \in Kernel, AwaitInterrupted(n) PROVE Inv'
  <2>1. SilentInv'
    BY <1>15 DEF SilentInv, AwaitInterrupted
  <2>2. FillInv'
    BY <1>15 DEF FillInv, AwaitInterrupted
  <2>3. MailInv'
    BY <1>15 DEF MailInv, Holds, Awaits, Reads, Clears, HoldsMailFor,
       AwaitInterrupted, RdIdle
  <2>4. OnceInv'
    BY <1>15 DEF OnceInv, Awaits, Reads, Clears, AwaitInterrupted,
       RdIdle
  <2>5. SeenInv'
    BY <1>15 DEF SeenInv, AwaitInterrupted, RdIdle
  <2>6. CopyInv'
    BY <1>15 DEF CopyInv, AwaitInterrupted, RdIdle
  <2> QED BY <1>t, <2>1, <2>2, <2>3, <2>4, <2>5, <2>6
<1>16. ASSUME NEW n \in Kernel, NEW ok \in BOOLEAN, ReadCopy(n, ok) PROVE Inv'
  <2> DEFINE f == rd[n].from
  <2>1. /\ rd'[n].pc = "release" /\ rd'[n].from = f
        /\ rd'[n].len = slot[f].buflen /\ rd'[n].buf = slot[f].buf
        /\ \A x \in Kernel \ {n} : rd'[x] = rd[x]
    BY <1>16 DEF ReadCopy, RdType
  <2>2. /\ \A i \in Kernel : sent'[i].msg = sent[i].msg /\ sent'[i].to = sent[i].to
        /\ \A i \in Kernel \ {f} : sent'[i].seen = sent[i].seen
    <3>1. CASE f \in Kernel
      <4>1. sent' = [sent EXCEPT ![f].seen = TRUE]
        BY <1>16, <3>1 DEF ReadCopy, Seen
      <4>2. \A i \in Kernel :
               /\ [sent EXCEPT ![f].seen = TRUE][i].msg = sent[i].msg
               /\ [sent EXCEPT ![f].seen = TRUE][i].to = sent[i].to
               /\ i # f => [sent EXCEPT ![f].seen = TRUE][i] = sent[i]
        <5>1. sent \in [Kernel -> SentType]
          OBVIOUS
        <5> HIDE DEF f, Inv, TypeOK, PcInv
        <5> QED BY <3>1, <5>1, SentMarks
      <4> HIDE ConstantFacts DEF f, Inv, TypeOK, PcInv
      <4> QED BY <4>1, <4>2, Zenon
    <3>2. CASE f \notin Kernel
      BY <1>16, <3>2 DEF ReadCopy, Seen
    <3> QED BY <3>1, <3>2
  <2>3. f \in Kernel => HoldsMailFor(f, n)
    BY <1>16 DEF ReadCopy, MailInv, Holds, Awaits, Reads
  <2>4. CopyInv'
    BY <2>1, <2>2, <2>3, SMTT(60) DEF CopyInv, HoldsMailFor
  <2>5. \A x \in Ids : f \in Kernel /\ x # n => ~ Holds(f, x)
    BY <2>3 DEF MailInv, HoldsMailFor
  <2>6. SeenInv'
    <3> SUFFICES ASSUME NEW s \in Kernel, NEW x \in Ids
        PROVE /\ s \in pending'[x] => ~ sent'[s].seen
              /\ x \in Kernel /\ incoming'[x] = s =>
                   ~ sent'[s].seen
                     \/ (rd'[x].pc \in {"release", "hung"} /\ rd'[x].from = s)
              /\ x \in Kernel /\ rd'[x].pc = "copy" /\ rd'[x].from = s => ~ sent'[s].seen
      BY DEF SeenInv
    <3>1. CASE s # f
      <4>1. sent'[s].seen = sent[s].seen /\ pending' = pending /\ incoming' = incoming
        BY <1>16, <3>1, <2>2 DEF ReadCopy
      <4> QED
        BY <3>1, <4>1, <2>1 DEF SeenInv
    <3>2. CASE s = f /\ x # n
      BY <1>16, <3>2, <2>1, <2>5, ZenonT(60) DEF ReadCopy, Holds, Awaits, Reads
    <3>3. CASE s = f /\ x = n
      BY <1>16, <3>3, <2>1 DEF OnceInv, Awaits, Reads, ReadCopy
    <3> QED BY <3>1, <3>2, <3>3
  <2>7. SilentInv'
    BY <1>16 DEF SilentInv, ReadCopy, Seen
  <2>8. FillInv'
    BY <1>16 DEF FillInv, ReadCopy
  <2>a. UNCHANGED <<slot, pending, incoming, out, srv>>
    BY <1>16 DEF ReadCopy
  <2>b. \A s, x : x \in Kernel /\ Reads(s, x)' => Reads(s, x)
    BY <1>16, <2>1 DEF Reads, ReadCopy
  <2>9. MailInv'
    <3>1. \A s, x : Holds(s, x)' => Holds(s, x)
      BY <2>a, <2>b DEF Holds, Awaits, Clears
    <3>2. \A s \in Kernel, x \in Ids : HoldsMailFor(s, x) => HoldsMailFor(s, x)'
      BY <2>2, <2>a DEF HoldsMailFor
    <3> QED
      BY <2>a, <3>1, <3>2 DEF MailInv
  <2>10. OnceInv'
    BY <2>a, <2>b DEF OnceInv, Awaits, Clears
  <2> QED BY <1>t, <2>4, <2>6, <2>7, <2>8, <2>9, <2>10
<1>17. ASSUME NEW n \in Kernel, ReleaseIncoming(n) PROVE Inv'
  <2>1. SilentInv'
    BY <1>17 DEF SilentInv, ReleaseIncoming
  <2>2. FillInv'
    BY <1>17, ZenonT(60) DEF FillInv, OutType, SlotType, SilentInv, MailInv, Holds,
       HoldsMailFor, Awaits, Reads, Clears, ReleaseIncoming, RdIdle
  <2>3. MailInv'
    BY <1>17 DEF MailInv, Holds, Awaits, Reads, Clears, HoldsMailFor,
       OnceInv, ReleaseIncoming, RdIdle
  <2>4. OnceInv'
    BY <1>17 DEF OnceInv, Awaits, Reads, Clears, ReleaseIncoming, RdIdle
  <2>5. SeenInv'
    BY <1>17 DEF SeenInv, ReleaseIncoming, RdIdle
  <2>6. CopyInv'
    BY <1>17 DEF CopyInv, ReleaseIncoming, RdIdle
  <2> QED BY <1>t, <2>1, <2>2, <2>3, <2>4, <2>5, <2>6
<1>18. ASSUME NEW s \in Ids, SrvRetrieve(s) PROVE Inv'
  <2>1. SilentInv'
    BY <1>18 DEF SilentInv, SrvRetrieve, Seen
  <2>2. FillInv'
    BY <1>18 DEF FillInv, SrvRetrieve
  <2>3. MailInv'
    BY <1>18 DEF MailInv, Holds, Awaits, Reads, Clears, HoldsMailFor,
       SrvRetrieve, Seen
  <2>4. OnceInv'
    BY <1>18 DEF OnceInv, Awaits, Reads, Clears, SrvRetrieve
  <2>5. SeenInv'
    BY <1>18 DEF SeenInv, SentType, MailInv, Holds, HoldsMailFor,
       Awaits, Reads, SrvRetrieve, Seen
  <2>6. CopyInv'
    BY <1>18 DEF CopyInv, SrvRetrieve, Seen
  <2> QED BY <1>t, <2>1, <2>2, <2>3, <2>4, <2>5, <2>6
<1>19. ASSUME NEW s \in Ids, SrvAnnounce(s) PROVE Inv'
  <2>1. SilentInv'
    BY <1>19 DEF SilentInv, SrvAnnounce
  <2>2. FillInv'
    BY <1>19 DEF SilentInv, SrvAnnounce
  <2>3. MailInv'
    BY <1>19 DEF SilentInv, SrvAnnounce
  <2>4. OnceInv'
    BY <1>19 DEF SilentInv, SrvAnnounce
  <2>5. SeenInv'
    BY <1>19 DEF SilentInv, SrvAnnounce
  <2>6. CopyInv'
    BY <1>19 DEF SilentInv, SrvAnnounce
  <2> QED BY <1>t, <2>1, <2>2, <2>3, <2>4, <2>5, <2>6
<1>20. ASSUME NEW a \in Msgs \cup {None}, SrvHandle(a) PROVE Inv'
  <2>1. SilentInv'
    BY <1>20 DEF SilentInv, SrvHandle, SrvAnswers, SrvIdle
  <2>2. FillInv'
    BY <1>20 DEF FillInv, MailInv, Holds, Clears, SrvHandle
  <2>3. MailInv'
    BY <1>20 DEF MailInv, Holds, Awaits, Reads, Clears, HoldsMailFor,
       OnceInv, SrvHandle, SrvIdle
  <2>4. OnceInv'
    BY <1>20 DEF OnceInv, Awaits, Reads, Clears, SrvHandle, SrvIdle
  <2>5. SeenInv'
    BY <1>20 DEF SeenInv, SrvHandle
  <2>6. CopyInv'
    BY <1>20 DEF CopyInv, SrvHandle
  <2> QED BY <1>t, <2>1, <2>2, <2>3, <2>4, <2>5, <2>6
<1>21. ASSUME SrvFill PROVE Inv'
  <2>1. SilentInv'
    BY <1>21 DEF SilentInv, SrvFill
  <2>2. FillInv'
    BY <1>21 DEF FillInv, SrvFill
  <2>3. MailInv'
    BY <1>21 DEF MailInv, Holds, Awaits, Reads, Clears, HoldsMailFor,
       SrvFill
  <2>4. OnceInv'
    BY <1>21 DEF OnceInv, Awaits, Reads, Clears, SrvFill
  <2>5. SeenInv'
    BY <1>21 DEF SeenInv, SrvFill
  <2>6. CopyInv'
    BY <1>21 DEF CopyInv, SrvFill
  <2> QED BY <1>t, <2>1, <2>2, <2>3, <2>4, <2>5, <2>6
<1>22. ASSUME SrvKick PROVE Inv'
  <2>1. SilentInv'
    BY <1>22 DEF SilentInv, SrvKick, SrvIdle
  <2>2. FillInv'
    BY <1>22 DEF FillInv, SrvKick
  <2>3. MailInv'
    BY <1>22 DEF MailInv, Holds, Awaits, Reads, Clears, HoldsMailFor,
       SrvKick, Raise, SrvIdle
  <2>4. OnceInv'
    BY <1>22 DEF OnceInv, Awaits, Reads, Clears, SrvKick, Raise, SrvIdle
  <2>5. SeenInv'
    BY <1>22 DEF SeenInv, SrvKick, Raise
  <2>6. CopyInv'
    BY <1>22 DEF CopyInv, SrvKick
  <2> QED BY <1>t, <2>1, <2>2, <2>3, <2>4, <2>5, <2>6
<1>23. CASE UNCHANGED vars
  BY <1>23 DEF vars, SilentInv, FillInv, MailInv, OnceInv, SeenInv, CopyInv,
     Holds, Awaits, Reads, Clears, HoldsMailFor
<1> HIDE ConstantFacts DEF Inv, TypeOK, PcInv
<1> QED
  BY <1>1, <1>2, <1>3, <1>4, <1>5, <1>6, <1>7, <1>8, <1>9, <1>10, <1>11,
     <1>12, <1>13, <1>14, <1>15, <1>16, <1>17, <1>18, <1>19, <1>20, <1>21,
     <1>22, <1>23, <1>24, <1>25, <1>26, <1>27, ConstantFacts
     DEF Next, Handler, CreateOutgoing, AllMsix, BridgeRead, ServerStep

LEMMA InvAlways == ASSUME ~ Smart PROVE Spec => []Inv
<1>1. Init => Inv
  BY InvInit
<1>2. Inv /\ [Next]_vars => Inv'
  BY InvStep
<1> QED BY <1>1, <1>2, PTL DEF Spec

\* With --noPFM, an interrupt not yet serviced or an incoming_slot not yet
\* released always leads to the last message its owner sent, to this peer.
THEOREM DoorbellTheorem == ASSUME ~ Smart PROVE Spec => []DoorbellMeansMail
<1>1. Inv => DoorbellMeansMail
  BY ConstantFacts DEF Inv, MailInv, Holds, Awaits, DoorbellMeansMail
<1> QED BY <1>1, InvAlways, PTL

\* With --noPFM, read(2) returns a kernel peer's message whole, to the peer it
\* was sent to, although it takes no lock while it waits and copies.
THEOREM ReadIntactTheorem == ASSUME ~ Smart PROVE Spec => []ReadIntact
<1>1. ASSUME Inv, NEW x \in Kernel, rd[x].pc = "release", rd[x].from \in Kernel
      PROVE  /\ rd[x].len = sent[rd[x].from].msg
             /\ rd[x].buf = sent[rd[x].from].msg
             /\ sent[rd[x].from].to = x
  <2>1. rd[x].len = sent[rd[x].from].msg /\ rd[x].buf = sent[rd[x].from].msg
    BY <1>1 DEF Inv, CopyInv
  <2>2. x \in Ids /\ Holds(rd[x].from, x)
    BY <1>1, ConstantFacts DEF Holds, Awaits, Reads
  <2>3. HoldsMailFor(rd[x].from, x)
    BY <1>1, <2>2 DEF Inv, MailInv
  <2> QED
    BY <2>1, <2>3 DEF HoldsMailFor
<1>2. Inv => ReadIntact
  BY <1>1 DEF ReadIntact
<1> QED BY <1>2, InvAlways, PTL

\* With --noPFM, no message of a kernel peer is taken twice.
THEOREM HandedOverOnceTheorem == ASSUME ~ Smart PROVE Spec => []HandedOverOnce
<1>1. Inv => HandedOverOnce
  BY ConstantFacts DEF Inv, SeenInv, HandedOverOnce
<1> QED BY <1>1, InvAlways, PTL
===============================================================================
