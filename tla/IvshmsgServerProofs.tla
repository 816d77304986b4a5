-------------------------- MODULE IvshmsgServerProofs -------------------------
(***************************************************************************)
(* Ids are unique for any number of connections and clients, provided that *)
(* no client stops between connect(2) and the server's accept: then the    *)
(* server's table holds exactly the connections it has, each at its id.    *)
(*                                                                         *)
(* Types and the mailslots of dead peers need no such proviso.  With       *)
(* recycling the eventfds of an id are made once (EnInv), and a client has *)
(* no others in its table nor on the way (ToldInv): doorbells reach.       *)
(* Sends may fail throughout: what is left of a stream keeps its order,    *)
(* and the invariants speak only of what is in it.                         *)
(***************************************************************************)
EXTENDS IvshmsgServer, FiniteSetTheorems, SequenceTheorems, TLAPS

\* The assumption under which connectionMade always completes.
Accepted == ~ DiesUnaccepted

TableType ==
    /\ conn \in [Conns -> {"new", "made", "lost"}]
    /\ id \in [Conns -> ClientIds \cup {NoId, Rejected}]
    /\ en \in [Conns -> Conns \cup {Null}]
    /\ clients \in [ClientIds -> Conns \cup {Null}]
    /\ recycled \in [ClientIds \cup {Rejected} -> Conns \cup {Null}]
    /\ inbox = [c \in Conns |-> inbox[c]]
    /\ proc \in [Conns -> {"none", "up", "stopped", "crashed"}]

\* A connection the server has not accepted: nothing was sent on it, it has no
\* id and its client is there.
NewInv == \A c \in Conns : conn[c] = "new" =>
             /\ id[c] = NoId /\ inbox[c] = <<>> /\ en[c] = Null
             /\ proc[c] \in {"none", "up"}

\* SI.clients holds exactly the connections that were made, each at its id.
MemberInv == /\ \A c \in Conns : (conn[c] = "made" /\ id[c] \in ClientIds)
                                    => clients[id[c]] = c
             /\ \A i \in ClientIds : clients[i] # Null =>
                  conn[clients[i]] = "made" /\ id[clients[i]] = i
             /\ \A c \in Conns : conn[c] # "new" => id[c] # NoId

IdInv == TableType /\ NewInv /\ MemberInv

LEMMA IdInit == Init => IdInv
  BY DEF Init, IdInv, TableType, NewInv, MemberInv, ClientIds, NoId, Rejected

LEMMA IdFacts == /\ Null \notin Conns
                 /\ NoId \notin ClientIds /\ Rejected \notin ClientIds
                 /\ NoId # Rejected
                 /\ NewIds \subseteq ClientIds \cup {Rejected}
                 /\ \A i \in NewIds : i \in ClientIds => clients[i] = Null
  BY NullAssumption, NClientsAssumption
     DEF ClientIds, NoId, Rejected, NewIds, Available

LEMMA IdStep == Accepted /\ IdInv /\ [Next]_vars => IdInv'
<1> SUFFICES ASSUME Accepted, IdInv, [Next]_vars PROVE IdInv'
  OBVIOUS
<1> USE IdFacts
<1>1. ASSUME NEW c \in Conns, NEW i \in ClientIds \cup {Rejected},
             NEW ok \in BOOLEAN, ConnectionMade(c, i, ok)
      PROVE  IdInv'
  <2>0. /\ conn[c] = "new" /\ id[c] = NoId /\ Alive(c) /\ i \in NewIds
        /\ conn' = [conn EXCEPT ![c] = "made"] /\ proc' = proc
        /\ recycled' = [recycled EXCEPT ![i] = Null]
    BY <1>1 DEF ConnectionMade, IdInv, NewInv, Alive, TableType
  <2>1. CASE Refuse(c)
    <3>1. TableType' /\ NewInv'
      BY <2>0, <2>1 DEF Refuse, IdInv, TableType, NewInv
    <3>2. MemberInv'
      BY <2>0, <2>1 DEF Refuse, IdInv, TableType, MemberInv, NewInv
    <3> QED
      BY <3>1, <3>2 DEF IdInv
  <2>2. CASE i # Rejected /\ Admit(c, i)
    <3>0. /\ i \in ClientIds /\ clients[i] = Null
          /\ id' = [id EXCEPT ![c] = i]
          /\ clients' = [clients EXCEPT ![i] = c]
          /\ en' \in [Conns -> Conns \cup {Null}]
          /\ \A d \in Conns \ {c} : en'[d] = en[d]
          /\ inbox' = [d \in Conns |-> inbox'[d]]
          /\ \A d \in Conns : d \notin Members \cup {c} => inbox'[d] = inbox[d]
      BY <2>0, <2>2 DEF Admit, IdInv, TableType, Introduce
    <3>1. TableType'
      BY <2>0, <3>0 DEF IdInv, TableType
    <3>2. NewInv'
      <4>1. \A d \in Conns : conn[d] = "new" => d \notin Members
        BY DEF IdInv, MemberInv, Members
      <4> QED
        BY <2>0, <3>0, <4>1 DEF IdInv, TableType, NewInv
    <3>3. MemberInv'
      BY <2>0, <3>0 DEF IdInv, TableType, MemberInv, NewInv
    <3> QED
      BY <3>1, <3>2, <3>3 DEF IdInv
  <2> QED
    BY <1>1, <2>1, <2>2 DEF ConnectionMade
<1>2. ASSUME NEW c \in Conns, ConnectionLost(c) PROVE IdInv'
  <2>0. /\ conn[c] = "made" /\ conn' = [conn EXCEPT ![c] = "lost"]
        /\ clients' = [i \in ClientIds |-> IF i = id[c] THEN Null ELSE clients[i]]
        /\ id' = id /\ en' = en /\ proc' = proc
        /\ recycled' = recycled \/ recycled' = [recycled EXCEPT ![id[c]] = c]
        /\ inbox' = [d \in Conns |-> inbox'[d]]
        /\ \A d \in Conns : (\A i \in ClientIds : clients[i] # d) => inbox'[d] = inbox[d]
    <3>1. CASE Recycle
      BY <1>2, <3>1 DEF ConnectionLost, IdInv, TableType
    <3>2. CASE ~ Recycle
      BY <1>2, <3>2 DEF ConnectionLost, IdInv, TableType
    <3> QED
      BY <3>1, <3>2
  <2>1. TableType'
    <3>1. id[c] \in ClientIds \cup {Rejected}
      BY <2>0 DEF IdInv, TableType, MemberInv
    <3>2. /\ clients' \in [ClientIds -> Conns \cup {Null}]
          /\ recycled' \in [ClientIds \cup {Rejected} -> Conns \cup {Null}]
      BY <2>0, <3>1 DEF IdInv, TableType
    <3> QED
      BY <2>0, <3>2 DEF IdInv, TableType
  <2>2. NewInv'
    BY <2>0 DEF IdInv, TableType, NewInv, MemberInv
  <2>3. MemberInv'
    BY <2>0 DEF IdInv, TableType, MemberInv
  <2> QED
    BY <2>1, <2>2, <2>3 DEF IdInv
<1>3. ASSUME NEW c \in Conns,
             Start(c) \/ Kill(c) \/ Quit(c) \/ Command(c) \/ DataReceived(c)
      PROVE  IdInv'
  <2>0. /\ UNCHANGED <<conn, id, en, clients, recycled>>
        /\ inbox' = [d \in Conns |-> inbox'[d]]
        /\ \A d \in Conns \ {c} : inbox'[d] = inbox[d] /\ proc'[d] = proc[d]
        /\ proc' \in [Conns -> {"none", "up", "stopped", "crashed"}]
        /\ \/ conn[c] # "new"
           \/ inbox'[c] = inbox[c] /\ proc'[c] \in {"none", "up"}
    <3>1. CASE Start(c)
      BY <3>1 DEF Start, IdInv, TableType
    <3>2. CASE Kill(c) \/ Quit(c)
      BY <3>2 DEF Kill, Quit, HangUp, MayStop, Accepted, IdInv, TableType
    <3>3. CASE Command(c)
      BY <3>3 DEF Command, IdInv, TableType, NewInv
    <3>4. CASE DataReceived(c)
      <4>1. conn[c] # "new"
        <5>1. inbox[c] # <<>>
          <6>1. \E k \in 1 .. 3 : Chunk(c, k)
            <7>1. CASE PeerBatch(c) \/ PeerGone(c)
              <8>1. Chunk(c, 1)
                BY <7>1 DEF PeerBatch, PeerGone
              <8> QED
                BY <8>1
            <7>2. CASE \E k \in 1 .. 3 : InitialInfo(c, k) \/ DataRejected(c, k)
              BY <7>2 DEF InitialInfo, DataRejected
            <7> QED
              BY <3>4, <7>1, <7>2 DEF DataReceived
          <6> QED
            BY <6>1 DEF Chunk
        <5> QED
          BY <5>1 DEF IdInv, NewInv
      <4>2. /\ UNCHANGED <<conn, id, en, clients, recycled>>
            /\ \E k \in Nat : Consume(c, k) \/ inbox' = inbox
            /\ \/ proc' = proc
               \/ proc' = [proc EXCEPT ![c] = "crashed"]
        <5>1. CASE PeerBatch(c)
          BY <5>1 DEF PeerBatch
        <5>2. CASE PeerGone(c)
          BY <5>2 DEF PeerGone
        <5>3. CASE \E k \in 1 .. 3 : InitialInfo(c, k)
          BY <5>3 DEF InitialInfo
        <5>4. CASE \E k \in 1 .. 3 : DataRejected(c, k)
          BY <5>4 DEF DataRejected, HangUp
        <5> QED
          BY <3>4, <5>1, <5>2, <5>3, <5>4 DEF DataReceived
      <4>3. \A d \in Conns \ {c} : inbox'[d] = inbox[d] /\ proc'[d] = proc[d]
        BY <4>2 DEF Consume, IdInv, TableType
      <4>4. /\ inbox' = [d \in Conns |-> inbox'[d]]
            /\ proc' \in [Conns -> {"none", "up", "stopped", "crashed"}]
        BY <4>2 DEF Consume, IdInv, TableType
      <4> QED
        BY <4>1, <4>2, <4>3, <4>4
    <3> QED
      BY <1>3, <3>1, <3>2, <3>3, <3>4
  <2> QED
    BY <2>0 DEF IdInv, TableType, NewInv, MemberInv
<1>4. ASSUME NEW c \in Conns, NEW k \in 1 .. Len(inbox[c]), SendFails(c, k) PROVE IdInv'
  <2>1. /\ UNCHANGED <<conn, id, en, clients, recycled, proc>>
        /\ inbox' = [d \in Conns |-> inbox'[d]]
        /\ \A d \in Conns \ {c} : inbox'[d] = inbox[d]
    BY <1>4 DEF SendFails, IdInv, TableType
  <2>2. conn[c] # "new"
    BY <1>4 DEF IdInv, NewInv
  <2> QED
    BY <2>1, <2>2 DEF IdInv, TableType, NewInv, MemberInv
<1>5. CASE UNCHANGED vars
  BY <1>5 DEF vars, IdInv, TableType, NewInv, MemberInv
<1> QED
  BY <1>1, <1>2, <1>3, <1>4, <1>5 DEF Next, ServerStep

\* create_new_peer_id and connectionLost keep ids unique among the connections
\* of the server, for every number of connections and every nClients.
THEOREM IdsUniqueTheorem == ASSUME Accepted PROVE Spec => []IdsUnique
<1>1. IdInv => IdsUnique
  BY IdFacts DEF IdInv, TableType, MemberInv, IdsUnique
<1>2. IdInv /\ [Next]_vars => IdInv'
  BY IdStep
<1> QED
  BY IdInit, <1>1, <1>2, PTL DEF Spec

\* connectionLost takes only the id of the connection that is lost out of
\* SI.clients: a refused connection, whose id is the sentinel, takes none.
THEOREM OnlyMembersRemovedTheorem == ASSUME Accepted PROVE Spec => OnlyMembersRemoved
<1> DEFINE Removal == \A c \in Conns : (conn'[c] # conn[c] /\ conn'[c] = "lost" /\ c \notin Members)
                                         => clients' = clients
<1>1. ASSUME IdInv, [Next]_vars PROVE [Removal]_vars
  <2> SUFFICES ASSUME NEW c \in Conns, conn'[c] # conn[c], conn'[c] = "lost", c \notin Members
               PROVE  clients' = clients
    OBVIOUS
  <2>1. conn \in [Conns -> {"new", "made", "lost"}] /\ clients \in [ClientIds -> Conns \cup {Null}]
    BY <1>1 DEF IdInv, TableType
  <2>2. PICK d \in Conns : ServerStep(d)
    BY <1>1 DEF Next, vars, Start, Kill, Quit, Command, DataReceived, InitialInfo,
       PeerBatch, PeerGone, DataRejected, HangUp, SendFails
  <2>3. ConnectionLost(c)
    BY <2>1, <2>2 DEF ServerStep, ConnectionMade, ConnectionLost
  <2>4. id[c] \notin ClientIds
    <3>1. conn[c] = "made" /\ (id[c] \in ClientIds => clients[id[c]] = c)
      BY <1>1, <2>3 DEF ConnectionLost, IdInv, MemberInv
    <3>2. c # Null
      BY IdFacts
    <3> QED
      BY <3>1, <3>2 DEF Members
  <2> QED
    BY <2>1, <2>3, <2>4 DEF ConnectionLost
<1>2. IdInv /\ [Next]_vars => IdInv'
  BY IdStep
<1> QED
  BY IdInit, <1>1, <1>2, PTL DEF Spec, OnlyMembersRemoved
-------------------------------------------------------------------------------
(***************************************************************************)
(* What holds whether or not a client stops before it is accepted.         *)
(***************************************************************************)

Fds == Conns \cup {Server, Torn, Null}

\* What ivshmem_send_one_msg is called with.
Messages == [t : {"version"}, id : {0, -1}, en : {Null}]
            \cup [t : {"id", "mailbox", "gone"}, id : -1 .. NClients, en : {Null}]
            \cup [t : {"peer"}, id : 1 .. Server, en : Fds]

ServerType ==
    /\ conn \in [Conns -> {"new", "made", "lost"}]
    /\ id \in [Conns -> ClientIds \cup {NoId, Rejected}]
    /\ en \in [Conns -> Conns \cup {Null}]
    /\ clients \in [ClientIds -> Conns \cup {Null}]
    /\ recycled \in [ClientIds \cup {Rejected} -> Conns \cup {Null}]
    /\ named \subseteq ClientIds
    /\ inbox \in [Conns -> Seq(Messages)]
    /\ proc \in [Conns -> {"none", "up", "stopped", "crashed"}]
    /\ cl \in [Conns -> ClientType]
    /\ missed \subseteq Lossy

FreshInv ==
    /\ \A c \in Conns : conn[c] = "new" => id[c] = NoId /\ inbox[c] = <<>>
    /\ \A c \in Conns : conn[c] # "new" => id[c] # NoId /\ proc[c] # "none"
    /\ \A i \in ClientIds : clients[i] # Null =>
         conn[clients[i]] = "made" /\ id[clients[i]] = i

\* The id that a client finds is its own, and only it and the version come
\* before the mailbox.
Heads(s, i) == \A k \in 1 .. Len(s) :
    /\ s[k].t = "id" => s[k].id = i
    /\ s[k].t = "mailbox" => \A j \in 1 .. k - 1 : s[j].t \in {"version", "id"}
HeadInv == \A c \in Conns : Alive(c) =>
    /\ Heads(inbox[c], id[c])
    /\ \A k \in 1 .. Len(inbox[c]) : inbox[c][k].t = "id" =>
         id[c] \in ClientIds /\ conn[c] = "made"

BaseInv == ServerType /\ FreshInv /\ HeadInv

LEMMA IdRanges == /\ ClientIds \subseteq 1 .. Server /\ ClientIds \subseteq -1 .. NClients
                  /\ Server \in 1 .. Server /\ Rejected \in -1 .. NClients
                  /\ Server \notin ClientIds /\ NClients \in Nat
                  /\ \A i \in Int : i \in ClientIds <=> 1 <= i /\ i <= NClients
                  /\ NoId = 0 /\ Rejected = -1
  BY NClientsAssumption DEF ClientIds, Server, Rejected, NoId

LEMMA MessageTypes ==
    /\ \A v \in {0, -1} : Version(v) \in Messages
    /\ \A i \in ClientIds : YourId(i) \in Messages
    /\ Mailbox \in Messages
    /\ \A i \in ClientIds \cup {Rejected} : Gone(i) \in Messages
    /\ \A i \in ClientIds \cup {Server}, e \in Fds : Peer(i, e) \in Messages
  BY IdRanges DEF Messages, Version, YourId, Mailbox, Gone, Peer, Msg, Fds

\* The batches for the other peers come in some order, each of them once.
LEMMA Others ==
    ASSUME NEW others \in SetToSeqs(OtherPeers)
    PROVE  /\ others \in Seq(OtherPeers)
           /\ \A j, k \in 1 .. Len(others) : j # k => others[j] # others[k]
           /\ \A m \in OtherPeers : \E k \in 1 .. Len(others) : others[k] = m
<1> DEFINE D == 1 .. Cardinality(OtherPeers)
           I == ClientIds \ Available
           f == [i \in I |-> Peer(i, en[clients[i]])]
<1>1. IsFiniteSet(I)
  <2>1. IsFiniteSet(ClientIds)
    BY NClientsAssumption, FS_Interval DEF ClientIds
  <2> QED
    BY <2>1, FS_Subset
<1>2. OtherPeers = {f[i] : i \in I}
  BY DEF OtherPeers
<1>3. IsFiniteSet(OtherPeers)
  <2>1. f \in Surjection(I, OtherPeers)
    BY <1>2 DEF Surjection
  <2> QED
    BY <1>1, <2>1, FS_Surjection
<1>4. Cardinality(OtherPeers) \in Nat
  BY <1>3, FS_CardinalityType
<1>5. others \in [D -> OtherPeers] /\ \A j, k \in D : j # k => others[j] # others[k]
  BY DEF SetToSeqs
<1>6. others \in Seq(OtherPeers) /\ Len(others) = Cardinality(OtherPeers)
  BY <1>4, <1>5
<1>7. \A m \in OtherPeers : \E k \in D : others[k] = m
  <2> DEFINE R == {others[k] : k \in D}
  <2>1. others \in Bijection(D, R)
    BY <1>5 DEF Bijection, Injection, Surjection, IsInjective
  <2>2. IsFiniteSet(D) /\ Cardinality(D) = Cardinality(OtherPeers)
    BY <1>4, FS_Interval
  <2>3. Cardinality(R) = Cardinality(OtherPeers)
    BY <2>1, <2>2, FS_Bijection DEF ExistsBijection
  <2>4. R \subseteq OtherPeers
    BY <1>5
  <2>5. R = OtherPeers
    BY <1>3, <2>3, <2>4, FS_Subset
  <2> QED
    BY <2>5
<1> QED
  BY <1>5, <1>6, <1>7

\* What send_initial_info and connectionMade send to a new peer.
Intro(c, i, e, others) ==
    <<Version(0), YourId(i), Mailbox>> \o others \o <<Peer(Server, Server), Peer(i, e)>>

LEMMA IntroShape ==
    ASSUME NEW c \in Conns, NEW i \in ClientIds, NEW e \in Fds,
           NEW others \in Seq(Messages)
    PROVE  LET s == Intro(c, i, e, others) n == Len(others) IN
           /\ s \in Seq(Messages) /\ n \in Nat /\ Len(s) = n + 5
           /\ s[1] = Version(0) /\ s[2] = YourId(i) /\ s[3] = Mailbox
           /\ \A k \in 1 .. n : s[k + 3] = others[k]
           /\ s[n + 4] = Peer(Server, Server) /\ s[n + 5] = Peer(i, e)
<1> DEFINE a == <<Version(0), YourId(i), Mailbox>>
           z == <<Peer(Server, Server), Peer(i, e)>>
           n == Len(others)
           s == Intro(c, i, e, others)
<1>1. a \in Seq(Messages) /\ z \in Seq(Messages)
  <2>1. /\ Version(0) \in Messages /\ YourId(i) \in Messages /\ Mailbox \in Messages
        /\ Peer(Server, Server) \in Messages /\ Peer(i, e) \in Messages
    BY MessageTypes DEF Fds
  <2> QED
    BY <2>1
<1>2. Len(a) = 3 /\ a[1] = Version(0) /\ a[2] = YourId(i) /\ a[3] = Mailbox
  OBVIOUS
<1>3. Len(z) = 2 /\ z[1] = Peer(Server, Server) /\ z[2] = Peer(i, e)
  OBVIOUS
<1>4. n \in Nat
  BY LenProperties
<1> HIDE DEF a, z
<1>5. /\ a \o others \in Seq(Messages) /\ Len(a \o others) = 3 + n
      /\ \A k \in 1 .. 3 + n : (a \o others)[k] = IF k <= 3 THEN a[k] ELSE others[k - 3]
  <2>1. /\ a \o others \in Seq(Messages) /\ Len(a \o others) = Len(a) + n
        /\ \A k \in 1 .. Len(a) + n :
              (a \o others)[k] = IF k <= Len(a) THEN a[k] ELSE others[k - Len(a)]
    BY <1>1, ConcatProperties, Zenon
  <2> QED
    BY <1>2, <2>1
<1> DEFINE b == a \o others
<1>6. /\ b \o z \in Seq(Messages) /\ Len(b \o z) = 3 + n + 2
      /\ \A k \in 1 .. 3 + n + 2 : (b \o z)[k] = IF k <= 3 + n THEN b[k] ELSE z[k - (3 + n)]
  <2>1. /\ b \o z \in Seq(Messages) /\ Len(b \o z) = Len(b) + Len(z)
        /\ \A k \in 1 .. Len(b) + Len(z) :
              (b \o z)[k] = IF k <= Len(b) THEN b[k] ELSE z[k - Len(b)]
    <3>1. b \in Seq(Messages)
      BY <1>5
    <3> HIDE DEF b
    <3> QED
      BY <1>1, <3>1, ConcatProperties, Zenon
  <2>2. Len(b) = 3 + n
    BY <1>5
  <2> HIDE DEF b
  <2> QED
    BY <1>3, <2>1, <2>2
<1>7. s = b \o z
  BY DEF Intro, a, z
<1> HIDE DEF b, s
<1>8. s[1] = a[1] /\ s[2] = a[2] /\ s[3] = a[3]
  BY <1>4, <1>5, <1>6, <1>7 DEF b
<1>9. \A k \in 1 .. n : s[k + 3] = others[k]
  <2> SUFFICES ASSUME NEW k \in 1 .. n PROVE s[k + 3] = others[k]
    OBVIOUS
  <2>1. s[k + 3] = b[k + 3]
    BY <1>4, <1>6, <1>7
  <2>2. b[k + 3] = others[(k + 3) - 3]
    BY <1>4, <1>5 DEF b
  <2> QED
    BY <2>1, <2>2, <1>4
<1>10. s[n + 4] = z[1] /\ s[n + 5] = z[2]
  <2>1. s[n + 4] = z[(n + 4) - (3 + n)] /\ s[n + 5] = z[(n + 5) - (3 + n)]
    BY <1>4, <1>6, <1>7
  <2>2. (n + 4) - (3 + n) = 1 /\ (n + 5) - (3 + n) = 2
    BY <1>4
  <2> QED
    BY <2>1, <2>2
<1> QED
  <2>1. s \in Seq(Messages)
    BY <1>6, <1>7
  <2>2. Len(s) = n + 5
    <3>1. 3 + n + 2 = n + 5
      BY <1>4
    <3> QED
      BY <1>6, <1>7, <3>1
  <2> QED
    BY <1>2, <1>3, <1>4, <1>8, <1>9, <1>10, <2>1, <2>2 DEF s

\* connectionMade, when it completes.
LEMMA AdmitFacts ==
    ASSUME ServerType, NEW c \in Conns, NEW i \in ClientIds, Alive(c), Admit(c, i)
    PROVE  \E e \in Conns \cup {Null}, others \in SetToSeqs(OtherPeers) :
             /\ e = IF recycled[i] # Null THEN en[recycled[i]] ELSE c
             /\ id' = [id EXCEPT ![c] = i] /\ en' = [en EXCEPT ![c] = e]
             /\ clients' = [clients EXCEPT ![i] = c]
             /\ others \in Seq(Messages)
             /\ inbox' \in [Conns -> Seq(Messages)]
             /\ inbox'[c] = Intro(c, i, e, others)
             /\ \A d \in Conns \ {c} :
                  inbox'[d] = IF d \in Members /\ recycled[i] = Null
                              THEN Append(inbox[d], Peer(i, e)) ELSE inbox[d]
<1> DEFINE e == IF recycled[i] # Null THEN en[recycled[i]] ELSE c
<1>1. e \in Conns \cup {Null}
  BY DEF ServerType
<1>2. PICK others \in SetToSeqs(OtherPeers) :
        inbox' = Introduce(c, i, e, recycled[i] # Null, others)
  BY DEF Admit
<1>3. others \in Seq(Messages)
  <2>1. others \in Seq(OtherPeers)
    BY Others
  <2>2. OtherPeers \subseteq Messages
    <3> SUFFICES ASSUME NEW j \in ClientIds \ Available
                 PROVE  Peer(j, en[clients[j]]) \in Messages
      BY DEF OtherPeers
    <3>1. en[clients[j]] \in Fds
      BY DEF ServerType, Available, Fds
    <3> QED
      BY <3>1, MessageTypes
  <2> QED
    BY <2>1, <2>2, SeqMonotonic
<1>4. Peer(i, e) \in Messages /\ e \in Fds
  BY <1>1, MessageTypes DEF Fds
<1>5. Intro(c, i, e, others) \in Seq(Messages)
  BY <1>3, <1>4, IntroShape
<1>6. inbox' = [d \in Conns |->
        IF d = c THEN Intro(c, i, e, others)
        ELSE IF d \in Members /\ recycled[i] = Null
             THEN Append(inbox[d], Peer(i, e)) ELSE inbox[d]]
  BY <1>2 DEF Introduce, Intro
<1> HIDE DEF e
<1>7. \A d \in Conns : inbox[d] \in Seq(Messages) /\ Append(inbox[d], Peer(i, e)) \in Seq(Messages)
  BY <1>4, AppendProperties DEF ServerType
<1>8. inbox' \in [Conns -> Seq(Messages)]
  BY <1>5, <1>6, <1>7
<1>9. /\ inbox'[c] = Intro(c, i, e, others)
      /\ \A d \in Conns \ {c} :
           inbox'[d] = IF d \in Members /\ recycled[i] = Null
                       THEN Append(inbox[d], Peer(i, e)) ELSE inbox[d]
  BY <1>6
<1>10. /\ id' = [id EXCEPT ![c] = i] /\ en' = [en EXCEPT ![c] = e]
       /\ clients' = [clients EXCEPT ![i] = c]
  BY DEF Admit, e
<1> QED
  BY <1>1, <1>3, <1>8, <1>9, <1>10 DEF e

\* connectionLost.
LEMMA LostFacts ==
    ASSUME ServerType, FreshInv, NEW c \in Conns, ConnectionLost(c)
    PROVE  /\ conn[c] = "made" /\ (~ Alive(c) \/ id[c] = Rejected)
           /\ id[c] \in ClientIds \cup {Rejected}
           /\ conn' = [conn EXCEPT ![c] = "lost"]
           /\ clients' = [i \in ClientIds |-> IF i = id[c] THEN Null ELSE clients[i]]
           /\ UNCHANGED <<id, en, proc, cl, missed>>
           /\ inbox' \in [Conns -> Seq(Messages)]
           /\ \A d \in Conns : inbox'[d] =
                IF ~ Recycle /\ \E i \in ClientIds \ {id[c]} : clients[i] = d
                THEN Append(inbox[d], Gone(id[c])) ELSE inbox[d]
           /\ Recycle => recycled' = [recycled EXCEPT ![id[c]] = c] /\ named' = named
           /\ ~ Recycle => recycled' = recycled /\ named' = named \ {id[c]}
<1>1. id[c] \in ClientIds \cup {Rejected}
  BY DEF ConnectionLost, ServerType, FreshInv
<1>2. \A d \in Conns : inbox[d] \in Seq(Messages) /\ Append(inbox[d], Gone(id[c])) \in Seq(Messages)
  <2>1. Gone(id[c]) \in Messages
    BY <1>1, MessageTypes
  <2> QED
    BY <2>1, AppendProperties DEF ServerType
<1>3. CASE Recycle
  BY <1>1, <1>3 DEF ConnectionLost, ServerType
<1>4. CASE ~ Recycle
  BY <1>1, <1>2, <1>4 DEF ConnectionLost, clear_mailslot
<1> QED
  BY <1>3, <1>4

\* What a client does with a batch; own says whether housekeeping follows.
LEMMA BatchFacts ==
    ASSUME ServerType, NEW c \in Conns, PeerBatch(c)
    PROVE  LET m == inbox[c][1] IN
           /\ Alive(c) /\ ~ Starting(c) /\ inbox[c] # <<>> /\ m.t = "peer" /\ m \in Messages
           /\ cl[c].fd[m.id] = Null \/ (cl[c].fd[m.id] = Torn /\ m.en = Torn)
           /\ UNCHANGED <<conn, id, en, clients, recycled, named, proc, missed>>
           /\ cl' \in [Conns -> ClientType]
           /\ \A d \in Conns \ {c} : cl'[d] = cl[d]
           /\ cl'[c].id = cl[c].id
           /\ cl'[c].fd = [cl[c].fd EXCEPT ![m.id] = m.en]
           /\ \E own \in BOOLEAN :
                /\ own => ~ cl[c].firstpass \/ m.id = cl[c].id
                /\ m.en # Torn /\ (~ cl[c].firstpass \/ m.id = cl[c].id) => own
                /\ m.en = Torn /\ cl[c].fd[m.id] = Null => ~ own
                /\ cl'[c].firstpass <=> (cl[c].firstpass /\ ~ own)
                /\ \A i \in 1 .. Server : cl'[c].EN[i] =
                     IF own /\ cl[c].EN[i] = Null THEN cl'[c].fd[i] ELSE cl[c].EN[i]
<1> DEFINE m == inbox[c][1]
           r == cl[c]
           fd == [r.fd EXCEPT ![m.id] = m.en]
           known == {i \in 1 .. Server : fd[i] # Null}
           EN == [i \in 1 .. Server |-> IF r.EN[i] = Null THEN fd[i] ELSE r.EN[i]]
           n(b) == IF (r.firstpass /\ m.id # r.id) \/ ~ b THEN [r EXCEPT !.fd = fd]
                   ELSE [r EXCEPT !.fd = fd, !.EN = EN,
                                  !.names = IF r.firstpass THEN known ELSE r.names,
                                  !.firstpass = FALSE]
<1>1. /\ Chunk(c, 1) /\ ~ Starting(c) /\ m.t = "peer" /\ Takes(r.fd[m.id], m.en)
      /\ UNCHANGED <<conn, id, en, clients, recycled, named, proc, missed>>
  BY DEF PeerBatch
<1>2. PICK b \in IF r.fd[m.id] = Null THEN {m.en # Torn} ELSE BOOLEAN :
        cl' = [cl EXCEPT ![c] = n(b)]
  BY DEF PeerBatch
<1>b. b \in BOOLEAN /\ (r.fd[m.id] = Null => (b <=> m.en # Torn))
  BY <1>2
<1>3. Alive(c) /\ inbox[c] # <<>> /\ m \in Messages
  <2>1. Alive(c) /\ 1 \in 1 .. Len(inbox[c]) /\ inbox[c] \in Seq(Messages)
    BY <1>1 DEF Chunk, ServerType
  <2> QED
    BY <2>1, ElementOfSeq
<1>4. m.en \in Fds /\ m.id \in 1 .. Server
  BY <1>1, <1>3 DEF Messages
<1>5. r \in ClientType
  BY DEF ServerType
<1> HIDE DEF m, r
<1>6. fd \in [1 .. Server -> Fds]
  BY <1>4, <1>5 DEF ClientType, Fds
<1> HIDE DEF fd
<1>7. EN \in [1 .. Server -> Fds] /\ known \in SUBSET (1 .. Server)
  BY <1>5, <1>6 DEF ClientType, Fds
<1>8. \A i \in 1 .. Server : EN[i] = IF r.EN[i] = Null THEN fd[i] ELSE r.EN[i]
  OBVIOUS
<1> HIDE DEF EN, known
<1>9. n(b) \in ClientType
  BY <1>5, <1>6, <1>7 DEF ClientType, Fds
<1> DEFINE own == ~ (r.firstpass /\ m.id # r.id) /\ b
<1>10. /\ n(b).id = r.id /\ n(b).fd = fd
       /\ n(b).firstpass <=> (r.firstpass /\ ~ own)
       /\ n(b).EN = IF own THEN EN ELSE r.EN
  <2>1. CASE own
    BY <1>5, <1>b, <2>1 DEF ClientType
  <2>2. CASE ~ own
    BY <1>5, <1>b, <2>2 DEF ClientType
  <2> QED
    BY <2>1, <2>2
<1> HIDE DEF n
<1>11. cl' \in [Conns -> ClientType] /\ cl'[c] = n(b) /\ \A d \in Conns \ {c} : cl'[d] = cl[d]
  BY <1>2, <1>9 DEF ServerType
<1>12. \A i \in 1 .. Server : n(b).EN[i] =
         IF own /\ r.EN[i] = Null THEN n(b).fd[i] ELSE r.EN[i]
  BY <1>8, <1>10
<1>13. /\ own => ~ r.firstpass \/ m.id = r.id
       /\ m.en # Torn /\ (~ r.firstpass \/ m.id = r.id) => own
       /\ m.en = Torn /\ r.fd[m.id] = Null => ~ own
  <2>1. r.fd[m.id] = Null \/ (r.fd[m.id] = Torn /\ m.en = Torn)
    BY <1>1 DEF Takes
  <2> QED
    BY <1>b, <2>1
<1>14. own \in BOOLEAN
  BY <1>b
<1> HIDE DEF own
<1>15. \E o \in BOOLEAN :
         /\ o => ~ r.firstpass \/ m.id = r.id
         /\ m.en # Torn /\ (~ r.firstpass \/ m.id = r.id) => o
         /\ m.en = Torn /\ r.fd[m.id] = Null => ~ o
         /\ cl'[c].firstpass <=> (r.firstpass /\ ~ o)
         /\ \A i \in 1 .. Server : cl'[c].EN[i] =
              IF o /\ r.EN[i] = Null THEN cl'[c].fd[i] ELSE r.EN[i]
  BY <1>10, <1>11, <1>12, <1>13, <1>14
<1> QED
  BY <1>1, <1>3, <1>10, <1>11, <1>15 DEF m, r, fd, Takes

\* What a client does with a disconnect notification.
LEMMA GoneFacts ==
    ASSUME ServerType, NEW c \in Conns, PeerGone(c)
    PROVE  LET m == inbox[c][1] IN
           /\ Alive(c) /\ ~ Starting(c) /\ inbox[c] # <<>> /\ m.t = "gone" /\ m \in Messages
           /\ m.id \in ClientIds
           /\ UNCHANGED <<conn, id, en, clients, recycled, named, proc, missed>>
           /\ cl' \in [Conns -> ClientType]
           /\ \A d \in Conns \ {c} : cl'[d] = cl[d]
           /\ cl'[c].id = cl[c].id /\ cl'[c].firstpass = cl[c].firstpass
           /\ cl'[c].fd = [cl[c].fd EXCEPT ![m.id] = Null]
           /\ cl'[c].EN = [cl[c].EN EXCEPT ![m.id] = Null]
<1> DEFINE m == inbox[c][1]
           r == cl[c]
           n == [r EXCEPT !.fd[m.id] = Null, !.EN[m.id] = Null, !.names = @ \ {m.id}]
<1>1. /\ Chunk(c, 1) /\ ~ Starting(c) /\ m.t = "gone" /\ m.id \in cl[c].names
      /\ UNCHANGED <<conn, id, en, clients, recycled, named, proc, missed>>
  BY DEF PeerGone
<1>2. cl' = [cl EXCEPT ![c] = n]
  BY SMTT(60) DEF PeerGone, ServerType, ClientType
<1>3. Alive(c) /\ inbox[c] # <<>> /\ m \in Messages
  <2>1. Alive(c) /\ 1 \in 1 .. Len(inbox[c]) /\ inbox[c] \in Seq(Messages)
    BY <1>1 DEF Chunk, ServerType
  <2> QED
    BY <2>1, ElementOfSeq
<1>4. r \in ClientType
  BY DEF ServerType
<1>5. m.id \in ClientIds
  <2>1. m.id \in -1 .. NClients
    BY <1>1, <1>3 DEF Messages
  <2>2. m.id \in 1 .. Server
    BY <1>1, <1>4 DEF ClientType
  <2> QED
    BY <2>1, <2>2, IdRanges
<1> HIDE DEF m, r
<1>6. /\ n \in ClientType /\ n.id = r.id /\ n.firstpass = r.firstpass
      /\ n.fd = [r.fd EXCEPT ![m.id] = Null] /\ n.EN = [r.EN EXCEPT ![m.id] = Null]
  BY <1>4 DEF ClientType
<1> HIDE DEF n
<1>7. cl' \in [Conns -> ClientType] /\ cl'[c] = n /\ \A d \in Conns \ {c} : cl'[d] = cl[d]
  BY <1>2, <1>6 DEF ServerType
<1> QED
  BY <1>1, <1>3, <1>5, <1>6, <1>7 DEF m, r

\* What is left to read.
LEMMA ConsumeFacts ==
    ASSUME ServerType, NEW c \in Conns, NEW k \in Nat \ {0}, k <= Len(inbox[c]), Consume(c, k)
    PROVE  /\ inbox' \in [Conns -> Seq(Messages)]
           /\ \A d \in Conns \ {c} : inbox'[d] = inbox[d]
           /\ Len(inbox'[c]) = Len(inbox[c]) - k
           /\ \A j \in 1 .. Len(inbox'[c]) : inbox'[c][j] = inbox[c][j + k]
<1> DEFINE s == inbox[c]
           t == SubSeq(s, k + 1, Len(s))
<1>1. s \in Seq(Messages) /\ Len(s) \in Nat /\ \A j \in 1 .. Len(s) : s[j] \in Messages
  <2>1. s \in Seq(Messages)
    BY DEF ServerType
  <2> QED
    BY <2>1, LenProperties, ElementOfSeq
<1>2. k + 1 \in Int /\ Len(s) \in Int /\ \A j \in (k + 1) .. Len(s) : s[j] \in Messages
  BY <1>1
<1> HIDE DEF s
<1>3. /\ t \in Seq(Messages)
      /\ Len(t) = IF k + 1 <= Len(s) THEN Len(s) - (k + 1) + 1 ELSE 0
      /\ \A j \in 1 .. Len(s) - (k + 1) + 1 : t[j] = s[(k + 1) + j - 1]
  BY <1>2, SubSeqProperties
<1> HIDE DEF t
<1>4. Len(t) = Len(s) - k
  BY <1>1, <1>3 DEF s
<1>5. \A j \in 1 .. Len(t) : t[j] = s[j + k]
  <2> SUFFICES ASSUME NEW j \in 1 .. Len(t) PROVE t[j] = s[j + k]
    OBVIOUS
  <2>1. j \in 1 .. Len(s) - (k + 1) + 1 /\ (k + 1) + j - 1 = j + k
    BY <1>1, <1>4
  <2> QED
    BY <1>3, <2>1
<1>6. inbox' = [inbox EXCEPT ![c] = t]
  BY DEF Consume, s, t
<1>7. inbox' \in [Conns -> Seq(Messages)] /\ inbox'[c] = t
      /\ \A d \in Conns \ {c} : inbox'[d] = inbox[d]
  BY <1>3, <1>6 DEF ServerType
<1> QED
  BY <1>4, <1>5, <1>7 DEF s

LEMMA RemoveFacts ==
    ASSUME NEW S, NEW s \in Seq(S), NEW k \in 1 .. Len(s)
    PROVE  /\ RemoveAt(s, k) \in Seq(S) /\ Len(RemoveAt(s, k)) = Len(s) - 1
           /\ \A j \in 1 .. Len(s) - 1 : RemoveAt(s, k)[j] = s[IF j < k THEN j ELSE j + 1]
<1> DEFINE a == SubSeq(s, 1, k - 1)
           b == SubSeq(s, k + 1, Len(s))
<1>1. Len(s) \in Nat /\ k \in Nat /\ 1 <= k /\ k <= Len(s) /\ \A j \in 1 .. Len(s) : s[j] \in S
  BY LenProperties, ElementOfSeq
<1>2. /\ a \in Seq(S) /\ Len(a) = k - 1 /\ \A j \in 1 .. k - 1 : a[j] = s[j]
  <2>1. 1 \in Int /\ k - 1 \in Int /\ \A j \in 1 .. k - 1 : s[j] \in S
    BY <1>1
  <2>2. /\ a \in Seq(S) /\ Len(a) = IF 1 <= k - 1 THEN (k - 1) - 1 + 1 ELSE 0
        /\ \A j \in 1 .. (k - 1) - 1 + 1 : a[j] = s[1 + j - 1]
    BY <2>1, SubSeqProperties
  <2> HIDE DEF a
  <2> QED
    BY <1>1, <2>2
<1>3. /\ b \in Seq(S) /\ Len(b) = Len(s) - k /\ \A j \in 1 .. Len(s) - k : b[j] = s[j + k]
  <2>1. k + 1 \in Int /\ Len(s) \in Int /\ \A j \in k + 1 .. Len(s) : s[j] \in S
    BY <1>1
  <2>2. /\ b \in Seq(S) /\ Len(b) = IF k + 1 <= Len(s) THEN Len(s) - (k + 1) + 1 ELSE 0
        /\ \A j \in 1 .. Len(s) - (k + 1) + 1 : b[j] = s[(k + 1) + j - 1]
    BY <2>1, SubSeqProperties
  <2> HIDE DEF b
  <2> QED
    BY <1>1, <2>2
<1>4. RemoveAt(s, k) = a \o b
  BY DEF RemoveAt
<1> HIDE DEF a, b
<1>5. /\ a \o b \in Seq(S) /\ Len(a \o b) = Len(a) + Len(b)
      /\ \A j \in 1 .. Len(a) + Len(b) : (a \o b)[j] = IF j <= Len(a) THEN a[j] ELSE b[j - Len(a)]
  BY <1>2, <1>3, ConcatProperties
<1>6. Len(a) + Len(b) = Len(s) - 1
  BY <1>1, <1>2, <1>3
<1>7. ASSUME NEW j \in 1 .. Len(s) - 1
      PROVE  (a \o b)[j] = s[IF j < k THEN j ELSE j + 1]
  <2>1. CASE j < k
    BY <1>1, <1>2, <1>5, <1>6, <2>1
  <2>2. CASE ~ (j < k)
    <3>1. j - (k - 1) \in 1 .. Len(s) - k /\ (j - (k - 1)) + k = j + 1
      BY <1>1, <2>2
    <3>2. (a \o b)[j] = b[j - (k - 1)]
      BY <1>1, <1>2, <1>5, <1>6, <2>2
    <3> QED
      BY <1>3, <2>2, <3>1, <3>2
  <2> QED
    BY <2>1, <2>2
<1> QED
  BY <1>4, <1>5, <1>6, <1>7

\* A send that failed: where the messages that are left were before.
Before(c, j, k) == IF Len(inbox'[c]) = Len(inbox[c]) \/ j < k THEN j ELSE j + 1

LEMMA SendFacts ==
    ASSUME ServerType, NEW c \in Conns, NEW k \in 1 .. Len(inbox[c]), SendFails(c, k)
    PROVE  /\ Alive(c) /\ c \in missed' /\ missed \subseteq missed' /\ missed' \subseteq Lossy
           /\ \A d \in Conns \ {c} : d \in missed' => d \in missed
           /\ UNCHANGED <<conn, id, en, clients, recycled, named, proc, cl>>
           /\ inbox' \in [Conns -> Seq(Messages)] /\ inbox[c] # <<>> /\ inbox[c][k].t # "version"
           /\ Len(inbox'[c]) \in {Len(inbox[c]), Len(inbox[c]) - 1}
           /\ \A d \in Conns \ {c} : inbox'[d] = inbox[d]
           /\ \A j \in 1 .. Len(inbox'[c]) :
                /\ Before(c, j, k) \in 1 .. Len(inbox[c])
                /\ inbox'[c][j].t = inbox[c][Before(c, j, k)].t
                /\ inbox'[c][j].id = inbox[c][Before(c, j, k)].id
                /\ \/ inbox'[c][j] = inbox[c][Before(c, j, k)]
                   \/ inbox'[c][j].t = "peer" /\ inbox'[c][j].en = Torn
<1> DEFINE s == inbox[c]
           t == RemoveAt(s, k)
           w == [s EXCEPT ![k].en = Torn]
<1>1. s \in Seq(Messages) /\ Len(s) \in Nat /\ k \in 1 .. Len(s) /\ s[k] \in Messages
  <2>1. s \in Seq(Messages)
    BY DEF ServerType
  <2> QED
    BY <2>1, LenProperties, ElementOfSeq
<1>2. /\ Alive(c) /\ c \in Lossy /\ missed' = missed \cup {c} /\ s # <<>> /\ s[k].t # "version"
      /\ UNCHANGED <<conn, id, en, clients, recycled, named, proc, cl>>
  BY DEF SendFails, Chunk
<1>3. \/ inbox' = [inbox EXCEPT ![c] = t]
      \/ s[k].t = "peer" /\ inbox' = [inbox EXCEPT ![c] = w]
  BY DEF SendFails, ServerType
<1>4. CASE inbox' = [inbox EXCEPT ![c] = t]
  <2> HIDE DEF s
  <2>1. /\ t \in Seq(Messages) /\ Len(t) = Len(s) - 1
        /\ \A j \in 1 .. Len(t) : t[j] = s[IF j < k THEN j ELSE j + 1]
    BY <1>1, RemoveFacts
  <2> HIDE DEF t
  <2>2. inbox' \in [Conns -> Seq(Messages)] /\ inbox'[c] = t
        /\ \A d \in Conns \ {c} : inbox'[d] = inbox[d]
    BY <1>4, <2>1 DEF ServerType
  <2>3. \A j \in 1 .. Len(t) : /\ Before(c, j, k) = (IF j < k THEN j ELSE j + 1)
                               /\ Before(c, j, k) \in 1 .. Len(s)
    BY <1>1, <2>1, <2>2 DEF Before, s
  <2> QED
    BY <1>2, <2>1, <2>2, <2>3 DEF s, ServerType
<1>5. CASE s[k].t = "peer" /\ inbox' = [inbox EXCEPT ![c] = w]
  <2> HIDE DEF s
  <2>1. [s[k] EXCEPT !.en = Torn] \in Messages
    BY <1>1, <1>5 DEF Messages, Fds
  <2>2. w = [s EXCEPT ![k] = [s[k] EXCEPT !.en = Torn]]
    BY <1>1
  <2>3. /\ w \in Seq(Messages) /\ Len(w) = Len(s)
        /\ \A j \in 1 .. Len(s) : w[j] = IF j = k THEN [s[k] EXCEPT !.en = Torn] ELSE s[j]
    BY <1>1, <2>1, <2>2
  <2>4. /\ [s[k] EXCEPT !.en = Torn].en = Torn /\ [s[k] EXCEPT !.en = Torn].t = s[k].t
        /\ [s[k] EXCEPT !.en = Torn].id = s[k].id
    BY <1>1, <1>5 DEF Messages
  <2> HIDE DEF w
  <2>5. inbox' \in [Conns -> Seq(Messages)] /\ inbox'[c] = w
        /\ \A d \in Conns \ {c} : inbox'[d] = inbox[d]
    BY <1>5, <2>3 DEF ServerType
  <2>6. \A j \in 1 .. Len(w) : Before(c, j, k) = j
    BY <1>1, <2>3, <2>5 DEF Before, s
  <2> QED
    BY <1>2, <1>5, <2>3, <2>4, <2>5, <2>6, ZenonT(60) DEF s, ServerType
<1> QED
  BY <1>3, <1>4, <1>5

\* What a client does with the first three messages.
LEMMA InfoFacts ==
    ASSUME BaseInv, NEW c \in Conns, NEW k \in 1 .. 3, InitialInfo(c, k)
    PROVE  /\ Alive(c) /\ Starting(c) /\ k = 3 /\ Consume(c, 3) /\ 3 <= Len(inbox[c])
           /\ id[c] \in ClientIds /\ conn[c] = "made"
           /\ UNCHANGED <<conn, id, en, clients, recycled, proc, missed>>
           /\ cl' = [cl EXCEPT ![c].id = id[c]]
           /\ cl' \in [Conns -> ClientType]
           /\ named' = named \cup {id[c]}
           /\ \A j \in 1 .. 3 : inbox[c][j].t \notin {"peer", "gone"}
<1>1. /\ Chunk(c, 3) /\ Starting(c) /\ k = 3 /\ Consume(c, 3)
      /\ inbox[c][2].id >= 1 /\ inbox[c][3] = Mailbox
      /\ UNCHANGED <<conn, id, en, clients, recycled, proc, missed>>
      /\ cl' = [cl EXCEPT ![c].id = inbox[c][2].id]
      /\ named' = named \cup {inbox[c][2].id}
  BY DEF InitialInfo, InfoGood, _init_mailslot
<1>2. Alive(c) /\ 3 \in 1 .. Len(inbox[c]) /\ inbox[c] \in Seq(Messages)
  BY <1>1 DEF Chunk, BaseInv, ServerType
<1>3. 3 <= Len(inbox[c]) /\ inbox[c] # <<>>
  BY <1>2
<1>4. inbox[c][2].t = "id"
  <2>1. inbox[c][2] \in Messages /\ inbox[c][3].t = "mailbox"
    BY <1>1, <1>2, ElementOfSeq DEF Mailbox, Msg
  <2>2. inbox[c][2].t \in {"version", "id"}
    BY <1>2, <2>1 DEF BaseInv, HeadInv, Heads
  <2> QED
    BY <1>1, <2>1, <2>2 DEF Messages
<1>5. inbox[c][2].id = id[c] /\ id[c] \in ClientIds /\ conn[c] = "made"
  BY <1>2, <1>4 DEF BaseInv, HeadInv, Heads
<1>6. cl' \in [Conns -> ClientType]
  <2>1. id[c] \in 0 .. NClients
    BY <1>5, IdRanges DEF ClientIds
  <2> QED
    <3>1. cl' = [cl EXCEPT ![c].id = id[c]] /\ cl \in [Conns -> ClientType]
      BY <1>1, <1>5 DEF BaseInv, ServerType
    <3>2. [cl[c] EXCEPT !.id = id[c]] \in ClientType
      BY <2>1, <3>1 DEF ClientType
    <3> QED
      BY <3>1, <3>2
<1>7. \A j \in 1 .. 3 : inbox[c][j].t \notin {"peer", "gone"}
  <2>1. inbox[c][3].t = "mailbox"
    BY <1>1 DEF Mailbox, Msg
  <2>2. \A j \in 1 .. 2 : inbox[c][j].t \in {"version", "id"}
    BY <1>2, <2>1 DEF BaseInv, HeadInv, Heads
  <2>3. \A j \in 1 .. 3 : j \in 1 .. 2 \/ j = 3
    OBVIOUS
  <2> QED
    BY <2>1, <2>2, <2>3
<1> QED
  BY <1>1, <1>2, <1>3, <1>4, <1>5, <1>6, <1>7

\* The steps of a client that read nothing.
LEMMA IdleFacts ==
    ASSUME ServerType, NEW c \in Conns,
           \/ Start(c) \/ Kill(c) \/ Quit(c) \/ Command(c)
           \/ \E k \in 1 .. 3 : DataRejected(c, k)
    PROVE  /\ UNCHANGED <<conn, id, en, clients, recycled, inbox, missed>>
           /\ named' \subseteq named
           /\ cl' \in [Conns -> ClientType]
           /\ \A d \in Conns : /\ cl'[d].id = cl[d].id /\ cl'[d].fd = cl[d].fd
                               /\ cl'[d].EN = cl[d].EN
                               /\ cl'[d].firstpass = cl[d].firstpass
           /\ \/ proc' = proc
              \/ proc[c] = "none" /\ proc' = [proc EXCEPT ![c] = "up"]
              \/ /\ Alive(c) /\ proc' \in {[proc EXCEPT ![c] = "stopped"],
                                           [proc EXCEPT ![c] = "crashed"]}
                 /\ conn[c] # "new" \/ DiesUnaccepted \/ inbox[c] # <<>>
<1>1. CASE Start(c)
  BY <1>1 DEF Start, ServerType
<1>2. CASE Kill(c) \/ Quit(c)
  BY <1>2 DEF Kill, Quit, HangUp, MayStop, clear_mailslot, ServerType
<1>3. CASE Command(c)
  <2> DEFINE N == {i \in 1 .. Server : cl[c].fd[i] # Null}
  <2>1. cl' = [cl EXCEPT ![c].names = N] /\ N \in SUBSET (1 .. Server)
        /\ UNCHANGED <<conn, id, en, clients, recycled, named, inbox, proc, missed>>
    BY <1>3 DEF Command
  <2> HIDE DEF N
  <2>2. \A d \in Conns : cl[d] \in ClientType
    BY DEF ServerType
  <2>3. [cl[c] EXCEPT !.names = N] \in ClientType
    BY <2>1, <2>2 DEF ClientType
  <2>4. cl' \in [Conns -> ClientType]
    BY <2>1, <2>3 DEF ServerType
  <2>5. \A d \in Conns : /\ cl'[d].id = cl[d].id /\ cl'[d].fd = cl[d].fd
                         /\ cl'[d].EN = cl[d].EN /\ cl'[d].firstpass = cl[d].firstpass
    BY <2>1, <2>2 DEF ServerType, ClientType
  <2> QED
    BY <2>1, <2>4, <2>5
<1>4. CASE \E k \in 1 .. 3 : DataRejected(c, k)
  <2>1. PICK k \in 1 .. 3 : DataRejected(c, k)
    BY <1>4
  <2>2. Alive(c) /\ inbox[c] # <<>>
    BY <2>1 DEF DataRejected, Chunk
  <2> QED
    BY <2>1, <2>2 DEF DataRejected, HangUp, clear_mailslot, ServerType
<1> QED
  BY <1>1, <1>2, <1>3, <1>4

LEMMA BaseInit == Init => BaseInv
<1> SUFFICES ASSUME Init PROVE BaseInv
  OBVIOUS
<1>1. NewClient \in ClientType
  BY IdRanges DEF NewClient, ClientType, NoId
<1>2. ServerType
  BY <1>1, IdRanges, EmptySeq DEF Init, ServerType, ClientIds, NoId, Rejected
<1> QED
  BY <1>2 DEF Init, BaseInv, FreshInv, HeadInv, Heads

\* What comes later in a stream is neither the id nor the mailbox.
LEMMA AppendHead ==
    ASSUME NEW s \in Seq(Messages), NEW m \in Messages, m.t \notin {"id", "mailbox"},
           NEW i, Heads(s, i)
    PROVE  /\ Heads(Append(s, m), i)
           /\ \A k \in 1 .. Len(Append(s, m)) : Append(s, m)[k].t = "id" =>
                k \in 1 .. Len(s) /\ s[k].t = "id"
<1>1. /\ Len(s) \in Nat /\ Len(Append(s, m)) = Len(s) + 1
      /\ \A j \in 1 .. Len(s) : Append(s, m)[j] = s[j]
      /\ Append(s, m)[Len(s) + 1] = m
  BY AppendProperties, LenProperties
<1>2. \A k \in 1 .. Len(Append(s, m)) : Append(s, m)[k].t \in {"id", "mailbox"} =>
        k \in 1 .. Len(s)
  BY <1>1
<1>3. \A k \in 1 .. Len(s) : \A j \in 1 .. k - 1 : Append(s, m)[j] = s[j]
  BY <1>1
<1> QED
  BY <1>1, <1>2, <1>3 DEF Heads

LEMMA IntroHead ==
    ASSUME NEW c \in Conns, NEW i \in ClientIds, NEW e \in Fds,
           NEW others \in Seq(OtherPeers), others \in Seq(Messages)
    PROVE  Heads(Intro(c, i, e, others), i)
<1> DEFINE s == Intro(c, i, e, others)
           n == Len(others)
<1>1. /\ n \in Nat /\ Len(s) = n + 5
      /\ s[1] = Version(0) /\ s[2] = YourId(i) /\ s[3] = Mailbox
      /\ \A k \in 1 .. n : s[k + 3] = others[k]
      /\ s[n + 4] = Peer(Server, Server) /\ s[n + 5] = Peer(i, e)
  BY IntroShape
<1>2. \A k \in 1 .. n : others[k].t = "peer"
  <2> SUFFICES ASSUME NEW k \in 1 .. n PROVE others[k].t = "peer"
    OBVIOUS
  <2>1. others[k] \in OtherPeers
    BY ElementOfSeq
  <2> QED
    BY <2>1 DEF OtherPeers, Peer, Msg
<1> HIDE DEF s
<1>3. /\ s[1].t = "version" /\ s[2].t = "id" /\ s[2].id = i /\ s[3].t = "mailbox"
      /\ s[n + 4].t = "peer" /\ s[n + 5].t = "peer"
  BY <1>1 DEF Version, YourId, Mailbox, Peer, Msg
<1>4. \A k \in 4 .. n + 3 : s[k].t = "peer"
  <2> SUFFICES ASSUME NEW k \in 4 .. n + 3 PROVE s[k].t = "peer"
    OBVIOUS
  <2>1. k - 3 \in 1 .. n /\ (k - 3) + 3 = k
    BY <1>1
  <2> QED
    BY <1>1, <1>2, <2>1
<1>5. \A k \in 1 .. Len(s) : k \in {1, 2, 3} \/ s[k].t = "peer"
  BY <1>1, <1>3, <1>4
<1>6. Heads(s, i)
  BY <1>1, <1>3, <1>5 DEF Heads
<1> QED
  BY <1>6 DEF s

LEMMA BaseStep == BaseInv /\ [Next]_vars => BaseInv'
<1> SUFFICES ASSUME BaseInv, [Next]_vars PROVE BaseInv'
  OBVIOUS
<1> USE IdFacts, IdRanges
<1>t. ServerType /\ FreshInv /\ HeadInv
  BY DEF BaseInv
<1>1. ASSUME NEW c \in Conns, NEW i \in ClientIds \cup {Rejected},
             NEW ok \in BOOLEAN, ConnectionMade(c, i, ok)
      PROVE  BaseInv'
  <2>0. /\ conn[c] = "new" /\ id[c] = NoId /\ inbox[c] = <<>> /\ proc[c] # "none"
        /\ i \in NewIds /\ UNCHANGED <<named, proc, cl, missed>>
        /\ conn' = [conn EXCEPT ![c] = "made"]
        /\ recycled' \in [ClientIds \cup {Rejected} -> Conns \cup {Null}]
    BY <1>1, <1>t DEF ConnectionMade, ServerType, FreshInv
  <2>m. c \notin Members /\ \A j \in ClientIds : clients[j] # c
    BY <1>t, <2>0 DEF FreshInv, Members
  <2>1. CASE Refuse(c)
    <3>1. /\ id' = [id EXCEPT ![c] = Rejected] /\ en' = en /\ clients' = clients
          /\ inbox' = [inbox EXCEPT ![c] = <<Version(-1)>>]
      BY <2>1 DEF Refuse
    <3>2. <<Version(-1)>> \in Seq(Messages)
      BY MessageTypes
    <3>3. ServerType'
      BY <1>t, <2>0, <3>1, <3>2 DEF ServerType
    <3>4. FreshInv'
      BY <1>t, <2>0, <2>m, <3>1 DEF ServerType, FreshInv
    <3>5. Len(<<Version(-1)>>) = 1 /\ <<Version(-1)>>[1].t = "version"
      BY DEF Version, Msg
    <3>6. HeadInv'
      BY <1>t, <2>0, <3>1, <3>5 DEF ServerType, HeadInv, Heads, Alive
    <3> QED
      BY <3>3, <3>4, <3>6 DEF BaseInv
  <2>2. CASE i # Rejected /\ Admit(c, i) /\ ~ Alive(c)
    <3>1. /\ i \in ClientIds /\ inbox' = inbox /\ clients' = clients
          /\ id' = [id EXCEPT ![c] = i] /\ en' \in [Conns -> Conns \cup {Null}]
      BY <1>t, <2>2 DEF Admit, ServerType
    <3>3. ServerType'
      BY <1>t, <2>0, <3>1 DEF ServerType
    <3>4. FreshInv'
      BY <1>t, <2>0, <2>m, <3>1 DEF ServerType, FreshInv
    <3>6. HeadInv'
      BY <1>t, <2>0, <2>2, <3>1 DEF ServerType, HeadInv, Alive
    <3> QED
      BY <3>3, <3>4, <3>6 DEF BaseInv
  <2>3. CASE i # Rejected /\ Admit(c, i) /\ Alive(c)
    <3>0. i \in ClientIds
      BY <2>3
    <3>1. PICK e \in Conns \cup {Null}, others \in SetToSeqs(OtherPeers) :
             /\ e = IF recycled[i] # Null THEN en[recycled[i]] ELSE c
             /\ id' = [id EXCEPT ![c] = i] /\ en' = [en EXCEPT ![c] = e]
             /\ clients' = [clients EXCEPT ![i] = c]
             /\ others \in Seq(Messages)
             /\ inbox' \in [Conns -> Seq(Messages)]
             /\ inbox'[c] = Intro(c, i, e, others)
             /\ \A d \in Conns \ {c} :
                  inbox'[d] = IF d \in Members /\ recycled[i] = Null
                              THEN Append(inbox[d], Peer(i, e)) ELSE inbox[d]
      <4>1. Admit(c, i) /\ Alive(c) /\ ServerType
        BY <1>t, <2>3
      <4> QED
        BY <3>0, <4>1, AdmitFacts, Zenon
    <3>2. Heads(inbox'[c], i)
      <4>1. e \in Fds /\ others \in Seq(Messages) /\ others \in Seq(OtherPeers)
        BY <3>1, Others DEF Fds
      <4> QED
        BY <3>0, <3>1, <4>1, IntroHead
    <3>3. ServerType'
      BY <1>t, <2>0, <3>0, <3>1 DEF ServerType
    <3>4. FreshInv'
      <4>1. \A d \in Conns : conn'[d] = "new" => id'[d] = NoId /\ inbox'[d] = <<>>
        <5> SUFFICES ASSUME NEW d \in Conns, conn'[d] = "new"
                     PROVE  id'[d] = NoId /\ inbox'[d] = <<>>
          OBVIOUS
        <5>1. d # c /\ conn[d] = "new"
          BY <1>t, <2>0 DEF ServerType
        <5>2. d \notin Members
          BY <1>t, <5>1 DEF FreshInv, Members
        <5> QED
          BY <1>t, <3>1, <5>1, <5>2 DEF FreshInv, ServerType
      <4>2. \A d \in Conns : conn'[d] # "new" => id'[d] # NoId /\ proc'[d] # "none"
        BY <1>t, <2>0, <3>0, <3>1 DEF FreshInv, ServerType
      <4>3. \A j \in ClientIds : clients'[j] # Null =>
              conn'[clients'[j]] = "made" /\ id'[clients'[j]] = j
        BY <1>t, <2>0, <2>m, <3>0, <3>1 DEF FreshInv, ServerType
      <4> QED
        BY <4>1, <4>2, <4>3 DEF FreshInv
    <3>5. HeadInv'
      <4> SUFFICES ASSUME NEW d \in Conns, Alive(d)'
                   PROVE  /\ Heads(inbox'[d], id'[d])
                          /\ \A k \in 1 .. Len(inbox'[d]) : inbox'[d][k].t = "id" =>
                               id'[d] \in ClientIds /\ conn'[d] = "made"
        BY DEF HeadInv
      <4>1. CASE d = c
        <5>1. id'[d] = i /\ conn'[d] = "made"
          BY <1>t, <2>0, <3>1, <4>1 DEF ServerType
        <5> QED
          BY <3>0, <3>2, <4>1, <5>1
      <4>2. CASE d # c
        <5>1. Alive(d) /\ id'[d] = id[d] /\ conn'[d] = conn[d]
          BY <1>t, <2>0, <3>1, <4>2 DEF Alive, ServerType
        <5>2. CASE inbox'[d] = inbox[d]
          BY <1>t, <5>1, <5>2 DEF HeadInv
        <5>3. CASE inbox'[d] = Append(inbox[d], Peer(i, e))
          <6>1. /\ Peer(i, e) \in Messages /\ Peer(i, e).t \notin {"id", "mailbox"}
                /\ inbox[d] \in Seq(Messages)
            BY <1>t, <3>0, MessageTypes DEF Peer, Msg, Fds, ServerType
          <6>2. Heads(inbox[d], id[d])
            BY <1>t, <5>1 DEF HeadInv
          <6>3. /\ Heads(inbox'[d], id[d])
                /\ \A k \in 1 .. Len(inbox'[d]) : inbox'[d][k].t = "id" =>
                     k \in 1 .. Len(inbox[d]) /\ inbox[d][k].t = "id"
            BY <5>3, <6>1, <6>2, AppendHead
          <6> QED
            BY <1>t, <5>1, <6>3 DEF HeadInv
        <5> QED
          BY <3>1, <4>2, <5>2, <5>3
      <4> QED
        BY <4>1, <4>2
    <3> QED
      BY <3>3, <3>4, <3>5 DEF BaseInv
  <2> QED
    BY <1>1, <2>1, <2>2, <2>3 DEF ConnectionMade
<1>2. ASSUME NEW c \in Conns, ConnectionLost(c) PROVE BaseInv'
  <2> DEFINE Told(d) == ~ Recycle /\ \E i \in ClientIds \ {id[c]} : clients[i] = d
  <2>0. /\ conn[c] = "made" /\ (~ Alive(c) \/ id[c] = Rejected)
        /\ id[c] \in ClientIds \cup {Rejected}
        /\ conn' = [conn EXCEPT ![c] = "lost"]
        /\ clients' = [i \in ClientIds |-> IF i = id[c] THEN Null ELSE clients[i]]
        /\ UNCHANGED <<id, en, proc, cl, missed>>
        /\ inbox' \in [Conns -> Seq(Messages)]
        /\ \A d \in Conns : inbox'[d] =
             IF Told(d) THEN Append(inbox[d], Gone(id[c])) ELSE inbox[d]
        /\ recycled' \in {recycled, [recycled EXCEPT ![id[c]] = c]}
        /\ named' \subseteq named
    <3>1. CASE Recycle
      BY <1>2, <1>t, <3>1, LostFacts
    <3>2. CASE ~ Recycle
      BY <1>2, <1>t, <3>2, LostFacts
    <3> QED
      BY <3>1, <3>2
  <2>1. \A d \in Conns : Told(d) => conn[d] = "made"
    BY <1>t DEF FreshInv
  <2> HIDE DEF Told
  <2>2. ServerType'
    <3>1. recycled' \in [ClientIds \cup {Rejected} -> Conns \cup {Null}]
      BY <1>t, <2>0, ZenonT(60) DEF ServerType
    <3>2. clients' \in [ClientIds -> Conns \cup {Null}]
      BY <1>t, <2>0 DEF ServerType
    <3> QED
      BY <1>t, <2>0, <3>1, <3>2 DEF ServerType
  <2>3. FreshInv'
    <3>1. \A d \in Conns : conn'[d] = "new" => id'[d] = NoId /\ inbox'[d] = <<>>
      BY <1>t, <2>0, <2>1 DEF FreshInv, ServerType
    <3>2. \A d \in Conns : conn'[d] # "new" => id'[d] # NoId /\ proc'[d] # "none"
      BY <1>t, <2>0 DEF FreshInv, ServerType
    <3>3. \A j \in ClientIds : clients'[j] # Null =>
            conn'[clients'[j]] = "made" /\ id'[clients'[j]] = j
      BY <1>t, <2>0 DEF FreshInv, ServerType
    <3> QED
      BY <3>1, <3>2, <3>3 DEF FreshInv
  <2>4. HeadInv'
    <3> SUFFICES ASSUME NEW d \in Conns, Alive(d)'
                 PROVE  /\ Heads(inbox'[d], id'[d])
                        /\ \A k \in 1 .. Len(inbox'[d]) : inbox'[d][k].t = "id" =>
                             id'[d] \in ClientIds /\ conn'[d] = "made"
      BY DEF HeadInv
    <3>1. Alive(d) /\ id'[d] = id[d] /\ Heads(inbox[d], id[d])
      BY <1>t, <2>0 DEF Alive, HeadInv
    <3>2. /\ Heads(inbox'[d], id[d])
          /\ \A k \in 1 .. Len(inbox'[d]) : inbox'[d][k].t = "id" =>
               id[d] \in ClientIds /\ conn[d] = "made"
      <4>2. CASE inbox'[d] = inbox[d]
        BY <1>t, <3>1, <4>2 DEF HeadInv
      <4>3. CASE inbox'[d] = Append(inbox[d], Gone(id[c]))
        <5>1. /\ Gone(id[c]) \in Messages /\ Gone(id[c]).t \notin {"id", "mailbox"}
              /\ inbox[d] \in Seq(Messages)
          BY <1>t, <2>0, MessageTypes DEF Gone, Msg, ServerType
        <5>2. /\ Heads(inbox'[d], id[d])
              /\ \A k \in 1 .. Len(inbox'[d]) : inbox'[d][k].t = "id" =>
                   k \in 1 .. Len(inbox[d]) /\ inbox[d][k].t = "id"
          BY <3>1, <4>3, <5>1, AppendHead
        <5> QED
          BY <1>t, <3>1, <5>2 DEF HeadInv
      <4> QED
        BY <2>0, <4>2, <4>3
    <3>3. ASSUME NEW k \in 1 .. Len(inbox'[d]), inbox'[d][k].t = "id"
          PROVE  id'[d] \in ClientIds /\ conn'[d] = "made"
      <4>1. d # c
        BY <2>0, <3>1, <3>2, <3>3
      <4> QED
        BY <1>t, <2>0, <3>1, <3>2, <3>3, <4>1 DEF ServerType
    <3> QED
      BY <3>1, <3>2, <3>3
  <2> QED
    BY <2>2, <2>3, <2>4 DEF BaseInv
<1>3. ASSUME NEW c \in Conns,
             \/ Start(c) \/ Kill(c) \/ Quit(c) \/ Command(c)
             \/ \E k \in 1 .. 3 : DataRejected(c, k)
      PROVE  BaseInv'
  <2>0. /\ UNCHANGED <<conn, id, en, clients, recycled, inbox, missed>>
        /\ named' \subseteq named
        /\ cl' \in [Conns -> ClientType]
        /\ \A d \in Conns : cl'[d].id = cl[d].id
        /\ \/ proc' = proc
           \/ proc[c] = "none" /\ proc' = [proc EXCEPT ![c] = "up"]
           \/ proc' \in {[proc EXCEPT ![c] = "stopped"], [proc EXCEPT ![c] = "crashed"]}
    BY <1>3, <1>t, IdleFacts
  <2>1. ServerType'
    BY <1>t, <2>0 DEF ServerType
  <2>2. FreshInv'
    BY <1>t, <2>0 DEF FreshInv, ServerType
  <2>3. HeadInv'
    <3>1. \A d \in Conns : Alive(d)' => Alive(d) \/ inbox[d] = <<>>
      BY <1>t, <2>0 DEF Alive, FreshInv, ServerType
    <3> QED
      BY <1>t, <2>0, <3>1 DEF HeadInv, Heads
  <2> QED
    BY <2>1, <2>2, <2>3 DEF BaseInv
<1>4. ASSUME NEW c \in Conns, NEW k \in 1 .. 3,
             InitialInfo(c, k) \/ PeerBatch(c) \/ PeerGone(c)
      PROVE  BaseInv'
  <2>0. /\ UNCHANGED <<conn, id, en, clients, recycled, proc, missed>>
        /\ named' \subseteq ClientIds
        /\ cl' \in [Conns -> ClientType]
        /\ \A d \in Conns \ {c} : cl'[d] = cl[d]
        /\ ~ Starting(c)' /\ inbox[c] # <<>>
        /\ inbox' \in [Conns -> Seq(Messages)]
        /\ \A d \in Conns \ {c} : inbox'[d] = inbox[d]
        /\ \E n \in Nat \ {0} :
             /\ n <= Len(inbox[c]) /\ Len(inbox'[c]) = Len(inbox[c]) - n
             /\ \A j \in 1 .. Len(inbox'[c]) : inbox'[c][j] = inbox[c][j + n]
    <3>1. CASE InitialInfo(c, k)
      <4>1. /\ Consume(c, 3) /\ 3 <= Len(inbox[c])
            /\ id[c] \in ClientIds /\ named' = named \cup {id[c]}
            /\ UNCHANGED <<conn, id, en, clients, recycled, proc, missed>>
            /\ cl' = [cl EXCEPT ![c].id = id[c]] /\ cl' \in [Conns -> ClientType]
        BY <3>1, InfoFacts
      <4>2. /\ inbox' \in [Conns -> Seq(Messages)]
            /\ \A d \in Conns \ {c} : inbox'[d] = inbox[d]
            /\ Len(inbox'[c]) = Len(inbox[c]) - 3
            /\ \A j \in 1 .. Len(inbox'[c]) : inbox'[c][j] = inbox[c][j + 3]
        BY <1>t, <4>1, ConsumeFacts
      <4>3. cl'[c].id = id[c] /\ \A d \in Conns \ {c} : cl'[d] = cl[d]
        BY <1>t, <4>1 DEF ServerType, ClientType
      <4>4. inbox[c] # <<>>
        BY <4>1
      <4> QED
        <5>1. 3 \in Nat \ {0}
          OBVIOUS
        <5> QED
          BY <1>t, <4>1, <4>2, <4>3, <4>4, <5>1 DEF ServerType, Starting
    <3>2. CASE PeerBatch(c) \/ PeerGone(c)
      <4>1. /\ UNCHANGED <<conn, id, en, clients, recycled, named, proc, missed>>
            /\ cl' \in [Conns -> ClientType] /\ ~ Starting(c) /\ inbox[c] # <<>>
            /\ \A d \in Conns \ {c} : cl'[d] = cl[d]
            /\ cl'[c].id = cl[c].id
        <5>1. CASE PeerBatch(c)
          BY <1>t, <5>1, BatchFacts
        <5>2. CASE PeerGone(c)
          BY <1>t, <5>2, GoneFacts
        <5> QED
          BY <3>2, <5>1, <5>2
      <4>2. Consume(c, 1) /\ 1 <= Len(inbox[c])
        <5>1. Consume(c, 1) /\ Chunk(c, 1)
          BY <3>2 DEF PeerBatch, PeerGone
        <5> QED
          BY <5>1 DEF Chunk
      <4>3. /\ inbox' \in [Conns -> Seq(Messages)]
            /\ \A d \in Conns \ {c} : inbox'[d] = inbox[d]
            /\ Len(inbox'[c]) = Len(inbox[c]) - 1
            /\ \A j \in 1 .. Len(inbox'[c]) : inbox'[c][j] = inbox[c][j + 1]
        BY <1>t, <4>2, ConsumeFacts
      <4> QED
        <5>1. 1 \in Nat \ {0}
          OBVIOUS
        <5> QED
          BY <1>t, <4>1, <4>2, <4>3, <5>1 DEF ServerType, Starting
    <3> QED
      BY <1>4, <3>1, <3>2
  <2>1. ServerType'
    BY <1>t, <2>0 DEF ServerType
  <2>2. FreshInv'
    BY <1>t, <2>0 DEF FreshInv, ServerType
  <2>3. HeadInv'
    <3>1. PICK n \in Nat \ {0} :
             /\ n <= Len(inbox[c]) /\ Len(inbox'[c]) = Len(inbox[c]) - n
             /\ \A j \in 1 .. Len(inbox'[c]) : inbox'[c][j] = inbox[c][j + n]
      BY <2>0
    <3>2. Len(inbox[c]) \in Nat
      BY <1>t, LenProperties DEF ServerType
    <3>3. ASSUME NEW l \in 1 .. Len(inbox'[c])
          PROVE  /\ l + n \in 1 .. Len(inbox[c])
                 /\ \A j \in 1 .. l - 1 : /\ j + n \in 1 .. (l + n) - 1
                                          /\ inbox'[c][j] = inbox[c][j + n]
      <4>1. n \in Nat /\ 1 <= n
        OBVIOUS
      <4> QED
        BY <3>1, <3>2, <4>1
    <3>4. ASSUME Heads(inbox[c], id[c]) PROVE Heads(inbox'[c], id[c])
      <4> SUFFICES ASSUME NEW l \in 1 .. Len(inbox'[c])
                   PROVE  /\ inbox'[c][l].t = "id" => inbox'[c][l].id = id[c]
                          /\ inbox'[c][l].t = "mailbox" =>
                               \A j \in 1 .. l - 1 : inbox'[c][j].t \in {"version", "id"}
        BY DEF Heads
      <4>1. inbox'[c][l] = inbox[c][l + n] /\ l + n \in 1 .. Len(inbox[c])
        BY <3>1, <3>3
      <4>2. \A j \in 1 .. l - 1 : j + n \in 1 .. (l + n) - 1 /\ inbox'[c][j] = inbox[c][j + n]
        BY <3>3
      <4> QED
        BY <3>4, <4>1, <4>2 DEF Heads
    <3>5. \A d \in Conns : Alive(d)' => Alive(d)
      BY <2>0 DEF Alive
    <3>6. Alive(c) => \A l \in 1 .. Len(inbox'[c]) : inbox'[c][l].t = "id" =>
                        id[c] \in ClientIds /\ conn[c] = "made"
      BY <1>t, <3>1, <3>3 DEF HeadInv
    <3> QED
      BY <1>t, <2>0, <3>4, <3>5, <3>6 DEF HeadInv
  <2> QED
    BY <2>1, <2>2, <2>3 DEF BaseInv
<1>5. ASSUME NEW c \in Conns, NEW k \in 1 .. Len(inbox[c]), SendFails(c, k) PROVE BaseInv'
  <2>0. /\ UNCHANGED <<conn, id, en, clients, recycled, named, proc, cl>> /\ Alive(c)
        /\ inbox' \in [Conns -> Seq(Messages)] /\ inbox[c] # <<>> /\ missed' \subseteq Lossy
        /\ Len(inbox'[c]) \in {Len(inbox[c]), Len(inbox[c]) - 1}
        /\ \A d \in Conns \ {c} : inbox'[d] = inbox[d]
        /\ \A j \in 1 .. Len(inbox'[c]) :
             /\ Before(c, j, k) \in 1 .. Len(inbox[c])
             /\ inbox'[c][j].t = inbox[c][Before(c, j, k)].t
             /\ inbox'[c][j].id = inbox[c][Before(c, j, k)].id
    BY <1>5, <1>t, SendFacts
  <2>1. ServerType'
    BY <1>t, <2>0 DEF ServerType
  <2>2. FreshInv'
    BY <1>t, <2>0 DEF FreshInv, ServerType
  <2>3. HeadInv'
    <3>1. \A i \in 1 .. Len(inbox'[c]) : \A j \in 1 .. i - 1 :
            j \in 1 .. Len(inbox'[c]) /\ Before(c, j, k) \in 1 .. Before(c, i, k) - 1
      <4>1. Len(inbox'[c]) \in Nat /\ Len(inbox[c]) \in Nat
        BY <1>t, <2>1, LenProperties DEF ServerType
      <4>2. ASSUME NEW i \in 1 .. Len(inbox'[c]), NEW j \in 1 .. i - 1
            PROVE  j \in 1 .. Len(inbox'[c]) /\ Before(c, j, k) \in 1 .. Before(c, i, k) - 1
        <5>1. i \in Nat /\ j \in Nat /\ 1 <= j /\ j < i /\ i <= Len(inbox'[c]) /\ k \in Nat
          BY <4>1
        <5>2. Before(c, j, k) \in Nat /\ Before(c, i, k) \in Nat
              /\ 1 <= Before(c, j, k) /\ Before(c, j, k) < Before(c, i, k)
          BY <5>1 DEF Before
        <5> QED
          BY <4>1, <5>1, <5>2
      <4> QED
        BY <4>2
    <3>2. Heads(inbox[c], id[c])
      BY <1>t, <2>0 DEF HeadInv
    <3>3. Heads(inbox'[c], id[c])
      <4> SUFFICES ASSUME NEW l \in 1 .. Len(inbox'[c])
                   PROVE  /\ inbox'[c][l].t = "id" => inbox'[c][l].id = id[c]
                          /\ inbox'[c][l].t = "mailbox" =>
                               \A j \in 1 .. l - 1 : inbox'[c][j].t \in {"version", "id"}
        BY DEF Heads
      <4>1. /\ Before(c, l, k) \in 1 .. Len(inbox[c])
            /\ inbox'[c][l].t = inbox[c][Before(c, l, k)].t
            /\ inbox'[c][l].id = inbox[c][Before(c, l, k)].id
        BY <2>0
      <4>2. \A j \in 1 .. l - 1 : /\ Before(c, j, k) \in 1 .. Before(c, l, k) - 1
                                  /\ inbox'[c][j].t = inbox[c][Before(c, j, k)].t
        BY <2>0, <3>1
      <4> QED
        BY <3>2, <4>1, <4>2 DEF Heads
    <3>4. \A j \in 1 .. Len(inbox'[c]) : inbox'[c][j].t = "id" =>
            id[c] \in ClientIds /\ conn[c] = "made"
      BY <1>t, <2>0 DEF HeadInv
    <3> QED
      BY <1>t, <2>0, <3>3, <3>4 DEF HeadInv, Alive
  <2> QED
    BY <2>1, <2>2, <2>3 DEF BaseInv
<1>6. CASE UNCHANGED vars
  BY <1>t, <1>6 DEF vars, BaseInv, ServerType, FreshInv, HeadInv, Alive
<1> QED
  BY <1>1, <1>2, <1>3, <1>4, <1>5, <1>6 DEF Next, ServerStep, DataReceived

\* Whatever clients do, ids stay in range, the mailslots named are those of
\* clients, and every table holds eventfds that the server has created.
THEOREM ServerTypeTheorem == Spec => []TypeOK
<1>1. BaseInv => TypeOK
  <2> SUFFICES ASSUME BaseInv PROVE TypeOK
    OBVIOUS
  <2>1. \A c \in Conns : \A k \in DOMAIN inbox[c] : inbox[c][k] \in Messages
    BY DEF BaseInv, ServerType
  <2>2. \A m \in Messages : m.en \in Conns \cup {Server, Torn, Null}
    BY DEF Messages, Fds
  <2> QED
    BY <2>1, <2>2 DEF BaseInv, ServerType, TypeOK
<1> QED
  BY BaseInit, BaseStep, <1>1, PTL DEF Spec

-------------------------------------------------------------------------------
(* Without recycling: the nodenames in the mailslots *)

NameInv == \A i \in named : \E c \in Conns : id[c] = i /\ conn[c] = "made"

LEMMA NameStep == ASSUME ~ Recycle, BaseInv, NameInv, [Next]_vars PROVE NameInv'
<1>t. ServerType /\ FreshInv
  BY DEF BaseInv
<1>1. ASSUME NEW c \in Conns, NEW i \in ClientIds \cup {Rejected},
             NEW ok \in BOOLEAN, ConnectionMade(c, i, ok)
      PROVE  NameInv'
  <2>1. conn[c] = "new" /\ conn' = [conn EXCEPT ![c] = "made"] /\ named' = named
    BY <1>1 DEF ConnectionMade
  <2>2. \A d \in Conns \ {c} : id'[d] = id[d]
    BY <1>1, <1>t DEF ConnectionMade, Refuse, Admit, ServerType
  <2> QED
    BY <1>t, <2>1, <2>2 DEF NameInv, ServerType
<1>2. ASSUME NEW c \in Conns, ConnectionLost(c) PROVE NameInv'
  <2>1. conn' = [conn EXCEPT ![c] = "lost"] /\ id' = id /\ named' = named \ {id[c]}
    BY <1>2, <1>t, LostFacts
  <2> QED
    BY <1>t, <2>1 DEF NameInv, ServerType
<1>3. ASSUME NEW c \in Conns,
             \/ Start(c) \/ Kill(c) \/ Quit(c) \/ Command(c)
             \/ \E k \in 1 .. 3 : DataRejected(c, k)
      PROVE  NameInv'
  <2>1. conn' = conn /\ id' = id /\ named' \subseteq named
    BY <1>3, <1>t, IdleFacts
  <2> QED
    BY <2>1 DEF NameInv
<1>4. ASSUME NEW c \in Conns, NEW k \in 1 .. 3, InitialInfo(c, k) PROVE NameInv'
  <2>1. conn' = conn /\ id' = id /\ named' = named \cup {id[c]} /\ conn[c] = "made"
    BY <1>4, InfoFacts
  <2> QED
    BY <2>1 DEF NameInv
<1>5. ASSUME NEW c \in Conns, PeerBatch(c) \/ PeerGone(c) PROVE NameInv'
  <2>1. UNCHANGED <<conn, id, named>>
    BY <1>5 DEF PeerBatch, PeerGone
  <2> QED
    BY <2>1 DEF NameInv
<1>6. ASSUME NEW c \in Conns, NEW k \in 1 .. Len(inbox[c]), SendFails(c, k) PROVE NameInv'
  <2>1. UNCHANGED <<conn, id, named>>
    BY <1>6 DEF SendFails
  <2> QED
    BY <2>1 DEF NameInv
<1>7. CASE UNCHANGED vars
  BY <1>7 DEF vars, NameInv
<1> QED
  BY <1>1, <1>2, <1>3, <1>4, <1>5, <1>6, <1>7 DEF Next, ServerStep, DataReceived

\* clear_mailslot in connectionLost, and _init_mailslot in a client that may run
\* at any time before: no slot keeps the nodename of a peer that has died.
THEOREM DeadSlotTheorem == Spec => []DeadSlotCleared
<1>1. CASE Recycle
  <2>1. DeadSlotCleared
    BY <1>1 DEF DeadSlotCleared
  <2> QED
    BY <2>1, PTL
<1>2. CASE ~ Recycle
  <2>1. Init => BaseInv /\ NameInv
    BY BaseInit DEF Init, NameInv
  <2>2. BaseInv /\ NameInv /\ [Next]_vars => (BaseInv /\ NameInv)'
    BY <1>2, BaseStep, NameStep
  <2>3. NameInv => DeadSlotCleared
    BY DEF NameInv, DeadSlotCleared
  <2> QED
    BY <2>1, <2>2, <2>3, PTL DEF Spec
<1> QED
  BY <1>1, <1>2

-------------------------------------------------------------------------------
(***************************************************************************)
(* With recycling: the eventfds stay with the id.  A client that was never *)
(* told of the new holder has them already, because every holder of an id  *)
(* reads the same ones: the former holder is in SI.recycled until then.    *)
(***************************************************************************)

EnInv ==
    /\ \A c, d \in Conns : (id[c] = id[d] /\ id[c] \in ClientIds) => en[c] = en[d]
    /\ \A c \in Conns : id[c] \in ClientIds =>
         clients[id[c]] # Null \/ recycled[id[c]] # Null
    /\ \A i \in ClientIds : recycled[i] # Null => id[recycled[i]] = i

\* The ids that have ever been given out, each with its eventfds.
Given == {<<id[c], en[c]>> : c \in {d \in Conns : id[d] \in ClientIds}}
Right(m, G) == (m.t = "peer" /\ m.id \in ClientIds /\ m.en # Torn) => <<m.id, m.en>> \in G
AllRight(s, G) == \A k \in 1 .. Len(s) : Right(s[k], G)
TableRight(f, G) == \A i \in ClientIds : f[i] \notin {Null, Torn} => <<i, f[i]>> \in G

ToldInv == \A c \in Conns : /\ AllRight(inbox[c], Given)
                            /\ TableRight(cl[c].fd, Given) /\ TableRight(cl[c].EN, Given)

LEMMA AppendRight ==
    ASSUME NEW s \in Seq(Messages), NEW m \in Messages, NEW G,
           AllRight(s, G), Right(m, G)
    PROVE  AllRight(Append(s, m), G)
<1>1. /\ Len(s) \in Nat /\ Len(Append(s, m)) = Len(s) + 1
      /\ \A i \in 1 .. Len(s) : Append(s, m)[i] = s[i]
      /\ Append(s, m)[Len(s) + 1] = m
  BY AppendProperties, LenProperties
<1> SUFFICES ASSUME NEW k \in 1 .. Len(Append(s, m)) PROVE Right(Append(s, m)[k], G)
  BY DEF AllRight
<1>2. CASE k = Len(s) + 1
  BY <1>1, <1>2
<1>3. CASE k # Len(s) + 1
  <2>1. k \in 1 .. Len(s)
    BY <1>1, <1>3
  <2> QED
    BY <1>1, <2>1 DEF AllRight
<1> QED
  BY <1>2, <1>3

LEMMA IntroRight ==
    ASSUME NEW c \in Conns, NEW i \in ClientIds, NEW e \in Fds, NEW G,
           NEW others \in Seq(Messages), AllRight(others, G), <<i, e>> \in G
    PROVE  AllRight(Intro(c, i, e, others), G)
<1> DEFINE s == Intro(c, i, e, others)
           n == Len(others)
<1>1. /\ n \in Nat /\ Len(s) = n + 5
      /\ s[1] = Version(0) /\ s[2] = YourId(i) /\ s[3] = Mailbox
      /\ \A k \in 1 .. n : s[k + 3] = others[k]
      /\ s[n + 4] = Peer(Server, Server) /\ s[n + 5] = Peer(i, e)
  BY IntroShape
<1> HIDE DEF s
<1> SUFFICES ASSUME NEW k \in 1 .. n + 5 PROVE Right(s[k], G)
  BY <1>1 DEF AllRight, s
<1>2. CASE k \in {1, 2, 3}
  BY <1>1, <1>2 DEF Right, Version, YourId, Mailbox, Msg
<1>3. CASE k \in 4 .. n + 3
  <2>1. k - 3 \in 1 .. n /\ (k - 3) + 3 = k
    BY <1>1, <1>3
  <2>2. s[k] = others[k - 3]
    BY <1>1, <2>1
  <2> QED
    BY <2>1, <2>2 DEF AllRight
<1>4. CASE k = n + 4
  BY <1>1, <1>4, IdRanges DEF Right, Peer, Msg
<1>5. CASE k = n + 5
  <2>1. s[k] = Peer(i, e)
    BY <1>1, <1>5
  <2>2. Peer(i, e).id = i /\ Peer(i, e).en = e
    BY DEF Peer, Msg
  <2> QED
    BY <2>1, <2>2 DEF Right
<1> QED
  BY <1>1, <1>2, <1>3, <1>4, <1>5

LEMMA RightMore ==
    ASSUME ToldInv, NEW G, Given \subseteq G, NEW c \in Conns
    PROVE  AllRight(inbox[c], G) /\ TableRight(cl[c].fd, G) /\ TableRight(cl[c].EN, G)
  BY DEF ToldInv, AllRight, TableRight, Right

LEMMA ToldStep ==
    ASSUME Recycle, Accepted, BaseInv, IdInv, EnInv, ToldInv, [Next]_vars
    PROVE  EnInv' /\ ToldInv'
<1> USE IdFacts, IdRanges
<1>t. ServerType /\ FreshInv
  BY DEF BaseInv
<1>1. ASSUME NEW c \in Conns, NEW i \in ClientIds \cup {Rejected},
             NEW ok \in BOOLEAN, ConnectionMade(c, i, ok)
      PROVE  EnInv' /\ ToldInv'
  <2>0. /\ conn[c] = "new" /\ id[c] = NoId /\ Alive(c) /\ i \in NewIds
        /\ cl' = cl /\ recycled' = [recycled EXCEPT ![i] = Null]
    BY <1>1, <1>t DEF ConnectionMade, IdInv, NewInv, Alive
  <2>1. CASE (i = Rejected \/ recycled[i] = Null) /\ Refuse(c)
    <3>1. /\ id' = [id EXCEPT ![c] = Rejected] /\ en' = en /\ clients' = clients
          /\ inbox' = [inbox EXCEPT ![c] = <<Version(-1)>>]
      BY <2>1 DEF Refuse
    <3>2. \A j \in ClientIds : recycled'[j] = recycled[j]
      BY <1>t, <2>0, <2>1 DEF ServerType
    <3>3. EnInv'
      BY <1>t, <2>0, <3>1, <3>2 DEF EnInv, ServerType
    <3>4. Given' = Given
      BY <1>t, <2>0, <3>1 DEF Given, ServerType
    <3>5. AllRight(<<Version(-1)>>, Given)
      BY DEF AllRight, Right, Version, Msg
    <3> QED
      BY <1>t, <2>0, <3>1, <3>3, <3>4, <3>5 DEF ToldInv, ServerType
  <2>2. CASE i # Rejected /\ Admit(c, i)
    <3>0. i \in ClientIds /\ clients[i] = Null
      BY <2>0, <2>2
    <3>1. PICK e \in Conns \cup {Null}, others \in SetToSeqs(OtherPeers) :
             /\ e = IF recycled[i] # Null THEN en[recycled[i]] ELSE c
             /\ id' = [id EXCEPT ![c] = i] /\ en' = [en EXCEPT ![c] = e]
             /\ clients' = [clients EXCEPT ![i] = c]
             /\ others \in Seq(Messages)
             /\ inbox' \in [Conns -> Seq(Messages)]
             /\ inbox'[c] = Intro(c, i, e, others)
             /\ \A d \in Conns \ {c} :
                  inbox'[d] = IF d \in Members /\ recycled[i] = Null
                              THEN Append(inbox[d], Peer(i, e)) ELSE inbox[d]
      <4>1. Admit(c, i) /\ Alive(c) /\ ServerType
        BY <1>t, <2>0, <2>2
      <4> QED
        BY <3>0, <4>1, AdmitFacts, Zenon
    <3>2. \A d \in Conns : id[d] = i => en[d] = e
      <4> SUFFICES ASSUME NEW d \in Conns, id[d] = i PROVE en[d] = e
        OBVIOUS
      <4>1. recycled[i] # Null /\ recycled[i] \in Conns
        BY <1>t, <3>0 DEF EnInv, ServerType
      <4>2. id[recycled[i]] = i /\ e = en[recycled[i]]
        BY <3>0, <3>1, <4>1 DEF EnInv
      <4> QED
        BY <3>0, <4>1, <4>2 DEF EnInv
    <3>3. EnInv'
      <4>1. \A d \in Conns : /\ id'[d] = IF d = c THEN i ELSE id[d]
                             /\ en'[d] = IF d = c THEN e ELSE en[d]
        BY <1>t, <3>1 DEF ServerType
      <4>2. \A j \in ClientIds : /\ clients'[j] = IF j = i THEN c ELSE clients[j]
                                 /\ recycled'[j] = IF j = i THEN Null ELSE recycled[j]
        BY <1>t, <2>0, <3>0, <3>1 DEF ServerType
      <4>3. \A d, g \in Conns : (id'[d] = id'[g] /\ id'[d] \in ClientIds) => en'[d] = en'[g]
        BY <3>2, <4>1 DEF EnInv
      <4>4. \A d \in Conns : id'[d] \in ClientIds =>
              clients'[id'[d]] # Null \/ recycled'[id'[d]] # Null
        <5> SUFFICES ASSUME NEW d \in Conns, id'[d] \in ClientIds
                     PROVE  clients'[id'[d]] # Null \/ recycled'[id'[d]] # Null
          OBVIOUS
        <5>1. CASE id'[d] = i
          BY <3>0, <4>2, <5>1
        <5>2. CASE id'[d] # i
          <6>1. id'[d] = id[d]
            BY <4>1, <5>2
          <6> QED
            BY <4>2, <5>2, <6>1 DEF EnInv
        <5> QED
          BY <5>1, <5>2
      <4>5. \A j \in ClientIds : recycled'[j] # Null => id'[recycled'[j]] = j
        <5> SUFFICES ASSUME NEW j \in ClientIds, recycled'[j] # Null
                     PROVE  id'[recycled'[j]] = j
          OBVIOUS
        <5>1. recycled'[j] = recycled[j] /\ recycled[j] \in Conns
          BY <1>t, <4>2 DEF ServerType
        <5>2. id[recycled[j]] = j
          BY <5>1 DEF EnInv
        <5>3. recycled[j] # c
          BY <2>0, <5>2
        <5> QED
          BY <4>1, <5>1, <5>2, <5>3
      <4> QED
        BY <4>3, <4>4, <4>5 DEF EnInv
    <3>4. Given \subseteq Given' /\ <<i, e>> \in Given'
      <4>1. \A d \in Conns : /\ id'[d] = IF d = c THEN i ELSE id[d]
                             /\ en'[d] = IF d = c THEN e ELSE en[d]
        BY <1>t, <3>1 DEF ServerType
      <4> QED
        <5>1. \A d \in Conns : id[d] \in ClientIds => id'[d] = id[d] /\ en'[d] = en[d]
          BY <2>0, <4>1
        <5>2. Given \subseteq Given'
          BY <5>1 DEF Given
        <5>3. id'[c] = i /\ en'[c] = e
          BY <4>1
        <5> QED
          BY <3>0, <5>2, <5>3 DEF Given
    <3>5. AllRight(others, Given')
      <4> SUFFICES ASSUME NEW k \in 1 .. Len(others) PROVE Right(others[k], Given')
        BY DEF AllRight
      <4>1. others[k] \in OtherPeers
        BY Others, ElementOfSeq
      <4>2. PICK j \in ClientIds \ Available : others[k] = Peer(j, en[clients[j]])
        BY <4>1 DEF OtherPeers
      <4>3. clients[j] \in Conns /\ id[clients[j]] = j
        BY <1>t, <4>2 DEF Available, ServerType, FreshInv
      <4>4. <<j, en[clients[j]]>> \in Given
        BY <4>3 DEF Given
      <4> QED
        BY <3>4, <4>2, <4>4 DEF Right, Peer, Msg
    <3>6. \A d \in Conns : /\ AllRight(inbox[d], Given')
                           /\ TableRight(cl[d].fd, Given') /\ TableRight(cl[d].EN, Given')
      BY <3>4, RightMore
    <3>7. AllRight(inbox'[c], Given')
      <4>1. e \in Fds /\ others \in Seq(Messages)
        BY <3>1 DEF Fds
      <4> QED
        BY <3>0, <3>1, <3>4, <3>5, <4>1, IntroRight
    <3>8. \A d \in Conns \ {c} : AllRight(inbox'[d], Given')
      <4> SUFFICES ASSUME NEW d \in Conns \ {c} PROVE AllRight(inbox'[d], Given')
        OBVIOUS
      <4>1. CASE inbox'[d] = inbox[d]
        BY <3>6, <4>1
      <4>2. CASE inbox'[d] = Append(inbox[d], Peer(i, e))
        <5>1. Peer(i, e) \in Messages /\ inbox[d] \in Seq(Messages)
          BY <1>t, <3>0, MessageTypes DEF Fds, ServerType
        <5>2. Right(Peer(i, e), Given')
          BY <3>4 DEF Right, Peer, Msg
        <5> QED
          BY <3>6, <4>2, <5>1, <5>2, AppendRight
      <4> QED
        BY <3>1, <4>1, <4>2
    <3> QED
      BY <2>0, <3>3, <3>6, <3>7, <3>8 DEF ToldInv
  <2> QED
    BY <1>1, <2>1, <2>2 DEF ConnectionMade
<1>2. ASSUME NEW c \in Conns, ConnectionLost(c) PROVE EnInv' /\ ToldInv'
  <2>0. /\ conn[c] = "made" /\ id[c] \in ClientIds \cup {Rejected}
        /\ clients' = [i \in ClientIds |-> IF i = id[c] THEN Null ELSE clients[i]]
        /\ UNCHANGED <<id, en, proc, cl>>
        /\ \A d \in Conns : inbox'[d] = inbox[d]
        /\ recycled' = [recycled EXCEPT ![id[c]] = c]
    BY <1>2, <1>t, LostFacts
  <2>1. EnInv'
    BY <1>t, <2>0 DEF EnInv, ServerType
  <2>2. Given' = Given
    BY <2>0 DEF Given
  <2> QED
    BY <2>0, <2>1, <2>2 DEF ToldInv
<1>3. ASSUME NEW c \in Conns,
             \/ Start(c) \/ Kill(c) \/ Quit(c) \/ Command(c)
             \/ \E k \in 1 .. 3 : DataRejected(c, k)
      PROVE  EnInv' /\ ToldInv'
  <2>0. /\ UNCHANGED <<id, en, clients, recycled, inbox>>
        /\ \A d \in Conns : cl'[d].fd = cl[d].fd /\ cl'[d].EN = cl[d].EN
    BY <1>3, <1>t, IdleFacts
  <2>1. Given' = Given
    BY <2>0 DEF Given
  <2> QED
    BY <2>0, <2>1 DEF EnInv, ToldInv
<1>4. ASSUME NEW c \in Conns, NEW k \in 1 .. 3,
             InitialInfo(c, k) \/ PeerBatch(c) \/ PeerGone(c)
      PROVE  EnInv' /\ ToldInv'
  <2>0. UNCHANGED <<id, en, clients, recycled>>
    BY <1>4 DEF InitialInfo, PeerBatch, PeerGone
  <2>1. Given' = Given /\ EnInv'
    BY <2>0 DEF Given, EnInv
  <2>2. PICK n \in Nat \ {0} : n <= Len(inbox[c]) /\ Consume(c, n)
    <3>1. CASE InitialInfo(c, k)
      BY <3>1, InfoFacts
    <3>2. CASE PeerBatch(c) \/ PeerGone(c)
      <4>1. Consume(c, 1) /\ Chunk(c, 1)
        BY <3>2 DEF PeerBatch, PeerGone
      <4>2. 1 \in Nat \ {0} /\ 1 <= Len(inbox[c])
        BY <4>1 DEF Chunk
      <4> QED
        BY <4>1, <4>2
    <3> QED
      BY <1>4, <3>1, <3>2
  <2>3. /\ \A d \in Conns \ {c} : inbox'[d] = inbox[d]
        /\ Len(inbox'[c]) = Len(inbox[c]) - n /\ Len(inbox[c]) \in Nat
        /\ \A j \in 1 .. Len(inbox'[c]) : inbox'[c][j] = inbox[c][j + n]
    <3>1. inbox[c] \in Seq(Messages)
      BY <1>t DEF ServerType
    <3> QED
      BY <1>t, <2>2, <3>1, ConsumeFacts, LenProperties
  <2>4. \A d \in Conns : AllRight(inbox'[d], Given)
    <3>1. AllRight(inbox'[c], Given)
      <4> SUFFICES ASSUME NEW j \in 1 .. Len(inbox'[c]) PROVE Right(inbox'[c][j], Given)
        BY DEF AllRight
      <4>1. j + n \in 1 .. Len(inbox[c])
        BY <2>2, <2>3
      <4> QED
        BY <2>3, <4>1 DEF ToldInv, AllRight
    <3> QED
      BY <2>3, <3>1 DEF ToldInv
  <2>5. \A d \in Conns : TableRight(cl'[d].fd, Given) /\ TableRight(cl'[d].EN, Given)
    <3>1. CASE InitialInfo(c, k)
      <4>1. cl' = [cl EXCEPT ![c].id = id[c]]
        BY <3>1, InfoFacts
      <4>2. \A d \in Conns : cl'[d].fd = cl[d].fd /\ cl'[d].EN = cl[d].EN
        BY <1>t, <4>1 DEF ServerType, ClientType
      <4> QED
        BY <4>2 DEF ToldInv
    <3>2. CASE PeerBatch(c)
      <4> DEFINE m == inbox[c][1]
      <4>1. /\ m.t = "peer" /\ \A d \in Conns \ {c} : cl'[d] = cl[d]
            /\ cl'[c].fd = [cl[c].fd EXCEPT ![m.id] = m.en]
            /\ \A i \in 1 .. Server : cl'[c].EN[i] \in {cl'[c].fd[i], cl[c].EN[i]}
        BY <1>t, <3>2, BatchFacts, SMTT(60)
      <4>2. Right(m, Given)
        BY <2>2, <2>3 DEF ToldInv, AllRight
      <4>3. cl[c].fd \in [1 .. Server -> Fds]
        BY <1>t DEF ServerType, ClientType, Fds
      <4> HIDE DEF m
      <4>4. TableRight(cl'[c].fd, Given)
        BY <4>1, <4>2, <4>3 DEF ToldInv, TableRight, Right
      <4>5. TableRight(cl'[c].EN, Given)
        BY <4>1, <4>4 DEF ToldInv, TableRight
      <4> QED
        BY <4>1, <4>4, <4>5 DEF ToldInv
    <3>3. CASE PeerGone(c)
      <4>1. /\ \A d \in Conns \ {c} : cl'[d] = cl[d]
            /\ cl'[c].fd = [cl[c].fd EXCEPT ![inbox[c][1].id] = Null]
            /\ cl'[c].EN = [cl[c].EN EXCEPT ![inbox[c][1].id] = Null]
        BY <1>t, <3>3, GoneFacts
      <4>2. cl[c].fd \in [1 .. Server -> Fds] /\ cl[c].EN \in [1 .. Server -> Fds]
        BY <1>t DEF ServerType, ClientType, Fds
      <4>3. TableRight(cl'[c].fd, Given) /\ TableRight(cl'[c].EN, Given)
        BY <4>1, <4>2 DEF ToldInv, TableRight
      <4> QED
        BY <4>1, <4>3 DEF ToldInv
    <3> QED
      BY <1>4, <3>1, <3>2, <3>3
  <2> QED
    BY <2>1, <2>4, <2>5 DEF ToldInv
<1>5. ASSUME NEW c \in Conns, NEW k \in 1 .. Len(inbox[c]), SendFails(c, k)
      PROVE  EnInv' /\ ToldInv'
  <2>0. /\ UNCHANGED <<id, en, clients, recycled, cl>>
        /\ \A d \in Conns \ {c} : inbox'[d] = inbox[d]
        /\ \A j \in 1 .. Len(inbox'[c]) :
             /\ Before(c, j, k) \in 1 .. Len(inbox[c])
             /\ \/ inbox'[c][j] = inbox[c][Before(c, j, k)]
                \/ inbox'[c][j].en = Torn
    BY <1>5, <1>t, SendFacts
  <2>1. Given' = Given /\ EnInv'
    BY <2>0 DEF Given, EnInv
  <2>2. AllRight(inbox'[c], Given)
    BY <2>0, ZenonT(60) DEF ToldInv, AllRight, Right
  <2> QED
    BY <2>0, <2>1, <2>2 DEF ToldInv
<1>6. CASE UNCHANGED vars
  <2>1. UNCHANGED <<id, en, clients, recycled, inbox, cl>>
    BY <1>6 DEF vars
  <2>2. EnInv' /\ Given' = Given
    BY <2>1 DEF EnInv, Given
  <2> QED
    BY <2>1, <2>2 DEF ToldInv
<1> QED
  BY <1>1, <1>2, <1>3, <1>4, <1>5, <1>6 DEF Next, ServerStep, DataReceived

\* A recycled id keeps its eventfds: whatever a client holds for the id of a
\* member, from however long ago, is what that member listens on.
THEOREM DoorbellsTheorem == ASSUME Accepted PROVE Spec => []DoorbellsReach
<1>1. CASE ~ Recycle
  <2>1. DoorbellsReach
    BY <1>1 DEF DoorbellsReach
  <2> QED
    BY <2>1, PTL
<1>2. CASE Recycle
  <2> DEFINE I == BaseInv /\ IdInv /\ EnInv /\ ToldInv
  <2>1. Init => I
    <3> SUFFICES ASSUME Init PROVE EnInv /\ ToldInv
      BY BaseInit, IdInit
    <3>1. EnInv
      BY IdFacts DEF Init, EnInv
    <3>2. ToldInv
      BY IdRanges DEF Init, ToldInv, AllRight, TableRight, NewClient
    <3> QED
      BY <3>1, <3>2
  <2>2. I /\ [Next]_vars => I'
    BY <1>2, BaseStep, IdStep, ToldStep
  <2>3. I => DoorbellsReach
    <3> SUFFICES ASSUME I, NEW c \in Conns, NEW d \in Members, d \in Conns,
                        cl[c].EN[id[d]] \notin {Null, Torn}
                 PROVE  cl[c].EN[id[d]] = en[d]
      BY DEF DoorbellsReach
    <3>1. id[d] \in ClientIds
      BY DEF BaseInv, FreshInv, Members
    <3>2. <<id[d], cl[c].EN[id[d]]>> \in Given
      BY <3>1 DEF ToldInv, TableRight
    <3>3. PICK g \in Conns : id[g] = id[d] /\ en[g] = cl[c].EN[id[d]]
      BY <3>2 DEF Given
    <3> QED
      BY <3>1, <3>3 DEF EnInv
  <2> HIDE DEF I
  <2> QED
    BY <2>1, <2>2, <2>3, PTL DEF Spec
<1> QED
  BY <1>1, <1>2
===============================================================================
