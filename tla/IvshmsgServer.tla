---------------------------- MODULE IvshmsgServer -----------------------------
(***************************************************************************)
(* Membership: how the Python server (twisted_server.py) admits clients on *)
(* its UNIX socket, hands out ids and event descriptors, tells the peers   *)
(* of one another and lets go of those that leave; and how the Python      *)
(* client (twisted_client.py) builds its tables from that stream, in which *)
(* a send that failed is missing.                                          *)
(*                                                                         *)
(* The server is one Twisted reactor: buildProtocol with connectionMade,   *)
(* and connectionLost, are each one step.  Clients are processes of their  *)
(* own, so what the server sent sits in a socket until the client reads    *)
(* it, and a client may stop at any time.  A batch of nEvents descriptors  *)
(* is one message; a list of eventfds is named by the connection that      *)
(* created it.  Connecting again is a new element of Conns.                *)
(***************************************************************************)
EXTENDS Integers, SequencesExt

CONSTANTS
    Conns,              \* connections that clients may make
    NClients,           \* args.nClients
    Recycle,            \* keep the eventfds of a dead peer for its successor
    Smart,              \* ids are drawn at random, not lowest first
    DiesUnaccepted,     \* may a client stop before the server accepts it
    Lossy,              \* connections on which a send may fail
    Torn,               \* a list of eventfds with gaps, or of two holders
    Null

ASSUME NClientsAssumption == NClients \in Nat \ {0}
ASSUME FlagAssumption == {Recycle, Smart, DiesUnaccepted} \subseteq BOOLEAN
ASSUME NullAssumption == Null \notin Conns
ASSUME LossyAssumption == Lossy \subseteq Conns

Server == NClients + 1      \* server_id, also the name of its own eventfds
ASSUME TornAssumption == Torn \notin Conns \cup {Null, Server}

ClientIds == 1 .. NClients
NoId == 0                   \* self.id is None
Rejected == -1              \* the sentinel id

VARIABLES
    conn,       \* the server's view of a connection: new, made or lost
    id,         \* id[c]: the id of the server's proxy object
    en,         \* en[c]: its EN_list, Null when it has none
    clients,    \* SI.clients: which connection holds an id
    recycled,   \* SI.recycled
    named,      \* ids whose mailslot carries a nodename
    inbox,      \* inbox[c]: sent to c and not yet read
    proc,       \* the client process: none, up, stopped or crashed
    cl,         \* cl[c]: the client's protocol object
    missed      \* history: clients to which a send has failed

vars == <<conn, id, en, clients, recycled, named, inbox, proc, cl, missed>>

NewClient == [id |-> NoId, firstpass |-> TRUE, names |-> {},
              fd |-> [i \in 1 .. Server |-> Null],
              EN |-> [i \in 1 .. Server |-> Null]]

Init ==
    /\ conn = [c \in Conns |-> "new"]
    /\ id = [c \in Conns |-> NoId]
    /\ en = [c \in Conns |-> Null]
    /\ clients = [i \in ClientIds |-> Null]
    /\ recycled = [i \in ClientIds \cup {Rejected} |-> Null]
    /\ named = {}
    /\ inbox = [c \in Conns |-> <<>>]
    /\ proc = [c \in Conns |-> "none"]
    /\ cl = [c \in Conns |-> NewClient]
    /\ missed = {}

Alive(c) == proc[c] = "up"
Members == {clients[i] : i \in ClientIds} \ {Null}

-------------------------------------------------------------------------------
(* The messages of ivshmem_send_one_msg: an integer, perhaps a descriptor *)

Msg(t, i, e) == [t |-> t, id |-> i, en |-> e]
Version(v)   == Msg("version", v, Null)
YourId(i)    == Msg("id", i, Null)
Mailbox      == Msg("mailbox", -1, Null)
Peer(i, e)   == Msg("peer", i, e)
Gone(i)      == Msg("gone", i, Null)
HasFd(m)     == m.t \in {"mailbox", "peer"}

-------------------------------------------------------------------------------
(* FAMEZ_MailBox: the nodename at the start of a mailslot *)

clear_mailslot(i) == named \ {i}
_init_mailslot(i) == named \cup {i}

-------------------------------------------------------------------------------
(* ProtocolIVSHMSGServer *)

\* create_new_peer_id: the ids the new connection may be given, any free one
\* when the server is smart and the lowest otherwise.
Available == {i \in ClientIds : clients[i] = Null}

\* (mutant: the number of clients instead of the ids in use)
NewIdsByCount ==
    {i \in ClientIds : i = 1 + NClients - Cardinality(Available)}
    \cup {i \in {Rejected} : Available = {}}

NewIds ==
    IF Available = {} THEN {Rejected}
    ELSE {i \in Available : Smart \/ \A j \in Available : i <= j}

\* (mutant: the refused connection is numbered past the clients)
RefuseNextId(c) ==
    /\ id' = [id EXCEPT ![c] = NClients + 1]
    /\ inbox' = [inbox EXCEPT ![c] = <<Version(-1)>>]
    /\ UNCHANGED <<en, clients>>

\* send_initial_info(False): a version no client accepts, then hang up.
Refuse(c) ==
    /\ id' = [id EXCEPT ![c] = Rejected]
    /\ inbox' = [inbox EXCEPT ![c] = <<Version(-1)>>]
    /\ UNCHANGED <<en, clients>>

\* The batches that advertise the other peers to the new one.
OtherPeers == {Peer(i, en[clients[i]]) : i \in ClientIds \ Available}

\* (mutant: the sentinel, the new peer's own batch, is left out)
IntroduceUnfinished(c, i, e, old, others) ==
    [inbox EXCEPT ![c] = <<Version(0), YourId(i), Mailbox>>
                         \o others \o <<Peer(Server, Server)>>]

\* Everything connectionMade sends: to the new peer, and to the others unless
\* they already have the eventfds of this id.
Introduce(c, i, e, old, others) ==
    [d \in Conns |->
        IF d = c
        THEN <<Version(0), YourId(i), Mailbox>> \o others
             \o <<Peer(Server, Server), Peer(i, e)>>
        ELSE IF d \in Members /\ ~ old THEN Append(inbox[d], Peer(i, e))
        ELSE inbox[d]]

\* (mutant: a recycled id is given new eventfds, and the others not told)
AdmitAfresh(c, i) ==
    /\ Alive(c)
    /\ id' = [id EXCEPT ![c] = i]
    /\ en' = [en EXCEPT ![c] = c]
    /\ \E others \in SetToSeqs(OtherPeers) :
         inbox' = Introduce(c, i, c, recycled[i] # Null, others)
    /\ clients' = [clients EXCEPT ![i] = c]

\* connectionMade on a socket whose client is there (or has just gone: the
\* first send fails, the proxy keeps its id and its eventfds, and no more).
Admit(c, i) ==
    LET old == recycled[i] # Null
        e   == IF old THEN en[recycled[i]] ELSE c IN
    /\ id' = [id EXCEPT ![c] = i]
    /\ en' = [en EXCEPT ![c] = e]
    /\ \/ /\ Alive(c)
          /\ \E others \in SetToSeqs(OtherPeers) :
               inbox' = Introduce(c, i, e, old, others)
          /\ clients' = [clients EXCEPT ![i] = c]
       \/ /\ ~ Alive(c)
          /\ UNCHANGED <<inbox, clients>>

\* buildProtocol and connectionMade.  ivshmem_event_notifier_list may fail.
ConnectionMade(c, i, eventfds) ==
    /\ conn[c] = "new" /\ proc[c] # "none"
    /\ i \in NewIds
    /\ conn' = [conn EXCEPT ![c] = "made"]
    /\ recycled' = [recycled EXCEPT ![i] = Null]
    /\ \/ /\ i = Rejected \/ (recycled[i] = Null /\ ~ eventfds)
          /\ Refuse(c)
       \/ /\ i # Rejected
          /\ recycled[i] # Null \/ eventfds
          /\ Admit(c, i)
    /\ UNCHANGED <<named, proc, cl, missed>>

\* (mutants: the early return for recycling comes first; the survivors are
\* not told; the nodename is left in the slot)
ConnectionLostKeepsId(c) ==
    /\ conn[c] = "made"
    /\ ~ Alive(c) \/ id[c] = Rejected
    /\ conn' = [conn EXCEPT ![c] = "lost"]
    /\ recycled' = [recycled EXCEPT ![id[c]] = c]
    /\ UNCHANGED <<id, en, clients, named, inbox, proc, cl, missed>>

ConnectionLostUntold(c) ==
    /\ conn[c] = "made"
    /\ ~ Alive(c) \/ id[c] = Rejected
    /\ conn' = [conn EXCEPT ![c] = "lost"]
    /\ clients' = [i \in ClientIds |-> IF i = id[c] THEN Null ELSE clients[i]]
    /\ named' = clear_mailslot(id[c])
    /\ UNCHANGED <<id, en, recycled, inbox, proc, cl, missed>>

ConnectionLostNamed(c) ==
    /\ conn[c] = "made"
    /\ ~ Alive(c) \/ id[c] = Rejected
    /\ conn' = [conn EXCEPT ![c] = "lost"]
    /\ clients' = [i \in ClientIds |-> IF i = id[c] THEN Null ELSE clients[i]]
    /\ inbox' = [d \in Conns |->
         IF \E i \in ClientIds \ {id[c]} : clients[i] = d
         THEN Append(inbox[d], Gone(id[c])) ELSE inbox[d]]
    /\ UNCHANGED <<id, en, recycled, named, proc, cl, missed>>

\* The socket closed, from the client's side or by loseConnection.
ConnectionLost(c) ==
    /\ conn[c] = "made"
    /\ ~ Alive(c) \/ id[c] = Rejected
    /\ conn' = [conn EXCEPT ![c] = "lost"]
    /\ clients' = [i \in ClientIds |-> IF i = id[c] THEN Null ELSE clients[i]]
    /\ IF Recycle
       THEN /\ recycled' = [recycled EXCEPT ![id[c]] = c]
            /\ UNCHANGED <<inbox, named>>
       ELSE /\ inbox' = [d \in Conns |->
                 IF \E i \in ClientIds \ {id[c]} : clients[i] = d
                 THEN Append(inbox[d], Gone(id[c])) ELSE inbox[d]]
            /\ named' = clear_mailslot(id[c])
            /\ UNCHANGED recycled
    /\ UNCHANGED <<id, en, proc, cl, missed>>

-------------------------------------------------------------------------------
(* ProtocolIVSHMSGClient *)

Start(c) ==
    /\ proc[c] = "none"
    /\ proc' = [proc EXCEPT ![c] = "up"]
    /\ UNCHANGED <<conn, id, en, clients, recycled, named, inbox, cl, missed>>

MayStop(c) == Alive(c) /\ (conn[c] # "new" \/ DiesUnaccepted)

\* The process is killed.
Kill(c) ==
    /\ MayStop(c)
    /\ proc' = [proc EXCEPT ![c] = "stopped"]
    /\ UNCHANGED <<conn, id, en, clients, recycled, named, inbox, cl, missed>>

\* connectionLost in the client, after quit or after an exception: it clears
\* the nodename in its own slot and stops the reactor (or, without an id yet,
\* fails on the way and stays idle; the connection is gone all the same).
HangUp(c, how) ==
    /\ proc' = [proc EXCEPT ![c] = how]
    /\ named' = clear_mailslot(cl[c].id)
    /\ UNCHANGED <<conn, id, en, clients, recycled, inbox, cl, missed>>

Quit(c) == MayStop(c) /\ HangUp(c, "stopped")

\* One recvmsg returns data up to and with the first descriptor, or less when
\* the rest had not been sent yet: the server sends its messages one by one,
\* and the client may run between any two of them.
Chunk(c, k) ==
    /\ Alive(c)
    /\ k \in 1 .. Len(inbox[c])
    /\ \A j \in 1 .. (k - 1) : ~ HasFd(inbox[c][j])

\* ivshmem_send_one_msg catches every exception, and nobody looks at its result
\* but for the version, which finds the socket empty.  A message that was never
\* sent leaves its place here, at the latest when it would be read, which is all
\* that depends on it; of a batch, all the sends may have failed or only some.
SendFails(c, k) ==
    /\ Chunk(c, k) /\ c \in Lossy
    /\ inbox[c][k].t # "version"
    /\ \/ inbox' = [inbox EXCEPT ![c] = RemoveAt(@, k)]
       \/ /\ inbox[c][k].t = "peer"
          /\ inbox' = [inbox EXCEPT ![c][k].en = Torn]
    /\ missed' = missed \cup {c}
    /\ UNCHANGED <<conn, id, en, clients, recycled, named, proc, cl>>

Consume(c, k) == inbox' = [inbox EXCEPT ![c] = SubSeq(@, k + 1, Len(@))]

Starting(c) == cl[c].id = NoId

\* retrieve_initial_info wants three quadwords at once, version zero, a positive
\* id and the mailbox.
InfoGood(c, k) ==
    k = 3 /\ inbox[c][1] = Version(0) /\ inbox[c][2].id >= 1 /\ inbox[c][3] = Mailbox

InitialInfo(c, k) ==
    /\ Chunk(c, k) /\ Starting(c)
    /\ InfoGood(c, k)
    /\ Consume(c, k)
    /\ cl' = [cl EXCEPT ![c].id = inbox[c][2].id]
    /\ named' = _init_mailslot(inbox[c][2].id)
    /\ UNCHANGED <<conn, id, en, clients, recycled, proc, missed>>

\* Descriptors go to the end of a list that has none or not all of its own.
Takes(list, e) == list = Null \/ (list = Torn /\ e = Torn)

\* A batch of descriptors.  The last of the first pass is the client's own.
\* Housekeeping follows when the list is complete.
PeerBatch(c) ==
    /\ Chunk(c, 1) /\ ~ Starting(c)
    /\ inbox[c][1].t = "peer"
    /\ Takes(cl[c].fd[inbox[c][1].id], inbox[c][1].en)
    /\ Consume(c, 1)
    /\ LET m  == inbox[c][1]
           r  == cl[c]
           fd == [r.fd EXCEPT ![m.id] = m.en]
           known == {i \in 1 .. Server : fd[i] # Null}
       IN  \E complete \in IF r.fd[m.id] = Null THEN {m.en # Torn} ELSE BOOLEAN :
             cl' = [cl EXCEPT ![c] =
               IF (r.firstpass /\ m.id # r.id) \/ ~ complete THEN [r EXCEPT !.fd = fd]
               ELSE [r EXCEPT !.fd = fd,
                       !.EN = [i \in 1 .. Server |->
                                 IF r.EN[i] = Null THEN fd[i] ELSE r.EN[i]],
                       !.names = IF r.firstpass THEN known ELSE r.names,
                       !.firstpass = FALSE]]
    /\ UNCHANGED <<conn, id, en, clients, recycled, named, proc, missed>>

\* A disconnect notification of a peer the client has a nodename for.
PeerGone(c) ==
    /\ Chunk(c, 1) /\ ~ Starting(c)
    /\ inbox[c][1].t = "gone"
    /\ inbox[c][1].id \in cl[c].names
    /\ Consume(c, 1)
    /\ LET i == inbox[c][1].id IN
         cl' = [cl EXCEPT ![c].fd[i] = Null, ![c].EN[i] = Null,
                          ![c].names = @ \ {i}]
    /\ UNCHANGED <<conn, id, en, clients, recycled, named, proc, missed>>

\* dataReceived raises: an assertion on the length, the version or the sign, on
\* a list that is complete before the batch is, or a KeyError for the nodename of
\* a peer that joined after the first pass.
DataRejected(c, k) ==
    /\ Chunk(c, k)
    /\ \/ Starting(c) /\ ~ InfoGood(c, k)
       \/ ~ Starting(c) /\ k > 1
       \/ ~ Starting(c) /\ inbox[c][1].t = "peer" /\ cl[c].fd[inbox[c][1].id] # Null
       \/ ~ Starting(c) /\ inbox[c][1].t = "gone" /\ inbox[c][1].id \notin cl[c].names
    /\ HangUp(c, "crashed")

\* parse_target, on any command: get_nodenames for every peer in the table.
Command(c) ==
    /\ Alive(c) /\ ~ cl[c].firstpass
    /\ cl' = [cl EXCEPT ![c].names = {i \in 1 .. Server : cl[c].fd[i] # Null}]
    /\ UNCHANGED <<conn, id, en, clients, recycled, named, inbox, proc, missed>>

-------------------------------------------------------------------------------

DataReceived(c) ==
    \/ PeerBatch(c) \/ PeerGone(c)
    \/ \E k \in 1 .. 3 : InitialInfo(c, k) \/ DataRejected(c, k)

ServerStep(c) ==
    \/ \E i \in ClientIds \cup {Rejected}, ok \in BOOLEAN : ConnectionMade(c, i, ok)
    \/ ConnectionLost(c)

Next == \E c \in Conns :
    \/ Start(c) \/ Kill(c) \/ Quit(c) \/ Command(c) \/ DataReceived(c) \/ ServerStep(c)
    \/ \E k \in 1 .. Len(inbox[c]) : SendFails(c, k)

Spec == Init /\ [][Next]_vars

\* The reactor serves every socket that is ready, and so does a client's.
FairSpec == Spec /\ \A c \in Conns : WF_vars(DataReceived(c)) /\ WF_vars(ServerStep(c))

-------------------------------------------------------------------------------
(* Properties *)

Ready(c) == Alive(c) /\ ~ cl[c].firstpass

ClientType ==
    [id : 0 .. NClients, firstpass : BOOLEAN, names : SUBSET (1 .. Server),
     fd : [1 .. Server -> Conns \cup {Server, Torn, Null}],
     EN : [1 .. Server -> Conns \cup {Server, Torn, Null}]]

\* Ids, tables and eventfd lists keep to the values the code can give them.
TypeOK ==
    /\ conn \in [Conns -> {"new", "made", "lost"}]
    /\ id \in [Conns -> ClientIds \cup {NoId, Rejected}]
    /\ en \in [Conns -> Conns \cup {Null}]
    /\ clients \in [ClientIds -> Conns \cup {Null}]
    /\ recycled \in [ClientIds \cup {Rejected} -> Conns \cup {Null}]
    /\ named \subseteq ClientIds
    /\ \A c \in Conns : \A k \in DOMAIN inbox[c] :
         inbox[c][k].en \in Conns \cup {Server, Torn, Null}
    /\ proc \in [Conns -> {"none", "up", "stopped", "crashed"}]
    /\ cl \in [Conns -> ClientType]
    /\ missed \subseteq Lossy

\* create_new_peer_id never gives an id to a connection while the server still
\* has another one with that id, and connectionLost takes none away from a
\* peer that keeps its connection.
IdsUnique ==
    \A c, d \in Conns :
        (c # d /\ conn[c] = "made" /\ conn[d] = "made") =>
            (id[c] # id[d] \/ id[c] = Rejected)

\* Recycling: a doorbell reaches whoever holds the id now.  What a client has
\* in id2EN_list for an id are the eventfds that the holder of that id reads,
\* although nobody told the client that the former holder died, unless some of
\* the descriptors never came.
DoorbellsReach ==
    Recycle => \A c, d \in Conns :
        (Ready(c) /\ d \in Members /\ cl[c].EN[id[d]] \notin {Null, Torn})
            => cl[c].EN[id[d]] = en[d]

\* Without recycling: once it has read all that the server meant to send to it,
\* a client has the eventfds of exactly the present members and of the server,
\* whatever sends to other clients have failed.
TablesCurrent ==
    ~ Recycle => \A c \in Conns \ missed : (Ready(c) /\ inbox[c] = <<>>) =>
        /\ cl[c].EN[Server] = Server
        /\ \A i \in ClientIds : cl[c].EN[i] =
             IF clients[i] = Null THEN Null ELSE en[clients[i]]

\* Whoever starts a client sees it ready or its connection closed: the server
\* answers every connection, a refused one too, and the last batch it sends
\* ends the client's first pass.  Only a client to which a send failed may wait
\* for ever.
JoinEnds == \A c \in Conns : Alive(c) ~> (Ready(c) \/ ~ Alive(c) \/ c \in missed)

\* The id of a client that has gone is free again sooner or later: every way
\* out of connectionLost has removed the connection from SI.clients.
LeaverForgotten ==
    \A c \in Conns : (conn[c] # "new" /\ ~ Alive(c)) ~> (c \notin Members)

\* "Only if everything was completed" (twisted_server.py:220): a connection
\* that never became a member takes no id from the members when it is lost.
OnlyMembersRemoved ==
    [][\A c \in Conns : (conn'[c] # conn[c] /\ conn'[c] = "lost" /\ c \notin Members)
          => clients' = clients]_vars

\* clear_mailslot is called "always by server when a peer dies"
\* (famez_mailbox.py:235): without recycling, the slot of an id that no
\* connection has any longer carries no nodename, however the peer died and
\* whatever its successor did meanwhile.
DeadSlotCleared ==
    ~ Recycle => \A i \in named : \E c \in Conns : id[c] = i /\ conn[c] # "lost"

\* Without recycling, the server and its clients do what Membership says: an
\* id belongs to one connection until that one is lost, and a client that
\* still listens lets go of no peer that is there, whatever sends have failed.  A
\* peer is in the view of a client when the client has all its eventfds.
Mem == INSTANCE Membership WITH
    Ids    <- ClientIds,
    holds  <- [c \in Conns |-> IF conn[c] = "made" /\ id[c] # Rejected THEN id[c] ELSE NoId],
    joined <- {c \in Conns : id[c] \in ClientIds},
    view   <- [c \in Conns |-> IF Alive(c)
                               THEN {cl[c].EN[i] : i \in ClientIds} \ {Null, Torn} ELSE {}],
    ended  <- {c \in Conns : conn[c] # "new" /\ ~ Alive(c)}
Implements == Mem!Spec
===============================================================================
