------------------------------- MODULE Ivshmem --------------------------------
(***************************************************************************)
(* The ivshmem server and client that QEMU ships (docs/ivshmem-server,     *)
(* docs/ivshmem-client): the protocol the Python server re-implements.     *)
(*                                                                         *)
(* The server is one thread around select(); the clients are processes of  *)
(* their own.  A handler's sendmsg calls are steps of their own, because   *)
(* a client may read, or die, between two of them.  The sockets are        *)
(* non-blocking on the server's side: a send fails when the buffer is full *)
(* or the client has gone, and most failures are ignored.  A connection is *)
(* a number; the eventfd of vector v that the server made for connection n *)
(* is [conn |-> n, vec |-> v].                                             *)
(***************************************************************************)
EXTENDS Integers, SequencesExt

CONSTANTS
    Clients,        \* the client processes
    MaxConns,       \* bound: connections in a behaviour
    MaxStarts,      \* bound: starts of the server
    IdSpace,        \* how many values cur_id, a uint16_t, has
    NVectors,       \* args.n_vectors
    MaxVectors,     \* IVSHMEM_CLIENT_MAX_VECTORS
    SockBuf,        \* messages that the buffer of a socket holds
    None

ASSUME BoundAssumption == {MaxConns, MaxStarts} \subseteq Nat
ASSUME IdSpaceAssumption == IdSpace \in Nat \ {0, 1}
ASSUME VectorAssumption == NVectors \in Nat \ {0} /\ MaxVectors \in Nat
                           /\ NVectors <= MaxVectors
ASSUME SockBufAssumption == SockBuf \in Nat /\ SockBuf >= 3
ASSUME NoneAssumption == None \notin Int \cup [conn : Int, vec : Int]

Conns == 1 .. MaxConns
Ids == 0 .. (IdSpace - 1)
Vectors == 1 .. NVectors
NoId == -1
Listen == 0             \* the listening socket, among the descriptors of select
Shm == [conn |-> 0, vec |-> 0]     \* the descriptor of the shared memory

VARIABLES
    phase,      \* the server process: off, run, or close (leaving main)
    pc,         \* where its thread is
    quit,       \* ivshmem_server_quit
    open,       \* server->sock_fd and server->shm_fd that are open
    path,       \* does the path of the socket exist
    starts,     \* counts the server's starts
    cur_id,     \* server->cur_id
    peer_list,  \* server->peer_list
    pid,        \* pid[n]: peer->id
    evfd,       \* connections whose eventfds the server has open
    srvend,     \* connections whose end at the server is open
    backlog,    \* connected, not yet accepted
    fds,        \* what select reported and handle_fds has not looked at yet
    cur,        \* the connection being accepted or freed
    sends,      \* what the handler at work still has to send
    cpc,        \* cpc[c]: where client c is; idle: not running, or not connected
    sock,       \* sock[c]: client->sock_fd
    local,      \* local[c]: client->local.id
    table,      \* table[c][i]: the vectors the client has for peer i (or itself)
    inbox,      \* inbox[n]: in the socket's buffer, not yet read
    reset,      \* connections on which the next recvmsg returns an error
    rung,       \* eventfds with a count above zero
    lost,       \* history: connections to which a notification was dropped
    made        \* counts the connections

server == <<phase, pc, quit, open, path, starts, cur_id, peer_list, pid, evfd,
            fds, cur, sends>>
client == <<cpc, sock, local, table>>
net    == <<srvend, backlog, inbox, reset, rung, lost, made>>
vars   == <<server, client, net>>

NoPeers == [i \in Ids |-> <<>>]

Init ==
    /\ phase = "off" /\ pc = "loop" /\ quit = FALSE
    /\ open = {} /\ path = FALSE /\ starts = 0 /\ cur_id = 0
    /\ peer_list = <<>> /\ evfd = {} /\ fds = {} /\ cur = None /\ sends = <<>>
    /\ pid = [n \in Conns |-> NoId]
    /\ cpc = [c \in Clients |-> "idle"]
    /\ sock = [c \in Clients |-> None]
    /\ local = [c \in Clients |-> NoId]
    /\ table = [c \in Clients |-> NoPeers]
    /\ srvend = {} /\ backlog = <<>> /\ reset = {} /\ rung = {} /\ lost = {}
    /\ inbox = [n \in Conns |-> <<>>] /\ made = 0

\* One message: a number and perhaps a descriptor.
Msg(i, f) == [idx |-> i, fd |-> f]
Eventfd(n, v) == [conn |-> n, vec |-> v]

Owner(n) == {c \in Clients : sock[c] = n}       \* who has the other end open
Listed == {peer_list[k] : k \in DOMAIN peer_list}
search_peer(i) == {n \in Listed : pid[n] = i}

-------------------------------------------------------------------------------
(* The server: main and its loop *)

\* A new process: ivshmem_server_init and ivshmem_server_start.  bind fails
\* while the path exists; every other failure closes what was opened, and
\* changes nothing that lasts.
ServerStart ==
    /\ phase = "off" /\ ~ path /\ starts < MaxStarts
    /\ phase' = "run" /\ pc' = "daemon" /\ quit' = FALSE
    /\ open' = {"sock", "shm"} /\ path' = TRUE
    /\ starts' = starts + 1 /\ cur_id' = 0
    /\ UNCHANGED <<peer_list, pid, evfd, fds, cur, sends, client, net>>

\* listen fails after bind: both descriptors are closed, the path stays.
ListenFails ==
    /\ phase = "off" /\ ~ path /\ starts < MaxStarts
    /\ path' = TRUE /\ starts' = starts + 1
    /\ UNCHANGED <<phase, pc, quit, open, cur_id, peer_list, pid, evfd, fds,
                   cur, sends, client, net>>

\* What comes before ivshmem_server_close.
Ends == phase' = "close" /\ pc' = "fds" /\ fds' = {}

\* qemu_daemon and the pid file; a failure goes to err_close.
Daemonize ==
    /\ pc = "daemon"
    /\ pc' = "loop"
    /\ UNCHANGED <<phase, quit, open, path, starts, cur_id, peer_list, pid, evfd,
                   fds, cur, sends, client, net>>

DaemonFails ==
    /\ pc = "daemon"
    /\ Ends
    /\ UNCHANGED <<quit, open, path, starts, cur_id, peer_list, pid, evfd, cur,
                   sends, client, net>>

\* SIGTERM: the handler sets the flag.  It interrupts a select that waits.
Sigterm ==
    /\ phase = "run" /\ ~ quit
    /\ quit' = TRUE
    /\ pc' = IF pc = "select" THEN "loop" ELSE pc
    /\ UNCHANGED <<phase, open, path, starts, cur_id, peer_list, pid, evfd, fds,
                   cur, sends, client, net>>

\* (mutant: the flag is not looked at)
LoopTestDeaf ==
    /\ phase = "run" /\ pc = "loop"
    /\ pc' = "enter"
    /\ UNCHANGED <<phase, quit, open, path, starts, cur_id, peer_list, pid, evfd,
                   fds, cur, sends, client, net>>

\* while (!ivshmem_server_quit): the flag is read, select comes later.
LoopTest ==
    /\ phase = "run" /\ pc = "loop"
    /\ \/ quit /\ Ends
       \/ ~ quit /\ pc' = "enter" /\ UNCHANGED <<phase, fds>>
    /\ UNCHANGED <<quit, open, path, starts, cur_id, peer_list, pid, evfd, cur,
                   sends, client, net>>

EnterSelect ==
    /\ phase = "run" /\ pc = "enter"
    /\ pc' = "select"
    /\ UNCHANGED <<phase, quit, open, path, starts, cur_id, peer_list, pid, evfd,
                   fds, cur, sends, client, net>>

\* A client never sends, so a peer's socket is ready when its client has gone.
Ready == {n \in Listed : Owner(n) = {}}
         \cup {l \in {Listen} : backlog # <<>>}

SelectReturns ==
    /\ phase = "run" /\ pc = "select" /\ Ready # {}
    /\ fds' = Ready /\ pc' = "fds"
    /\ UNCHANGED <<phase, quit, open, path, starts, cur_id, peer_list, pid, evfd,
                   cur, sends, client, net>>

FdsDone ==
    /\ phase = "run" /\ pc = "fds" /\ fds = {}
    /\ pc' = "loop"
    /\ UNCHANGED <<phase, quit, open, path, starts, cur_id, peer_list, pid, evfd,
                   fds, cur, sends, client, net>>

-------------------------------------------------------------------------------
(* The server: ivshmem_server_handle_new_conn *)

\* (mutant: ids are not looked up)
StepsUnsearched == 0 .. (IdSpace - 2)

\* How far the search of an unused id has to go; the loop gives up one short
\* of all the values of cur_id.
Steps == {k \in 0 .. (IdSpace - 2) : search_peer((cur_id + k) % IdSpace) = {}}

SendTo(n, i, f) == [to |-> n, msg |-> Msg(i, f), must |-> FALSE]
InitialInfo(n, i) ==
    <<[to |-> n, msg |-> Msg(0, None), must |-> TRUE],
      [to |-> n, msg |-> Msg(i, None), must |-> TRUE],
      [to |-> n, msg |-> Msg(-1, Shm), must |-> TRUE]>>

\* The notifications about connection n, of id i, for connection m.
Adverts(m, n, i) == [v \in Vectors |-> SendTo(m, i, Eventfd(n, v))]

\* (mutant: the other peers are not introduced to the new one)
NewConnSendsOneWay(n, i) ==
    InitialInfo(n, i)
    \o FlattenSeq([k \in DOMAIN peer_list |-> Adverts(peer_list[k], n, i)])
    \o Adverts(n, n, i)

\* All that a successful handle_new_conn sends, in its order.
NewConnSends(n, i) ==
    InitialInfo(n, i)
    \o FlattenSeq([k \in DOMAIN peer_list |-> Adverts(peer_list[k], n, i)])
    \o FlattenSeq([k \in DOMAIN peer_list |->
                     Adverts(n, peer_list[k], pid[peer_list[k]])])
    \o Adverts(n, n, i)

Accepting == phase = "run" /\ pc = "fds" /\ Listen \in fds

\* accept, an unused id, and the eventfds.
HandleNewConn ==
    /\ Accepting /\ Steps # {}
    /\ LET n == Head(backlog)
           i == (cur_id + Min(Steps)) % IdSpace IN
         /\ cur' = n
         /\ pid' = [pid EXCEPT ![n] = i]
         /\ cur_id' = (i + 1) % IdSpace
         /\ evfd' = evfd \cup {n}
         /\ sends' = NewConnSends(n, i)
    /\ backlog' = Tail(backlog)
    /\ fds' = fds \ {Listen} /\ pc' = "conn"
    /\ UNCHANGED <<phase, quit, open, path, starts, peer_list, client, srvend,
                   inbox, reset, rung, lost, made>>

\* No unused id met, or no eventfd: the connection is closed, and the error
\* ends the server's loop.
NewConnFails ==
    /\ Accepting
    /\ cur_id' = IF Steps = {} THEN (cur_id + IdSpace - 1) % IdSpace
                 ELSE (cur_id + Min(Steps) + 1) % IdSpace
    /\ backlog' = Tail(backlog)
    /\ srvend' = srvend \ {Head(backlog)}
    /\ Ends
    /\ UNCHANGED <<quit, open, path, starts, peer_list, pid, evfd, cur, sends,
                   client, inbox, reset, rung, lost, made>>

NoIdLeft == Steps = {} /\ NewConnFails
EventfdFails == Steps # {} /\ NewConnFails

AcceptFails ==
    /\ Accepting
    /\ Ends
    /\ UNCHANGED <<quit, open, path, starts, cur_id, peer_list, pid, evfd, cur,
                   sends, client, net>>

Room(n) == Owner(n) # {} /\ Len(inbox[n]) < SockBuf

\* ivshmem_server_send_one_msg: the failures that nobody looks at.
SendOne ==
    /\ sends # <<>>
    /\ LET s == Head(sends) IN
         /\ Room(s.to) \/ ~ s.must
         /\ sends' = Tail(sends)
         /\ \/ /\ Room(s.to)
               /\ inbox' = [inbox EXCEPT ![s.to] = Append(@, s.msg)]
               /\ UNCHANGED lost
            \/ /\ ~ Room(s.to)
               /\ lost' = lost \cup {n \in {s.to} : Owner(n) # {}}
               /\ UNCHANGED inbox
    /\ UNCHANGED <<phase, pc, quit, open, path, starts, cur_id, peer_list, pid,
                   evfd, fds, cur, client, srvend, backlog, reset, rung, made>>

\* (mutant: the eventfds stay open)
InitialInfoFailsLeaky ==
    /\ sends # <<>>
    /\ Head(sends).must /\ ~ Room(Head(sends).to)
    /\ sends' = <<>> /\ cur' = None
    /\ srvend' = srvend \ {cur}
    /\ Ends
    /\ UNCHANGED <<quit, open, path, starts, cur_id, peer_list, pid, evfd, client,
                   backlog, inbox, reset, rung, lost, made>>

\* The new client has gone before it had its initial info: the fail label,
\* and again the end of the loop.
InitialInfoFails ==
    /\ sends # <<>>
    /\ Head(sends).must /\ ~ Room(Head(sends).to)
    /\ sends' = <<>> /\ cur' = None
    /\ evfd' = evfd \ {cur} /\ srvend' = srvend \ {cur}
    /\ Ends
    /\ UNCHANGED <<quit, open, path, starts, cur_id, peer_list, pid, client, backlog, inbox, reset, rung, lost, made>>

NewConnDone ==
    /\ pc = "conn" /\ sends = <<>>
    /\ peer_list' = Append(peer_list, cur)
    /\ cur' = None /\ pc' = "fds"
    /\ UNCHANGED <<phase, quit, open, path, starts, cur_id, pid, evfd, fds,
                   sends, client, net>>

-------------------------------------------------------------------------------
(* The server: peers that leave, and the end *)

\* ivshmem_server_free_peer: handle_fds frees the peers that are ready, in
\* list order and after the new connection; ivshmem_server_close frees all.
Leaving == {k \in DOMAIN peer_list : phase = "close" \/ peer_list[k] \in fds}

FreePeer ==
    /\ pc = "fds" /\ Listen \notin fds
    /\ Leaving # {}
    /\ LET n    == peer_list[Min(Leaving)]
           rest == RemoveAt(peer_list, Min(Leaving)) IN
         /\ cur' = n
         /\ srvend' = srvend \ {n}
         /\ peer_list' = rest
         /\ fds' = fds \ {n}
         /\ sends' = [k \in DOMAIN rest |-> SendTo(rest[k], pid[n], None)]
    /\ pc' = "free"
    /\ UNCHANGED <<phase, quit, open, path, starts, cur_id, pid, evfd, client,
                   backlog, inbox, reset, rung, lost, made>>

FreeDone ==
    /\ pc = "free" /\ sends = <<>>
    /\ evfd' = evfd \ {cur}
    /\ cur' = None /\ pc' = "fds"
    /\ UNCHANGED <<phase, quit, open, path, starts, cur_id, peer_list, pid, fds,
                   sends, client, net>>

\* The rest of ivshmem_server_close.  Connections still in the backlog are
\* reset by the kernel.
ServerClose ==
    /\ phase = "close" /\ pc = "fds" /\ peer_list = <<>>
    /\ phase' = "off" /\ path' = FALSE /\ open' = {}
    /\ reset' = reset \cup Range(backlog)
    /\ srvend' = srvend \ Range(backlog)
    /\ backlog' = <<>>
    /\ UNCHANGED <<pc, quit, starts, cur_id, peer_list, pid, evfd, fds, cur,
                   sends, client, inbox, rung, lost, made>>

\* The process is killed: the kernel closes its descriptors, the path stays.
ServerKilled ==
    /\ phase # "off"
    /\ phase' = "off" /\ pc' = "loop" /\ open' = {}
    /\ evfd' = {} /\ srvend' = {} /\ peer_list' = <<>> /\ sends' = <<>>
    /\ fds' = {} /\ cur' = None
    /\ reset' = reset \cup Range(backlog) /\ backlog' = <<>>
    /\ UNCHANGED <<quit, path, starts, cur_id, pid, client, inbox, rung,
                   lost, made>>

ServerStep ==
    \/ Daemonize \/ LoopTest \/ EnterSelect \/ SelectReturns \/ FdsDone \/ HandleNewConn
    \/ NoIdLeft \/ SendOne \/ InitialInfoFails
    \/ NewConnDone \/ FreePeer \/ FreeDone \/ ServerClose

ServerFault == DaemonFails \/ ListenFails \/ EventfdFails \/ AcceptFails \/ ServerKilled

-------------------------------------------------------------------------------
(* The client *)

\* close(client->sock_fd): with the socket goes what was in it.
CloseSock(c) ==
    /\ cpc' = [cpc EXCEPT ![c] = "idle"]
    /\ sock' = [sock EXCEPT ![c] = None]
    /\ inbox' = [n \in Conns |-> IF n = sock[c] THEN <<>> ELSE inbox[n]]
    /\ rung' = {e \in rung : e.conn # sock[c]}
    /\ reset' = reset \ {sock[c]} /\ lost' = lost \ {sock[c]}
    /\ UNCHANGED <<server, srvend, backlog, made>>

\* ivshmem_client_close, or what the kernel does for a process that dies.
ClientClose(c) ==
    /\ CloseSock(c)
    /\ local' = [local EXCEPT ![c] = NoId]
    /\ table' = [table EXCEPT ![c] = NoPeers]

\* The process dies; another may be started in its place.
Kill(c) == cpc[c] # "idle" /\ ClientClose(c)

\* ivshmem_client_connect, up to the first read.  While nobody listens it
\* fails, and main tries again after a second.
Connect(c) ==
    /\ cpc[c] = "idle"
    /\ "sock" \in open /\ made < MaxConns
    /\ made' = made + 1
    /\ sock' = [sock EXCEPT ![c] = made + 1]
    /\ backlog' = Append(backlog, made + 1)
    /\ srvend' = srvend \cup {made + 1}
    /\ cpc' = [cpc EXCEPT ![c] = "version"]
    /\ UNCHANGED <<server, local, table, inbox, reset, rung, lost>>

Has(c) == sock[c] # None /\ inbox[sock[c]] # <<>>
Read(c) == inbox' = [inbox EXCEPT ![sock[c]] = Tail(@)]
EndOfFile(c) == sock[c] # None /\ ~ Has(c) /\ sock[c] \notin srvend \cup reset

\* The three messages of the initial info, each with the checks on it.
InfoOK(c, m) ==
    \/ cpc[c] = "version" /\ m = Msg(0, None)
    \/ cpc[c] = "id" /\ m.idx >= 0 /\ m.fd = None
    \/ cpc[c] = "shm" /\ m.idx = -1 /\ m.fd # None

Starting(c) == cpc[c] \in {"version", "id", "shm"}
AfterInfo(c) == CASE cpc[c] = "version" -> "id" [] cpc[c] = "id" -> "shm"
                  [] OTHER -> "poll"

ReadInfo(c) ==
    /\ Starting(c) /\ Has(c)
    /\ InfoOK(c, Head(inbox[sock[c]]))
    /\ Read(c)
    /\ cpc' = [cpc EXCEPT ![c] = AfterInfo(c)]
    /\ local' = IF cpc[c] = "id" THEN [local EXCEPT ![c] = Head(inbox[sock[c]]).idx]
                ELSE local
    /\ UNCHANGED <<server, sock, table, srvend, backlog, reset, rung, lost, made>>

\* err_close; main retries.
ConnectFails(c) ==
    /\ Starting(c)
    /\ EndOfFile(c) \/ (Has(c) /\ ~ InfoOK(c, Head(inbox[sock[c]])))
    /\ CloseSock(c) /\ UNCHANGED <<local, table>>

\* recvmsg returns -1, which as an unsigned number is not less than eight: the
\* error goes unnoticed and the number compared with the version is whatever
\* the variable held.
ReadReset(c) ==
    /\ cpc[c] = "version" /\ sock[c] \in reset
    /\ \/ CloseSock(c)
       \/ /\ cpc' = [cpc EXCEPT ![c] = "id"]
          /\ reset' = reset \ {sock[c]}
          /\ UNCHANGED <<server, sock, srvend, backlog, inbox, rung, lost, made>>
    /\ UNCHANGED <<local, table>>

\* (mutant: the table of vectors is taken for full one vector too early)
AcceptableOffByOne(c, m) ==
    IF m.fd = None THEN m.idx # local[c] /\ table[c][m.idx] # <<>>
    ELSE Len(table[c][m.idx]) + 1 < MaxVectors

\* A deletion is of a peer the client has, not of itself; a vector has room.
Acceptable(c, m) ==
    IF m.fd = None THEN m.idx # local[c] /\ table[c][m.idx] # <<>>
    ELSE Len(table[c][m.idx]) < MaxVectors

\* What a message makes of a table.
Apply(t, m) == [t EXCEPT ![m.idx] = IF m.fd = None THEN <<>> ELSE Append(@, m.fd)]

\* (mutants: no test of the number of vectors; an unknown deletion only resets
\* the peers; a deletion is not a case)
HandleServerMsgUnbounded(c) ==
    /\ cpc[c] = "poll" /\ Has(c)
    /\ Acceptable(c, Head(inbox[sock[c]])) \/ Head(inbox[sock[c]]).fd # None
    /\ table' = [table EXCEPT ![c] = Apply(@, Head(inbox[sock[c]]))]
    /\ Read(c)
    /\ UNCHANGED <<server, cpc, sock, local, srvend, backlog, reset, rung, lost, made>>

HandleServerMsgResets(c) ==
    /\ cpc[c] = "poll" /\ Has(c)
    /\ table' = [table EXCEPT ![c] =
         IF Acceptable(c, Head(inbox[sock[c]])) THEN Apply(@, Head(inbox[sock[c]]))
         ELSE NoPeers]
    /\ Read(c)
    /\ UNCHANGED <<server, cpc, sock, local, srvend, backlog, reset, rung, lost, made>>

HandleServerMsgAdds(c) ==
    /\ cpc[c] = "poll" /\ Has(c)
    /\ Acceptable(c, Head(inbox[sock[c]])) /\ Head(inbox[sock[c]]).fd # None
    /\ table' = [table EXCEPT ![c] = Apply(@, Head(inbox[sock[c]]))]
    /\ Read(c)
    /\ UNCHANGED <<server, cpc, sock, local, srvend, backlog, reset, rung, lost, made>>

\* ivshmem_client_handle_server_msg
HandleServerMsg(c) ==
    /\ cpc[c] = "poll" /\ Has(c)
    /\ Acceptable(c, Head(inbox[sock[c]]))
    /\ table' = [table EXCEPT ![c] = Apply(@, Head(inbox[sock[c]]))]
    /\ Read(c)
    /\ UNCHANGED <<server, cpc, sock, local, srvend, backlog, reset, rung, lost, made>>

\* (mutant: the end of the file is taken for an interrupted call)
DisconnectOnMsg(c) ==
    /\ cpc[c] = "poll"
    /\ Has(c) /\ ~ Acceptable(c, Head(inbox[sock[c]]))
    /\ ClientClose(c)

\* The end of the file, or a message it cannot accept: the loop breaks, main
\* closes and connects again.
Disconnect(c) ==
    /\ cpc[c] = "poll"
    /\ EndOfFile(c) \/ (Has(c) /\ ~ Acceptable(c, Head(inbox[sock[c]])))
    /\ ClientClose(c)

\* ivshmem_client_handle_event: every vector of its own that was rung.
HandleEvent(c) ==
    /\ cpc[c] = "poll"
    /\ rung \cap Range(table[c][local[c]]) # {}
    /\ rung' = rung \ Range(table[c][local[c]])
    /\ UNCHANGED <<server, client, srvend, backlog, inbox, reset, lost, made>>

\* Writing the eventfds E.  A count matters while its owner is there to read.
Ring(c, E) ==
    /\ cpc[c] = "poll" /\ E # {}
    /\ rung' = rung \cup {e \in E : Owner(e.conn) # {}}
    /\ UNCHANGED <<server, client, srvend, backlog, inbox, reset, lost, made>>

\* int <peer> <vector>, int <peer> all, int all
Notify(c, i, v) == v <= Len(table[c][i]) /\ Ring(c, {table[c][i][v]})
NotifyAllVects(c, i) == Ring(c, Range(table[c][i]))
NotifyBroadcast(c) ==
    Ring(c, UNION {Range(table[c][i]) : i \in Ids \ {local[c]}})

HandleStdin(c) ==
    \/ \E i \in Ids : NotifyAllVects(c, i) \/ \E v \in 1 .. MaxVectors : Notify(c, i, v)
    \/ NotifyBroadcast(c)

ClientMsg(c) == ReadInfo(c) \/ ConnectFails(c) \/ ReadReset(c)
                \/ HandleServerMsg(c) \/ Disconnect(c)

-------------------------------------------------------------------------------

Next ==
    \/ ServerStart \/ Sigterm \/ ServerStep \/ ServerFault
    \/ \E c \in Clients : Kill(c) \/ Connect(c) \/ ClientMsg(c)
                          \/ HandleEvent(c) \/ HandleStdin(c)

Spec == Init /\ [][Next]_vars

\* select reports what is ready to a thread that then handles it; nothing
\* makes anybody connect, send a command, fail or die.
FairSpec ==
    /\ Spec
    /\ WF_vars(ServerStep)
    /\ \A c \in Clients : WF_vars(ClientMsg(c))

-------------------------------------------------------------------------------
(* Properties *)

\* The connections that have an id: the list, and the one being accepted.
Present == Listed \cup {n \in {cur} : pc = "conn"}

ClientPcs == {"idle", "version", "id", "shm", "poll"}
Eventfds == [conn : Conns, vec : Vectors]
Messages == [idx : Ids \cup {-1}, fd : Eventfds \cup {None, Shm}]

\* Lists, tables and buffers keep to the values the code can give them, and a
\* socket's buffer to its size.
TypeOK ==
    /\ phase \in {"off", "run", "close"}
    /\ pc \in {"daemon", "loop", "enter", "select", "fds", "conn", "free"}
    /\ quit \in BOOLEAN /\ path \in BOOLEAN
    /\ open \subseteq {"sock", "shm"} /\ starts \in 0 .. MaxStarts
    /\ cur_id \in Ids /\ pid \in [Conns -> Ids \cup {NoId}]
    /\ Listed \cup evfd \cup srvend \cup reset \cup lost \subseteq Conns
    /\ Range(backlog) \subseteq Conns /\ fds \subseteq Conns \cup {Listen}
    /\ cur \in Conns \cup {None} /\ made \in 0 .. MaxConns
    /\ \A k \in DOMAIN sends : sends[k].to \in Conns /\ sends[k].msg \in Messages
    /\ cpc \in [Clients -> ClientPcs] /\ sock \in [Clients -> Conns \cup {None}]
    /\ local \in [Clients -> Ids \cup {NoId}]
    /\ \A c \in Clients, i \in Ids :
         Range(table[c][i]) \subseteq Eventfds /\ Len(table[c][i]) <= MaxVectors
    /\ \A n \in Conns : Range(inbox[n]) \subseteq Messages /\ Len(inbox[n]) <= SockBuf
    /\ rung \subseteq Eventfds

\* "This is unique among all clients of this server" (ivshmem-spec.txt:206),
\* also when cur_id has come round and meets ids still in use; and a client
\* believes to be who the server says it is.
IdsUnique ==
    /\ \A n, m \in Present : pid[n] = pid[m] => n = m
    /\ \A c \in Clients : cpc[c] \in {"shm", "poll"} => local[c] = pid[sock[c]]

\* How many messages of the initial info client c has not read yet.
InfoLeft(c) == CASE cpc[c] = "version" -> 3 [] cpc[c] = "id" -> 2
                 [] cpc[c] = "shm" -> 1 [] OTHER -> 0

\* What is in the buffer of connection n, and what the handler at work has
\* still to send, to n or to others.
Coming(n) == [k \in DOMAIN inbox[n] |-> SendTo(n, inbox[n][k].idx, inbox[n][k].fd)]
             \o sends

\* What client c will have in its table once it has read all that the server
\* has sent, and will still send in the handler at work.
Foreseen(c) ==
    LET s == Coming(sock[c])
    IN  FoldLeft(LAMBDA t, x : IF x.to = sock[c] THEN Apply(t, x.msg) ELSE t,
                 table[c], SubSeq(s, InfoLeft(c) + 1, Len(s)))

Directory == [i \in Ids |->
    LET who == {n \in Present : pid[n] = i}
    IN  IF who = {} THEN <<>> ELSE [v \in Vectors |-> Eventfd(CHOOSE n \in who : TRUE, v)]]

\* The notifications add up: a connected client that lost none of them is on
\* its way to a table of exactly the peers of the server, each with all its
\* vectors in order, whatever came and went while it was being introduced.
TableFollows ==
    \A c \in Clients : sock[c] \in Present \ lost => Foreseen(c) = Directory

\* Nothing the server sends makes a client that lost nothing give up: while
\* its connection stands, no deletion of a peer it does not know, or of
\* itself, and no vector too many.
StaysConnected ==
    \A c \in Clients :
        (cpc[c] = "poll" /\ sock[c] \in srvend \ lost /\ Has(c))
            => Acceptable(c, Head(inbox[sock[c]]))

\* However the server ends, it leaves no descriptor open: no eventfd of a
\* peer freed, refused or half accepted, no connection, no socket.
NothingLeft == phase = "off" => (open = {} /\ evfd = {} /\ srvend = {})

\* The server and its clients do what Membership says, lost notifications or
\* not: while it is connected, a client never lets go of a peer that is there.
Mem == INSTANCE Membership WITH
    holds  <- [n \in Conns |-> IF n \in Present THEN pid[n] ELSE NoId],
    joined <- {n \in Conns : pid[n] # NoId},
    view   <- [n \in Conns |-> {e.conn : e \in
                 UNION {Range(table[c][i]) : c \in Owner(n), i \in Ids}}],
    ended  <- {n \in 1 .. made : Owner(n) = {}}
Implements == Mem!Spec

\* SIGTERM ends the server, if the loop gets to its test.
QuitTaken == (quit /\ phase = "run" /\ pc \notin {"enter", "select"}) ~> phase # "run"

\* Peers and their tables settle: in the end every client that still polls a
\* server that runs, and lost nothing, has the table of the present peers.
Settles ==
    <>[](\A c \in Clients : (phase = "run" /\ pc = "select" /\ cpc[c] = "poll"
                             /\ sock[c] \notin lost) => table[c] = Directory)

\* A client whose server has gone notices, wherever it was with it.
LossNoticed ==
    \A c \in Clients :
        (sock[c] # None /\ sock[c] \notin srvend) ~> (sock[c] = None)
===============================================================================
