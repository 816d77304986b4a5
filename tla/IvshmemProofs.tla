----------------------------- MODULE IvshmemProofs ----------------------------
(***************************************************************************)
(* Proofs about Ivshmem, for any number of clients, connections, ids,      *)
(* vectors and starts of the server.  IInv is inductive: each connection   *)
(* is in one place (the backlog, the list, or in the hands of the handler  *)
(* at work) and its descriptors are open accordingly, and what is left of  *)
(* the initial info is what its client has not got yet.  TypeOK,           *)
(* NothingLeft and IdsUnique follow from it.                               *)
(*                                                                         *)
(* LearnInv adds what the messages on their way say: an advert names a     *)
(* connection by its own id, and all that is said of an id before its      *)
(* deletion is about connections that have left.  With it every step is    *)
(* one of Membership.                                                      *)
(***************************************************************************)
EXTENDS Ivshmem, SequenceTheorems, WellFoundedInduction, TLAPS

\* The values of a sequence, and whether they are all different.
Vals(s) == {s[k] : k \in 1 .. Len(s)}
Distinct(s) == \A j, k \in 1 .. Len(s) : s[j] = s[k] => j = k

\* A descriptor of the shared memory comes with no peer's number.
Sound == {m \in Messages : m.fd = Shm => m.idx = -1}
Sends == [to : Conns, msg : Sound, must : BOOLEAN]

ServerType ==
    /\ phase \in {"off", "run", "close"}
    /\ pc \in {"daemon", "loop", "enter", "select", "fds", "conn", "free"}
    /\ quit \in BOOLEAN /\ path \in BOOLEAN
    /\ open \subseteq {"sock", "shm"} /\ starts \in 0 .. MaxStarts
    /\ cur_id \in Ids /\ pid \in [Conns -> Ids \cup {NoId}]
    /\ peer_list \in Seq(Conns) /\ evfd \subseteq Conns
    /\ fds \subseteq Conns \cup {Listen}
    /\ cur \in Conns \cup {None} /\ sends \in Seq(Sends)

ClientType ==
    /\ cpc \in [Clients -> ClientPcs] /\ sock \in [Clients -> Conns \cup {None}]
    /\ local \in [Clients -> Ids \cup {NoId}]
    /\ table \in [Clients -> [Ids -> Seq(Eventfds)]]
    /\ \A c \in Clients, i \in Ids : Len(table[c][i]) <= MaxVectors

NetType ==
    /\ srvend \subseteq Conns /\ reset \subseteq Conns /\ lost \subseteq Conns
    /\ backlog \in Seq(Conns) /\ made \in 0 .. MaxConns
    /\ inbox \in [Conns -> Seq(Sound)]
    /\ \A n \in Conns : Len(inbox[n]) <= SockBuf
    /\ rung \subseteq Eventfds

Queued == Vals(backlog)
Here == Vals(peer_list)

\* Where the thread may be, and what it then has in hand.
PlaceInv ==
    /\ phase = "off" => /\ peer_list = <<>> /\ backlog = <<>> /\ open = {} /\ fds = {}
                        /\ pc \notin {"daemon", "conn", "free"}
    /\ phase = "close" => pc \in {"fds", "free"} /\ fds = {}
    /\ pc \in {"conn", "free"} => cur \in Conns
    /\ sends # <<>> => pc \in {"conn", "free"}
    /\ Listen \in fds => backlog # <<>>

\* A connection is in one place, and its descriptors are open accordingly.
ConnInv ==
    /\ Distinct(peer_list) /\ Distinct(backlog)
    /\ Here \cap Queued = {}
    /\ pc \in {"conn", "free"} => cur \notin Here \cup Queued /\ cur <= made
    /\ \A n \in Here \cup Queued : n <= made
    /\ evfd = Here \cup {n \in {cur} : pc \in {"conn", "free"}}
    /\ srvend = Here \cup Queued \cup {n \in {cur} : pc = "conn"}
    /\ \A n \in reset : n <= made /\ n \notin srvend

\* How many messages of the initial info client c has read, and which they are.
Got(c) == IF cpc[c] = "version" THEN 0 ELSE IF cpc[c] = "id" THEN 1
          ELSE IF cpc[c] = "shm" THEN 2 ELSE 3
Info(n) == <<Msg(0, None), Msg(pid[n], None), Msg(-1, Shm)>>

SockInv ==
    /\ \A c \in Clients : (cpc[c] = "idle" <=> sock[c] = None)
    /\ \A c \in Clients : sock[c] # None => sock[c] <= made
    /\ \A c, d \in Clients : sock[c] = sock[d] /\ sock[c] # None => c = d

\* What the handler at work still has to send: the rest of the initial info,
\* then what may get lost.
Left(j) ==
    /\ Len(sends) >= 3 - j
    /\ \A k \in 1 .. Len(sends) :
         /\ sends[k].must <=> k <= 3 - j
         /\ k <= 3 - j => sends[k].to = cur /\ sends[k].msg = Info(cur)[k + j]
         /\ sends[k].to \in Here \cup {cur}

Delivered(n, j) ==
    \A c \in Clients : sock[c] = n => IF j = 3 THEN Got(c) + Len(inbox[n]) >= 3
                                     ELSE Got(c) + Len(inbox[n]) = j

InfoInv ==
    /\ pc = "conn" => \E j \in 0 .. 3 : Left(j) /\ Delivered(cur, j)
    /\ pc = "free" => \A k \in 1 .. Len(sends) : ~ sends[k].must /\ sends[k].to \in Here
    /\ \A n \in Here : Delivered(n, 3)
    /\ \A n \in Queued : inbox[n] = <<>> /\ Delivered(n, 0)
    /\ \A n \in reset : inbox[n] = <<>>
    /\ \A n \in Conns : n > made => inbox[n] = <<>>
    /\ \A c \in Clients : sock[c] # None =>
         \A k \in 1 .. Len(inbox[sock[c]]) :
             Got(c) + k <= 3 => inbox[sock[c]][k] = Info(sock[c])[Got(c) + k]

IInv == /\ ServerType /\ ClientType /\ NetType
        /\ PlaceInv /\ ConnInv /\ SockInv /\ InfoInv /\ IdsUnique

-------------------------------------------------------------------------------
(* Numbers and sequences *)

\* A set of numbers that is not empty has a smallest one.
LEMMA Smallest ==
    ASSUME NEW S \in SUBSET Nat, S # {} PROVE \E m \in S : \A k \in S : m <= k
<1>1. PICK m \in S : \A k \in S : ~ (<<k, m>> \in OpToRel(<, Nat))
  BY NatLessThanWellFounded, WFMin
<1>2. \A k \in S : ~ (k < m)
  BY <1>1 DEF OpToRel
<1> QED
  BY <1>2

LEMMA MinIn ==
    ASSUME NEW S \in SUBSET Nat, S # {} PROVE Min(S) \in S /\ \A k \in S : Min(S) <= k
<1>1. \E m \in S : \A k \in S : m <= k
  BY Smallest
<1> QED
  BY <1>1 DEF Min

LEMMA ModIds == \A k \in Nat : k % IdSpace \in Ids
BY IdSpaceAssumption DEF Ids

\* FlattenSeq is defined by recursion: f is what it computes for the first m
\* sequences, and that extends to one more.
Flat(f, s, m) == \A i \in 1 .. m : f[i] = IF i = 1 THEN s[i] ELSE f[i - 1] \o s[i]

LEMMA FlattenStep ==
    ASSUME NEW S, NEW s \in Seq(Seq(S)), NEW m \in 1 .. Len(s)
    PROVE  \E f \in [1 .. m -> Seq(S)] : Flat(f, s, m)
<1> DEFINE Good(k) == \E f \in [1 .. k -> Seq(S)] : Flat(f, s, k)
           Bad == {k \in 1 .. Len(s) : ~ Good(k)}
<1>0. Len(s) \in Nat /\ \A i \in 1 .. Len(s) : s[i] \in Seq(S)
  OBVIOUS
<1>1. ASSUME Bad # {} PROVE FALSE
  <2>1. Bad \in SUBSET Nat
    BY <1>0
  <2>2. PICK b \in Bad : \A k \in Bad : b <= k
    <3> HIDE DEF Bad
    <3> QED
      BY <1>1, <2>1, Smallest
  <2>3. b \in 1 .. Len(s) /\ ~ Good(b)
    BY <2>2
  <2>4. \A k \in Bad : ~ (k < b)
    <3> HIDE DEF Bad
    <3> QED
      BY <2>1, <2>2
  <2>5. CASE b = 1
    <3>1. [i \in 1 .. 1 |-> s[1]] \in [1 .. 1 -> Seq(S)]
      BY <1>0, <2>3, <2>5
    <3>2. Flat([i \in 1 .. 1 |-> s[1]], s, 1)
      BY DEF Flat
    <3>3. Good(1)
      BY <3>1, <3>2
    <3> QED
      BY <3>3, <2>3, <2>5
  <2>6. CASE b # 1
    <3>1. b - 1 \in 1 .. Len(s) /\ b - 1 < b
      BY <2>3, <2>6, <1>0
    <3>2. Good(b - 1)
      BY <3>1, <2>4
    <3>3. PICK f \in [1 .. (b - 1) -> Seq(S)] : Flat(f, s, b - 1)
      BY <3>2
    <3> HIDE DEF Bad, Good
    <3>4. f[b - 1] \in Seq(S) /\ s[b] \in Seq(S)
      BY <3>1, <2>3, <1>0
    <3>5. f[b - 1] \o s[b] \in Seq(S)
      BY <3>4, ConcatProperties
    <3> DEFINE g == [i \in 1 .. b |-> IF i = b THEN f[b - 1] \o s[b] ELSE f[i]]
    <3>6. g \in [1 .. b -> Seq(S)]
      BY <3>5, <2>3
    <3>7. Flat(g, s, b)
      <4> SUFFICES ASSUME NEW i \in 1 .. b
                   PROVE  g[i] = IF i = 1 THEN s[i] ELSE g[i - 1] \o s[i]
        BY DEF Flat
      <4>1. CASE i = b
        <5>0. b \in 1 .. b /\ b - 1 \in 1 .. b /\ b - 1 # b
          BY <3>1, <2>3
        <5>1. g[b] = f[b - 1] \o s[b] /\ g[b - 1] = f[b - 1]
          BY <5>0
        <5> QED
          BY <5>1, <4>1, <2>6
      <4>2. CASE i # b
        <5>1. i \in 1 .. (b - 1) /\ g[i] = f[i] /\ (i # 1 => g[i - 1] = f[i - 1])
          BY <4>2, <2>3
        <5> QED
          BY <5>1, <3>3 DEF Flat
      <4> QED
        BY <4>1, <4>2
    <3>8. Good(b)
      BY <3>6, <3>7 DEF Good
    <3> QED
      BY <3>8, <2>3
  <2> QED
    BY <2>5, <2>6
<1> QED
  BY <1>1

\* So it is what FlattenSeq computes.
LEMMA FlattenRun ==
    ASSUME NEW S, NEW s \in Seq(Seq(S)), Len(s) # 0
    PROVE  \E f \in [1 .. Len(s) -> Seq(S)] : Flat(f, s, Len(s)) /\ FlattenSeq(s) = f[Len(s)]
<1> DEFINE L == Len(s)
           Rec(f) == f = [i \in 1 .. L |-> IF i = 1 THEN s[i] ELSE f[i - 1] \o s[i]]
           F == CHOOSE f : Rec(f)
<1>0. L \in Nat /\ L \in 1 .. L
  OBVIOUS
<1>1. PICK g \in [1 .. L -> Seq(S)] : Flat(g, s, L)
  <2> HIDE DEF L
  <2>1. L \in 1 .. Len(s)
    BY <1>0 DEF L
  <2> QED
    BY <2>1, FlattenStep
<1>2. Rec(g)
  BY <1>1, Zenon DEF Flat
<1>3. Rec(F)
  BY <1>2, Zenon
<1>4. \A i \in 1 .. L : F[i] = IF i = 1 THEN s[i] ELSE F[i - 1] \o s[i]
  BY <1>3, Zenon
<1>5. \A i \in 1 .. L : F[i] = g[i]
  <2> DEFINE Bad == {i \in 1 .. L : F[i] # g[i]}
  <2>1. ASSUME Bad # {} PROVE FALSE
    <3> HIDE DEF F
    <3>1. Bad \in SUBSET Nat
      OBVIOUS
    <3>2. PICK b \in Bad : \A k \in Bad : b <= k
      <4> HIDE DEF Bad
      <4> QED
        BY <2>1, <3>1, Smallest
    <3>3. b \in 1 .. L /\ F[b] # g[b]
      BY <3>2
    <3>4. \A k \in Bad : ~ (k < b)
      BY <3>1, <3>2
    <3>5. b = 1 \/ (b - 1 \in 1 .. L /\ b - 1 < b)
      BY <3>3, <1>0
    <3>6. b = 1 \/ F[b - 1] = g[b - 1]
      BY <3>4, <3>5
    <3> QED
      BY <3>3, <3>6, <1>1, <1>4 DEF Flat
  <2> QED
    BY <2>1
<1>6. FlattenSeq(s) = F[L]
  BY DEF FlattenSeq
<1> HIDE DEF F
<1>7. F[L] = g[L]
  BY <1>0, <1>5
<1> QED
  BY <1>1, <1>6, <1>7

\* Flattening sequences of S gives a sequence of S.
LEMMA FlattenTyped ==
    ASSUME NEW S, NEW s \in Seq(Seq(S)) PROVE FlattenSeq(s) \in Seq(S)
<1>1. CASE Len(s) = 0
  <2>1. s = <<>>
    BY <1>1
  <2> QED
    BY <1>1, <2>1 DEF FlattenSeq
<1>2. CASE Len(s) # 0
  <2>1. PICK f \in [1 .. Len(s) -> Seq(S)] : FlattenSeq(s) = f[Len(s)]
    BY <1>2, FlattenRun
  <2>2. Len(s) \in 1 .. Len(s)
    BY <1>2
  <2> QED
    BY <2>1, <2>2
<1> QED
  BY <1>1, <1>2

LEMMA ValsRange ==
    ASSUME NEW S, NEW s \in Seq(S) PROVE Range(s) = Vals(s) /\ Vals(s) \subseteq S
BY RangeEquality DEF Vals

LEMMA ValsEmpty == Vals(<<>>) = {} /\ Distinct(<<>>)
BY DEF Vals, Distinct

LEMMA AppendVals ==
    ASSUME NEW S, NEW s \in Seq(S), NEW e \in S
    PROVE  /\ Append(s, e) \in Seq(S) /\ Vals(Append(s, e)) = Vals(s) \cup {e}
           /\ Distinct(s) /\ e \notin Vals(s) => Distinct(Append(s, e))
<1>1. PICK t \in Seq(S) : t = Append(s, e)
  BY AppendProperties
<1>2. /\ Len(t) = Len(s) + 1 /\ Len(s) \in Nat /\ t[Len(s) + 1] = e
      /\ \A i \in 1 .. Len(s) : t[i] = s[i]
  BY <1>1, AppendProperties, LenProperties
<1>3. Vals(t) = Vals(s) \cup {e}
  <2>1. \A i \in 1 .. Len(t) : i \in 1 .. Len(s) \/ i = Len(s) + 1
    BY <1>2
  <2>2. \A i \in 1 .. Len(s) : i \in 1 .. Len(t)
    BY <1>2
  <2>3. Len(s) + 1 \in 1 .. Len(t)
    BY <1>2
  <2> QED
    BY <1>2, <2>1, <2>2, <2>3 DEF Vals
<1>4. ASSUME Distinct(s), e \notin Vals(s) PROVE Distinct(t)
  BY <1>2, <1>4 DEF Distinct, Vals
<1> QED
  BY <1>1, <1>3, <1>4

LEMMA TailVals ==
    ASSUME NEW S, NEW s \in Seq(S), s # <<>>, Distinct(s)
    PROVE  /\ Head(s) \in S /\ Tail(s) \in Seq(S) /\ Distinct(Tail(s))
           /\ Vals(Tail(s)) = Vals(s) \ {Head(s)} /\ Head(s) \in Vals(s)
<1>1. PICK t \in Seq(S) : t = Tail(s)
  BY HeadTailProperties
<1>2. /\ Len(t) = Len(s) - 1 /\ Len(s) \in Nat \ {0} /\ Head(s) = s[1] /\ Head(s) \in S
      /\ \A i \in 1 .. Len(t) : t[i] = s[i + 1]
  BY <1>1, HeadTailProperties, LenProperties, EmptySeq
<1>3. Distinct(t)
  <2> SUFFICES ASSUME NEW j \in 1 .. Len(t), NEW k \in 1 .. Len(t), t[j] = t[k] PROVE j = k
    BY DEF Distinct
  <2>1. j + 1 \in 1 .. Len(s) /\ k + 1 \in 1 .. Len(s) /\ s[j + 1] = s[k + 1]
    BY <1>2
  <2>2. j + 1 = k + 1
    BY <2>1 DEF Distinct
  <2> QED
    BY <2>2, <1>2
<1>4. Vals(t) = Vals(s) \ {s[1]}
  <2>1. ASSUME NEW x \in Vals(t) PROVE x \in Vals(s) \ {s[1]}
    <3>1. PICK i \in 1 .. Len(t) : x = t[i]
      BY DEF Vals
    <3>2. i + 1 \in 1 .. Len(s) /\ 1 \in 1 .. Len(s) /\ i + 1 # 1 /\ x = s[i + 1]
      BY <1>2, <3>1
    <3> QED
      BY <3>2 DEF Vals, Distinct
  <2>2. ASSUME NEW x \in Vals(s), x # s[1] PROVE x \in Vals(t)
    <3>1. PICK i \in 1 .. Len(s) : x = s[i]
      BY DEF Vals
    <3>2. i # 1
      BY <2>2, <3>1
    <3>3. i - 1 \in 1 .. Len(t) /\ t[i - 1] = s[i]
      BY <1>2, <3>2
    <3> QED
      BY <3>1, <3>3 DEF Vals
  <2> QED
    BY <2>1, <2>2
<1>5. s[1] \in Vals(s)
  BY <1>2 DEF Vals
<1> QED
  BY <1>1, <1>2, <1>3, <1>4, <1>5

LEMMA RemoveVals ==
    ASSUME NEW S, NEW s \in Seq(S), NEW d \in 1 .. Len(s), Distinct(s)
    PROVE  /\ RemoveAt(s, d) \in Seq(S) /\ Distinct(RemoveAt(s, d))
           /\ Vals(RemoveAt(s, d)) = Vals(s) \ {s[d]}
<1>0. Len(s) \in Nat /\ \A i \in 1 .. Len(s) : s[i] \in S
  BY LenProperties, ElementOfSeq
<1>1. PICK a \in Seq(S) : a = SubSeq(s, 1, d - 1)
  <2>1. d - 1 \in Int /\ \A i \in 1 .. (d - 1) : s[i] \in S
    BY <1>0
  <2>2. SubSeq(s, 1, d - 1) \in Seq(S)
    BY <2>1, SubSeqProperties
  <2> QED
    BY <2>2
<1>2. Len(a) = d - 1 /\ \A i \in 1 .. (d - 1) : a[i] = s[i]
  <2>1. \A i \in 1 .. (d - 1) : s[i] \in S
    BY <1>0
  <2>2. /\ Len(SubSeq(s, 1, d - 1)) = IF 1 <= d - 1 THEN (d - 1) - 1 + 1 ELSE 0
        /\ \A i \in 1 .. (d - 1) - 1 + 1 : SubSeq(s, 1, d - 1)[i] = s[1 + i - 1]
    BY <1>0, <2>1, SubSeqProperties
  <2> QED
    BY <1>0, <1>1, <2>2
<1>3. PICK b \in Seq(S) : b = SubSeq(s, d + 1, Len(s))
  <2>1. d + 1 \in Int /\ Len(s) \in Int /\ \A i \in (d + 1) .. Len(s) : s[i] \in S
    BY <1>0
  <2>2. SubSeq(s, d + 1, Len(s)) \in Seq(S)
    BY <2>1, SubSeqProperties
  <2> QED
    BY <2>2
<1>4. Len(b) = Len(s) - d /\ \A i \in 1 .. (Len(s) - d) : b[i] = s[d + i]
  <2>1. \A i \in (d + 1) .. Len(s) : s[i] \in S
    BY <1>0
  <2>2. /\ Len(SubSeq(s, d + 1, Len(s))) = IF d + 1 <= Len(s) THEN Len(s) - (d + 1) + 1 ELSE 0
        /\ \A i \in 1 .. Len(s) - (d + 1) + 1 : SubSeq(s, d + 1, Len(s))[i] = s[(d + 1) + i - 1]
    BY <1>0, <2>1, SubSeqProperties
  <2> QED
    BY <1>0, <1>3, <2>2
<1>5. PICK t \in Seq(S) : t = a \o b
  BY ConcatProperties
<1>6. Len(t) = Len(a) + Len(b) /\ \A i \in 1 .. Len(a) + Len(b) :
          t[i] = IF i <= Len(a) THEN a[i] ELSE b[i - Len(a)]
  BY <1>5, ConcatProperties
<1>7. RemoveAt(s, d) = t
  BY <1>1, <1>3, <1>5 DEF RemoveAt
<1>8. Len(t) = Len(s) - 1 /\ \A i \in 1 .. (Len(s) - 1) : t[i] = IF i < d THEN s[i] ELSE s[i + 1]
  <2>1. Len(t) = Len(s) - 1
    BY <1>0, <1>2, <1>4, <1>6
  <2>2. ASSUME NEW i \in 1 .. (Len(s) - 1) PROVE t[i] = IF i < d THEN s[i] ELSE s[i + 1]
    <3>0. i \in 1 .. Len(a) + Len(b)
      BY <1>0, <1>2, <1>4
    <3>1. CASE i < d
      <4>1. i <= Len(a) /\ i \in 1 .. (d - 1)
        BY <1>0, <1>2, <3>1
      <4>2. t[i] = a[i]
        BY <3>0, <4>1, <1>6
      <4> QED
        BY <4>1, <4>2, <1>2, <3>1
    <3>2. CASE ~ (i < d)
      <4>0. ~ (i <= Len(a)) /\ i - Len(a) = i - (d - 1)
        BY <1>0, <1>2, <3>2
      <4>a. t[i] = b[i - (d - 1)]
        BY <3>0, <4>0, <1>6
      <4>1. i - (d - 1) \in 1 .. (Len(s) - d) /\ d + (i - (d - 1)) = i + 1
        BY <1>0, <3>2
      <4>2. b[i - (d - 1)] = s[d + (i - (d - 1))]
        BY <4>1, <1>4
      <4> QED
        BY <4>a, <4>1, <4>2, <3>2
    <3> QED
      BY <3>1, <3>2
  <2> QED
    BY <2>1, <2>2
<1> DEFINE p(i) == IF i < d THEN i ELSE i + 1
<1>a. \A i \in 1 .. Len(t) : p(i) \in 1 .. Len(s) /\ p(i) # d /\ t[i] = s[p(i)]
  BY <1>0, <1>8
<1>b. \A j, k \in 1 .. Len(t) : p(j) = p(k) => j = k
  BY <1>0, <1>8
<1> HIDE DEF p
<1>9. Distinct(t)
  <2> SUFFICES ASSUME NEW j \in 1 .. Len(t), NEW k \in 1 .. Len(t), t[j] = t[k] PROVE j = k
    BY DEF Distinct
  <2>1. p(j) \in 1 .. Len(s) /\ p(k) \in 1 .. Len(s) /\ s[p(j)] = s[p(k)]
    BY <1>a
  <2>2. p(j) = p(k)
    BY <2>1 DEF Distinct
  <2> QED
    BY <2>2, <1>b
<1>10. Vals(t) = Vals(s) \ {s[d]}
  <2>1. ASSUME NEW x \in Vals(t) PROVE x \in Vals(s) \ {s[d]}
    <3>1. PICK i \in 1 .. Len(t) : x = t[i]
      BY DEF Vals
    <3>2. PICK j \in 1 .. Len(s) : x = s[j] /\ j # d
      BY <1>a, <3>1
    <3> QED
      BY <3>2 DEF Vals, Distinct
  <2>2. ASSUME NEW x \in Vals(s), x # s[d] PROVE x \in Vals(t)
    <3>1. PICK i \in 1 .. Len(s) : x = s[i]
      BY DEF Vals
    <3>2. CASE i < d
      <4>1. i \in 1 .. Len(t) /\ t[i] = s[i]
        BY <1>0, <1>8, <3>2
      <4> QED
        BY <4>1, <3>1 DEF Vals
    <3>3. CASE i > d
      <4>1. i - 1 \in 1 .. Len(t) /\ t[i - 1] = s[i]
        BY <1>0, <1>8, <3>3
      <4> QED
        BY <4>1, <3>1 DEF Vals
    <3>4. i # d
      BY <3>1, <2>2
    <3> QED
      BY <1>0, <3>2, <3>3, <3>4
  <2> QED
    BY <2>1, <2>2
<1> QED
  BY <1>7, <1>9, <1>10

-------------------------------------------------------------------------------
(* What a handler sends *)

LEMMA EventfdSound ==
    ASSUME NEW n \in Conns, NEW v \in Vectors, NEW i \in Ids \cup {NoId}
    PROVE  Eventfd(n, v) \in Eventfds /\ Msg(i, Eventfd(n, v)) \in Sound
<1>1. Eventfd(n, v) \in Eventfds
  BY DEF Eventfd, Eventfds
<1>2. Eventfd(n, v).conn = n /\ Shm.conn = 0 /\ n # 0
  BY BoundAssumption DEF Eventfd, Shm, Conns
<1>3. Eventfd(n, v) # Shm
  BY <1>2
<1>4. Msg(i, Eventfd(n, v)) \in Messages
  BY <1>1 DEF Msg, Messages, NoId
<1> QED
  BY <1>1, <1>3, <1>4 DEF Sound, Msg

\* The notifications are sequences of messages, of M say, that need not arrive.
Notes(T, M) == [to : T, msg : M, must : {FALSE}]

LEMMA AdvertsTyped ==
    ASSUME NEW T, NEW M, NEW m \in T, NEW n, NEW i,
           \A v \in Vectors : Msg(i, Eventfd(n, v)) \in M
    PROVE  Adverts(m, n, i) \in Seq(Notes(T, M))
<1>1. \A v \in Vectors : SendTo(m, i, Eventfd(n, v)) \in Notes(T, M)
  BY DEF SendTo, Notes
<1>2. NVectors \in Nat /\ Vectors = 1 .. NVectors
  BY VectorAssumption DEF Vectors
<1> QED
  BY <1>1, <1>2 DEF Adverts

LEMMA FlattenNotes ==
    ASSUME NEW T, NEW M, NEW s, NEW l \in Nat, DOMAIN s = 1 .. l, s = [k \in 1 .. l |-> s[k]],
           \A k \in 1 .. l : s[k] \in Seq(Notes(T, M))
    PROVE  FlattenSeq(s) \in Seq(Notes(T, M))
<1>1. s \in Seq(Seq(Notes(T, M)))
  <2>1. s \in [1 .. l -> Seq(Notes(T, M))]
    OBVIOUS
  <2> HIDE DEF Notes
  <2> QED
    BY <2>1
<1> QED
  BY <1>1, FlattenTyped

LEMMA InfoTyped ==
    ASSUME NEW n \in Conns, NEW i \in Ids \cup {NoId}
    PROVE  /\ InitialInfo(n, i) \in Seq(Sends) /\ Len(InitialInfo(n, i)) = 3
           /\ \A k \in 1 .. 3 : /\ InitialInfo(n, i)[k].must /\ InitialInfo(n, i)[k].to = n
                                /\ InitialInfo(n, i)[k].msg = <<Msg(0, None), Msg(i, None), Msg(-1, Shm)>>[k]
<1>1. 0 \in Ids
  BY IdSpaceAssumption DEF Ids
<1>2. Shm # None
  BY NoneAssumption DEF Shm
<1>3. Msg(0, None) \in Sound /\ Msg(i, None) \in Sound /\ Msg(-1, Shm) \in Sound
  BY <1>1, <1>2 DEF Msg, Messages, NoId, Sound
<1> DEFINE a == [to |-> n, msg |-> Msg(0, None), must |-> TRUE]
           b == [to |-> n, msg |-> Msg(i, None), must |-> TRUE]
           d == [to |-> n, msg |-> Msg(-1, Shm), must |-> TRUE]
<1>4. a \in Sends /\ b \in Sends /\ d \in Sends
  BY <1>3 DEF Sends
<1>5. /\ a.must /\ b.must /\ d.must /\ a.to = n /\ b.to = n /\ d.to = n
      /\ a.msg = Msg(0, None) /\ b.msg = Msg(i, None) /\ d.msg = Msg(-1, Shm)
  OBVIOUS
<1>6. InitialInfo(n, i) = <<a, b, d>>
  BY DEF InitialInfo
<1> HIDE DEF a, b, d
<1>7. <<a, b, d>> \in Seq(Sends) /\ Len(<<a, b, d>>) = 3
  BY <1>4
<1>8. ASSUME NEW k \in 1 .. 3
      PROVE  /\ <<a, b, d>>[k].must /\ <<a, b, d>>[k].to = n
             /\ <<a, b, d>>[k].msg = <<Msg(0, None), Msg(i, None), Msg(-1, Shm)>>[k]
  <2>1. k = 1 \/ k = 2 \/ k = 3
    OBVIOUS
  <2> QED
    BY <1>5, <2>1
<1> QED
  BY <1>6, <1>7, <1>8

\* The musts come first, and no message goes to a connection that is neither
\* in the list nor the new one.
Begins(s, n, i, T, M) ==
    /\ Len(s) >= 3
    /\ \A k \in 1 .. Len(s) :
         /\ s[k].must <=> k <= 3
         /\ k <= 3 => /\ s[k].to = n
                      /\ s[k].msg = <<Msg(0, None), Msg(i, None), Msg(-1, Shm)>>[k]
         /\ s[k].to \in T \cup {n}
         /\ k > 3 => s[k].msg \in M

LEMMA NewConnTyped ==
    ASSUME peer_list \in Seq(Conns), pid \in [Conns -> Ids \cup {NoId}],
           NEW n \in Conns, NEW i \in Ids, NEW M \in SUBSET Sound,
           \A v \in Vectors : Msg(i, Eventfd(n, v)) \in M,
           \A p \in Here : \A v \in Vectors : Msg(pid[p], Eventfd(p, v)) \in M
    PROVE  NewConnSends(n, i) \in Seq(Sends) /\ Begins(NewConnSends(n, i), n, i, Here, M)
<1> DEFINE T == Here \cup {n}
           l == Len(peer_list)
           A == InitialInfo(n, i)
           f == [k \in DOMAIN peer_list |-> Adverts(peer_list[k], n, i)]
           g == [k \in DOMAIN peer_list |-> Adverts(n, peer_list[k], pid[peer_list[k]])]
           V == Adverts(n, n, i)
<1>0. /\ l \in Nat /\ DOMAIN peer_list = 1 .. l
      /\ \A k \in 1 .. l : peer_list[k] \in Here /\ peer_list[k] \in T
  <2>1. /\ l \in Nat /\ DOMAIN peer_list = 1 .. l
        /\ \A k \in 1 .. l : peer_list[k] \in Conns
    BY LenProperties, ElementOfSeq
  <2> QED
    BY <2>1 DEF Here, Vals
<1>T. T \subseteq Conns
  BY ValsRange DEF Here
<1> HIDE DEF T, l
<1>1. n \in T
  BY DEF T
<1>2. FlattenSeq(f) \in Seq(Notes(T, M))
  <2>1. \A k \in 1 .. l : Adverts(peer_list[k], n, i) \in Seq(Notes(T, M))
    BY <1>0, AdvertsTyped
  <2>2. DOMAIN f = 1 .. l /\ f = [k \in 1 .. l |-> f[k]] /\ \A k \in 1 .. l : f[k] = Adverts(peer_list[k], n, i)
    BY <1>0
  <2>3. \A k \in 1 .. l : f[k] \in Seq(Notes(T, M))
    BY <2>1, <2>2
  <2> HIDE DEF f
  <2> QED
    BY <1>0, <2>2, <2>3, FlattenNotes
<1>3. FlattenSeq(g) \in Seq(Notes(T, M))
  <2>1. ASSUME NEW k \in 1 .. l
        PROVE  Adverts(n, peer_list[k], pid[peer_list[k]]) \in Seq(Notes(T, M))
    <3>1. PICK p, q : p = peer_list[k] /\ q = pid[peer_list[k]]
      OBVIOUS
    <3>2. \A v \in Vectors : Msg(q, Eventfd(p, v)) \in M
      BY <1>0, <3>1
    <3>3. Adverts(n, p, q) \in Seq(Notes(T, M))
      BY <1>1, <3>2, AdvertsTyped
    <3> QED
      BY <3>1, <3>3
  <2>2. /\ DOMAIN g = 1 .. l /\ g = [k \in 1 .. l |-> g[k]]
        /\ \A k \in 1 .. l : g[k] = Adverts(n, peer_list[k], pid[peer_list[k]])
    BY <1>0
  <2>3. \A k \in 1 .. l : g[k] \in Seq(Notes(T, M))
    BY <2>1, <2>2
  <2> HIDE DEF g
  <2> QED
    BY <1>0, <2>2, <2>3, FlattenNotes
<1>4. V \in Seq(Notes(T, M))
  BY <1>1, AdvertsTyped
<1>5. /\ A \in Seq(Sends) /\ Len(A) = 3
      /\ \A k \in 1 .. 3 : /\ A[k].must /\ A[k].to = n
                           /\ A[k].msg = <<Msg(0, None), Msg(i, None), Msg(-1, Shm)>>[k]
  BY InfoTyped
<1>6. NewConnSends(n, i) = ((A \o FlattenSeq(f)) \o FlattenSeq(g)) \o V
  BY DEF NewConnSends
<1>7. PICK F, G : F = FlattenSeq(f) /\ G = FlattenSeq(g)
  OBVIOUS
<1> HIDE DEF A, f, g, V
<1>8. F \in Seq(Notes(T, M)) /\ G \in Seq(Notes(T, M))
  BY <1>2, <1>3, <1>7
<1>9. Notes(T, M) \subseteq Sends
  BY <1>T DEF Notes, Sends
<1>10. F \in Seq(Sends) /\ G \in Seq(Sends) /\ V \in Seq(Sends)
  BY <1>4, <1>8, <1>9, SeqMonotonic
<1>11. A \o F \in Seq(Sends) /\ (A \o F) \o G \in Seq(Sends) /\ ((A \o F) \o G) \o V \in Seq(Sends)
  BY <1>5, <1>10, ConcatProperties
<1>12. F \o G \in Seq(Notes(T, M)) /\ (F \o G) \o V \in Seq(Notes(T, M)) /\ F \o G \in Seq(Sends)
  BY <1>4, <1>8, <1>10, ConcatProperties
<1>13. ((A \o F) \o G) \o V = A \o ((F \o G) \o V)
  <2>1. PICK a \in Seq(Sends), f1 \in Seq(Sends), g1 \in Seq(Sends), v \in Seq(Sends) :
          a = A /\ f1 = F /\ g1 = G /\ v = V
    BY <1>5, <1>10
  <2>2. (a \o f1) \o g1 = a \o (f1 \o g1)
    BY ConcatAssociative, SMTT(60)
  <2>3. PICK h \in Seq(Sends) : h = f1 \o g1
    BY <1>12, <2>1
  <2>4. (a \o h) \o v = a \o (h \o v)
    BY ConcatAssociative, SMTT(60)
  <2> QED
    BY <2>1, <2>2, <2>3, <2>4
<1>14. PICK r \in Seq(Notes(T, M)) : r = (F \o G) \o V
  BY <1>12
<1>15. PICK s \in Seq(Sends) : s = NewConnSends(n, i) /\ s = A \o r
  BY <1>6, <1>7, <1>11, <1>13, <1>14
<1>16. r \in Seq(Sends) /\ Len(r) \in Nat
  BY <1>9, SeqMonotonic, LenProperties
<1>17. Len(s) = 3 + Len(r) /\ \A k \in 1 .. 3 + Len(r) : s[k] = IF k <= 3 THEN A[k] ELSE r[k - 3]
  <2>1. Len(s) = Len(A) + Len(r) /\ \A k \in 1 .. Len(A) + Len(r) : s[k] = IF k <= Len(A) THEN A[k] ELSE r[k - Len(A)]
    <3>1. A \in Seq(Sends) /\ r \in Seq(Sends) /\ s = A \o r
      BY <1>5, <1>15, <1>16
    <3> QED
      BY <3>1, ConcatProperties
  <2> QED
    <3>1. Len(A) = 3
      BY <1>5
    <3> QED
      BY <2>1, <3>1
<1>18. \A k \in 1 .. Len(r) : r[k].must = FALSE /\ r[k].to \in T /\ r[k].msg \in M
  <2>1. \A k \in 1 .. Len(r) : r[k] \in Notes(T, M)
    BY ElementOfSeq
  <2> QED
    BY <2>1 DEF Notes
<1>19. ASSUME NEW k \in 1 .. Len(s)
       PROVE  /\ s[k].must <=> k <= 3
              /\ k <= 3 => /\ s[k].to = n
                           /\ s[k].msg = <<Msg(0, None), Msg(i, None), Msg(-1, Shm)>>[k]
              /\ s[k].to \in Here \cup {n}
              /\ k > 3 => s[k].msg \in M
  <2>1. CASE k <= 3
    <3>1. k \in 1 .. 3 /\ s[k] = A[k]
      BY <2>1, <1>16, <1>17
    <3> QED
      BY <3>1, <2>1, <1>5
  <2>2. CASE ~ (k <= 3)
    <3>1. k - 3 \in 1 .. Len(r) /\ s[k] = r[k - 3]
      BY <2>2, <1>16, <1>17
    <3> QED
      BY <3>1, <2>2, <1>18 DEF T
  <2> QED
    BY <2>1, <2>2
<1>20. Len(s) >= 3
  BY <1>16, <1>17
<1>21. Begins(s, n, i, Here, M)
  BY <1>19, <1>20 DEF Begins
<1> QED
  BY <1>15, <1>21

\* The notifications of ivshmem_server_free_peer.
LEMMA FreeTyped ==
    ASSUME NEW r \in Seq(Conns), NEW i \in Ids \cup {NoId}
    PROVE  LET s == [k \in DOMAIN r |-> SendTo(r[k], i, None)] IN
           /\ s \in Seq(Sends)
           /\ \A k \in 1 .. Len(s) : ~ s[k].must /\ s[k].to \in Vals(r) /\ s[k].msg = Msg(i, None)
<1>1. Len(r) \in Nat /\ DOMAIN r = 1 .. Len(r) /\ \A k \in 1 .. Len(r) : r[k] \in Conns
  BY LenProperties, ElementOfSeq
<1>2. Shm # None
  BY NoneAssumption DEF Shm
<1>3. Msg(i, None) \in Sound
  BY <1>2 DEF Msg, Messages, NoId, Sound
<1>4. \A k \in 1 .. Len(r) : SendTo(r[k], i, None) \in Sends
  BY <1>1, <1>3 DEF SendTo, Sends
<1> DEFINE s == [k \in 1 .. Len(r) |-> SendTo(r[k], i, None)]
<1>5. s \in Seq(Sends) /\ Len(s) = Len(r)
  <2> HIDE DEF Sends
  <2> QED
    BY <1>1, <1>4
<1>6. \A k \in 1 .. Len(s) : ~ s[k].must /\ s[k].to \in Vals(r) /\ s[k].msg = Msg(i, None)
  BY <1>1, <1>5 DEF SendTo, Vals
<1> QED
  BY <1>1, <1>5, <1>6

-------------------------------------------------------------------------------
(* The invariant: its initial states and what follows from it *)

LEMMA HereListed == ASSUME peer_list \in Seq(Conns) PROVE Listed = Here
BY LenProperties DEF Listed, Here, Vals

LEMMA QueuedRange == ASSUME backlog \in Seq(Conns) PROVE Range(backlog) = Queued
BY ValsRange DEF Queued

LEMMA IInvInit == Init => IInv
<1> SUFFICES ASSUME Init PROVE IInv
  OBVIOUS
<1>0. 0 \in Ids /\ 0 \in 0 .. MaxStarts
  BY BoundAssumption, IdSpaceAssumption DEF Ids
<1>1. ServerType
  BY <1>0, EmptySeq DEF Init, ServerType, NoId
<1>2. ClientType
  BY VectorAssumption, EmptySeq DEF Init, ClientType, ClientPcs, NoPeers
<1>3. NetType
  BY BoundAssumption, SockBufAssumption, EmptySeq DEF Init, NetType
<1>4. PlaceInv
  BY DEF Init, PlaceInv
<1>5. Here = {} /\ Queued = {} /\ Distinct(peer_list) /\ Distinct(backlog)
  BY ValsEmpty DEF Init, Here, Queued
<1>6. ConnInv
  BY <1>5 DEF Init, ConnInv
<1>7. SockInv
  BY NoneAssumption DEF Init, SockInv
<1>8. InfoInv
  BY <1>5 DEF Init, InfoInv
<1>9. IdsUnique
  BY DEF Init, IdsUnique, Present, Listed
<1> QED
  BY <1>1, <1>2, <1>3, <1>4, <1>6, <1>7, <1>8, <1>9 DEF IInv

\* The invariant gives the type invariant that the runs check.
LEMMA IInvType == IInv => TypeOK
<1> SUFFICES ASSUME IInv PROVE TypeOK
  OBVIOUS
<1> USE DEF IInv
<1>1. Listed \subseteq Conns
  BY HereListed, ValsRange DEF ServerType, Here
<1>2. Range(backlog) \subseteq Conns
  BY ValsRange DEF NetType
<1>3. \A k \in DOMAIN sends : sends[k].to \in Conns /\ sends[k].msg \in Messages
  <2>1. \A k \in DOMAIN sends : sends[k] \in Sends
    BY LenProperties, ElementOfSeq DEF ServerType
  <2> QED
    BY <2>1 DEF Sends, Sound
<1>4. \A c \in Clients, i \in Ids : Range(table[c][i]) \subseteq Eventfds /\ Len(table[c][i]) <= MaxVectors
  BY RangeOfSeq DEF ClientType
<1>5. \A n \in Conns : Range(inbox[n]) \subseteq Messages /\ Len(inbox[n]) <= SockBuf
  <2>1. \A n \in Conns : Range(inbox[n]) \subseteq Sound
    BY RangeOfSeq DEF NetType
  <2> QED
    BY <2>1 DEF Sound, NetType
<1> QED
  BY <1>1, <1>2, <1>3, <1>4, <1>5 DEF ServerType, ClientType, NetType, TypeOK

LEMMA IInvNothing == IInv => NothingLeft
<1> SUFFICES ASSUME IInv, phase = "off" PROVE open = {} /\ evfd = {} /\ srvend = {}
  BY DEF NothingLeft
<1>1. peer_list = <<>> /\ backlog = <<>> /\ open = {} /\ pc \notin {"conn", "free"}
  BY DEF IInv, PlaceInv
<1>2. Here = {} /\ Queued = {}
  BY <1>1, ValsEmpty DEF Here, Queued
<1> QED
  BY <1>1, <1>2 DEF IInv, ConnInv

-------------------------------------------------------------------------------
(* Steps of the thread that touch no connection *)

LEMMA Moves ==
    ASSUME IInv, UNCHANGED <<peer_list, pid, evfd, cur, sends, client, net>>,
           ServerType', PlaceInv', pc' = pc \/ {pc, pc'} \cap {"conn", "free"} = {}
    PROVE  IInv'
<1> USE DEF IInv, client, net
<1>1. ClientType' /\ NetType'
  BY DEF ClientType, NetType
<1>2. Here' = Here /\ Queued' = Queued /\ Listed' = Listed
  BY DEF Here, Queued, Listed
<1>3. ConnInv'
  BY <1>2 DEF ConnInv
<1>4. SockInv'
  BY DEF SockInv
<1>5. \A c \in Clients : Got(c)' = Got(c)
  BY DEF Got
<1>6. \A n : Info(n)' = Info(n)
  BY DEF Info
<1>7. \A n, j : Delivered(n, j)' <=> Delivered(n, j)
  BY <1>5 DEF Delivered
<1>8. \A j : Left(j)' <=> Left(j)
  BY <1>2, <1>6 DEF Left
<1>9. InfoInv'
  <2>1. pc' = "conn" => \E j \in 0 .. 3 : Left(j)' /\ Delivered(cur, j)'
    BY <1>7, <1>8 DEF InfoInv
  <2> QED
    BY <2>1, <1>2, <1>5, <1>6, <1>7 DEF InfoInv
<1>10. Present' = Present
  BY <1>2 DEF Present
<1>11. IdsUnique'
  BY <1>10 DEF IdsUnique
<1> QED
  BY <1>1, <1>3, <1>4, <1>9, <1>11

LEMMA ThreadSteps ==
    ASSUME IInv,
           \/ ServerStart \/ ListenFails \/ Daemonize \/ DaemonFails \/ Sigterm
           \/ LoopTest \/ EnterSelect \/ SelectReturns \/ FdsDone \/ AcceptFails
    PROVE  IInv'
<1> USE DEF IInv
<1>0. MaxStarts \in Nat /\ 0 \in Ids
  BY BoundAssumption, IdSpaceAssumption DEF Ids
<1>1. CASE ServerStart \/ ListenFails
  <2>0. starts' \in 0 .. MaxStarts
    BY <1>0, <1>1 DEF ServerStart, ListenFails, ServerType
  <2>1. ServerType'
    <3>1. CASE ServerStart
      BY <1>0, <2>0, <3>1 DEF ServerStart, ServerType
    <3>2. CASE ListenFails
      BY <2>0, <3>2 DEF ListenFails, ServerType
    <3> QED
      BY <1>1, <3>1, <3>2
  <2>2. PlaceInv'
    BY <1>1 DEF ServerStart, ListenFails, PlaceInv, net
  <2>3. /\ UNCHANGED <<peer_list, pid, evfd, cur, sends, client, net>>
        /\ pc' = pc \/ {pc, pc'} \cap {"conn", "free"} = {}
    BY <1>1 DEF ServerStart, ListenFails, PlaceInv
  <2> QED
    BY <2>1, <2>2, <2>3, Moves
<1>2. CASE Daemonize \/ DaemonFails \/ Sigterm \/ EnterSelect
  <2>1. ServerType'
    BY <1>2 DEF Daemonize, DaemonFails, Sigterm, EnterSelect, Ends, ServerType
  <2>2. PlaceInv'
    BY <1>2 DEF Daemonize, DaemonFails, Sigterm, EnterSelect, Ends, PlaceInv, net, ServerType
  <2>3. /\ UNCHANGED <<peer_list, pid, evfd, cur, sends, client, net>>
        /\ pc' = pc \/ {pc, pc'} \cap {"conn", "free"} = {}
    BY <1>2 DEF Daemonize, DaemonFails, Sigterm, EnterSelect, Ends
  <2> QED
    BY <2>1, <2>2, <2>3, Moves
<1>3. CASE LoopTest \/ FdsDone \/ AcceptFails
  <2>1. ServerType'
    BY <1>3 DEF LoopTest, FdsDone, AcceptFails, Accepting, Ends, ServerType
  <2>2. PlaceInv'
    BY <1>3 DEF LoopTest, FdsDone, AcceptFails, Accepting, Ends, PlaceInv, net
  <2>3. /\ UNCHANGED <<peer_list, pid, evfd, cur, sends, client, net>>
        /\ pc' = pc \/ {pc, pc'} \cap {"conn", "free"} = {}
    BY <1>3 DEF LoopTest, FdsDone, AcceptFails, Accepting, Ends
  <2> QED
    BY <2>1, <2>2, <2>3, Moves
<1>4. CASE SelectReturns
  <2>0. Ready \subseteq Conns \cup {Listen} /\ (Listen \in Ready => backlog # <<>>)
    <3>1. Listed \subseteq Conns /\ Listen \notin Conns
      BY BoundAssumption, HereListed, ValsRange DEF ServerType, Here, Listen, Conns
    <3> QED
      BY <3>1 DEF Ready
  <2>1. ServerType'
    BY <1>4, <2>0 DEF SelectReturns, ServerType
  <2>2. PlaceInv'
    BY <1>4, <2>0 DEF SelectReturns, PlaceInv, net
  <2>3. /\ UNCHANGED <<peer_list, pid, evfd, cur, sends, client, net>>
        /\ pc' = pc \/ {pc, pc'} \cap {"conn", "free"} = {}
    BY <1>4 DEF SelectReturns
  <2> QED
    BY <2>1, <2>2, <2>3, Moves
<1> QED
  BY <1>1, <1>2, <1>3, <1>4

-------------------------------------------------------------------------------
(* A connection is accepted, or refused *)

\* The id that handle_new_conn finds, and those it tried, are ids.
LEMMA StepsIds ==
    ASSUME ServerType, Steps # {}
    PROVE  /\ (cur_id + Min(Steps)) % IdSpace \in Ids
           /\ (cur_id + Min(Steps) + 1) % IdSpace \in Ids
           /\ (((cur_id + Min(Steps)) % IdSpace) + 1) % IdSpace \in Ids
           /\ search_peer((cur_id + Min(Steps)) % IdSpace) = {}
<1>1. Steps \in SUBSET Nat
  BY IdSpaceAssumption DEF Steps
<1>2. Min(Steps) \in Steps
  BY <1>1, MinIn
<1>3. Min(Steps) \in Nat /\ search_peer((cur_id + Min(Steps)) % IdSpace) = {}
  BY <1>1, <1>2 DEF Steps
<1>4. cur_id \in Nat
  BY IdSpaceAssumption DEF ServerType, Ids
<1>5. PICK m \in Nat : m = Min(Steps)
  BY <1>3
<1>6. (cur_id + m) % IdSpace \in Ids /\ (cur_id + m + 1) % IdSpace \in Ids
  BY <1>4, ModIds
<1>7. ((cur_id + m) % IdSpace) + 1 \in Nat
  BY <1>6, IdSpaceAssumption DEF Ids
<1>8. (((cur_id + m) % IdSpace) + 1) % IdSpace \in Ids
  BY <1>7, ModIds
<1> QED
  BY <1>3, <1>5, <1>6, <1>8

LEMMA HandleNewConnStep == ASSUME IInv, HandleNewConn PROVE IInv'
<1> USE DEF IInv
<1>1. PICK n, i : n = Head(backlog) /\ i = (cur_id + Min(Steps)) % IdSpace
  OBVIOUS
<1>2. /\ phase = "run" /\ pc = "fds" /\ Listen \in fds /\ Steps # {}
      /\ cur' = n /\ pid' = [pid EXCEPT ![n] = i] /\ cur_id' = (i + 1) % IdSpace
      /\ evfd' = evfd \cup {n} /\ sends' = NewConnSends(n, i) /\ backlog' = Tail(backlog)
      /\ fds' = fds \ {Listen} /\ pc' = "conn"
      /\ UNCHANGED <<phase, quit, open, path, starts, peer_list, srvend,
                     inbox, reset, rung, lost, made>>
      /\ UNCHANGED <<cpc, sock, local, table>>
  BY <1>1 DEF HandleNewConn, Accepting, client
<1>3. /\ n \in Conns /\ backlog' \in Seq(Conns) /\ Distinct(backlog')
      /\ Queued' = Queued \ {n} /\ n \in Queued
  <2>1. backlog # <<>> /\ backlog \in Seq(Conns) /\ Distinct(backlog)
    BY <1>2 DEF PlaceInv, NetType, ConnInv
  <2> QED
    BY <1>1, <1>2, <2>1, TailVals DEF Queued
<1>4. i \in Ids /\ cur_id' \in Ids /\ search_peer(i) = {}
  BY <1>1, <1>2, StepsIds
<1>a. NewConnSends(n, i) \in Seq(Sends) /\ Begins(NewConnSends(n, i), n, i, Here, Sound)
  <2>1. Here \subseteq Conns /\ peer_list \in Seq(Conns) /\ pid \in [Conns -> Ids \cup {NoId}]
    BY ValsRange DEF Here, ServerType
  <2>2. \A v \in Vectors : Msg(i, Eventfd(n, v)) \in Sound
    BY <1>3, <1>4, EventfdSound
  <2>3. \A p \in Here : \A v \in Vectors : Msg(pid[p], Eventfd(p, v)) \in Sound
    BY <2>1, EventfdSound
  <2> QED
    BY <1>3, <1>4, <2>1, <2>2, <2>3, NewConnTyped
<1>b. sends' \in Seq(Sends) /\ Begins(sends', n, i, Here, Sound)
  BY <1>a, <1>2
<1>5. /\ sends' \in Seq(Sends) /\ Len(sends') >= 3
      /\ \A k \in 1 .. Len(sends') :
           /\ sends'[k].must <=> k <= 3
           /\ k <= 3 => /\ sends'[k].to = n
                        /\ sends'[k].msg = <<Msg(0, None), Msg(i, None), Msg(-1, Shm)>>[k]
           /\ sends'[k].to \in Here \cup {n}
  BY <1>b DEF Begins
<1>6. Here' = Here /\ Listed = Here /\ Listed' = Here
  BY <1>2, HereListed DEF ServerType, Here, Listed
<1>7. ServerType'
  BY <1>2, <1>3, <1>4, <1>5 DEF ServerType
<1>8. ClientType' /\ NetType'
  BY <1>2, <1>3 DEF ClientType, NetType
<1>9. PlaceInv'
  BY <1>2, <1>3, <1>5 DEF PlaceInv
<1>10. ConnInv'
  <2>1. n \notin Here \cup Queued' /\ n <= made /\ cur' = n /\ pc' = "conn"
    BY <1>2, <1>3 DEF ConnInv
  <2>2. evfd' = Here' \cup {m \in {cur'} : pc' \in {"conn", "free"}}
    BY <1>2, <1>6 DEF ConnInv
  <2>3. srvend' = Here' \cup Queued' \cup {m \in {cur'} : pc' = "conn"}
    BY <1>2, <1>3, <1>6 DEF ConnInv
  <2> QED
    BY <1>2, <1>3, <1>6, <2>1, <2>2, <2>3 DEF ConnInv
<1>11. SockInv'
  BY <1>2 DEF SockInv
<1>12. \A c \in Clients : Got(c)' = Got(c)
  BY <1>2 DEF Got
<1>13. \A m, j : Delivered(m, j)' <=> Delivered(m, j)
  BY <1>2, <1>12 DEF Delivered
<1>14. Left(0)'
  <2>1. Info(cur)' = <<Msg(0, None), Msg(i, None), Msg(-1, Shm)>>
    BY <1>2, <1>3 DEF Info, ServerType
  <2> QED
    BY <1>2, <1>5, <1>6, <2>1 DEF Left
<1>15. inbox[n] = <<>> /\ Delivered(n, 0)
  BY <1>3 DEF InfoInv
<1>16. \A c \in Clients : sock[c] # None =>
         \A k \in 1 .. Len(inbox[sock[c]]) :
             Got(c) + k <= 3 => inbox[sock[c]][k] = Info(sock[c])'[Got(c) + k]
  <2> SUFFICES ASSUME NEW c \in Clients, sock[c] # None, NEW k \in 1 .. Len(inbox[sock[c]]),
                      Got(c) + k <= 3
               PROVE  inbox[sock[c]][k] = Info(sock[c])'[Got(c) + k]
    OBVIOUS
  <2>1. sock[c] # n
    BY <1>15
  <2>2. Info(sock[c])' = Info(sock[c])
    BY <1>2, <2>1 DEF Info, ServerType, ClientType
  <2> QED
    BY <2>2 DEF InfoInv
<1>17. InfoInv'
  <2>1. \E j \in 0 .. 3 : Left(j)' /\ Delivered(cur, j)'
    BY <1>2, <1>13, <1>14, <1>15
  <2> QED
    BY <2>1, <1>2, <1>3, <1>6, <1>12, <1>13, <1>16 DEF InfoInv
<1>18. IdsUnique'
  <2>1. n \notin Here /\ Present' = Here \cup {n} /\ Here \subseteq Conns
    BY <1>2, <1>3, <1>6, ValsRange DEF Present, ConnInv, ServerType, Here
  <2>2. \A m \in Here : pid'[m] = pid[m] /\ pid[m] # i
    BY <1>2, <1>4, <1>6, <2>1 DEF ServerType, search_peer
  <2>3. pid'[n] = i /\ Here \subseteq Present
    BY <1>2, <1>3, <1>6 DEF ServerType, Present
  <2>4. \A m, q \in Present' : pid'[m] = pid'[q] => m = q
    BY <2>1, <2>2, <2>3 DEF IdsUnique
  <2>5. ASSUME NEW c \in Clients, cpc[c] \in {"shm", "poll"} PROVE local[c] = pid'[sock[c]]
    <3>1. sock[c] # n
      <4>1. ASSUME sock[c] = n PROVE Got(c) + 0 = 0
        BY <1>15, <4>1 DEF Delivered
      <4>2. Got(c) \in {2, 3}
        BY <2>5 DEF Got
      <4> QED
        BY <4>1, <4>2
    <3> QED
      BY <1>2, <2>5, <3>1 DEF IdsUnique, ServerType, ClientType
  <2> QED
    BY <1>2, <2>4, <2>5 DEF IdsUnique
<1> QED
  BY <1>7, <1>8, <1>9, <1>10, <1>11, <1>17, <1>18

LEMMA NewConnFailsStep == ASSUME IInv, NewConnFails PROVE IInv'
<1> USE DEF IInv
<1>1. PICK n : n = Head(backlog)
  OBVIOUS
<1>2. /\ phase = "run" /\ pc = "fds" /\ Listen \in fds
      /\ cur_id' = IF Steps = {} THEN (cur_id + IdSpace - 1) % IdSpace
                   ELSE (cur_id + Min(Steps) + 1) % IdSpace
      /\ backlog' = Tail(backlog) /\ srvend' = srvend \ {n}
      /\ phase' = "close" /\ pc' = "fds" /\ fds' = {}
      /\ UNCHANGED <<quit, open, path, starts, peer_list, pid, evfd, cur, sends,
                     inbox, reset, rung, lost, made>>
      /\ UNCHANGED <<cpc, sock, local, table>>
  BY <1>1 DEF NewConnFails, Accepting, Ends, client
<1>3. /\ n \in Conns /\ backlog' \in Seq(Conns) /\ Distinct(backlog')
      /\ Queued' = Queued \ {n} /\ n \in Queued
  <2>1. backlog # <<>> /\ backlog \in Seq(Conns) /\ Distinct(backlog)
    BY <1>2 DEF PlaceInv, NetType, ConnInv
  <2> QED
    BY <1>1, <1>2, <2>1, TailVals DEF Queued
<1>4. cur_id' \in Ids
  <2>1. CASE Steps = {}
    <3>1. cur_id + IdSpace - 1 \in Nat
      BY IdSpaceAssumption DEF ServerType, Ids
    <3> QED
      BY <1>2, <2>1, <3>1, ModIds
  <2>2. CASE Steps # {}
    BY <1>2, <2>2, StepsIds
  <2> QED
    BY <2>1, <2>2
<1>5. Here' = Here /\ Present' = Present
  BY <1>2 DEF Here, Present, Listed
<1>6. ServerType'
  BY <1>2, <1>4 DEF ServerType
<1>7. ClientType' /\ NetType'
  BY <1>2, <1>3 DEF ClientType, NetType
<1>8. PlaceInv'
  BY <1>2 DEF PlaceInv
<1>9. ConnInv'
  <2>1. evfd' = Here' \cup {m \in {cur'} : pc' \in {"conn", "free"}}
    BY <1>2, <1>5 DEF ConnInv
  <2>2. srvend' = Here' \cup Queued' \cup {m \in {cur'} : pc' = "conn"}
    BY <1>2, <1>3, <1>5 DEF ConnInv
  <2> QED
    BY <1>2, <1>3, <1>5, <2>1, <2>2 DEF ConnInv
<1>10. SockInv'
  BY <1>2 DEF SockInv
<1>11. /\ \A c \in Clients : Got(c)' = Got(c)
       /\ \A m : Info(m)' = Info(m)
  BY <1>2 DEF Got, Info
<1>12. \A m, j : Delivered(m, j)' <=> Delivered(m, j)
  BY <1>2, <1>11 DEF Delivered
<1>13. InfoInv'
  BY <1>2, <1>3, <1>5, <1>11, <1>12 DEF InfoInv
<1>14. IdsUnique'
  BY <1>2, <1>5 DEF IdsUnique
<1> QED
  BY <1>6, <1>7, <1>8, <1>9, <1>10, <1>13, <1>14

\* The new client has gone: the fail label.
LEMMA InitialInfoFailsStep == ASSUME IInv, InitialInfoFails PROVE IInv'
<1> USE DEF IInv
<1>1. /\ sends # <<>> /\ Head(sends).must /\ sends' = <<>> /\ cur' = None
      /\ evfd' = evfd \ {cur} /\ srvend' = srvend \ {cur}
      /\ phase' = "close" /\ pc' = "fds" /\ fds' = {}
      /\ UNCHANGED <<quit, open, path, starts, cur_id, peer_list, pid, backlog, inbox,
                     reset, rung, lost, made>>
      /\ UNCHANGED <<cpc, sock, local, table>>
  BY DEF InitialInfoFails, Ends, client
<1>2. pc = "conn" /\ cur \in Conns
  <2>1. Len(sends) \in Nat \ {0} /\ Head(sends) = sends[1]
    BY <1>1, EmptySeq DEF ServerType
  <2>2. 1 \in 1 .. Len(sends) /\ sends[1].must
    BY <1>1, <2>1
  <2> QED
    BY <1>1, <2>2 DEF PlaceInv, InfoInv
<1>3. Here' = Here /\ Queued' = Queued /\ Listed' = Listed /\ Present' \subseteq Present
  BY <1>1 DEF Here, Queued, Listed, Present
<1>4. ServerType'
  BY <1>1, EmptySeq DEF ServerType
<1>5. ClientType' /\ NetType'
  BY <1>1 DEF ClientType, NetType
<1>6. PlaceInv'
  BY <1>1 DEF PlaceInv
<1>7. ConnInv'
  <2>1. evfd' = Here' \cup {m \in {cur'} : pc' \in {"conn", "free"}}
    BY <1>1, <1>2, <1>3 DEF ConnInv
  <2>2. srvend' = Here' \cup Queued' \cup {m \in {cur'} : pc' = "conn"}
    BY <1>1, <1>2, <1>3 DEF ConnInv
  <2> QED
    BY <1>1, <1>3, <2>1, <2>2 DEF ConnInv
<1>8. SockInv'
  BY <1>1 DEF SockInv
<1>9. /\ \A c \in Clients : Got(c)' = Got(c)
      /\ \A m : Info(m)' = Info(m)
  BY <1>1 DEF Got, Info
<1>10. \A m, j : Delivered(m, j)' <=> Delivered(m, j)
  BY <1>1, <1>9 DEF Delivered
<1>11. InfoInv'
  BY <1>1, <1>3, <1>9, <1>10 DEF InfoInv
<1>12. IdsUnique'
  BY <1>1, <1>3 DEF IdsUnique
<1> QED
  BY <1>4, <1>5, <1>6, <1>7, <1>8, <1>11, <1>12

\* The new peer enters the list, and has had its initial info by then.
LEMMA NewConnDoneStep == ASSUME IInv, NewConnDone PROVE IInv'
<1> USE DEF IInv
<1>1. /\ pc = "conn" /\ sends = <<>> /\ peer_list' = Append(peer_list, cur)
      /\ cur' = None /\ pc' = "fds"
      /\ UNCHANGED <<phase, quit, open, path, starts, cur_id, pid, evfd, fds, sends>>
      /\ UNCHANGED <<cpc, sock, local, table>>
      /\ UNCHANGED <<srvend, backlog, inbox, reset, rung, lost, made>>
  BY DEF NewConnDone, client, net
<1>2. phase = "run" /\ cur \in Conns /\ cur \notin Here \cup Queued
  BY <1>1 DEF PlaceInv, ConnInv, ServerType
<1>3. peer_list' \in Seq(Conns) /\ Here' = Here \cup {cur} /\ Distinct(peer_list')
  BY <1>1, <1>2, AppendVals DEF ServerType, ConnInv, Here
<1>4. Queued' = Queued
  BY <1>1 DEF Queued
<1>5. ServerType'
  BY <1>1, <1>3 DEF ServerType
<1>6. ClientType' /\ NetType'
  BY <1>1 DEF ClientType, NetType
<1>7. PlaceInv'
  BY <1>1, <1>2 DEF PlaceInv
<1>8. ConnInv'
  <2>1. evfd' = Here' \cup {m \in {cur'} : pc' \in {"conn", "free"}}
    BY <1>1, <1>3 DEF ConnInv
  <2>2. srvend' = Here' \cup Queued' \cup {m \in {cur'} : pc' = "conn"}
    BY <1>1, <1>3, <1>4 DEF ConnInv
  <2>3. cur <= made
    BY <1>1 DEF ConnInv
  <2> QED
    BY <1>1, <1>2, <1>3, <1>4, <2>1, <2>2, <2>3 DEF ConnInv
<1>9. SockInv'
  BY <1>1 DEF SockInv
<1>10. /\ \A c \in Clients : Got(c)' = Got(c)
       /\ \A m : Info(m)' = Info(m)
  BY <1>1 DEF Got, Info
<1>11. \A m, j : Delivered(m, j)' <=> Delivered(m, j)
  BY <1>1, <1>10 DEF Delivered
<1>12. Delivered(cur, 3)
  <2>1. PICK j \in 0 .. 3 : Left(j) /\ Delivered(cur, j)
    BY <1>1 DEF InfoInv
  <2>2. Len(sends) = 0
    BY <1>1
  <2>3. j = 3
    BY <2>1, <2>2 DEF Left
  <2> QED
    BY <2>1, <2>3
<1>13. InfoInv'
  BY <1>1, <1>3, <1>4, <1>10, <1>11, <1>12 DEF InfoInv
<1>14. Listed = Here /\ Listed' = Here'
  <2>1. DOMAIN peer_list' = 1 .. Len(peer_list')
    BY <1>3, LenProperties
  <2>2. Listed' = Here'
    BY <2>1 DEF Listed, Here, Vals
  <2> QED
    BY <2>2, HereListed DEF ServerType
<1>15. Present' = Present
  BY <1>1, <1>3, <1>14 DEF Present
<1>16. IdsUnique'
  BY <1>1, <1>15 DEF IdsUnique
<1> QED
  BY <1>5, <1>6, <1>7, <1>8, <1>9, <1>13, <1>16

-------------------------------------------------------------------------------
(* One message, and peers that leave *)

LEMMA SendOneStep == ASSUME IInv, SendOne PROVE IInv'
<1> USE DEF IInv
<1>1. PICK s : s = Head(sends)
  OBVIOUS
<1>2. /\ sends # <<>> /\ sends' = Tail(sends) /\ (Room(s.to) \/ ~ s.must)
      /\ \/ Room(s.to) /\ inbox' = [inbox EXCEPT ![s.to] = Append(@, s.msg)] /\ lost' = lost
         \/ ~ Room(s.to) /\ lost' = lost \cup {n \in {s.to} : Owner(n) # {}} /\ inbox' = inbox
      /\ UNCHANGED <<phase, pc, quit, open, path, starts, cur_id, peer_list, pid,
                     evfd, fds, cur, srvend, backlog, reset, rung, made>>
      /\ UNCHANGED <<cpc, sock, local, table>>
  BY <1>1 DEF SendOne, client
<1>3. /\ s \in Sends /\ sends' \in Seq(Sends) /\ s = sends[1] /\ Len(sends) \in Nat \ {0}
      /\ Len(sends') = Len(sends) - 1 /\ \A k \in 1 .. Len(sends') : sends'[k] = sends[k + 1]
  BY <1>1, <1>2, HeadTailProperties, EmptySeq, LenProperties DEF ServerType
<1>4. PICK n, m : n = s.to /\ m = s.msg
  OBVIOUS
<1>5. n \in Conns /\ m \in Sound
  BY <1>3, <1>4 DEF Sends
<1>6. 1 \in 1 .. Len(sends) /\ \A k \in 1 .. Len(sends') : k + 1 \in 1 .. Len(sends)
  BY <1>3
<1>7. inbox \in [Conns -> Seq(Sound)] /\ inbox[n] \in Seq(Sound) /\ Len(inbox[n]) \in Nat
  BY <1>5, LenProperties DEF NetType
<1>8. PICK b \in Seq(Sound) : b = Append(inbox[n], m)
  BY <1>5, <1>7, AppendProperties
<1>9. /\ Len(b) = Len(inbox[n]) + 1 /\ b[Len(inbox[n]) + 1] = m
      /\ \A k \in 1 .. Len(inbox[n]) : b[k] = inbox[n][k]
  BY <1>5, <1>7, <1>8, AppendProperties
<1>10. /\ \A x \in Conns : x # n => inbox'[x] = inbox[x]
       /\ \/ inbox'[n] = b /\ Room(n)
          \/ inbox'[n] = inbox[n] /\ ~ Room(n)
       /\ inbox' \in [Conns -> Seq(Sound)]
  BY <1>2, <1>4, <1>5, <1>7, <1>8
<1>11. /\ Here' = Here /\ Queued' = Queued /\ Present' = Present
       /\ \A c \in Clients : Got(c)' = Got(c)
       /\ \A x : Info(x)' = Info(x)
  BY <1>2 DEF Here, Queued, Present, Listed, Got, Info
<1>12. ServerType'
  BY <1>2, <1>3 DEF ServerType
<1>13. ClientType'
  BY <1>2 DEF ClientType
<1>14. NetType'
  <2>1. Len(inbox'[n]) <= SockBuf
    BY <1>5, <1>7, <1>9, <1>10, SockBufAssumption DEF Room, NetType
  <2>2. \A x \in Conns : Len(inbox'[x]) <= SockBuf
    BY <2>1, <1>10 DEF NetType
  <2>3. lost' \subseteq Conns
    BY <1>2, <1>4, <1>5 DEF NetType
  <2> QED
    BY <1>2, <1>10, <2>2, <2>3 DEF NetType
<1>15. PlaceInv'
  BY <1>2 DEF PlaceInv
<1>16. ConnInv'
  BY <1>2, <1>11 DEF ConnInv
<1>17. SockInv'
  BY <1>2 DEF SockInv
<1>18. IdsUnique'
  BY <1>2, <1>11 DEF IdsUnique
<1>19. pc \in {"conn", "free"}
  BY <1>2 DEF PlaceInv
<1>20. n \in Here \/ (n = cur /\ pc = "conn")
  BY <1>3, <1>4, <1>6, <1>19 DEF InfoInv, Left
<1>21. n \notin Queued /\ n \notin reset /\ n <= made
  BY <1>20 DEF ConnInv
<1>22. /\ \A x \in Queued : inbox'[x] = <<>> /\ Delivered(x, 0)'
       /\ \A x \in reset : inbox'[x] = <<>>
       /\ \A x \in Conns : x > made => inbox'[x] = <<>>
  <2>1. Queued \subseteq Conns /\ reset \subseteq Conns /\ made \in Nat
    BY ValsRange DEF NetType, Queued
  <2>2. ASSUME NEW x \in Queued PROVE inbox'[x] = <<>> /\ Delivered(x, 0)'
    <3>1. inbox'[x] = inbox[x]
      BY <1>10, <1>21, <2>1
    <3>2. inbox[x] = <<>> /\ Delivered(x, 0)
      BY DEF InfoInv
    <3> QED
      BY <1>2, <1>11, <3>1, <3>2 DEF Delivered
  <2>3. \A x \in Conns : x > made => x # n
    BY <1>5, <1>21, <2>1 DEF Conns
  <2> QED
    BY <1>10, <1>21, <2>1, <2>2, <2>3 DEF InfoInv
<1>23. \A c \in Clients : Got(c) \in 0 .. 3
  BY DEF Got
\* A connection that has had its initial info may get more.
<1>24. ASSUME NEW x \in Conns, Delivered(x, 3) PROVE Delivered(x, 3)'
  <2>1. Len(inbox'[x]) \in Nat /\ Len(inbox[x]) \in Nat /\ Len(inbox'[x]) >= Len(inbox[x])
    <3>1. inbox[x] \in Seq(Sound) /\ inbox'[x] \in Seq(Sound)
      BY <1>7, <1>10
    <3>2. Len(inbox'[x]) \in Nat /\ Len(inbox[x]) \in Nat
      BY <3>1, LenProperties
    <3>3. inbox'[x] = inbox[x] \/ Len(inbox'[x]) = Len(inbox[x]) + 1
      BY <1>9, <1>10
    <3> QED
      BY <3>2, <3>3
  <2>2. ASSUME NEW c \in Clients, sock[c] = x PROVE Got(c) + Len(inbox'[x]) >= 3
    <3>1. Got(c) + Len(inbox[x]) >= 3
      BY <1>24, <2>2 DEF Delivered
    <3> QED
      BY <1>23, <2>1, <3>1
  <2> QED
    BY <1>2, <1>11, <2>2 DEF Delivered
<1>25. \A x \in Here : Delivered(x, 3)'
  <2>1. Here \subseteq Conns
    BY ValsRange DEF ServerType, Here
  <2> QED
    BY <1>24, <2>1 DEF InfoInv
\* The clients' view of the buffers, when what is appended is in its place.
<1>26. ASSUME \A c \in Clients : (sock[c] = n /\ Got(c) + Len(inbox[n]) + 1 <= 3) =>
                 m = Info(n)[Got(c) + Len(inbox[n]) + 1]
       PROVE  \A c \in Clients : sock[c] # None =>
                \A k \in 1 .. Len(inbox'[sock[c]]) :
                  Got(c) + k <= 3 => inbox'[sock[c]][k] = Info(sock[c])[Got(c) + k]
  <2> SUFFICES ASSUME NEW c \in Clients, sock[c] # None, NEW k \in 1 .. Len(inbox'[sock[c]]),
                      Got(c) + k <= 3
               PROVE  inbox'[sock[c]][k] = Info(sock[c])[Got(c) + k]
    OBVIOUS
  <2>0. sock[c] \in Conns
    BY DEF ClientType
  <2>1. CASE k \in 1 .. Len(inbox[sock[c]]) /\ inbox'[sock[c]][k] = inbox[sock[c]][k]
    BY <2>1 DEF InfoInv
  <2>2. CASE sock[c] = n /\ inbox'[n] = b /\ k = Len(inbox[n]) + 1
    <3>1. Got(c) + k = Got(c) + Len(inbox[n]) + 1
      BY <1>7, <1>23, <2>2, SMTT(60)
    <3> QED
      BY <1>9, <1>26, <2>2, <3>1
  <2>3. sock[c] # n => inbox'[sock[c]] = inbox[sock[c]]
    BY <1>10, <2>0
  <2>4. ASSUME sock[c] = n, inbox'[n] = b PROVE k \in 1 .. Len(inbox[n]) \/ k = Len(inbox[n]) + 1
    BY <1>7, <1>9, <2>4
  <2> QED
    BY <1>9, <1>10, <2>1, <2>2, <2>3, <2>4
<1>27. CASE pc = "free"
  <2>1. \A k \in 1 .. Len(sends') : ~ sends'[k].must /\ sends'[k].to \in Here
    BY <1>3, <1>6, <1>27 DEF InfoInv
  <2>2. Delivered(n, 3)
    BY <1>20, <1>27 DEF InfoInv
  <2>3. \A c \in Clients : (sock[c] = n /\ Got(c) + Len(inbox[n]) + 1 <= 3) => FALSE
    BY <1>7, <1>23, <2>2 DEF Delivered
  <2>4. InfoInv'
    BY <1>2, <1>11, <1>22, <1>25, <1>26, <1>27, <2>1, <2>3 DEF InfoInv
  <2> QED
    BY <2>4, <1>12, <1>13, <1>14, <1>15, <1>16, <1>17, <1>18
<1>28. CASE pc = "conn"
  <2>1. PICK j \in 0 .. 3 : Left(j) /\ Delivered(cur, j)
    BY <1>28 DEF InfoInv
  <2>2. CASE j = 3
    <3>1. Delivered(n, 3)
      BY <1>20, <2>1, <2>2 DEF InfoInv
    <3>2. \A c \in Clients : (sock[c] = n /\ Got(c) + Len(inbox[n]) + 1 <= 3) => FALSE
      BY <1>7, <1>23, <3>1 DEF Delivered
    <3>3. Left(3)'
      BY <1>2, <1>3, <1>6, <1>11, <2>1, <2>2 DEF Left
    <3>4. Delivered(cur, 3)'
      <4>1. cur \in Conns /\ Delivered(cur, 3)
        BY <1>28, <2>1, <2>2 DEF PlaceInv
      <4>2. PICK x \in Conns : x = cur
        BY <4>1
      <4>3. Delivered(x, 3)'
        BY <1>24, <4>1, <4>2
      <4> QED
        BY <1>2, <4>2, <4>3 DEF Delivered
    <3>5. InfoInv'
      BY <1>2, <1>11, <1>22, <1>25, <1>26, <1>28, <3>2, <3>3, <3>4 DEF InfoInv
    <3> QED
      BY <3>5, <1>12, <1>13, <1>14, <1>15, <1>16, <1>17, <1>18
  <2>3. CASE j # 3
    <3>1. n = cur /\ s.must /\ m = Info(cur)[1 + j]
      BY <1>3, <1>4, <1>6, <2>1, <2>3 DEF Left
    <3>2. inbox'[n] = b
      BY <1>2, <1>4, <1>10, <3>1
    <3>3. \A c \in Clients : sock[c] = n => Got(c) + Len(inbox[n]) = j
      BY <2>1, <2>3, <3>1 DEF Delivered
    <3>4. \A c \in Clients : (sock[c] = n /\ Got(c) + Len(inbox[n]) + 1 <= 3) =>
             m = Info(n)[Got(c) + Len(inbox[n]) + 1]
      <4> SUFFICES ASSUME NEW c \in Clients, sock[c] = n
                   PROVE  m = Info(n)[Got(c) + Len(inbox[n]) + 1]
        OBVIOUS
      <4>1. Got(c) + Len(inbox[n]) + 1 = 1 + j
        BY <1>7, <1>23, <3>3
      <4> QED
        BY <3>1, <4>1
    <3>5. Left(j + 1)'
      <4>1. Len(sends') >= 3 - (j + 1)
        BY <1>3, <2>1 DEF Left
      <4>2. ASSUME NEW k \in 1 .. Len(sends')
            PROVE  /\ sends'[k].must <=> k <= 3 - (j + 1)
                   /\ k <= 3 - (j + 1) => sends'[k].to = cur /\ sends'[k].msg = Info(cur)[k + (j + 1)]
                   /\ sends'[k].to \in Here \cup {cur}
        <5>1. k + 1 \in 1 .. Len(sends) /\ sends'[k] = sends[k + 1]
          BY <1>3, <1>6
        <5>2. (k <= 3 - (j + 1)) <=> (k + 1 <= 3 - j)
          BY <1>3
        <5>3. (k + 1) + j = k + (j + 1)
          BY <1>3
        <5> QED
          BY <2>1, <5>1, <5>2, <5>3 DEF Left
      <4> QED
        BY <1>2, <1>11, <4>1, <4>2 DEF Left
    <3>6. Delivered(cur, j + 1)'
      <4>1. ASSUME NEW c \in Clients, sock[c] = n PROVE Got(c) + Len(inbox'[n]) = j + 1
        BY <1>7, <1>9, <1>23, <3>2, <3>3, <4>1
      <4> QED
        BY <1>2, <1>11, <3>1, <4>1 DEF Delivered
    <3>7. InfoInv'
      <4>1. j + 1 \in 0 .. 3
        BY <2>3
      <4>2. \E l \in 0 .. 3 : Left(l)' /\ Delivered(cur, l)'
        BY <3>5, <3>6, <4>1
      <4> QED
        BY <1>2, <1>11, <1>22, <1>25, <1>26, <1>28, <3>4, <4>2 DEF InfoInv
    <3> QED
      BY <3>7, <1>12, <1>13, <1>14, <1>15, <1>16, <1>17, <1>18
  <2> QED
    BY <2>2, <2>3
<1> QED
  BY <1>19, <1>27, <1>28

LEMMA FreePeerStep == ASSUME IInv, FreePeer PROVE IInv'
<1> USE DEF IInv
<1>1. PICK d, n, r : d = Min(Leaving) /\ n = peer_list[d] /\ r = RemoveAt(peer_list, d)
  OBVIOUS
<1>2. /\ pc = "fds" /\ Listen \notin fds /\ Leaving # {}
      /\ cur' = n /\ srvend' = srvend \ {n} /\ peer_list' = r /\ fds' = fds \ {n}
      /\ sends' = [k \in DOMAIN r |-> SendTo(r[k], pid[n], None)] /\ pc' = "free"
      /\ UNCHANGED <<phase, quit, open, path, starts, cur_id, pid, evfd,
                     backlog, inbox, reset, rung, lost, made>>
      /\ UNCHANGED <<cpc, sock, local, table>>
  BY <1>1 DEF FreePeer, client
<1>3. d \in 1 .. Len(peer_list)
  <2>1. Len(peer_list) \in Nat /\ DOMAIN peer_list = 1 .. Len(peer_list)
    BY LenProperties DEF ServerType
  <2>2. Leaving \in SUBSET Nat
    BY <2>1 DEF Leaving
  <2>3. d \in Leaving
    BY <1>1, <1>2, <2>2, MinIn
  <2> QED
    BY <2>1, <2>3 DEF Leaving
<1>4. r \in Seq(Conns) /\ Distinct(r) /\ Vals(r) = Vals(peer_list) \ {n}
  BY <1>1, <1>3, RemoveVals DEF ServerType, ConnInv
<1>5. n \in Conns /\ n \in Here
  BY <1>1, <1>3, ElementOfSeq DEF ServerType, Here, Vals
<1>6. Here' = Here \ {n} /\ Queued' = Queued
  BY <1>2, <1>4 DEF Here, Queued
<1>7. /\ sends' \in Seq(Sends)
      /\ \A k \in 1 .. Len(sends') : ~ sends'[k].must /\ sends'[k].to \in Here'
  <2>1. PICK i \in Ids \cup {NoId} : i = pid[n]
    BY <1>5 DEF ServerType
  <2>2. PICK s : s = [k \in DOMAIN r |-> SendTo(r[k], i, None)]
    OBVIOUS
  <2>3. s \in Seq(Sends) /\ \A k \in 1 .. Len(s) : ~ s[k].must /\ s[k].to \in Vals(r)
    BY <1>4, <2>2, FreeTyped
  <2>4. sends' = s
    BY <1>2, <2>1, <2>2
  <2> QED
    BY <1>2, <2>3, <2>4 DEF Here
<1>8. ServerType'
  BY <1>2, <1>4, <1>5, <1>7 DEF ServerType
<1>9. ClientType' /\ NetType'
  BY <1>2 DEF ClientType, NetType
<1>10. PlaceInv'
  <2>1. phase # "off"
    <3>1. ASSUME phase = "off" PROVE FALSE
      <4>1. Here = {}
        BY <3>1, ValsEmpty DEF PlaceInv, Here
      <4> QED
        BY <4>1, <1>5
    <3> QED
      BY <3>1
  <2> QED
    BY <1>2, <1>5, <2>1 DEF PlaceInv
<1>11. ConnInv'
  <2>1. evfd' = Here' \cup {m \in {cur'} : pc' \in {"conn", "free"}}
    BY <1>2, <1>5, <1>6 DEF ConnInv
  <2>2. srvend' = Here' \cup Queued' \cup {m \in {cur'} : pc' = "conn"}
    BY <1>2, <1>5, <1>6 DEF ConnInv
  <2>3. n <= made /\ n \notin Queued
    BY <1>5 DEF ConnInv
  <2> QED
    BY <1>2, <1>4, <1>6, <2>1, <2>2, <2>3 DEF ConnInv
<1>12. SockInv'
  BY <1>2 DEF SockInv
<1>13. /\ \A c \in Clients : Got(c)' = Got(c)
       /\ \A m : Info(m)' = Info(m)
  BY <1>2 DEF Got, Info
<1>14. \A m, j : Delivered(m, j)' <=> Delivered(m, j)
  BY <1>2, <1>13 DEF Delivered
<1>15. InfoInv'
  BY <1>2, <1>6, <1>7, <1>13, <1>14 DEF InfoInv
<1>16. Present' \subseteq Present
  <2>1. DOMAIN peer_list' = 1 .. Len(peer_list')
    BY <1>2, <1>4, LenProperties
  <2>2. Listed' = Here' /\ Listed = Here
    BY <2>1, HereListed DEF Listed, Here, Vals, ServerType
  <2> QED
    BY <1>2, <1>6, <2>2 DEF Present
<1>17. IdsUnique'
  BY <1>2, <1>16 DEF IdsUnique
<1> QED
  BY <1>8, <1>9, <1>10, <1>11, <1>12, <1>15, <1>17

LEMMA FreeDoneStep == ASSUME IInv, FreeDone PROVE IInv'
<1> USE DEF IInv
<1>1. /\ pc = "free" /\ sends = <<>> /\ evfd' = evfd \ {cur} /\ cur' = None /\ pc' = "fds"
      /\ UNCHANGED <<phase, quit, open, path, starts, cur_id, peer_list, pid, fds, sends>>
      /\ UNCHANGED <<cpc, sock, local, table>>
      /\ UNCHANGED <<srvend, backlog, inbox, reset, rung, lost, made>>
  BY DEF FreeDone, client, net
<1>2. Here' = Here /\ Queued' = Queued /\ Present' = Present
  BY <1>1 DEF Here, Queued, Present, Listed
<1>3. ServerType' /\ ClientType' /\ NetType'
  BY <1>1 DEF ServerType, ClientType, NetType
<1>4. PlaceInv'
  BY <1>1 DEF PlaceInv
<1>5. ConnInv'
  <2>1. evfd' = Here' \cup {m \in {cur'} : pc' \in {"conn", "free"}}
    BY <1>1, <1>2 DEF ConnInv
  <2>2. srvend' = Here' \cup Queued' \cup {m \in {cur'} : pc' = "conn"}
    BY <1>1, <1>2 DEF ConnInv
  <2> QED
    BY <1>1, <1>2, <2>1, <2>2 DEF ConnInv
<1>6. SockInv'
  BY <1>1 DEF SockInv
<1>7. /\ \A c \in Clients : Got(c)' = Got(c)
      /\ \A m : Info(m)' = Info(m)
  BY <1>1 DEF Got, Info
<1>8. \A m, j : Delivered(m, j)' <=> Delivered(m, j)
  BY <1>1, <1>7 DEF Delivered
<1>9. InfoInv'
  BY <1>1, <1>2, <1>7, <1>8 DEF InfoInv
<1>10. IdsUnique'
  BY <1>1, <1>2 DEF IdsUnique
<1> QED
  BY <1>3, <1>4, <1>5, <1>6, <1>9, <1>10

\* The server ends, in one way or the other: what was still in the backlog is
\* reset, and had been sent nothing.
LEMMA EndSteps == ASSUME IInv, ServerClose \/ ServerKilled PROVE IInv'
<1> USE DEF IInv
<1>1. /\ phase' = "off" /\ open' = {} /\ peer_list' = <<>> /\ backlog' = <<>> /\ fds' = {}
      /\ pc' \in {"fds", "loop"} /\ sends' = <<>> /\ evfd' = {} /\ srvend' = {}
      /\ reset' = reset \cup Range(backlog) /\ path' \in BOOLEAN
      /\ cur' \in Conns \cup {None}
      /\ UNCHANGED <<quit, starts, cur_id, pid, inbox, rung, lost, made>>
      /\ UNCHANGED <<cpc, sock, local, table>>
  <2>1. CASE ServerClose
    <3>1. /\ phase = "close" /\ pc = "fds" /\ peer_list = <<>> /\ sends = <<>> /\ fds = {}
      BY <2>1 DEF ServerClose, PlaceInv
    <3>2. Here = {} /\ Range(backlog) = Queued
      BY <3>1, ValsEmpty, QueuedRange DEF Here, NetType
    <3>3. evfd = {} /\ srvend = Queued
      BY <3>1, <3>2 DEF ConnInv
    <3> QED
      BY <2>1, <3>1, <3>2, <3>3 DEF ServerClose, client, ServerType
  <2>2. CASE ServerKilled
    BY <2>2 DEF ServerKilled, client, ServerType
  <2> QED
    BY <2>1, <2>2
<1>2. Here' = {} /\ Queued' = {} /\ Distinct(peer_list') /\ Distinct(backlog') /\ Present' = {}
  <2>1. Here' = {} /\ Queued' = {} /\ Distinct(peer_list') /\ Distinct(backlog')
    BY <1>1, ValsEmpty DEF Here, Queued
  <2> QED
    BY <1>1, <2>1 DEF Present, Listed
<1>3. Range(backlog) = Queued /\ Queued \subseteq Conns
  BY QueuedRange, ValsRange DEF NetType, Queued
<1>4. ServerType'
  BY <1>1, EmptySeq DEF ServerType
<1>5. ClientType'
  BY <1>1 DEF ClientType
<1>6. NetType'
  BY <1>1, <1>3, EmptySeq DEF NetType
<1>7. PlaceInv'
  BY <1>1 DEF PlaceInv
<1>8. ConnInv'
  BY <1>1, <1>2, <1>3 DEF ConnInv
<1>9. SockInv'
  BY <1>1 DEF SockInv
<1>10. /\ \A c \in Clients : Got(c)' = Got(c)
       /\ \A m : Info(m)' = Info(m)
  BY <1>1 DEF Got, Info
<1>11. InfoInv'
  BY <1>1, <1>2, <1>3, <1>10 DEF InfoInv
<1>12. IdsUnique'
  BY <1>1, <1>2 DEF IdsUnique
<1> QED
  BY <1>4, <1>5, <1>6, <1>7, <1>8, <1>9, <1>11, <1>12

-------------------------------------------------------------------------------
(* The clients *)

LEMMA SockConns ==
    ASSUME IInv, NEW c \in Clients, cpc[c] # "idle" PROVE sock[c] \in Conns /\ sock[c] # None
BY DEF IInv, SockInv, ClientType

LEMMA NoneConns == None \notin Conns
BY NoneAssumption, BoundAssumption DEF Conns

\* What a client's step leaves to the server.
LEMMA ServerKept ==
    ASSUME IInv, UNCHANGED server, UNCHANGED <<srvend, backlog, made>>
    PROVE  /\ ServerType' /\ PlaceInv' /\ Here' = Here /\ Queued' = Queued /\ Present' = Present
           /\ \A n : Info(n)' = Info(n)
           /\ \A j : Left(j)' <=> Left(j)
           /\ (\A n \in reset' : n \in reset) => ConnInv'
<1> USE DEF IInv, server
<1>1. ServerType' /\ PlaceInv'
  BY DEF ServerType, PlaceInv
<1>2. Here' = Here /\ Queued' = Queued /\ Present' = Present
  BY DEF Here, Queued, Present, Listed
<1>3. \A n : Info(n)' = Info(n)
  BY DEF Info
<1>4. \A j : Left(j)' <=> Left(j)
  BY <1>2, <1>3 DEF Left
<1>5. (\A n \in reset' : n \in reset) => ConnInv'
  BY <1>2 DEF ConnInv
<1> QED
  BY <1>1, <1>2, <1>3, <1>4, <1>5

\* The messages of the initial info on connection n, from client c's side.
Follows(c) ==
    \A k \in 1 .. Len(inbox[sock[c]]) :
        Got(c) + k <= 3 => inbox[sock[c]][k] = Info(sock[c])[Got(c) + k]

\* Client c acts on its connection n: nobody else's is touched, and of n it is
\* enough to know that it has what it should.
LEMMA ClientKeeps ==
    ASSUME IInv, UNCHANGED server, UNCHANGED <<srvend, backlog, made>>,
           NEW c \in Clients, NEW n \in Conns,
           \A d \in Clients \ {c} : /\ sock'[d] = sock[d] /\ cpc'[d] = cpc[d]
                                    /\ sock[d] # n,
           \A x \in Conns \ {n} : inbox'[x] = inbox[x],
           sock[c] = n, sock'[c] \in {n, None},
           n \in Queued \cup reset' => inbox'[n] = <<>>,
           \A x \in reset' : x \in reset,
           \A j \in 0 .. 3 : Delivered(n, j) => Delivered(n, j)',
           sock'[c] # None => Follows(c)'
    PROVE  InfoInv'
<1> USE DEF IInv
<1>1. /\ Here' = Here /\ Queued' = Queued /\ \A m : Info(m)' = Info(m)
      /\ \A j : Left(j)' <=> Left(j)
  BY ServerKept
<1>2. pc' = pc /\ cur' = cur /\ sends' = sends /\ made' = made
  BY DEF server
<1>3. \A d \in Clients \ {c} : Got(d)' = Got(d)
  BY DEF Got
<1>4. ASSUME NEW x \in Conns \ {n}, NEW j, Delivered(x, j) PROVE Delivered(x, j)'
  <2>1. inbox'[x] = inbox[x] /\ sock'[c] # x
    BY NoneConns
  <2> QED
    BY <1>3, <1>4, <2>1 DEF Delivered
<1>5. \A x \in Conns, j \in 0 .. 3 : Delivered(x, j) => Delivered(x, j)'
  BY <1>4
<1>6. Here \subseteq Conns /\ Queued \subseteq Conns /\ (pc \in {"conn", "free"} => cur \in Conns)
      /\ reset \subseteq Conns
  BY ValsRange DEF ServerType, NetType, Here, Queued, PlaceInv
<1>7. pc' = "conn" => \E j \in 0 .. 3 : Left(j)' /\ Delivered(cur, j)'
  <2> SUFFICES ASSUME pc = "conn" PROVE \E j \in 0 .. 3 : Left(j)' /\ Delivered(cur, j)'
    BY <1>2
  <2>1. PICK j \in 0 .. 3 : Left(j) /\ Delivered(cur, j)
    BY DEF InfoInv
  <2>2. PICK x \in Conns : x = cur
    BY <1>6
  <2>3. Delivered(x, j)'
    BY <1>5, <2>1, <2>2
  <2>4. Delivered(cur, j)'
    BY <1>2, <2>2, <2>3 DEF Delivered
  <2> QED
    BY <1>1, <2>1, <2>4
<1>8. pc' = "free" => \A k \in 1 .. Len(sends') : ~ sends'[k].must /\ sends'[k].to \in Here'
  BY <1>1, <1>2 DEF InfoInv
<1>9. \A x \in Here' : Delivered(x, 3)'
  BY <1>1, <1>5, <1>6 DEF InfoInv
<1>10. \A x \in Queued' : inbox'[x] = <<>> /\ Delivered(x, 0)'
  BY <1>1, <1>5, <1>6 DEF InfoInv
<1>11. \A x \in reset' : inbox'[x] = <<>>
  BY <1>6 DEF InfoInv
<1>12. \A x \in Conns : x > made' => inbox'[x] = <<>>
  <2>1. ~ (n > made)
    BY NoneConns DEF SockInv, Conns, NetType
  <2> QED
    BY <1>2, <2>1 DEF InfoInv
<1>13. \A d \in Clients : sock'[d] # None => Follows(d)'
  <2> SUFFICES ASSUME NEW d \in Clients \ {c}, sock'[d] # None PROVE Follows(d)'
    OBVIOUS
  <2>1. sock'[d] = sock[d] /\ sock[d] \in Conns \ {n}
    BY DEF ClientType
  <2>2. inbox'[sock[d]] = inbox[sock[d]]
    BY <2>1
  <2> QED
    BY <1>1, <1>3, <2>1, <2>2 DEF Follows, InfoInv
<1> QED
  BY <1>7, <1>8, <1>9, <1>10, <1>11, <1>12, <1>13 DEF InfoInv, Follows

LEMMA OnlyOwner ==
    ASSUME IInv, NEW c \in Clients, sock[c] # None
    PROVE  \A d \in Clients \ {c} : sock[d] # sock[c]
BY DEF IInv, SockInv

LEMMA CloseStep ==
    ASSUME IInv, NEW c \in Clients, cpc[c] # "idle", CloseSock(c),
           local' \in [Clients -> Ids \cup {NoId}] /\ \A d \in Clients \ {c} : local'[d] = local[d],
           table' = table \/ table' = [table EXCEPT ![c] = NoPeers]
    PROVE  IInv'
<1> USE DEF IInv
<1>1. PICK n : n = sock[c]
  OBVIOUS
<1>2. n \in Conns /\ n # None
  BY <1>1, SockConns
<1>3. /\ cpc' = [cpc EXCEPT ![c] = "idle"] /\ sock' = [sock EXCEPT ![c] = None]
      /\ inbox' = [x \in Conns |-> IF x = n THEN <<>> ELSE inbox[x]]
      /\ rung' = {e \in rung : e.conn # n} /\ reset' = reset \ {n} /\ lost' = lost \ {n}
      /\ UNCHANGED server /\ UNCHANGED <<srvend, backlog, made>>
  BY <1>1 DEF CloseSock
<1>4. /\ ServerType' /\ PlaceInv' /\ ConnInv' /\ Present' = Present
  BY <1>3, ServerKept
<1>5. ClientType'
  <2>1. cpc' \in [Clients -> ClientPcs] /\ sock' \in [Clients -> Conns \cup {None}]
    BY <1>3 DEF ClientType, ClientPcs
  <2>2. NoPeers \in [Ids -> Seq(Eventfds)] /\ \A i \in Ids : Len(NoPeers[i]) <= MaxVectors
    BY EmptySeq, VectorAssumption DEF NoPeers
  <2>3. /\ table' \in [Clients -> [Ids -> Seq(Eventfds)]]
        /\ \A d \in Clients, i \in Ids : Len(table'[d][i]) <= MaxVectors
    BY <2>2 DEF ClientType
  <2> QED
    BY <2>1, <2>3 DEF ClientType
<1>6. NetType'
  <2>1. inbox' \in [Conns -> Seq(Sound)] /\ \A x \in Conns : Len(inbox'[x]) <= SockBuf
    BY <1>3, EmptySeq, SockBufAssumption DEF NetType
  <2> QED
    BY <1>3, <2>1 DEF NetType
<1>7. SockInv'
  BY <1>3 DEF SockInv, ClientType
<1>8. InfoInv'
  <2>1. \A d \in Clients \ {c} : sock'[d] = sock[d] /\ cpc'[d] = cpc[d] /\ sock[d] # n
    BY <1>1, <1>2, <1>3, OnlyOwner DEF ClientType
  <2>2. sock'[c] = None /\ \A d \in Clients : sock'[d] # n
    BY <1>2, <1>3, <2>1 DEF ClientType
  <2>3. \A j \in 0 .. 3 : Delivered(n, j)'
    BY <2>2 DEF Delivered
  <2>4. /\ \A x \in Conns \ {n} : inbox'[x] = inbox[x] /\ inbox'[n] = <<>>
        /\ \A x \in reset' : x \in reset
        /\ inbox'[n] = <<>>
    BY <1>2, <1>3
  <2> QED
    BY <1>1, <1>2, <1>3, <2>1, <2>2, <2>3, <2>4, ClientKeeps
<1>9. IdsUnique'
  <2>1. pid' = pid
    BY <1>3 DEF server
  <2> QED
    BY <1>3, <1>4, <2>1 DEF IdsUnique, ClientType
<1> QED
  BY <1>4, <1>5, <1>6, <1>7, <1>8, <1>9

LEMMA ConnectStep == ASSUME IInv, NEW c \in Clients, Connect(c) PROVE IInv'
<1> USE DEF IInv
<1>1. PICK n : n = made + 1
  OBVIOUS
<1>2. /\ cpc[c] = "idle" /\ "sock" \in open /\ made < MaxConns /\ made' = n
      /\ sock' = [sock EXCEPT ![c] = n] /\ backlog' = Append(backlog, n)
      /\ srvend' = srvend \cup {n} /\ cpc' = [cpc EXCEPT ![c] = "version"]
      /\ UNCHANGED server /\ UNCHANGED <<local, table, inbox, reset, rung, lost>>
  BY <1>1 DEF Connect
<1>3. /\ made \in Nat /\ n \in Conns /\ n > made /\ n \in 0 .. MaxConns
      /\ \A x \in Conns : x <= made => x # n /\ x <= n
  BY <1>1, <1>2, BoundAssumption DEF NetType, Conns
<1>4. Here \subseteq Conns /\ Queued \subseteq Conns
  BY ValsRange DEF ServerType, NetType, Here, Queued
<1>5. n \notin Here \cup Queued /\ n \notin reset /\ (pc \in {"conn", "free"} => n # cur)
  BY <1>3, <1>4 DEF ConnInv, NetType, PlaceInv
<1>6. backlog' \in Seq(Conns) /\ Queued' = Queued \cup {n} /\ Distinct(backlog')
  BY <1>2, <1>3, <1>5, AppendVals DEF NetType, ConnInv, Queued
<1>7. /\ phase' = phase /\ pc' = pc /\ cur' = cur /\ sends' = sends /\ pid' = pid /\ evfd' = evfd
      /\ fds' = fds /\ open' = open /\ peer_list' = peer_list /\ Here' = Here /\ Present' = Present
  BY <1>2 DEF server, Here, Present, Listed
<1>8. ServerType'
  BY <1>2 DEF ServerType, server
<1>9. ClientType' /\ NetType'
  BY <1>2, <1>3, <1>6 DEF ClientType, NetType, ClientPcs
<1>10. PlaceInv'
  <2>1. phase # "off" /\ backlog' # <<>>
    BY <1>2, <1>3, AppendProperties DEF PlaceInv, NetType
  <2> QED
    BY <1>7, <2>1 DEF PlaceInv
<1>11. ConnInv'
  <2>1. evfd' = Here' \cup {m \in {cur'} : pc' \in {"conn", "free"}}
    BY <1>7 DEF ConnInv
  <2>2. srvend' = Here' \cup Queued' \cup {m \in {cur'} : pc' = "conn"}
    BY <1>2, <1>6, <1>7 DEF ConnInv
  <2>3. \A m \in Here' \cup Queued' : m <= made'
    BY <1>2, <1>3, <1>4, <1>6, <1>7 DEF ConnInv
  <2>4. \A m \in reset' : m <= made' /\ m \notin srvend'
    BY <1>2, <1>3, <1>5 DEF ConnInv, NetType
  <2>5. pc' \in {"conn", "free"} => cur' \notin Here' \cup Queued' /\ cur' <= made'
    BY <1>2, <1>3, <1>5, <1>6, <1>7 DEF ConnInv, PlaceInv
  <2> QED
    BY <1>5, <1>6, <1>7, <2>1, <2>2, <2>3, <2>4, <2>5 DEF ConnInv
<1>12. \A d \in Clients \ {c} : sock'[d] = sock[d] /\ cpc'[d] = cpc[d] /\ sock[d] # n
  <2>1. \A d \in Clients : sock[d] \in Conns => sock[d] <= made
    BY NoneConns DEF SockInv
  <2>2. n # None
    BY <1>3, NoneConns
  <2> QED
    BY <1>2, <1>3, <2>1, <2>2 DEF ClientType
<1>13. sock'[c] = n /\ cpc'[c] = "version" /\ n # None /\ n <= made'
  BY <1>2, <1>3, NoneConns DEF ClientType
<1>14. SockInv'
  <2>1. \A d \in Clients : (cpc'[d] = "idle" <=> sock'[d] = None)
    BY <1>12, <1>13 DEF SockInv
  <2>2. \A d \in Clients : sock'[d] # None => sock'[d] <= made'
    BY <1>2, <1>3, <1>12, <1>13 DEF SockInv, ClientType
  <2>3. \A d, e \in Clients : sock'[d] = sock'[e] /\ sock'[d] # None => d = e
    BY <1>12, <1>13 DEF SockInv
  <2> QED
    BY <2>1, <2>2, <2>3 DEF SockInv
<1>15. /\ \A d \in Clients \ {c} : Got(d)' = Got(d)
       /\ Got(c)' = 0
  BY <1>12, <1>13 DEF Got
<1>16. \A m : Info(m)' = Info(m)
  BY <1>7 DEF Info
<1>17. \A j : Left(j)' <=> Left(j)
  BY <1>7, <1>16 DEF Left
<1>18. ASSUME NEW x \in Conns \ {n}, NEW j, Delivered(x, j) PROVE Delivered(x, j)'
  BY <1>2, <1>12, <1>13, <1>15, <1>18 DEF Delivered
<1>19. inbox[n] = <<>> /\ inbox'[n] = <<>>
  BY <1>2, <1>3 DEF InfoInv
<1>20. Delivered(n, 0)'
  <2>1. \A d \in Clients : sock'[d] = n => d = c
    BY <1>12
  <2> QED
    BY <1>15, <1>19, <2>1 DEF Delivered
<1>21. InfoInv'
  <2>1. pc' = "conn" => \E j \in 0 .. 3 : Left(j)' /\ Delivered(cur, j)'
    <3> SUFFICES ASSUME pc = "conn" PROVE \E j \in 0 .. 3 : Left(j)' /\ Delivered(cur, j)'
      BY <1>7
    <3>1. PICK j \in 0 .. 3 : Left(j) /\ Delivered(cur, j)
      BY DEF InfoInv
    <3>2. PICK x \in Conns \ {n} : x = cur
      BY <1>5 DEF PlaceInv
    <3>3. Delivered(x, j)'
      BY <1>18, <3>1, <3>2
    <3>4. Delivered(cur, j)'
      BY <1>7, <3>2, <3>3 DEF Delivered
    <3> QED
      BY <1>17, <3>1, <3>4
  <2>2. \A x \in Here' : Delivered(x, 3)'
    BY <1>4, <1>5, <1>7, <1>18 DEF InfoInv
  <2>3. \A x \in Queued' : inbox'[x] = <<>> /\ Delivered(x, 0)'
    BY <1>2, <1>4, <1>6, <1>18, <1>19, <1>20 DEF InfoInv
  <2>4. /\ \A x \in reset' : inbox'[x] = <<>>
        /\ \A x \in Conns : x > made' => inbox'[x] = <<>>
    BY <1>2, <1>3 DEF InfoInv, Conns
  <2>5. ASSUME NEW d \in Clients, sock'[d] # None PROVE Follows(d)'
    <3>1. CASE d = c
      <4>1. Len(inbox'[sock'[d]]) = 0
        BY <1>13, <1>19, <3>1
      <4> QED
        BY <4>1 DEF Follows
    <3>2. CASE d # c
      BY <1>2, <1>12, <1>15, <1>16, <2>5, <3>2 DEF Follows, InfoInv
    <3> QED
      BY <3>1, <3>2
  <2> QED
    BY <1>7, <2>1, <2>2, <2>3, <2>4, <2>5 DEF InfoInv, Follows
<1>22. IdsUnique'
  BY <1>2, <1>7, <1>12, <1>13 DEF IdsUnique
<1> QED
  BY <1>8, <1>9, <1>10, <1>11, <1>14, <1>21, <1>22

\* A client takes the message at the head of its buffer.
LEMMA ReadTail ==
    ASSUME IInv, NEW c \in Clients, Has(c), Read(c)
    PROVE  LET n == sock[c] IN
           /\ n \in Conns /\ n # None /\ n \notin reset /\ n \notin Queued
           /\ Len(inbox[n]) \in Nat \ {0} /\ Head(inbox[n]) = inbox[n][1]
           /\ Head(inbox[n]) \in Sound
           /\ inbox' \in [Conns -> Seq(Sound)]
           /\ \A x \in Conns \ {n} : inbox'[x] = inbox[x]
           /\ Len(inbox'[n]) = Len(inbox[n]) - 1
           /\ \A k \in 1 .. Len(inbox'[n]) : inbox'[n][k] = inbox[n][k + 1]
           /\ \A x \in Conns : Len(inbox'[x]) <= SockBuf
<1> USE DEF IInv
<1>1. PICK n : n = sock[c]
  OBVIOUS
<1>2. n \in Conns /\ n # None /\ inbox[n] # <<>> /\ inbox[n] \in Seq(Sound)
  BY <1>1 DEF Has, ClientType, NetType
<1>3. n \notin reset /\ n \notin Queued
  BY <1>2 DEF InfoInv
<1>4. PICK b \in Seq(Sound) : b = inbox[n]
  BY <1>2
<1>5. b # <<>>
  BY <1>2, <1>4
<1>6. PICK t \in Seq(Sound) : t = Tail(b)
  BY <1>5, HeadTailProperties
<1>7. /\ Len(b) \in Nat \ {0} /\ Head(b) = b[1] /\ Head(b) \in Sound
      /\ Len(t) = Len(b) - 1 /\ \A k \in 1 .. Len(t) : t[k] = b[k + 1]
  BY <1>5, <1>6, HeadTailProperties, EmptySeq
<1>8. inbox' = [inbox EXCEPT ![n] = t]
  BY <1>1, <1>4, <1>6 DEF Read
<1>9. inbox \in [Conns -> Seq(Sound)]
  BY DEF NetType
<1>10. /\ inbox' \in [Conns -> Seq(Sound)] /\ inbox'[n] = t
       /\ \A x \in Conns \ {n} : inbox'[x] = inbox[x]
  BY <1>2, <1>8, <1>9
<1>11. Len(t) <= SockBuf
  BY <1>2, <1>4, <1>7, SockBufAssumption DEF NetType
<1>12. \A x \in Conns : Len(inbox'[x]) <= SockBuf
  BY <1>10, <1>11 DEF NetType
<1> QED
  BY <1>1, <1>2, <1>3, <1>4, <1>7, <1>10, <1>12

LEMMA AfterInfoIs ==
    ASSUME NEW c
    PROVE  /\ cpc[c] = "version" => AfterInfo(c) = "id"
           /\ cpc[c] = "id" => AfterInfo(c) = "shm"
           /\ cpc[c] = "shm" => AfterInfo(c) = "poll"
BY Zenon DEF AfterInfo

LEMMA ReadInfoStep == ASSUME IInv, NEW c \in Clients, ReadInfo(c) PROVE IInv'
<1> USE DEF IInv
<1>1. PICK n : n = sock[c]
  OBVIOUS
<1>2. /\ cpc[c] \in {"version", "id", "shm"} /\ Has(c) /\ Read(c)
      /\ cpc' = [cpc EXCEPT ![c] = AfterInfo(c)]
      /\ local' = IF cpc[c] = "id" THEN [local EXCEPT ![c] = Head(inbox[n]).idx] ELSE local
      /\ UNCHANGED server /\ UNCHANGED <<sock, table, srvend, backlog, reset, rung, lost, made>>
  BY <1>1 DEF ReadInfo, Starting
<1>3. /\ n \in Conns /\ n # None /\ n \notin reset /\ n \notin Queued
      /\ Len(inbox[n]) \in Nat \ {0} /\ Head(inbox[n]) = inbox[n][1] /\ Head(inbox[n]) \in Sound
      /\ inbox' \in [Conns -> Seq(Sound)]
      /\ \A x \in Conns \ {n} : inbox'[x] = inbox[x]
      /\ Len(inbox'[n]) = Len(inbox[n]) - 1
      /\ \A k \in 1 .. Len(inbox'[n]) : inbox'[n][k] = inbox[n][k + 1]
      /\ \A x \in Conns : Len(inbox'[x]) <= SockBuf
  BY <1>1, <1>2, ReadTail
<1>4. /\ ServerType' /\ PlaceInv' /\ ConnInv' /\ Present' = Present /\ \A m : Info(m)' = Info(m)
  BY <1>2, ServerKept
<1>5. /\ cpc' \in [Clients -> ClientPcs] /\ \A d \in Clients \ {c} : cpc'[d] = cpc[d]
      /\ cpc[c] = "version" => cpc'[c] = "id"
      /\ cpc[c] = "id" => cpc'[c] = "shm"
      /\ cpc[c] = "shm" => cpc'[c] = "poll"
  BY <1>2, AfterInfoIs DEF ClientType, ClientPcs
<1>6. Got(c)' = Got(c) + 1 /\ Got(c) \in 0 .. 2 /\ (cpc[c] = "id" => Got(c) = 1)
  BY <1>2, <1>5 DEF Got
<1>7. cpc[c] = "id" => Head(inbox[n]).idx = pid[n]
  <2> SUFFICES ASSUME cpc[c] = "id" PROVE Head(inbox[n]).idx = pid[n]
    OBVIOUS
  <2>1. 1 \in 1 .. Len(inbox[n]) /\ Got(c) + 1 = 2
    BY <1>3, <1>6
  <2>2. inbox[n][1] = Info(n)[2]
    BY <1>1, <1>3, <2>1 DEF InfoInv
  <2> QED
    BY <1>3, <2>2 DEF Info, Msg
<1>8. ClientType'
  <2>1. local' \in [Clients -> Ids \cup {NoId}]
    BY <1>2, <1>3, <1>7 DEF ClientType, ServerType
  <2> QED
    BY <1>2, <1>5, <2>1 DEF ClientType
<1>9. NetType'
  BY <1>2, <1>3 DEF NetType
<1>10. SockInv'
  BY <1>2, <1>5 DEF SockInv
<1>11. InfoInv'
  <2>1. \A d \in Clients \ {c} : sock'[d] = sock[d] /\ cpc'[d] = cpc[d] /\ sock[d] # n
    BY <1>1, <1>2, <1>3, <1>5, OnlyOwner
  <2>2. ASSUME NEW j \in 0 .. 3, Delivered(n, j) PROVE Delivered(n, j)'
    <3>1. \A d \in Clients : sock'[d] = n => d = c
      BY <2>1
    <3>2. Got(c)' + Len(inbox'[n]) = Got(c) + Len(inbox[n])
      BY <1>3, <1>6
    <3>3. IF j = 3 THEN Got(c) + Len(inbox[n]) >= 3 ELSE Got(c) + Len(inbox[n]) = j
      BY <1>1, <2>2 DEF Delivered
    <3> QED
      BY <3>1, <3>2, <3>3 DEF Delivered
  <2>3. Follows(c)'
    <3> SUFFICES ASSUME NEW k \in 1 .. Len(inbox'[n]), Got(c)' + k <= 3
                 PROVE  inbox'[n][k] = Info(n)[Got(c)' + k]
      BY <1>1, <1>2, <1>4 DEF Follows
    <3>1. k + 1 \in 1 .. Len(inbox[n]) /\ Got(c) + (k + 1) = Got(c)' + k
      BY <1>3, <1>6
    <3>2. inbox[n][k + 1] = Info(n)[Got(c) + (k + 1)]
      BY <1>1, <1>3, <3>1 DEF InfoInv
    <3> QED
      BY <1>3, <3>1, <3>2
  <2>4. sock'[c] = n /\ n \notin Queued \cup reset'
    BY <1>1, <1>2, <1>3
  <2> QED
    BY <1>1, <1>2, <1>3, <2>1, <2>2, <2>3, <2>4, ClientKeeps
<1>12. IdsUnique'
  <2>1. pid' = pid
    BY <1>2 DEF server
  <2>2. ASSUME NEW d \in Clients, cpc'[d] \in {"shm", "poll"} PROVE local'[d] = pid'[sock'[d]]
    <3>1. CASE d # c
      BY <1>2, <1>5, <2>1, <2>2, <3>1 DEF IdsUnique, ClientType
    <3>2. CASE d = c
      BY <1>1, <1>2, <1>5, <1>7, <2>1, <2>2, <3>2 DEF IdsUnique, ClientType
    <3> QED
      BY <3>1, <3>2
  <2> QED
    BY <1>4, <2>1, <2>2 DEF IdsUnique
<1> QED
  BY <1>4, <1>8, <1>9, <1>10, <1>11, <1>12

\* The error that goes unnoticed: nothing has come, and nothing will.
LEMMA ResetUnnoticed ==
    ASSUME IInv, NEW c \in Clients, cpc[c] = "version", sock[c] \in reset,
           cpc' = [cpc EXCEPT ![c] = "id"], reset' = reset \ {sock[c]},
           UNCHANGED server,
           UNCHANGED <<sock, srvend, backlog, inbox, rung, lost, made, local, table>>
    PROVE  IInv'
<1> USE DEF IInv
<1>1. PICK n : n = sock[c]
  OBVIOUS
<1>2. n \in Conns /\ n # None /\ inbox[n] = <<>> /\ n \notin srvend
  BY <1>1, NoneConns DEF NetType, InfoInv, ConnInv
<1>3. /\ ServerType' /\ PlaceInv' /\ ConnInv' /\ Present' = Present /\ Here' = Here
      /\ Queued' = Queued /\ \A m : Info(m)' = Info(m)
      /\ \A j : Left(j)' <=> Left(j)
  BY ServerKept
<1>4. /\ cpc' \in [Clients -> ClientPcs] /\ \A d \in Clients \ {c} : cpc'[d] = cpc[d]
      /\ cpc'[c] = "id"
  BY DEF ClientType, ClientPcs
<1>5. ClientType' /\ NetType'
  BY <1>4 DEF ClientType, NetType
<1>6. SockInv'
  BY <1>4 DEF SockInv
<1>7. n \notin Here \cup Queued /\ (pc = "conn" => cur # n)
  BY <1>2 DEF ConnInv
<1>8. \A d \in Clients \ {c} : Got(d)' = Got(d)
  BY <1>4 DEF Got
<1>9. \A d \in Clients \ {c} : sock[d] # n
  BY <1>1, <1>2, OnlyOwner
<1>10. \A x, j : x # n => (Delivered(x, j)' <=> Delivered(x, j))
  BY <1>1, <1>8 DEF Delivered
<1>11. InfoInv'
  <2>0. pc' = pc /\ cur' = cur /\ sends' = sends
    BY DEF server
  <2>1. pc' = "conn" => \E j \in 0 .. 3 : Left(j)' /\ Delivered(cur, j)'
    <3> SUFFICES ASSUME pc = "conn" PROVE \E j \in 0 .. 3 : Left(j)' /\ Delivered(cur, j)'
      BY <2>0
    <3>1. PICK j \in 0 .. 3 : Left(j) /\ Delivered(cur, j)
      BY DEF InfoInv
    <3>2. PICK x : x = cur
      OBVIOUS
    <3>3. Delivered(x, j)'
      BY <1>7, <1>10, <3>1, <3>2
    <3>4. Delivered(cur, j)'
      BY <2>0, <3>2, <3>3 DEF Delivered
    <3> QED
      BY <1>3, <3>1, <3>4
  <2>2. /\ \A x \in Here' : Delivered(x, 3)'
        /\ \A x \in Queued' : inbox'[x] = <<>> /\ Delivered(x, 0)'
    BY <1>3, <1>7, <1>10 DEF InfoInv
  <2>3. /\ \A x \in reset' : inbox'[x] = <<>>
        /\ \A x \in Conns : x > made' => inbox'[x] = <<>>
    BY DEF InfoInv
  <2>4. ASSUME NEW d \in Clients, sock'[d] # None PROVE Follows(d)'
    <3>1. CASE d = c
      <4>1. Len(inbox'[sock'[d]]) = 0
        BY <1>1, <1>2, <3>1
      <4> QED
        BY <4>1 DEF Follows
    <3>2. CASE d # c
      BY <1>3, <1>8, <2>4, <3>2 DEF Follows, InfoInv
    <3> QED
      BY <3>1, <3>2
  <2> QED
    BY <1>3, <2>0, <2>1, <2>2, <2>3, <2>4 DEF InfoInv, Follows
<1>12. IdsUnique'
  <2>1. pid' = pid
    BY DEF server
  <2> QED
    BY <1>3, <1>4, <2>1 DEF IdsUnique
<1> QED
  BY <1>3, <1>5, <1>6, <1>11, <1>12

\* A message of a peer leaves the table within its bounds.
LEMMA ApplyTyped ==
    ASSUME NEW t \in [Ids -> Seq(Eventfds)], NEW m \in Sound,
           \A i \in Ids : Len(t[i]) <= MaxVectors,
           m.fd = None \/ Len(t[m.idx]) < MaxVectors
    PROVE  /\ Apply(t, m) \in [Ids -> Seq(Eventfds)]
           /\ \A i \in Ids : Len(Apply(t, m)[i]) <= MaxVectors
<1>0. m.idx \in Ids \cup {-1} /\ m.fd \in Eventfds \cup {None, Shm} /\ (m.fd = Shm => m.idx = -1)
  BY DEF Sound, Messages
<1>1. CASE m.idx \notin Ids
  <2>1. Apply(t, m) = t
    BY <1>1 DEF Apply
  <2> QED
    BY <2>1
<1>2. CASE m.idx \in Ids
  <2>0. -1 \notin Ids
    BY IdSpaceAssumption DEF Ids
  <2>1. CASE m.fd = None
    <3>1. Apply(t, m) = [t EXCEPT ![m.idx] = <<>>]
      BY <2>1 DEF Apply
    <3>2. <<>> \in Seq(Eventfds) /\ Len(<<>>) <= MaxVectors
      BY EmptySeq, VectorAssumption
    <3> QED
      BY <3>1, <3>2
  <2>2. CASE m.fd # None
    <3>1. m.fd \in Eventfds
      BY <1>0, <1>2, <2>0, <2>2
    <3>2. PICK s \in Seq(Eventfds) : s = Append(t[m.idx], m.fd)
      BY <1>2, <3>1, AppendProperties
    <3>3. Len(s) = Len(t[m.idx]) + 1 /\ Len(t[m.idx]) \in Nat
      BY <1>2, <3>1, <3>2, AppendProperties, LenProperties
    <3>4. Len(s) <= MaxVectors
      BY <2>2, <3>3, VectorAssumption
    <3>5. Apply(t, m) = [t EXCEPT ![m.idx] = s]
      BY <2>2, <3>2 DEF Apply
    <3> QED
      BY <3>4, <3>5
  <2> QED
    BY <2>1, <2>2
<1> QED
  BY <1>1, <1>2

LEMMA ServerMsgStep == ASSUME IInv, NEW c \in Clients, HandleServerMsg(c) PROVE IInv'
<1> USE DEF IInv
<1>1. PICK n, m : n = sock[c] /\ m = Head(inbox[n])
  OBVIOUS
<1>2. /\ cpc[c] = "poll" /\ Has(c) /\ Acceptable(c, m)
      /\ table' = [table EXCEPT ![c] = Apply(table[c], m)] /\ Read(c)
      /\ UNCHANGED server /\ UNCHANGED <<cpc, sock, local, srvend, backlog, reset, rung, lost, made>>
  BY <1>1 DEF HandleServerMsg
<1>3. /\ n \in Conns /\ n # None /\ n \notin reset /\ n \notin Queued
      /\ Len(inbox[n]) \in Nat \ {0} /\ m \in Sound
      /\ inbox' \in [Conns -> Seq(Sound)]
      /\ \A x \in Conns \ {n} : inbox'[x] = inbox[x]
      /\ Len(inbox'[n]) = Len(inbox[n]) - 1
      /\ \A x \in Conns : Len(inbox'[x]) <= SockBuf
  BY <1>1, <1>2, ReadTail
<1>4. /\ ServerType' /\ PlaceInv' /\ ConnInv' /\ Present' = Present
  BY <1>2, ServerKept
<1>5. ClientType'
  <2>1. PICK t \in [Ids -> Seq(Eventfds)] : t = table[c]
    BY DEF ClientType
  <2>2. \A i \in Ids : Len(t[i]) <= MaxVectors
    BY <2>1 DEF ClientType
  <2>3. m.fd = None \/ Len(t[m.idx]) < MaxVectors
    BY <1>2, <2>1 DEF Acceptable
  <2>4. Apply(t, m) \in [Ids -> Seq(Eventfds)] /\ \A i \in Ids : Len(Apply(t, m)[i]) <= MaxVectors
    BY <1>3, <2>2, <2>3, ApplyTyped
  <2>5. table' = [table EXCEPT ![c] = Apply(t, m)]
    BY <1>2, <2>1
  <2> QED
    BY <1>2, <2>4, <2>5 DEF ClientType
<1>6. NetType'
  BY <1>2, <1>3 DEF NetType
<1>7. SockInv'
  BY <1>2 DEF SockInv
<1>8. Got(c) = 3 /\ Got(c)' = 3
  BY <1>2 DEF Got
<1>9. InfoInv'
  <2>1. \A d \in Clients \ {c} : sock'[d] = sock[d] /\ cpc'[d] = cpc[d] /\ sock[d] # n
    BY <1>1, <1>2, <1>3, OnlyOwner
  <2>2. ASSUME NEW j \in 0 .. 3, Delivered(n, j) PROVE Delivered(n, j)'
    <3>1. \A d \in Clients : sock'[d] = n => d = c
      BY <2>1
    <3>2. IF j = 3 THEN Got(c) + Len(inbox[n]) >= 3 ELSE Got(c) + Len(inbox[n]) = j
      BY <1>1, <2>2 DEF Delivered
    <3>3. j = 3 /\ Got(c)' + Len(inbox'[n]) >= 3
      BY <1>3, <1>8, <3>2
    <3> QED
      BY <3>1, <3>3 DEF Delivered
  <2>3. Follows(c)'
    <3>1. inbox'[n] \in Seq(Sound)
      BY <1>3
    <3>2. \A k \in 1 .. Len(inbox'[n]) : ~ (3 + k <= 3)
      BY <3>1, LenProperties
    <3> QED
      BY <1>1, <1>2, <1>8, <3>2 DEF Follows
  <2>4. sock'[c] = n /\ n \notin Queued \cup reset'
    BY <1>1, <1>2, <1>3
  <2> QED
    BY <1>1, <1>2, <1>3, <2>1, <2>2, <2>3, <2>4, ClientKeeps
<1>10. IdsUnique'
  <2>1. pid' = pid
    BY <1>2 DEF server
  <2> QED
    BY <1>2, <1>4, <2>1 DEF IdsUnique
<1> QED
  BY <1>4, <1>5, <1>6, <1>7, <1>9, <1>10

\* Rung eventfds are nobody else's business.
LEMMA RungStep ==
    ASSUME IInv, UNCHANGED server, UNCHANGED client,
           UNCHANGED <<srvend, backlog, inbox, reset, lost, made>>, rung' \subseteq Eventfds
    PROVE  IInv'
<1> USE DEF IInv, client
<1>1. /\ ServerType' /\ PlaceInv' /\ ConnInv' /\ Present' = Present /\ Here' = Here
      /\ Queued' = Queued /\ \A m : Info(m)' = Info(m)
      /\ \A j : Left(j)' <=> Left(j)
  BY ServerKept
<1>2. ClientType' /\ NetType' /\ SockInv'
  BY DEF ClientType, NetType, SockInv
<1>3. \A c \in Clients : Got(c)' = Got(c)
  BY DEF Got
<1>4. \A n, j : Delivered(n, j)' <=> Delivered(n, j)
  BY <1>3 DEF Delivered
<1>5. pc' = pc /\ cur' = cur /\ sends' = sends /\ pid' = pid
  BY DEF server
<1>6. InfoInv'
  <2>1. pc' = "conn" => \E j \in 0 .. 3 : Left(j)' /\ Delivered(cur, j)'
    BY <1>1, <1>4, <1>5 DEF InfoInv
  <2> QED
    BY <2>1, <1>1, <1>3, <1>4, <1>5 DEF InfoInv
<1>7. IdsUnique'
  BY <1>1, <1>5 DEF IdsUnique
<1> QED
  BY <1>1, <1>2, <1>6, <1>7

LEMMA RingSteps ==
    ASSUME IInv, NEW c \in Clients, HandleEvent(c) \/ HandleStdin(c) PROVE IInv'
<1>1. \A i \in Ids : Range(table[c][i]) \subseteq Eventfds /\ table[c][i] \in Seq(Eventfds)
  BY RangeOfSeq DEF IInv, ClientType
<1>2. rung \subseteq Eventfds
  BY DEF IInv, NetType
<1>3. CASE HandleEvent(c)
  BY <1>2, <1>3, RungStep DEF HandleEvent
<1>4. ASSUME NEW E \in SUBSET Eventfds, Ring(c, E) PROVE IInv'
  BY <1>2, <1>4, RungStep DEF Ring
<1>5. CASE HandleStdin(c)
  <2>1. CASE \E i \in Ids : NotifyAllVects(c, i)
    <3>1. PICK i \in Ids : NotifyAllVects(c, i)
      BY <2>1
    <3> QED
      BY <1>1, <1>4, <3>1 DEF NotifyAllVects
  <2>2. CASE \E i \in Ids, v \in 1 .. MaxVectors : Notify(c, i, v)
    <3>1. PICK i \in Ids, v \in 1 .. MaxVectors : Notify(c, i, v)
      BY <2>2
    <3>2. v <= Len(table[c][i]) /\ Ring(c, {table[c][i][v]}) /\ Len(table[c][i]) \in Nat
      BY <1>1, <3>1, LenProperties DEF Notify
    <3>3. v \in 1 .. Len(table[c][i])
      BY <3>2, VectorAssumption
    <3>4. table[c][i][v] \in Eventfds
      BY <1>1, <3>3, ElementOfSeq
    <3> QED
      BY <1>4, <3>2, <3>4
  <2>3. CASE NotifyBroadcast(c)
    <3>1. UNION {Range(table[c][i]) : i \in Ids \ {local[c]}} \in SUBSET Eventfds
      BY <1>1
    <3> QED
      BY <1>4, <2>3, <3>1 DEF NotifyBroadcast
  <2> QED
    BY <1>5, <2>1, <2>2, <2>3 DEF HandleStdin
<1> QED
  BY <1>3, <1>5

LEMMA ClientSteps ==
    ASSUME IInv, NEW c \in Clients,
           Kill(c) \/ Connect(c) \/ ClientMsg(c) \/ HandleEvent(c) \/ HandleStdin(c)
    PROVE  IInv'
<1>0. local \in [Clients -> Ids \cup {NoId}]
  BY DEF IInv, ClientType
<1>1. ASSUME ClientClose(c), cpc[c] # "idle" PROVE IInv'
  <2>1. /\ CloseSock(c) /\ local' = [local EXCEPT ![c] = NoId]
        /\ table' = [table EXCEPT ![c] = NoPeers]
    BY <1>1 DEF ClientClose
  <2>2. local' \in [Clients -> Ids \cup {NoId}] /\ \A d \in Clients \ {c} : local'[d] = local[d]
    BY <1>0, <2>1
  <2> QED
    BY <1>1, <2>1, <2>2, CloseStep
<1>2. ASSUME CloseSock(c), cpc[c] # "idle", UNCHANGED <<local, table>> PROVE IInv'
  BY <1>0, <1>2, CloseStep
<1>3. CASE Kill(c)
  BY <1>1, <1>3 DEF Kill
<1>4. CASE Connect(c)
  BY <1>4, ConnectStep
<1>5. CASE ReadInfo(c)
  BY <1>5, ReadInfoStep
<1>6. CASE ConnectFails(c)
  BY <1>2, <1>6 DEF ConnectFails, Starting
<1>7. CASE ReadReset(c)
  <2>1. cpc[c] = "version" /\ sock[c] \in reset /\ UNCHANGED <<local, table>>
    BY <1>7 DEF ReadReset
  <2>2. CASE CloseSock(c)
    BY <1>2, <2>1, <2>2
  <2>3. CASE /\ cpc' = [cpc EXCEPT ![c] = "id"] /\ reset' = reset \ {sock[c]}
             /\ UNCHANGED <<server, sock, srvend, backlog, inbox, rung, lost, made>>
    BY <2>1, <2>3, ResetUnnoticed
  <2> QED
    BY <1>7, <2>2, <2>3 DEF ReadReset
<1>8. CASE HandleServerMsg(c)
  BY <1>8, ServerMsgStep
<1>9. CASE Disconnect(c)
  BY <1>1, <1>9 DEF Disconnect
<1>10. CASE HandleEvent(c) \/ HandleStdin(c)
  BY <1>10, RingSteps
<1> QED
  BY <1>3, <1>4, <1>5, <1>6, <1>7, <1>8, <1>9, <1>10 DEF ClientMsg

LEMMA IInvStutter == IInv /\ UNCHANGED vars => IInv'
<1> SUFFICES ASSUME IInv, UNCHANGED vars PROVE IInv'
  OBVIOUS
<1>1. UNCHANGED server /\ UNCHANGED client
      /\ UNCHANGED <<srvend, backlog, inbox, reset, lost, made>> /\ rung' = rung
  BY DEF vars, net
<1>2. rung' \subseteq Eventfds
  BY <1>1 DEF IInv, NetType
<1> QED
  BY <1>1, <1>2, RungStep

LEMMA IInvNext == IInv /\ [Next]_vars => IInv'
<1> SUFFICES ASSUME IInv, [Next]_vars PROVE IInv'
  OBVIOUS
<1>1. CASE ServerStart \/ Sigterm
  BY <1>1, ThreadSteps
<1>2. CASE ServerStep
  BY <1>2, ThreadSteps, HandleNewConnStep, NewConnFailsStep, SendOneStep, InitialInfoFailsStep,
     NewConnDoneStep, FreePeerStep, FreeDoneStep, EndSteps
     DEF ServerStep, NoIdLeft
<1>3. CASE ServerFault
  BY <1>3, ThreadSteps, NewConnFailsStep, EndSteps DEF ServerFault, EventfdFails
<1>4. CASE \E c \in Clients : Kill(c) \/ Connect(c) \/ ClientMsg(c)
                              \/ HandleEvent(c) \/ HandleStdin(c)
  BY <1>4, ClientSteps
<1>5. CASE UNCHANGED vars
  BY <1>5, IInvStutter
<1> QED
  BY <1>1, <1>2, <1>3, <1>4, <1>5 DEF Next

LEMMA IInvAlways == Spec => []IInv
BY IInvInit, IInvNext, PTL DEF Spec

-------------------------------------------------------------------------------
(* Theorems *)

\* The list of peers, the tables of the clients and the buffers keep to the
\* values the code can give them, for every number of clients, connections,
\* ids and vectors: no vector is stored beyond the client's array, no message
\* beyond the socket's buffer.
THEOREM TypeTheorem == Spec => []TypeOK
BY IInvAlways, IInvType, PTL

\* Whether main returns, an error ends the loop in the middle of a new
\* connection or the process is killed: the server leaves no eventfd, no
\* connection and no socket open.
THEOREM NothingLeftTheorem == Spec => []NothingLeft
BY IInvAlways, IInvNothing, PTL

\* Ids are unique among the peers of a server although cur_id wraps, and a
\* client that has had its initial info has the id the server knows it by,
\* whatever was sent, lost or reset on the way.
THEOREM IdsUniqueTheorem == Spec => []IdsUnique
<1>1. IInv => IdsUnique
  BY DEF IInv
<1> QED
  BY IInvAlways, <1>1, PTL

-------------------------------------------------------------------------------
(* What the clients learn, and when they let go *)

\* An advert names a connection by the id that it has, or had; q is pid.
Names(m, q) == m.fd \in Eventfds => q[m.fd.conn] = m.idx /\ m.idx \in Ids

\* What is said of id i before a deletion of it, or kept in a table t, is about
\* connections that have left: they are not in P.
Past(m, i, P) == (m.fd \in Eventfds /\ m.idx = i) => m.fd.conn \notin P
TableGone(t, i, P) == i \in Ids => \A e \in Vals(t[i]) : e.conn \notin P

\* That holds in a buffer b of a client with table t, in the buffer of whoever
\* x is for, and among the messages s of the handler at work.
ReadGone(b, t, P) ==
    \A k \in 1 .. Len(b) : b[k].fd = None =>
        TableGone(t, b[k].idx, P) /\ \A j \in 1 .. k : Past(b[j], b[k].idx, P)
BufferGone(x, b, P) ==
    x.msg.fd = None => \A j \in 1 .. Len(b) : Past(b[j], x.msg.idx, P)
QueueGone(s, P) ==
    \A k \in 1 .. Len(s) : s[k].msg.fd = None =>
        \A j \in 1 .. k : s[j].to = s[k].to => Past(s[j].msg, s[k].msg.idx, P)

NameInv ==
    /\ \A n \in Conns : (n \in Queued \/ n > made) => pid[n] = NoId
    /\ \A n \in Present : pid[n] \in Ids
    /\ \A c \in Clients : cpc[c] # "poll" => table[c] = NoPeers
    /\ \A c \in Clients, i \in Ids : \A e \in Vals(table[c][i]) : pid[e.conn] = i
    /\ \A n \in Conns : \A k \in 1 .. Len(inbox[n]) : Names(inbox[n][k], pid)
    /\ \A k \in 1 .. Len(sends) : Names(sends[k].msg, pid)

GoneInv ==
    /\ \A c \in Clients : sock[c] # None => ReadGone(inbox[sock[c]], table[c], Present)
    /\ \A k \in 1 .. Len(sends) : BufferGone(sends[k], inbox[sends[k].to], Present)
    /\ \A k \in 1 .. Len(sends), c \in Clients :
         (sends[k].msg.fd = None /\ sock[c] = sends[k].to)
            => TableGone(table[c], sends[k].msg.idx, Present)
    /\ QueueGone(sends, Present)

LearnInv == IInv /\ NameInv /\ GoneInv

LEMMA NoneEventfds == None \notin Eventfds /\ Shm \notin Eventfds
<1>1. \A e \in Eventfds : e \in [conn : Int, vec : Int] /\ e.conn # 0
  BY BoundAssumption, VectorAssumption DEF Eventfds, Conns, Vectors
<1> QED
  BY <1>1, NoneAssumption DEF Shm

LEMMA LearnInit == Init => LearnInv
<1> SUFFICES ASSUME Init PROVE LearnInv
  OBVIOUS
<1>1. \A c \in Clients, i \in Ids : table[c][i] = <<>>
  BY DEF Init, NoPeers
<1>2. Present = {}
  BY DEF Init, Present, Listed
<1>3. NameInv
  BY <1>1, <1>2, ValsEmpty DEF Init, NameInv
<1>4. GoneInv
  BY <1>2 DEF Init, GoneInv, ReadGone, QueueGone
<1> QED
  BY <1>3, <1>4, IInvInit DEF LearnInv

\* Who is not in P is not in a part of it.
LEMMA GoneShrinks ==
    ASSUME NEW P, NEW Q \in SUBSET P
    PROVE  /\ \A m, i : Past(m, i, P) => Past(m, i, Q)
           /\ \A t, i : TableGone(t, i, P) => TableGone(t, i, Q)
           /\ \A b, t : ReadGone(b, t, P) => ReadGone(b, t, Q)
           /\ \A x, b : BufferGone(x, b, P) => BufferGone(x, b, Q)
           /\ \A s : QueueGone(s, P) => QueueGone(s, Q)
<1>1. \A m, i : Past(m, i, P) => Past(m, i, Q)
  BY DEF Past
<1>2. \A t, i : TableGone(t, i, P) => TableGone(t, i, Q)
  BY DEF TableGone
<1>3. \A b, t : ReadGone(b, t, P) => ReadGone(b, t, Q)
  BY <1>1, <1>2 DEF ReadGone
<1>4. \A x, b : BufferGone(x, b, P) => BufferGone(x, b, Q)
  BY <1>1 DEF BufferGone
<1>5. \A s : QueueGone(s, P) => QueueGone(s, Q)
  BY <1>1 DEF QueueGone
<1> QED
  BY <1>1, <1>2, <1>3, <1>4, <1>5

\* Fewer connections are here, and nobody says or hears anything.
LEMMA LearnShrinks ==
    ASSUME LearnInv, IInv', UNCHANGED <<pid, inbox, sock, table, cpc, made>>,
           sends' = sends \/ sends' = <<>>, Present' \subseteq Present, Queued' \subseteq Queued
    PROVE  LearnInv'
<1> USE DEF LearnInv
<1>1. NameInv'
  <2>1. \A n \in Conns : (n \in Queued' \/ n > made') => pid'[n] = NoId
    BY DEF NameInv
  <2>2. \A k \in 1 .. Len(sends') : Names(sends'[k].msg, pid')
    BY DEF NameInv
  <2> QED
    BY <2>1, <2>2 DEF NameInv
<1>2. PICK P, Q : P = Present /\ Q = Present'
  OBVIOUS
<1>3. Q \in SUBSET P
  BY <1>2
<1>4. \A c \in Clients : sock'[c] # None => ReadGone(inbox'[sock'[c]], table'[c], Q)
  BY <1>2, <1>3, GoneShrinks DEF GoneInv
<1>5. CASE sends' = sends
  <2>1. \A k \in 1 .. Len(sends) : BufferGone(sends[k], inbox[sends[k].to], Q)
    BY <1>2, <1>3, GoneShrinks DEF GoneInv
  <2>2. \A k \in 1 .. Len(sends), c \in Clients :
          (sends[k].msg.fd = None /\ sock[c] = sends[k].to) => TableGone(table[c], sends[k].msg.idx, Q)
    BY <1>2, <1>3, GoneShrinks DEF GoneInv
  <2>3. QueueGone(sends, Q)
    BY <1>2, <1>3, GoneShrinks DEF GoneInv
  <2> QED
    BY <1>1, <1>2, <1>4, <1>5, <2>1, <2>2, <2>3 DEF GoneInv
<1>6. CASE sends' = <<>>
  <2>1. QueueGone(sends', Q) /\ 1 .. Len(sends') = {}
    BY <1>6 DEF QueueGone
  <2> QED
    BY <1>1, <1>2, <1>4, <2>1 DEF GoneInv
<1> QED
  BY <1>5, <1>6

LEMMA LearnQuiet ==
    ASSUME LearnInv, IInv',
           \/ ServerStart \/ ListenFails \/ Daemonize \/ DaemonFails \/ Sigterm
           \/ LoopTest \/ EnterSelect \/ SelectReturns \/ FdsDone \/ AcceptFails
    PROVE  LearnInv' /\ Present' = Present /\ UNCHANGED <<pid, made, sock, table, sends, inbox, cpc>>
<1>1. UNCHANGED <<peer_list, pid, cur, sends>> /\ UNCHANGED <<client, net>>
  BY DEF ServerStart, ListenFails, Daemonize, DaemonFails, Sigterm, LoopTest, EnterSelect,
         SelectReturns, FdsDone, AcceptFails, Ends
<1>2. pc' = pc \/ {pc, pc'} \cap {"conn", "free"} = {}
  BY DEF ServerStart, ListenFails, Daemonize, DaemonFails, Sigterm, LoopTest, EnterSelect,
         SelectReturns, FdsDone, AcceptFails, Accepting, Ends, LearnInv, IInv, PlaceInv
<1>3. Present' = Present /\ Queued' = Queued
  BY <1>1, <1>2 DEF Present, Listed, Queued, net
<1>4. UNCHANGED <<pid, inbox, sock, table, cpc, made, sends>>
  BY <1>1 DEF client, net
<1> QED
  BY <1>3, <1>4, LearnShrinks

\* The steps after which fewer peers are here, or as many: each with what is
\* left of them.
LEMMA LearnFewer ==
    ASSUME LearnInv, IInv',
           \/ NewConnFails \/ InitialInfoFails \/ NewConnDone \/ FreeDone
           \/ ServerClose \/ ServerKilled
    PROVE  /\ LearnInv' /\ Present' \subseteq Present
           /\ UNCHANGED <<pid, made, sock, table, cpc>>
<1> USE DEF LearnInv
<1>1. /\ UNCHANGED <<pid, inbox, made>> /\ UNCHANGED client /\ (sends' = sends \/ sends' = <<>>)
  BY DEF NewConnFails, InitialInfoFails, NewConnDone, FreeDone, ServerClose, ServerKilled, net
<1>2. Queued' \subseteq Queued /\ Present' \subseteq Present
  <2>1. CASE NewConnFails
    <3>1. backlog # <<>> /\ backlog \in Seq(Conns) /\ Distinct(backlog)
      BY <2>1 DEF NewConnFails, Accepting, IInv, PlaceInv, NetType, ConnInv
    <3>2. backlog' = Tail(backlog) /\ UNCHANGED <<peer_list, cur>> /\ pc' = "fds"
      BY <2>1 DEF NewConnFails, Ends
    <3>3. Vals(backlog') \subseteq Vals(backlog)
      BY <3>1, <3>2, TailVals
    <3> QED
      BY <3>2, <3>3 DEF Queued, Present, Listed
  <2>2. CASE InitialInfoFails
    BY <2>2 DEF InitialInfoFails, Ends, Queued, Present, Listed
  <2>3. CASE NewConnDone
    <3>1. /\ pc = "conn" /\ pc' = "fds" /\ peer_list' = Append(peer_list, cur) /\ backlog' = backlog
      BY <2>3 DEF NewConnDone, net
    <3>2. cur \in Conns /\ peer_list \in Seq(Conns)
      BY <3>1 DEF IInv, PlaceInv, ServerType
    <3>3. Here' = Here \cup {cur} /\ peer_list' \in Seq(Conns)
      BY <3>1, <3>2, AppendVals DEF Here
    <3>4. Listed = Here
      BY <3>2, HereListed
    <3>5. Listed' = Here'
      BY <3>3, LenProperties DEF Listed, Here, Vals
    <3> QED
      BY <3>1, <3>3, <3>4, <3>5 DEF Present, Queued
  <2>4. CASE FreeDone
    BY <2>4 DEF FreeDone, Queued, Present, Listed, net
  <2>5. CASE ServerClose \/ ServerKilled
    <3>1. backlog' = <<>> /\ peer_list' = <<>> /\ pc' # "conn"
      BY <2>5 DEF ServerClose, ServerKilled
    <3>2. Vals(backlog') = {} /\ Present' = {}
      BY <3>1, ValsEmpty DEF Present, Listed
    <3> QED
      BY <3>2 DEF Queued
  <2> QED
    BY <2>1, <2>2, <2>3, <2>4, <2>5
<1>3. UNCHANGED <<pid, inbox, sock, table, cpc, made>>
  BY <1>1 DEF client
<1> QED
  BY <1>1, <1>2, <1>3, LearnShrinks

LEMMA LearnFree == ASSUME LearnInv, IInv', FreePeer PROVE LearnInv' /\ Present' \subseteq Present
<1> USE DEF LearnInv
<1>1. PICK d, n, r : d = Min(Leaving) /\ n = peer_list[d] /\ r = RemoveAt(peer_list, d)
  OBVIOUS
<1>2. /\ pc = "fds" /\ Leaving # {} /\ cur' = n /\ peer_list' = r
      /\ sends' = [k \in DOMAIN r |-> SendTo(r[k], pid[n], None)] /\ pc' = "free"
      /\ UNCHANGED <<pid, backlog, inbox, made, cpc, sock, table>>
  BY <1>1 DEF FreePeer, client
<1>3. d \in 1 .. Len(peer_list)
  <2>1. Len(peer_list) \in Nat /\ DOMAIN peer_list = 1 .. Len(peer_list)
    BY LenProperties DEF IInv, ServerType
  <2>2. Leaving \in SUBSET Nat
    BY <2>1 DEF Leaving
  <2>3. d \in Leaving
    BY <1>1, <1>2, <2>2, MinIn
  <2> QED
    BY <2>1, <2>3 DEF Leaving
<1>4. r \in Seq(Conns) /\ Vals(r) = Vals(peer_list) \ {n}
  BY <1>1, <1>3, RemoveVals DEF IInv, ServerType, ConnInv
<1>5. n \in Conns /\ n \in Here
  BY <1>1, <1>3, ElementOfSeq DEF IInv, ServerType, Here, Vals
<1>6. Present' = Present \ {n} /\ n \in Present
  <2>1. Listed = Here
    BY HereListed DEF IInv, ServerType
  <2>2. DOMAIN peer_list' = 1 .. Len(peer_list')
    BY <1>2, <1>4, LenProperties
  <2>3. Listed' = Here \ {n}
    BY <1>2, <1>4, <2>2 DEF Listed, Here, Vals
  <2> QED
    BY <1>2, <1>5, <2>1, <2>3 DEF Present
<1>7. PICK i \in Ids : i = pid[n]
  BY <1>6 DEF NameInv
<1>8. \A k \in 1 .. Len(sends') : sends'[k].msg = Msg(i, None)
  <2>1. PICK s : s = [k \in DOMAIN r |-> SendTo(r[k], i, None)]
    OBVIOUS
  <2>2. \A k \in 1 .. Len(s) : s[k].msg = Msg(i, None)
    BY <1>4, <2>1, FreeTyped
  <2>3. sends' = s
    BY <1>2, <1>7, <2>1
  <2> QED
    BY <2>2, <2>3
<1>9. Msg(i, None).fd = None /\ Msg(i, None).idx = i
  BY DEF Msg
<1>10. NameInv'
  <2>1. \A k \in 1 .. Len(sends') : Names(sends'[k].msg, pid')
    BY <1>8, <1>9, NoneEventfds DEF Names
  <2>2. Queued' = Queued /\ Present' \subseteq Present
    BY <1>2, <1>6 DEF Queued
  <2> QED
    BY <1>2, <2>1, <2>2 DEF NameInv
\* Whoever else had this id has left.
<1>11. \A m \in Conns : pid[m] = i => m \notin Present'
  BY <1>6, <1>7 DEF IInv, IdsUnique
<1>12. \A c \in Clients : TableGone(table[c], i, Present')
  <2> SUFFICES ASSUME NEW c \in Clients, NEW e \in Vals(table[c][i]) PROVE e.conn \notin Present'
    BY DEF TableGone
  <2>1. pid[e.conn] = i
    BY DEF NameInv
  <2>2. table[c][i] \in Seq(Eventfds)
    BY DEF IInv, ClientType
  <2>3. e \in Eventfds
    BY <2>2, ValsRange
  <2>4. e.conn \in Conns
    BY <2>3 DEF Eventfds
  <2> QED
    BY <1>11, <2>1, <2>4
<1>13. \A m \in Conns : \A j \in 1 .. Len(inbox[m]) : Past(inbox[m][j], i, Present')
  <2> SUFFICES ASSUME NEW m \in Conns, NEW j \in 1 .. Len(inbox[m]), inbox[m][j].fd \in Eventfds,
                      inbox[m][j].idx = i
               PROVE  inbox[m][j].fd.conn \notin Present'
    BY DEF Past
  <2>1. pid[inbox[m][j].fd.conn] = i
    BY DEF NameInv, Names
  <2>2. inbox[m][j].fd.conn \in Conns
    BY DEF Eventfds
  <2> QED
    BY <1>11, <2>1, <2>2
<1>14. PICK P, Q : P = Present /\ Q = Present'
  OBVIOUS
<1>15. Q \in SUBSET P
  BY <1>6, <1>14
<1>16. \A c \in Clients : sock'[c] # None => ReadGone(inbox'[sock'[c]], table'[c], Q)
  BY <1>2, <1>14, <1>15, GoneShrinks DEF GoneInv
<1>17. \A k \in 1 .. Len(sends') : BufferGone(sends'[k], inbox'[sends'[k].to], Q)
  <2> SUFFICES ASSUME NEW k \in 1 .. Len(sends')
               PROVE  BufferGone(sends'[k], inbox'[sends'[k].to], Q)
    OBVIOUS
  <2>1. sends' \in Seq(Sends)
    BY DEF IInv, ServerType
  <2>2. sends'[k] \in Sends
    BY <2>1, ElementOfSeq
  <2>3. PICK m \in Conns : m = sends'[k].to
    BY <2>2 DEF Sends
  <2>4. \A j \in 1 .. Len(inbox[m]) : Past(inbox[m][j], i, Q)
    BY <1>13, <1>14
  <2> QED
    BY <1>2, <1>8, <1>9, <2>3, <2>4 DEF BufferGone
<1>18. QueueGone(sends', Q)
  BY <1>8, <1>9, NoneEventfds DEF QueueGone, Past
<1>19. GoneInv'
  BY <1>2, <1>8, <1>9, <1>12, <1>14, <1>16, <1>17, <1>18 DEF GoneInv
<1> QED
  BY <1>6, <1>10, <1>19

\* A connection that joins: it was in the backlog, and nobody here has its id.
Joining(n, i) ==
    /\ pc = "fds" /\ Here = Present
    /\ n \in Queued /\ n \notin Present /\ pid[n] = NoId
    /\ \A m \in Present : pid[m] # i
    /\ pid' = [pid EXCEPT ![n] = i] /\ Present' = Present \cup {n}
    /\ sends' = NewConnSends(n, i) /\ Queued' \subseteq Queued \ {n}
    /\ UNCHANGED <<peer_list, inbox, made, cpc, sock, table>>

LEMMA NewConnJoins ==
    ASSUME LearnInv, HandleNewConn PROVE \E n \in Conns, i \in Ids : Joining(n, i)
<1> USE DEF LearnInv
<1>1. PICK n, i : n = Head(backlog) /\ i = (cur_id + Min(Steps)) % IdSpace
  OBVIOUS
<1>2. /\ pc = "fds" /\ Listen \in fds /\ Steps # {} /\ cur' = n /\ pc' = "conn"
      /\ pid' = [pid EXCEPT ![n] = i] /\ sends' = NewConnSends(n, i) /\ backlog' = Tail(backlog)
      /\ UNCHANGED <<peer_list, inbox, made, cpc, sock, table>>
  BY <1>1 DEF HandleNewConn, Accepting, client
<1>3. n \in Conns /\ Queued' = Queued \ {n} /\ n \in Queued
  <2>1. backlog # <<>> /\ backlog \in Seq(Conns) /\ Distinct(backlog)
    BY <1>2 DEF IInv, PlaceInv, NetType, ConnInv
  <2> QED
    BY <1>1, <1>2, <2>1, TailVals DEF Queued
<1>4. i \in Ids /\ search_peer(i) = {}
  BY <1>1, <1>2, StepsIds DEF IInv
<1>5. Listed = Here /\ Listed' = Listed
  BY <1>2, HereListed DEF IInv, ServerType, Listed
<1>6. Present = Here /\ Present' = Here \cup {n}
  BY <1>2, <1>5 DEF Present
<1>7. n \notin Here /\ pid[n] = NoId
  BY <1>3 DEF IInv, ConnInv, NameInv
<1>8. \A m \in Present : pid[m] # i
  BY <1>4, <1>5, <1>6 DEF search_peer
<1>9. Joining(n, i)
  BY <1>2, <1>3, <1>6, <1>7, <1>8 DEF Joining
<1> QED
  BY <1>3, <1>4, <1>9

\* What was said and kept before does not name the new connection.
LEMMA GoneGrows ==
    ASSUME NEW q, NEW P, NEW n, q[n] = NoId
    PROVE  /\ \A m, i : Names(m, q) /\ Past(m, i, P) => Past(m, i, P \cup {n})
           /\ \A t, i : (i \in Ids => \A e \in Vals(t[i]) : q[e.conn] = i) /\ TableGone(t, i, P)
                           => TableGone(t, i, P \cup {n})
<1>1. NoId \notin Ids
  BY IdSpaceAssumption DEF NoId, Ids
<1>2. ASSUME NEW m, NEW i, Names(m, q), Past(m, i, P), m.fd \in Eventfds, m.idx = i
      PROVE  m.fd.conn \notin P \cup {n}
  BY <1>1, <1>2 DEF Names, Past
<1>3. \A m, i : Names(m, q) /\ Past(m, i, P) => Past(m, i, P \cup {n})
  BY <1>2 DEF Past
<1>4. ASSUME NEW t, NEW i \in Ids, NEW e \in Vals(t[i]), q[e.conn] = i, e.conn \notin P
      PROVE  e.conn \notin P \cup {n}
  BY <1>1, <1>4
<1>5. \A t, i : (i \in Ids => \A e \in Vals(t[i]) : q[e.conn] = i) /\ TableGone(t, i, P)
                  => TableGone(t, i, P \cup {n})
  BY <1>4 DEF TableGone
<1> QED
  BY <1>3, <1>5

LEMMA LearnJoin ==
    ASSUME LearnInv, IInv', NEW n \in Conns, NEW i \in Ids, Joining(n, i) PROVE LearnInv'
<1> USE DEF LearnInv
<1>1. /\ n \in Queued /\ pid[n] = NoId /\ Here = Present
      /\ pid' = [pid EXCEPT ![n] = i] /\ Present' = Present \cup {n}
      /\ sends' = NewConnSends(n, i) /\ Queued' \subseteq Queued \ {n}
      /\ UNCHANGED <<peer_list, inbox, made, cpc, sock, table>>
  BY DEF Joining
<1>2. NoId \notin Ids
  BY IdSpaceAssumption DEF NoId, Ids
<1>3. /\ pid \in [Conns -> Ids \cup {NoId}] /\ peer_list \in Seq(Conns) /\ Here \subseteq Conns
      /\ inbox \in [Conns -> Seq(Sound)]
  BY ValsRange DEF IInv, ServerType, NetType, Here
<1>4. n <= made /\ inbox[n] = <<>> /\ \A c \in Clients : sock[c] = n => table[c] = NoPeers
  <2>1. n <= made /\ inbox[n] = <<>> /\ Delivered(n, 0)
    BY <1>1 DEF IInv, ConnInv, InfoInv
  <2>2. ASSUME NEW c \in Clients, sock[c] = n PROVE table[c] = NoPeers
    <3>1. Got(c) + 0 = 0
      BY <2>1, <2>2 DEF Delivered
    <3>2. cpc[c] # "poll"
      BY <3>1 DEF Got
    <3> QED
      BY <3>2 DEF NameInv
  <2> QED
    BY <2>1, <2>2
\* The names that others have stay as they are.
<1>5. \A m : Names(m, pid) => Names(m, pid')
  <2> SUFFICES ASSUME NEW m, Names(m, pid), m.fd \in Eventfds PROVE pid'[m.fd.conn] = m.idx /\ m.idx \in Ids
    BY DEF Names
  <2>1. m.fd.conn \in Conns /\ pid[m.fd.conn] = m.idx /\ m.idx \in Ids
    BY DEF Names, Eventfds
  <2> QED
    BY <1>1, <1>2, <1>3, <2>1
<1>6. PICK q : q = pid'
  OBVIOUS
<1>7. PICK M : M = {m \in Sound : m.fd \in Eventfds /\ Names(m, q)}
  OBVIOUS
<1>8. ASSUME NEW p \in Conns, NEW a \in Ids, q[p] = a, NEW v \in Vectors
      PROVE  Msg(a, Eventfd(p, v)) \in M
  <2>1. Eventfd(p, v) \in Eventfds /\ Eventfd(p, v).conn = p
    BY DEF Eventfd, Eventfds
  <2>2. Msg(a, Eventfd(p, v)) \in Sound
    BY EventfdSound
  <2>3. Msg(a, Eventfd(p, v)).fd = Eventfd(p, v) /\ Msg(a, Eventfd(p, v)).idx = a
    BY DEF Msg
  <2>4. Names(Msg(a, Eventfd(p, v)), q)
    BY <1>8, <2>1, <2>3 DEF Names
  <2> QED
    BY <1>7, <2>1, <2>2, <2>3, <2>4
<1>9. Begins(NewConnSends(n, i), n, i, Here, M)
  <2>1. M \in SUBSET Sound
    BY <1>7
  <2>2. q[n] = i
    BY <1>1, <1>3, <1>6
  <2>3. \A v \in Vectors : Msg(i, Eventfd(n, v)) \in M
    BY <1>8, <2>2
  <2>4. ASSUME NEW p \in Here PROVE \A v \in Vectors : Msg(pid[p], Eventfd(p, v)) \in M
    <3>1. pid[p] \in Ids /\ p \in Conns /\ q[p] = pid[p]
      BY <1>1, <1>2, <1>3, <1>6 DEF NameInv
    <3> QED
      BY <1>8, <3>1
  <2> QED
    BY <1>3, <2>1, <2>3, <2>4, NewConnTyped
<1>10. Begins(sends', n, i, Here, M)
  BY <1>1, <1>9
<1>11. ASSUME NEW k \in 1 .. Len(sends')
       PROVE  /\ Names(sends'[k].msg, q)
              /\ sends'[k].msg.fd = None => k <= 3 /\ sends'[k].to = n
              /\ k <= 3 => sends'[k].msg.fd \notin Eventfds
  <2>1. k \in Nat
    OBVIOUS
  <2>2. CASE k <= 3
    <3>1. k \in {1, 2, 3} /\ sends'[k].to = n
          /\ sends'[k].msg = <<Msg(0, None), Msg(i, None), Msg(-1, Shm)>>[k]
      BY <1>10, <2>1, <2>2 DEF Begins
    <3>2. sends'[k].msg.fd \in {None, Shm}
      BY <3>1 DEF Msg
    <3> QED
      BY <2>2, <3>1, <3>2, NoneEventfds DEF Names
  <2>3. CASE ~ (k <= 3)
    <3>1. sends'[k].msg \in M
      BY <1>10, <2>1, <2>3 DEF Begins
    <3> QED
      BY <1>7, <2>3, <3>1, NoneEventfds
  <2> QED
    BY <2>2, <2>3
<1>12. NameInv'
  <2>1. \A p \in Conns : (p \in Queued' \/ p > made') => pid'[p] = NoId
    <3> SUFFICES ASSUME NEW p \in Conns, p \in Queued' \/ p > made PROVE pid'[p] = NoId
      BY <1>1
    <3>1. p # n
      BY <1>1, <1>4 DEF IInv, NetType, Conns
    <3>2. p \in Queued \/ p > made
      BY <1>1
    <3> QED
      BY <1>1, <1>3, <3>1, <3>2 DEF NameInv
  <2>2. \A p \in Present' : pid'[p] \in Ids
    BY <1>1, <1>3 DEF NameInv
  <2>3. ASSUME NEW c \in Clients, NEW j \in Ids, NEW e \in Vals(table[c][j]) PROVE pid'[e.conn] = j
    <3>1. pid[e.conn] = j
      BY DEF NameInv
    <3>2. table[c][j] \in Seq(Eventfds)
      BY DEF IInv, ClientType
    <3>3. e \in Eventfds
      BY <3>2, ValsRange
    <3>4. e.conn \in Conns
      BY <3>3 DEF Eventfds
    <3> QED
      BY <1>1, <1>2, <1>3, <3>1, <3>4
  <2>4. \A m \in Conns : \A k \in 1 .. Len(inbox[m]) : Names(inbox[m][k], pid')
    BY <1>5 DEF NameInv
  <2> QED
    BY <1>1, <1>6, <1>11, <2>1, <2>2, <2>3, <2>4 DEF NameInv
<1>13. PICK P : P = Present
  OBVIOUS
<1>14. P \cup {n} = Present'
  BY <1>1, <1>13
<1>15. ASSUME NEW c \in Clients, sock[c] # None PROVE ReadGone(inbox[sock[c]], table[c], P \cup {n})
  <2>1. ReadGone(inbox[sock[c]], table[c], P)
    BY <1>13, <1>15 DEF GoneInv
  <2>2. sock[c] \in Conns
    BY <1>15 DEF IInv, ClientType
  <2>3. \A k \in 1 .. Len(inbox[sock[c]]) : Names(inbox[sock[c]][k], pid)
    BY <2>2 DEF NameInv
  <2>4. \A j \in Ids : \A e \in Vals(table[c][j]) : pid[e.conn] = j
    BY DEF NameInv
  <2>5. PICK b, t, p : b = inbox[sock[c]] /\ t = table[c] /\ p = pid
    OBVIOUS
  <2>6. /\ ReadGone(b, t, P) /\ \A k \in 1 .. Len(b) : Names(b[k], p)
        /\ \A j \in Ids : \A e \in Vals(t[j]) : p[e.conn] = j
        /\ p[n] = NoId
    BY <1>1, <2>1, <2>3, <2>4, <2>5
  <2>7. Len(b) \in Nat
    BY <1>3, <2>2, <2>5, LenProperties
  <2>8. ASSUME NEW k \in 1 .. Len(b), b[k].fd = None
        PROVE  TableGone(t, b[k].idx, P \cup {n}) /\ \A j \in 1 .. k : Past(b[j], b[k].idx, P \cup {n})
    <3>1. TableGone(t, b[k].idx, P) /\ \A j \in 1 .. k : Past(b[j], b[k].idx, P)
      BY <2>6, <2>8 DEF ReadGone
    <3>2. \A j \in 1 .. k : Names(b[j], p)
      BY <2>6, <2>7
    <3> QED
      BY <2>6, <3>1, <3>2, GoneGrows
  <2> QED
    BY <2>5, <2>8 DEF ReadGone
<1>16. \A k \in 1 .. Len(sends') : BufferGone(sends'[k], inbox'[sends'[k].to], P \cup {n})
  <2>1. Len(inbox[n]) = 0
    BY <1>4
  <2> QED
    BY <1>1, <1>11, <2>1 DEF BufferGone
<1>17. \A k \in 1 .. Len(sends'), c \in Clients :
         (sends'[k].msg.fd = None /\ sock[c] = sends'[k].to)
            => TableGone(table[c], sends'[k].msg.idx, P \cup {n})
  <2>1. \A j \in Ids : Vals(NoPeers[j]) = {}
    BY ValsEmpty DEF NoPeers
  <2> QED
    BY <1>4, <1>11, <2>1 DEF TableGone
<1>18. QueueGone(sends', P \cup {n})
  <2> SUFFICES ASSUME NEW k \in 1 .. Len(sends'), sends'[k].msg.fd = None, NEW j \in 1 .. k
               PROVE  Past(sends'[j].msg, sends'[k].msg.idx, P \cup {n})
    BY DEF QueueGone
  <2>1. k <= 3 /\ Len(sends') \in Nat
    BY <1>10, <1>11, LenProperties DEF IInv, ServerType
  <2>2. j \in 1 .. Len(sends') /\ j <= 3
    BY <2>1
  <2> QED
    BY <1>11, <2>2 DEF Past
<1>19. GoneInv'
  BY <1>1, <1>14, <1>15, <1>16, <1>17, <1>18 DEF GoneInv
<1> QED
  BY <1>12, <1>19

\* A message moves from the handler at work to the end of a buffer, or gets lost.
LEMMA LearnSendOne ==
    ASSUME LearnInv, IInv', SendOne
    PROVE  LearnInv' /\ Present' = Present /\ UNCHANGED <<pid, made, sock, table, cpc>>
<1> USE DEF LearnInv
<1>1. PICK s : s = sends
  OBVIOUS
<1>2. PICK n, m : n = Head(s).to /\ m = Head(s).msg
  OBVIOUS
<1>3. /\ s # <<>> /\ sends' = Tail(s)
      /\ inbox' = [inbox EXCEPT ![n] = Append(@, m)] \/ inbox' = inbox
      /\ UNCHANGED <<pc, cur, peer_list, pid, backlog, made, cpc, sock, table>>
  BY <1>1, <1>2 DEF SendOne, client
<1>4. s \in Seq(Sends) /\ inbox \in [Conns -> Seq(Sound)] /\ sends' \in Seq(Sends)
  BY <1>1 DEF IInv, ServerType, NetType
<1>5. PICK r \in Seq(Sends) : r = sends'
  BY <1>4
<1>6. /\ Len(s) \in Nat \ {0} /\ Len(r) = Len(s) - 1 /\ n = s[1].to /\ m = s[1].msg
      /\ \A k \in 1 .. Len(r) : r[k] = s[k + 1]
  BY <1>2, <1>3, <1>4, <1>5, HeadTailProperties, EmptySeq, LenProperties
<1>7. /\ 1 \in 1 .. Len(s)
      /\ \A k \in 1 .. Len(r) : k + 1 \in 1 .. Len(s) /\ 1 \in 1 .. (k + 1)
  BY <1>6
<1>8. s[1] \in Sends
  BY <1>4, <1>7, ElementOfSeq
<1>9. n \in Conns /\ m \in Sound
  BY <1>6, <1>8 DEF Sends
<1>10. PICK b \in Seq(Sound) : b = inbox[n]
  BY <1>4, <1>9
<1>11. PICK a \in Seq(Sound) : a = Append(b, m)
  BY <1>9, AppendProperties
<1>12. /\ Len(b) \in Nat /\ Len(a) = Len(b) + 1 /\ a[Len(b) + 1] = m
       /\ \A k \in 1 .. Len(b) : a[k] = b[k]
  BY <1>9, <1>11, AppendProperties, LenProperties
<1>13. \A k \in 1 .. Len(a) : k \in 1 .. Len(b) \/ k = Len(b) + 1
  BY <1>12
<1>14. /\ \A x \in Conns : x # n => inbox'[x] = inbox[x]
       /\ inbox'[n] = a \/ inbox'[n] = b
  BY <1>3, <1>4, <1>9, <1>10, <1>11
<1>15. Present' = Present /\ Queued' = Queued
  BY <1>3 DEF Present, Listed, Queued
<1>16. PICK P : P = Present
  OBVIOUS
<1>17. NameInv'
  <2>1. Names(m, pid) /\ \A k \in 1 .. Len(b) : Names(b[k], pid)
    BY <1>1, <1>6, <1>7, <1>9, <1>10 DEF NameInv
  <2>2. \A k \in 1 .. Len(a) : Names(a[k], pid)
    BY <1>12, <1>13, <2>1
  <2>3. \A x \in Conns : \A k \in 1 .. Len(inbox'[x]) : Names(inbox'[x][k], pid)
    <3> SUFFICES ASSUME NEW x \in Conns PROVE \A k \in 1 .. Len(inbox'[x]) : Names(inbox'[x][k], pid)
      OBVIOUS
    <3>1. CASE x = n
      BY <1>14, <2>1, <2>2, <3>1
    <3>2. CASE x # n
      BY <1>14, <3>2 DEF NameInv
    <3> QED
      BY <3>1, <3>2
  <2>4. \A k \in 1 .. Len(r) : Names(r[k].msg, pid)
    BY <1>1, <1>6, <1>7 DEF NameInv
  <2> QED
    BY <1>3, <1>5, <1>15, <2>3, <2>4 DEF NameInv
<1>18. /\ \A k \in 1 .. Len(s) : BufferGone(s[k], inbox[s[k].to], P)
       /\ \A k \in 1 .. Len(s), c \in Clients :
            (s[k].msg.fd = None /\ sock[c] = s[k].to) => TableGone(table[c], s[k].msg.idx, P)
       /\ QueueGone(s, P)
  BY <1>1, <1>16 DEF GoneInv
<1>19. ASSUME NEW c \in Clients, sock[c] # None PROVE ReadGone(inbox'[sock[c]], table[c], P)
  <2>1. ReadGone(inbox[sock[c]], table[c], P)
    BY <1>16, <1>19 DEF GoneInv
  <2>2. sock[c] \in Conns
    BY <1>19 DEF IInv, ClientType
  <2>3. CASE sock[c] # n \/ inbox'[n] = b
    BY <1>10, <1>14, <2>1, <2>2, <2>3
  <2>4. CASE sock[c] = n /\ inbox'[n] = a
    <3>1. PICK t : t = table[c]
      OBVIOUS
    <3>2. ReadGone(b, t, P)
      BY <1>10, <2>1, <2>4, <3>1
    <3>3. ASSUME NEW k \in 1 .. Len(a), a[k].fd = None
          PROVE  TableGone(t, a[k].idx, P) /\ \A j \in 1 .. k : Past(a[j], a[k].idx, P)
      <4>1. CASE k \in 1 .. Len(b)
        <5>1. b[k].fd = None /\ a[k] = b[k]
          BY <1>12, <3>3, <4>1
        <5>2. TableGone(t, b[k].idx, P) /\ \A j \in 1 .. k : Past(b[j], b[k].idx, P)
          BY <3>2, <4>1, <5>1 DEF ReadGone
        <5>3. \A j \in 1 .. k : a[j] = b[j]
          BY <1>12, <4>1
        <5> QED
          BY <5>1, <5>2, <5>3
      <4>2. CASE k = Len(b) + 1
        <5>1. a[k] = m /\ m.fd = None
          BY <1>12, <3>3, <4>2
        <5>2. TableGone(t, m.idx, P)
          BY <1>6, <1>7, <1>18, <2>4, <3>1, <5>1
        <5>3. BufferGone(s[1], b, P)
          BY <1>6, <1>7, <1>10, <1>18
        <5>4. \A j \in 1 .. Len(b) : Past(b[j], m.idx, P)
          BY <1>6, <5>1, <5>3 DEF BufferGone
        <5>5. Past(m, m.idx, P)
          BY <5>1, NoneEventfds DEF Past
        <5>6. ASSUME NEW j \in 1 .. k PROVE Past(a[j], m.idx, P)
          <6>1. j \in 1 .. Len(b) \/ j = Len(b) + 1
            BY <1>12, <4>2
          <6> QED
            BY <1>12, <5>4, <5>5, <6>1
        <5> QED
          BY <5>1, <5>2, <5>6
      <4> QED
        BY <1>13, <4>1, <4>2
    <3>4. ReadGone(a, t, P)
      BY <3>3 DEF ReadGone
    <3> QED
      BY <2>4, <3>1, <3>4
  <2> QED
    BY <1>14, <2>3, <2>4
<1>20. ASSUME NEW k \in 1 .. Len(r) PROVE BufferGone(r[k], inbox'[r[k].to], P)
  <2>1. r[k] = s[k + 1] /\ k + 1 \in 1 .. Len(s) /\ 1 \in 1 .. (k + 1)
    BY <1>6, <1>7
  <2>2. r[k] \in Sends
    BY ElementOfSeq
  <2>3. r[k].to \in Conns
    BY <2>2 DEF Sends
  <2>4. CASE r[k].to # n \/ inbox'[n] = b
    BY <1>10, <1>14, <1>18, <2>1, <2>3, <2>4
  <2>5. CASE r[k].to = n /\ inbox'[n] = a
    <3>1. BufferGone(r[k], b, P)
      BY <1>10, <1>18, <2>1, <2>5
    <3>2. r[k].msg.fd = None => Past(m, r[k].msg.idx, P)
      BY <1>6, <1>18, <2>1, <2>5 DEF QueueGone
    <3>3. BufferGone(r[k], a, P)
      BY <1>12, <1>13, <3>1, <3>2 DEF BufferGone
    <3> QED
      BY <2>5, <3>3
  <2> QED
    BY <1>14, <2>4, <2>5
<1>21. \A k \in 1 .. Len(r), c \in Clients :
         (r[k].msg.fd = None /\ sock[c] = r[k].to) => TableGone(table[c], r[k].msg.idx, P)
  BY <1>6, <1>7, <1>18
<1>22. QueueGone(r, P)
  <2> SUFFICES ASSUME NEW k \in 1 .. Len(r), r[k].msg.fd = None, NEW j \in 1 .. k, r[j].to = r[k].to
               PROVE  Past(r[j].msg, r[k].msg.idx, P)
    BY DEF QueueGone
  <2>1. j + 1 \in 1 .. (k + 1) /\ j \in 1 .. Len(r) /\ k + 1 \in 1 .. Len(s)
    BY <1>6
  <2>2. r[j] = s[j + 1] /\ r[k] = s[k + 1]
    BY <1>6, <2>1
  <2> QED
    BY <1>18, <2>1, <2>2 DEF QueueGone
<1>23. GoneInv'
  BY <1>3, <1>5, <1>15, <1>16, <1>19, <1>20, <1>21, <1>22 DEF GoneInv
<1> QED
  BY <1>3, <1>15, <1>17, <1>23

\* What is left of buffer b when its first messages, or all, have been taken.
Later(b, a) == \E d \in 0 .. 1 : \A j \in 1 .. Len(a) : j + d \in 1 .. Len(b) /\ a[j] = b[j + d]

LEMMA LaterSame == \A b \in Seq(Sound) : Later(b, b) /\ Later(b, <<>>)
<1> SUFFICES ASSUME NEW b \in Seq(Sound) PROVE Later(b, b) /\ Later(b, <<>>)
  OBVIOUS
<1>1. Len(b) \in Nat
  BY LenProperties
<1>2. \A j \in 1 .. Len(b) : j + 0 \in 1 .. Len(b) /\ b[j] = b[j + 0]
  BY <1>1
<1> QED
  BY <1>2 DEF Later

LEMMA LaterGone ==
    ASSUME NEW P, NEW b \in Seq(Sound), NEW a \in Seq(Sound), Later(b, a)
    PROVE  /\ \A t : ReadGone(b, t, P) => ReadGone(a, t, P)
           /\ \A x : BufferGone(x, b, P) => BufferGone(x, a, P)
           /\ \A q : (\A k \in 1 .. Len(b) : Names(b[k], q)) => \A k \in 1 .. Len(a) : Names(a[k], q)
<1>1. PICK d \in 0 .. 1 : \A j \in 1 .. Len(a) : j + d \in 1 .. Len(b) /\ a[j] = b[j + d]
  BY DEF Later
<1>2. Len(a) \in Nat /\ Len(b) \in Nat /\ d \in Nat
  BY LenProperties
<1>3. ASSUME NEW t, ReadGone(b, t, P), NEW k \in 1 .. Len(a), a[k].fd = None
      PROVE  TableGone(t, a[k].idx, P) /\ \A j \in 1 .. k : Past(a[j], a[k].idx, P)
  <2>1. k + d \in 1 .. Len(b) /\ a[k] = b[k + d]
    BY <1>1
  <2>2. TableGone(t, a[k].idx, P) /\ \A j \in 1 .. (k + d) : Past(b[j], a[k].idx, P)
    BY <1>3, <2>1 DEF ReadGone
  <2>3. \A j \in 1 .. k : j \in 1 .. Len(a) /\ j + d \in 1 .. (k + d)
    BY <1>2
  <2> QED
    BY <1>1, <2>2, <2>3
<1>4. \A t : ReadGone(b, t, P) => ReadGone(a, t, P)
  BY <1>3 DEF ReadGone
<1>5. \A x : BufferGone(x, b, P) => BufferGone(x, a, P)
  BY <1>1 DEF BufferGone
<1> QED
  BY <1>1, <1>4, <1>5

\* A step of client c: its own buffer, its own table, its own connection.
LEMMA LearnClient ==
    ASSUME LearnInv, IInv', NEW c \in Clients, UNCHANGED server,
           \A x \in Conns : Later(inbox[x], inbox'[x]),
           \A d \in Clients \ {c} : sock'[d] = sock[d] /\ cpc'[d] = cpc[d] /\ table'[d] = table[d],
           \A x \in Conns : (x \in Queued' \/ x > made') => (x \in Queued \/ x > made),
           cpc'[c] # "poll" => table'[c] = NoPeers,
           \A i \in Ids : \A e \in Vals(table'[c][i]) : pid[e.conn] = i,
           sock'[c] # None => ReadGone(inbox'[sock'[c]], table'[c], Present),
           \A k \in 1 .. Len(sends) :
              (sends[k].msg.fd = None /\ sock'[c] = sends[k].to)
                 => TableGone(table'[c], sends[k].msg.idx, Present)
    PROVE  LearnInv' /\ Present' = Present
<1> USE DEF LearnInv
<1>1. UNCHANGED <<pid, sends, pc, cur, peer_list>>
  BY DEF server
<1>2. Present' = Present
  BY <1>1 DEF Present, Listed
<1>3. PICK P, s : P = Present /\ s = sends
  OBVIOUS
<1>4. /\ inbox \in [Conns -> Seq(Sound)] /\ inbox' \in [Conns -> Seq(Sound)]
      /\ s \in Seq(Sends) /\ sock \in [Clients -> Conns \cup {None}]
  BY <1>3 DEF IInv, NetType, ServerType, ClientType
<1>5. ASSUME NEW x \in Conns
      PROVE  /\ \A t : ReadGone(inbox[x], t, P) => ReadGone(inbox'[x], t, P)
             /\ \A y : BufferGone(y, inbox[x], P) => BufferGone(y, inbox'[x], P)
             /\ \A k \in 1 .. Len(inbox'[x]) : Names(inbox'[x][k], pid)
  <2>1. PICK b \in Seq(Sound), a \in Seq(Sound), q \in {pid} : b = inbox[x] /\ a = inbox'[x] /\ q = pid
    BY <1>4
  <2>2. Later(b, a) /\ \A k \in 1 .. Len(b) : Names(b[k], q)
    BY <2>1 DEF NameInv
  <2>3. /\ \A t : ReadGone(b, t, P) => ReadGone(a, t, P)
        /\ \A y : BufferGone(y, b, P) => BufferGone(y, a, P)
        /\ \A k \in 1 .. Len(a) : Names(a[k], q)
    BY <2>2, LaterGone
  <2> QED
    BY <2>1, <2>3
<1>6. NameInv'
  <2>1. \A d \in Clients : cpc'[d] # "poll" => table'[d] = NoPeers
    BY DEF NameInv
  <2>2. \A d \in Clients, i \in Ids : \A e \in Vals(table'[d][i]) : pid[e.conn] = i
    BY DEF NameInv
  <2>3. \A x \in Conns : (x \in Queued' \/ x > made') => pid[x] = NoId
    BY DEF NameInv
  <2>4. (\A x \in Present : pid[x] \in Ids) /\ \A k \in 1 .. Len(sends) : Names(sends[k].msg, pid)
    BY DEF NameInv
  <2> QED
    BY <1>1, <1>2, <1>5, <2>1, <2>2, <2>3, <2>4 DEF NameInv
<1>7. ASSUME NEW d \in Clients, sock'[d] # None PROVE ReadGone(inbox'[sock'[d]], table'[d], P)
  <2>1. CASE d = c
    BY <1>3, <1>7, <2>1
  <2>2. CASE d # c
    <3>1. PICK x \in Conns : x = sock[d] /\ x = sock'[d]
      BY <1>4, <1>7, <2>2
    <3>2. ReadGone(inbox[x], table[d], P) /\ table'[d] = table[d]
      BY <1>3, <1>7, <2>2, <3>1 DEF GoneInv
    <3> QED
      BY <1>5, <3>1, <3>2
  <2> QED
    BY <2>1, <2>2
<1>8. ASSUME NEW k \in 1 .. Len(s) PROVE BufferGone(s[k], inbox'[s[k].to], P)
  <2>1. s[k] \in Sends
    BY <1>4, ElementOfSeq
  <2>2. PICK x \in Conns : x = s[k].to
    BY <2>1 DEF Sends
  <2>3. BufferGone(s[k], inbox[x], P)
    BY <1>3, <2>2 DEF GoneInv
  <2> QED
    BY <1>5, <2>2, <2>3
<1>9. ASSUME NEW k \in 1 .. Len(s), NEW d \in Clients, s[k].msg.fd = None, sock'[d] = s[k].to
      PROVE  TableGone(table'[d], s[k].msg.idx, P)
  <2>1. CASE d = c
    BY <1>3, <1>9, <2>1
  <2>2. CASE d # c
    <3>1. sock[d] = s[k].to /\ table'[d] = table[d]
      BY <1>9, <2>2
    <3>2. TableGone(table[d], s[k].msg.idx, P)
      BY <1>3, <1>9, <3>1 DEF GoneInv
    <3> QED
      BY <3>1, <3>2
  <2> QED
    BY <2>1, <2>2
<1>10. QueueGone(s, P)
  BY <1>3 DEF GoneInv
<1>11. sends' = s /\ Present' = P
  BY <1>1, <1>2, <1>3
<1>12. GoneInv'
  BY <1>7, <1>8, <1>9, <1>10, <1>11 DEF GoneInv
<1> QED
  BY <1>2, <1>6, <1>12

LEMMA NoPeersGone ==
    /\ \A i \in Ids : Vals(NoPeers[i]) = {}
    /\ \A i, P : TableGone(NoPeers, i, P)
<1>1. \A i \in Ids : Vals(NoPeers[i]) = {}
  BY ValsEmpty DEF NoPeers
<1> QED
  BY <1>1 DEF TableGone

LEMMA LearnClose ==
    ASSUME LearnInv, IInv', NEW c \in Clients, cpc[c] # "idle", CloseSock(c),
           (table' = table /\ cpc[c] # "poll") \/ table' = [table EXCEPT ![c] = NoPeers]
    PROVE  /\ LearnInv' /\ Present' = Present /\ table' = [table EXCEPT ![c] = NoPeers]
           /\ sock' = [sock EXCEPT ![c] = None] /\ UNCHANGED <<pid, made>>
<1> USE DEF LearnInv
<1>1. /\ cpc' = [cpc EXCEPT ![c] = "idle"] /\ sock' = [sock EXCEPT ![c] = None]
      /\ inbox' = [x \in Conns |-> IF x = sock[c] THEN <<>> ELSE inbox[x]]
      /\ UNCHANGED server /\ UNCHANGED <<backlog, made>>
  BY DEF CloseSock
<1>2. /\ table \in [Clients -> [Ids -> Seq(Eventfds)]] /\ inbox \in [Conns -> Seq(Sound)]
      /\ cpc \in [Clients -> ClientPcs] /\ sock \in [Clients -> Conns \cup {None}]
  BY DEF IInv, ClientType, NetType
<1>3. table' = [table EXCEPT ![c] = NoPeers]
  BY <1>2 DEF NameInv
<1>4. \A x \in Conns : Later(inbox[x], inbox'[x])
  BY <1>1, <1>2, LaterSame
<1>5. \A d \in Clients \ {c} : sock'[d] = sock[d] /\ cpc'[d] = cpc[d] /\ table'[d] = table[d]
  BY <1>1, <1>2, <1>3
<1>6. table'[c] = NoPeers /\ sock'[c] = None /\ None \notin Conns
  BY <1>1, <1>2, <1>3, NoneConns
<1>7. Queued' = Queued /\ made' = made /\ pid' = pid
  BY <1>1 DEF Queued, server
<1>8. \A i \in Ids : \A e \in Vals(table'[c][i]) : pid[e.conn] = i
  BY <1>6, NoPeersGone
<1>9. \A k \in 1 .. Len(sends) : (sends[k].msg.fd = None /\ sock'[c] = sends[k].to)
                                    => TableGone(table'[c], sends[k].msg.idx, Present)
  BY <1>6, NoPeersGone
<1>10. LearnInv' /\ Present' = Present
  BY <1>1, <1>4, <1>5, <1>6, <1>7, <1>8, <1>9, LearnClient
<1> QED
  BY <1>1, <1>3, <1>7, <1>10

LEMMA LearnConnect ==
    ASSUME LearnInv, IInv', NEW c \in Clients, Connect(c)
    PROVE  /\ LearnInv' /\ Present' = Present /\ UNCHANGED <<pid, table>>
           /\ made' = made + 1 /\ made \in Nat /\ made + 1 \in Conns /\ sock[c] = None
           /\ table[c] = NoPeers /\ sock' = [sock EXCEPT ![c] = made + 1]
<1> USE DEF LearnInv
<1>1. /\ cpc[c] = "idle" /\ made < MaxConns /\ made' = made + 1
      /\ sock' = [sock EXCEPT ![c] = made + 1] /\ backlog' = Append(backlog, made + 1)
      /\ cpc' = [cpc EXCEPT ![c] = "version"]
      /\ UNCHANGED server /\ UNCHANGED <<table, inbox>>
  BY DEF Connect
<1>2. /\ table \in [Clients -> [Ids -> Seq(Eventfds)]] /\ inbox \in [Conns -> Seq(Sound)]
      /\ cpc \in [Clients -> ClientPcs] /\ sock \in [Clients -> Conns \cup {None}]
      /\ backlog \in Seq(Conns) /\ made \in Nat
  BY DEF IInv, ClientType, NetType
<1>3. PICK n \in Conns : n = made + 1
  BY <1>1, <1>2, BoundAssumption DEF Conns
<1>4. inbox[n] = <<>> /\ table[c] = NoPeers /\ sock[c] = None /\ pid' = pid
  BY <1>1, <1>2, <1>3 DEF IInv, InfoInv, SockInv, NameInv, server
<1>5. \A x \in Conns : Later(inbox[x], inbox'[x])
  BY <1>1, <1>2, LaterSame
<1>6. \A d \in Clients \ {c} : sock'[d] = sock[d] /\ cpc'[d] = cpc[d] /\ table'[d] = table[d]
  BY <1>1, <1>2
<1>7. sock'[c] = n /\ table'[c] = NoPeers
  BY <1>1, <1>2, <1>3, <1>4
<1>8. \A x \in Conns : (x \in Queued' \/ x > made') => (x \in Queued \/ x > made)
  <2>1. backlog' = Append(backlog, n)
    BY <1>1, <1>3
  <2>2. Queued' = Queued \cup {n}
    BY <1>2, <2>1, AppendVals DEF Queued
  <2> QED
    BY <1>1, <1>2, <1>3, <2>2 DEF Conns
<1>9. ReadGone(inbox'[n], NoPeers, Present)
  BY <1>1, <1>4 DEF ReadGone
<1>10. \A i \in Ids : \A e \in Vals(table'[c][i]) : pid[e.conn] = i
  BY <1>7, NoPeersGone
<1>11. \A k \in 1 .. Len(sends) : (sends[k].msg.fd = None /\ sock'[c] = sends[k].to)
                                    => TableGone(table'[c], sends[k].msg.idx, Present)
  BY <1>7, NoPeersGone
<1>12. LearnInv' /\ Present' = Present
  BY <1>1, <1>5, <1>6, <1>7, <1>8, <1>9, <1>10, <1>11, LearnClient
<1> QED
  BY <1>1, <1>2, <1>3, <1>4, <1>12

\* The initial info is for nobody's table.
LEMMA LearnInfo ==
    ASSUME LearnInv, IInv', NEW c \in Clients,
           \/ ReadInfo(c)
           \/ /\ cpc[c] = "version" /\ cpc' = [cpc EXCEPT ![c] = "id"] /\ UNCHANGED server
              /\ UNCHANGED <<sock, backlog, inbox, made, table>>
    PROVE  LearnInv' /\ Present' = Present /\ UNCHANGED <<pid, made, sock, table>>
<1> USE DEF LearnInv
<1>1. /\ Starting(c) /\ \E x : cpc' = [cpc EXCEPT ![c] = x]
      /\ UNCHANGED server /\ UNCHANGED <<sock, table, backlog, made>>
  BY DEF ReadInfo, Starting
<1>2. /\ table \in [Clients -> [Ids -> Seq(Eventfds)]] /\ inbox \in [Conns -> Seq(Sound)]
      /\ cpc \in [Clients -> ClientPcs] /\ sock \in [Clients -> Conns \cup {None}]
      /\ inbox' \in [Conns -> Seq(Sound)]
  BY DEF IInv, ClientType, NetType
<1>3. PICK n \in Conns : n = sock[c]
  BY <1>1, <1>2 DEF Starting, IInv, SockInv
<1>4. ASSUME NEW x \in Conns PROVE Later(inbox[x], inbox'[x])
  <2>1. CASE ReadInfo(c) /\ x = n
    <3>1. Has(c) /\ Read(c)
      BY <2>1 DEF ReadInfo
    <3>2. /\ Len(inbox[n]) \in Nat \ {0} /\ Len(inbox'[n]) = Len(inbox[n]) - 1
          /\ \A k \in 1 .. Len(inbox'[n]) : inbox'[n][k] = inbox[n][k + 1]
      BY <1>3, <3>1, ReadTail
    <3>3. \A j \in 1 .. Len(inbox'[n]) : j + 1 \in 1 .. Len(inbox[n]) /\ inbox'[n][j] = inbox[n][j + 1]
      BY <3>2
    <3> QED
      BY <2>1, <3>3 DEF Later
  <2>2. CASE ReadInfo(c) /\ x # n
    <3>1. inbox'[x] = inbox[x]
      BY <1>2, <1>3, <2>2 DEF ReadInfo, Read
    <3> QED
      BY <1>2, <3>1, LaterSame
  <2>3. CASE ~ ReadInfo(c)
    BY <1>2, <2>3, LaterSame
  <2> QED
    BY <2>1, <2>2, <2>3
<1>5. \A d \in Clients \ {c} : sock'[d] = sock[d] /\ cpc'[d] = cpc[d] /\ table'[d] = table[d]
  BY <1>1, <1>2
<1>6. Queued' = Queued /\ made' = made /\ pid' = pid
  BY <1>1 DEF Queued, server
<1>7. table'[c] = NoPeers /\ sock'[c] = n
  BY <1>1, <1>3 DEF NameInv, Starting
<1>8. ReadGone(inbox'[n], NoPeers, Present)
  <2>1. PICK b \in Seq(Sound), a \in Seq(Sound), P \in {Present} : b = inbox[n] /\ a = inbox'[n] /\ P = Present
    BY <1>2
  <2>2. ReadGone(b, NoPeers, P)
    BY <1>1, <1>3, <1>7, <2>1, NoneConns DEF GoneInv
  <2>3. Later(b, a)
    BY <1>4, <2>1
  <2>4. ReadGone(a, NoPeers, P)
    BY <2>2, <2>3, LaterGone
  <2> QED
    BY <2>1, <2>4
<1>9. \A i \in Ids : \A e \in Vals(table'[c][i]) : pid[e.conn] = i
  BY <1>7, NoPeersGone
<1>10. \A k \in 1 .. Len(sends) : (sends[k].msg.fd = None /\ sock'[c] = sends[k].to)
                                    => TableGone(table'[c], sends[k].msg.idx, Present)
  BY <1>7, NoPeersGone
<1>11. LearnInv' /\ Present' = Present
  BY <1>1, <1>4, <1>5, <1>6, <1>7, <1>8, <1>9, <1>10, LearnClient
<1> QED
  BY <1>1, <1>6, <1>11

\* The connections that a table knows, and what a message does to them.
Known(t) == {e.conn : e \in UNION {Vals(t[i]) : i \in Ids}}

LEMMA KnownIs ==
    ASSUME NEW t PROVE \A x : x \in Known(t) <=> \E i \in Ids : \E e \in Vals(t[i]) : x = e.conn
BY DEF Known

LEMMA ApplyVals ==
    ASSUME NEW t \in [Ids -> Seq(Eventfds)], NEW m \in Sound
    PROVE  \/ m.idx \notin Ids /\ Apply(t, m) = t
           \/ /\ m.idx \in Ids /\ m.fd = None /\ Vals(Apply(t, m)[m.idx]) = {}
              /\ \A i \in Ids \ {m.idx} : Apply(t, m)[i] = t[i]
           \/ /\ m.idx \in Ids /\ m.fd \in Eventfds
              /\ Vals(Apply(t, m)[m.idx]) = Vals(t[m.idx]) \cup {m.fd}
              /\ \A i \in Ids \ {m.idx} : Apply(t, m)[i] = t[i]
<1>0. m.fd \in Eventfds \cup {None, Shm} /\ (m.fd = Shm => m.idx = -1) /\ -1 \notin Ids
  BY IdSpaceAssumption DEF Sound, Messages, Ids
<1>1. CASE m.idx \notin Ids
  BY <1>1 DEF Apply
<1>2. CASE m.idx \in Ids /\ m.fd = None
  <2>1. Apply(t, m) = [t EXCEPT ![m.idx] = <<>>]
    BY <1>2 DEF Apply
  <2> QED
    BY <1>2, <2>1, ValsEmpty
<1>3. CASE m.idx \in Ids /\ m.fd # None
  <2>1. m.fd \in Eventfds
    BY <1>0, <1>3
  <2>2. PICK s \in Seq(Eventfds) : s = t[m.idx]
    BY <1>3
  <2>3. Apply(t, m) = [t EXCEPT ![m.idx] = Append(s, m.fd)]
    BY <1>3, <2>2 DEF Apply
  <2>4. Vals(Append(s, m.fd)) = Vals(s) \cup {m.fd}
    BY <2>1, AppendVals
  <2> QED
    BY <1>3, <2>1, <2>2, <2>3, <2>4
<1> QED
  BY <1>1, <1>2, <1>3

LEMMA ApplyKnown ==
    ASSUME NEW t \in [Ids -> Seq(Eventfds)], NEW m \in Sound, NEW q,
           \A i \in Ids : \A e \in Vals(t[i]) : q[e.conn] = i
    PROVE  /\ m.idx \notin Ids => Known(Apply(t, m)) = Known(t)
           /\ m.idx \in Ids /\ m.fd = None
                => Known(Apply(t, m)) = Known(t) \ {x \in Known(t) : q[x] = m.idx}
           /\ m.idx \in Ids /\ m.fd \in Eventfds
                => Known(Apply(t, m)) = Known(t) \cup {m.fd.conn}
<1>1. PICK u : u = Apply(t, m)
  OBVIOUS
<1>2. CASE m.idx \notin Ids
  BY <1>2, ApplyVals
<1>3. CASE m.idx \in Ids /\ m.fd = None
  <2>1. Vals(u[m.idx]) = {} /\ \A i \in Ids \ {m.idx} : u[i] = t[i]
    BY <1>1, <1>3, ApplyVals, NoneEventfds
  <2>2. ASSUME NEW x \in Known(u) PROVE x \in Known(t) /\ q[x] # m.idx
    <3>1. PICK i \in Ids : \E e \in Vals(u[i]) : x = e.conn
      BY KnownIs
    <3>2. i # m.idx /\ \E e \in Vals(t[i]) : x = e.conn
      BY <2>1, <3>1
    <3>3. q[x] = i /\ x \in Known(t)
      BY <3>2, KnownIs
    <3> QED
      BY <3>2, <3>3
  <2>3. ASSUME NEW x \in Known(t), q[x] # m.idx PROVE x \in Known(u)
    <3>1. PICK i \in Ids : \E e \in Vals(t[i]) : x = e.conn
      BY KnownIs
    <3>2. i # m.idx /\ \E e \in Vals(u[i]) : x = e.conn
      BY <2>1, <2>3, <3>1
    <3> QED
      BY <3>2, KnownIs
  <2>4. Known(u) = Known(t) \ {x \in Known(t) : q[x] = m.idx}
    BY <2>2, <2>3
  <2> QED
    BY <1>1, <1>3, <2>4, NoneEventfds
<1>4. CASE m.idx \in Ids /\ m.fd \in Eventfds
  <2>1. Vals(u[m.idx]) = Vals(t[m.idx]) \cup {m.fd} /\ \A i \in Ids \ {m.idx} : u[i] = t[i]
    BY <1>1, <1>4, ApplyVals, NoneEventfds
  <2>2. ASSUME NEW x \in Known(u) PROVE x \in Known(t) \/ x = m.fd.conn
    <3>1. PICK i \in Ids : \E e \in Vals(u[i]) : x = e.conn
      BY KnownIs
    <3>2. x = m.fd.conn \/ \E e \in Vals(t[i]) : x = e.conn
      BY <2>1, <3>1
    <3> QED
      BY <3>2, KnownIs
  <2>3. ASSUME NEW x \in Known(t) PROVE x \in Known(u)
    <3>1. PICK i \in Ids : \E e \in Vals(t[i]) : x = e.conn
      BY KnownIs
    <3>2. \E e \in Vals(u[i]) : x = e.conn
      BY <2>1, <3>1
    <3> QED
      BY <3>2, KnownIs
  <2>4. m.fd.conn \in Known(u)
    <3>1. m.fd \in Vals(u[m.idx])
      BY <2>1
    <3> QED
      BY <1>4, <3>1, KnownIs
  <2>5. Known(u) = Known(t) \cup {m.fd.conn}
    BY <2>2, <2>3, <2>4
  <2> QED
    BY <1>1, <1>4, <2>5, NoneEventfds
<1>5. m.idx \in Ids => m.fd = None \/ m.fd \in Eventfds
  BY IdSpaceAssumption DEF Sound, Messages, Ids
<1> QED
  BY <1>2, <1>3, <1>4, <1>5

LEMMA ApplyGone ==
    ASSUME NEW t \in [Ids -> Seq(Eventfds)], NEW m \in Sound, NEW i, NEW P,
           TableGone(t, i, P), Past(m, i, P)
    PROVE  TableGone(Apply(t, m), i, P)
<1> SUFFICES ASSUME i \in Ids, NEW e \in Vals(Apply(t, m)[i]) PROVE e.conn \notin P
  BY DEF TableGone
<1>1. e \in Vals(t[i]) \/ (m.idx = i /\ m.fd \in Eventfds /\ e = m.fd)
  BY ApplyVals, ZenonT(60)
<1> QED
  BY <1>1 DEF TableGone, Past

\* A message from the server: client c lets go of connections that have left,
\* or takes in one that joined.
LEMMA LearnServerMsg ==
    ASSUME LearnInv, IInv', NEW c \in Clients, HandleServerMsg(c)
    PROVE  /\ LearnInv' /\ Present' = Present /\ UNCHANGED <<pid, made, sock>>
           /\ sock[c] \in Conns /\ \A d \in Clients \ {c} : table'[d] = table[d]
           /\ \/ \E M \in SUBSET Known(table[c]) :
                   M \cap Present = {} /\ Known(table'[c]) = Known(table[c]) \ M
              \/ \E x \in Conns : pid[x] # NoId /\ Known(table'[c]) = Known(table[c]) \cup {x}
<1> USE DEF LearnInv
<1>1. PICK n, b, t, q, P, s :
        n = sock[c] /\ b = inbox[n] /\ t = table[c] /\ q = pid /\ P = Present /\ s = sends
  OBVIOUS
<1>2. PICK m : m = Head(b)
  OBVIOUS
<1>3. /\ cpc[c] = "poll" /\ Has(c) /\ Read(c) /\ table' = [table EXCEPT ![c] = Apply(t, m)]
      /\ UNCHANGED server /\ UNCHANGED <<cpc, sock, backlog, made>>
  BY <1>1, <1>2 DEF HandleServerMsg
<1>4. /\ n \in Conns /\ n # None /\ Len(b) \in Nat \ {0} /\ m = b[1] /\ m \in Sound
      /\ Len(inbox'[n]) = Len(b) - 1
      /\ \A k \in 1 .. Len(inbox'[n]) : inbox'[n][k] = b[k + 1]
      /\ \A x \in Conns \ {n} : inbox'[x] = inbox[x]
  BY <1>1, <1>2, <1>3, ReadTail
<1>5. /\ table \in [Clients -> [Ids -> Seq(Eventfds)]] /\ inbox \in [Conns -> Seq(Sound)]
      /\ inbox' \in [Conns -> Seq(Sound)] /\ t \in [Ids -> Seq(Eventfds)]
      /\ b \in Seq(Sound) /\ s \in Seq(Sends)
  BY <1>1, <1>4 DEF IInv, ClientType, NetType, ServerType
<1>6. PICK a \in Seq(Sound) : a = inbox'[n]
  BY <1>4, <1>5
<1>7. /\ 1 \in 1 .. Len(b) /\ \A k \in 1 .. Len(a) : k + 1 \in 1 .. Len(b) /\ a[k] = b[k + 1]
  BY <1>4, <1>6
<1>8. Later(b, a)
  BY <1>7 DEF Later
<1>9. \A x \in Conns : Later(inbox[x], inbox'[x])
  BY <1>1, <1>4, <1>5, <1>6, <1>8, LaterSame
<1>10. /\ Names(m, q) /\ ReadGone(b, t, P) /\ \A i \in Ids : \A e \in Vals(t[i]) : q[e.conn] = i
  BY <1>1, <1>4, <1>7 DEF NameInv, GoneInv
<1>11. PICK u : u = Apply(t, m)
  OBVIOUS
<1>12. table'[c] = u /\ \A d \in Clients \ {c} : table'[d] = table[d]
  BY <1>3, <1>5, <1>11
<1>a. /\ m.idx \notin Ids => Known(u) = Known(t)
      /\ m.idx \in Ids /\ m.fd = None => Known(u) = Known(t) \ {x \in Known(t) : q[x] = m.idx}
      /\ m.idx \in Ids /\ m.fd \in Eventfds => Known(u) = Known(t) \cup {m.fd.conn}
  <2>1. t \in [Ids -> Seq(Eventfds)] /\ m \in Sound /\ \A i \in Ids : \A e \in Vals(t[i]) : q[e.conn] = i
    BY <1>4, <1>5, <1>10
  <2> HIDE DEF LearnInv
  <2> QED
    BY <1>11, <2>1, ApplyKnown
<1>13. ASSUME NEW i \in Ids, NEW e \in Vals(u[i]) PROVE q[e.conn] = i
  <2>0. t \in [Ids -> Seq(Eventfds)] /\ m \in Sound
    BY <1>4, <1>5
  <2>1. \/ m.idx \notin Ids /\ u = t
        \/ Vals(u[m.idx]) = {} /\ \A j \in Ids \ {m.idx} : u[j] = t[j]
        \/ /\ m.idx \in Ids /\ m.fd \in Eventfds /\ Vals(u[m.idx]) = Vals(t[m.idx]) \cup {m.fd}
           /\ \A j \in Ids \ {m.idx} : u[j] = t[j]
    BY <1>11, <2>0, ApplyVals
  <2>2. e \in Vals(t[i]) \/ (m.idx = i /\ m.fd \in Eventfds /\ e = m.fd)
    BY <2>1
  <2> QED
    BY <1>10, <2>2 DEF Names
<1>14. ReadGone(a, u, P)
  <2>1. ReadGone(a, t, P)
    BY <1>5, <1>8, <1>10, LaterGone
  <2> SUFFICES ASSUME NEW k \in 1 .. Len(a), a[k].fd = None PROVE TableGone(u, a[k].idx, P)
    BY <2>1 DEF ReadGone
  <2>2. PICK i : i = a[k].idx
    OBVIOUS
  <2>3. k + 1 \in 1 .. Len(b) /\ b[k + 1].fd = None /\ b[k + 1].idx = i /\ 1 \in 1 .. (k + 1)
    BY <1>4, <1>7, <2>2
  <2>4. TableGone(t, i, P) /\ Past(b[1], i, P)
    BY <1>10, <2>3 DEF ReadGone
  <2>5. TableGone(u, i, P)
    BY <1>4, <1>5, <1>11, <2>4, ApplyGone
  <2> QED
    BY <2>2, <2>5
<1>15. ASSUME NEW k \in 1 .. Len(s), s[k].msg.fd = None, n = s[k].to
       PROVE  TableGone(u, s[k].msg.idx, P)
  <2>1. PICK i : i = s[k].msg.idx
    OBVIOUS
  <2>2. BufferGone(s[k], b, P) /\ TableGone(t, i, P)
    BY <1>1, <1>15, <2>1 DEF GoneInv
  <2>3. Past(m, i, P)
    BY <1>4, <1>7, <1>15, <2>1, <2>2 DEF BufferGone
  <2>4. TableGone(u, i, P)
    BY <1>4, <1>5, <1>11, <2>2, <2>3, ApplyGone
  <2> QED
    BY <2>1, <2>4
<1>16. LearnInv' /\ Present' = Present
  <2>1. \A d \in Clients \ {c} : sock'[d] = sock[d] /\ cpc'[d] = cpc[d] /\ table'[d] = table[d]
    BY <1>3, <1>12
  <2>2. Queued' = Queued /\ made' = made
    BY <1>3 DEF Queued
  <2>3. cpc'[c] = "poll" /\ sock'[c] = n
    BY <1>1, <1>3
  <2>4. \A i \in Ids : \A e \in Vals(table'[c][i]) : pid[e.conn] = i
    BY <1>1, <1>12, <1>13
  <2>5. ReadGone(inbox'[sock'[c]], table'[c], Present)
    BY <1>1, <1>6, <1>12, <1>14, <2>3
  <2>6. \A k \in 1 .. Len(sends) : (sends[k].msg.fd = None /\ sock'[c] = sends[k].to)
                                     => TableGone(table'[c], sends[k].msg.idx, Present)
    BY <1>1, <1>12, <1>15, <2>3
  <2> QED
    BY <1>3, <1>9, <2>1, <2>2, <2>3, <2>4, <2>5, <2>6, LearnClient
<1>17. \/ \E M \in SUBSET Known(t) : M \cap P = {} /\ Known(u) = Known(t) \ M
       \/ \E x \in Conns : q[x] # NoId /\ Known(u) = Known(t) \cup {x}
  <2>0. NoId \notin Ids
    BY IdSpaceAssumption DEF NoId, Ids
  <2>1. CASE m.idx \notin Ids
    <3>1. Known(u) = Known(t) \ {}
      BY <1>a, <2>1
    <3> QED
      BY <3>1
  <2>2. CASE m.idx \in Ids /\ m.fd = None
    <3>1. PICK M : M = {x \in Known(t) : q[x] = m.idx}
      OBVIOUS
    <3>2. Known(u) = Known(t) \ M
      BY <1>a, <2>2, <3>1
    <3>3. TableGone(t, m.idx, P)
      BY <1>4, <1>7, <1>10, <2>2 DEF ReadGone
    <3>4. ASSUME NEW x \in M PROVE x \notin P
      <4>1. PICK i \in Ids : \E e \in Vals(t[i]) : x = e.conn
        BY <3>1, KnownIs
      <4>2. i = m.idx
        BY <1>10, <3>1, <4>1
      <4> QED
        BY <3>3, <4>1, <4>2 DEF TableGone
    <3> QED
      BY <3>1, <3>2, <3>4
  <2>3. CASE m.idx \in Ids /\ m.fd \in Eventfds
    <3>1. m.fd.conn \in Conns /\ q[m.fd.conn] # NoId
      BY <1>10, <2>0, <2>3 DEF Names, Eventfds
    <3>2. Known(u) = Known(t) \cup {m.fd.conn}
      BY <1>a, <2>3
    <3> QED
      BY <3>1, <3>2
  <2>4. m.idx \in Ids => m.fd = None \/ m.fd \in Eventfds
    BY <1>4, IdSpaceAssumption DEF Sound, Messages, Ids
  <2> QED
    BY <2>1, <2>2, <2>3, <2>4
<1>18. pid' = pid
  BY <1>3 DEF server
<1> QED
  BY <1>1, <1>3, <1>4, <1>12, <1>16, <1>17, <1>18

-------------------------------------------------------------------------------
(* The server and its clients implement Membership *)

\* The variables of Membership, as Ivshmem maps them.
AbsHolds == [n \in Conns |-> IF n \in Present THEN pid[n] ELSE NoId]
AbsJoined == {n \in Conns : pid[n] # NoId}
AbsView == [n \in Conns |-> {e.conn : e \in
              UNION {Range(table[c][i]) : c \in Owner(n), i \in Ids}}]
AbsEnded == {n \in 1 .. made : Owner(n) = {}}

\* The view of a connection is what its client's table knows.
ViewIs == \A n \in Conns : AbsView[n] = UNION {Known(table[c]) : c \in Owner(n)}

LEMMA ViewHolds == LearnInv => ViewIs
<1> SUFFICES ASSUME LearnInv, NEW n \in Conns
             PROVE  AbsView[n] = UNION {Known(table[c]) : c \in Owner(n)}
  BY DEF ViewIs
<1>1. \A c \in Owner(n), i \in Ids : Range(table[c][i]) = Vals(table[c][i])
  <2> SUFFICES ASSUME NEW c \in Owner(n), NEW i \in Ids PROVE Range(table[c][i]) = Vals(table[c][i])
    OBVIOUS
  <2>1. table[c][i] \in Seq(Eventfds)
    BY DEF LearnInv, IInv, ClientType, Owner
  <2> QED
    BY <2>1, ValsRange
<1>2. PICK O, t : O = Owner(n) /\ t = table
  OBVIOUS
<1>3. AbsView[n] = {e.conn : e \in UNION {Range(t[c][i]) : c \in O, i \in Ids}}
  BY <1>2 DEF AbsView
<1>4. \A c \in O, i \in Ids : Range(t[c][i]) = Vals(t[c][i])
  BY <1>1, <1>2
<1>5. ASSUME NEW x \in AbsView[n] PROVE \E c \in O : x \in Known(t[c])
  <2>1. PICK e \in UNION {Range(t[c][i]) : c \in O, i \in Ids} : x = e.conn
    BY <1>3, <1>5
  <2>2. PICK c \in O, i \in Ids : e \in Range(t[c][i])
    BY <2>1
  <2> QED
    BY <1>4, <2>1, <2>2, KnownIs
<1>6. ASSUME NEW c \in O, NEW x \in Known(t[c]) PROVE x \in AbsView[n]
  <2>1. PICK i \in Ids : \E e \in Vals(t[c][i]) : x = e.conn
    BY KnownIs
  <2>2. PICK e \in Range(t[c][i]) : x = e.conn
    BY <1>4, <2>1
  <2>3. e \in UNION {Range(t[d][j]) : d \in O, j \in Ids}
    BY <2>2
  <2> QED
    BY <1>3, <2>2, <2>3
<1> QED
  BY <1>2, <1>5, <1>6

LEMMA PresentIs ==
    ASSUME LearnInv PROVE Present \subseteq Conns /\ Mem!Members = Present
<1> USE DEF LearnInv
<1>1. Listed \subseteq Conns
  BY HereListed, ValsRange DEF IInv, ServerType, Here
<1>2. Present \subseteq Conns
  BY <1>1 DEF Present, IInv, PlaceInv
<1>3. \A n \in Present : pid[n] # NoId
  <2>1. NoId \notin Ids
    BY IdSpaceAssumption DEF NoId, Ids
  <2> QED
    BY <2>1 DEF NameInv
<1>4. Mem!Members = Present
  BY <1>2, <1>3 DEF Mem!Members
<1> QED
  BY <1>2, <1>4

\* Peers that leave, at once or one by one; perhaps none does.
LEMMA LeaveRefines ==
    ASSUME LearnInv, Present' \subseteq Present, pid' = pid, AbsView' = AbsView, AbsEnded' = AbsEnded
    PROVE  Mem!Next
<1>1. PICK N : N = Present \ Present'
  OBVIOUS
<1>2. N \in SUBSET Mem!Members
  BY <1>1, PresentIs
<1>3. AbsHolds' = [n \in Conns |-> IF n \in N THEN NoId ELSE AbsHolds[n]]
  BY <1>1 DEF AbsHolds
<1>4. AbsJoined' = AbsJoined
  BY DEF AbsJoined
<1>5. Mem!Leave(N)
  BY <1>3, <1>4 DEF Mem!Leave, AbsHolds, AbsJoined, AbsView, AbsEnded
<1> QED
  BY <1>2, <1>5 DEF Mem!Next

LEMMA JoinRefines ==
    ASSUME LearnInv, NEW p \in Conns, NEW k \in Ids, Joining(p, k) PROVE Mem!Next
<1>1. /\ p \notin Present /\ pid[p] = NoId /\ (\A m \in Present : pid[m] # k)
      /\ pid' = [pid EXCEPT ![p] = k] /\ Present' = Present \cup {p}
      /\ UNCHANGED <<made, sock, table>> /\ pid \in [Conns -> Ids \cup {NoId}]
  BY DEF Joining, LearnInv, IInv, ServerType
<1>2. NoId \notin Ids
  BY IdSpaceAssumption DEF NoId, Ids
<1>3. AbsHolds' = [AbsHolds EXCEPT ![p] = k]
  BY <1>1 DEF AbsHolds
<1>4. AbsJoined' = AbsJoined \cup {p} /\ p \notin AbsJoined
  BY <1>1, <1>2 DEF AbsJoined
<1>5. \A m \in Mem!Members : m \in Conns /\ AbsHolds[m] # k
  BY <1>1, PresentIs DEF AbsHolds
<1>6. Mem!Join(p, k)
  <2>1. \A m \in Mem!Members : [n \in Conns |-> IF n \in Present THEN pid[n] ELSE NoId][m] # k
    BY <1>5 DEF AbsHolds
  <2>2. /\ p \notin {n \in Conns : pid[n] # NoId}
        /\ {n \in Conns : pid[n] # NoId}' = {n \in Conns : pid[n] # NoId} \cup {p}
    BY <1>4 DEF AbsJoined
  <2>3. [n \in Conns |-> IF n \in Present THEN pid[n] ELSE NoId]'
          = [[n \in Conns |-> IF n \in Present THEN pid[n] ELSE NoId] EXCEPT ![p] = k]
    BY <1>3 DEF AbsHolds
  <2> QED
    BY <1>1, <2>1, <2>2, <2>3 DEF Mem!Join, Owner
<1> QED
  BY <1>6 DEF Mem!Next

\* The client of connection n ends it.
LEMMA EndRefines ==
    ASSUME LearnInv, LearnInv', NEW c \in Clients, sock[c] \in Conns, Present' = Present,
           sock' = [sock EXCEPT ![c] = None], table' = [table EXCEPT ![c] = NoPeers],
           UNCHANGED <<pid, made>>
    PROVE  Mem!Next
<1>1. PICK n \in Conns : n = sock[c]
  OBVIOUS
<1>2. /\ sock \in [Clients -> Conns \cup {None}] /\ None \notin Conns /\ n <= made
      /\ table \in [Clients -> [Ids -> Seq(Eventfds)]] /\ made \in 0 .. MaxConns
      /\ \A d \in Clients \ {c} : sock[d] # n
  BY <1>1, NoneConns, OnlyOwner DEF LearnInv, IInv, ClientType, NetType, SockInv
<1>3. Owner(n)' = {} /\ \A m \in Conns \ {n} : Owner(m)' = Owner(m) /\ c \notin Owner(m)
  <2>1. Owner(n)' = {}
    BY <1>1, <1>2 DEF Owner
  <2>2. ASSUME NEW m \in Conns \ {n} PROVE Owner(m)' = Owner(m) /\ c \notin Owner(m)
    BY <1>1, <1>2 DEF Owner
  <2> QED
    BY <2>1, <2>2
<1>4. \A d \in Clients \ {c} : table'[d] = table[d]
  BY <1>2
<1>5. ViewIs /\ ViewIs'
  BY ViewHolds, PTL
<1>6. AbsView' = [AbsView EXCEPT ![n] = {}]
  <2>1. AbsView'[n] = {}
    BY <1>3, <1>5 DEF ViewIs
  <2>2. ASSUME NEW m \in Conns \ {n} PROVE AbsView'[m] = AbsView[m]
    <3>1. \A d \in Owner(m) : table'[d] = table[d]
      BY <1>3, <1>4 DEF Owner
    <3>2. Owner(m)' = Owner(m)
      BY <1>3
    <3>3. UNION {Known(table'[d]) : d \in Owner(m)} = UNION {Known(table[d]) : d \in Owner(m)}
      BY <3>1
    <3>4. AbsView'[m] = UNION {Known(table'[d]) : d \in Owner(m)}
      BY <1>5, <3>2 DEF ViewIs
    <3>5. AbsView[m] = UNION {Known(table[d]) : d \in Owner(m)}
      BY <1>5 DEF ViewIs
    <3> QED
      BY <3>3, <3>4, <3>5
  <2>3. /\ AbsView = [m \in Conns |-> AbsView[m]] /\ AbsView' = [m \in Conns |-> AbsView'[m]]
    BY DEF AbsView
  <2>4. PICK v, w : v = AbsView /\ w = AbsView'
    OBVIOUS
  <2>5. w = [v EXCEPT ![n] = {}]
    BY <2>1, <2>2, <2>3, <2>4
  <2> QED
    BY <2>4, <2>5
<1>7. AbsEnded' = AbsEnded \cup {n}
  <2>1. n \in 1 .. made /\ 1 .. made \subseteq Conns
    BY <1>1, <1>2, BoundAssumption DEF Conns
  <2> QED
    BY <1>3, <2>1 DEF AbsEnded
<1>8. AbsHolds' = AbsHolds /\ AbsJoined' = AbsJoined
  BY DEF AbsHolds, AbsJoined
<1>9. Mem!End(n)
  BY <1>6, <1>7, <1>8 DEF Mem!End, AbsHolds, AbsJoined, AbsView, AbsEnded
<1> QED
  BY <1>9 DEF Mem!Next

\* A new connection has nobody in its view, and no client has ended it.
LEMMA ConnectRefines == ASSUME LearnInv, LearnInv', IInv', NEW c \in Clients, Connect(c) PROVE Mem!Next
<1>1. /\ Present' = Present /\ UNCHANGED <<pid, table>>
      /\ made' = made + 1 /\ made \in Nat /\ made + 1 \in Conns /\ sock[c] = None
      /\ table[c] = NoPeers /\ sock' = [sock EXCEPT ![c] = made + 1]
  BY LearnConnect
<1>2. PICK n \in Conns : n = made + 1
  BY <1>1
<1>3. /\ sock \in [Clients -> Conns \cup {None}] /\ None \notin Conns
      /\ \A d \in Clients : sock[d] # None => sock[d] <= made
  BY NoneConns DEF LearnInv, IInv, ClientType, SockInv
<1>4. \A d \in Clients : sock[d] # n
  BY <1>1, <1>2, <1>3 DEF Conns
<1>5. /\ Owner(n)' = {c} /\ Owner(n) = {}
      /\ \A m \in Conns \ {n} : Owner(m)' = Owner(m)
  <2>1. Owner(n)' = {c} /\ Owner(n) = {}
    BY <1>1, <1>2, <1>3, <1>4 DEF Owner
  <2>2. ASSUME NEW m \in Conns \ {n} PROVE Owner(m)' = Owner(m)
    BY <1>1, <1>2, <1>3 DEF Owner
  <2> QED
    BY <2>1, <2>2
<1>6. ViewIs /\ ViewIs'
  BY ViewHolds, PTL
<1>7. Known(NoPeers) = {}
  BY NoPeersGone, KnownIs
<1>8. AbsView' = AbsView
  <2>1. ASSUME NEW m \in Conns PROVE AbsView'[m] = AbsView[m]
    <3>1. AbsView'[m] = UNION {Known(table[d]) : d \in Owner(m)'}
      BY <1>1, <1>6 DEF ViewIs
    <3>2. AbsView[m] = UNION {Known(table[d]) : d \in Owner(m)}
      BY <1>6 DEF ViewIs
    <3>3. CASE m = n
      BY <1>1, <1>5, <1>7, <3>1, <3>2, <3>3
    <3>4. CASE m # n
      BY <1>5, <3>1, <3>2, <3>4
    <3> QED
      BY <3>3, <3>4
  <2>2. AbsView = [m \in Conns |-> AbsView[m]] /\ AbsView' = [m \in Conns |-> AbsView'[m]]
    BY DEF AbsView
  <2>3. PICK v, w : v = AbsView /\ w = AbsView'
    OBVIOUS
  <2>4. w = v
    BY <2>1, <2>2, <2>3
  <2> QED
    BY <2>3, <2>4
<1>9. AbsEnded' = AbsEnded
  <2>1. 1 .. made' = (1 .. made) \cup {n} /\ n \notin 1 .. made
    BY <1>1, <1>2
  <2>2. 1 .. made \subseteq Conns
    BY <1>1, <1>2, BoundAssumption DEF Conns
  <2> QED
    BY <1>5, <2>1, <2>2 DEF AbsEnded
<1> QED
  BY <1>1, <1>8, <1>9, LeaveRefines

LEMMA ServerMsgRefines ==
    ASSUME LearnInv, LearnInv', IInv', NEW c \in Clients, HandleServerMsg(c) PROVE Mem!Next
<1>1. PICK n \in Conns : n = sock[c]
  BY LearnServerMsg
<1>2. Present' = Present /\ UNCHANGED <<pid, made, sock>> /\ \A d \in Clients \ {c} : table'[d] = table[d]
  BY LearnServerMsg
<1>3. PICK t, u : t = table[c] /\ u = table'[c]
  OBVIOUS
<1>4. Owner(n) = {c} /\ \A m : Owner(m)' = Owner(m)
  <2>1. \A d \in Clients \ {c} : sock[d] # n
    BY <1>1, NoneConns, OnlyOwner DEF LearnInv
  <2> QED
    BY <1>1, <1>2, <2>1 DEF Owner
<1>5. ViewIs /\ ViewIs'
  BY ViewHolds, PTL
<1>6. AbsView[n] = Known(t) /\ AbsView'[n] = Known(u)
  <2>1. AbsView[n] = UNION {Known(table[d]) : d \in Owner(n)}
    BY <1>5 DEF ViewIs
  <2>2. AbsView'[n] = UNION {Known(table'[d]) : d \in Owner(n)}
    BY <1>4, <1>5 DEF ViewIs
  <2> QED
    BY <1>3, <1>4, <2>1, <2>2
<1>7. ASSUME NEW m \in Conns \ {n} PROVE AbsView'[m] = AbsView[m]
  <2>1. c \notin Owner(m) /\ Owner(m) \subseteq Clients
    BY <1>1 DEF Owner
  <2>2. AbsView[m] = UNION {Known(table[d]) : d \in Owner(m)}
    BY <1>5 DEF ViewIs
  <2>3. AbsView'[m] = UNION {Known(table'[d]) : d \in Owner(m)}
    BY <1>4, <1>5 DEF ViewIs
  <2> QED
    BY <1>2, <2>1, <2>2, <2>3
<1>8. AbsView = [m \in Conns |-> AbsView[m]] /\ AbsView' = [m \in Conns |-> AbsView'[m]]
  BY DEF AbsView
<1>9. PICK v, w : v = AbsView /\ w = AbsView'
  OBVIOUS
<1>10. w = [v EXCEPT ![n] = Known(u)] /\ v[n] = Known(t)
  BY <1>6, <1>7, <1>8, <1>9
<1>11. AbsHolds' = AbsHolds /\ AbsJoined' = AbsJoined
  BY <1>2 DEF AbsHolds, AbsJoined
<1>12. AbsEnded' = AbsEnded /\ n \notin AbsEnded
  BY <1>2, <1>4 DEF AbsEnded
<1>13. \/ \E M \in SUBSET Known(t) : M \cap Present = {} /\ Known(u) = Known(t) \ M
       \/ \E x \in Conns : pid[x] # NoId /\ Known(u) = Known(t) \cup {x}
  BY <1>3, LearnServerMsg
<1>14. CASE \E M \in SUBSET Known(t) : M \cap Present = {} /\ Known(u) = Known(t) \ M
  <2>1. PICK M \in SUBSET Known(t) : M \cap Present = {} /\ Known(u) = Known(t) \ M
    BY <1>14
  <2>2. AbsView' = [AbsView EXCEPT ![n] = @ \ M] /\ M \in SUBSET AbsView[n]
    BY <1>9, <1>10, <2>1
  <2>3. M \cap Mem!Members = {}
    BY <2>1, PresentIs
  <2>4. Mem!Forget(n, M)
    BY <1>11, <1>12, <2>2, <2>3 DEF Mem!Forget, AbsHolds, AbsJoined, AbsView, AbsEnded
  <2> QED
    BY <2>2, <2>4 DEF Mem!Next, AbsView
<1>15. CASE \E x \in Conns : pid[x] # NoId /\ Known(u) = Known(t) \cup {x}
  <2>1. PICK x \in Conns : pid[x] # NoId /\ Known(u) = Known(t) \cup {x}
    BY <1>15
  <2>2. AbsView' = [AbsView EXCEPT ![n] = @ \cup {x}]
    BY <1>9, <1>10, <2>1
  <2>3. {x} \in SUBSET AbsJoined
    BY <2>1 DEF AbsJoined
  <2>4. Mem!Learn(n, {x})
    BY <1>11, <1>12, <2>2, <2>3 DEF Mem!Learn, AbsHolds, AbsJoined, AbsView, AbsEnded
  <2> QED
    BY <2>3, <2>4 DEF Mem!Next, AbsJoined
<1> QED
  BY <1>13, <1>14, <1>15

LEMMA InitRefines == Init => Mem!Init
<1> SUFFICES ASSUME Init PROVE Mem!Init
  OBVIOUS
<1>1. None \notin Conns /\ \A n \in Conns : Owner(n) = {}
  BY NoneConns DEF Init, Owner
<1>2. Present = {} /\ made = 0 /\ \A n \in Conns : pid[n] = NoId
  BY DEF Init, Present, Listed
<1> QED
  BY <1>1, <1>2 DEF Mem!Init

\* Every step keeps the invariant, and is a step of Membership.
LEMMA ServerLearns ==
    ASSUME LearnInv, IInv', ServerStart \/ Sigterm \/ ServerStep \/ ServerFault
    PROVE  LearnInv' /\ Mem!Next
<1>1. ASSUME LearnInv', Present' \subseteq Present, UNCHANGED <<pid, made, sock, table>>
      PROVE  Mem!Next
  <2>1. AbsView' = AbsView /\ AbsEnded' = AbsEnded
    BY <1>1 DEF AbsView, AbsEnded, Owner
  <2> QED
    BY <1>1, <2>1, LeaveRefines
<1>2. CASE \/ ServerStart \/ ListenFails \/ Daemonize \/ DaemonFails \/ Sigterm
           \/ LoopTest \/ EnterSelect \/ SelectReturns \/ FdsDone \/ AcceptFails
  BY <1>1, <1>2, LearnQuiet
<1>3. CASE \/ NewConnFails \/ InitialInfoFails \/ NewConnDone \/ FreeDone
           \/ ServerClose \/ ServerKilled
  BY <1>1, <1>3, LearnFewer
<1>4. CASE FreePeer
  <2>1. LearnInv' /\ Present' \subseteq Present
    BY <1>4, LearnFree
  <2>2. UNCHANGED <<pid, made, sock, table>>
    BY <1>4 DEF FreePeer, client
  <2> QED
    BY <1>1, <2>1, <2>2
<1>5. CASE SendOne
  BY <1>1, <1>5, LearnSendOne
<1>6. CASE HandleNewConn
  <2>1. PICK n \in Conns, i \in Ids : Joining(n, i)
    BY <1>6, NewConnJoins
  <2> QED
    BY <2>1, LearnJoin, JoinRefines
<1> QED
  BY <1>2, <1>3, <1>4, <1>5, <1>6 DEF ServerStep, ServerFault, NoIdLeft, EventfdFails

LEMMA ClientsLearn ==
    ASSUME LearnInv, IInv', NEW c \in Clients,
           Kill(c) \/ Connect(c) \/ ClientMsg(c) \/ HandleEvent(c) \/ HandleStdin(c)
    PROVE  LearnInv' /\ Mem!Next
<1>1. ASSUME LearnInv', Present' = Present, UNCHANGED <<pid, made, sock, table>>
      PROVE  Mem!Next
  <2>1. AbsView' = AbsView /\ AbsEnded' = AbsEnded
    BY <1>1 DEF AbsView, AbsEnded, Owner
  <2> QED
    BY <1>1, <2>1, LeaveRefines
<1>2. ASSUME cpc[c] # "idle", CloseSock(c),
             (table' = table /\ cpc[c] # "poll") \/ table' = [table EXCEPT ![c] = NoPeers]
      PROVE  LearnInv' /\ Mem!Next
  <2>1. sock[c] \in Conns
    BY <1>2, SockConns DEF LearnInv
  <2>2. /\ LearnInv' /\ Present' = Present /\ table' = [table EXCEPT ![c] = NoPeers]
        /\ sock' = [sock EXCEPT ![c] = None] /\ UNCHANGED <<pid, made>>
    BY <1>2, LearnClose
  <2> QED
    BY <2>1, <2>2, EndRefines
<1>3. CASE Kill(c) \/ Disconnect(c)
  BY <1>2, <1>3 DEF Kill, Disconnect, ClientClose
<1>4. CASE ConnectFails(c)
  BY <1>2, <1>4 DEF ConnectFails, Starting
<1>5. CASE ReadReset(c)
  <2>1. CASE CloseSock(c)
    BY <1>2, <1>5, <2>1 DEF ReadReset
  <2>2. CASE ~ CloseSock(c)
    <3>1. /\ cpc[c] = "version" /\ cpc' = [cpc EXCEPT ![c] = "id"] /\ UNCHANGED server
          /\ UNCHANGED <<sock, backlog, inbox, made, table>>
      BY <1>5, <2>2 DEF ReadReset
    <3> QED
      BY <1>1, <3>1, LearnInfo
  <2> QED
    BY <2>1, <2>2
<1>6. CASE ReadInfo(c)
  BY <1>1, <1>6, LearnInfo
<1>7. CASE Connect(c)
  BY <1>7, LearnConnect, ConnectRefines
<1>8. CASE HandleServerMsg(c)
  BY <1>8, LearnServerMsg, ServerMsgRefines
<1>9. CASE HandleEvent(c) \/ HandleStdin(c)
  <2>1. UNCHANGED server /\ UNCHANGED client /\ UNCHANGED <<srvend, backlog, inbox, reset, lost, made>>
    BY <1>9 DEF HandleEvent, HandleStdin, NotifyAllVects, Notify, NotifyBroadcast, Ring
  <2>2. UNCHANGED <<pid, inbox, sock, table, cpc, made, sends, pc, cur, peer_list, backlog>>
    BY <2>1 DEF server, client
  <2>3. Present' = Present /\ Queued' = Queued
    BY <2>2 DEF Present, Listed, Queued
  <2>4. LearnInv'
    BY <2>2, <2>3, LearnShrinks
  <2> QED
    BY <1>1, <2>2, <2>3, <2>4
<1> QED
  BY <1>3, <1>4, <1>5, <1>6, <1>7, <1>8, <1>9 DEF ClientMsg

LEMMA LearnStep == ASSUME LearnInv, [Next]_vars PROVE LearnInv' /\ [Mem!Next]_(Mem!vars)
<1>1. IInv'
  BY IInvNext DEF LearnInv
<1>2. CASE ServerStart \/ Sigterm \/ ServerStep \/ ServerFault
  BY <1>1, <1>2, ServerLearns
<1>3. CASE \E c \in Clients : Kill(c) \/ Connect(c) \/ ClientMsg(c)
                              \/ HandleEvent(c) \/ HandleStdin(c)
  BY <1>1, <1>3, ClientsLearn
<1>4. CASE UNCHANGED vars
  <2>1. UNCHANGED <<pid, inbox, sock, table, cpc, made, sends, pc, cur, peer_list, backlog>>
    BY <1>4 DEF vars, server, client, net
  <2>2. Present' = Present /\ Queued' = Queued
    BY <2>1 DEF Present, Listed, Queued
  <2>3. LearnInv'
    BY <1>1, <2>1, <2>2, LearnShrinks
  <2>4. AbsView' = AbsView /\ AbsEnded' = AbsEnded
    BY <2>1 DEF AbsView, AbsEnded, Owner
  <2> QED
    BY <2>1, <2>2, <2>3, <2>4, LeaveRefines
<1> QED
  BY <1>2, <1>3, <1>4 DEF Next

\* The C server and its clients implement Membership, with no assumption:
\* notifications may be lost to a full buffer, the server or a client may die
\* between two messages, and the error of a reset go unnoticed.  No id has two
\* holders, a client never takes in a connection that did not join, and lets
\* go only of connections that have left, or of all when it ends its own.
THEOREM ImplementsTheorem == Spec => Implements
<1>1. LearnInv /\ [Next]_vars => LearnInv' /\ [Mem!Next]_(Mem!vars)
  BY LearnStep
<1> QED
  BY LearnInit, InitRefines, <1>1, PTL DEF Spec, Implements, Mem!Spec
===============================================================================
