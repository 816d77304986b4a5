-------------------------- MODULE IvshmemTableProofs --------------------------
(***************************************************************************)
(* The messages of each client's stream add up: TableFollows and           *)
(* StaysConnected of Ivshmem, for any number of clients, connections, ids, *)
(* vectors and starts of the server.                                       *)
(*                                                                         *)
(* Leads says that a run of messages takes a table to another, the client  *)
(* accepting each of them; it carries the tables in between, so that it    *)
(* can be cut, joined and extended message by message.  TableInv says it   *)
(* of all that is on its way to each client and of the directory of the    *)
(* peers.  Every handler appends to the streams what leads from one        *)
(* directory to the next, and every read takes the front of one stream off *)
(* and applies it to the table.  FoldIs turns Leads into the fold that     *)
(* Foreseen is written with.                                               *)
(***************************************************************************)
EXTENDS IvshmemProofs

Tables == [Ids -> Seq(Eventfds)]

\* What x, sent to connection n of id i or to another, makes of the table t of
\* the client there: the client accepts it, and goes on with table u.
Takes(n, i, t, x, u) ==
    IF x.to # n THEN u = t
    ELSE /\ x.msg.idx \in Ids
         /\ IF x.msg.fd = None THEN x.msg.idx # i /\ t[x.msg.idx] # <<>>
            ELSE x.msg.fd \in Eventfds /\ Len(t[x.msg.idx]) < MaxVectors
         /\ u = Apply(t, x.msg)

\* The messages s lead that client from t to u: T has the tables in between.
Run(n, i, T, s) == \A k \in 1 .. Len(s) : Takes(n, i, T[k - 1], s[k], T[k])
Leads(n, i, t, s, u) ==
    \E T \in [0 .. Len(s) -> Tables] : T[0] = t /\ T[Len(s)] = u /\ Run(n, i, T, s)

LEMMA LeadsEmpty ==
    ASSUME NEW n, NEW i, NEW t \in Tables PROVE Leads(n, i, t, <<>>, t)
<1> DEFINE T == [k \in 0 .. 0 |-> t]
<1>1. T \in [0 .. Len(<<>>) -> Tables] /\ T[0] = t /\ Len(<<>>) = 0
  OBVIOUS
<1>2. Run(n, i, T, <<>>)
  BY DEF Run
<1> QED
  BY <1>1, <1>2 DEF Leads

\* Messages for others change nothing.
LEMMA LeadsSkip ==
    ASSUME NEW n, NEW i, NEW t \in Tables, NEW s \in Seq(Sends),
           \A k \in 1 .. Len(s) : s[k].to # n
    PROVE  Leads(n, i, t, s, t)
<1> DEFINE T == [k \in 0 .. Len(s) |-> t]
<1>0. Len(s) \in Nat
  OBVIOUS
<1>1. T \in [0 .. Len(s) -> Tables] /\ T[0] = t /\ T[Len(s)] = t
  BY <1>0
<1>2. Run(n, i, T, s)
  <2> SUFFICES ASSUME NEW k \in 1 .. Len(s) PROVE Takes(n, i, T[k - 1], s[k], T[k])
    BY DEF Run
  <2>1. T[k - 1] = t /\ T[k] = t
    BY <1>0
  <2> QED
    BY <2>1 DEF Takes
<1> QED
  BY <1>1, <1>2 DEF Leads

\* One stretch of messages after another.
LEMMA LeadsConcat ==
    ASSUME NEW n, NEW i, NEW t, NEW u, NEW v, NEW a \in Seq(Sends), NEW b \in Seq(Sends),
           Leads(n, i, t, a, u), Leads(n, i, u, b, v)
    PROVE  Leads(n, i, t, a \o b, v)
<1>1. PICK A \in [0 .. Len(a) -> Tables] : A[0] = t /\ A[Len(a)] = u /\ Run(n, i, A, a)
  BY DEF Leads
<1>2. PICK B \in [0 .. Len(b) -> Tables] : B[0] = u /\ B[Len(b)] = v /\ Run(n, i, B, b)
  BY DEF Leads
<1>3. PICK s \in Seq(Sends) : s = a \o b
  BY ConcatProperties
<1>4. /\ Len(a) \in Nat /\ Len(b) \in Nat /\ Len(s) = Len(a) + Len(b)
      /\ \A k \in 1 .. Len(a) : s[k] = a[k]
      /\ \A k \in 1 .. Len(s) : k > Len(a) => s[k] = b[k - Len(a)]
  BY <1>3, ConcatProperties, LenProperties
<1> DEFINE T == [k \in 0 .. Len(s) |-> IF k <= Len(a) THEN A[k] ELSE B[k - Len(a)]]
<1>5. T \in [0 .. Len(s) -> Tables]
  BY <1>4
<1>6. T[0] = t /\ T[Len(s)] = v
  BY <1>1, <1>2, <1>4
<1>7. Run(n, i, T, s)
  <2> SUFFICES ASSUME NEW k \in 1 .. Len(s) PROVE Takes(n, i, T[k - 1], s[k], T[k])
    BY DEF Run
  <2>1. CASE k <= Len(a)
    <3>1. T[k - 1] = A[k - 1] /\ T[k] = A[k] /\ s[k] = a[k] /\ k \in 1 .. Len(a)
      BY <1>4, <2>1
    <3> QED
      BY <1>1, <3>1 DEF Run
  <2>2. CASE k > Len(a)
    <3>0. k - Len(a) \in 1 .. Len(b)
      BY <1>4, <2>2
    <3>1. PICK j \in 1 .. Len(b) : j = k - Len(a)
      BY <3>0
    <3>2. T[k] = B[j] /\ s[k] = b[j]
      BY <1>4, <2>2, <3>1
    <3>3. T[k - 1] = B[j - 1]
      <4>1. CASE j = 1
        <5>1. k - 1 = Len(a) /\ j - 1 = 0 /\ Len(a) \in 0 .. Len(s)
          BY <1>4, <3>1, <4>1
        <5>2. T[Len(a)] = A[Len(a)]
          BY <1>4, <5>1
        <5> QED
          BY <1>1, <1>2, <5>1, <5>2
      <4>2. CASE j # 1
        BY <1>4, <2>2, <3>1, <4>2
      <4> QED
        BY <4>1, <4>2
    <3> QED
      BY <1>2, <3>2, <3>3 DEF Run
  <2> QED
    BY <1>4, <2>1, <2>2
<1> HIDE DEF T
<1> QED
  BY <1>3, <1>5, <1>6, <1>7 DEF Leads

LEMMA LeadsSplit ==
    ASSUME NEW n, NEW i, NEW t, NEW v, NEW a \in Seq(Sends), NEW b \in Seq(Sends),
           Leads(n, i, t, a \o b, v)
    PROVE  \E u \in Tables : Leads(n, i, t, a, u) /\ Leads(n, i, u, b, v)
<1>3. PICK s \in Seq(Sends) : s = a \o b
  BY ConcatProperties
<1>4. /\ Len(a) \in Nat /\ Len(b) \in Nat /\ Len(s) = Len(a) + Len(b)
      /\ \A k \in 1 .. Len(a) : s[k] = a[k]
      /\ \A k \in 1 .. Len(s) : k > Len(a) => s[k] = b[k - Len(a)]
  BY <1>3, ConcatProperties, LenProperties
<1>5. PICK T \in [0 .. Len(s) -> Tables] : T[0] = t /\ T[Len(s)] = v /\ Run(n, i, T, s)
  BY <1>3 DEF Leads
<1> DEFINE A == [k \in 0 .. Len(a) |-> T[k]]
           B == [k \in 0 .. Len(b) |-> T[k + Len(a)]]
<1>6. A \in [0 .. Len(a) -> Tables] /\ A[0] = t /\ A[Len(a)] = T[Len(a)]
  BY <1>4, <1>5
<1>7. B \in [0 .. Len(b) -> Tables] /\ B[0] = T[Len(a)] /\ B[Len(b)] = v
  BY <1>4, <1>5
<1>8. Run(n, i, A, a)
  <2> SUFFICES ASSUME NEW k \in 1 .. Len(a) PROVE Takes(n, i, A[k - 1], a[k], A[k])
    BY DEF Run
  <2>1. A[k - 1] = T[k - 1] /\ A[k] = T[k] /\ s[k] = a[k] /\ k \in 1 .. Len(s)
    BY <1>4
  <2> QED
    BY <1>5, <2>1 DEF Run
<1>9. Run(n, i, B, b)
  <2> SUFFICES ASSUME NEW k \in 1 .. Len(b) PROVE Takes(n, i, B[k - 1], b[k], B[k])
    BY DEF Run
  <2>1. PICK j \in 1 .. Len(s) : j = k + Len(a)
    BY <1>4
  <2>2. s[j] = b[k]
    BY <1>4, <2>1, SMTT(60)
  <2>3. B[k] = T[j] /\ B[k - 1] = T[j - 1]
    BY <1>4, <2>1
  <2> QED
    BY <1>5, <2>2, <2>3 DEF Run
<1>10. T[Len(a)] \in Tables
  BY <1>4
<1> HIDE DEF A, B
<1> QED
  BY <1>6, <1>7, <1>8, <1>9, <1>10 DEF Leads

\* The first message of s, and the others.
LEMMA LeadsTail ==
    ASSUME NEW n, NEW i, NEW t, NEW v, NEW s \in Seq(Sends), s # <<>>, Leads(n, i, t, s, v)
    PROVE  \E u \in Tables : Takes(n, i, t, Head(s), u) /\ Leads(n, i, u, Tail(s), v)
<1>1. PICK r \in Seq(Sends) : r = Tail(s)
  BY HeadTailProperties
<1>2. /\ Len(r) = Len(s) - 1 /\ Len(s) \in Nat \ {0} /\ Head(s) = s[1]
      /\ \A k \in 1 .. Len(r) : r[k] = s[k + 1]
  BY <1>1, HeadTailProperties, LenProperties, EmptySeq
<1>3. PICK T \in [0 .. Len(s) -> Tables] : T[0] = t /\ T[Len(s)] = v /\ Run(n, i, T, s)
  BY DEF Leads
<1> DEFINE R == [k \in 0 .. Len(r) |-> T[k + 1]]
<1>4. R \in [0 .. Len(r) -> Tables] /\ R[0] = T[1] /\ R[Len(r)] = v
  BY <1>2, <1>3
<1>5. Run(n, i, R, r)
  <2> SUFFICES ASSUME NEW k \in 1 .. Len(r) PROVE Takes(n, i, R[k - 1], r[k], R[k])
    BY DEF Run
  <2>1. PICK j \in 1 .. Len(s) : j = k + 1
    BY <1>2
  <2>2. R[k] = T[j] /\ R[k - 1] = T[j - 1] /\ r[k] = s[j]
    BY <1>2, <2>1
  <2> QED
    BY <1>3, <2>2 DEF Run
<1>6. Takes(n, i, t, Head(s), T[1])
  <2>1. 1 \in 1 .. Len(s) /\ 1 - 1 = 0
    BY <1>2
  <2>2. Takes(n, i, T[1 - 1], s[1], T[1])
    BY <1>3, <2>1 DEF Run
  <2> QED
    BY <1>2, <1>3, <2>1, <2>2
<1>7. T[1] \in Tables
  BY <1>2
<1> HIDE DEF R
<1> QED
  BY <1>1, <1>4, <1>5, <1>6, <1>7 DEF Leads

\* Only who a message is for and what it says count.
LEMMA LeadsSame ==
    ASSUME NEW n, NEW i, NEW t, NEW u, NEW a \in Seq(Sends), NEW b \in Seq(Sends),
           Len(a) = Len(b), \A k \in 1 .. Len(a) : a[k].to = b[k].to /\ a[k].msg = b[k].msg,
           Leads(n, i, t, a, u)
    PROVE  Leads(n, i, t, b, u)
<1>1. PICK T \in [0 .. Len(a) -> Tables] : T[0] = t /\ T[Len(a)] = u /\ Run(n, i, T, a)
  BY DEF Leads
<1>2. Run(n, i, T, b)
  <2> SUFFICES ASSUME NEW k \in 1 .. Len(b) PROVE Takes(n, i, T[k - 1], b[k], T[k])
    BY DEF Run
  <2>1. Takes(n, i, T[k - 1], a[k], T[k])
    BY <1>1 DEF Run
  <2> QED
    BY <2>1 DEF Takes
<1> QED
  BY <1>1, <1>2 DEF Leads

-------------------------------------------------------------------------------
(***************************************************************************)
(* The fold in Foreseen.  FoldLeft takes the messages by their numbers,    *)
(* the largest last: Iter is its equation, which has to have a solution.   *)
(***************************************************************************)

Applied(n, t, x) == IF x.to = n THEN Apply(t, x.msg) ELSE t
Iter(g, n, t, s, m) ==
    g = [S \in SUBSET (1 .. m) |->
           IF S = {} THEN t ELSE Applied(n, g[S \ {Max(S)}], s[Max(S)])]
Fold(n, t, s) == FoldLeft(LAMBDA w, x : IF x.to = n THEN Apply(w, x.msg) ELSE w, t, s)

LEMMA MaxIn ==
    ASSUME NEW m \in Nat, NEW S \in SUBSET (1 .. m), S # {}
    PROVE  Max(S) \in S /\ \A k \in S : k <= Max(S)
<1> DEFINE D == {m - k : k \in S}
<1>0. \A k \in S : k \in Int /\ m - k \in Nat
  OBVIOUS
<1>1. D \in SUBSET Nat /\ D # {}
  BY <1>0
<1>2. PICK d \in D : \A e \in D : d <= e
  <2> HIDE DEF D
  <2> QED
    BY <1>1, Smallest
<1>3. PICK x \in S : d = m - x
  OBVIOUS
<1>4. \A k \in S : m - k \in D /\ k \in Int /\ x \in Int
  BY <1>0
<1>5. \A k \in S : x >= k
  <2> HIDE DEF D
  <2> QED
    BY <1>2, <1>3, <1>4
<1>6. \E y \in S : \A k \in S : y >= k
  BY <1>5
<1>7. Max(S) \in S /\ \A k \in S : Max(S) >= k
  BY <1>6 DEF Max
<1> QED
  BY <1>4, <1>7

LEMMA IterExists ==
    ASSUME NEW n, NEW t, NEW s, NEW N \in Nat PROVE \E g : Iter(g, n, t, s, N)
<1> DEFINE Good(m) == \E g : Iter(g, n, t, s, m)
           Bad == {m \in Nat : ~ Good(m)}
<1>1. ASSUME Bad # {} PROVE FALSE
  <2>1. Bad \in SUBSET Nat
    OBVIOUS
  <2>2. PICK b \in Bad : \A k \in Bad : b <= k
    <3> HIDE DEF Bad
    <3> QED
      BY <1>1, <2>1, Smallest
  <2>3. b \in Nat /\ ~ Good(b)
    BY <2>2
  <2>4. CASE b = 0
    <3> DEFINE g == [S \in SUBSET (1 .. 0) |-> t]
    <3>1. \A S \in SUBSET (1 .. 0) : S = {}
      OBVIOUS
    <3>2. g = [S \in SUBSET (1 .. 0) |->
                 IF S = {} THEN t ELSE Applied(n, g[S \ {Max(S)}], s[Max(S)])]
      BY <3>1
    <3>3. Iter(g, n, t, s, 0)
      BY <3>2 DEF Iter
    <3> QED
      BY <2>3, <2>4, <3>3
  <2>5. CASE b # 0
    <3>1. b - 1 \in Nat /\ b - 1 < b
      BY <2>3, <2>5
    <3>2. Good(b - 1)
      <4>1. b - 1 \notin Bad
        <5> HIDE DEF Bad
        <5> QED
          BY <2>1, <2>2, <3>1
      <4> QED
        BY <3>1, <4>1
    <3>3. PICK f : Iter(f, n, t, s, b - 1)
      BY <3>2
    <3> HIDE DEF Bad, Good
    <3>4. \A S \in SUBSET (1 .. (b - 1)) :
            f[S] = IF S = {} THEN t ELSE Applied(n, f[S \ {Max(S)}], s[Max(S)])
      BY <3>3 DEF Iter
    <3> DEFINE g == [S \in SUBSET (1 .. b) |->
                       IF b \in S THEN Applied(n, f[S \ {b}], s[b]) ELSE f[S]]
    <3>5. ASSUME NEW S \in SUBSET (1 .. b)
          PROVE  g[S] = IF S = {} THEN t ELSE Applied(n, g[S \ {Max(S)}], s[Max(S)])
      <4>1. CASE b \in S
        <5>1. Max(S) \in S /\ b <= Max(S)
          BY <2>3, <4>1, MaxIn
        <5>m. Max(S) \in 1 .. b
          BY <5>1
        <5>2. Max(S) = b
          BY <2>3, <5>1, <5>m
        <5>3. S \ {b} \in SUBSET (1 .. b) /\ b \notin S \ {b}
          OBVIOUS
        <5>4. g[S \ {b}] = f[S \ {b}]
          BY <5>3
        <5>5. g[S] = Applied(n, f[S \ {b}], s[b])
          BY <4>1
        <5> HIDE DEF g
        <5> QED
          BY <4>1, <5>2, <5>4, <5>5
      <4>2. CASE b \notin S
        <5>1. S \in SUBSET (1 .. (b - 1))
          <6>1. \A k \in 1 .. b : k # b => k \in 1 .. (b - 1)
            BY <2>3
          <6> QED
            BY <4>2, <6>1
        <5>2. S \ {Max(S)} \in SUBSET (1 .. b) /\ b \notin S \ {Max(S)}
          BY <4>2
        <5>3. g[S] = f[S] /\ g[S \ {Max(S)}] = f[S \ {Max(S)}]
          BY <4>2, <5>2
        <5> HIDE DEF g
        <5> QED
          BY <3>4, <5>1, <5>3
      <4> QED
        BY <4>1, <4>2
    <3>6. g = [S \in SUBSET (1 .. b) |-> g[S]]
      OBVIOUS
    <3>7. Iter(g, n, t, s, b)
      <4> HIDE DEF g
      <4> QED
        BY <3>5, <3>6 DEF Iter
    <3>8. Good(b)
      BY <3>7 DEF Good
    <3> QED
      BY <2>3, <3>8
  <2> QED
    BY <2>4, <2>5
<1> QED
  BY <1>1

\* What a run of s leads to is what the fold over s computes.
LEMMA FoldIs ==
    ASSUME NEW n, NEW i, NEW t, NEW u, NEW s \in Seq(Sends), Leads(n, i, t, s, u)
    PROVE  Fold(n, t, s) = u
<1>1. Len(s) \in Nat /\ DOMAIN s = 1 .. Len(s)
  BY LenProperties
<1> DEFINE G == CHOOSE g : Iter(g, n, t, s, Len(s))
<1>2. Fold(n, t, s) = G[1 .. Len(s)]
  BY <1>1 DEF Fold, FoldLeft, MapThenFoldSet, Iter, Applied
<1>3. Iter(G, n, t, s, Len(s))
  BY <1>1, IterExists, Zenon
<1> HIDE DEF G
<1>4. \A S \in SUBSET (1 .. Len(s)) :
        G[S] = IF S = {} THEN t ELSE Applied(n, G[S \ {Max(S)}], s[Max(S)])
  BY <1>3 DEF Iter
<1>5. PICK T \in [0 .. Len(s) -> Tables] : T[0] = t /\ T[Len(s)] = u /\ Run(n, i, T, s)
  BY DEF Leads
<1> DEFINE Bad == {k \in 0 .. Len(s) : G[1 .. k] # T[k]}
<1>6. ASSUME Bad # {} PROVE FALSE
  <2>1. Bad \in SUBSET Nat
    BY <1>1
  <2>2. PICK b \in Bad : \A k \in Bad : b <= k
    <3> HIDE DEF Bad
    <3> QED
      BY <1>6, <2>1, Smallest
  <2>3. b \in 0 .. Len(s) /\ G[1 .. b] # T[b]
    BY <2>2
  <2>4. CASE b = 0
    <3>1. 1 .. 0 = {} /\ {} \in SUBSET (1 .. Len(s))
      OBVIOUS
    <3>2. G[{}] = t
      BY <1>4, <3>1
    <3> QED
      BY <1>5, <2>3, <2>4, <3>1, <3>2
  <2>5. CASE b # 0
    <3>1. b \in 1 .. Len(s) /\ b - 1 \in 0 .. Len(s) /\ b - 1 < b
      BY <1>1, <2>3, <2>5
    <3>2. G[1 .. (b - 1)] = T[b - 1]
      <4>1. b - 1 \notin Bad
        <5> HIDE DEF Bad
        <5> QED
          BY <1>1, <2>1, <2>2, <3>1
      <4> QED
        BY <3>1, <4>1
    <3>3. 1 .. b \in SUBSET (1 .. Len(s)) /\ b \in 1 .. b /\ b \in Nat
      BY <1>1, <3>1
    <3>4. Max(1 .. b) \in 1 .. b /\ b <= Max(1 .. b)
      BY <3>3, MaxIn
    <3>5. Max(1 .. b) = b /\ (1 .. b) \ {b} = 1 .. (b - 1)
      BY <3>3, <3>4
    <3>6. G[1 .. b] = Applied(n, T[b - 1], s[b])
      BY <1>4, <3>2, <3>3, <3>5
    <3>7. Takes(n, i, T[b - 1], s[b], T[b])
      BY <1>5, <3>1 DEF Run
    <3>8. T[b] = Applied(n, T[b - 1], s[b])
      BY <3>7 DEF Takes, Applied
    <3> QED
      BY <2>3, <3>6, <3>8
  <2> QED
    BY <2>4, <2>5
<1>7. Len(s) \in 0 .. Len(s)
  BY <1>1
<1> QED
  BY <1>2, <1>5, <1>6, <1>7

-------------------------------------------------------------------------------
(* What is left of a sequence after its first q elements *)

Drop(s, q) == SubSeq(s, q + 1, Len(s))

LEMMA DropIs ==
    ASSUME NEW S, NEW s \in Seq(S), NEW q \in 0 .. Len(s)
    PROVE  /\ Drop(s, q) \in Seq(S) /\ Len(Drop(s, q)) = Len(s) - q
           /\ \A k \in 1 .. (Len(s) - q) : Drop(s, q)[k] = s[k + q]
<1>1. Len(s) \in Nat /\ \A k \in (q + 1) .. Len(s) : s[k] \in S
  BY LenProperties, ElementOfSeq
<1>2. q + 1 \in Int /\ Len(s) \in Int
  BY <1>1
<1>3. /\ SubSeq(s, q + 1, Len(s)) \in Seq(S)
      /\ Len(SubSeq(s, q + 1, Len(s))) = IF q + 1 <= Len(s) THEN Len(s) - (q + 1) + 1 ELSE 0
      /\ \A k \in 1 .. (Len(s) - (q + 1) + 1) : SubSeq(s, q + 1, Len(s))[k] = s[(q + 1) + k - 1]
  BY <1>1, <1>2, SubSeqProperties
<1>4. PICK d \in Seq(S) : d = Drop(s, q)
  BY <1>3 DEF Drop
<1>5. /\ Len(d) = IF q + 1 <= Len(s) THEN Len(s) - (q + 1) + 1 ELSE 0
      /\ \A k \in 1 .. (Len(s) - (q + 1) + 1) : d[k] = s[(q + 1) + k - 1]
  BY <1>3, <1>4 DEF Drop
<1>6. Len(s) - (q + 1) + 1 = Len(s) - q /\ \A k \in 1 .. (Len(s) - q) : (q + 1) + k - 1 = k + q
  BY <1>1
<1>7. Len(d) = Len(s) - q
  BY <1>1, <1>5
<1>8. \A k \in 1 .. (Len(s) - q) : d[k] = s[k + q]
  BY <1>5, <1>6
<1> QED
  BY <1>4, <1>7, <1>8

LEMMA DropZero == ASSUME NEW S, NEW s \in Seq(S) PROVE Drop(s, 0) = s
<1>1. Len(s) \in Nat /\ 0 \in 0 .. Len(s) /\ Len(s) - 0 = Len(s)
  BY LenProperties
<1>2. /\ Drop(s, 0) \in Seq(S) /\ Len(Drop(s, 0)) = Len(s)
      /\ \A k \in 1 .. Len(s) : Drop(s, 0)[k] = s[k + 0] /\ k + 0 = k
  BY <1>1, DropIs
<1> QED
  BY <1>2, SeqEqual

LEMMA DropConcat ==
    ASSUME NEW S, NEW a \in Seq(S), NEW b \in Seq(S), NEW q \in 0 .. Len(a)
    PROVE  Drop(a \o b, q) = Drop(a, q) \o b
<1>1. PICK s \in Seq(S) : s = a \o b
  BY ConcatProperties
<1>2. /\ Len(a) \in Nat /\ Len(b) \in Nat /\ Len(s) = Len(a) + Len(b)
      /\ \A k \in 1 .. (Len(a) + Len(b)) : s[k] = IF k <= Len(a) THEN a[k] ELSE b[k - Len(a)]
  BY <1>1, ConcatProperties, LenProperties
<1>3. PICK d \in Seq(S) : /\ d = Drop(s, q) /\ Len(d) = Len(s) - q
                          /\ \A k \in 1 .. (Len(s) - q) : d[k] = s[k + q]
  <2>1. q \in 0 .. Len(s)
    BY <1>2
  <2> QED
    BY <2>1, DropIs
<1>4. PICK e \in Seq(S) : /\ e = Drop(a, q) /\ Len(e) = Len(a) - q
                          /\ \A k \in 1 .. (Len(a) - q) : e[k] = a[k + q]
  <2>1. /\ Drop(a, q) \in Seq(S) /\ Len(Drop(a, q)) = Len(a) - q
        /\ \A k \in 1 .. (Len(a) - q) : Drop(a, q)[k] = a[k + q]
    BY DropIs
  <2> QED
    BY <2>1
<1>5. PICK f \in Seq(S) : f = e \o b
  BY ConcatProperties
<1>6. /\ Len(f) = Len(e) + Len(b)
      /\ \A k \in 1 .. (Len(e) + Len(b)) : f[k] = IF k <= Len(e) THEN e[k] ELSE b[k - Len(e)]
  BY <1>5, ConcatProperties
<1>7. Len(d) = Len(f)
  BY <1>2, <1>3, <1>4, <1>6
<1>8. ASSUME NEW k \in 1 .. Len(d) PROVE d[k] = f[k]
  <2>1. k + q \in 1 .. (Len(a) + Len(b)) /\ k \in 1 .. (Len(s) - q) /\ k \in 1 .. (Len(e) + Len(b))
    BY <1>2, <1>3, <1>4
  <2>2. d[k] = IF k + q <= Len(a) THEN a[k + q] ELSE b[k + q - Len(a)]
    BY <1>2, <1>3, <2>1
  <2>3. f[k] = IF k <= Len(e) THEN e[k] ELSE b[k - Len(e)]
    BY <1>6, <2>1
  <2>4. CASE k <= Len(e)
    <3>1. k + q <= Len(a) /\ k \in 1 .. (Len(a) - q)
      BY <1>2, <1>4, <2>4
    <3> QED
      BY <1>4, <2>2, <2>3, <2>4, <3>1
  <2>5. CASE ~ (k <= Len(e))
    <3>1. ~ (k + q <= Len(a)) /\ k + q - Len(a) = k - Len(e)
      BY <1>2, <1>4, <2>5
    <3> QED
      BY <2>2, <2>3, <2>5, <3>1
  <2> QED
    BY <2>4, <2>5
<1>9. d = f
  BY <1>7, <1>8, SeqEqual
<1> QED
  BY <1>1, <1>3, <1>4, <1>5, <1>9

LEMMA DropTail ==
    ASSUME NEW S, NEW s \in Seq(S), NEW q \in 1 .. Len(s)
    PROVE  s # <<>> /\ Drop(Tail(s), q - 1) = Drop(s, q)
<1>0. s # <<>> /\ Len(s) \in Nat
  BY LenProperties
<1>1. PICK r \in Seq(S) : /\ r = Tail(s) /\ Len(r) = Len(s) - 1
                          /\ \A k \in 1 .. Len(r) : r[k] = s[k + 1]
  BY <1>0, HeadTailProperties
<1>2. PICK d \in Seq(S) : /\ d = Drop(r, q - 1) /\ Len(d) = Len(r) - (q - 1)
                          /\ \A k \in 1 .. (Len(r) - (q - 1)) : d[k] = r[k + (q - 1)]
  <2>1. q - 1 \in 0 .. Len(r)
    BY <1>0, <1>1
  <2>2. /\ Drop(r, q - 1) \in Seq(S) /\ Len(Drop(r, q - 1)) = Len(r) - (q - 1)
        /\ \A k \in 1 .. (Len(r) - (q - 1)) : Drop(r, q - 1)[k] = r[k + (q - 1)]
    BY <2>1, DropIs
  <2> QED
    BY <2>2
<1>3. PICK e \in Seq(S) : /\ e = Drop(s, q) /\ Len(e) = Len(s) - q
                          /\ \A k \in 1 .. (Len(s) - q) : e[k] = s[k + q]
  <2>1. q \in 0 .. Len(s)
    BY <1>0
  <2>2. /\ Drop(s, q) \in Seq(S) /\ Len(Drop(s, q)) = Len(s) - q
        /\ \A k \in 1 .. (Len(s) - q) : Drop(s, q)[k] = s[k + q]
    BY <2>1, DropIs
  <2> QED
    BY <2>2
<1>4. Len(d) = Len(e)
  <2>1. q \in Int /\ Len(s) \in Int
    BY <1>0
  <2>2. (Len(s) - 1) - (q - 1) = Len(s) - q
    BY <2>1
  <2>3. Len(d) = (Len(s) - 1) - (q - 1)
    BY <1>1, <1>2
  <2> QED
    BY <1>3, <2>2, <2>3
<1>5. ASSUME NEW k \in 1 .. Len(d) PROVE d[k] = e[k]
  <2>1. k \in 1 .. (Len(r) - (q - 1)) /\ k \in 1 .. (Len(s) - q) /\ k + (q - 1) \in 1 .. Len(r)
    BY <1>0, <1>1, <1>2, <1>3, <1>4
  <2>2. k + (q - 1) + 1 = k + q
    BY <1>0
  <2> QED
    BY <1>1, <1>2, <1>3, <2>1, <2>2
<1>6. d = e
  BY <1>4, <1>5, SeqEqual
<1> QED
  BY <1>0, <1>1, <1>2, <1>3, <1>6

-------------------------------------------------------------------------------
(* The directory of the peers P whose ids are q, and what tells of a peer *)

Vecs(n) == [v \in Vectors |-> Eventfd(n, v)]
Dir(P, q) == [i \in Ids |->
    LET who == {n \in P : q[n] = i}
    IN  IF who = {} THEN <<>> ELSE [v \in Vectors |-> Eventfd(CHOOSE n \in who : TRUE, v)]]
Single(P, q) == P \subseteq Conns /\ \A n, m \in P : q[n] = q[m] => n = m

LEMMA VecsTyped ==
    ASSUME NEW n \in Conns
    PROVE  Vecs(n) \in Seq(Eventfds) /\ Len(Vecs(n)) = NVectors /\ Vecs(n) # <<>>
<1>1. \A v \in Vectors : Eventfd(n, v) \in Eventfds
  BY DEF Eventfd, Eventfds
<1>2. NVectors \in Nat \ {0} /\ Vectors = 1 .. NVectors
  BY VectorAssumption DEF Vectors
<1>3. Vecs(n) \in Seq(Eventfds) /\ Len(Vecs(n)) = NVectors
  BY <1>1, <1>2 DEF Vecs
<1> QED
  BY <1>2, <1>3, EmptySeq

LEMMA DirectoryIs == Directory = Dir(Present, pid)
BY DEF Directory, Dir

LEMMA DirIs ==
    ASSUME NEW P, NEW q, Single(P, q)
    PROVE  /\ Dir(P, q) \in Tables
           /\ \A n \in P : q[n] \in Ids => Dir(P, q)[q[n]] = Vecs(n)
           /\ \A i \in Ids : (\A n \in P : q[n] # i) => Dir(P, q)[i] = <<>>
<1>1. ASSUME NEW n \in P, q[n] \in Ids PROVE Dir(P, q)[q[n]] = Vecs(n)
  <2>1. {m \in P : q[m] = q[n]} = {n}
    BY DEF Single
  <2>2. (CHOOSE m \in {n} : TRUE) = n /\ {n} # {}
    OBVIOUS
  <2> QED
    BY <1>1, <2>1, <2>2 DEF Dir, Vecs
<1>2. ASSUME NEW i \in Ids, \A n \in P : q[n] # i PROVE Dir(P, q)[i] = <<>>
  <2>1. {m \in P : q[m] = i} = {}
    BY <1>2
  <2> QED
    BY <2>1 DEF Dir
<1>3. ASSUME NEW i \in Ids PROVE Dir(P, q)[i] \in Seq(Eventfds)
  <2>1. CASE \A n \in P : q[n] # i
    BY <1>2, <2>1, EmptySeq
  <2>2. CASE \E n \in P : q[n] = i
    <3>1. PICK n \in P : q[n] = i
      BY <2>2
    <3>2. n \in Conns
      BY DEF Single
    <3> QED
      BY <1>1, <3>1, <3>2, VecsTyped
  <2> QED
    BY <2>1, <2>2
<1>4. Dir(P, q) = [i \in Ids |-> Dir(P, q)[i]]
  BY DEF Dir
<1>5. Dir(P, q) \in Tables
  <2>1. PICK d : d = Dir(P, q)
    OBVIOUS
  <2>2. d = [i \in Ids |-> d[i]] /\ \A i \in Ids : d[i] \in Seq(Eventfds)
    BY <1>3, <1>4, <2>1
  <2> QED
    BY <2>1, <2>2 DEF Tables
<1> QED
  BY <1>1, <1>2, <1>5

\* One peer more, under an id nobody has.
LEMMA DirJoin ==
    ASSUME NEW P, NEW q, NEW r, NEW n \in Conns, Single(P, q), n \notin P, r[n] \in Ids,
           \A m \in P : q[m] # r[n], \A m \in P : r[m] = q[m]
    PROVE  Single(P \cup {n}, r) /\ Dir(P \cup {n}, r) = [Dir(P, q) EXCEPT ![r[n]] = Vecs(n)]
<1>1. Single(P \cup {n}, r)
  BY DEF Single
<1>2. PICK d, e : d = Dir(P, q) /\ e = Dir(P \cup {n}, r)
  OBVIOUS
<1>3. d \in Tables /\ e \in Tables
  BY <1>1, <1>2, DirIs
<1>4. ASSUME NEW i \in Ids, i # r[n] PROVE e[i] = d[i]
  <2>1. CASE \A m \in P : q[m] # i
    <3>1. \A m \in P \cup {n} : r[m] # i
      BY <1>4, <2>1
    <3>2. e[i] = <<>>
      BY <1>1, <1>2, <3>1, DirIs
    <3>3. d[i] = <<>>
      BY <1>2, <2>1, DirIs
    <3> QED
      BY <3>2, <3>3
  <2>2. CASE \E m \in P : q[m] = i
    <3>1. PICK m \in P : q[m] = i
      BY <2>2
    <3>2. m \in P \cup {n} /\ r[m] = i
      BY <3>1
    <3>3. e[i] = Vecs(m)
      BY <1>1, <1>2, <3>2, DirIs
    <3>4. d[i] = Vecs(m)
      BY <1>2, <3>1, DirIs
    <3> QED
      BY <3>3, <3>4
  <2> QED
    BY <2>1, <2>2
<1>5. e[r[n]] = Vecs(n)
  <2>1. n \in P \cup {n}
    OBVIOUS
  <2> QED
    BY <1>1, <1>2, <2>1, DirIs
<1>6. e = [d EXCEPT ![r[n]] = Vecs(n)]
  BY <1>3, <1>4, <1>5 DEF Tables
<1> QED
  BY <1>1, <1>2, <1>6

\* The ids of all peers may be known already.
LEMMA DirJoinOne ==
    ASSUME NEW P, NEW q, NEW n \in Conns, Single(P, q), n \notin P, q[n] \in Ids,
           \A m \in P : q[m] # q[n]
    PROVE  Dir(P \cup {n}, q) = [Dir(P, q) EXCEPT ![q[n]] = Vecs(n)]
<1>1. PICK r : r = q
  OBVIOUS
<1>2. r[n] \in Ids /\ (\A m \in P : q[m] # r[n]) /\ \A m \in P : r[m] = q[m]
  BY <1>1
<1>3. Dir(P \cup {n}, r) = [Dir(P, q) EXCEPT ![r[n]] = Vecs(n)]
  BY <1>2, DirJoin, SMT
<1> QED
  BY <1>1, <1>3

Joins(P, q, n) == Single(P, q) /\ n \notin P /\ q[n] \in Ids /\ \A m \in P : q[m] # q[n]
Grown(P, q, n) == Dir(P \cup {n}, q) = [Dir(P, q) EXCEPT ![q[n]] = Vecs(n)]

LEMMA DirGrows == \A P, q : \A n \in Conns : Joins(P, q, n) => Grown(P, q, n)
BY DirJoinOne DEF Joins, Grown

\* One peer less.
LEMMA DirLeave ==
    ASSUME NEW P, NEW q, NEW n \in P, Single(P, q), q[n] \in Ids
    PROVE  /\ Single(P \ {n}, q)
           /\ Dir(P \ {n}, q) = [Dir(P, q) EXCEPT ![q[n]] = <<>>]
           /\ Dir(P, q)[q[n]] # <<>>
<1>1. Single(P \ {n}, q) /\ n \in Conns
  BY DEF Single
<1>2. PICK Q : Q = P \ {n}
  OBVIOUS
<1>3. \A m \in Q : q[m] # q[n]
  BY <1>2 DEF Single
<1>4. Q \cup {n} = P
  BY <1>2
<1>5. Dir(P, q) = [Dir(Q, q) EXCEPT ![q[n]] = Vecs(n)]
  <2>1. Single(Q, q) /\ n \notin Q
    BY <1>1, <1>2
  <2>2. Dir(Q \cup {n}, q) = [Dir(Q, q) EXCEPT ![q[n]] = Vecs(n)]
    BY <1>1, <1>3, <2>1, DirJoin
  <2> QED
    BY <1>4, <2>2
<1>6. Dir(Q, q) \in Tables /\ Dir(Q, q)[q[n]] = <<>>
  BY <1>1, <1>2, <1>3, DirIs
<1>7. Vecs(n) # <<>>
  BY <1>1, VecsTyped
<1>8. PICK d, e : d = Dir(P, q) /\ e = Dir(Q, q)
  OBVIOUS
<1>9. d = [e EXCEPT ![q[n]] = Vecs(n)] /\ e \in [Ids -> Seq(Eventfds)] /\ e[q[n]] = <<>>
  BY <1>5, <1>6, <1>8 DEF Tables
<1>10. e = [d EXCEPT ![q[n]] = <<>>] /\ d[q[n]] = Vecs(n)
  BY <1>9
<1> QED
  BY <1>1, <1>2, <1>7, <1>8, <1>10

\* The vectors of a peer, in order, to a client that has none of that id.
LEMMA AdvertsLead ==
    ASSUME NEW m \in Conns, NEW l, NEW n \in Conns, NEW i \in Ids, NEW t \in Tables, t[i] = <<>>
    PROVE  Leads(m, l, t, Adverts(m, n, i), [t EXCEPT ![i] = Vecs(n)])
<1> DEFINE Part(v) == [w \in 1 .. v |-> Eventfd(n, w)]
           T == [v \in 0 .. NVectors |-> [t EXCEPT ![i] = Part(v)]]
           A == Adverts(m, n, i)
<1>1. NVectors \in Nat \ {0} /\ Vectors = 1 .. NVectors /\ MaxVectors \in Nat /\ NVectors <= MaxVectors
  BY VectorAssumption DEF Vectors
<1>2. \A v \in Vectors : Eventfd(n, v) \in Eventfds
  BY DEF Eventfd, Eventfds
<1>3. Len(A) = NVectors /\ \A v \in 1 .. NVectors : A[v] = SendTo(m, i, Eventfd(n, v))
  BY <1>1 DEF Adverts
<1>4. \A v \in 0 .. NVectors : Part(v) \in Seq(Eventfds) /\ Len(Part(v)) = v
  BY <1>1, <1>2
<1>5. t \in [Ids -> Seq(Eventfds)]
  BY DEF Tables
<1>6. \A v \in 0 .. NVectors : T[v] \in Tables /\ T[v] = [t EXCEPT ![i] = Part(v)]
  <2> HIDE DEF Part
  <2> QED
    BY <1>4, <1>5 DEF Tables
<1>7. T \in [0 .. NVectors -> Tables]
  BY <1>6
<1>8. T[0] = t
  <2>1. Part(0) = <<>>
    OBVIOUS
  <2>2. 0 \in 0 .. NVectors
    BY <1>1
  <2> HIDE DEF Part
  <2> QED
    BY <1>5, <2>1, <2>2
<1>9. T[NVectors] = [t EXCEPT ![i] = Vecs(n)]
  <2>1. Part(NVectors) = Vecs(n)
    BY <1>1 DEF Vecs
  <2>2. NVectors \in 0 .. NVectors
    BY <1>1
  <2> HIDE DEF Part
  <2> QED
    BY <2>1, <2>2
<1>10. ASSUME NEW v \in 1 .. NVectors PROVE Takes(m, l, T[v - 1], A[v], T[v])
  <2>1. A[v].to = m /\ A[v].msg.idx = i /\ A[v].msg.fd = Eventfd(n, v) /\ A[v].msg = Msg(i, Eventfd(n, v))
    BY <1>3 DEF SendTo, Msg
  <2>2. Eventfd(n, v) \in Eventfds /\ Eventfd(n, v) # None
    BY <1>1, <1>2, NoneEventfds
  <2>3. v - 1 \in 0 .. NVectors /\ v \in 0 .. NVectors
    BY <1>1
  <2>4. Part(v) = Append(Part(v - 1), Eventfd(n, v))
    <3>1. PICK a, b : a = Part(v - 1) /\ b = Part(v)
      OBVIOUS
    <3>2. a \in Seq(Eventfds) /\ b \in Seq(Eventfds) /\ Len(a) = v - 1 /\ Len(b) = v
      BY <1>4, <2>3, <3>1
    <3>3. (\A w \in 1 .. (v - 1) : a[w] = Eventfd(n, w)) /\ \A w \in 1 .. v : b[w] = Eventfd(n, w)
      BY <3>1
    <3>4. PICK c \in Seq(Eventfds) : c = Append(a, Eventfd(n, v))
      BY <2>2, <3>2, AppendProperties
    <3>5. Len(c) = v /\ \A w \in 1 .. v : c[w] = Eventfd(n, w)
      <4>1. Len(c) = Len(a) + 1 /\ c[Len(a) + 1] = Eventfd(n, v) /\ \A w \in 1 .. Len(a) : c[w] = a[w]
        BY <2>2, <3>2, <3>4, AppendProperties
      <4> QED
        BY <3>2, <3>3, <4>1
    <3>6. b = c
      BY <3>2, <3>3, <3>4, <3>5, SeqEqual
    <3> QED
      BY <3>1, <3>4, <3>6
  <2>5. PICK u, w, a, b, e : /\ u = T[v - 1] /\ w = T[v] /\ a = Part(v - 1) /\ b = Part(v)
                             /\ e = Eventfd(n, v)
    OBVIOUS
  <2>6. u = [t EXCEPT ![i] = a] /\ w = [t EXCEPT ![i] = b] /\ b = Append(a, e) /\ Len(a) = v - 1
    BY <1>4, <1>6, <2>3, <2>4, <2>5
  <2>7. u[i] = a /\ Len(u[i]) < MaxVectors
    BY <1>1, <1>5, <2>6
  <2>8. w = Apply(u, A[v].msg)
    <3>1. w = [u EXCEPT ![i] = Append(u[i], e)]
      BY <1>5, <2>6, <2>7
    <3> QED
      BY <2>1, <2>2, <2>5, <3>1 DEF Apply
  <2> HIDE DEF T, A
  <2> QED
    BY <2>1, <2>2, <2>5, <2>7, <2>8 DEF Takes
<1> HIDE DEF T, A
<1>11. Run(m, l, T, A)
  BY <1>3, <1>10 DEF Run
<1> QED
  BY <1>3, <1>7, <1>8, <1>9, <1>11 DEF Leads, A

\* Blocks of messages, one after another: U has the tables between them.
LEMMA FlattenLeads ==
    ASSUME NEW n, NEW i, NEW s \in Seq(Seq(Sends)), NEW U \in [0 .. Len(s) -> Tables],
           \A k \in 1 .. Len(s) : Leads(n, i, U[k - 1], s[k], U[k])
    PROVE  Leads(n, i, U[0], FlattenSeq(s), U[Len(s)])
<1>0. Len(s) \in Nat /\ \A k \in 1 .. Len(s) : s[k] \in Seq(Sends)
  BY LenProperties, ElementOfSeq
<1>1. CASE Len(s) = 0
  <2>1. FlattenSeq(s) = <<>>
    BY <1>1 DEF FlattenSeq
  <2>2. U[0] \in Tables
    BY <1>0
  <2> QED
    BY <1>1, <2>1, <2>2, LeadsEmpty
<1>2. CASE Len(s) # 0
  <2>1. PICK f \in [1 .. Len(s) -> Seq(Sends)] : Flat(f, s, Len(s)) /\ FlattenSeq(s) = f[Len(s)]
    BY <1>2, FlattenRun
  <2> DEFINE Bad == {k \in 1 .. Len(s) : ~ Leads(n, i, U[0], f[k], U[k])}
  <2>2. ASSUME Bad # {} PROVE FALSE
    <3>1. Bad \in SUBSET Nat
      BY <1>0
    <3>2. PICK b \in Bad : \A k \in Bad : b <= k
      <4> HIDE DEF Bad
      <4> QED
        BY <2>2, <3>1, Smallest
    <3>3. b \in 1 .. Len(s) /\ ~ Leads(n, i, U[0], f[b], U[b])
      BY <3>2
    <3>4. Leads(n, i, U[b - 1], s[b], U[b]) /\ s[b] \in Seq(Sends)
      BY <1>0, <3>3
    <3>5. CASE b = 1
      <4>0. 1 \in 1 .. Len(s)
        BY <1>0, <1>2
      <4>1. f[1] = s[1]
        BY <2>1, <4>0, Zenon DEF Flat
      <4>2. f[b] = s[b] /\ b - 1 = 0
        BY <3>5, <4>1
      <4> QED
        BY <3>3, <3>4, <4>2
    <3>6. CASE b # 1
      <4>1. b - 1 \in 1 .. Len(s) /\ b - 1 < b
        BY <1>0, <3>3, <3>6
      <4>2. f[b] = f[b - 1] \o s[b] /\ f[b - 1] \in Seq(Sends)
        BY <2>1, <3>3, <3>6, <4>1 DEF Flat
      <4>3. b - 1 \notin Bad
        <5> HIDE DEF Bad
        <5> QED
          BY <3>1, <3>2, <4>1
      <4>4. Leads(n, i, U[0], f[b - 1], U[b - 1])
        BY <4>1, <4>3
      <4>5. Leads(n, i, U[0], f[b - 1] \o s[b], U[b])
        BY <3>4, <4>2, <4>4, LeadsConcat
      <4> QED
        BY <3>3, <4>2, <4>5
    <3> QED
      BY <3>5, <3>6
  <2>3. Len(s) \in 1 .. Len(s)
    BY <1>0, <1>2
  <2> QED
    BY <2>1, <2>2, <2>3
<1> QED
  BY <1>1, <1>2

-------------------------------------------------------------------------------
(***************************************************************************)
(* What the handlers send, for a list L of peers with ids q: the three     *)
(* parts of handle_new_conn after the initial info, and free_peer.         *)
(***************************************************************************)

Tells(L, n, i) == [k \in DOMAIN L |-> Adverts(L[k], n, i)]
Shows(L, n, q) == [k \in DOMAIN L |-> Adverts(n, L[k], q[L[k]])]

LEMMA AdvertsSends ==
    ASSUME NEW m \in Conns, NEW n \in Conns, NEW i \in Ids
    PROVE  /\ Adverts(m, n, i) \in Seq(Sends)
           /\ \A k \in 1 .. Len(Adverts(m, n, i)) : Adverts(m, n, i)[k].to = m
<1>1. \A v \in Vectors : Msg(i, Eventfd(n, v)) \in Sound
  BY EventfdSound
<1>2. Adverts(m, n, i) \in Seq(Notes({m}, Sound))
  BY <1>1, AdvertsTyped
<1>3. Notes({m}, Sound) \subseteq Sends
  BY DEF Notes, Sends
<1>4. Adverts(m, n, i) \in Seq(Sends)
  BY <1>2, <1>3, SeqMonotonic
<1>5. \A k \in 1 .. Len(Adverts(m, n, i)) : Adverts(m, n, i)[k] \in Notes({m}, Sound)
  BY <1>2, ElementOfSeq
<1> QED
  BY <1>4, <1>5 DEF Notes

\* A client that is not m is not concerned.
LEMMA AdvertsSkip ==
    ASSUME NEW m \in Conns, NEW n \in Conns, NEW i \in Ids, NEW p, p # m, NEW l, NEW t \in Tables
    PROVE  Leads(p, l, t, Adverts(m, n, i), t)
<1>1. Adverts(m, n, i) \in Seq(Sends) /\ \A k \in 1 .. Len(Adverts(m, n, i)) : Adverts(m, n, i)[k].to # p
  BY AdvertsSends
<1> QED
  BY <1>1, LeadsSkip

LEMMA TellsTyped ==
    ASSUME NEW L \in Seq(Conns), NEW n \in Conns, NEW i \in Ids
    PROVE  /\ Tells(L, n, i) \in Seq(Seq(Sends)) /\ Len(Tells(L, n, i)) = Len(L)
           /\ \A k \in 1 .. Len(L) : Tells(L, n, i)[k] = Adverts(L[k], n, i)
<1>1. Len(L) \in Nat /\ DOMAIN L = 1 .. Len(L) /\ \A k \in 1 .. Len(L) : L[k] \in Conns
  BY LenProperties, ElementOfSeq
<1>2. \A k \in 1 .. Len(L) : Adverts(L[k], n, i) \in Seq(Sends)
  BY <1>1, AdvertsSends
<1> QED
  BY <1>1, <1>2 DEF Tells

LEMMA ShowsTyped ==
    ASSUME NEW L \in Seq(Conns), NEW n \in Conns, NEW q, \A k \in 1 .. Len(L) : q[L[k]] \in Ids
    PROVE  /\ Shows(L, n, q) \in Seq(Seq(Sends)) /\ Len(Shows(L, n, q)) = Len(L)
           /\ \A k \in 1 .. Len(L) : Shows(L, n, q)[k] = Adverts(n, L[k], q[L[k]])
<1>1. Len(L) \in Nat /\ DOMAIN L = 1 .. Len(L) /\ \A k \in 1 .. Len(L) : L[k] \in Conns
  BY LenProperties, ElementOfSeq
<1>2. ASSUME NEW k \in 1 .. Len(L) PROVE Adverts(n, L[k], q[L[k]]) \in Seq(Sends)
  <2>1. L[k] \in Conns /\ q[L[k]] \in Ids
    BY <1>1
  <2> QED
    BY <2>1, AdvertsSends
<1> QED
  BY <1>1, <1>2 DEF Shows

\* Each peer of the list hears of n once, and others hear nothing.
LEMMA TellsLead ==
    ASSUME NEW L \in Seq(Conns), Distinct(L), NEW n \in Conns, NEW i \in Ids,
           NEW p \in Conns, NEW l, NEW t \in Tables, t[i] = <<>>
    PROVE  /\ FlattenSeq(Tells(L, n, i)) \in Seq(Sends)
           /\ p \notin Vals(L) => Leads(p, l, t, FlattenSeq(Tells(L, n, i)), t)
           /\ p \in Vals(L) =>
                Leads(p, l, t, FlattenSeq(Tells(L, n, i)), [t EXCEPT ![i] = Vecs(n)])
<1>0. Len(L) \in Nat /\ \A k \in 1 .. Len(L) : L[k] \in Conns
  BY LenProperties, ElementOfSeq
<1>1. PICK s \in Seq(Seq(Sends)) : s = Tells(L, n, i)
  BY TellsTyped
<1>2. Len(s) = Len(L) /\ \A k \in 1 .. Len(L) : s[k] = Adverts(L[k], n, i)
  BY <1>1, TellsTyped
<1>3. PICK u : u = [t EXCEPT ![i] = Vecs(n)]
  OBVIOUS
<1>4. u \in Tables
  BY <1>3, VecsTyped DEF Tables
<1>5. FlattenSeq(s) \in Seq(Sends)
  BY FlattenTyped
<1>6. \A k \in 1 .. Len(L), w \in Tables : L[k] # p => Leads(p, l, w, s[k], w)
  BY <1>0, <1>2, AdvertsSkip
<1>7. \A k \in 1 .. Len(L) : L[k] = p => Leads(p, l, t, s[k], u)
  <2> SUFFICES ASSUME NEW k \in 1 .. Len(L), L[k] = p PROVE Leads(p, l, t, s[k], u)
    OBVIOUS
  <2>1. s[k] = Adverts(p, n, i)
    BY <1>2
  <2>2. Leads(p, l, t, Adverts(p, n, i), [t EXCEPT ![i] = Vecs(n)])
    BY AdvertsLead
  <2> QED
    BY <1>3, <2>1, <2>2
<1>8. ASSUME p \notin Vals(L) PROVE Leads(p, l, t, FlattenSeq(s), t)
  <2> DEFINE U == [k \in 0 .. Len(s) |-> t]
  <2>1. U \in [0 .. Len(s) -> Tables] /\ U[0] = t /\ U[Len(s)] = t
    BY <1>0, <1>2
  <2>2. ASSUME NEW k \in 1 .. Len(s) PROVE Leads(p, l, U[k - 1], s[k], U[k])
    <3>1. U[k - 1] = t /\ U[k] = t
      BY <1>0, <1>2
    <3>2. L[k] # p /\ k \in 1 .. Len(L)
      BY <1>2, <1>8 DEF Vals
    <3> HIDE DEF U
    <3> QED
      BY <1>6, <3>1, <3>2
  <2> HIDE DEF U
  <2>3. Leads(p, l, U[0], FlattenSeq(s), U[Len(s)])
    BY <2>1, <2>2, FlattenLeads
  <2> QED
    BY <2>1, <2>3
<1>9. ASSUME p \in Vals(L) PROVE Leads(p, l, t, FlattenSeq(s), u)
  <2>0. PICK j \in 1 .. Len(L) : L[j] = p
    BY <1>9 DEF Vals
  <2> DEFINE U == [k \in 0 .. Len(s) |-> IF k < j THEN t ELSE u]
  <2>1. U \in [0 .. Len(s) -> Tables] /\ U[0] = t /\ U[Len(s)] = u
    BY <1>0, <1>2, <1>4
  <2>2. ASSUME NEW k \in 1 .. Len(s) PROVE Leads(p, l, U[k - 1], s[k], U[k])
    <3>0. k \in 1 .. Len(L) /\ k - 1 \in 0 .. Len(s) /\ k \in 0 .. Len(s) /\ k \in Int /\ j \in Int
      BY <1>0, <1>2
    <3>1. CASE k = j
      <4>1. U[k - 1] = t /\ U[k] = u
        BY <3>0, <3>1
      <4> HIDE DEF U
      <4> QED
        BY <1>7, <2>0, <3>0, <3>1, <4>1
    <3>2. CASE k # j
      <4>1. U[k - 1] = U[k]
        BY <3>0, <3>2
      <4>2. L[k] # p
        BY <2>0, <3>0, <3>2 DEF Distinct
      <4>3. U[k] \in Tables
        BY <2>1, <3>0
      <4> HIDE DEF U
      <4> QED
        BY <1>6, <3>0, <4>1, <4>2, <4>3
    <3> QED
      BY <3>1, <3>2
  <2> HIDE DEF U
  <2>3. Leads(p, l, U[0], FlattenSeq(s), U[Len(s)])
    BY <2>1, <2>2, FlattenLeads
  <2> QED
    BY <2>1, <2>3
<1> QED
  BY <1>1, <1>3, <1>5, <1>8, <1>9

LEMMA NoPeersDir == NoPeers = Dir({}, pid) /\ NoPeers \in Tables
<1>1. \A i \in Ids : {n \in {} : pid[n] = i} = {}
  OBVIOUS
<1>2. NoPeers = Dir({}, pid)
  BY <1>1 DEF NoPeers, Dir
<1> QED
  BY <1>2, EmptySeq DEF NoPeers, Tables

\* The new connection n is shown all the peers of the list.
LEMMA ShowsLead ==
    ASSUME NEW L \in Seq(Conns), Distinct(L), NEW n \in Conns, NEW l,
           \A p \in Vals(L) : pid[p] \in Ids, Single(Vals(L), pid)
    PROVE  /\ FlattenSeq(Shows(L, n, pid)) \in Seq(Sends)
           /\ Leads(n, l, NoPeers, FlattenSeq(Shows(L, n, pid)), Dir(Vals(L), pid))
<1>0. Len(L) \in Nat /\ \A k \in 1 .. Len(L) : L[k] \in Conns /\ L[k] \in Vals(L) /\ pid[L[k]] \in Ids
  BY LenProperties, ElementOfSeq DEF Vals
<1>1. PICK s \in Seq(Seq(Sends)) : s = Shows(L, n, pid)
  BY <1>0, ShowsTyped
<1>2. Len(s) = Len(L) /\ \A k \in 1 .. Len(L) : s[k] = Adverts(n, L[k], pid[L[k]])
  BY <1>0, <1>1, ShowsTyped
<1>3. FlattenSeq(s) \in Seq(Sends)
  BY FlattenTyped
<1> DEFINE First(k) == {L[j] : j \in 1 .. k}
           U == [k \in 0 .. Len(s) |-> Dir(First(k), pid)]
<1>4. \A k \in 0 .. Len(s) : Single(First(k), pid) /\ First(k) \subseteq Vals(L)
  <2>1. \A k \in 0 .. Len(s) : First(k) \subseteq Vals(L)
    BY <1>0, <1>2 DEF Vals
  <2> HIDE DEF First
  <2> QED
    BY <2>1 DEF Single
<1>5. U \in [0 .. Len(s) -> Tables]
  <2> HIDE DEF First
  <2>1. \A k \in 0 .. Len(s) : Dir(First(k), pid) \in Tables
    BY <1>4, DirIs
  <2> QED
    BY <2>1
<1>6. U[0] = NoPeers /\ U[Len(s)] = Dir(Vals(L), pid)
  <2>1. First(0) = {} /\ First(Len(s)) = Vals(L)
    BY <1>2 DEF Vals
  <2>2. 0 \in 0 .. Len(s) /\ Len(s) \in 0 .. Len(s)
    BY <1>0, <1>2
  <2> HIDE DEF First
  <2> QED
    BY <2>1, <2>2, NoPeersDir
<1>7. ASSUME NEW k \in 1 .. Len(s) PROVE Leads(n, l, U[k - 1], s[k], U[k])
  <2>0. k - 1 \in 0 .. Len(s) /\ k \in 0 .. Len(s) /\ k \in 1 .. Len(L)
    BY <1>0, <1>2
  <2>1. PICK p, i, P : p = L[k] /\ i = pid[p] /\ P = First(k - 1)
    OBVIOUS
  <2>2. p \in Conns /\ i \in Ids
    BY <1>0, <2>0, <2>1
  <2>3. p \notin P /\ First(k) = P \cup {p}
    <3>1. \A j \in 1 .. k : j \in 1 .. (k - 1) \/ j = k
      BY <1>0, <2>0
    <3>2. \A j \in 1 .. (k - 1) : j \in 1 .. k /\ j \in 1 .. Len(L) /\ j # k
      BY <1>0, <1>2, <2>0
    <3>3. k \in 1 .. k
      BY <1>0, <2>0
    <3>4. p \notin P
      BY <2>0, <2>1, <3>2 DEF Distinct
    <3>5. First(k) = P \cup {p}
      BY <2>1, <3>1, <3>2, <3>3
    <3> QED
      BY <3>4, <3>5
  <2>4. Single(P, pid) /\ P \subseteq Vals(L) /\ p \in Vals(L)
    BY <1>0, <1>4, <2>0, <2>1
  <2>5. \A m \in P : pid[m] # pid[p]
    BY <2>3, <2>4 DEF Single
  <2> HIDE DEF First
  <2>6. Dir(P \cup {p}, pid) = [Dir(P, pid) EXCEPT ![pid[p]] = Vecs(p)]
    <3>1. p \notin P /\ pid[p] \in Ids
      BY <2>1, <2>2, <2>3
    <3>2. Joins(P, pid, p)
      BY <2>2, <2>4, <2>5, <3>1 DEF Joins
    <3>3. Grown(P, pid, p)
      BY <2>2, <3>2, DirGrows
    <3> QED
      BY <3>3 DEF Grown
  <2>7. Dir(P, pid) \in Tables /\ Dir(P, pid)[i] = <<>>
    BY <2>1, <2>2, <2>4, <2>5, DirIs
  <2>8. PICK d \in Tables : d = Dir(P, pid)
    BY <2>7
  <2>9. Leads(n, l, d, Adverts(n, p, i), [d EXCEPT ![i] = Vecs(p)])
    BY <2>2, <2>7, <2>8, AdvertsLead
  <2>10. U[k - 1] = d /\ U[k] = [d EXCEPT ![i] = Vecs(p)] /\ s[k] = Adverts(n, p, i)
    BY <1>2, <2>0, <2>1, <2>3, <2>6, <2>8
  <2> HIDE DEF U
  <2> QED
    BY <2>9, <2>10
<1> HIDE DEF U
<1>8. Leads(n, l, U[0], FlattenSeq(s), U[Len(s)])
  BY <1>5, <1>7, FlattenLeads
<1> QED
  BY <1>1, <1>3, <1>6, <1>8

-------------------------------------------------------------------------------
(***************************************************************************)
(* What is on its way to connection n: what is in its buffer b, and what   *)
(* the handler at work has still to send, s.  The first q of it belong to  *)
(* the initial info.                                                       *)
(***************************************************************************)

Buf(n, b) == [k \in DOMAIN b |-> SendTo(n, b[k].idx, b[k].fd)]
Stream(n, b, s) == Buf(n, b) \o s
Arrives(n, i, t, b, s, q, D) == Leads(n, i, t, Drop(Stream(n, b, s), q), D)

LEMMA ComingIs == \A n : Coming(n) = Stream(n, inbox[n], sends)
BY DEF Coming, Stream, Buf

LEMMA SoundSends ==
    ASSUME NEW n \in Conns, NEW m \in Sound
    PROVE  /\ SendTo(n, m.idx, m.fd) \in Sends
           /\ SendTo(n, m.idx, m.fd).to = n /\ SendTo(n, m.idx, m.fd).msg = m
<1>1. m \in Messages /\ m = [idx |-> m.idx, fd |-> m.fd]
  BY DEF Sound, Messages
<1>2. Msg(m.idx, m.fd) = m
  BY <1>1 DEF Msg
<1> QED
  BY <1>2 DEF SendTo, Sends

LEMMA BufTyped ==
    ASSUME NEW n \in Conns, NEW b \in Seq(Sound)
    PROVE  /\ Buf(n, b) \in Seq(Sends) /\ Len(Buf(n, b)) = Len(b)
           /\ \A k \in 1 .. Len(b) : Buf(n, b)[k].to = n /\ Buf(n, b)[k].msg = b[k]
<1>1. Len(b) \in Nat /\ DOMAIN b = 1 .. Len(b) /\ \A k \in 1 .. Len(b) : b[k] \in Sound
  BY LenProperties, ElementOfSeq
<1> DEFINE e(k) == SendTo(n, b[k].idx, b[k].fd)
<1>2. \A k \in 1 .. Len(b) : e(k) \in Sends /\ e(k).to = n /\ e(k).msg = b[k]
  BY <1>1, SoundSends
<1>3. Buf(n, b) = [k \in 1 .. Len(b) |-> e(k)]
  BY <1>1 DEF Buf
<1> HIDE DEF e
<1>4. [k \in 1 .. Len(b) |-> e(k)] \in Seq(Sends)
  BY <1>1, <1>2
<1> QED
  BY <1>1, <1>2, <1>3, <1>4

LEMMA StreamTyped ==
    ASSUME NEW n \in Conns, NEW b \in Seq(Sound), NEW s \in Seq(Sends)
    PROVE  /\ Stream(n, b, s) \in Seq(Sends) /\ Len(Stream(n, b, s)) = Len(b) + Len(s)
           /\ \A k \in 1 .. Len(b) :
                Stream(n, b, s)[k].to = n /\ Stream(n, b, s)[k].msg = b[k]
           /\ \A k \in 1 .. (Len(b) + Len(s)) : k > Len(b) => Stream(n, b, s)[k] = s[k - Len(b)]
<1>1. PICK B \in Seq(Sends) : B = Buf(n, b)
  BY BufTyped
<1>2. Len(B) = Len(b) /\ \A k \in 1 .. Len(b) : B[k].to = n /\ B[k].msg = b[k]
  BY <1>1, BufTyped
<1>3. PICK S \in Seq(Sends) : S = B \o s
  BY ConcatProperties
<1>4. /\ Len(B) \in Nat /\ Len(s) \in Nat /\ Len(S) = Len(B) + Len(s)
      /\ \A k \in 1 .. (Len(B) + Len(s)) : S[k] = IF k <= Len(B) THEN B[k] ELSE s[k - Len(B)]
  BY <1>3, ConcatProperties, LenProperties
<1>5. \A k \in 1 .. Len(b) : S[k].to = n /\ S[k].msg = b[k]
  BY <1>2, <1>4
<1>6. \A k \in 1 .. (Len(b) + Len(s)) : k > Len(b) => S[k] = s[k - Len(b)]
  BY <1>2, <1>4
<1> QED
  BY <1>1, <1>2, <1>3, <1>4, <1>5, <1>6 DEF Stream

\* When nothing is being sent, the stream is the buffer.
LEMMA StreamEmpty ==
    ASSUME NEW n \in Conns, NEW b \in Seq(Sound)
    PROVE  Stream(n, b, <<>>) = Buf(n, b)
BY BufTyped, ConcatEmptySeq DEF Stream

\* As long as the initial info is in the buffer.
LEMMA DropStream ==
    ASSUME NEW n \in Conns, NEW b \in Seq(Sound), NEW s \in Seq(Sends), NEW q \in 0 .. Len(b)
    PROVE  /\ Drop(Buf(n, b), q) \in Seq(Sends)
           /\ Drop(Stream(n, b, s), q) = Drop(Buf(n, b), q) \o s
           /\ Drop(Stream(n, b, <<>>), q) = Drop(Buf(n, b), q)
<1>1. PICK B \in Seq(Sends) : B = Buf(n, b) /\ Len(B) = Len(b)
  BY BufTyped
<1>2. q \in 0 .. Len(B)
  BY <1>1
<1>3. Drop(B, q) \in Seq(Sends) /\ Drop(B \o s, q) = Drop(B, q) \o s
  BY <1>2, DropIs, DropConcat
<1> QED
  BY <1>1, <1>3, StreamEmpty DEF Stream
\* Streams of the same messages lead to the same table.
LEMMA DropSame ==
    ASSUME NEW n, NEW i, NEW t, NEW D, NEW a \in Seq(Sends), NEW z \in Seq(Sends), NEW q \in 0 .. Len(a),
           Len(a) = Len(z), \A k \in 1 .. Len(a) : a[k].to = z[k].to /\ a[k].msg = z[k].msg,
           Leads(n, i, t, Drop(a, q), D)
    PROVE  Leads(n, i, t, Drop(z, q), D)
<1>1. PICK d \in Seq(Sends) : /\ d = Drop(a, q) /\ Len(d) = Len(a) - q
                              /\ \A k \in 1 .. (Len(a) - q) : d[k] = a[k + q]
  BY DropIs
<1>2. q \in 0 .. Len(z)
  OBVIOUS
<1>3. PICK e \in Seq(Sends) : /\ e = Drop(z, q) /\ Len(e) = Len(z) - q
                              /\ \A k \in 1 .. (Len(z) - q) : e[k] = z[k + q]
  BY <1>2, DropIs
<1>4. ASSUME NEW k \in 1 .. Len(d) PROVE d[k].to = e[k].to /\ d[k].msg = e[k].msg
  <2>0. Len(a) \in Nat
    BY LenProperties
  <2>1. k \in 1 .. (Len(a) - q) /\ k + q \in 1 .. Len(a)
    BY <1>1, <2>0
  <2>2. d[k] = a[k + q] /\ e[k] = z[k + q]
    BY <1>1, <1>3, <2>1
  <2> QED
    BY <2>1, <2>2
<1>5. Leads(n, i, t, d, D) /\ Len(d) = Len(e)
  BY <1>1, <1>3
<1>6. Leads(n, i, t, e, D)
  BY <1>4, <1>5, LeadsSame
<1> QED
  BY <1>3, <1>6

\* A message that goes from the handler into the buffer.
LEMMA ArrivesSent ==
    ASSUME NEW n \in Conns, NEW i, NEW t, NEW D, NEW b \in Seq(Sound), NEW s \in Seq(Sends),
           s # <<>>, Head(s).to = n, NEW q \in 0 .. (Len(b) + Len(s)), Arrives(n, i, t, b, s, q, D)
    PROVE  Arrives(n, i, t, Append(b, Head(s).msg), Tail(s), q, D)
<1>1. PICK r \in Seq(Sends), x \in Sends : r = Tail(s) /\ x = Head(s)
  BY HeadTailProperties
<1>2. /\ Len(r) = Len(s) - 1 /\ Len(s) \in Nat \ {0} /\ x = s[1]
      /\ \A k \in 1 .. Len(r) : r[k] = s[k + 1]
  BY <1>1, HeadTailProperties, LenProperties, EmptySeq
<1>3. x.msg \in Sound /\ x.to = n
  BY <1>1 DEF Sends
<1>4. PICK c \in Seq(Sound) : c = Append(b, x.msg)
  BY <1>3, AppendProperties
<1>5. /\ Len(b) \in Nat /\ Len(c) = Len(b) + 1 /\ c[Len(b) + 1] = x.msg
      /\ \A k \in 1 .. Len(b) : c[k] = b[k]
  BY <1>3, <1>4, AppendProperties, LenProperties
<1>s. /\ Stream(n, b, s) \in Seq(Sends) /\ Len(Stream(n, b, s)) = Len(b) + Len(s)
      /\ \A k \in 1 .. Len(b) :
           Stream(n, b, s)[k].to = n /\ Stream(n, b, s)[k].msg = b[k]
      /\ \A k \in 1 .. (Len(b) + Len(s)) : k > Len(b) => Stream(n, b, s)[k] = s[k - Len(b)]
  BY StreamTyped, Zenon
<1>a. PICK a \in Seq(Sends) : a = Stream(n, b, s)
  BY <1>s
<1>6. /\ Len(a) = Len(b) + Len(s)
      /\ \A k \in 1 .. Len(b) : a[k].to = n /\ a[k].msg = b[k]
      /\ \A k \in 1 .. (Len(b) + Len(s)) : k > Len(b) => a[k] = s[k - Len(b)]
  BY <1>a, <1>s
<1>y. /\ Stream(n, c, r) \in Seq(Sends) /\ Len(Stream(n, c, r)) = Len(c) + Len(r)
      /\ \A k \in 1 .. Len(c) :
           Stream(n, c, r)[k].to = n /\ Stream(n, c, r)[k].msg = c[k]
      /\ \A k \in 1 .. (Len(c) + Len(r)) : k > Len(c) => Stream(n, c, r)[k] = r[k - Len(c)]
  BY StreamTyped, ZenonT(60)
<1>z. PICK z \in Seq(Sends) : z = Stream(n, c, r)
  BY <1>y
<1>7. /\ Len(z) = Len(c) + Len(r)
      /\ \A k \in 1 .. Len(c) : z[k].to = n /\ z[k].msg = c[k]
      /\ \A k \in 1 .. (Len(c) + Len(r)) : k > Len(c) => z[k] = r[k - Len(c)]
  BY <1>y, <1>z
<1>8. Len(a) = Len(z)
  BY <1>2, <1>5, <1>6, <1>7
<1>9. ASSUME NEW k \in 1 .. Len(a) PROVE a[k].to = z[k].to /\ a[k].msg = z[k].msg
  <2>0. k \in 1 .. (Len(b) + Len(s)) /\ k \in 1 .. (Len(c) + Len(r)) /\ k \in Nat
    BY <1>6, <1>7, <1>8
  <2>1. CASE k <= Len(b)
    <3>1. k \in 1 .. Len(b) /\ k \in 1 .. Len(c)
      BY <1>5, <2>0, <2>1
    <3> QED
      BY <1>5, <1>6, <1>7, <3>1
  <2>2. CASE k = Len(b) + 1
    <3>1. k > Len(b) /\ k - Len(b) = 1 /\ k \in 1 .. Len(c)
      BY <1>5, <2>0, <2>2
    <3>2. a[k] = x
      BY <1>2, <1>6, <2>0, <3>1
    <3>3. z[k].to = n /\ z[k].msg = x.msg
      BY <1>5, <1>7, <2>2, <3>1
    <3> QED
      BY <1>3, <3>2, <3>3
  <2>3. CASE k > Len(b) + 1
    <3>1. k > Len(b) /\ k > Len(c)
      BY <1>5, <2>0, <2>3
    <3>2. a[k] = s[k - Len(b)] /\ z[k] = r[k - Len(c)]
      BY <1>6, <1>7, <2>0, <3>1
    <3>3. k - Len(c) \in 1 .. Len(r) /\ (k - Len(c)) + 1 = k - Len(b)
      BY <1>2, <1>5, <2>0, <2>3
    <3>4. r[k - Len(c)] = s[k - Len(b)]
      BY <1>2, <3>3
    <3> QED
      BY <3>2, <3>4
  <2> QED
    BY <1>5, <2>0, <2>1, <2>2, <2>3
<1>10. Leads(n, i, t, Drop(a, q), D) /\ q \in 0 .. Len(a)
  BY <1>6, <1>a DEF Arrives
<1>11. Leads(n, i, t, Drop(z, q), D)
  BY <1>8, <1>9, <1>10, DropSame
<1> QED
  BY <1>1, <1>4, <1>z, <1>11 DEF Arrives

\* A message for another.
LEMMA ArrivesOther ==
    ASSUME NEW n \in Conns, NEW i, NEW t, NEW D, NEW b \in Seq(Sound), NEW s \in Seq(Sends),
           s # <<>>, Head(s).to # n, NEW q \in 0 .. Len(b), Arrives(n, i, t, b, s, q, D)
    PROVE  Arrives(n, i, t, b, Tail(s), q, D)
<1>1. PICK r \in Seq(Sends) : r = Tail(s)
  BY HeadTailProperties
<1>2. PICK d \in Seq(Sends) : d = Drop(Buf(n, b), q)
  BY DropStream
<1>3. Drop(Stream(n, b, s), q) = d \o s /\ Drop(Stream(n, b, r), q) = d \o r
  BY <1>2, DropStream
<1>4. Leads(n, i, t, d \o s, D)
  BY <1>3 DEF Arrives
<1>5. PICK u \in Tables : Leads(n, i, t, d, u) /\ Leads(n, i, u, s, D)
  BY <1>4, LeadsSplit
<1>6. PICK w \in Tables : Takes(n, i, u, Head(s), w) /\ Leads(n, i, w, Tail(s), D)
  BY <1>5, LeadsTail
<1>7. w = u
  BY <1>6 DEF Takes
<1>8. Leads(n, i, u, r, D)
  BY <1>1, <1>6, <1>7
<1>9. Leads(n, i, t, d \o r, D)
  BY <1>5, <1>8, LeadsConcat
<1> QED
  BY <1>1, <1>3, <1>9 DEF Arrives

\* A message read: of the initial info, or after it.
LEMMA StreamTail ==
    ASSUME NEW n \in Conns, NEW b \in Seq(Sound), NEW s \in Seq(Sends), b # <<>>
    PROVE  /\ Stream(n, b, s) # <<>> /\ Stream(n, Tail(b), s) = Tail(Stream(n, b, s))
           /\ Head(b) \in Sound /\ Head(Stream(n, b, s)) = SendTo(n, Head(b).idx, Head(b).fd)
<1>1. /\ Len(b) \in Nat \ {0} /\ DOMAIN b = 1 .. Len(b) /\ Head(b) = b[1] /\ Head(b) \in Sound
      /\ \A k \in 1 .. Len(b) : b[k] \in Sound
  BY HeadTailProperties, LenProperties, EmptySeq, ElementOfSeq
<1>2. PICK c \in Seq(Sound) : /\ c = Tail(b) /\ Len(c) = Len(b) - 1
                              /\ \A k \in 1 .. Len(c) : c[k] = b[k + 1]
  BY HeadTailProperties
<1>3. PICK B \in Seq(Sends) : B = Buf(n, b) /\ Len(B) = Len(b)
  BY BufTyped
<1>4. PICK C \in Seq(Sends) : C = Buf(n, c) /\ Len(C) = Len(c)
  BY BufTyped
<1>5. \A k \in 1 .. Len(b) : B[k] = SendTo(n, b[k].idx, b[k].fd)
  BY <1>1, <1>3 DEF Buf
<1>6. \A k \in 1 .. Len(c) : C[k] = SendTo(n, c[k].idx, c[k].fd)
  BY <1>4, LenProperties DEF Buf
<1>7. \A k \in 1 .. Len(c) : C[k] = B[k + 1]
  BY <1>1, <1>2, <1>5, <1>6
<1>8. PICK S \in Seq(Sends) : S = B \o s
  BY ConcatProperties
<1>9. /\ Len(s) \in Nat /\ Len(S) = Len(B) + Len(s)
      /\ \A k \in 1 .. (Len(B) + Len(s)) : S[k] = IF k <= Len(B) THEN B[k] ELSE s[k - Len(B)]
  BY <1>8, ConcatProperties, LenProperties
<1>10. PICK Z \in Seq(Sends) : Z = C \o s
  BY ConcatProperties
<1>11. /\ Len(Z) = Len(C) + Len(s)
       /\ \A k \in 1 .. (Len(C) + Len(s)) : Z[k] = IF k <= Len(C) THEN C[k] ELSE s[k - Len(C)]
  BY <1>10, ConcatProperties
<1>12. S # <<>> /\ Head(S) = S[1] /\ S[1] = B[1]
  <2>1. Len(S) # 0 /\ 1 <= Len(B) /\ 1 \in 1 .. (Len(B) + Len(s))
    BY <1>1, <1>3, <1>9
  <2> QED
    BY <1>9, <2>1, EmptySeq, HeadTailProperties
<1>t. PICK T \in Seq(Sends) : T = Tail(S)
  BY <1>12, HeadTailProperties
<1>13. Len(T) = Len(S) - 1 /\ \A k \in 1 .. Len(T) : T[k] = S[k + 1]
  BY <1>12, <1>t, HeadTailProperties
<1>14. Len(T) = Len(Z)
  BY <1>1, <1>2, <1>3, <1>4, <1>9, <1>11, <1>13
<1>l. Len(B) \in Nat /\ Len(C) = Len(B) - 1
  BY <1>1, <1>2, <1>3, <1>4
<1>15. ASSUME NEW k \in 1 .. Len(Z) PROVE T[k] = Z[k]
  <2>1. T[k] = S[k + 1] /\ k + 1 \in 1 .. (Len(B) + Len(s)) /\ k \in 1 .. (Len(C) + Len(s))
    BY <1>1, <1>3, <1>9, <1>11, <1>13, <1>14
  <2>2. CASE k <= Len(C)
    <3>1. k + 1 <= Len(B) /\ k \in 1 .. Len(c)
      BY <1>1, <1>2, <1>3, <1>4, <2>1, <2>2
    <3> QED
      BY <1>7, <1>9, <1>11, <2>1, <2>2, <3>1
  <2>3. CASE ~ (k <= Len(C))
    <3>1. ~ (k + 1 <= Len(B)) /\ (k + 1) - Len(B) = k - Len(C)
      BY <1>l, <2>1, <2>3
    <3> QED
      BY <1>9, <1>11, <2>1, <2>3, <3>1
  <2> QED
    BY <2>2, <2>3
<1>16. T = Z
  BY <1>14, <1>15, SeqEqual
<1>17. B[1] = SendTo(n, Head(b).idx, Head(b).fd)
  BY <1>1, <1>5
<1> QED
  BY <1>1, <1>2, <1>3, <1>4, <1>8, <1>10, <1>12, <1>t, <1>16, <1>17 DEF Stream

LEMMA ArrivesInfo ==
    ASSUME NEW n \in Conns, NEW i, NEW t, NEW D, NEW b \in Seq(Sound), NEW s \in Seq(Sends),
           b # <<>>, NEW q \in 1 .. (Len(b) + Len(s)), Arrives(n, i, t, b, s, q, D)
    PROVE  Arrives(n, i, t, Tail(b), s, q - 1, D)
<1>1. PICK S \in Seq(Sends) : S = Stream(n, b, s) /\ Len(S) = Len(b) + Len(s)
  BY StreamTyped
<1>2. Stream(n, Tail(b), s) = Tail(S)
  BY <1>1, StreamTail
<1>3. q \in 1 .. Len(S)
  BY <1>1
<1>4. Drop(Tail(S), q - 1) = Drop(S, q)
  BY <1>3, DropTail
<1> QED
  BY <1>1, <1>2, <1>4 DEF Arrives

LEMMA ArrivesRead ==
    ASSUME NEW n \in Conns, NEW i, NEW t, NEW D, NEW b \in Seq(Sound), NEW s \in Seq(Sends),
           b # <<>>, Arrives(n, i, t, b, s, 0, D)
    PROVE  \E u \in Tables : /\ Takes(n, i, t, SendTo(n, Head(b).idx, Head(b).fd), u)
                             /\ Arrives(n, i, u, Tail(b), s, 0, D)
<1>1. PICK S \in Seq(Sends) : S = Stream(n, b, s)
  BY StreamTyped
<1>2. PICK c \in Seq(Sound) : c = Tail(b)
  BY HeadTailProperties
<1>3. PICK Z \in Seq(Sends) : Z = Stream(n, c, s)
  BY StreamTyped
<1>4. S # <<>> /\ Z = Tail(S) /\ Head(S) = SendTo(n, Head(b).idx, Head(b).fd)
  BY <1>1, <1>2, <1>3, StreamTail
<1>5. Drop(S, 0) = S /\ Drop(Z, 0) = Z
  BY DropZero
<1>6. Leads(n, i, t, S, D)
  BY <1>1, <1>5 DEF Arrives
<1>7. PICK u \in Tables : Takes(n, i, t, Head(S), u) /\ Leads(n, i, u, Tail(S), D)
  BY <1>4, <1>6, LeadsTail
<1> QED
  BY <1>2, <1>3, <1>4, <1>5, <1>7 DEF Arrives
-------------------------------------------------------------------------------
(* The handlers that send *)

\* The other peers are not concerned when n is shown the list.
LEMMA ShowsSkip ==
    ASSUME NEW L \in Seq(Conns), NEW n \in Conns, NEW q, \A k \in 1 .. Len(L) : q[L[k]] \in Ids,
           NEW p, p # n, NEW l, NEW t \in Tables
    PROVE  Leads(p, l, t, FlattenSeq(Shows(L, n, q)), t)
<1>0. Len(L) \in Nat /\ \A k \in 1 .. Len(L) : L[k] \in Conns
  BY LenProperties, ElementOfSeq
<1>1. PICK s \in Seq(Seq(Sends)) : s = Shows(L, n, q)
  BY ShowsTyped
<1>2. Len(s) = Len(L) /\ \A k \in 1 .. Len(L) : s[k] = Adverts(n, L[k], q[L[k]])
  BY <1>1, ShowsTyped
<1> DEFINE U == [k \in 0 .. Len(s) |-> t]
<1>3. U \in [0 .. Len(s) -> Tables] /\ U[0] = t /\ U[Len(s)] = t
  BY <1>0, <1>2
<1>4. ASSUME NEW k \in 1 .. Len(s) PROVE Leads(p, l, U[k - 1], s[k], U[k])
  <2>1. U[k - 1] = t /\ U[k] = t
    BY <1>0, <1>2
  <2>2. L[k] \in Conns /\ q[L[k]] \in Ids /\ s[k] = Adverts(n, L[k], q[L[k]])
    BY <1>0, <1>2
  <2>3. Leads(p, l, t, Adverts(n, L[k], q[L[k]]), t)
    BY <2>2, AdvertsSkip
  <2> HIDE DEF U
  <2> QED
    BY <2>1, <2>2, <2>3
<1> HIDE DEF U
<1>5. Leads(p, l, U[0], FlattenSeq(s), U[Len(s)])
  BY <1>3, <1>4, FlattenLeads
<1> QED
  BY <1>1, <1>3, <1>5

\* The sends of handle_new_conn, once the initial info is left aside: to
\* each peer of the list they add the new connection, and to it all of them.
LEMMA NewConnLeads ==
    ASSUME peer_list \in Seq(Conns), Distinct(peer_list), Single(Here, pid),
           \A m \in Here : pid[m] \in Ids,
           NEW n \in Conns, n \notin Here, NEW i \in Ids, \A m \in Here : pid[m] # i,
           NEW D, D = [Dir(Here, pid) EXCEPT ![i] = Vecs(n)]
    PROVE  /\ NewConnSends(n, i) \in Seq(Sends) /\ Len(NewConnSends(n, i)) >= 3
           /\ \A m \in Here : \A l : Leads(m, l, Dir(Here, pid), NewConnSends(n, i), D)
           /\ \A l : Leads(n, l, NoPeers, Drop(NewConnSends(n, i), 3), D)
<1>0. Here = Vals(peer_list) /\ Here \subseteq Conns
  BY ValsRange DEF Here
<1>d. PICK d \in Tables : d = Dir(Here, pid)
  BY DirIs
<1>e. d[i] = <<>>
  BY <1>d, DirIs
<1>t. D \in Tables
  BY <1>d, VecsTyped DEF Tables
<1>1. PICK A \in Seq(Sends) : A = InitialInfo(n, i)
  BY InfoTyped
<1>2. Len(A) = 3 /\ \A k \in 1 .. 3 : A[k].to = n
  BY <1>1, InfoTyped
<1>3. PICK F \in Seq(Sends) : F = FlattenSeq(Tells(peer_list, n, i))
  <2>1. NoPeers \in Tables /\ NoPeers[i] = <<>>
    BY NoPeersDir DEF NoPeers
  <2> QED
    BY <2>1, TellsLead
<1>4. \A m \in Here : \A l : Leads(m, l, d, F, D)
  <2> SUFFICES ASSUME NEW m \in Here, NEW l PROVE Leads(m, l, d, F, D)
    OBVIOUS
  <2>1. m \in Conns /\ m \in Vals(peer_list)
    BY <1>0
  <2>2. Leads(m, l, d, FlattenSeq(Tells(peer_list, n, i)), [d EXCEPT ![i] = Vecs(n)])
    BY <1>e, <2>1, TellsLead
  <2> QED
    BY <1>d, <1>3, <2>2
<1>5. \A l : Leads(n, l, NoPeers, F, NoPeers)
  <2>1. NoPeers \in Tables /\ NoPeers[i] = <<>>
    BY NoPeersDir DEF NoPeers
  <2>2. n \notin Vals(peer_list)
    BY <1>0
  <2> QED
    BY <1>3, <2>1, <2>2, TellsLead
<1>6. /\ FlattenSeq(Shows(peer_list, n, pid)) \in Seq(Sends)
      /\ \A l : Leads(n, l, NoPeers, FlattenSeq(Shows(peer_list, n, pid)), d)
  BY <1>0, <1>d, ShowsLead
<1>7. PICK G \in Seq(Sends) : G = FlattenSeq(Shows(peer_list, n, pid))
  BY <1>6
<1>8. \A m \in Here : \A l : Leads(m, l, D, G, D)
  <2> SUFFICES ASSUME NEW m \in Here, NEW l PROVE Leads(m, l, D, G, D)
    OBVIOUS
  <2>1. m # n
    OBVIOUS
  <2>2. \A k \in 1 .. Len(peer_list) : pid[peer_list[k]] \in Ids
    BY <1>0 DEF Vals
  <2>3. Leads(m, l, D, FlattenSeq(Shows(peer_list, n, pid)), D)
    BY <1>t, <2>1, <2>2, ShowsSkip
  <2> QED
    BY <1>7, <2>3
<1>9. PICK V \in Seq(Sends) : V = Adverts(n, n, i)
  BY AdvertsSends
<1>10. \A m \in Here : \A l : Leads(m, l, D, V, D)
  BY <1>t, <1>9, AdvertsSkip
<1>11. \A l : Leads(n, l, d, V, D)
  BY <1>d, <1>e, <1>9, AdvertsLead
<1>12. \A m \in Here : \A l : Leads(m, l, d, A, d)
  BY <1>2, LeadsSkip
<1>13. PICK AF \in Seq(Sends) : AF = A \o F
  BY ConcatProperties
<1>14. PICK AFG \in Seq(Sends) : AFG = AF \o G
  BY ConcatProperties
<1>15. PICK S \in Seq(Sends) : S = AFG \o V
  BY ConcatProperties
<1>16. NewConnSends(n, i) = S
  BY <1>1, <1>3, <1>7, <1>9, <1>13, <1>14, <1>15 DEF NewConnSends, Tells, Shows
<1>17. /\ Len(AF) \in Nat /\ Len(AFG) \in Nat /\ Len(AF) >= 3 /\ Len(AFG) >= 3 /\ Len(S) >= 3
  <2>1. Len(F) \in Nat /\ Len(G) \in Nat /\ Len(V) \in Nat
    BY LenProperties
  <2>2. Len(AF) = 3 + Len(F)
    <3>1. Len(A \o F) = Len(A) + Len(F)
      BY ConcatProperties
    <3> QED
      BY <1>2, <1>13, <3>1
  <2>3. Len(AFG) = Len(AF) + Len(G)
    BY <1>14, ConcatProperties
  <2>4. Len(S) = Len(AFG) + Len(V)
    BY <1>15, ConcatProperties
  <2> QED
    BY <2>1, <2>2, <2>3, <2>4
<1>18. ASSUME NEW m \in Here, NEW l PROVE Leads(m, l, d, S, D)
  <2>1. Leads(m, l, d, AF, D)
    BY <1>4, <1>12, <1>13, LeadsConcat
  <2>2. Leads(m, l, d, AFG, D)
    BY <1>8, <1>14, <2>1, LeadsConcat
  <2> QED
    BY <1>10, <1>15, <2>2, LeadsConcat
<1>19. ASSUME NEW l PROVE Leads(n, l, NoPeers, Drop(S, 3), D)
  <2>1. Drop(A, 3) = <<>>
    <3>0. 3 \in 0 .. Len(A) /\ Len(A) - 3 = 0
      BY <1>2
    <3>1. Drop(A, 3) \in Seq(Sends) /\ Len(Drop(A, 3)) = 0
      BY <3>0, DropIs
    <3> QED
      BY <3>1, EmptySeq
  <2>2. Drop(AF, 3) = F
    <3>0. 3 \in 0 .. Len(A)
      BY <1>2
    <3>1. Drop(A \o F, 3) = Drop(A, 3) \o F
      BY <3>0, DropConcat
    <3> QED
      BY <1>13, <2>1, <3>1, ConcatEmptySeq
  <2>3. Drop(AFG, 3) = F \o G
    <3>1. 3 \in 0 .. Len(AF)
      BY <1>17
    <3>2. Drop(AF \o G, 3) = Drop(AF, 3) \o G
      BY <3>1, DropConcat
    <3> QED
      BY <1>14, <2>2, <3>2
  <2>4. Drop(S, 3) = (F \o G) \o V
    <3>1. 3 \in 0 .. Len(AFG)
      BY <1>17
    <3>2. Drop(AFG \o V, 3) = Drop(AFG, 3) \o V
      BY <3>1, DropConcat
    <3> QED
      BY <1>15, <2>3, <3>2
  <2>5. PICK FG \in Seq(Sends) : FG = F \o G
    BY ConcatProperties
  <2>6. Leads(n, l, NoPeers, G, d)
    BY <1>6, <1>7
  <2>7. Leads(n, l, NoPeers, FG, d)
    BY <1>5, <2>5, <2>6, LeadsConcat
  <2>8. Leads(n, l, NoPeers, FG \o V, D)
    BY <1>11, <2>7, LeadsConcat
  <2> QED
    BY <2>4, <2>5, <2>8
<1> QED
  BY <1>d, <1>16, <1>17, <1>18, <1>19
\* The sends of free_peer take the freed peer out of every table but its own.
LEMMA FreeLeads ==
    ASSUME NEW P, Single(P, pid), NEW n \in P, NEW i \in Ids, i = pid[n],
           NEW r \in Seq(Conns), Distinct(r), Vals(r) = P \ {n},
           NEW s, s = [k \in DOMAIN r |-> SendTo(r[k], i, None)], NEW m \in P \ {n}
    PROVE  s \in Seq(Sends) /\ Leads(m, pid[m], Dir(P, pid), s, Dir(P \ {n}, pid))
<1>1. s \in Seq(Sends)
  <2>1. i \in Ids \cup {NoId}
    OBVIOUS
  <2> QED
    BY <2>1, FreeTyped
<1>2. Len(r) \in Nat /\ DOMAIN r = 1 .. Len(r)
  BY LenProperties
<1>3. Len(s) = Len(r) /\ \A k \in 1 .. Len(r) : s[k] = SendTo(r[k], i, None)
  BY <1>1, <1>2, LenProperties
<1>4. \A k \in 1 .. Len(r) : s[k].to = r[k] /\ s[k].msg = Msg(i, None)
  BY <1>3 DEF SendTo
<1>5. PICK d \in Tables : d = Dir(P, pid)
  BY DirIs
<1>6. PICK e \in Tables : e = Dir(P \ {n}, pid)
  <2>1. Single(P \ {n}, pid)
    BY DEF Single
  <2> QED
    BY <2>1, DirIs
<1>7. e = [d EXCEPT ![i] = <<>>] /\ d[i] # <<>>
  <2>1. pid[n] \in Ids
    OBVIOUS
  <2>2. Dir(P \ {n}, pid) = [Dir(P, pid) EXCEPT ![pid[n]] = <<>>] /\ Dir(P, pid)[pid[n]] # <<>>
    BY <2>1, DirLeave
  <2> QED
    BY <1>5, <1>6, <2>2
<1>8. pid[m] # i
  BY DEF Single
<1>9. PICK j \in 1 .. Len(r) : r[j] = m
  BY DEF Vals
<1> DEFINE T == [k \in 0 .. Len(s) |-> IF k < j THEN d ELSE e]
<1>10. T \in [0 .. Len(s) -> Tables] /\ T[0] = d /\ T[Len(s)] = e
  BY <1>2, <1>3
<1>11. Run(m, pid[m], T, s)
  <2> SUFFICES ASSUME NEW k \in 1 .. Len(s) PROVE Takes(m, pid[m], T[k - 1], s[k], T[k])
    BY DEF Run
  <2>0. k \in 1 .. Len(r) /\ k \in Int /\ j \in Int /\ k - 1 \in 0 .. Len(s) /\ k \in 0 .. Len(s)
    BY <1>2, <1>3
  <2>1. CASE k = j
    <3>1. T[k - 1] = d /\ T[k] = e
      BY <2>0, <2>1
    <3>2. s[k].to = m /\ s[k].msg.idx = i /\ s[k].msg.fd = None
      <4>1. s[k].to = r[j] /\ s[k].msg = Msg(i, None)
        BY <1>4, <2>0, <2>1
      <4>2. Msg(i, None).idx = i /\ Msg(i, None).fd = None
        BY DEF Msg
      <4> QED
        BY <1>9, <4>1, <4>2
    <3>3. e = Apply(d, s[k].msg)
      BY <1>7, <3>2 DEF Apply
    <3> HIDE DEF T
    <3> QED
      BY <1>7, <1>8, <3>1, <3>2, <3>3 DEF Takes
  <2>2. CASE k # j
    <3>1. T[k - 1] = T[k]
      <4>1. (k - 1 < j) <=> (k < j)
        BY <2>0, <2>2
      <4> QED
        BY <2>0, <4>1
    <3>2. s[k].to # m
      <4>1. r[k] # r[j]
        BY <2>0, <2>2 DEF Distinct
      <4> QED
        BY <1>4, <1>9, <2>0, <4>1
    <3> HIDE DEF T
    <3> QED
      BY <3>1, <3>2 DEF Takes
  <2> QED
    BY <2>1, <2>2
<1> HIDE DEF T
<1>12. Leads(m, pid[m], d, s, e)
  BY <1>10, <1>11 DEF Leads
<1> QED
  BY <1>1, <1>5, <1>6, <1>12

-------------------------------------------------------------------------------
(***************************************************************************)
(* The invariant.  What is on its way to a client that lost nothing leads  *)
(* its table to the directory of the peers, and the client accepts every   *)
(* message of it.  While the initial info is being sent nobody has been    *)
(* told of the new connection yet, which may still fail: what is in the    *)
(* buffers leads to the directory without it.                              *)
(***************************************************************************)

TableInv ==
    /\ \A c \in Clients : sock[c] \in Present \ lost =>
         Arrives(sock[c], pid[sock[c]], table[c], inbox[sock[c]], sends, InfoLeft(c),
                 Dir(Present, pid))
    /\ (sends # <<>> /\ Head(sends).must) =>
         \A c \in Clients : sock[c] \in Here \ lost =>
             Arrives(sock[c], pid[sock[c]], table[c], inbox[sock[c]], <<>>, InfoLeft(c),
                     Dir(Here, pid))

\* What is used of the invariants proved before.
LEMMA Facts ==
    ASSUME LearnInv
    PROVE  /\ Here \subseteq Present /\ Present \subseteq Here \cup {cur} /\ Present \subseteq Conns
           /\ Single(Present, pid) /\ Single(Here, pid) /\ \A n \in Present : pid[n] \in Ids /\ n <= made
           /\ sends \in Seq(Sends) /\ inbox \in [Conns -> Seq(Sound)] /\ None \notin Present
           /\ table \in [Clients -> Tables] /\ peer_list \in Seq(Conns) /\ Distinct(peer_list)
<1> USE DEF LearnInv, IInv
<1>1. peer_list \in Seq(Conns) /\ Listed = Here /\ Here \subseteq Conns
  BY HereListed, ValsRange DEF ServerType, Here
<1>2. Here \subseteq Present /\ Present \subseteq Here \cup {cur} /\ Present \subseteq Conns
  BY <1>1 DEF Present, PlaceInv
<1>3. \A n \in Present : n <= made
  BY <1>1 DEF Present, ConnInv
<1>4. \A n, m \in Present : pid[n] = pid[m] => n = m
  BY DEF IdsUnique
<1>5. Single(Present, pid) /\ Single(Here, pid)
  BY <1>2, <1>4 DEF Single
<1>6. None \notin Present
  BY <1>2, NoneConns
<1>7. table \in [Clients -> Tables]
  BY DEF ClientType, Tables
<1> QED
  BY <1>1, <1>2, <1>3, <1>5, <1>6, <1>7 DEF ServerType, NetType, NameInv, ConnInv

\* Where the initial info is that a client has not read yet.
LEMMA InfoFront ==
    ASSUME LearnInv, NEW c \in Clients, sock[c] \in Present
    PROVE  /\ InfoLeft(c) = 3 - Got(c) /\ InfoLeft(c) \in 0 .. 3
           /\ InfoLeft(c) <= Len(inbox[sock[c]]) + Len(sends)
           /\ (sock[c] \in Here \/ sends = <<>> \/ ~ Head(sends).must)
                 => InfoLeft(c) <= Len(inbox[sock[c]])
<1> USE DEF LearnInv, IInv
<1>1. /\ sends \in Seq(Sends) /\ Len(sends) \in Nat /\ (sends # <<>> => Len(sends) >= 1 /\ Head(sends) = sends[1])
  BY LenProperties, HeadTailProperties, EmptySeq DEF ServerType
<1>2. PICK n \in Present : n = sock[c]
  OBVIOUS
<1>3. n \in Conns /\ n # None
  BY <1>2, Facts
<1>4. PICK l \in Nat : l = Len(inbox[n])
  BY <1>3, LenProperties DEF NetType
<1>5. cpc[c] \in ClientPcs \ {"idle"}
  BY <1>2, <1>3 DEF SockInv, ClientType
<1>6. InfoLeft(c) = 3 - Got(c) /\ Got(c) \in 0 .. 3
  BY <1>5 DEF InfoLeft, Got, ClientPcs
<1>7. CASE n \in Here
  <2>1. Got(c) + l >= 3
    BY <1>2, <1>4, <1>7 DEF InfoInv, Delivered
  <2> QED
    BY <1>1, <1>2, <1>4, <1>6, <2>1
<1>8. CASE n \notin Here
  <2>1. pc = "conn" /\ n = cur
    BY <1>8, HereListed DEF Present, ServerType
  <2>2. PICK j \in 0 .. 3 : Left(j) /\ Delivered(n, j)
    BY <2>1 DEF InfoInv
  <2>3. IF j = 3 THEN Got(c) + l >= 3 ELSE Got(c) + l = j
    BY <1>2, <1>4, <2>2 DEF Delivered
  <2>4. Len(sends) >= 3 - j
    BY <2>2 DEF Left
  <2>5. ASSUME sends = <<>> \/ ~ Head(sends).must PROVE j = 3
    <3>1. CASE sends = <<>>
      BY <2>4, <3>1
    <3>2. CASE sends # <<>> /\ ~ Head(sends).must
      <4>1. 1 \in 1 .. Len(sends) /\ ~ sends[1].must
        BY <1>1, <3>2
      <4>2. ~ (1 <= 3 - j)
        BY <2>2, <4>1 DEF Left
      <4> QED
        BY <4>2
    <3> QED
      BY <2>5, <3>1, <3>2
  <2> QED
    BY <1>1, <1>2, <1>4, <1>6, <1>8, <2>3, <2>4, <2>5, SMTT(60)
<1> QED
  BY <1>7, <1>8
-------------------------------------------------------------------------------
(* The steps of the server *)

LEMMA TableInit == Init => TableInv
<1> SUFFICES ASSUME Init PROVE TableInv
  OBVIOUS
<1>1. Present = {}
  BY DEF Init, Present, Listed
<1> QED
  BY <1>1 DEF Init, TableInv

LEMMA LeftSame == \A c \in Clients : cpc'[c] = cpc[c] => InfoLeft(c)' = InfoLeft(c)
BY DEF InfoLeft

\* The same peers, and nothing said, sent or read.
LEMMA TableKept ==
    ASSUME TableInv, UNCHANGED <<pid, sock, table, inbox, sends, lost, cpc>>, Present' = Present,
           sends = <<>> \/ Here' = Here
    PROVE  TableInv'
<1>1. PICK P, q, s, b, t, S, L, H :
        P = Present /\ q = pid /\ s = sock /\ b = inbox /\ t = table /\ S = sends /\ L = lost /\ H = Here
  OBVIOUS
<1>2. Present' = P /\ pid' = q /\ sock' = s /\ inbox' = b /\ table' = t /\ sends' = S /\ lost' = L
  BY <1>1
<1>3. \A c \in Clients : InfoLeft(c)' = InfoLeft(c)
  BY LeftSame
<1>4. S # <<>> => Here' = H
  BY <1>1
<1> QED
  BY <1>1, <1>2, <1>3, <1>4 DEF TableInv

LEMMA TableQuiet ==
    ASSUME LearnInv, TableInv,
           \/ ServerStart \/ ListenFails \/ Daemonize \/ DaemonFails \/ Sigterm
           \/ LoopTest \/ EnterSelect \/ SelectReturns \/ FdsDone \/ AcceptFails
    PROVE  TableInv'
<1>1. IInv'
  <2>1. Next
    BY DEF Next, ServerStep, ServerFault
  <2> QED
    BY <2>1, IInvNext DEF LearnInv
<1>2. Present' = Present /\ UNCHANGED <<pid, sock, table, sends, inbox, cpc>>
  BY <1>1, LearnQuiet
<1>3. UNCHANGED peer_list /\ UNCHANGED lost
  BY DEF ServerStart, ListenFails, Daemonize, DaemonFails, Sigterm, LoopTest, EnterSelect,
         SelectReturns, FdsDone, AcceptFails, Ends, net
<1>4. Here' = Here
  BY <1>3 DEF Here
<1> QED
  BY <1>2, <1>3, <1>4, TableKept

\* A connection refused, a peer entered or out of the server's hands: the
\* directory is the same, and nothing is left to send.
LEMMA TableDone ==
    ASSUME LearnInv, TableInv, NewConnFails \/ NewConnDone \/ FreeDone
    PROVE  TableInv'
<1> USE DEF LearnInv, IInv
<1>1. UNCHANGED <<pid, sock, table, inbox, sends, lost, cpc>>
  BY DEF NewConnFails, NewConnDone, FreeDone, client, net
<1>2. sends = <<>>
  BY DEF NewConnFails, NewConnDone, FreeDone, Accepting, PlaceInv
<1>3. Present' = Present
  <2>1. CASE NewConnFails
    BY <2>1 DEF NewConnFails, Accepting, Ends, Present, Listed
  <2>2. CASE FreeDone
    BY <2>2 DEF FreeDone, Present, Listed
  <2>3. CASE NewConnDone
    <3>1. pc = "conn" /\ pc' = "fds" /\ peer_list' = Append(peer_list, cur)
      BY <2>3 DEF NewConnDone
    <3>2. cur \in Conns /\ peer_list \in Seq(Conns)
      BY <3>1 DEF PlaceInv, ServerType
    <3>3. Here' = Here \cup {cur} /\ peer_list' \in Seq(Conns)
      BY <3>1, <3>2, AppendVals DEF Here
    <3>4. Listed = Here
      BY <3>2, HereListed
    <3>5. Listed' = Here'
      BY <3>3, LenProperties DEF Listed, Here, Vals
    <3> QED
      BY <3>1, <3>3, <3>4, <3>5 DEF Present
  <2> QED
    BY <2>1, <2>2, <2>3
<1> QED
  BY <1>1, <1>2, <1>3, TableKept

\* The server has ended: no peer is here.
LEMMA TableEnd ==
    ASSUME LearnInv, TableInv, ServerClose \/ ServerKilled
    PROVE  TableInv'
<1>1. /\ peer_list' = <<>> /\ pc' # "conn"
      /\ ServerClose => sends = <<>>
  BY DEF ServerClose, ServerKilled, LearnInv, IInv, PlaceInv
<1>2. Present' = {} /\ sends' = <<>>
  BY <1>1 DEF Present, Listed, ServerClose, ServerKilled
<1> QED
  BY <1>2 DEF TableInv

\* The initial info could not be sent: nobody had been told.
LEMMA TableRefused ==
    ASSUME LearnInv, TableInv, InitialInfoFails
    PROVE  TableInv'
<1>1. /\ sends # <<>> /\ Head(sends).must /\ sends' = <<>> /\ pc' = "fds"
      /\ UNCHANGED <<pid, sock, table, inbox, lost, cpc, peer_list>>
  BY DEF InitialInfoFails, Ends, client
<1>2. Present' = Here
  <2>1. Listed = Here
    BY HereListed, Facts
  <2> QED
    BY <1>1, <2>1 DEF Present, Listed
<1>3. \A c \in Clients : InfoLeft(c)' = InfoLeft(c)
  BY <1>1, LeftSame
<1>4. ASSUME NEW c \in Clients, sock'[c] \in Present' \ lost'
      PROVE  Arrives(sock[c], pid[sock[c]], table[c], inbox[sock[c]], <<>>, InfoLeft(c), Dir(Here, pid))
  <2>1. sock[c] \in Here \ lost
    BY <1>1, <1>2, <1>4
  <2> QED
    BY <1>1, <2>1 DEF TableInv
<1>5. PICK q, s, b, t, H : q = pid /\ s = sock /\ b = inbox /\ t = table /\ H = Here
  OBVIOUS
<1>6. Present' = H /\ pid' = q /\ sock' = s /\ inbox' = b /\ table' = t
  BY <1>1, <1>2, <1>5
<1> QED
  BY <1>1, <1>3, <1>4, <1>5, <1>6 DEF TableInv
\* A message is sent, or dropped.
LEMMA TableSendOne ==
    ASSUME LearnInv, TableInv, SendOne
    PROVE  TableInv'
<1>1. PICK x, r : x = Head(sends) /\ r = Tail(sends)
  OBVIOUS
<1>2. /\ sends # <<>> /\ sends' = r
      /\ \/ inbox' = [inbox EXCEPT ![x.to] = Append(@, x.msg)] /\ lost' = lost
         \/ inbox' = inbox /\ lost' = lost \cup {n \in {x.to} : Owner(n) # {}}
      /\ UNCHANGED <<pid, sock, table, cpc, peer_list, pc, cur>>
  BY <1>1 DEF SendOne, client
<1>3. /\ sends \in Seq(Sends) /\ inbox \in [Conns -> Seq(Sound)] /\ Present \subseteq Conns
      /\ Here \subseteq Present
  BY Facts
<1>4. x \in Sends /\ r \in Seq(Sends)
  BY <1>1, <1>2, <1>3, HeadTailProperties
<1>5. x.to \in Conns /\ x.msg \in Sound
  BY <1>4 DEF Sends
<1>6. Present' = Present /\ Here' = Here
  BY <1>2 DEF Present, Listed, Here
<1>7. \A c \in Clients : InfoLeft(c)' = InfoLeft(c)
  BY <1>2, LeftSame
<1>8. ASSUME NEW c \in Clients, sock[c] \in Present \ lost' PROVE sock[c] \in Present \ lost
  BY <1>2, <1>8
<1>9. ASSUME NEW c \in Clients, sock[c] \in Present \ lost'
      PROVE  Arrives(sock[c], pid[sock[c]], table[c], inbox'[sock[c]], r, InfoLeft(c), Dir(Present, pid))
  <2>1. PICK n \in Conns, b \in Seq(Sound), q \in Nat : n = sock[c] /\ b = inbox[n] /\ q = InfoLeft(c)
    <3>1. InfoLeft(c) \in Nat
      BY <1>8, <1>9, InfoFront
    <3> QED
      BY <1>3, <1>9, <3>1
  <2>2. PICK D, i, t : D = Dir(Present, pid) /\ i = pid[n] /\ t = table[c]
    OBVIOUS
  <2>3. Arrives(n, i, t, b, sends, q, D)
    BY <1>8, <1>9, <2>1, <2>2 DEF TableInv
  <2>4. CASE x.to = n
    <3>1. Owner(n) # {}
      BY <2>1 DEF Owner
    <3>2. inbox' = [inbox EXCEPT ![n] = Append(@, x.msg)]
      BY <1>2, <1>9, <2>1, <2>4, <3>1
    <3>3. inbox'[n] = Append(b, x.msg)
      BY <1>3, <2>1, <3>2
    <3>4. q <= Len(b) + Len(sends)
      BY <1>9, <1>8, <2>1, InfoFront
    <3>5. Len(b) \in Nat /\ Len(sends) \in Nat
      BY <1>3, LenProperties
    <3>6. q \in 0 .. (Len(b) + Len(sends))
      BY <2>1, <3>4, <3>5
    <3>7. Arrives(n, i, t, Append(b, Head(sends).msg), Tail(sends), q, D)
      BY <1>1, <1>2, <1>3, <2>3, <2>4, <3>6, ArrivesSent
    <3> QED
      BY <1>1, <2>1, <2>2, <3>3, <3>7
  <2>5. CASE x.to # n
    <3>1. inbox'[n] = b
      BY <1>2, <1>3, <2>1, <2>5
    <3>2. n \in Here \/ ~ x.must
      <4>1. CASE n \in Here
        BY <4>1
      <4>2. CASE n \notin Here
        <5>1. pc = "conn" /\ n = cur
          BY <1>9, <2>1, <4>2, HereListed, Facts DEF Present
        <5>2. PICK j \in 0 .. 3 : Left(j)
          BY <5>1 DEF LearnInv, IInv, InfoInv
        <5>3. 1 \in 1 .. Len(sends) /\ x = sends[1]
          BY <1>1, <1>2, <1>3, HeadTailProperties, LenProperties, EmptySeq
        <5>4. x.must => x.to = cur
          BY <5>2, <5>3 DEF Left
        <5> QED
          BY <2>5, <5>1, <5>4
      <4> QED
        BY <4>1, <4>2
    <3>3. q <= Len(b)
      BY <1>1, <1>8, <1>9, <2>1, <3>2, InfoFront
    <3>4. q \in 0 .. Len(b)
      BY <2>1, <3>3, LenProperties
    <3>5. Arrives(n, i, t, b, Tail(sends), q, D)
      BY <1>1, <1>2, <1>3, <2>3, <2>5, <3>4, ArrivesOther
    <3> QED
      BY <1>1, <2>1, <2>2, <3>1, <3>5
  <2> QED
    BY <2>4, <2>5
\* What must arrive goes to the new connection.
<1>10. ASSUME r # <<>>, Head(r).must PROVE x.must /\ x.to \notin Here
  <2>1. Len(sends) \in Nat /\ 1 \in 1 .. Len(sends) /\ 2 \in 1 .. Len(sends) /\ x = sends[1] /\ Head(r) = sends[2]
    <3>1. PICK R \in Seq(Sends) : R = r
      BY <1>4
    <3>2. Len(R) = Len(sends) - 1 /\ \A k \in 1 .. Len(R) : R[k] = sends[k + 1]
      BY <1>1, <1>2, <1>3, <3>1, HeadTailProperties
    <3>3. Len(R) \in Nat \ {0} /\ Head(R) = R[1] /\ Head(sends) = sends[1] /\ Len(sends) \in Nat
      BY <1>2, <1>3, <1>10, <3>1, HeadTailProperties, LenProperties, EmptySeq
    <3> QED
      BY <1>1, <3>1, <3>2, <3>3
  <2>2. pc = "conn"
    <3>1. pc \in {"conn", "free"}
      BY <1>2 DEF LearnInv, IInv, PlaceInv
    <3>2. pc # "free"
      BY <1>10, <2>1 DEF LearnInv, IInv, InfoInv
    <3> QED
      BY <3>1, <3>2
  <2>3. PICK j \in 0 .. 3 : Left(j)
    BY <2>2 DEF LearnInv, IInv, InfoInv
  <2>4. 2 <= 3 - j
    BY <1>10, <2>1, <2>3 DEF Left
  <2>5. x.must /\ x.to = cur
    BY <2>1, <2>3, <2>4 DEF Left
  <2> QED
    BY <2>2, <2>5 DEF LearnInv, IInv, ConnInv
<1>11. ASSUME r # <<>>, Head(r).must, NEW c \in Clients, sock[c] \in Here \ lost'
       PROVE  Arrives(sock[c], pid[sock[c]], table[c], inbox'[sock[c]], <<>>, InfoLeft(c), Dir(Here, pid))
  <2>1. x.must /\ x.to # sock[c]
    BY <1>10, <1>11
  <2>2. inbox'[sock[c]] = inbox[sock[c]]
    BY <1>2, <1>3, <1>11, <2>1
  <2>3. sock[c] \in Here \ lost
    BY <1>2, <1>11
  <2> QED
    BY <1>1, <1>2, <2>1, <2>2, <2>3 DEF TableInv
<1>12. PICK P, H, q, s, t, z : P = Present /\ H = Here /\ q = pid /\ s = sock /\ t = table /\ z = r
  OBVIOUS
<1>13. Present' = P /\ Here' = H /\ pid' = q /\ sock' = s /\ table' = t /\ sends' = z
  BY <1>2, <1>6, <1>12
<1> QED
  BY <1>7, <1>9, <1>11, <1>12, <1>13 DEF TableInv
\* What a handler is to send is put behind what is in the buffer.
LEMMA ArrivesThen ==
    ASSUME NEW n \in Conns, NEW i, NEW t, NEW D, NEW E, NEW b \in Seq(Sound), NEW s \in Seq(Sends),
           NEW q \in 0 .. Len(b), Arrives(n, i, t, b, <<>>, q, D), Leads(n, i, D, s, E)
    PROVE  Arrives(n, i, t, b, s, q, E)
<1>1. PICK d \in Seq(Sends) : d = Drop(Buf(n, b), q)
  BY DropStream
<1>2. Drop(Stream(n, b, s), q) = d \o s /\ Drop(Stream(n, b, <<>>), q) = d
  BY <1>1, DropStream, ZenonT(60)
<1>3. Leads(n, i, t, d, D)
  BY <1>2 DEF Arrives
<1>4. Leads(n, i, t, d \o s, E)
  BY <1>3, LeadsConcat
<1> QED
  BY <1>2, <1>4 DEF Arrives

\* Between two handlers: every buffer leads to the directory.
LEMMA TableIdle ==
    ASSUME LearnInv, TableInv, sends = <<>>, NEW c \in Clients, sock[c] \in Present \ lost
    PROVE  /\ Arrives(sock[c], pid[sock[c]], table[c], inbox[sock[c]], <<>>, InfoLeft(c), Dir(Present, pid))
           /\ inbox[sock[c]] \in Seq(Sound) /\ InfoLeft(c) \in 0 .. Len(inbox[sock[c]])
           /\ sock[c] \in Conns
<1>1. InfoLeft(c) \in 0 .. 3 /\ InfoLeft(c) <= Len(inbox[sock[c]])
  BY InfoFront
<1>2. sock[c] \in Conns /\ inbox[sock[c]] \in Seq(Sound)
  BY Facts
<1>3. InfoLeft(c) \in 0 .. Len(inbox[sock[c]])
  BY <1>1, <1>2, LenProperties
<1> QED
  BY <1>2, <1>3 DEF TableInv

\* A connection is accepted.
LEMMA TableNewConn ==
    ASSUME LearnInv, TableInv, HandleNewConn
    PROVE  TableInv'
<1>1. PICK n \in Conns, i \in Ids : Joining(n, i)
  BY NewConnJoins
<1>2. /\ pc = "fds" /\ Here = Present /\ n \in Queued /\ n \notin Present /\ pid[n] = NoId
      /\ \A m \in Present : pid[m] # i
      /\ pid' = [pid EXCEPT ![n] = i] /\ Present' = Present \cup {n} /\ sends' = NewConnSends(n, i)
      /\ UNCHANGED <<peer_list, inbox, cpc, sock, table>>
  BY <1>1 DEF Joining
<1>3. lost' = lost /\ sends = <<>>
  BY <1>2 DEF HandleNewConn, LearnInv, IInv, PlaceInv
<1>4. Here' = Here
  BY <1>2 DEF Here
<1>5. /\ Single(Here, pid) /\ (\A m \in Here : pid[m] \in Ids) /\ Here \subseteq Conns
      /\ peer_list \in Seq(Conns) /\ Distinct(peer_list) /\ inbox \in [Conns -> Seq(Sound)]
  BY <1>2, Facts
<1>6. pid \in [Conns -> Ids \cup {NoId}]
  BY DEF LearnInv, IInv, ServerType
<1>7. PICK P, q, r, d, D, s :
        P = Here /\ q = pid /\ r = pid' /\ d = Dir(Here, pid)
        /\ D = [Dir(Here, pid) EXCEPT ![i] = Vecs(n)] /\ s = NewConnSends(n, i)
  OBVIOUS
<1>8. /\ s \in Seq(Sends) /\ Len(s) >= 3
      /\ \A m \in Here : \A l : Leads(m, l, d, s, D)
      /\ \A l : Leads(n, l, NoPeers, Drop(s, 3), D)
  BY <1>2, <1>5, <1>7, NewConnLeads
<1>9. (\A m \in P : r[m] = q[m]) /\ r[n] = i
  BY <1>2, <1>5, <1>6, <1>7
<1>10. Dir(P \cup {n}, r) = D
  <2>1. Single(P, q) /\ n \notin P /\ r[n] \in Ids /\ \A m \in P : q[m] # r[n]
    BY <1>2, <1>5, <1>7, <1>9
  <2>2. Dir(P \cup {n}, r) = [Dir(P, q) EXCEPT ![r[n]] = Vecs(n)]
    BY <1>9, <2>1, DirJoin, SMT
  <2> QED
    BY <1>7, <1>9, <2>2
<1>11. Dir(P, r) = d
  <2>1. \A k \in Ids : {m \in P : r[m] = k} = {m \in P : q[m] = k}
    BY <1>9
  <2> QED
    BY <1>7, <2>1 DEF Dir
<1>12. \A c \in Clients : InfoLeft(c)' = InfoLeft(c)
  BY <1>2, LeftSame
<1>13. ASSUME NEW c \in Clients, sock[c] \in Here \ lost
       PROVE  /\ Arrives(sock[c], r[sock[c]], table[c], inbox[sock[c]], <<>>, InfoLeft(c), d)
              /\ Arrives(sock[c], r[sock[c]], table[c], inbox[sock[c]], s, InfoLeft(c), D)
  <2>1. PICK m \in Here : m = sock[c]
    BY <1>13
  <2>2. r[m] = q[m]
    BY <1>7, <1>9
  <2>3. /\ Arrives(m, r[m], table[c], inbox[m], <<>>, InfoLeft(c), d)
        /\ inbox[m] \in Seq(Sound) /\ InfoLeft(c) \in 0 .. Len(inbox[m]) /\ m \in Conns
    BY <1>2, <1>3, <1>7, <1>13, <2>1, <2>2, TableIdle
  <2>4. Leads(m, r[m], d, s, D)
    BY <1>8
  <2>5. Arrives(m, r[m], table[c], inbox[m], s, InfoLeft(c), D)
    BY <1>8, <2>3, <2>4, ArrivesThen
  <2> QED
    BY <2>1, <2>3, <2>5
<1>14. ASSUME NEW c \in Clients, sock[c] = n
       PROVE  Arrives(n, r[n], table[c], inbox[n], s, InfoLeft(c), D)
  <2>1. inbox[n] = <<>> /\ Delivered(n, 0)
    BY <1>2 DEF LearnInv, IInv, InfoInv
  <2>2. Got(c) + 0 = 0
    BY <1>14, <2>1 DEF Delivered
  <2>3. cpc[c] = "version"
    BY <2>2 DEF Got
  <2>4. InfoLeft(c) = 3 /\ table[c] = NoPeers
    BY <2>3 DEF InfoLeft, LearnInv, NameInv
  <2>5. Stream(n, <<>>, s) = s
    <3>1. Buf(n, <<>>) \in Seq(Sends) /\ Len(Buf(n, <<>>)) = 0
      BY BufTyped, EmptySeq
    <3>2. Buf(n, <<>>) = <<>>
      BY <3>1, EmptySeq
    <3> QED
      BY <1>8, <3>2, ConcatEmptySeq DEF Stream
  <2>6. Leads(n, r[n], NoPeers, Drop(s, 3), D)
    BY <1>8
  <2> QED
    BY <2>1, <2>4, <2>5, <2>6 DEF Arrives
<1>15. ASSUME NEW c \in Clients, sock[c] \in (Here \cup {n}) \ lost
       PROVE  Arrives(sock[c], r[sock[c]], table[c], inbox[sock[c]], s, InfoLeft(c), D)
  BY <1>13, <1>14, <1>15
<1>16. PICK f, b, t, L : f = sock /\ b = inbox /\ t = table /\ L = lost
  OBVIOUS
<1>17. /\ Present' = P \cup {n} /\ Here' = P /\ pid' = r /\ sock' = f /\ inbox' = b /\ table' = t
       /\ lost' = L /\ sends' = s
  BY <1>2, <1>3, <1>4, <1>7, <1>16
<1>18. \A c \in Clients : f[c] \in (P \cup {n}) \ L =>
          Arrives(f[c], r[f[c]], t[c], b[f[c]], s, InfoLeft(c), Dir(P \cup {n}, r))
  BY <1>7, <1>10, <1>15, <1>16
<1>19. \A c \in Clients : f[c] \in P \ L =>
          Arrives(f[c], r[f[c]], t[c], b[f[c]], <<>>, InfoLeft(c), Dir(P, r))
  BY <1>7, <1>11, <1>13, <1>16
<1> QED
  BY <1>12, <1>17, <1>18, <1>19 DEF TableInv

\* A peer is freed.
LEMMA TableFree ==
    ASSUME LearnInv, IInv', TableInv, FreePeer
    PROVE  TableInv'
<1> USE DEF LearnInv
<1>1. PICK d, n, r : d = Min(Leaving) /\ n = peer_list[d] /\ r = RemoveAt(peer_list, d)
  OBVIOUS
<1>2. /\ pc = "fds" /\ Leaving # {} /\ cur' = n /\ peer_list' = r
      /\ sends' = [k \in DOMAIN r |-> SendTo(r[k], pid[n], None)] /\ pc' = "free"
      /\ UNCHANGED <<pid, inbox, cpc, sock, table, lost>>
  BY <1>1 DEF FreePeer, client
<1>3. d \in 1 .. Len(peer_list)
  <2>1. Len(peer_list) \in Nat /\ DOMAIN peer_list = 1 .. Len(peer_list)
    BY LenProperties DEF IInv, ServerType
  <2>2. Leaving \in SUBSET Nat
    BY <2>1 DEF Leaving
  <2>3. d \in Leaving
    BY <1>1, <1>2, <2>2, MinIn
  <2> QED
    BY <2>1, <2>3 DEF Leaving
<1>4. r \in Seq(Conns) /\ Vals(r) = Here \ {n} /\ Distinct(r)
  BY <1>1, <1>3, RemoveVals DEF IInv, ServerType, ConnInv, Here
<1>5. n \in Here
  BY <1>1, <1>3 DEF Here, Vals
<1>6. Present = Here /\ Present' = Here \ {n}
  <2>1. Listed = Here
    BY HereListed DEF IInv, ServerType
  <2>2. DOMAIN peer_list' = 1 .. Len(peer_list')
    BY <1>2, <1>4, LenProperties
  <2>3. Listed' = Here \ {n}
    BY <1>2, <1>4, <2>2 DEF Listed, Vals
  <2> QED
    BY <1>2, <2>1, <2>3 DEF Present
<1>7. sends = <<>>
  BY <1>2 DEF IInv, PlaceInv
<1>8. Single(Here, pid) /\ pid[n] \in Ids
  BY <1>5, <1>6, Facts
<1>i. PICK i \in Ids : i = pid[n]
  BY <1>8
<1>9. PICK s, H : i = pid[n] /\ s = sends' /\ H = Here
  BY <1>i
<1>10. s = [k \in DOMAIN r |-> SendTo(r[k], i, None)]
  BY <1>2, <1>9
<1>11. \A m \in H \ {n} : s \in Seq(Sends) /\ Leads(m, pid[m], Dir(H, pid), s, Dir(H \ {n}, pid))
  <2> SUFFICES ASSUME NEW m \in H \ {n}
               PROVE  s \in Seq(Sends) /\ Leads(m, pid[m], Dir(H, pid), s, Dir(H \ {n}, pid))
    OBVIOUS
  <2>1. /\ Single(H, pid) /\ n \in H /\ i = pid[n] /\ r \in Seq(Conns) /\ Distinct(r)
        /\ Vals(r) = H \ {n}
    BY <1>4, <1>5, <1>8, <1>9
  <2>2. s \in Seq(Sends)
    BY <1>9 DEF IInv, ServerType
  <2>3. Leads(m, pid[m], Dir(H, pid), s, Dir(H \ {n}, pid))
    BY <1>10, <2>1, FreeLeads
  <2> QED
    BY <2>2, <2>3
<1>12. ASSUME NEW c \in Clients, sock[c] \in (H \ {n}) \ lost
       PROVE  Arrives(sock[c], pid[sock[c]], table[c], inbox[sock[c]], s, InfoLeft(c), Dir(H \ {n}, pid))
  <2>1. PICK m \in H \ {n} : m = sock[c]
    BY <1>12
  <2>2. /\ Arrives(m, pid[m], table[c], inbox[m], <<>>, InfoLeft(c), Dir(H, pid))
        /\ inbox[m] \in Seq(Sound) /\ InfoLeft(c) \in 0 .. Len(inbox[m]) /\ m \in Conns
    BY <1>6, <1>7, <1>9, <1>12, <2>1, TableIdle
  <2>3. s \in Seq(Sends) /\ Leads(m, pid[m], Dir(H, pid), s, Dir(H \ {n}, pid))
    BY <1>11
  <2>4. Arrives(m, pid[m], table[c], inbox[m], s, InfoLeft(c), Dir(H \ {n}, pid))
    BY <2>2, <2>3, ArrivesThen
  <2> QED
    BY <2>1, <2>4
<1>13. ASSUME sends' # <<>> PROVE ~ Head(sends').must
  <2>1. s \in Seq(Sends) /\ s # <<>>
    BY <1>9, <1>13 DEF IInv, ServerType
  <2>2. 1 \in 1 .. Len(s) /\ Head(s) = s[1]
    BY <2>1, HeadTailProperties, LenProperties, EmptySeq
  <2>3. \A k \in 1 .. Len(s) : ~ s[k].must
    BY <1>2, <1>9 DEF IInv, InfoInv
  <2>4. ~ s[1].must
    BY <2>2, <2>3
  <2>5. Head(sends') = s[1]
    BY <1>9, <2>2
  <2> QED
    BY <2>4, <2>5
<1>14. \A c \in Clients : InfoLeft(c)' = InfoLeft(c)
  BY <1>2, LeftSame
<1>15. PICK q, f, b, t, L : q = pid /\ f = sock /\ b = inbox /\ t = table /\ L = lost
  OBVIOUS
<1>16. /\ Present' = H \ {n} /\ pid' = q /\ sock' = f /\ inbox' = b /\ table' = t
       /\ lost' = L /\ sends' = s
  BY <1>2, <1>6, <1>9, <1>15
<1> QED
  BY <1>12, <1>13, <1>14, <1>15, <1>16 DEF TableInv
-------------------------------------------------------------------------------
(* The steps of the clients *)

\* Client c acts, the server does not: what was on its way to the others still
\* is, and of c it is enough that it follows, unless it has let go.
LEMMA TableOther ==
    ASSUME LearnInv, TableInv, UNCHANGED server, NEW c \in Clients,
           \A d \in Clients \ {c} : /\ sock'[d] = sock[d] /\ cpc'[d] = cpc[d] /\ table'[d] = table[d],
           \A d \in Clients \ {c} : sock[d] \in Present =>
              (inbox'[sock[d]] = inbox[sock[d]] /\ (sock[d] \in lost => sock[d] \in lost')),
           sock'[c] \in Present \ lost' =>
              /\ Arrives(sock'[c], pid[sock'[c]], table'[c], inbox'[sock'[c]], sends, InfoLeft(c)',
                         Dir(Present, pid))
              /\ (sends # <<>> /\ Head(sends).must /\ sock'[c] \in Here) =>
                 Arrives(sock'[c], pid[sock'[c]], table'[c], inbox'[sock'[c]], <<>>, InfoLeft(c)',
                         Dir(Here, pid))
    PROVE  TableInv'
<1>1. UNCHANGED <<pid, sends, peer_list, pc, cur>>
  BY DEF server
<1>2. Present' = Present /\ Here' = Here
  BY <1>1 DEF Present, Listed, Here
<1>3. \A d \in Clients \ {c} : InfoLeft(d)' = InfoLeft(d)
  BY LeftSame
<1>4. Here \subseteq Present
  BY Facts
<1>5. ASSUME NEW d \in Clients, sock'[d] \in Present \ lost'
      PROVE  Arrives(sock'[d], pid[sock'[d]], table'[d], inbox'[sock'[d]], sends, InfoLeft(d)',
                     Dir(Present, pid))
  <2>1. CASE d = c
    BY <1>5, <2>1
  <2>2. CASE d # c
    <3>1. sock'[d] = sock[d] /\ table'[d] = table[d] /\ inbox'[sock[d]] = inbox[sock[d]]
      BY <1>5, <2>2
    <3>2. sock[d] \in Present \ lost
      BY <1>5, <2>2
    <3>3. Arrives(sock[d], pid[sock[d]], table[d], inbox[sock[d]], sends, InfoLeft(d), Dir(Present, pid))
      BY <3>2 DEF TableInv
    <3> QED
      BY <1>3, <2>2, <3>1, <3>3
  <2> QED
    BY <2>1, <2>2
<1>6. ASSUME sends # <<>>, Head(sends).must, NEW d \in Clients, sock'[d] \in Here \ lost'
      PROVE  Arrives(sock'[d], pid[sock'[d]], table'[d], inbox'[sock'[d]], <<>>, InfoLeft(d)',
                     Dir(Here, pid))
  <2>1. CASE d = c
    BY <1>4, <1>6, <2>1
  <2>2. CASE d # c
    <3>1. sock'[d] = sock[d] /\ table'[d] = table[d] /\ inbox'[sock[d]] = inbox[sock[d]]
      BY <1>4, <1>6, <2>2
    <3>2. sock[d] \in Here \ lost
      BY <1>4, <1>6, <2>2
    <3>3. Arrives(sock[d], pid[sock[d]], table[d], inbox[sock[d]], <<>>, InfoLeft(d), Dir(Here, pid))
      BY <1>6, <3>2 DEF TableInv
    <3> QED
      BY <1>3, <2>2, <3>1, <3>3
  <2> QED
    BY <2>1, <2>2
<1>7. PICK P, H, q, z, f, b, t, L :
        P = Present /\ H = Here /\ q = pid /\ z = sends /\ f = sock' /\ b = inbox' /\ t = table' /\ L = lost'
  OBVIOUS
<1>8. Present' = P /\ Here' = H /\ pid' = q /\ sends' = z
  BY <1>1, <1>2, <1>7
<1> QED
  BY <1>5, <1>6, <1>7, <1>8 DEF TableInv

\* The client closes its end.
LEMMA TableClose ==
    ASSUME LearnInv, TableInv, NEW c \in Clients, cpc[c] # "idle", CloseSock(c),
           table' = table \/ table' = [table EXCEPT ![c] = NoPeers]
    PROVE  TableInv'
<1>1. sock[c] \in Conns /\ sock[c] # None
  BY SockConns DEF LearnInv
<1>2. /\ cpc' = [cpc EXCEPT ![c] = "idle"] /\ sock' = [sock EXCEPT ![c] = None]
      /\ inbox' = [x \in Conns |-> IF x = sock[c] THEN <<>> ELSE inbox[x]]
      /\ lost' = lost \ {sock[c]} /\ UNCHANGED server
  BY DEF CloseSock
<1>3. /\ cpc \in [Clients -> ClientPcs] /\ sock \in [Clients -> Conns \cup {None}]
      /\ table \in [Clients -> Tables]
  BY Facts DEF LearnInv, IInv, ClientType
<1>4. \A d \in Clients \ {c} : sock[d] # sock[c]
  BY <1>1, OnlyOwner DEF LearnInv
<1>5. \A d \in Clients \ {c} : sock'[d] = sock[d] /\ cpc'[d] = cpc[d] /\ table'[d] = table[d]
  BY <1>2, <1>3
<1>6. \A d \in Clients \ {c} : sock[d] \in Present =>
         (inbox'[sock[d]] = inbox[sock[d]] /\ (sock[d] \in lost => sock[d] \in lost'))
  BY <1>2, <1>4, Facts
<1>7. sock'[c] \notin Present
  BY <1>2, <1>3, Facts
<1> QED
  BY <1>2, <1>5, <1>6, <1>7, TableOther

\* A connection made, or the error of a reset one that goes unnoticed: the
\* server does not have it in its list.
LEMMA TableAbsent ==
    ASSUME LearnInv, TableInv, NEW c \in Clients, UNCHANGED server, sock'[c] \notin Present,
           UNCHANGED <<table, inbox, lost>>,
           \A d \in Clients \ {c} : sock'[d] = sock[d] /\ cpc'[d] = cpc[d]
    PROVE  TableInv'
<1>1. \A d \in Clients \ {c} : sock'[d] = sock[d] /\ cpc'[d] = cpc[d] /\ table'[d] = table[d]
  OBVIOUS
<1>2. \A d \in Clients \ {c} : sock[d] \in Present =>
         (inbox'[sock[d]] = inbox[sock[d]] /\ (sock[d] \in lost => sock[d] \in lost'))
  OBVIOUS
<1> QED
  BY <1>1, <1>2, TableOther

LEMMA TableConnect ==
    ASSUME LearnInv, TableInv, NEW c \in Clients, Connect(c)
    PROVE  TableInv'
<1>1. /\ sock' = [sock EXCEPT ![c] = made + 1] /\ cpc' = [cpc EXCEPT ![c] = "version"]
      /\ UNCHANGED server /\ UNCHANGED <<table, inbox, lost>>
  BY DEF Connect
<1>2. /\ cpc \in [Clients -> ClientPcs] /\ sock \in [Clients -> Conns \cup {None}] /\ made \in Nat
  BY BoundAssumption DEF LearnInv, IInv, ClientType, NetType
<1>3. made + 1 \notin Present
  <2>1. ~ (made + 1 <= made)
    BY <1>2
  <2> QED
    BY <2>1, Facts
<1>4. sock'[c] \notin Present /\ \A d \in Clients \ {c} : sock'[d] = sock[d] /\ cpc'[d] = cpc[d]
  BY <1>1, <1>2, <1>3
<1> QED
  BY <1>1, <1>4, TableAbsent

LEMMA TableReset ==
    ASSUME LearnInv, TableInv, NEW c \in Clients, ReadReset(c)
    PROVE  TableInv'
<1>1. CASE CloseSock(c)
  BY <1>1, TableClose DEF ReadReset
<1>2. CASE ~ CloseSock(c)
  <2>1. /\ sock[c] \in reset /\ cpc' = [cpc EXCEPT ![c] = "id"] /\ UNCHANGED server
        /\ UNCHANGED <<sock, inbox, table, lost>>
    BY <1>2 DEF ReadReset
  <2>2. Present \subseteq srvend
    <3>1. Listed = Here
      BY HereListed, Facts
    <3> QED
      BY <3>1 DEF Present, LearnInv, IInv, ConnInv
  <2>3. sock'[c] \notin Present
    BY <2>1, <2>2 DEF LearnInv, IInv, ConnInv
  <2>4. \A d \in Clients \ {c} : sock'[d] = sock[d] /\ cpc'[d] = cpc[d]
    BY <2>1 DEF LearnInv, IInv, ClientType
  <2> QED
    BY <2>1, <2>3, <2>4, TableAbsent
<1> QED
  BY <1>1, <1>2
\* The next message of the initial info.
LEMMA TableInfo ==
    ASSUME LearnInv, TableInv, NEW c \in Clients, ReadInfo(c)
    PROVE  TableInv'
<1>1. PICK n : n = sock[c]
  OBVIOUS
<1>2. /\ Starting(c) /\ n # None /\ inbox[n] # <<>> /\ inbox' = [inbox EXCEPT ![n] = Tail(@)]
      /\ cpc' = [cpc EXCEPT ![c] = AfterInfo(c)]
      /\ UNCHANGED server /\ UNCHANGED <<sock, table, lost>>
  BY <1>1 DEF ReadInfo, Has, Read
<1>3. /\ cpc \in [Clients -> ClientPcs] /\ n \in Conns /\ inbox \in [Conns -> Seq(Sound)]
      /\ sends \in Seq(Sends) /\ <<>> \in Seq(Sends)
  BY <1>1, <1>2, Facts, EmptySeq DEF LearnInv, IInv, ClientType
<1>4. InfoLeft(c) \in 1 .. 3 /\ InfoLeft(c)' = InfoLeft(c) - 1
  <2>1. cpc'[c] = AfterInfo(c)
    BY <1>2, <1>3
  <2>2. CASE cpc[c] = "version"
    BY <2>1, <2>2 DEF InfoLeft, AfterInfo
  <2>3. CASE cpc[c] = "id"
    BY <2>1, <2>3 DEF InfoLeft, AfterInfo
  <2>4. CASE cpc[c] = "shm"
    BY <2>1, <2>4 DEF InfoLeft, AfterInfo
  <2> QED
    BY <1>2, <2>2, <2>3, <2>4 DEF Starting
<1>5. \A d \in Clients \ {c} : sock[d] # n
  BY <1>1, <1>2, OnlyOwner DEF LearnInv
<1>6. \A d \in Clients \ {c} : sock'[d] = sock[d] /\ cpc'[d] = cpc[d] /\ table'[d] = table[d]
  BY <1>2, <1>3
<1>7. \A d \in Clients \ {c} : sock[d] \in Present =>
         (inbox'[sock[d]] = inbox[sock[d]] /\ (sock[d] \in lost => sock[d] \in lost'))
  BY <1>2, <1>3, <1>5, Facts
<1>8. PICK b, t : b = inbox[n] /\ t = table[c] /\ b \in Seq(Sound)
  BY <1>3
<1>9. /\ inbox'[n] = Tail(b) /\ b # <<>> /\ Len(b) \in Nat \ {0} /\ Len(sends) \in Nat
      /\ sock'[c] = n /\ table'[c] = t /\ lost' = lost
  BY <1>1, <1>2, <1>3, <1>8, LenProperties, EmptySeq
<1>10. ASSUME NEW s \in Seq(Sends), NEW D, NEW i, InfoLeft(c) <= Len(b) + Len(s),
              Arrives(n, i, t, b, s, InfoLeft(c), D)
       PROVE  Arrives(n, i, t, inbox'[n], s, InfoLeft(c)', D)
  <2>1. PICK q \in 1 .. (Len(b) + Len(s)) : q = InfoLeft(c)
    <3>1. Len(b) \in Nat /\ Len(s) \in Nat
      BY <1>9, <1>10, LenProperties
    <3> QED
      BY <1>4, <1>10, <3>1
  <2>2. Arrives(n, i, t, Tail(b), s, q - 1, D)
    <3>1. n \in Conns /\ b \in Seq(Sound) /\ s \in Seq(Sends) /\ b # <<>>
      BY <1>3, <1>8, <1>9, <1>10
    <3>2. Arrives(n, i, t, b, s, q, D)
      BY <1>10, <2>1
    <3> QED
      BY <2>1, <3>1, <3>2, ArrivesInfo
  <2> QED
    BY <1>4, <1>9, <2>1, <2>2
<1>11. ASSUME n \in Present \ lost
       PROVE  /\ Arrives(n, pid[n], t, inbox'[n], sends, InfoLeft(c)', Dir(Present, pid))
              /\ (sends # <<>> /\ Head(sends).must /\ n \in Here) =>
                 Arrives(n, pid[n], t, inbox'[n], <<>>, InfoLeft(c)', Dir(Here, pid))
  <2>1. /\ InfoLeft(c) <= Len(b) + Len(sends)
        /\ n \in Here => InfoLeft(c) <= Len(b)
    BY <1>1, <1>8, <1>11, InfoFront
  <2>2. Arrives(n, pid[n], t, b, sends, InfoLeft(c), Dir(Present, pid))
    BY <1>1, <1>8, <1>11 DEF TableInv
  <2>3. Arrives(n, pid[n], t, inbox'[n], sends, InfoLeft(c)', Dir(Present, pid))
    BY <1>3, <1>10, <2>1, <2>2
  <2>4. ASSUME sends # <<>>, Head(sends).must, n \in Here
        PROVE  Arrives(n, pid[n], t, inbox'[n], <<>>, InfoLeft(c)', Dir(Here, pid))
    <3>1. Arrives(n, pid[n], t, b, <<>>, InfoLeft(c), Dir(Here, pid))
      BY <1>1, <1>8, <1>11, <2>4 DEF TableInv
    <3>2. InfoLeft(c) <= Len(b) + Len(<<>>)
      BY <1>9, <2>1, <2>4
    <3> QED
      BY <1>3, <1>10, <3>1, <3>2
  <2> QED
    BY <2>3, <2>4
<1> QED
  BY <1>2, <1>6, <1>7, <1>9, <1>11, TableOther

\* A notification is taken in.
LEMMA TableServerMsg ==
    ASSUME LearnInv, TableInv, NEW c \in Clients, HandleServerMsg(c)
    PROVE  TableInv'
<1>1. PICK n : n = sock[c]
  OBVIOUS
<1>2. /\ cpc[c] = "poll" /\ n # None /\ inbox[n] # <<>> /\ inbox' = [inbox EXCEPT ![n] = Tail(@)]
      /\ table' = [table EXCEPT ![c] = Apply(@, Head(inbox[n]))]
      /\ UNCHANGED server /\ UNCHANGED <<cpc, sock, lost>>
  BY <1>1 DEF HandleServerMsg, Has, Read
<1>3. /\ n \in Conns /\ inbox \in [Conns -> Seq(Sound)]
      /\ sends \in Seq(Sends) /\ <<>> \in Seq(Sends) /\ table \in [Clients -> Tables]
  BY <1>1, <1>2, Facts, EmptySeq DEF LearnInv, IInv, ClientType
<1>4. InfoLeft(c) = 0 /\ InfoLeft(c)' = 0
  BY <1>2 DEF InfoLeft
<1>5. \A d \in Clients \ {c} : sock[d] # n
  BY <1>1, <1>2, OnlyOwner DEF LearnInv
<1>6. \A d \in Clients \ {c} : sock'[d] = sock[d] /\ cpc'[d] = cpc[d] /\ table'[d] = table[d]
  BY <1>2, <1>3
<1>7. \A d \in Clients \ {c} : sock[d] \in Present =>
         (inbox'[sock[d]] = inbox[sock[d]] /\ (sock[d] \in lost => sock[d] \in lost'))
  BY <1>2, <1>3, <1>5, Facts
<1>8. PICK b, t : b = inbox[n] /\ t = table[c] /\ b \in Seq(Sound)
  BY <1>3
<1>9. inbox'[n] = Tail(b) /\ b # <<>> /\ sock'[c] = n /\ table'[c] = Apply(t, Head(b)) /\ lost' = lost
  BY <1>1, <1>2, <1>3, <1>8
<1>10. ASSUME NEW s \in Seq(Sends), NEW D, NEW i, Arrives(n, i, t, b, s, InfoLeft(c), D)
       PROVE  Arrives(n, i, table'[c], inbox'[n], s, InfoLeft(c)', D)
  <2>1. Arrives(n, i, t, b, s, 0, D)
    BY <1>4, <1>10
  <2>2. PICK u \in Tables : /\ Takes(n, i, t, SendTo(n, Head(b).idx, Head(b).fd), u)
                            /\ Arrives(n, i, u, Tail(b), s, 0, D)
    BY <1>3, <1>8, <1>9, <2>1, ArrivesRead
  <2>3. Head(b) \in Sound
    BY <1>8, <1>9, HeadTailProperties
  <2>4. SendTo(n, Head(b).idx, Head(b).fd).to = n /\ SendTo(n, Head(b).idx, Head(b).fd).msg = Head(b)
    BY <1>3, <2>3, SoundSends
  <2>5. u = Apply(t, Head(b))
    BY <2>2, <2>4 DEF Takes
  <2> QED
    BY <1>4, <1>9, <2>2, <2>5
<1>11. ASSUME n \in Present \ lost
       PROVE  /\ Arrives(n, pid[n], table'[c], inbox'[n], sends, InfoLeft(c)', Dir(Present, pid))
              /\ (sends # <<>> /\ Head(sends).must /\ n \in Here) =>
                 Arrives(n, pid[n], table'[c], inbox'[n], <<>>, InfoLeft(c)', Dir(Here, pid))
  <2>1. Arrives(n, pid[n], t, b, sends, InfoLeft(c), Dir(Present, pid))
    BY <1>1, <1>8, <1>11 DEF TableInv
  <2>2. Arrives(n, pid[n], table'[c], inbox'[n], sends, InfoLeft(c)', Dir(Present, pid))
    BY <1>3, <1>10, <2>1
  <2>3. ASSUME sends # <<>>, Head(sends).must, n \in Here
        PROVE  Arrives(n, pid[n], table'[c], inbox'[n], <<>>, InfoLeft(c)', Dir(Here, pid))
    <3>1. Arrives(n, pid[n], t, b, <<>>, InfoLeft(c), Dir(Here, pid))
      BY <1>1, <1>8, <1>11, <2>3 DEF TableInv
    <3> QED
      BY <1>3, <1>10, <3>1
  <2> QED
    BY <2>2, <2>3
<1> QED
  BY <1>2, <1>6, <1>7, <1>9, <1>11, TableOther

-------------------------------------------------------------------------------
(* The theorems *)

LEMMA TableServer ==
    ASSUME LearnInv, IInv', TableInv, ServerStart \/ Sigterm \/ ServerStep \/ ServerFault
    PROVE  TableInv'
<1>1. CASE \/ ServerStart \/ ListenFails \/ Daemonize \/ DaemonFails \/ Sigterm
           \/ LoopTest \/ EnterSelect \/ SelectReturns \/ FdsDone \/ AcceptFails
  BY <1>1, TableQuiet
<1>2. CASE NewConnFails \/ NewConnDone \/ FreeDone
  BY <1>2, TableDone
<1>3. CASE ServerClose \/ ServerKilled
  BY <1>3, TableEnd
<1> QED
  BY <1>1, <1>2, <1>3, TableRefused, TableSendOne, TableNewConn, TableFree
     DEF ServerStep, ServerFault, NoIdLeft, EventfdFails

LEMMA TableClient ==
    ASSUME LearnInv, TableInv, NEW c \in Clients,
           Kill(c) \/ Connect(c) \/ ClientMsg(c) \/ HandleEvent(c) \/ HandleStdin(c)
    PROVE  TableInv'
<1>1. CASE Kill(c) \/ Disconnect(c)
  BY <1>1, TableClose DEF Kill, Disconnect, ClientClose
<1>2. CASE ConnectFails(c)
  BY <1>2, TableClose DEF ConnectFails, Starting
<1>3. CASE HandleEvent(c) \/ HandleStdin(c)
  <2>1. UNCHANGED server /\ UNCHANGED client /\ UNCHANGED <<inbox, lost>>
    BY <1>3 DEF HandleEvent, HandleStdin, NotifyAllVects, Notify, NotifyBroadcast, Ring
  <2>2. UNCHANGED <<pid, sock, table, inbox, sends, lost, cpc, peer_list, pc, cur>>
    BY <2>1 DEF server, client
  <2>3. Present' = Present /\ Here' = Here
    BY <2>2 DEF Present, Listed, Here
  <2> QED
    BY <2>2, <2>3, TableKept
<1> QED
  BY <1>1, <1>2, <1>3, TableReset, TableInfo, TableConnect, TableServerMsg DEF ClientMsg

LEMMA TableNext == LearnInv /\ TableInv /\ [Next]_vars => LearnInv' /\ TableInv'
<1> SUFFICES ASSUME LearnInv, TableInv, [Next]_vars PROVE LearnInv' /\ TableInv'
  OBVIOUS
<1>1. LearnInv'
  BY LearnStep
<1>2. CASE ServerStart \/ Sigterm \/ ServerStep \/ ServerFault
  BY <1>1, <1>2, TableServer DEF LearnInv
<1>3. CASE \E c \in Clients : Kill(c) \/ Connect(c) \/ ClientMsg(c)
                              \/ HandleEvent(c) \/ HandleStdin(c)
  <2>1. PICK c \in Clients : Kill(c) \/ Connect(c) \/ ClientMsg(c) \/ HandleEvent(c) \/ HandleStdin(c)
    BY <1>3
  <2>2. TableInv'
    BY <2>1, TableClient
  <2> QED
    BY <1>1, <2>2
<1>4. CASE UNCHANGED vars
  <2>1. UNCHANGED <<pid, sock, table, inbox, sends, lost, cpc, peer_list, pc, cur>>
    BY <1>4 DEF vars, server, client, net
  <2>2. Present' = Present /\ Here' = Here
    BY <2>1 DEF Present, Listed, Here
  <2>3. TableInv'
    BY <2>1, <2>2, TableKept
  <2> QED
    BY <1>1, <2>3
<1> QED
  BY <1>1, <1>2, <1>3, <1>4 DEF Next

LEMMA TableAlways == Spec => [](LearnInv /\ TableInv)
<1>1. Init => LearnInv /\ TableInv
  BY LearnInit, TableInit
<1> QED
  BY <1>1, TableNext, PTL DEF Spec

LEMMA TableGivesFollows == ASSUME LearnInv, TableInv PROVE TableFollows
<1> SUFFICES ASSUME NEW c \in Clients, sock[c] \in Present \ lost PROVE Foreseen(c) = Directory
  BY DEF TableFollows
<1>1. PICK n, q : n = sock[c] /\ q = InfoLeft(c) /\ n \in Conns
  BY Facts
<1>2. Arrives(n, pid[n], table[c], inbox[n], sends, q, Dir(Present, pid))
  BY <1>1 DEF TableInv
<1>3. inbox[n] \in Seq(Sound) /\ sends \in Seq(Sends) /\ Len(inbox[n]) \in Nat /\ Len(sends) \in Nat
  BY <1>1, Facts, LenProperties
<1>4. PICK s \in Seq(Sends) : s = Stream(n, inbox[n], sends) /\ Len(s) = Len(inbox[n]) + Len(sends)
  BY <1>1, <1>3, StreamTyped
<1>5. q \in 0 .. Len(s)
  BY <1>1, <1>3, <1>4, InfoFront
<1>6. PICK d \in Seq(Sends) : d = Drop(s, q)
  BY <1>5, DropIs
<1>7. Leads(n, pid[n], table[c], d, Dir(Present, pid))
  BY <1>2, <1>4, <1>6 DEF Arrives
<1>8. Fold(n, table[c], d) = Dir(Present, pid)
  BY <1>7, FoldIs
<1>9. Coming(sock[c]) = s
  BY <1>1, <1>4, ComingIs
<1>10. Foreseen(c) = Fold(n, table[c], d)
  BY <1>1, <1>6, <1>9 DEF Foreseen, Fold, Drop
<1> QED
  BY <1>8, <1>10, DirectoryIs

\* The server keeps no book of what a client knows; it only appends to the
\* client's stream.  However peers come and go while others are introduced,
\* however ids come round, and wherever the server or a client dies, the
\* messages of each stream add up to the directory.
THEOREM TableFollowsTheorem == Spec => []TableFollows
<1>1. LearnInv /\ TableInv => TableFollows
  BY TableGivesFollows
<1> QED
  BY <1>1, TableAlways, PTL

LEMMA TableGivesStays == ASSUME LearnInv, TableInv PROVE StaysConnected
<1> SUFFICES ASSUME NEW c \in Clients, cpc[c] = "poll", sock[c] \in srvend \ lost, Has(c)
             PROVE  Acceptable(c, Head(inbox[sock[c]]))
  BY DEF StaysConnected
<1>1. PICK n \in Conns : n = sock[c] /\ inbox[n] # <<>>
  BY DEF Has, LearnInv, IInv, ClientType
<1>2. n \in Present
  <2>1. Listed = Here
    BY HereListed, Facts
  <2>2. n \notin Queued
    BY <1>1 DEF LearnInv, IInv, InfoInv
  <2> QED
    BY <1>1, <2>1, <2>2 DEF Present, LearnInv, IInv, ConnInv
<1>3. InfoLeft(c) = 0
  BY DEF InfoLeft
<1>4. Arrives(n, pid[n], table[c], inbox[n], sends, 0, Dir(Present, pid))
  BY <1>1, <1>2, <1>3 DEF TableInv
<1>5. PICK b \in Seq(Sound) : b = inbox[n] /\ b # <<>>
  BY <1>1, Facts
<1>6. sends \in Seq(Sends)
  BY Facts
<1>7. PICK u \in Tables : Takes(n, pid[n], table[c], SendTo(n, Head(b).idx, Head(b).fd), u)
  BY <1>4, <1>5, <1>6, ArrivesRead
<1>8. Head(b) \in Sound
  BY <1>5, HeadTailProperties
<1>9. SendTo(n, Head(b).idx, Head(b).fd).to = n /\ SendTo(n, Head(b).idx, Head(b).fd).msg = Head(b)
  BY <1>8, SoundSends
<1>10. IF Head(b).fd = None THEN Head(b).idx # pid[n] /\ table[c][Head(b).idx] # <<>>
       ELSE Len(table[c][Head(b).idx]) < MaxVectors
  BY <1>7, <1>9 DEF Takes
<1>11. local[c] = pid[n]
  BY <1>1 DEF LearnInv, IInv, IdsUnique
<1> QED
  BY <1>1, <1>5, <1>10, <1>11 DEF Acceptable

\* The client trusts the server with its table, and closes the connection on
\* a message that does not fit it: no order of events makes the server send one.
THEOREM StaysConnectedTheorem == Spec => []StaysConnected
<1>1. LearnInv /\ TableInv => StaysConnected
  BY TableGivesStays
<1> QED
  BY <1>1, TableAlways, PTL
===============================================================================
