---------------------------- MODULE MembershipProofs --------------------------
(***************************************************************************)
(* Without recycling, the server and its clients implement Membership, for *)
(* any number of connections and clients, whatever sends fail; and a       *)
(* client to which none failed and that has read all that was sent to it   *)
(* knows exactly the present members.                                      *)
(*                                                                         *)
(* The argument is about what is on its way.  For each client and each id, *)
(* the client's table entry followed by the messages about that id in its  *)
(* socket is a history of that id: all that it names have held the id, and *)
(* those before its end have been lost.  Reading a message takes the first *)
(* entry off the history, a new or a lost peer puts one at its end, and a  *)
(* failed send takes one out of the middle.  As long as none has failed,   *)
(* the history also ends with the present holder.                          *)
(***************************************************************************)
EXTENDS IvshmsgServerProofs

-------------------------------------------------------------------------------
(* Histories: f is the table entry, s the messages that are on their way *)

Concerns(m, i) == m.t \in {"peer", "gone"} /\ m.id = i
About(s, k, i) == k = 0 \/ (k \in 1 .. Len(s) /\ Concerns(s[k], i))
Told(f, s, k) == IF k = 0 THEN f ELSE s[k].en

EndsWith(f, s, i, now) == \A k \in 0 .. Len(s) :
    (About(s, k, i) /\ \A j \in (k + 1) .. Len(s) : ~ About(s, j, i)) => Told(f, s, k) = now

Outdated(f, s, i, L) == \A j, k \in 0 .. Len(s) :
    (j < k /\ About(s, j, i) /\ About(s, k, i) /\ Told(f, s, j) \notin {Null, Torn})
        => Told(f, s, j) \in L

Names(f, s, i, P) == \A k \in 0 .. Len(s) :
    (About(s, k, i) /\ Told(f, s, k) \notin {Null, Torn}) => Told(f, s, k) \in P

Past(f, s, i, L, P) == Outdated(f, s, i, L) /\ Names(f, s, i, P)

\* What Append does to the positions of a stream.
LEMMA AppendAbout ==
    ASSUME NEW s \in Seq(Messages), NEW m \in Messages, NEW i
    PROVE  /\ Len(s) \in Nat /\ Len(Append(s, m)) = Len(s) + 1
           /\ \A k \in 0 .. Len(s) : About(Append(s, m), k, i) <=> About(s, k, i)
           /\ About(Append(s, m), Len(s) + 1, i) <=> Concerns(m, i)
<1> DEFINE t == Append(s, m)
<1>1. /\ Len(s) \in Nat /\ Len(t) = Len(s) + 1 /\ t \in Seq(Messages)
      /\ \A j \in 1 .. Len(s) : t[j] = s[j]
      /\ t[Len(s) + 1] = m
  BY AppendProperties, LenProperties
<1> HIDE DEF t
<1>2. \A k \in 0 .. Len(s) : About(t, k, i) <=> About(s, k, i)
  BY <1>1 DEF About
<1>3. About(t, Len(s) + 1, i) <=> Concerns(m, i)
  BY <1>1 DEF About
<1> QED
  BY <1>1, <1>2, <1>3 DEF t

LEMMA AppendTold ==
    ASSUME NEW s \in Seq(Messages), NEW m \in Messages, NEW f
    PROVE  /\ \A k \in 0 .. Len(s) : Told(f, Append(s, m), k) = Told(f, s, k)
           /\ Told(f, Append(s, m), Len(s) + 1) = m.en
<1> DEFINE t == Append(s, m)
<1>1. Len(s) \in Nat /\ (\A j \in 1 .. Len(s) : t[j] = s[j]) /\ t[Len(s) + 1] = m
  BY AppendProperties, LenProperties
<1> HIDE DEF t
<1>2. \A k \in 0 .. Len(s) : Told(f, t, k) = Told(f, s, k)
  BY <1>1 DEF Told
<1>3. Told(f, t, Len(s) + 1) = m.en
  BY <1>1 DEF Told
<1> QED
  BY <1>2, <1>3 DEF t

\* A message about the id becomes the end of its history, when whoever held the
\* id before is lost.
LEMMA HistoryAppend ==
    ASSUME NEW s \in Seq(Messages), NEW m \in Messages, NEW i, NEW f,
           NEW L, NEW P, NEW P2, P \subseteq L, P \subseteq P2, NEW L0,
           Past(f, s, i, L0, P), Concerns(m, i), m.en # Null => m.en \in P2
    PROVE  Past(f, Append(s, m), i, L, P2) /\ EndsWith(f, Append(s, m), i, m.en)
<1> DEFINE t == Append(s, m)
           n == Len(s) + 1
<1>1. /\ Len(s) \in Nat /\ Len(t) = n
      /\ \A k \in 0 .. Len(s) : About(t, k, i) <=> About(s, k, i)
      /\ \A k \in 0 .. Len(s) : Told(f, t, k) = Told(f, s, k)
      /\ About(t, n, i) /\ Told(f, t, n) = m.en
  <2>1. /\ Len(s) \in Nat /\ Len(t) = n
        /\ \A k \in 0 .. Len(s) : About(t, k, i) <=> About(s, k, i)
        /\ About(t, n, i)
    BY AppendAbout, Zenon
  <2>2. (\A k \in 0 .. Len(s) : Told(f, t, k) = Told(f, s, k)) /\ Told(f, t, n) = m.en
    BY AppendTold, Zenon
  <2> QED
    BY <2>1, <2>2
<1> HIDE DEF t
<1>2. \A k \in 0 .. n : k = n \/ k \in 0 .. Len(s)
  BY <1>1
<1>3. \A k \in 0 .. Len(s) : k + 1 <= n /\ k < n /\ k # n
  BY <1>1
<1>4. EndsWith(f, t, i, m.en)
  <2> SUFFICES ASSUME NEW k \in 0 .. n, \A j \in (k + 1) .. n : ~ About(t, j, i)
               PROVE  Told(f, t, k) = m.en
    BY <1>1 DEF EndsWith
  <2>1. k = n
    BY <1>1, <1>2, <1>3
  <2> QED
    BY <1>1, <2>1
<1>5. Outdated(f, t, i, L)
  <2> SUFFICES ASSUME NEW j \in 0 .. n, NEW k \in 0 .. n, j < k, About(t, j, i), About(t, k, i),
                      Told(f, t, j) \notin {Null, Torn}
               PROVE  Told(f, t, j) \in L
    BY <1>1 DEF Outdated
  <2>1. j \in 0 .. Len(s) /\ About(s, j, i) /\ Told(f, t, j) = Told(f, s, j)
    BY <1>1
  <2>2. Told(f, s, j) \in P
    BY <2>1 DEF Past, Names
  <2> QED
    BY <2>1, <2>2
<1>6. Names(f, t, i, P2)
  BY <1>1, <1>2 DEF Past, Names
<1> QED
  BY <1>4, <1>5, <1>6 DEF Past, t

\* A message about another id leaves the history as it is.
LEMMA HistoryKeep ==
    ASSUME NEW s \in Seq(Messages), NEW m \in Messages, NEW i, NEW f, NEW now,
           NEW L, NEW P, NEW L2, NEW P2, L \subseteq L2, P \subseteq P2,
           Past(f, s, i, L, P), ~ Concerns(m, i)
    PROVE  /\ Past(f, Append(s, m), i, L2, P2)
           /\ EndsWith(f, s, i, now) => EndsWith(f, Append(s, m), i, now)
<1> DEFINE t == Append(s, m)
           n == Len(s) + 1
<1>1. /\ Len(s) \in Nat /\ Len(t) = n
      /\ \A k \in 0 .. Len(s) : About(t, k, i) <=> About(s, k, i)
      /\ \A k \in 0 .. Len(s) : Told(f, t, k) = Told(f, s, k)
      /\ ~ About(t, n, i)
  <2>1. /\ Len(s) \in Nat /\ Len(t) = n
        /\ \A k \in 0 .. Len(s) : About(t, k, i) <=> About(s, k, i)
        /\ ~ About(t, n, i)
    BY AppendAbout, Zenon
  <2>2. \A k \in 0 .. Len(s) : Told(f, t, k) = Told(f, s, k)
    BY AppendTold, Zenon
  <2> QED
    BY <2>1, <2>2
<1> HIDE DEF t
<1>2. \A k \in 0 .. n : About(t, k, i) => k \in 0 .. Len(s)
  <2>1. \A k \in 0 .. n : k = n \/ k \in 0 .. Len(s)
    BY <1>1
  <2> QED
    BY <1>1, <2>1
<1>4. ASSUME EndsWith(f, s, i, now) PROVE EndsWith(f, t, i, now)
  <2> SUFFICES ASSUME NEW k \in 0 .. n, About(t, k, i),
                      \A j \in (k + 1) .. n : ~ About(t, j, i)
               PROVE  Told(f, t, k) = now
    BY <1>1 DEF EndsWith
  <2>1. k \in 0 .. Len(s) /\ \A j \in (k + 1) .. Len(s) : ~ About(s, j, i)
    BY <1>1, <1>2
  <2> QED
    BY <1>1, <1>4, <2>1 DEF EndsWith
<1>6. Outdated(f, t, i, L2)
  BY <1>1, <1>2 DEF Past, Outdated
<1>7. Names(f, t, i, P2)
  BY <1>1, <1>2 DEF Past, Names
<1> QED
  BY <1>4, <1>6, <1>7 DEF Past, t

\* Entries taken off a history, or made unreadable, leave one: position k of the
\* new history (g, t) was position p[k] of the old one (f, s).
LEMMA PastThin ==
    ASSUME NEW s \in Seq(Messages), NEW t \in Seq(Messages), NEW i, NEW f, NEW g,
           NEW L, NEW P, Past(f, s, i, L, P),
           NEW p \in [0 .. Len(t) -> 0 .. Len(s)],
           \A j, k \in 0 .. Len(t) : j < k => p[j] < p[k],
           \A k \in 0 .. Len(t) : About(t, k, i) => About(s, p[k], i),
           \A k \in 0 .. Len(t) : Told(g, t, k) \in {Told(f, s, p[k]), Torn}
    PROVE  Past(g, t, i, L, P)
<1>1. \A k \in 0 .. Len(t) : p[k] \in 0 .. Len(s)
  OBVIOUS
<1>2. Outdated(g, t, i, L)
  <2> SUFFICES ASSUME NEW j \in 0 .. Len(t), NEW k \in 0 .. Len(t), j < k, About(t, j, i),
                      About(t, k, i), Told(g, t, j) \notin {Null, Torn}
               PROVE  Told(g, t, j) \in L
    BY DEF Outdated
  <2>1. /\ About(s, p[j], i) /\ p[j] \in 0 .. Len(s) /\ p[j] < p[k]
        /\ About(s, p[k], i) /\ p[k] \in 0 .. Len(s) /\ Told(g, t, j) = Told(f, s, p[j])
    BY <1>1
  <2> QED
    BY <2>1 DEF Past, Outdated
<1>3. Names(g, t, i, P)
  <2> SUFFICES ASSUME NEW k \in 0 .. Len(t), About(t, k, i), Told(g, t, k) \notin {Null, Torn}
               PROVE  Told(g, t, k) \in P
    BY DEF Names
  <2>1. About(s, p[k], i) /\ p[k] \in 0 .. Len(s) /\ Told(g, t, k) = Told(f, s, p[k])
    BY <1>1
  <2> QED
    BY <2>1 DEF Past, Names
<1> QED
  BY <1>2, <1>3 DEF Past

\* Nothing but the beginning is cut off: position k of the new history (g, t)
\* was position p[k] of the old one (f, s).
Cut(p, f, s, g, t, i) ==
    /\ p \in [0 .. Len(t) -> 0 .. Len(s)]
    /\ \A j, k \in 0 .. Len(t) : j < k => p[j] < p[k]
    /\ \A k \in 0 .. Len(t) : About(t, k, i) <=> About(s, p[k], i)
    /\ \A k \in 0 .. Len(t) : Told(g, t, k) = Told(f, s, p[k])
    /\ \A l \in 0 .. Len(s) : (About(s, l, i) /\ l >= p[0]) => \E k \in 0 .. Len(t) : p[k] = l

LEMMA HistoryCut ==
    ASSUME NEW s \in Seq(Messages), NEW t \in Seq(Messages), NEW i, NEW f, NEW g, NEW now,
           NEW L, NEW P, Past(f, s, i, L, P),
           NEW p, Cut(p, f, s, g, t, i)
    PROVE  /\ Past(g, t, i, L, P)
           /\ EndsWith(f, s, i, now) => EndsWith(g, t, i, now)
<1>0. Len(s) \in Nat /\ Len(t) \in Nat
  BY LenProperties
<1> USE DEF Cut
<1>1. \A k \in 0 .. Len(t) : p[k] \in 0 .. Len(s) /\ p[0] <= p[k]
  <2> SUFFICES ASSUME NEW k \in 0 .. Len(t) PROVE p[k] \in 0 .. Len(s) /\ p[0] <= p[k]
    OBVIOUS
  <2>1. 0 \in 0 .. Len(t) /\ (k = 0 \/ 0 < k) /\ p[k] \in 0 .. Len(s) /\ p[0] \in 0 .. Len(s)
    BY <1>0
  <2> QED
    BY <2>1
<1>6. ASSUME EndsWith(f, s, i, now) PROVE EndsWith(g, t, i, now)
  <2> SUFFICES ASSUME NEW k \in 0 .. Len(t), About(t, k, i),
                      \A j \in (k + 1) .. Len(t) : ~ About(t, j, i)
               PROVE  Told(g, t, k) = now
    BY DEF EndsWith
  <2>1. \A l \in (p[k] + 1) .. Len(s) : ~ About(s, l, i)
    <3> SUFFICES ASSUME NEW l \in (p[k] + 1) .. Len(s), About(s, l, i) PROVE FALSE
      OBVIOUS
    <3>1. l \in 0 .. Len(s) /\ p[k] < l /\ l >= p[0]
      <4>1. p[k] \in 0 .. Len(s) /\ p[0] \in 0 .. Len(s) /\ p[0] <= p[k]
        BY <1>0, <1>1
      <4> QED
        BY <1>0, <4>1
    <3>2. PICK q \in 0 .. Len(t) : p[q] = l
      BY <3>1
    <3>3. k < q
      <4>1. q < k => p[q] < p[k]
        OBVIOUS
      <4>2. q # k
        BY <3>1, <3>2
      <4> QED
        BY <1>0, <1>1, <3>1, <3>2, <4>1, <4>2
    <3>4. q \in (k + 1) .. Len(t)
      BY <1>0, <3>3
    <3> QED
      BY <3>2, <3>4
  <2>2. About(s, p[k], i) /\ p[k] \in 0 .. Len(s)
    BY <1>1
  <2>3. Told(f, s, p[k]) = now
    BY <1>6, <2>1, <2>2 DEF EndsWith
  <2> QED
    BY <2>3
<1>7. Past(g, t, i, L, P)
  BY PastThin
<1> QED
  BY <1>6, <1>7

\* Reading a message takes the first entry off the history.
LEMMA HistoryHead ==
    ASSUME NEW s \in Seq(Messages), NEW t \in Seq(Messages), NEW i, NEW f, NEW g, NEW now,
           NEW L, NEW P, Past(f, s, i, L, P),
           Len(s) >= 1, Len(t) = Len(s) - 1, \A j \in 1 .. Len(t) : t[j] = s[j + 1],
           Concerns(s[1], i) => g = s[1].en, ~ Concerns(s[1], i) => g = f
    PROVE  /\ Past(g, t, i, L, P)
           /\ EndsWith(f, s, i, now) => EndsWith(g, t, i, now)
           /\ (Concerns(s[1], i) /\ f \notin {Null, Torn}) => f \in L
<1>0. Len(s) \in Nat /\ Len(t) \in Nat
  BY LenProperties
<1> DEFINE p == [k \in 0 .. Len(t) |-> IF k = 0 /\ ~ Concerns(s[1], i) THEN 0 ELSE k + 1]
<1>1. \A k \in 0 .. Len(t) : p[k] \in 0 .. Len(s) /\ p[k] = IF k = 0 /\ ~ Concerns(s[1], i) THEN 0 ELSE k + 1
  BY <1>0
<1>t. p \in [0 .. Len(t) -> 0 .. Len(s)]
  BY <1>1
<1> HIDE DEF p
<1>2. \A k \in 0 .. Len(t) : About(t, k, i) <=> About(s, p[k], i)
  BY <1>0, <1>1 DEF About
<1>3. \A k \in 0 .. Len(t) : Told(g, t, k) = Told(f, s, p[k])
  BY <1>0, <1>1 DEF Told
<1>4. \A j, k \in 0 .. Len(t) : j < k => p[j] < p[k]
  BY <1>0, <1>1
<1>5. \A l \in 0 .. Len(s) : (About(s, l, i) /\ l >= p[0]) => \E k \in 0 .. Len(t) : p[k] = l
  <2> SUFFICES ASSUME NEW l \in 0 .. Len(s), About(s, l, i), l >= p[0]
               PROVE  \E k \in 0 .. Len(t) : p[k] = l
    OBVIOUS
  <2>1. CASE l = 0
    <3>1. 0 \in 0 .. Len(t) /\ p[0] = 0
      BY <1>0, <1>1, <2>1
    <3> QED
      BY <2>1, <3>1
  <2>2. CASE l # 0
    <3>1. l - 1 \in 0 .. Len(t) /\ (l - 1) + 1 = l
      BY <1>0, <2>2
    <3>2. p[l - 1] = l
      <4>1. l - 1 = 0 => Concerns(s[1], i)
        BY <2>2, <3>1 DEF About
      <4> QED
        BY <1>1, <3>1, <4>1
    <3> QED
      BY <3>1, <3>2
  <2> QED
    BY <2>1, <2>2
<1>c. Cut(p, f, s, g, t, i)
  BY <1>t, <1>2, <1>3, <1>4, <1>5 DEF Cut
<1>6. Past(g, t, i, L, P) /\ (EndsWith(f, s, i, now) => EndsWith(g, t, i, now))
  BY <1>c, HistoryCut
<1>7. ASSUME Concerns(s[1], i), f \notin {Null, Torn} PROVE f \in L
  <2>1. 0 \in 0 .. Len(s) /\ 1 \in 0 .. Len(s) /\ 0 < 1
    BY <1>0
  <2>2. About(s, 0, i) /\ About(s, 1, i) /\ Told(f, s, 0) = f
    BY <1>0, <1>7 DEF About, Told
  <2> QED
    BY <1>7, <2>1, <2>2 DEF Past, Outdated
<1> QED
  BY <1>6, <1>7

\* A client that takes the first three messages: none of them is about a peer.
LEMMA HistoryDrop ==
    ASSUME NEW s \in Seq(Messages), NEW t \in Seq(Messages), NEW i, NEW f, NEW now,
           NEW L, NEW P, Past(f, s, i, L, P),
           Len(s) >= 3, Len(t) = Len(s) - 3, \A j \in 1 .. Len(t) : t[j] = s[j + 3],
           \A k \in 1 .. 3 : ~ Concerns(s[k], i)
    PROVE  /\ Past(f, t, i, L, P)
           /\ EndsWith(f, s, i, now) => EndsWith(f, t, i, now)
<1>0. Len(s) \in Nat /\ Len(t) \in Nat
  BY LenProperties
<1> DEFINE p == [k \in 0 .. Len(t) |-> IF k = 0 THEN 0 ELSE k + 3]
<1>1. \A k \in 0 .. Len(t) : p[k] \in 0 .. Len(s) /\ p[k] = IF k = 0 THEN 0 ELSE k + 3
  BY <1>0
<1>t. p \in [0 .. Len(t) -> 0 .. Len(s)]
  BY <1>1
<1> HIDE DEF p
<1>2. \A k \in 0 .. Len(t) : About(t, k, i) <=> About(s, p[k], i)
  <2> SUFFICES ASSUME NEW k \in 0 .. Len(t) PROVE About(t, k, i) <=> About(s, p[k], i)
    OBVIOUS
  <2>1. CASE k = 0
    BY <1>1, <2>1 DEF About
  <2>2. CASE k # 0
    <3>1. k \in 1 .. Len(t) /\ p[k] = k + 3 /\ k + 3 \in 1 .. Len(s) /\ t[k] = s[k + 3] /\ k + 3 # 0
      BY <1>0, <1>1, <2>2
    <3> QED
      BY <2>2, <3>1 DEF About
  <2> QED
    BY <2>1, <2>2
<1>3. \A k \in 0 .. Len(t) : Told(f, t, k) = Told(f, s, p[k])
  <2> SUFFICES ASSUME NEW k \in 0 .. Len(t) PROVE Told(f, t, k) = Told(f, s, p[k])
    OBVIOUS
  <2>1. CASE k = 0
    BY <1>1, <2>1 DEF Told
  <2>2. CASE k # 0
    <3>1. p[k] = k + 3 /\ t[k] = s[k + 3] /\ k + 3 # 0
      BY <1>0, <1>1, <2>2
    <3> QED
      BY <2>2, <3>1 DEF Told
  <2> QED
    BY <2>1, <2>2
<1>4. \A j, k \in 0 .. Len(t) : j < k => p[j] < p[k]
  BY <1>0, <1>1, SMTT(60)
<1>5. \A l \in 0 .. Len(s) : (About(s, l, i) /\ l >= p[0]) => \E k \in 0 .. Len(t) : p[k] = l
  <2> SUFFICES ASSUME NEW l \in 0 .. Len(s), About(s, l, i)
               PROVE  \E k \in 0 .. Len(t) : p[k] = l
    OBVIOUS
  <2>1. CASE l = 0
    <3>1. 0 \in 0 .. Len(t) /\ p[0] = 0
      BY <1>0, <1>1
    <3> QED
      BY <2>1, <3>1
  <2>2. CASE l \in 1 .. 3
    BY <2>2 DEF About
  <2>3. CASE l > 3
    <3>1. l - 3 \in 0 .. Len(t) /\ l - 3 # 0 /\ (l - 3) + 3 = l
      BY <1>0, <2>3
    <3>2. p[l - 3] = l
      BY <1>1, <3>1
    <3> QED
      BY <3>1, <3>2
  <2> QED
    BY <1>0, <2>1, <2>2, <2>3
<1>6. Cut(p, f, s, f, t, i)
  BY <1>t, <1>2, <1>3, <1>4, <1>5 DEF Cut
<1> QED
  BY <1>6, HistoryCut

\* The history that a new peer is sent: one message about each peer there is.
LEMMA HistoryOnce ==
    ASSUME NEW s \in Seq(Messages), NEW i, NEW now, NEW L, NEW P,
           \A k \in 1 .. Len(s) : Concerns(s[k], i) => s[k].en = now /\ now # Null,
           \A j, k \in 1 .. Len(s) : (Concerns(s[j], i) /\ Concerns(s[k], i)) => j = k,
           now # Null => /\ now \in P
                         /\ \E k \in 1 .. Len(s) : Concerns(s[k], i)
    PROVE  Past(Null, s, i, L, P) /\ EndsWith(Null, s, i, now)
<1>0. Len(s) \in Nat
  BY LenProperties
<1>1. \A k \in 0 .. Len(s) : About(s, k, i) =>
        \/ k = 0 /\ Told(Null, s, k) = Null
        \/ k \in 1 .. Len(s) /\ Concerns(s[k], i) /\ Told(Null, s, k) = now /\ now # Null
  BY <1>0 DEF About, Told
<1>2. \A j, k \in 0 .. Len(s) : (j < k /\ About(s, j, i) /\ About(s, k, i)) =>
        Told(Null, s, j) = Null /\ Told(Null, s, k) # Null
  <2> SUFFICES ASSUME NEW j \in 0 .. Len(s), NEW k \in 0 .. Len(s), j < k,
                      About(s, j, i), About(s, k, i)
               PROVE  Told(Null, s, j) = Null /\ Told(Null, s, k) # Null
    OBVIOUS
  <2>1. k \in 1 .. Len(s) /\ Concerns(s[k], i) /\ Told(Null, s, k) # Null
    BY <1>0, <1>1
  <2>2. j = 0
    BY <1>0, <1>1, <2>1
  <2> QED
    BY <1>1, <2>1, <2>2
<1>3. EndsWith(Null, s, i, now)
  <2> SUFFICES ASSUME NEW k \in 0 .. Len(s), About(s, k, i),
                      \A j \in (k + 1) .. Len(s) : ~ About(s, j, i)
               PROVE  Told(Null, s, k) = now
    BY DEF EndsWith
  <2>1. CASE k = 0
    <3>1. \A j \in 1 .. Len(s) : ~ Concerns(s[j], i)
      BY <2>1 DEF About
    <3> QED
      BY <1>1, <2>1, <3>1
  <2>2. CASE k # 0
    BY <1>1, <2>2
  <2> QED
    BY <2>1, <2>2
<1>5. Outdated(Null, s, i, L)
  BY <1>2 DEF Outdated
<1>6. Names(Null, s, i, P)
  BY <1>1 DEF Names
<1> QED
  BY <1>3, <1>5, <1>6 DEF Past

LEMMA PastMore ==
    ASSUME NEW s, NEW i, NEW f, NEW L, NEW P, NEW L2, NEW P2,
           L \subseteq L2, P \subseteq P2, Past(f, s, i, L, P)
    PROVE  Past(f, s, i, L2, P2)
<1>1. Outdated(f, s, i, L2)
  BY DEF Past, Outdated
<1>2. Names(f, s, i, P2)
  BY DEF Past, Names
<1> QED
  BY <1>1, <1>2 DEF Past

\* A client that has read everything has the present holder in its table.
LEMMA HistoryRead ==
    ASSUME NEW i, NEW f, NEW now, EndsWith(f, <<>>, i, now)
    PROVE  f = now
<1>1. Len(<<>>) = 0 /\ 0 \in 0 .. 0 /\ About(<<>>, 0, i) /\ Told(f, <<>>, 0) = f
  BY DEF About, Told
<1>2. \A j \in (0 + 1) .. 0 : ~ About(<<>>, j, i)
  OBVIOUS
<1> QED
  BY <1>1, <1>2 DEF EndsWith

-------------------------------------------------------------------------------
(* The invariant *)

Lost == {d \in Conns : conn[d] = "lost"}
Holders(i) == {d \in Conns : id[d] = i}
Listening(c) == Alive(c) /\ id[c] \in ClientIds

\* Nothing is kept for a successor, so the eventfds are those of the peer.
PlainInv == /\ \A i \in ClientIds \cup {Rejected} : recycled[i] = Null
            /\ \A c \in Conns : id[c] \in ClientIds => en[c] = c

\* What is on its way to a peer that is there continues what it knows; with the
\* present holder at the end, when no send to it has failed.
Tracks(c) == \A i \in ClientIds :
    /\ Past(cl[c].fd[i], inbox[c], i, Lost, Holders(i))
    /\ c \notin missed => EndsWith(cl[c].fd[i], inbox[c], i, clients[i])

\* The peer's own batch comes after the server's, and ends the first pass.
OwnLast(c) ==
    /\ \A k \in 1 .. Len(inbox[c]) : Concerns(inbox[c][k], id[c]) =>
         \/ cl[c].fd[Server] = Server
         \/ \E j \in 1 .. (k - 1) : inbox[c][j] = Peer(Server, Server)
    /\ ~ cl[c].firstpass => cl[c].fd[Server] = Server

Batches(c) == \A k \in 1 .. Len(inbox[c]) : inbox[c][k].t = "peer" =>
    inbox[c][k].en # Torn /\ (inbox[c][k].id = Server => inbox[c][k].en = Server)

Stream(c) == Tracks(c) /\ (c \notin missed => OwnLast(c) /\ Batches(c))

StreamInv == \A c \in Conns : Listening(c) => conn[c] = "made" /\ Stream(c)

\* id2EN_list is what the socket has told, once the first pass is over; some of
\* it, when a send to the client has failed.
View(c) ==
    /\ \A i \in 1 .. Server :
         /\ cl[c].EN[i] \in {Null, cl[c].fd[i]}
         /\ cl[c].firstpass => cl[c].EN[i] = Null
         /\ (c \notin missed /\ ~ cl[c].firstpass) => cl[c].EN[i] = cl[c].fd[i]
    /\ Starting(c) => cl[c].firstpass /\ \A i \in 1 .. Server : cl[c].fd[i] = Null
    /\ ~ Starting(c) => cl[c].id = id[c]
    /\ id[c] \notin ClientIds => Starting(c) /\ inbox[c] \in {<<>>, <<Version(-1)>>}

ViewInv == \A c \in Conns : proc[c] \in {"none", "up"} => View(c)

MemInv == BaseInv /\ IdInv /\ PlainInv /\ StreamInv /\ ViewInv

LEMMA MemInit == Init => MemInv
<1> SUFFICES ASSUME Init PROVE MemInv
  OBVIOUS
<1>1. BaseInv /\ IdInv
  BY BaseInit, IdInit
<1>2. PlainInv /\ StreamInv
  BY IdFacts DEF Init, PlainInv, StreamInv, Listening
<1>3. ViewInv
  BY IdFacts DEF Init, ViewInv, View, Starting, NewClient
<1> QED
  BY <1>1, <1>2, <1>3 DEF MemInv

-------------------------------------------------------------------------------
(* What a step does to the stream of one client *)

\* Nobody comes back: who was lost stays lost, who had an id had it.
Onwards == /\ Lost \subseteq Lost' /\ missed \subseteq missed'
           /\ \A i \in ClientIds : Holders(i) \subseteq Holders(i)'

LEMMA StreamKeep ==
    ASSUME NEW d \in Conns, Stream(d), Onwards, clients' = clients, id'[d] = id[d],
           inbox'[d] = inbox[d], cl'[d].id = cl[d].id, cl'[d].fd = cl[d].fd,
           cl'[d].firstpass = cl[d].firstpass
    PROVE  Stream(d)'
<1>0. d \notin missed' => d \notin missed
  BY DEF Onwards
<1>1. Tracks(d)'
  <2> SUFFICES ASSUME NEW i \in ClientIds
               PROVE  /\ Past(cl'[d].fd[i], inbox'[d], i, Lost', Holders(i)')
                      /\ d \notin missed' => EndsWith(cl'[d].fd[i], inbox'[d], i, clients'[i])
    BY DEF Tracks
  <2>1. /\ Past(cl[d].fd[i], inbox[d], i, Lost, Holders(i))
        /\ d \notin missed => EndsWith(cl[d].fd[i], inbox[d], i, clients[i])
    BY DEF Stream, Tracks
  <2>2. Lost \subseteq Lost' /\ Holders(i) \subseteq Holders(i)'
    BY DEF Onwards
  <2>3. Past(cl[d].fd[i], inbox[d], i, Lost', Holders(i)')
    BY <2>1, <2>2, PastMore
  <2> QED
    BY <1>0, <2>1, <2>3
<1>2. d \notin missed' => OwnLast(d)' /\ Batches(d)'
  BY <1>0 DEF Stream, OwnLast, Batches
<1> QED
  BY <1>1, <1>2 DEF Stream

\* The server tells a peer of another one that came or went.
LEMMA StreamPush ==
    ASSUME NEW d \in Conns, Stream(d), Onwards, ServerType, NEW m \in Messages,
           inbox'[d] = Append(inbox[d], m), cl'[d] = cl[d], id'[d] = id[d],
           m.t \in {"peer", "gone"}, m.id # id[d],
           m.t = "peer" => m.en # Torn /\ m.id # Server,
           \A i \in ClientIds : i # m.id => clients'[i] = clients[i],
           m.id \in ClientIds =>
             /\ clients'[m.id] = m.en
             /\ Holders(m.id) \subseteq Lost'
             /\ m.en # Null => m.en \in Holders(m.id)'
    PROVE  Stream(d)'
<1> DEFINE s == inbox[d]
           t == inbox'[d]
<1>0. s \in Seq(Messages) /\ (d \notin missed' => d \notin missed)
  BY DEF ServerType, Onwards
<1>1. /\ Len(s) \in Nat /\ Len(t) = Len(s) + 1
      /\ \A k \in 1 .. Len(s) : t[k] = s[k]
      /\ t[Len(s) + 1] = m
  BY <1>0, AppendProperties, LenProperties
<1>2. \A k \in 1 .. Len(t) : k \in 1 .. Len(s) \/ t[k] = m
  BY <1>1
<1>3. Tracks(d)'
  <2> SUFFICES ASSUME NEW i \in ClientIds
               PROVE  /\ Past(cl'[d].fd[i], inbox'[d], i, Lost', Holders(i)')
                      /\ d \notin missed' => EndsWith(cl'[d].fd[i], inbox'[d], i, clients'[i])
    BY DEF Tracks
  <2>1. /\ Past(cl[d].fd[i], s, i, Lost, Holders(i))
        /\ d \notin missed => EndsWith(cl[d].fd[i], s, i, clients[i])
    BY DEF Stream, Tracks
  <2>2. Lost \subseteq Lost' /\ Holders(i) \subseteq Holders(i)'
    BY DEF Onwards
  <2>3. CASE i = m.id
    <3>1. Concerns(m, i)
      BY <2>3 DEF Concerns
    <3>2. /\ clients'[i] = m.en
          /\ Holders(i) \subseteq Lost'
          /\ m.en # Null => m.en \in Holders(i)'
      BY <2>3
    <3>3. /\ Past(cl[d].fd[i], Append(s, m), i, Lost', Holders(i)')
          /\ EndsWith(cl[d].fd[i], Append(s, m), i, m.en)
      BY <1>0, <2>1, <2>2, <3>1, <3>2, HistoryAppend
    <3> QED
      BY <3>2, <3>3
  <2>4. CASE i # m.id
    <3>1. ~ Concerns(m, i)
      BY <2>4 DEF Concerns
    <3>2. /\ Past(cl[d].fd[i], Append(s, m), i, Lost', Holders(i)')
          /\ EndsWith(cl[d].fd[i], s, i, clients[i]) =>
               EndsWith(cl[d].fd[i], Append(s, m), i, clients[i])
      BY <1>0, <2>1, <2>2, <3>1, HistoryKeep
    <3> QED
      BY <1>0, <2>1, <2>4, <3>2
  <2> QED
    BY <2>3, <2>4
<1>4. ASSUME d \notin missed' PROVE OwnLast(d)'
  <2>0. OwnLast(d)
    BY <1>0, <1>4 DEF Stream
  <2> SUFFICES ASSUME NEW k \in 1 .. Len(t), Concerns(t[k], id[d])
               PROVE  \/ cl[d].fd[Server] = Server
                      \/ \E j \in 1 .. (k - 1) : t[j] = Peer(Server, Server)
    BY <2>0 DEF OwnLast
  <2>1. k \in 1 .. Len(s) /\ Concerns(s[k], id[d])
    BY <1>1, <1>2 DEF Concerns
  <2>2. \A j \in 1 .. (k - 1) : t[j] = s[j]
    BY <1>1, <2>1
  <2> QED
    BY <2>0, <2>1, <2>2 DEF OwnLast
<1>5. ASSUME d \notin missed' PROVE Batches(d)'
  <2>1. Batches(d)
    BY <1>0, <1>5 DEF Stream
  <2> QED
    BY <1>1, <1>2, <2>1 DEF Batches
<1> QED
  BY <1>3, <1>4, <1>5 DEF Stream

\* What the server advertises to a new peer: every peer it has, once.
LEMMA OtherFacts ==
    ASSUME MemInv
    PROVE  /\ \A m \in OtherPeers : \E q \in ClientIds :
                clients[q] \in Conns /\ m = Peer(q, clients[q])
           /\ \A q \in ClientIds : clients[q] # Null => Peer(q, clients[q]) \in OtherPeers
<1>1. \A q \in ClientIds : clients[q] # Null => clients[q] \in Conns /\ en[clients[q]] = clients[q]
  BY DEF MemInv, IdInv, TableType, MemberInv, PlainInv
<1>2. \A q \in ClientIds : q \notin Available <=> clients[q] # Null
  BY DEF Available
<1> QED
  BY <1>1, <1>2 DEF OtherPeers

\* The server introduces a new peer to all that are there.
LEMMA StreamIntro ==
    ASSUME MemInv, NEW c \in Conns, NEW i \in ClientIds, clients[i] = Null, id[c] = NoId,
           NEW others \in SetToSeqs(OtherPeers), others \in Seq(Messages),
           inbox'[c] = Intro(c, i, c, others), id' = [id EXCEPT ![c] = i], cl' = cl,
           clients' = [clients EXCEPT ![i] = c], View(c)
    PROVE  Stream(c)'
<1> USE IdFacts, IdRanges
<1> DEFINE s == inbox'[c]
           n == Len(others)
<1>1. /\ s \in Seq(Messages) /\ n \in Nat /\ Len(s) = n + 5
      /\ s[1] = Version(0) /\ s[2] = YourId(i) /\ s[3] = Mailbox
      /\ \A k \in 1 .. n : s[k + 3] = others[k]
      /\ s[n + 4] = Peer(Server, Server) /\ s[n + 5] = Peer(i, c)
  <2>1. c \in Fds
    BY DEF Fds
  <2> QED
    BY <2>1, IntroShape
<1>2. Starting(c) /\ cl[c].firstpass /\ \A j \in 1 .. Server : cl[c].fd[j] = Null
  BY DEF View
<1>3. /\ id'[c] = i /\ clients'[i] = c
      /\ \A j \in ClientIds \ {i} : clients'[j] = clients[j]
  BY DEF MemInv, IdInv, TableType
<1>4. \A k \in 1 .. n : \E q \in ClientIds \ {i} :
        clients[q] \in Conns /\ others[k] = Peer(q, clients[q])
  <2> SUFFICES ASSUME NEW k \in 1 .. n
               PROVE  \E q \in ClientIds \ {i} : clients[q] \in Conns /\ others[k] = Peer(q, clients[q])
    OBVIOUS
  <2>1. others[k] \in OtherPeers
    BY Others, ElementOfSeq
  <2>2. PICK q \in ClientIds : clients[q] \in Conns /\ others[k] = Peer(q, clients[q])
    BY <2>1, OtherFacts
  <2>3. q # i
    BY <2>2
  <2> QED
    BY <2>2, <2>3
<1> HIDE DEF s
\* The four parts of the introduction.
<1>5. \A k \in 1 .. Len(s) :
        \/ k \in 1 .. 3 /\ s[k].t \notin {"peer", "gone"}
        \/ k - 3 \in 1 .. n /\ s[k] = others[k - 3]
        \/ k = n + 4 \/ k = n + 5
  <2>1. \A k \in 1 .. 3 : s[k].t \notin {"peer", "gone"}
    <3>1. \A k \in 1 .. 3 : k = 1 \/ k = 2 \/ k = 3
      OBVIOUS
    <3> QED
      BY <1>1, <3>1 DEF Version, YourId, Mailbox, Msg
  <2>2. \A k \in 1 .. Len(s) : k \in 1 .. 3 \/ k - 3 \in 1 .. n \/ k = n + 4 \/ k = n + 5
    BY <1>1, SMTT(60)
  <2>3. \A k \in 1 .. Len(s) : k - 3 \in 1 .. n => s[k] = others[k - 3]
    <3> SUFFICES ASSUME NEW k \in 1 .. Len(s), k - 3 \in 1 .. n PROVE s[k] = others[k - 3]
      OBVIOUS
    <3>1. (k - 3) + 3 = k
      BY <1>1
    <3> QED
      BY <1>1, <3>1
  <2> QED
    BY <2>1, <2>2, <2>3
<1>6. Tracks(c)'
  <2> SUFFICES ASSUME NEW j \in ClientIds
               PROVE  /\ Past(cl'[c].fd[j], inbox'[c], j, Lost', Holders(j)')
                      /\ EndsWith(cl'[c].fd[j], inbox'[c], j, clients'[j])
    BY DEF Tracks
  <2>1. \A k \in 1 .. Len(s) : Concerns(s[k], j) =>
          \/ j = i /\ k = n + 5
          \/ j # i /\ k - 3 \in 1 .. n /\ s[k] = others[k - 3] /\ s[k] = Peer(j, clients[j])
             /\ clients[j] \in Conns
    <3> SUFFICES ASSUME NEW k \in 1 .. Len(s), Concerns(s[k], j)
                 PROVE  \/ j = i /\ k = n + 5
                        \/ /\ j # i /\ k - 3 \in 1 .. n /\ s[k] = others[k - 3]
                           /\ s[k] = Peer(j, clients[j]) /\ clients[j] \in Conns
      OBVIOUS
    <3>1. CASE k = n + 4
      BY <1>1, <3>1 DEF Concerns, Peer, Msg
    <3>2. CASE k = n + 5
      BY <1>1, <3>2 DEF Concerns, Peer, Msg
    <3>3. CASE k - 3 \in 1 .. n /\ s[k] = others[k - 3]
      <4>1. PICK q \in ClientIds \ {i} : clients[q] \in Conns /\ s[k] = Peer(q, clients[q])
        BY <1>4, <3>3
      <4>2. q = j
        BY <4>1 DEF Concerns, Peer, Msg
      <4> QED
        BY <3>3, <4>1, <4>2
    <3> QED
      BY <1>5, <3>1, <3>2, <3>3 DEF Concerns
  <2>2. \A k \in 1 .. Len(s) : Concerns(s[k], j) => s[k].en = clients'[j] /\ clients'[j] # Null
    BY <1>1, <1>3, <2>1 DEF Peer, Msg
  <2>3. \A k, l \in 1 .. Len(s) : (Concerns(s[k], j) /\ Concerns(s[l], j)) => k = l
    <3> SUFFICES ASSUME NEW k \in 1 .. Len(s), NEW l \in 1 .. Len(s),
                        Concerns(s[k], j), Concerns(s[l], j)
                 PROVE  k = l
      OBVIOUS
    <3>1. CASE j = i
      BY <2>1, <3>1
    <3>2. CASE j # i
      <4>1. k - 3 \in 1 .. n /\ l - 3 \in 1 .. n /\ others[k - 3] = others[l - 3]
        BY <2>1, <3>2
      <4>2. \A x, y \in 1 .. n : x # y => others[x] # others[y]
        BY Others
      <4>3. k - 3 = l - 3
        BY <4>1, <4>2
      <4> QED
        BY <1>1, <4>3
    <3> QED
      BY <3>1, <3>2
  <2>4. clients'[j] # Null => clients'[j] \in Holders(j)'
    <3>1. \A q \in ClientIds : clients[q] # Null =>
            clients[q] \in Conns /\ id[clients[q]] = q
      BY DEF MemInv, IdInv, TableType, MemberInv
    <3> QED
      BY <1>3, <3>1 DEF Holders, MemInv, IdInv, TableType
  <2>5. clients'[j] # Null => \E k \in 1 .. Len(s) : Concerns(s[k], j)
    <3>1. CASE j = i
      <4>1. n + 5 \in 1 .. Len(s) /\ Concerns(s[n + 5], i)
        BY <1>1 DEF Concerns, Peer, Msg
      <4> QED
        BY <3>1, <4>1
    <3>2. CASE j # i
      <4> SUFFICES ASSUME clients[j] # Null PROVE \E k \in 1 .. Len(s) : Concerns(s[k], j)
        BY <1>3, <3>2
      <4>1. PICK k \in 1 .. n : others[k] = Peer(j, clients[j])
        BY Others, OtherFacts
      <4>2. k + 3 \in 1 .. Len(s) /\ s[k + 3] = Peer(j, clients[j])
        BY <1>1, <4>1
      <4>3. Concerns(s[k + 3], j)
        BY <4>2 DEF Concerns, Peer, Msg
      <4> QED
        BY <4>2, <4>3
    <3> QED
      BY <3>1, <3>2
  <2>6. Past(Null, s, j, Lost', Holders(j)') /\ EndsWith(Null, s, j, clients'[j])
    BY <1>1, <2>2, <2>3, <2>4, <2>5, HistoryOnce
  <2>7. cl'[c].fd[j] = Null
    BY <1>2
  <2> QED
    BY <2>6, <2>7 DEF s
<1>7. OwnLast(c)'
  <2> SUFFICES ASSUME NEW k \in 1 .. Len(s), Concerns(s[k], i)
               PROVE  \E j \in 1 .. (k - 1) : s[j] = Peer(Server, Server)
    BY <1>2, <1>3 DEF OwnLast, s
  <2>1. k = n + 5
    <3>1. CASE k - 3 \in 1 .. n /\ s[k] = others[k - 3]
      <4>1. PICK q \in ClientIds \ {i} : s[k] = Peer(q, clients[q])
        BY <1>4, <3>1
      <4> QED
        BY <4>1 DEF Concerns, Peer, Msg
    <3>2. CASE k = n + 4
      BY <1>1, <3>2 DEF Concerns, Peer, Msg
    <3> QED
      BY <1>5, <3>1, <3>2 DEF Concerns
  <2>2. n + 4 \in 1 .. (k - 1)
    BY <1>1, <2>1
  <2> QED
    BY <1>1, <2>2
<1>8. Batches(c)'
  <2> SUFFICES ASSUME NEW k \in 1 .. Len(s), s[k].t = "peer"
               PROVE  s[k].en # Torn /\ (s[k].id = Server => s[k].en = Server)
    BY DEF Batches, s
  <2>1. CASE k = n + 4
    BY <1>1, <2>1, TornAssumption DEF Peer, Msg
  <2>2. CASE k = n + 5
    BY <1>1, <2>2, TornAssumption DEF Peer, Msg
  <2>3. CASE k - 3 \in 1 .. n /\ s[k] = others[k - 3]
    <3>1. PICK q \in ClientIds \ {i} : clients[q] \in Conns /\ s[k] = Peer(q, clients[q])
      BY <1>4, <2>3
    <3> QED
      BY <3>1, TornAssumption DEF Peer, Msg
  <2> QED
    BY <1>5, <2>1, <2>2, <2>3
<1> QED
  BY <1>6, <1>7, <1>8 DEF Stream

\* A client reads a message about a peer.
LEMMA StreamRead ==
    ASSUME ServerType, NEW c \in Conns, Stream(c), id[c] \in ClientIds,
           UNCHANGED <<conn, id, clients, missed>>,
           NEW m, m = inbox[c][1], m \in Messages, m.t \in {"peer", "gone"}, m.id \in 1 .. Server,
           inbox'[c] \in Seq(Messages), Len(inbox[c]) >= 1,
           Len(inbox'[c]) = Len(inbox[c]) - 1,
           \A j \in 1 .. Len(inbox'[c]) : inbox'[c][j] = inbox[c][j + 1],
           cl'[c].fd = [cl[c].fd EXCEPT ![m.id] = m.en],
           ~ cl'[c].firstpass => ~ cl[c].firstpass \/ m.id = id[c]
    PROVE  /\ Stream(c)'
           /\ (m.id \in ClientIds /\ cl[c].fd[m.id] \notin {Null, Torn}) => cl[c].fd[m.id] \in Lost
<1> USE IdRanges
<1> DEFINE s == inbox[c]
           t == inbox'[c]
<1>0. s \in Seq(Messages) /\ Len(s) \in Nat /\ Len(t) \in Nat /\ cl[c].fd \in [1 .. Server -> Fds]
  BY LenProperties DEF ServerType, ClientType, Fds
<1>1. \A i \in 1 .. Server : cl'[c].fd[i] = IF Concerns(s[1], i) THEN s[1].en ELSE cl[c].fd[i]
  BY <1>0 DEF Concerns
<1>2. \A i \in ClientIds :
        /\ Past(cl'[c].fd[i], t, i, Lost, Holders(i))
        /\ EndsWith(cl[c].fd[i], s, i, clients[i]) => EndsWith(cl'[c].fd[i], t, i, clients[i])
        /\ (Concerns(s[1], i) /\ cl[c].fd[i] \notin {Null, Torn}) => cl[c].fd[i] \in Lost
  <2> SUFFICES ASSUME NEW i \in ClientIds
               PROVE  /\ Past(cl'[c].fd[i], t, i, Lost, Holders(i))
                      /\ EndsWith(cl[c].fd[i], s, i, clients[i]) =>
                           EndsWith(cl'[c].fd[i], t, i, clients[i])
                      /\ (Concerns(s[1], i) /\ cl[c].fd[i] \notin {Null, Torn}) => cl[c].fd[i] \in Lost
    OBVIOUS
  <2>1. Past(cl[c].fd[i], s, i, Lost, Holders(i))
    BY DEF Stream, Tracks
  <2>2. cl'[c].fd[i] = IF Concerns(s[1], i) THEN s[1].en ELSE cl[c].fd[i]
    BY <1>1
  <2>3. /\ s \in Seq(Messages) /\ t \in Seq(Messages) /\ Len(s) >= 1 /\ Len(t) = Len(s) - 1
        /\ \A j \in 1 .. Len(t) : t[j] = s[j + 1]
    BY <1>0
  <2> DEFINE f == cl[c].fd[i]
             g == cl'[c].fd[i]
             now == clients[i]
             P == Holders(i)
  <2>4. /\ Past(f, s, i, Lost, P)
        /\ (Concerns(s[1], i) => g = s[1].en) /\ (~ Concerns(s[1], i) => g = f)
    BY <2>1, <2>2
  <2> HIDE DEF s, t, f, g, now, P
  <2>5. /\ Past(g, t, i, Lost, P)
        /\ EndsWith(f, s, i, now) => EndsWith(g, t, i, now)
        /\ (Concerns(s[1], i) /\ f \notin {Null, Torn}) => f \in Lost
    BY <2>3, <2>4, HistoryHead, Zenon
  <2> QED
    BY <2>5 DEF f, g, now, P
<1>3. Tracks(c)'
  <2>1. Lost' = Lost /\ \A i \in ClientIds : Holders(i)' = Holders(i)
    BY DEF Lost, Holders
  <2>2. \A i \in ClientIds : c \notin missed => EndsWith(cl[c].fd[i], s, i, clients[i])
    BY DEF Stream, Tracks
  <2> QED
    BY <1>2, <2>1, <2>2 DEF Tracks
<1>4. ASSUME c \notin missed PROVE OwnLast(c)' /\ Batches(c)'
  <2>0. OwnLast(c) /\ Batches(c)
    BY <1>4 DEF Stream
  <2>1. m.id = Server => m.en = Server
    <3>1. m.id = Server => m.t = "peer"
      BY DEF Messages
    <3>2. 1 \in 1 .. Len(s)
      BY <1>0
    <3> QED
      BY <2>0, <3>1, <3>2 DEF Batches
  <2>2. cl[c].fd[Server] = Server => cl'[c].fd[Server] = Server
    BY <1>0, <2>1
  <2>3. ASSUME NEW k \in 1 .. Len(t), Concerns(t[k], id[c])
        PROVE  cl'[c].fd[Server] = Server \/ \E j \in 1 .. (k - 1) : t[j] = Peer(Server, Server)
    <3>1. k + 1 \in 1 .. Len(s) /\ t[k] = s[k + 1] /\ Concerns(s[k + 1], id[c])
      BY <1>0, <2>3
    <3>2. CASE cl[c].fd[Server] = Server
      BY <2>2, <3>2
    <3>3. CASE \E j \in 1 .. ((k + 1) - 1) : s[j] = Peer(Server, Server)
      <4>1. PICK j \in 1 .. ((k + 1) - 1) : s[j] = Peer(Server, Server)
        BY <3>3
      <4>2. CASE j = 1
        <5>1. m.id = Server
          BY <4>1, <4>2 DEF Peer, Msg
        <5> QED
          BY <1>0, <2>1, <5>1
      <4>3. CASE j # 1
        <5>1. j - 1 \in 1 .. (k - 1) /\ j - 1 \in 1 .. Len(t) /\ (j - 1) + 1 = j
          BY <1>0, <4>3
        <5>2. t[j - 1] = s[j]
          BY <5>1
        <5> QED
          BY <4>1, <5>1, <5>2
      <4> QED
        BY <4>2, <4>3
    <3> QED
      BY <2>0, <3>1, <3>2, <3>3 DEF OwnLast
  <2>4. ASSUME ~ cl'[c].firstpass PROVE cl'[c].fd[Server] = Server
    <3>1. CASE ~ cl[c].firstpass
      BY <2>0, <2>2, <3>1 DEF OwnLast
    <3>2. CASE m.id = id[c]
      <4>1. 1 \in 1 .. Len(s) /\ Concerns(s[1], id[c])
        BY <1>0, <3>2 DEF Concerns
      <4>2. ~ \E j \in 1 .. (1 - 1) : s[j] = Peer(Server, Server)
        OBVIOUS
      <4> QED
        BY <2>0, <2>2, <4>1, <4>2 DEF OwnLast
    <3> QED
      BY <2>4, <3>1, <3>2
  <2>5. OwnLast(c)'
    BY <2>3, <2>4 DEF OwnLast
  <2>6. ASSUME NEW k \in 1 .. Len(t), t[k].t = "peer"
        PROVE  t[k].en # Torn /\ (t[k].id = Server => t[k].en = Server)
    <3>1. k + 1 \in 1 .. Len(s) /\ t[k] = s[k + 1]
      BY <1>0
    <3> QED
      BY <2>0, <2>6, <3>1 DEF Batches
  <2> QED
    BY <2>5, <2>6 DEF Batches
<1>9. m.id \in ClientIds => Concerns(s[1], m.id)
  BY DEF Concerns
<1> QED
  BY <1>2, <1>3, <1>4, <1>9 DEF Stream

\* A client reads the version, its id and the mailbox descriptor.
LEMMA StreamDrop ==
    ASSUME ServerType, NEW c \in Conns, Stream(c), id[c] \in ClientIds,
           UNCHANGED <<conn, id, clients, missed>>,
           3 <= Len(inbox[c]), \A k \in 1 .. 3 : inbox[c][k].t \notin {"peer", "gone"},
           inbox'[c] \in Seq(Messages), Len(inbox'[c]) = Len(inbox[c]) - 3,
           \A j \in 1 .. Len(inbox'[c]) : inbox'[c][j] = inbox[c][j + 3],
           cl'[c].fd = cl[c].fd, cl'[c].firstpass = cl[c].firstpass
    PROVE  Stream(c)'
<1> DEFINE s == inbox[c]
           t == inbox'[c]
<1>0. s \in Seq(Messages) /\ Len(s) \in Nat /\ Len(t) \in Nat /\ Len(s) >= 3
  BY LenProperties DEF ServerType
<1>1. \A k \in 1 .. 3 : s[k].t \notin {"peer", "gone"}
  OBVIOUS
<1>2. Tracks(c)'
  <2> SUFFICES ASSUME NEW i \in ClientIds
               PROVE  /\ Past(cl[c].fd[i], t, i, Lost, Holders(i))
                      /\ c \notin missed => EndsWith(cl[c].fd[i], t, i, clients[i])
    BY DEF Tracks, Lost, Holders
  <2>1. /\ Past(cl[c].fd[i], s, i, Lost, Holders(i))
        /\ c \notin missed => EndsWith(cl[c].fd[i], s, i, clients[i])
    BY DEF Stream, Tracks
  <2>2. \A k \in 1 .. 3 : ~ Concerns(s[k], i)
    BY <1>1 DEF Concerns
  <2>3. t \in Seq(Messages) /\ Len(t) = Len(s) - 3 /\ \A j \in 1 .. Len(t) : t[j] = s[j + 3]
    OBVIOUS
  <2> HIDE DEF s, t
  <2>4. /\ Past(cl[c].fd[i], t, i, Lost, Holders(i))
        /\ EndsWith(cl[c].fd[i], s, i, clients[i]) => EndsWith(cl[c].fd[i], t, i, clients[i])
    BY <1>0, <2>1, <2>2, <2>3, HistoryDrop
  <2> QED
    BY <2>1, <2>4
<1>3. ASSUME c \notin missed PROVE OwnLast(c)' /\ Batches(c)'
  <2>0. OwnLast(c) /\ Batches(c)
    BY <1>3 DEF Stream
  <2>1. ASSUME NEW k \in 1 .. Len(t), Concerns(t[k], id[c])
        PROVE  cl[c].fd[Server] = Server \/ \E j \in 1 .. (k - 1) : t[j] = Peer(Server, Server)
    <3>1. k + 3 \in 1 .. Len(s) /\ Concerns(s[k + 3], id[c])
      <4>1. k + 3 \in 1 .. Len(s) /\ t[k] = s[k + 3]
        BY <1>0, <1>1
      <4> QED
        BY <2>1, <4>1
    <3>2. CASE \E j \in 1 .. ((k + 3) - 1) : s[j] = Peer(Server, Server)
      <4>1. PICK j \in 1 .. ((k + 3) - 1) : s[j] = Peer(Server, Server)
        BY <3>2
      <4>2. j \notin 1 .. 3
        BY <1>1, <4>1 DEF Peer, Msg
      <4>3. j - 3 \in 1 .. (k - 1) /\ j - 3 \in 1 .. Len(t) /\ (j - 3) + 3 = j
        <5>1. j \in Nat /\ 3 < j /\ k \in Nat /\ k <= Len(t) /\ j <= k + 2
          BY <1>0, <4>2
        <5> QED
          BY <1>0, <5>1
      <4>4. t[j - 3] = s[j]
        BY <4>3
      <4> QED
        BY <4>1, <4>3, <4>4
    <3> QED
      BY <2>0, <3>1, <3>2 DEF OwnLast
  <2>2. ASSUME NEW k \in 1 .. Len(t), t[k].t = "peer"
        PROVE  t[k].en # Torn /\ (t[k].id = Server => t[k].en = Server)
    <3>1. k + 3 \in 1 .. Len(s) /\ t[k] = s[k + 3]
      BY <1>0
    <3> QED
      BY <2>0, <2>2, <3>1 DEF Batches
  <2> QED
    BY <2>0, <2>1, <2>2 DEF OwnLast, Batches
<1> QED
  BY <1>2, <1>3 DEF Stream

\* A send fails: something is missing from the history, and the client is one of
\* those of which nothing more is said.
LEMMA StreamLoss ==
    ASSUME ServerType, NEW c \in Conns, NEW k \in 1 .. Len(inbox[c]), SendFails(c, k), Stream(c)
    PROVE  Stream(c)'
<1> DEFINE s == inbox[c]
           t == inbox'[c]
           p == [j \in 0 .. Len(t) |-> IF j = 0 THEN 0 ELSE Before(c, j, k)]
<1>1. /\ c \in missed' /\ UNCHANGED <<conn, id, cl>>
      /\ s \in Seq(Messages) /\ t \in Seq(Messages)
      /\ \A j \in 1 .. Len(t) :
           /\ Before(c, j, k) \in 1 .. Len(s)
           /\ t[j].t = s[Before(c, j, k)].t /\ t[j].id = s[Before(c, j, k)].id
           /\ t[j] = s[Before(c, j, k)] \/ t[j].en = Torn
  BY SendFacts DEF ServerType
<1>2. Len(s) \in Nat /\ Len(t) \in Nat
  BY <1>1, LenProperties
<1> HIDE DEF s, t
<1>3. \A j \in 0 .. Len(t) : /\ j = 0 \/ j \in 1 .. Len(t)
                             /\ p[j] = IF j = 0 THEN 0 ELSE Before(c, j, k)
                             /\ p[j] \in 0 .. Len(s)
  BY <1>1, <1>2
<1>4. p \in [0 .. Len(t) -> 0 .. Len(s)]
  BY <1>3
<1> HIDE DEF p
<1>5. ASSUME NEW j \in 0 .. Len(t), NEW l \in 0 .. Len(t), j < l PROVE p[j] < p[l]
  <2>1. l # 0 /\ l \in 1 .. Len(t) /\ p[l] = Before(c, l, k) /\ p[l] \in 1 .. Len(s)
    BY <1>1, <1>2, <1>3, <1>5
  <2>2. CASE j = 0
    BY <1>2, <1>3, <2>1, <2>2
  <2>3. CASE j # 0
    <3>1. p[j] = Before(c, j, k) /\ j \in Nat /\ l \in Nat /\ k \in Nat
      BY <1>2, <1>3, <2>3
    <3> QED
      BY <1>5, <2>1, <3>1 DEF Before
  <2> QED
    BY <2>2, <2>3
<1>6. ASSUME NEW i \in ClientIds PROVE Past(cl[c].fd[i], t, i, Lost, Holders(i))
  <2>1. Past(cl[c].fd[i], s, i, Lost, Holders(i))
    BY DEF Stream, Tracks, s
  <2>2. ASSUME NEW j \in 0 .. Len(t), About(t, j, i) PROVE About(s, p[j], i)
    BY <1>1, <1>3, <2>2 DEF About, Concerns
  <2>3. \A j \in 0 .. Len(t) : Told(cl[c].fd[i], t, j) \in {Told(cl[c].fd[i], s, p[j]), Torn}
    <3> SUFFICES ASSUME NEW j \in 0 .. Len(t)
                 PROVE  Told(cl[c].fd[i], t, j) \in {Told(cl[c].fd[i], s, p[j]), Torn}
      OBVIOUS
    <3>1. CASE j = 0
      BY <1>3, <3>1 DEF Told
    <3>2. CASE j # 0
      <4>1. j \in 1 .. Len(t) /\ p[j] = Before(c, j, k) /\ p[j] \in 1 .. Len(s) /\ p[j] # 0
        BY <1>1, <1>2, <1>3, <3>2
      <4> QED
        BY <1>1, <3>2, <4>1 DEF Told
    <3> QED
      BY <3>1, <3>2
  <2> QED
    BY <1>1, <1>4, <1>5, <2>1, <2>2, <2>3, PastThin
<1>7. Lost' = Lost /\ \A i \in ClientIds : Holders(i)' = Holders(i)
  BY <1>1 DEF Lost, Holders
<1> QED
  BY <1>1, <1>6, <1>7 DEF Stream, Tracks, t

-------------------------------------------------------------------------------
(* Every step keeps the invariant *)

LEMMA MemFacts ==
    ASSUME MemInv
    PROVE  /\ ServerType /\ FreshInv /\ HeadInv /\ TableType /\ NewInv /\ MemberInv
           /\ \A d \in Conns : Listening(d) =>
                conn[d] = "made" /\ Stream(d) /\ clients[id[d]] = d /\ d \in Members
           /\ \A d \in Members : d \in Conns /\ id[d] \in ClientIds /\ clients[id[d]] = d
           /\ \A d \in Conns : proc[d] \in {"none", "up"} => View(d)
           /\ \A d \in Conns : Alive(d) /\ ~ Starting(d) => Listening(d) /\ cl[d].id = id[d]
<1>1. ServerType /\ FreshInv /\ HeadInv /\ TableType /\ NewInv /\ MemberInv
  BY DEF MemInv, BaseInv, IdInv
<1>2. \A d \in Conns : Listening(d) =>
        conn[d] = "made" /\ Stream(d) /\ clients[id[d]] = d /\ d \in Members
  <2> SUFFICES ASSUME NEW d \in Conns, Listening(d)
               PROVE  conn[d] = "made" /\ Stream(d) /\ clients[id[d]] = d /\ d \in Members
    OBVIOUS
  <2>1. conn[d] = "made" /\ Stream(d) /\ id[d] \in ClientIds
    BY DEF MemInv, StreamInv, Listening
  <2>2. clients[id[d]] = d /\ d # Null
    BY <1>1, <2>1, IdFacts DEF MemberInv
  <2> QED
    BY <2>1, <2>2 DEF Members
<1>3. \A d \in Members : d \in Conns /\ id[d] \in ClientIds /\ clients[id[d]] = d
  BY <1>1 DEF Members, MemberInv, TableType
<1>4. \A d \in Conns : proc[d] \in {"none", "up"} => View(d)
  BY DEF MemInv, ViewInv
<1>5. \A d \in Conns : Alive(d) /\ ~ Starting(d) => Listening(d) /\ cl[d].id = id[d]
  BY <1>4 DEF Alive, Listening, View
<1> QED
  BY <1>1, <1>2, <1>3, <1>4, <1>5

LEMMA StreamCollect ==
    ASSUME \A d \in Conns : Listening(d)' => conn'[d] = "made" /\ Stream(d)'
    PROVE  StreamInv'
  BY DEF StreamInv

LEMMA MadeStep ==
    ASSUME ~ Recycle, MemInv, NEW c \in Conns, NEW i \in ClientIds \cup {Rejected},
           NEW ok \in BOOLEAN, ConnectionMade(c, i, ok)
    PROVE  PlainInv' /\ StreamInv' /\ ViewInv'
<1> USE IdFacts, IdRanges
<1>f. /\ ServerType /\ FreshInv /\ MemberInv
      /\ \A d \in Conns : Listening(d) =>
           conn[d] = "made" /\ Stream(d) /\ clients[id[d]] = d /\ d \in Members
      /\ \A d \in Members : d \in Conns /\ id[d] \in ClientIds /\ clients[id[d]] = d
      /\ \A d \in Conns : proc[d] \in {"none", "up"} => View(d)
  BY MemFacts
<1>0. /\ conn[c] = "new" /\ id[c] = NoId /\ Alive(c) /\ i \in NewIds /\ View(c)
      /\ conn' = [conn EXCEPT ![c] = "made"] /\ UNCHANGED <<named, proc, cl, missed>>
      /\ recycled' = [recycled EXCEPT ![i] = Null]
  <2>1. conn[c] = "new" /\ proc[c] # "none" /\ i \in NewIds
        /\ conn' = [conn EXCEPT ![c] = "made"] /\ UNCHANGED <<named, proc, cl, missed>>
        /\ recycled' = [recycled EXCEPT ![i] = Null]
    BY DEF ConnectionMade
  <2>2. proc[c] \in {"none", "up"} /\ id[c] = NoId
    BY <2>1 DEF MemInv, IdInv, NewInv
  <2> QED
    BY <1>f, <2>1, <2>2 DEF Alive
<1>1. /\ \A j \in ClientIds \cup {Rejected} : recycled[j] = Null /\ recycled'[j] = Null
      /\ \A d \in Conns : id[d] \in ClientIds => en[d] = d
  BY <1>0, <1>f DEF MemInv, PlainInv, ServerType
<1>2. Lost' = Lost
  BY <1>0, <1>f DEF Lost, ServerType
<1>3. CASE Refuse(c)
  <2>1. /\ id' = [id EXCEPT ![c] = Rejected] /\ en' = en /\ clients' = clients
        /\ inbox' = [inbox EXCEPT ![c] = <<Version(-1)>>]
    BY <1>3 DEF Refuse
  <2>2. PlainInv'
    BY <1>0, <1>1, <2>1, <1>f DEF PlainInv, ServerType
  <2>3. Onwards
    BY <1>0, <1>2, <2>1, <1>f DEF Onwards, Holders, ServerType
  <2>4. \A d \in Conns \ {c} : id'[d] = id[d] /\ inbox'[d] = inbox[d] /\ conn'[d] = conn[d]
    BY <1>0, <1>f, <2>1 DEF ServerType
  <2>5. id'[c] = Rejected /\ inbox'[c] = <<Version(-1)>>
    BY <1>f, <2>1 DEF ServerType
  <2>6. StreamInv'
    <3> SUFFICES ASSUME NEW d \in Conns, Listening(d)'
                 PROVE  conn'[d] = "made" /\ Stream(d)'
      BY StreamCollect
    <3>1. d # c
      BY <2>5 DEF Listening
    <3>2. Listening(d)
      BY <1>0, <2>4, <3>1 DEF Listening, Alive
    <3>3. Stream(d)'
      BY <1>0, <1>f, <2>1, <2>3, <2>4, <3>1, <3>2, StreamKeep
    <3> QED
      BY <1>f, <2>4, <3>1, <3>2, <3>3
  <2>7. ViewInv'
    <3> SUFFICES ASSUME NEW d \in Conns, proc[d] \in {"none", "up"} PROVE View(d)'
      BY <1>0 DEF ViewInv
    <3>1. View(d)
      BY <1>f
    <3>2. CASE d = c
      BY <1>0, <2>5, <3>1, <3>2 DEF View, Starting
    <3>3. CASE d # c
      BY <1>0, <2>4, <3>1, <3>3 DEF View, Starting
    <3> QED
      BY <3>2, <3>3
  <2> QED
    BY <2>2, <2>6, <2>7
<1>4. CASE i # Rejected /\ Admit(c, i)
  <2>0. i \in ClientIds /\ clients[i] = Null
    BY <1>0, <1>4
  <2>1. PICK e \in Conns \cup {Null}, others \in SetToSeqs(OtherPeers) :
             /\ e = IF recycled[i] # Null THEN en[recycled[i]] ELSE c
             /\ id' = [id EXCEPT ![c] = i] /\ en' = [en EXCEPT ![c] = e]
             /\ clients' = [clients EXCEPT ![i] = c]
             /\ others \in Seq(Messages)
             /\ inbox' \in [Conns -> Seq(Messages)]
             /\ inbox'[c] = Intro(c, i, e, others)
             /\ \A d \in Conns \ {c} :
                  inbox'[d] = IF d \in Members /\ recycled[i] = Null
                              THEN Append(inbox[d], Peer(i, e)) ELSE inbox[d]
    <3>1. Admit(c, i) /\ Alive(c) /\ ServerType
      BY <1>0, <1>4, <1>f
    <3> QED
      BY <2>0, <3>1, AdmitFacts, Zenon
  <2>2. /\ id' = [id EXCEPT ![c] = i] /\ en' = [en EXCEPT ![c] = c]
        /\ clients' = [clients EXCEPT ![i] = c]
        /\ inbox'[c] = Intro(c, i, c, others)
        /\ \A d \in Conns \ {c} :
             inbox'[d] = IF d \in Members THEN Append(inbox[d], Peer(i, c)) ELSE inbox[d]
    BY <1>1, <2>0, <2>1
  <2>3. /\ id'[c] = i /\ en'[c] = c /\ clients'[i] = c
        /\ \A d \in Conns \ {c} : id'[d] = id[d] /\ en'[d] = en[d] /\ conn'[d] = conn[d]
        /\ \A j \in ClientIds \ {i} : clients'[j] = clients[j]
        /\ conn'[c] = "made"
    BY <1>0, <1>f, <2>0, <2>2 DEF ServerType
  <2>4. PlainInv'
    BY <1>1, <2>3 DEF PlainInv
  <2>5. Onwards
    BY <1>0, <1>2, <2>3 DEF Onwards, Holders
  <2>6. StreamInv'
    <3> SUFFICES ASSUME NEW d \in Conns, Listening(d)'
                 PROVE  conn'[d] = "made" /\ Stream(d)'
      BY StreamCollect
    <3>1. CASE d = c
      <4>1. Stream(c)'
        BY <1>0, <2>0, <2>1, <2>2, StreamIntro
      <4> QED
        BY <2>3, <3>1, <4>1
    <3>2. CASE d # c
      <4> DEFINE m == Peer(i, c)
      <4>1. Listening(d)
        BY <1>0, <2>3, <3>2 DEF Listening, Alive
      <4>2. conn[d] = "made" /\ Stream(d) /\ clients[id[d]] = d /\ d \in Members
        BY <1>f, <4>1
      <4>3. inbox'[d] = Append(inbox[d], m) /\ cl'[d] = cl[d] /\ id'[d] = id[d]
        BY <1>0, <2>2, <2>3, <3>2, <4>2
      <4>4. m \in Messages /\ m.t = "peer" /\ m.id = i /\ m.en = c /\ c # Torn
        BY <2>0, MessageTypes, TornAssumption DEF Peer, Msg, Fds
      <4>5. i # id[d] /\ i # Server /\ c # Null
        BY <2>0, <4>2
      <4>6. c \in Holders(i)' /\ Holders(i) \subseteq Lost'
        BY <1>2, <1>f, <2>0, <2>3 DEF Holders, Lost, MemInv, MemberInv, NewInv, IdInv, TableType
      <4> HIDE DEF m
      <4>7. \A j \in ClientIds : j # m.id => clients'[j] = clients[j]
        BY <2>3, <4>4
      <4>8. m.id \in ClientIds =>
              /\ clients'[m.id] = m.en
              /\ Holders(m.id) \subseteq Lost'
              /\ m.en # Null => m.en \in Holders(m.id)'
        BY <2>0, <2>3, <4>4, <4>5, <4>6
      <4>9. Stream(d)'
        BY <1>f, <2>5, <4>2, <4>3, <4>4, <4>5, <4>7, <4>8, StreamPush
      <4> QED
        BY <2>3, <3>2, <4>2, <4>9
    <3> QED
      BY <3>1, <3>2
  <2>7. ViewInv'
    <3> SUFFICES ASSUME NEW d \in Conns, proc[d] \in {"none", "up"} PROVE View(d)'
      BY <1>0 DEF ViewInv
    <3>1. View(d)
      BY <1>f
    <3>2. CASE d = c
      BY <1>0, <2>0, <2>3, <3>1, <3>2 DEF View, Starting
    <3>3. CASE d # c
      <4>1. id[d] \notin ClientIds => inbox'[d] = inbox[d]
        BY <1>f, <2>2, <3>3
      <4> QED
        BY <1>0, <2>3, <3>1, <3>3, <4>1 DEF View, Starting
    <3> QED
      BY <3>2, <3>3
  <2> QED
    BY <2>4, <2>6, <2>7
<1> QED
  BY <1>3, <1>4 DEF ConnectionMade

LEMMA LostStep ==
    ASSUME ~ Recycle, MemInv, NEW c \in Conns, ConnectionLost(c)
    PROVE  PlainInv' /\ StreamInv' /\ ViewInv'
<1> USE IdFacts, IdRanges
<1> DEFINE m == Gone(id[c])
<1>f. /\ ServerType /\ FreshInv /\ MemberInv
      /\ \A d \in Conns : Listening(d) =>
           conn[d] = "made" /\ Stream(d) /\ clients[id[d]] = d /\ d \in Members
      /\ \A d \in Members : d \in Conns /\ id[d] \in ClientIds /\ clients[id[d]] = d
      /\ \A d \in Conns : proc[d] \in {"none", "up"} => View(d)
  BY MemFacts
<1>0. /\ conn[c] = "made" /\ (~ Alive(c) \/ id[c] = Rejected)
      /\ id[c] \in ClientIds \cup {Rejected}
      /\ conn' = [conn EXCEPT ![c] = "lost"]
      /\ clients' = [i \in ClientIds |-> IF i = id[c] THEN Null ELSE clients[i]]
      /\ UNCHANGED <<id, en, proc, cl, missed>>
      /\ \A d \in Conns : inbox'[d] =
           IF \E i \in ClientIds \ {id[c]} : clients[i] = d
           THEN Append(inbox[d], m) ELSE inbox[d]
      /\ recycled' = recycled
  BY <1>f, LostFacts
<1>1. m \in Messages /\ m.t = "gone" /\ m.id = id[c] /\ m.en = Null
  BY <1>0, MessageTypes DEF Gone, Msg
<1> HIDE DEF m
<1>2. PlainInv'
  BY <1>0 DEF MemInv, PlainInv
<1>3. Onwards /\ c \in Lost'
  BY <1>0, <1>f DEF Onwards, Lost, Holders, ServerType
<1>4. StreamInv'
  <2> SUFFICES ASSUME NEW d \in Conns, Listening(d)'
               PROVE  conn'[d] = "made" /\ Stream(d)'
    BY StreamCollect
  <2>1. Listening(d) /\ d # c /\ id[d] \in ClientIds
    BY <1>0 DEF Listening, Alive
  <2>2. conn[d] = "made" /\ Stream(d) /\ clients[id[d]] = d
    BY <1>f, <2>1
  <2>3. id[c] \in ClientIds => clients[id[c]] = c
    BY <1>0, <1>f DEF MemberInv
  <2>4. id[d] # id[c]
    BY <2>1, <2>2, <2>3
  <2>5. inbox'[d] = Append(inbox[d], m) /\ cl'[d] = cl[d] /\ id'[d] = id[d]
    BY <1>0, <2>1, <2>2, <2>4
  <2>6. \A i \in ClientIds : i # m.id => clients'[i] = clients[i]
    BY <1>0, <1>1
  <2>7. m.id \in ClientIds =>
          /\ clients'[m.id] = m.en
          /\ Holders(m.id) \subseteq Lost'
          /\ m.en # Null => m.en \in Holders(m.id)'
    <3>1. \A n \in Conns : (id[n] = id[c] /\ id[c] \in ClientIds) => n = c \/ conn[n] = "lost"
      BY <1>f, <2>3 DEF MemInv, IdInv, MemberInv, NewInv, TableType
    <3>2. m.id \in ClientIds => Holders(m.id) \subseteq Lost'
      BY <1>0, <1>1, <1>f, <3>1 DEF Holders, Lost, ServerType
    <3> QED
      BY <1>0, <1>1, <3>2
  <2>8. Stream(d)'
    BY <1>f, <1>1, <1>3, <2>2, <2>4, <2>5, <2>6, <2>7, StreamPush
  <2> QED
    BY <1>0, <1>f, <2>1, <2>2, <2>8 DEF ServerType
<1>5. ViewInv'
  <2> SUFFICES ASSUME NEW d \in Conns, proc[d] \in {"none", "up"} PROVE View(d)'
    BY <1>0 DEF ViewInv
  <2>1. View(d)
    BY <1>f
  <2>2. id[d] \notin ClientIds => inbox'[d] = inbox[d]
    <3> SUFFICES ASSUME NEW i \in ClientIds, clients[i] = d PROVE id[d] \in ClientIds
      BY <1>0
    <3> QED
      BY <1>f DEF MemberInv
  <2> QED
    BY <1>0, <2>1, <2>2 DEF View, Starting
<1> QED
  BY <1>2, <1>4, <1>5

LEMMA IdleStep ==
    ASSUME MemInv, NEW c \in Conns,
           \/ Start(c) \/ Kill(c) \/ Quit(c) \/ Command(c)
           \/ \E k \in 1 .. 3 : DataRejected(c, k)
    PROVE  PlainInv' /\ StreamInv' /\ ViewInv'
<1>f. /\ ServerType /\ FreshInv
      /\ \A d \in Conns : Listening(d) => conn[d] = "made" /\ Stream(d)
      /\ \A d \in Conns : proc[d] \in {"none", "up"} => View(d)
  BY MemFacts
<1>0. /\ UNCHANGED <<conn, id, en, clients, recycled, inbox, missed>>
      /\ \A d \in Conns : /\ cl'[d].id = cl[d].id /\ cl'[d].fd = cl[d].fd
                          /\ cl'[d].EN = cl[d].EN
                          /\ cl'[d].firstpass = cl[d].firstpass
      /\ \/ proc' = proc
         \/ proc[c] = "none" /\ proc' = [proc EXCEPT ![c] = "up"]
         \/ proc' \in {[proc EXCEPT ![c] = "stopped"], [proc EXCEPT ![c] = "crashed"]}
  BY <1>f, IdleFacts
<1>1. Onwards /\ PlainInv'
  BY <1>0 DEF Onwards, Lost, Holders, MemInv, PlainInv
<1>2. \A d \in Conns : proc'[d] \in {"none", "up"} => proc[d] \in {"none", "up"}
  BY <1>0, <1>f DEF ServerType
<1>3. \A d \in Conns : Listening(d)' => Listening(d)
  BY <1>0, <1>f, IdFacts DEF Listening, Alive, FreshInv, ServerType
<1>4. StreamInv'
  <2> SUFFICES ASSUME NEW d \in Conns, Listening(d)'
               PROVE  conn'[d] = "made" /\ Stream(d)'
    BY StreamCollect
  <2>1. conn[d] = "made" /\ Stream(d)
    BY <1>f, <1>3
  <2>2. Stream(d)'
    BY <1>0, <1>1, <2>1, StreamKeep
  <2> QED
    BY <1>0, <2>1, <2>2
<1>5. ViewInv'
  <2> SUFFICES ASSUME NEW d \in Conns, proc'[d] \in {"none", "up"} PROVE View(d)'
    BY DEF ViewInv
  <2>1. View(d)
    BY <1>2, <1>f
  <2> QED
    BY <1>0, <2>1 DEF View, Starting
<1> QED
  BY <1>1, <1>4, <1>5

\* A client reads: nothing changes for the others.
LEMMA ReadCollect ==
    ASSUME MemInv, NEW c \in Conns, UNCHANGED <<conn, id, en, clients, recycled, proc>>,
           missed \subseteq missed', \A d \in Conns \ {c} : d \in missed' => d \in missed,
           \A d \in Conns \ {c} : cl'[d] = cl[d] /\ inbox'[d] = inbox[d],
           Listening(c), Stream(c)', View(c)'
    PROVE  PlainInv' /\ StreamInv' /\ ViewInv'
<1>f. /\ \A d \in Conns : Listening(d) => conn[d] = "made" /\ Stream(d)
      /\ \A d \in Conns : proc[d] \in {"none", "up"} => View(d)
  BY MemFacts
<1>1. Onwards /\ PlainInv'
  BY DEF Onwards, Lost, Holders, MemInv, PlainInv
<1>2. StreamInv'
  <2> SUFFICES ASSUME NEW d \in Conns, Listening(d)'
               PROVE  conn'[d] = "made" /\ Stream(d)'
    BY StreamCollect
  <2>1. Listening(d)
    BY DEF Listening, Alive
  <2>2. CASE d # c
    <3>1. Stream(d)'
      BY <1>1, <1>f, <2>1, <2>2, StreamKeep
    <3> QED
      BY <1>f, <2>1, <3>1
  <2> QED
    BY <1>f, <2>1, <2>2
<1>3. ViewInv'
  <2> SUFFICES ASSUME NEW d \in Conns, proc[d] \in {"none", "up"} PROVE View(d)'
    BY DEF ViewInv
  <2>1. CASE d # c
    BY <1>f, <2>1 DEF View, Starting
  <2> QED
    BY <2>1
<1> QED
  BY <1>1, <1>2, <1>3

LEMMA InfoStep ==
    ASSUME MemInv, NEW c \in Conns, NEW k \in 1 .. 3, InitialInfo(c, k)
    PROVE  PlainInv' /\ StreamInv' /\ ViewInv'
<1> USE IdFacts, IdRanges
<1>f. /\ ServerType /\ BaseInv
      /\ \A d \in Conns : Listening(d) => conn[d] = "made" /\ Stream(d)
      /\ \A d \in Conns : proc[d] \in {"none", "up"} => View(d)
  BY MemFacts DEF MemInv
<1>0. /\ Alive(c) /\ Starting(c) /\ Consume(c, 3) /\ 3 <= Len(inbox[c])
      /\ id[c] \in ClientIds
      /\ UNCHANGED <<conn, id, en, clients, recycled, proc, missed>>
      /\ cl' = [cl EXCEPT ![c].id = id[c]]
      /\ \A j \in 1 .. 3 : inbox[c][j].t \notin {"peer", "gone"}
  BY <1>f, InfoFacts
<1>1. /\ inbox' \in [Conns -> Seq(Messages)]
      /\ \A d \in Conns \ {c} : inbox'[d] = inbox[d]
      /\ Len(inbox'[c]) = Len(inbox[c]) - 3
      /\ \A j \in 1 .. Len(inbox'[c]) : inbox'[c][j] = inbox[c][j + 3]
  <2>1. 3 \in Nat \ {0} /\ 3 <= Len(inbox[c]) /\ Consume(c, 3) /\ ServerType
    BY <1>0, <1>f
  <2> QED
    BY <2>1, ConsumeFacts, ZenonT(60)
<1>2. /\ \A d \in Conns \ {c} : cl'[d] = cl[d]
      /\ cl'[c].id = id[c] /\ cl'[c].fd = cl[c].fd /\ cl'[c].EN = cl[c].EN
      /\ cl'[c].firstpass = cl[c].firstpass
  BY <1>0, <1>f DEF ServerType, ClientType
<1>3. ~ Starting(c)' /\ Listening(c) /\ Stream(c) /\ View(c)
  BY <1>0, <1>2, <1>f DEF Starting, Listening, Alive
<1>4. Stream(c)'
  BY <1>0, <1>1, <1>2, <1>3, <1>f, StreamDrop
<1>5. View(c)'
  BY <1>0, <1>2, <1>3 DEF View
<1> QED
  BY <1>0, <1>1, <1>2, <1>3, <1>4, <1>5, ReadCollect

LEMMA BatchStep ==
    ASSUME MemInv, NEW c \in Conns, PeerBatch(c)
    PROVE  /\ PlainInv' /\ StreamInv' /\ ViewInv'
           /\ Listening(c) /\ UNCHANGED <<conn, id, proc>> /\ Listening(c)'
           /\ \A d \in Conns \ {c} : cl'[d] = cl[d]
           /\ \A i \in 1 .. Server : cl[c].EN[i] # Null => cl'[c].EN[i] = cl[c].EN[i]
<1> USE IdFacts, IdRanges
<1> DEFINE m == inbox[c][1]
<1>f. /\ ServerType
      /\ \A d \in Conns : Listening(d) => conn[d] = "made" /\ Stream(d)
      /\ \A d \in Conns : proc[d] \in {"none", "up"} => View(d)
      /\ \A d \in Conns : Alive(d) /\ ~ Starting(d) => Listening(d) /\ cl[d].id = id[d]
  BY MemFacts
<1>0. /\ Alive(c) /\ ~ Starting(c) /\ m.t = "peer" /\ m \in Messages
      /\ cl[c].fd[m.id] = Null \/ (cl[c].fd[m.id] = Torn /\ m.en = Torn)
      /\ UNCHANGED <<conn, id, en, clients, recycled, named, proc, missed>>
      /\ \A d \in Conns \ {c} : cl'[d] = cl[d]
      /\ cl'[c].id = cl[c].id
      /\ cl'[c].fd = [cl[c].fd EXCEPT ![m.id] = m.en]
      /\ \E own \in BOOLEAN :
           /\ own => ~ cl[c].firstpass \/ m.id = cl[c].id
           /\ m.en # Torn /\ (~ cl[c].firstpass \/ m.id = cl[c].id) => own
           /\ m.en = Torn /\ cl[c].fd[m.id] = Null => ~ own
           /\ cl'[c].firstpass <=> (cl[c].firstpass /\ ~ own)
           /\ \A i \in 1 .. Server : cl'[c].EN[i] =
                IF own /\ cl[c].EN[i] = Null THEN cl'[c].fd[i] ELSE cl[c].EN[i]
  BY <1>f, BatchFacts, ZenonT(60)
<1>o. PICK own \in BOOLEAN :
           /\ own => ~ cl[c].firstpass \/ m.id = cl[c].id
           /\ m.en # Torn /\ (~ cl[c].firstpass \/ m.id = cl[c].id) => own
           /\ m.en = Torn /\ cl[c].fd[m.id] = Null => ~ own
           /\ cl'[c].firstpass <=> (cl[c].firstpass /\ ~ own)
           /\ \A i \in 1 .. Server : cl'[c].EN[i] =
                IF own /\ cl[c].EN[i] = Null THEN cl'[c].fd[i] ELSE cl[c].EN[i]
  BY <1>0, Zenon
<1>1. Consume(c, 1) /\ 1 <= Len(inbox[c])
  BY DEF PeerBatch, Chunk
<1>2. /\ inbox' \in [Conns -> Seq(Messages)]
      /\ \A d \in Conns \ {c} : inbox'[d] = inbox[d]
      /\ Len(inbox'[c]) = Len(inbox[c]) - 1
      /\ \A j \in 1 .. Len(inbox'[c]) : inbox'[c][j] = inbox[c][j + 1]
  BY <1>1, <1>f, ConsumeFacts
<1>3. Listening(c) /\ Stream(c) /\ View(c) /\ cl[c].id = id[c] /\ id[c] \in ClientIds
  BY <1>0, <1>f DEF Listening, Alive
<1>4. m.id \in 1 .. Server
  BY <1>0 DEF Messages
<1>5. inbox'[c] \in Seq(Messages) /\ Len(inbox[c]) >= 1
  BY <1>1, <1>2
<1>p. c \notin missed => m.en # Torn
  <2>1. 1 \in 1 .. Len(inbox[c])
    BY <1>1, LenProperties, <1>f DEF ServerType
  <2> QED
    BY <1>0, <1>3, <2>1 DEF Stream, Batches
<1> HIDE DEF m
<1>6. ~ cl'[c].firstpass => ~ cl[c].firstpass \/ m.id = id[c]
  BY <1>o, <1>3
<1>7. Stream(c)'
  <2>1. m = inbox[c][1] /\ m.t \in {"peer", "gone"} /\ UNCHANGED <<conn, id, clients, missed>>
    BY <1>0 DEF m
  <2> QED
    BY <1>f, <1>0, <1>2, <1>3, <1>4, <1>5, <1>6, <2>1, StreamRead
<1>8. cl[c].fd \in [1 .. Server -> Fds]
  BY <1>f DEF ServerType, ClientType, Fds
\* What is in the table stays there: only a list that is not complete takes more.
<1>k. \A i \in 1 .. Server : cl[c].fd[i] # Null => cl'[c].fd[i] = cl[c].fd[i]
  BY <1>0, <1>8
<1>9. View(c)'
  <2>1. ASSUME NEW i \in 1 .. Server
        PROVE  /\ cl'[c].EN[i] \in {Null, cl'[c].fd[i]}
               /\ cl'[c].firstpass => cl'[c].EN[i] = Null
               /\ (c \notin missed' /\ ~ cl'[c].firstpass) => cl'[c].EN[i] = cl'[c].fd[i]
    <3>1. /\ cl[c].EN[i] \in {Null, cl[c].fd[i]}
          /\ cl[c].firstpass => cl[c].EN[i] = Null
          /\ (c \notin missed /\ ~ cl[c].firstpass) => cl[c].EN[i] = cl[c].fd[i]
      BY <1>3 DEF View
    <3>2. cl'[c].EN[i] = IF own /\ cl[c].EN[i] = Null THEN cl'[c].fd[i] ELSE cl[c].EN[i]
      BY <1>o
    <3>3. cl[c].EN[i] # Null => cl[c].EN[i] = cl'[c].fd[i]
      BY <1>k, <3>1
    <3>4. ASSUME cl'[c].firstpass PROVE cl'[c].EN[i] = Null
      BY <1>o, <3>1, <3>2, <3>4
    <3>5. ASSUME c \notin missed, ~ cl'[c].firstpass PROVE cl'[c].EN[i] = cl'[c].fd[i]
      BY <1>o, <1>p, <3>2, <3>3, <3>5
    <3> QED
      BY <1>0, <3>2, <3>3, <3>4, <3>5
  <2>2. ~ Starting(c)' /\ cl'[c].id = id'[c] /\ id'[c] \in ClientIds
    BY <1>0, <1>3 DEF Starting
  <2> QED
    BY <2>1, <2>2 DEF View
<1>10. PlainInv' /\ StreamInv' /\ ViewInv'
  BY <1>0, <1>2, <1>3, <1>7, <1>9, ReadCollect
<1>11. \A i \in 1 .. Server : cl[c].EN[i] # Null => cl'[c].EN[i] = cl[c].EN[i]
  BY <1>o
<1> QED
  BY <1>0, <1>3, <1>10, <1>11 DEF Listening, Alive

LEMMA GoneStep ==
    ASSUME MemInv, NEW c \in Conns, PeerGone(c)
    PROVE  /\ PlainInv' /\ StreamInv' /\ ViewInv'
           /\ Listening(c) /\ UNCHANGED <<conn, id, proc>>
           /\ \A d \in Conns \ {c} : cl'[d] = cl[d]
           /\ \E i \in ClientIds : /\ cl'[c].EN = [cl[c].EN EXCEPT ![i] = Null]
                                   /\ cl[c].EN[i] \notin {Null, Torn} => cl[c].EN[i] \in Lost
<1> USE IdFacts, IdRanges
<1> DEFINE m == inbox[c][1]
<1>f. /\ ServerType
      /\ \A d \in Conns : Listening(d) => conn[d] = "made" /\ Stream(d)
      /\ \A d \in Conns : proc[d] \in {"none", "up"} => View(d)
      /\ \A d \in Conns : Alive(d) /\ ~ Starting(d) => Listening(d) /\ cl[d].id = id[d]
  BY MemFacts
<1>0. /\ Alive(c) /\ ~ Starting(c) /\ m.t = "gone" /\ m \in Messages /\ m.id \in ClientIds
      /\ UNCHANGED <<conn, id, en, clients, recycled, named, proc, missed>>
      /\ \A d \in Conns \ {c} : cl'[d] = cl[d]
      /\ cl'[c].id = cl[c].id /\ cl'[c].firstpass = cl[c].firstpass
      /\ cl'[c].fd = [cl[c].fd EXCEPT ![m.id] = Null]
      /\ cl'[c].EN = [cl[c].EN EXCEPT ![m.id] = Null]
  BY <1>f, GoneFacts
<1>1. Consume(c, 1) /\ 1 <= Len(inbox[c])
  BY DEF PeerGone, Chunk
<1>2. /\ inbox' \in [Conns -> Seq(Messages)]
      /\ \A d \in Conns \ {c} : inbox'[d] = inbox[d]
      /\ Len(inbox'[c]) = Len(inbox[c]) - 1
      /\ \A j \in 1 .. Len(inbox'[c]) : inbox'[c][j] = inbox[c][j + 1]
  BY <1>1, <1>f, ConsumeFacts
<1>3. Listening(c) /\ Stream(c) /\ View(c) /\ cl[c].id = id[c] /\ id[c] \in ClientIds
  BY <1>0, <1>f DEF Listening, Alive
<1>4. m.id \in 1 .. Server /\ m.en = Null
  BY <1>0 DEF Messages
<1>5. inbox'[c] \in Seq(Messages) /\ Len(inbox[c]) >= 1
  BY <1>1, <1>2
<1> HIDE DEF m
<1>7. /\ Stream(c)'
      /\ (m.id \in ClientIds /\ cl[c].fd[m.id] \notin {Null, Torn}) => cl[c].fd[m.id] \in Lost
  <2>1. m = inbox[c][1] /\ m.t \in {"peer", "gone"} /\ UNCHANGED <<conn, id, clients, missed>>
    BY <1>0 DEF m
  <2>2. cl'[c].fd = [cl[c].fd EXCEPT ![m.id] = m.en]
    BY <1>0, <1>4
  <2>3. ~ cl'[c].firstpass => ~ cl[c].firstpass \/ m.id = id[c]
    BY <1>0
  <2> QED
    BY <1>f, <1>0, <1>2, <1>3, <1>4, <1>5, <2>1, <2>2, <2>3, StreamRead
<1>8. cl[c].fd \in [1 .. Server -> Fds] /\ cl[c].EN \in [1 .. Server -> Fds]
  BY <1>f DEF ServerType, ClientType, Fds
<1>9. View(c)'
  <2>1. ASSUME NEW i \in 1 .. Server
        PROVE  /\ cl'[c].EN[i] \in {Null, cl'[c].fd[i]}
               /\ cl'[c].firstpass => cl'[c].EN[i] = Null
               /\ (c \notin missed' /\ ~ cl'[c].firstpass) => cl'[c].EN[i] = cl'[c].fd[i]
    <3>1. /\ cl[c].EN[i] \in {Null, cl[c].fd[i]}
          /\ cl[c].firstpass => cl[c].EN[i] = Null
          /\ (c \notin missed /\ ~ cl[c].firstpass) => cl[c].EN[i] = cl[c].fd[i]
      BY <1>3 DEF View
    <3> QED
      BY <1>0, <1>8, <3>1
  <2>2. ~ Starting(c)' /\ cl'[c].id = id'[c] /\ id'[c] \in ClientIds
    BY <1>0, <1>3 DEF Starting
  <2> QED
    BY <2>1, <2>2 DEF View
<1>10. PlainInv' /\ StreamInv' /\ ViewInv'
  BY <1>0, <1>2, <1>3, <1>7, <1>9, ReadCollect
<1>11. cl[c].EN[m.id] \notin {Null, Torn} => cl[c].EN[m.id] \in Lost
  BY <1>0, <1>3, <1>4, <1>7 DEF View
<1> QED
  BY <1>0, <1>3, <1>10, <1>11

LEMMA SendStep ==
    ASSUME MemInv, NEW c \in Conns, NEW k \in 1 .. Len(inbox[c]), SendFails(c, k)
    PROVE  PlainInv' /\ StreamInv' /\ ViewInv'
<1>f. /\ ServerType
      /\ \A d \in Conns : Listening(d) => Stream(d)
      /\ \A d \in Conns : proc[d] \in {"none", "up"} => View(d)
  BY MemFacts
<1>0. /\ Alive(c) /\ c \in missed' /\ missed \subseteq missed'
      /\ \A d \in Conns \ {c} : d \in missed' => d \in missed
      /\ UNCHANGED <<conn, id, en, clients, recycled, proc, cl>>
      /\ inbox[c][k].t # "version"
      /\ \A d \in Conns \ {c} : inbox'[d] = inbox[d]
  BY <1>f, SendFacts
<1>1. View(c)
  BY <1>0, <1>f DEF Alive
<1>2. Listening(c)
  <2> SUFFICES ASSUME id[c] \notin ClientIds PROVE FALSE
    BY <1>0 DEF Listening
  <2>1. inbox[c] \in {<<>>, <<Version(-1)>>}
    BY <1>1 DEF View
  <2>2. inbox[c] = <<Version(-1)>> /\ inbox[c][1] = Version(-1) /\ k = 1
    <3>1. Len(<<>>) = 0 /\ Len(<<Version(-1)>>) = 1 /\ <<Version(-1)>>[1] = Version(-1)
      OBVIOUS
    <3>2. inbox[c] # <<>>
      BY <3>1
    <3>3. inbox[c] = <<Version(-1)>>
      BY <2>1, <3>2
    <3>4. k = 1
      BY <3>1, <3>3
    <3> QED
      BY <3>1, <3>3, <3>4
  <2> QED
    BY <1>0, <2>2 DEF Version, Msg
<1>3. Stream(c)'
  BY <1>2, <1>f, StreamLoss
<1>4. View(c)'
  BY <1>0, <1>1, <1>2 DEF View, Starting, Listening
<1> QED
  BY <1>0, <1>2, <1>3, <1>4, ReadCollect

LEMMA MemStep == ASSUME Accepted, ~ Recycle, MemInv, [Next]_vars PROVE MemInv'
<1>0. BaseInv' /\ IdInv'
  BY BaseStep, IdStep DEF MemInv
<1>1. ASSUME NEW c \in Conns, NEW i \in ClientIds \cup {Rejected},
             NEW ok \in BOOLEAN, ConnectionMade(c, i, ok)
      PROVE  PlainInv' /\ StreamInv' /\ ViewInv'
  BY <1>1, MadeStep
<1>2. ASSUME NEW c \in Conns, ConnectionLost(c) PROVE PlainInv' /\ StreamInv' /\ ViewInv'
  BY <1>2, LostStep
<1>3. ASSUME NEW c \in Conns,
             \/ Start(c) \/ Kill(c) \/ Quit(c) \/ Command(c)
             \/ \E k \in 1 .. 3 : DataRejected(c, k)
      PROVE  PlainInv' /\ StreamInv' /\ ViewInv'
  BY <1>3, IdleStep
<1>4. ASSUME NEW c \in Conns, NEW k \in 1 .. 3, InitialInfo(c, k)
      PROVE  PlainInv' /\ StreamInv' /\ ViewInv'
  BY <1>4, InfoStep
<1>5. ASSUME NEW c \in Conns, PeerBatch(c) \/ PeerGone(c)
      PROVE  PlainInv' /\ StreamInv' /\ ViewInv'
  BY <1>5, BatchStep, GoneStep
<1>6. ASSUME NEW c \in Conns, NEW k \in 1 .. Len(inbox[c]), SendFails(c, k)
      PROVE  PlainInv' /\ StreamInv' /\ ViewInv'
  BY <1>6, SendStep
<1>7. ASSUME UNCHANGED vars PROVE PlainInv' /\ StreamInv' /\ ViewInv'
  <2>1. UNCHANGED <<conn, id, en, clients, recycled, named, inbox, proc, cl, missed>>
    BY <1>7 DEF vars
  <2>2. PlainInv'
    BY <2>1 DEF MemInv, PlainInv
  <2>3. StreamInv'
    BY <2>1 DEF MemInv, StreamInv, Stream, Listening, Alive, Tracks, OwnLast, Batches,
                Lost, Holders
  <2>4. ViewInv'
    BY <2>1 DEF MemInv, ViewInv, View, Starting
  <2> QED
    BY <2>2, <2>3, <2>4
<1>8. PlainInv' /\ StreamInv' /\ ViewInv'
  BY <1>1, <1>2, <1>3, <1>4, <1>5, <1>6, <1>7 DEF Next, ServerStep, DataReceived
<1> QED
  BY <1>0, <1>8 DEF MemInv

\* The peers a client can ring had the id it knows them by.
Named == \A c \in Conns, i \in ClientIds :
    (Alive(c) /\ cl[c].EN[i] \notin {Null, Torn}) => cl[c].EN[i] \in Holders(i)

LEMMA NamedHolds == MemInv => Named
<1> SUFFICES ASSUME MemInv, NEW c \in Conns, Alive(c), NEW i \in ClientIds,
                    cl[c].EN[i] \notin {Null, Torn}
             PROVE  cl[c].EN[i] \in Holders(i)
  BY DEF Named
<1>1. View(c)
  BY MemFacts DEF Alive
<1>2. ~ cl[c].firstpass /\ ~ Starting(c) /\ cl[c].EN[i] = cl[c].fd[i]
  BY <1>1, IdRanges DEF View
<1>3. Stream(c)
  BY <1>2, MemFacts
<1>4. Names(cl[c].fd[i], inbox[c], i, Holders(i))
  BY <1>3 DEF Stream, Tracks, Past
<1>5. Len(inbox[c]) \in Nat
  BY LenProperties DEF MemInv, BaseInv, ServerType
<1>6. 0 \in 0 .. Len(inbox[c]) /\ About(inbox[c], 0, i) /\ Told(cl[c].fd[i], inbox[c], 0) = cl[c].fd[i]
  BY <1>5 DEF About, Told
<1> QED
  BY <1>2, <1>4, <1>6 DEF Names

\* Without recycling, for any number of connections and clients: a client to
\* which no send has failed, once it has read all its socket holds, has the
\* eventfds of exactly the members of SI.clients, and of the server, whatever
\* sends to others have failed.  Neither a batch for a newcomer nor a disconnect
\* notification is forgotten, doubled or overtaken.
THEOREM TablesCurrentTheorem == ASSUME Accepted PROVE Spec => []TablesCurrent
<1>1. CASE Recycle
  <2>1. TablesCurrent
    BY <1>1 DEF TablesCurrent
  <2> QED
    BY <2>1, PTL
<1>2. CASE ~ Recycle
  <2>1. MemInv => TablesCurrent
    <3> SUFFICES ASSUME MemInv, NEW c \in Conns \ missed, Ready(c), inbox[c] = <<>>
                 PROVE  /\ cl[c].EN[Server] = Server
                        /\ \A i \in ClientIds : cl[c].EN[i] =
                             IF clients[i] = Null THEN Null ELSE en[clients[i]]
      BY DEF TablesCurrent
    <3>1. Alive(c) /\ ~ cl[c].firstpass /\ View(c)
      BY MemFacts DEF Ready, Alive
    <3>2. ~ Starting(c)
      BY <3>1 DEF View
    <3>3. Stream(c)
      BY <3>1, <3>2, MemFacts
    <3>4. \A i \in 1 .. Server : cl[c].EN[i] = cl[c].fd[i]
      BY <3>1 DEF View
    <3>5. cl[c].EN[Server] = Server
      BY <3>1, <3>3, <3>4, IdRanges DEF Stream, OwnLast
    <3>6. ASSUME NEW i \in ClientIds
          PROVE  cl[c].EN[i] = IF clients[i] = Null THEN Null ELSE en[clients[i]]
      <4>1. EndsWith(cl[c].fd[i], <<>>, i, clients[i])
        BY <3>3 DEF Stream, Tracks
      <4>2. cl[c].fd[i] = clients[i]
        BY <4>1, HistoryRead
      <4>3. clients[i] # Null => en[clients[i]] = clients[i]
        BY DEF MemInv, IdInv, TableType, MemberInv, PlainInv
      <4> QED
        BY <3>4, <4>2, <4>3, IdRanges
    <3> QED
      BY <3>5, <3>6
  <2>2. MemInv /\ [Next]_vars => MemInv'
    BY <1>2, MemStep
  <2> QED
    BY MemInit, <2>1, <2>2, PTL DEF Spec
<1> QED
  BY <1>1, <1>2

-------------------------------------------------------------------------------
(* The refinement of Membership: what its variables are here *)

AbsHolds == [c \in Conns |-> IF conn[c] = "made" /\ id[c] # Rejected THEN id[c] ELSE NoId]
AbsJoined == {c \in Conns : id[c] \in ClientIds}
Ring(EN) == {EN[i] : i \in ClientIds} \ {Null, Torn}
Rings(c) == IF Alive(c) THEN Ring(cl[c].EN) ELSE {}
AbsView == [c \in Conns |-> Rings(c)]
AbsEnded == {c \in Conns : conn[c] # "new" /\ ~ Alive(c)}
AbsSame == UNCHANGED <<AbsHolds, AbsJoined, AbsView, AbsEnded>>

\* A connection becomes a member, or is refused.
LEMMA MadeRefines ==
    ASSUME ~ Recycle, MemInv, NEW c \in Conns, NEW i \in ClientIds \cup {Rejected},
           NEW ok \in BOOLEAN, ConnectionMade(c, i, ok)
    PROVE  (i \in ClientIds /\ Mem!Join(c, i)) \/ AbsSame
<1> USE IdFacts, IdRanges
<1>f. ServerType /\ MemberInv
  BY MemFacts
<1>0. /\ conn[c] = "new" /\ id[c] = NoId /\ Alive(c) /\ i \in NewIds
      /\ conn' = [conn EXCEPT ![c] = "made"] /\ UNCHANGED <<named, proc, cl>>
  BY DEF ConnectionMade, MemInv, IdInv, NewInv, Alive
<1>1. AbsView' = AbsView
  BY <1>0 DEF AbsView, Rings, Alive
<1>2. AbsEnded' = AbsEnded
  BY <1>0, <1>f DEF AbsEnded, Alive, ServerType
<1>3. CASE Refuse(c)
  <2>1. id' = [id EXCEPT ![c] = Rejected]
    BY <1>3 DEF Refuse
  <2>2. AbsHolds' = AbsHolds
    BY <1>0, <1>f, <2>1 DEF AbsHolds, ServerType
  <2>3. AbsJoined' = AbsJoined
    BY <1>0, <1>f, <2>1 DEF AbsJoined, ServerType
  <2> QED
    BY <1>1, <1>2, <2>2, <2>3 DEF AbsSame
<1>4. CASE i # Rejected /\ Admit(c, i)
  <2>1. i \in ClientIds /\ clients[i] = Null /\ id' = [id EXCEPT ![c] = i]
    BY <1>0, <1>4 DEF Admit
  <2>2. AbsHolds' = [AbsHolds EXCEPT ![c] = i]
    BY <1>0, <1>f, <2>1 DEF AbsHolds, ServerType
  <2>3. AbsJoined' = AbsJoined \cup {c} /\ c \notin AbsJoined
    BY <1>0, <1>f, <2>1 DEF AbsJoined, ServerType
  <2>4. \A m \in Conns : AbsHolds[m] # i
    BY <1>f, <2>1 DEF AbsHolds, MemberInv
  <2>5. Mem!Join(c, i)
    BY <1>1, <1>2, <2>2, <2>3, <2>4
       DEF Mem!Join, Mem!Members, AbsHolds, AbsJoined, AbsView, AbsEnded, Rings, Ring
  <2> QED
    BY <2>1, <2>5
<1> QED
  BY <1>3, <1>4 DEF ConnectionMade

\* A member leaves, or one that was refused.
LEMMA LostRefines ==
    ASSUME MemInv, NEW c \in Conns, ConnectionLost(c)
    PROVE  \E N \in SUBSET Mem!Members : Mem!Leave(N)
<1> USE IdFacts, IdRanges
<1>f. ServerType /\ FreshInv
  BY MemFacts
<1>0. /\ conn[c] = "made" /\ conn' = [conn EXCEPT ![c] = "lost"]
      /\ UNCHANGED <<id, en, proc, cl>>
  BY <1>f, LostFacts
<1>n. PICK N : N = {n \in {c} : AbsHolds[n] # NoId}
  OBVIOUS
<1>1. N \in SUBSET Mem!Members
  BY <1>n DEF Mem!Members, AbsHolds
<1>2. AbsHolds' = [n \in Conns |-> IF n \in N THEN NoId ELSE AbsHolds[n]]
  BY <1>0, <1>f, <1>n DEF AbsHolds, ServerType
<1>3. AbsJoined' = AbsJoined /\ AbsView' = AbsView
  BY <1>0 DEF AbsJoined, AbsView, Rings, Alive
<1>4. AbsEnded' = AbsEnded
  BY <1>0, <1>f DEF AbsEnded, Alive, ServerType
<1>5. Mem!Leave(N)
  BY <1>2, <1>3, <1>4 DEF Mem!Leave, AbsHolds, AbsJoined, AbsView, AbsEnded, Rings, Ring
<1> QED
  BY <1>1, <1>5

\* A client that stops ends its connection; one that only looks does nothing.
LEMMA IdleRefines ==
    ASSUME Accepted, MemInv, NEW c \in Conns,
           \/ Start(c) \/ Kill(c) \/ Quit(c) \/ Command(c)
           \/ \E k \in 1 .. 3 : DataRejected(c, k)
    PROVE  Mem!End(c) \/ AbsSame
<1> USE IdFacts, IdRanges
<1>f. /\ ServerType /\ FreshInv
      /\ \A d \in Conns : proc[d] \in {"none", "up"} => View(d)
  BY MemFacts
<1>0. /\ UNCHANGED <<conn, id, en, clients, recycled, inbox>>
      /\ \A d \in Conns : cl'[d].EN = cl[d].EN
      /\ \/ proc' = proc
         \/ proc[c] = "none" /\ proc' = [proc EXCEPT ![c] = "up"]
         \/ /\ Alive(c) /\ proc' \in {[proc EXCEPT ![c] = "stopped"],
                                      [proc EXCEPT ![c] = "crashed"]}
            /\ conn[c] # "new" \/ DiesUnaccepted \/ inbox[c] # <<>>
  BY <1>f, IdleFacts
<1>1. AbsHolds' = AbsHolds /\ AbsJoined' = AbsJoined
  BY <1>0 DEF AbsHolds, AbsJoined
<1>2. CASE proc' = proc
  BY <1>0, <1>1, <1>2 DEF AbsSame, AbsView, AbsEnded, Rings, Alive
<1>3. CASE proc[c] = "none" /\ proc' = [proc EXCEPT ![c] = "up"]
  <2>1. conn[c] = "new" /\ id[c] = NoId /\ View(c)
    BY <1>3, <1>f DEF FreshInv
  <2>2. \A i \in ClientIds : cl[c].EN[i] = Null
    BY <2>1 DEF View
  <2>3. Rings(c)' = {} /\ Rings(c) = {}
    <3>1. cl'[c].EN = cl[c].EN
      BY <1>0
    <3>2. Ring(cl[c].EN) = {}
      BY <2>2 DEF Ring
    <3> QED
      BY <1>3, <3>1, <3>2, <1>f DEF Rings, Alive, ServerType
  <2>4. \A d \in Conns \ {c} : Rings(d)' = Rings(d)
    BY <1>0, <1>3, <1>f DEF Rings, Alive, ServerType
  <2>5. AbsView' = AbsView
    BY <2>3, <2>4 DEF AbsView
  <2>6. AbsEnded' = AbsEnded
    BY <1>0, <1>3, <1>f, <2>1 DEF AbsEnded, Alive, ServerType
  <2> QED
    BY <1>1, <2>5, <2>6 DEF AbsSame
<1>4. CASE /\ Alive(c) /\ proc' \in {[proc EXCEPT ![c] = "stopped"],
                                     [proc EXCEPT ![c] = "crashed"]}
           /\ conn[c] # "new" \/ DiesUnaccepted \/ inbox[c] # <<>>
  <2>1. conn[c] # "new"
    BY <1>4, <1>f DEF Accepted, FreshInv
  <2>2. ~ Alive(c)' /\ \A d \in Conns \ {c} : Alive(d)' <=> Alive(d)
    BY <1>4, <1>f DEF Alive, ServerType
  <2>3. Rings(c)' = {} /\ \A d \in Conns \ {c} : Rings(d)' = Rings(d)
    BY <1>0, <2>2 DEF Rings
  <2>4. AbsView' = [AbsView EXCEPT ![c] = {}]
    BY <2>3 DEF AbsView
  <2>5. AbsEnded' = AbsEnded \cup {c}
    BY <1>0, <2>1, <2>2 DEF AbsEnded
  <2>6. Mem!End(c)
    BY <1>1, <2>4, <2>5 DEF Mem!End, AbsHolds, AbsJoined, AbsView, AbsEnded, Rings, Ring
  <2> QED
    BY <2>6
<1> QED
  BY <1>0, <1>2, <1>3, <1>4

\* A client takes in peers that did join.
LEMMA BatchRefines ==
    ASSUME MemInv, MemInv', NEW c \in Conns, PeerBatch(c)
    PROVE  \E M \in SUBSET AbsJoined : Mem!Learn(c, M)
<1> USE IdFacts, IdRanges
<1>0. /\ Alive(c) /\ UNCHANGED <<conn, id, proc>>
      /\ \A d \in Conns \ {c} : cl'[d] = cl[d]
      /\ \A i \in 1 .. Server : cl[c].EN[i] # Null => cl'[c].EN[i] = cl[c].EN[i]
  BY BatchStep DEF Listening
<1>m. PICK M : M = Rings(c)'
  OBVIOUS
<1>1. /\ AbsHolds' = AbsHolds /\ AbsJoined' = AbsJoined /\ AbsEnded' = AbsEnded
      /\ c \notin AbsEnded
  BY <1>0 DEF AbsHolds, AbsJoined, AbsEnded, Alive
<1>2. M \subseteq AbsJoined
  <2>1. Named'
    BY NamedHolds, PTL
  <2>2. Alive(c)' /\ M = Ring(cl'[c].EN)
    BY <1>0, <1>m DEF Rings, Alive
  <2> SUFFICES ASSUME NEW i \in ClientIds, cl'[c].EN[i] \notin {Null, Torn}
               PROVE  cl'[c].EN[i] \in AbsJoined
    BY <2>2 DEF Ring
  <2>3. cl'[c].EN[i] \in Holders(i)'
    BY <2>1, <2>2 DEF Named
  <2> QED
    BY <1>0, <2>3 DEF Holders, AbsJoined
<1>3. Rings(c) \subseteq M
  BY <1>0, <1>m DEF Rings, Ring, Alive
<1>4. \A d \in Conns \ {c} : Rings(d)' = Rings(d)
  BY <1>0 DEF Rings, Alive
<1>5. AbsView' = [AbsView EXCEPT ![c] = @ \cup M]
  <2>1. Rings(c) \cup M = M
    BY <1>3
  <2> QED
    BY <1>4, <1>m, <2>1 DEF AbsView
<1>6. Mem!Learn(c, M)
  BY <1>1, <1>2, <1>5 DEF Mem!Learn, AbsHolds, AbsJoined, AbsView, AbsEnded, Rings, Ring
<1> QED
  BY <1>2, <1>6

\* A client lets go of a peer that has been lost, and of no other.
LEMMA GoneRefines ==
    ASSUME MemInv, NEW c \in Conns, PeerGone(c)
    PROVE  \E M \in SUBSET Rings(c) : Mem!Forget(c, M)
<1> USE IdFacts, IdRanges
<1>0. /\ Alive(c) /\ UNCHANGED <<conn, id, proc>>
      /\ \A d \in Conns \ {c} : cl'[d] = cl[d]
      /\ \E i \in ClientIds : /\ cl'[c].EN = [cl[c].EN EXCEPT ![i] = Null]
                              /\ cl[c].EN[i] \notin {Null, Torn} => cl[c].EN[i] \in Lost
  BY GoneStep DEF Listening
<1>1. PICK i \in ClientIds : /\ cl'[c].EN = [cl[c].EN EXCEPT ![i] = Null]
                             /\ cl[c].EN[i] \notin {Null, Torn} => cl[c].EN[i] \in Lost
  BY <1>0
<1>e. cl[c].EN \in [1 .. Server -> Fds]
  BY DEF MemInv, BaseInv, ServerType, ClientType, Fds
<1>m. PICK M : M = {cl[c].EN[i]} \ {Null, Torn}
  OBVIOUS
<1>2. /\ AbsHolds' = AbsHolds /\ AbsJoined' = AbsJoined /\ AbsEnded' = AbsEnded
  BY <1>0 DEF AbsHolds, AbsJoined, AbsEnded, Alive
<1>3. M \subseteq Rings(c)
  BY <1>0, <1>m DEF Rings, Ring
<1>4. \A n \in Conns : AbsHolds[n] # NoId => n \notin M
  <2>1. \A n \in M : n \in Lost
    BY <1>1, <1>m
  <2>2. \A n \in Lost : AbsHolds[n] = NoId
    BY DEF AbsHolds, Lost
  <2> QED
    BY <2>1, <2>2
<1>5. \A d \in Conns \ {c} : Rings(d)' = Rings(d)
  BY <1>0 DEF Rings, Alive
<1>6. Rings(c)' = Rings(c) \ M
  <2>1. \A j \in ClientIds : cl[c].EN[j] \notin {Null, Torn} =>
          cl[c].EN[j] \in Conns /\ id[cl[c].EN[j]] = j
    BY <1>0, NamedHolds DEF Named, Holders
  <2>2. \A j \in ClientIds \ {i} : cl[c].EN[j] \notin M
    BY <2>1, <1>m
  <2>3. \A j \in ClientIds \ {i} : cl'[c].EN[j] = cl[c].EN[j]
    BY <1>1, <1>e
  <2>4. cl'[c].EN[i] = Null
    BY <1>1, <1>e
  <2>5. Ring(cl'[c].EN) = Ring(cl[c].EN) \ M
    BY <1>m, <2>2, <2>3, <2>4 DEF Ring
  <2> QED
    BY <1>0, <2>5 DEF Rings, Alive
<1>7. AbsView' = [AbsView EXCEPT ![c] = @ \ M]
  BY <1>5, <1>6 DEF AbsView
<1>8. Mem!Forget(c, M)
  BY <1>2, <1>4, <1>7 DEF Mem!Forget, Mem!Members, AbsHolds, AbsJoined, AbsView, AbsEnded, Rings, Ring
<1> QED
  BY <1>3, <1>8

LEMMA InitRefines == Init => Mem!Init
  BY IdFacts DEF Init, Mem!Init, Alive

LEMMA StepRefines ==
    ASSUME Accepted, ~ Recycle, MemInv, MemInv', [Next]_vars
    PROVE  [Mem!Next]_(Mem!vars)
<1>s. AbsSame => UNCHANGED Mem!vars
  BY DEF AbsSame, Mem!vars, AbsHolds, AbsJoined, AbsView, AbsEnded, Rings, Ring
<1>1. ASSUME NEW c \in Conns, NEW i \in ClientIds \cup {Rejected},
             NEW ok \in BOOLEAN, ConnectionMade(c, i, ok)
      PROVE  Mem!Next \/ UNCHANGED Mem!vars
  BY <1>1, <1>s, MadeRefines DEF Mem!Next
<1>2. ASSUME NEW c \in Conns, ConnectionLost(c) PROVE Mem!Next
  BY <1>2, LostRefines DEF Mem!Next
<1>3. ASSUME NEW c \in Conns,
             \/ Start(c) \/ Kill(c) \/ Quit(c) \/ Command(c)
             \/ \E k \in 1 .. 3 : DataRejected(c, k)
      PROVE  Mem!Next \/ UNCHANGED Mem!vars
  BY <1>3, <1>s, IdleRefines DEF Mem!Next
<1>4. ASSUME NEW c \in Conns, NEW k \in 1 .. 3, InitialInfo(c, k)
      PROVE  UNCHANGED Mem!vars
  <2>1. /\ UNCHANGED <<conn, id, en, clients, recycled, proc>>
        /\ cl' = [cl EXCEPT ![c].id = id[c]] /\ ServerType
    BY <1>4, InfoFacts, MemFacts DEF MemInv
  <2>2. \A d \in Conns : cl'[d].EN = cl[d].EN
    BY <2>1 DEF ServerType, ClientType
  <2>3. AbsSame
    BY <2>1, <2>2 DEF AbsSame, AbsHolds, AbsJoined, AbsView, AbsEnded, Rings, Alive
  <2> QED
    BY <2>3, <1>s
<1>5. ASSUME NEW c \in Conns, PeerBatch(c) PROVE Mem!Next
  BY <1>5, BatchRefines DEF Mem!Next, AbsJoined
<1>6. ASSUME NEW c \in Conns, PeerGone(c) PROVE Mem!Next
  BY <1>6, GoneRefines DEF Mem!Next, Rings, Ring
<1>7. ASSUME NEW c \in Conns, NEW k \in 1 .. Len(inbox[c]), SendFails(c, k)
      PROVE  UNCHANGED Mem!vars
  <2>1. UNCHANGED <<conn, id, proc, cl>>
    BY <1>7 DEF SendFails
  <2>2. AbsSame
    BY <2>1 DEF AbsSame, AbsHolds, AbsJoined, AbsView, AbsEnded, Rings, Alive
  <2> QED
    BY <2>2, <1>s
<1>8. CASE UNCHANGED vars
  BY <1>8, <1>s DEF vars, AbsSame, AbsHolds, AbsJoined, AbsView, AbsEnded, Rings, Alive
<1> QED
  BY <1>1, <1>2, <1>3, <1>4, <1>5, <1>6, <1>7, <1>8 DEF Next, ServerStep, DataReceived

\* Without recycling, for any number of connections and clients, the server
\* and its clients implement Membership: no id has two holders, and a client
\* takes in only peers that joined and forgets only peers that were lost,
\* whatever the order in which sockets are read and processes die, and whatever
\* sends fail.
THEOREM ImplementsTheorem == ASSUME Accepted, ~ Recycle PROVE Spec => Implements
<1>1. MemInv /\ [Next]_vars => MemInv'
  BY MemStep
<1>2. MemInv /\ MemInv' /\ [Next]_vars => [Mem!Next]_(Mem!vars)
  BY StepRefines
<1> QED
  BY MemInit, InitRefines, <1>1, <1>2, PTL DEF Spec, Implements, Mem!Spec
===============================================================================
