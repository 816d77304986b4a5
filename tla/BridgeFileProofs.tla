--------------------------- MODULE BridgeFileProofs ---------------------------
(***************************************************************************)
(* The bridge device has one user at a time, for any number of opens and   *)
(* any overlap of system calls.                                            *)
(*                                                                         *)
(* nr_users is not the number of users: a file whose last descriptor was   *)
(* closed while a call was running is never counted out.  The argument     *)
(* needs one direction only.  CountInv: nr_users is at least the number of *)
(* opens under way and of files that something but a finished flush still  *)
(* refers to.  So an open that finds zero finds none of those (OneInv).    *)
(*                                                                         *)
(* As long as no two calls have overlapped (SeqInv), at most one file is   *)
(* inside a call, the buffers are its own, and nr_users is exact.          *)
(***************************************************************************)
EXTENDS BridgeFile, FiniteSetTheorems, TLAPS

Live(f) == ref[f]["fd"] + ref[f]["call"] + ref[f]["close"] + ref[f]["dec"] > 0
Counted == {f \in Files : st[f] \in {"alloc", "reject"} \/ Live(f)}
Owner(f) == st[f] = "alloc" \/ Live(f)

RefType == /\ ref \in [Files -> [Holders -> Nat]]
           /\ nr_users \in Int
           /\ st \in [Files -> Stages]
DecInv == \A f \in Files : ref[f]["dec"] > 0 => f_count(f) = 1
NewInv == \A f \in Files : st[f] \in {"none", "alloc", "reject"} =>
              \A h \in Holders : ref[f][h] = 0
CountInv == nr_users >= Cardinality(Counted)
OneInv == \A f, g \in Files : (Owner(f) /\ Owner(g)) => f = g

Inv == RefType /\ DecInv /\ NewInv /\ CountInv /\ OneInv

-------------------------------------------------------------------------------

\* Subsets of Files have a size, and a smaller set a smaller one.
LEMMA Sizes == ASSUME NEW S \in SUBSET Files, NEW T \in SUBSET Files
               PROVE  /\ IsFiniteSet(S)
                      /\ Cardinality(S) \in Nat
                      /\ Cardinality(T) \in Nat
                      /\ T \subseteq S => Cardinality(T) <= Cardinality(S)
<1>1. IsFiniteSet(S) /\ IsFiniteSet(T)
  BY FilesAssumption, FS_Subset
<1>2. Cardinality(S) \in Nat /\ Cardinality(T) \in Nat
  BY <1>1, FS_CardinalityType
<1>3. T \subseteq S => Cardinality(T) <= Cardinality(S)
  BY <1>1, FS_Subset
<1> QED
  BY <1>1, <1>2, <1>3

\* One element more or less changes the size by one.
LEMMA SizesByOne == ASSUME NEW S \in SUBSET Files, NEW f \in Files
                    PROVE  /\ Cardinality(S \cup {f}) <= Cardinality(S) + 1
                           /\ f \in S => Cardinality(S \ {f}) = Cardinality(S) - 1
<1>1. IsFiniteSet(S)
  BY FilesAssumption, FS_Subset
<1>2. Cardinality(S) \in Nat
  BY <1>1, FS_CardinalityType
<1> QED
  BY <1>1, <1>2, FS_AddElement, FS_RemoveElement

LEMMA NoneCounted == ASSUME RefType, CountInv, nr_users = 0
                     PROVE  Counted = {}
<1>1. Counted \in SUBSET Files
  BY DEF Counted
<1>2. IsFiniteSet(Counted) /\ Cardinality(Counted) \in Nat
  BY <1>1, Sizes
<1>3. Cardinality(Counted) = 0
  BY <1>2 DEF CountInv, RefType
<1> QED
  BY <1>2, <1>3, FS_EmptySet

\* What Hold does to the references.
LEMMA HoldFacts ==
    ASSUME RefType, NEW f \in Files, NEW from \in Holders \cup {"nobody"},
           NEW to \in Holders \cup {"nobody"}, Hold(f, from, to),
           from \in Holders => ref[f][from] > 0
    PROVE  /\ ref' \in [Files -> [Holders -> Nat]]
           /\ \A g \in Files \ {f} : ref'[g] = ref[g]
           /\ \A h \in Holders : ref'[f][h] =
                ref[f][h] + (IF h = to THEN 1 ELSE 0) - (IF h = from THEN 1 ELSE 0)
  BY DEF RefType, Hold

LEMMA InvInit == Init => Inv
<1> SUFFICES ASSUME Init PROVE Inv
  OBVIOUS
<1>1. RefType /\ DecInv /\ NewInv /\ OneInv
  BY DEF Init, RefType, Stages, DecInv, NewInv, OneInv, Owner, Live, Holders, f_count
<1>2. Counted = {}
  BY DEF Init, Counted, Live, Holders
<1>3. Cardinality(Counted) = 0
  BY <1>2, FS_EmptySet
<1>4. CountInv
  BY <1>3 DEF CountInv, Init
<1> QED
  BY <1>1, <1>4 DEF Inv

-------------------------------------------------------------------------------

LEMMA InvStep == Inv /\ [Next]_vars => Inv'
<1> SUFFICES ASSUME Inv, [Next]_vars PROVE Inv'
  OBVIOUS
<1> USE DEF Inv
<1>s. Counted \in SUBSET Files /\ Counted' \in SUBSET Files
  BY DEF Counted
<1>c. Cardinality(Counted) \in Nat /\ Cardinality(Counted') \in Nat
  BY <1>s, Sizes
<1>1. ASSUME NEW f \in Files, OpenEnter(f) PROVE Inv'
  <2>1. RefType' /\ DecInv' /\ NewInv'
    BY <1>1 DEF OpenEnter, RefType, Stages, DecInv, NewInv, f_count, Holders
  <2>2. Counted' = Counted \cup {f}
    BY <1>1 DEF OpenEnter, Counted, Live, RefType
  <2>c. Cardinality(Counted') <= Cardinality(Counted) + 1
    BY <1>s, <2>2, SizesByOne
  <2>3. CountInv'
    BY <1>1, <1>c, <2>c DEF OpenEnter, CountInv, RefType
  <2>4. CASE nr_users = 0
    <3>1. \A g \in Files : ~ Owner(g)
      BY <2>4, NoneCounted DEF Counted, Owner
    <3>2. \A g \in Files : Owner(g)' => g = f
      BY <1>1, <3>1 DEF OpenEnter, Owner, Live, RefType
    <3> QED
      BY <2>1, <2>3, <3>2 DEF OneInv
  <2>5. CASE nr_users # 0
    <3>1. \A g \in Files : Owner(g)' => Owner(g)
      BY <1>1, <2>5 DEF OpenEnter, Owner, Live, RefType
    <3> QED
      BY <2>1, <2>3, <3>1 DEF OneInv
  <2> QED
    BY <2>4, <2>5
<1>2. ASSUME NEW f \in Files, NEW ok \in BOOLEAN, OpenAlloc(f, ok) PROVE Inv'
  <2>z. \A h \in Holders : ref[f][h] = 0
    BY <1>2 DEF OpenAlloc, NewInv
  <2>t. RefType'
    BY <1>2 DEF OpenAlloc, RefType, Stages, Holders
  <2>g. \A g \in Files \ {f} : ref'[g] = ref[g] /\ st'[g] = st[g]
    BY <1>2 DEF OpenAlloc, RefType
  <2>f. /\ \A h \in Holders \ {"fd"} : ref'[f][h] = 0
        /\ ref'[f]["fd"] = IF ok THEN 1 ELSE 0
        /\ st'[f] = IF ok THEN "open" ELSE "reject"
    BY <1>2, <2>z DEF OpenAlloc, RefType, Holders
  <2>1. RefType' /\ DecInv' /\ NewInv'
    BY <2>t, <2>g, <2>f DEF DecInv, NewInv, f_count, Holders
  <2>2. Counted' \subseteq Counted
    BY <1>2 DEF OpenAlloc, Counted, Live, RefType, Holders
  <2>3. CountInv'
    BY <1>2, <1>s, <1>c, <2>2, Sizes DEF OpenAlloc, CountInv, RefType
  <2>4. \A g \in Files : Owner(g)' => Owner(g)
    BY <1>2 DEF OpenAlloc, Owner, Live, RefType, Holders
  <2> QED
    BY <2>1, <2>3, <2>4 DEF OneInv
<1>3. ASSUME NEW f \in Files, OpenReject(f) PROVE Inv'
  <2>1. RefType' /\ DecInv' /\ NewInv'
    BY <1>3 DEF OpenReject, RefType, Stages, DecInv, NewInv, f_count
  <2>2. f \in Counted /\ Counted' = Counted \ {f}
    BY <1>3 DEF OpenReject, Counted, Live, RefType, NewInv, f_count, Holders
  <2>3. CountInv'
    BY <1>3, <1>s, <1>c, <2>2, SizesByOne DEF OpenReject, CountInv, RefType
  <2>4. \A g \in Files : Owner(g)' => Owner(g)
    BY <1>3 DEF OpenReject, Owner, Live, RefType
  <2> QED
    BY <2>1, <2>3, <2>4 DEF OneInv
<1>4. ASSUME NEW f \in Files, Dup(f) \/ CallEnter(f) \/ Close(f) PROVE Inv'
  <2>1. PICK from \in Holders \cup {"nobody"}, to \in Holders :
          /\ Hold(f, from, to)
          /\ from \in Holders => ref[f][from] > 0
          /\ \/ from = "nobody" /\ to \in {"fd", "call"}
             \/ from = "fd" /\ to = "close"
    BY <1>4 DEF Dup, CallEnter, Close, Holders
  <2>2. nr_users' = nr_users /\ st' = st /\ ref[f]["fd"] > 0
    BY <1>4 DEF Dup, CallEnter, Close
  <2>h. /\ ref' \in [Files -> [Holders -> Nat]]
        /\ \A g \in Files \ {f} : ref'[g] = ref[g]
        /\ \A h \in Holders : ref'[f][h] =
             ref[f][h] + (IF h = to THEN 1 ELSE 0) - (IF h = from THEN 1 ELSE 0)
    BY <2>1, HoldFacts
  <2>z. ref[f]["dec"] = 0 /\ st[f] \notin {"none", "alloc", "reject"}
    BY <2>2 DEF RefType, DecInv, NewInv, f_count, Holders
  <2>d. ref'[f]["dec"] = 0
    BY <2>1, <2>z, <2>h DEF Holders
  <2>r. RefType' /\ NewInv'
    BY <2>2, <2>h, <2>z DEF RefType, NewInv, f_count
  <2>i. DecInv'
    BY <2>h, <2>d DEF DecInv, f_count
  <2>3. RefType' /\ DecInv' /\ NewInv'
    BY <2>r, <2>i
  <2>4. \A g \in Files : Live(g)' => Live(g)
    BY <2>1, <2>2, <2>h DEF RefType, Live, Holders
  <2>5. Counted' \subseteq Counted
    BY <2>2, <2>4 DEF Counted
  <2>6. CountInv'
    BY <1>s, <1>c, <2>2, <2>5, Sizes DEF CountInv, RefType
  <2>7. OneInv'
    BY <2>2, <2>4 DEF OneInv, Owner
  <2> QED
    BY <2>3, <2>6, <2>7
<1>5. ASSUME NEW f \in Files, NEW from \in {"call", "put"}, Put(f, from) PROVE Inv'
  <2>1. Hold(f, from, "nobody") /\ ref[f][from] > 0 /\ from \in Holders
    BY <1>5 DEF Put, Holders
  <2>h. /\ ref' \in [Files -> [Holders -> Nat]]
        /\ \A g \in Files \ {f} : ref'[g] = ref[g]
        /\ \A h \in Holders : ref'[f][h] = ref[f][h] - (IF h = from THEN 1 ELSE 0)
    BY <2>1, HoldFacts DEF Holders, RefType
  <2>2. st[f] \notin {"alloc", "reject", "none"}
    BY <2>1 DEF NewInv
  <2>3. nr_users' = nr_users /\ st' \in [Files -> Stages]
        /\ \A g \in Files : st'[g] = st[g] \/ (g = f /\ st'[g] = "release")
    BY <1>5 DEF Put, RefType, Stages
  <2>4. RefType' /\ DecInv' /\ NewInv'
    BY <1>5, <2>1, <2>2, <2>3, <2>h DEF RefType, DecInv, NewInv, f_count, Holders
  <2>5. \A g \in Files : Live(g)' => Live(g)
    BY <1>5, <2>1, <2>h DEF RefType, Live, Holders
  <2>6. Counted' \subseteq Counted
    BY <2>3, <2>5 DEF Counted
  <2>7. CountInv'
    BY <1>s, <1>c, <2>3, <2>6, Sizes DEF CountInv, RefType
  <2>8. OneInv'
    BY <2>3, <2>5 DEF OneInv, Owner
  <2> QED
    BY <2>4, <2>7, <2>8
<1>6. ASSUME NEW f \in Files, Flush(f) PROVE Inv'
  <2>1. PICK to \in {"dec", "put"} :
          Hold(f, "close", to) /\ (to = "dec" => f_count(f) = 1)
    BY <1>6 DEF Flush
  <2>2. nr_users' = nr_users /\ st' = st /\ ref[f]["close"] > 0
    BY <1>6 DEF Flush
  <2>h. /\ ref' \in [Files -> [Holders -> Nat]]
        /\ \A g \in Files \ {f} : ref'[g] = ref[g]
        /\ \A h \in Holders : ref'[f][h] =
             ref[f][h] + (IF h = to THEN 1 ELSE 0) - (IF h = "close" THEN 1 ELSE 0)
    BY <2>1, <2>2, HoldFacts DEF Holders
  <2>3. RefType' /\ DecInv' /\ NewInv'
    BY <2>1, <2>2, <2>h DEF RefType, DecInv, NewInv, f_count, Holders
  <2>4. \A g \in Files : Live(g)' => Live(g)
    BY <2>1, <2>2, <2>h DEF RefType, Live, Holders
  <2>5. Counted' \subseteq Counted
    BY <2>2, <2>4 DEF Counted
  <2>6. CountInv'
    BY <1>s, <1>c, <2>2, <2>5, Sizes DEF CountInv, RefType
  <2>7. OneInv'
    BY <2>2, <2>4 DEF OneInv, Owner
  <2> QED
    BY <2>3, <2>6, <2>7
<1>7. ASSUME NEW f \in Files, FlushDec(f) PROVE Inv'
  <2>1. /\ Hold(f, "dec", "put") /\ ref[f]["dec"] > 0 /\ f_count(f) = 1
        /\ nr_users' = nr_users - 1 /\ st' = st
    BY <1>7 DEF FlushDec, DecInv
  <2>h. /\ ref' \in [Files -> [Holders -> Nat]]
        /\ \A g \in Files \ {f} : ref'[g] = ref[g]
        /\ \A h \in Holders : ref'[f][h] =
             ref[f][h] + (IF h = "put" THEN 1 ELSE 0) - (IF h = "dec" THEN 1 ELSE 0)
    BY <2>1, HoldFacts DEF Holders
  <2>3. RefType' /\ DecInv' /\ NewInv'
    BY <2>1, <2>h DEF RefType, DecInv, NewInv, f_count, Holders
  <2>4. Live(f) /\ ~ Live(f)' /\ st[f] \notin {"alloc", "reject"}
    BY <2>1, <2>h DEF RefType, Live, Holders, f_count, NewInv
  <2>5. \A g \in Files \ {f} : Live(g)' = Live(g)
    BY <2>h DEF Live
  <2>6. f \in Counted /\ Counted' = Counted \ {f}
    BY <2>1, <2>4, <2>5 DEF Counted
  <2>7. CountInv'
    BY <1>s, <1>c, <2>1, <2>6, SizesByOne DEF CountInv, RefType
  <2>8. OneInv'
    BY <2>1, <2>4, <2>5 DEF OneInv, Owner
  <2> QED
    BY <2>3, <2>7, <2>8
<1>8. ASSUME NEW f \in Files, ReleaseEnter(f) \/ ReleaseCheck(f) \/ ReleaseFree(f)
      PROVE  Inv'
  <2>1. /\ nr_users' = nr_users /\ ref' = ref /\ st' \in [Files -> Stages]
        /\ \A g \in Files : st'[g] = st[g]
             \/ {st[g], st'[g]} \cap {"none", "alloc", "reject"} = {}
    BY <1>8 DEF ReleaseEnter, ReleaseCheck, ReleaseFree, RefType, Stages
  <2>2. RefType' /\ DecInv' /\ NewInv'
    BY <2>1 DEF RefType, DecInv, NewInv, f_count
  <2>3. Counted' = Counted
    BY <2>1 DEF Counted, Live
  <2>4. CountInv' /\ OneInv'
    BY <2>1, <2>3 DEF CountInv, OneInv, Owner, Live
  <2> QED
    BY <2>2, <2>4
<1>9. CASE UNCHANGED vars
  <2>1. nr_users' = nr_users /\ ref' = ref /\ st' = st
    BY <1>9 DEF vars
  <2>2. RefType' /\ DecInv' /\ NewInv' /\ OneInv' /\ Counted' = Counted
    BY <2>1 DEF RefType, DecInv, NewInv, OneInv, Owner, Live, f_count, Counted
  <2> QED
    BY <2>1, <2>2 DEF CountInv
<1> QED
  BY <1>1, <1>2, <1>3, <1>4, <1>5, <1>6, <1>7, <1>8, <1>9 DEF Next

-------------------------------------------------------------------------------
(***************************************************************************)
(* What holds as long as no two system calls have overlapped.  A file is   *)
(* referred to exactly while it is open (OpenInv), whatever overlaps.      *)
(* Without overlap at most one file is inside a call, at most one is past  *)
(* the test of open and not yet released, the buffers are its own, and     *)
(* nr_users is exact: the close that finds f_count at one is the one whose *)
(* fput comes last.                                                        *)
(***************************************************************************)

Inner  == Holders \ {"fd"}
Mid    == {"alloc", "reject", "release", "check", "free"}
Busy(f) == st[f] \in Mid \/ \E h \in Inner : ref[f][h] > 0
Kept(f) == st[f] \in {"open", "release", "check", "free"}

RestType == /\ outgoing \in Files \cup {Null}
            /\ buffers \in [Files -> Files \cup {Null}]
            /\ heap \subseteq Files
BoolType == overlapped \in BOOLEAN
Started  == {f \in Files : st[f] # "none"}
StartInv == nr_users <= Cardinality(Started)
OpenInv  == \A f \in Files : IF st[f] = "open" THEN f_count(f) > 0
                             ELSE \A h \in Holders : ref[f][h] = 0

BusyInv == /\ \A f, g \in Files : (Busy(f) /\ Busy(g)) => f = g
           /\ \A f \in Files : \A h, k \in Inner :
                (ref[f][h] > 0 /\ ref[f][k] > 0) => h = k
           /\ \A f \in Files : /\ ref[f]["call"] > 0 => ref[f]["fd"] > 0
                               /\ \A h \in Inner : ref[f][h] <= 1
KeptInv == /\ \A f, g \in Files : (Kept(f) /\ (Kept(g) \/ st[g] = "alloc")) => f = g
           /\ \A f \in Files : /\ Kept(f) => outgoing = f /\ f \in heap
                               /\ st[f] \in {"check", "free"} => buffers[f] = f
                               /\ st[f] # "bug"
           /\ \A f \in heap : Kept(f)
           /\ outgoing \in Files => Kept(outgoing)
ExactInv == nr_users = Cardinality(Counted)

SeqInv == ~ overlapped => BusyInv /\ KeptInv /\ ExactInv

FullInv == Inv /\ RestType /\ BoolType /\ StartInv /\ OpenInv /\ SeqInv

-------------------------------------------------------------------------------

\* A call that starts, and leaves overlapped unset, finds nobody inside a call.
LEMMA StartsAlone ==
    ASSUME RefType, BoolType, Starts, ~ overlapped'
    PROVE  ~ overlapped /\ \A g \in Files : ~ Busy(g)
<1>1. ~ overlapped /\ Quiet
  BY Zenon DEF Starts, BoolType
<1> QED
  BY <1>1 DEF Quiet, Busy, Inner, Mid, Holders, RefType

\* Without overlap, a device that counts no user and has no call inside it has
\* no open file.
LEMMA IdleFree ==
    ASSUME Inv, OpenInv, nr_users = 0, \A g \in Files : ~ Busy(g)
    PROVE  \A g \in Files : ~ Kept(g)
<1>1. Counted = {}
  BY NoneCounted DEF Inv
<1> SUFFICES ASSUME NEW g \in Files, st[g] = "open" PROVE FALSE
  BY DEF Kept, Busy, Mid
<1>2. f_count(g) > 0 /\ ~ Live(g)
  BY <1>1 DEF OpenInv, Counted
<1>3. \A h \in Inner : ref[g][h] = 0
  BY DEF Busy, Inv, RefType, Inner
<1> QED
  BY <1>2, <1>3 DEF f_count, Live, Inv, RefType, Inner, Holders

\* Counts that add up to one, or to zero.
LEMMA LastRef ==
    ASSUME NEW a \in Nat, NEW b \in Nat, NEW c \in Nat, NEW d \in Nat, NEW e \in Nat,
           a + b + c + d + e = 1
    PROVE  b > 0 => b = 1 /\ a = 0 /\ c = 0 /\ d = 0 /\ e = 0
  OBVIOUS

LEMMA NoRefs ==
    \A a, b, c, d \in Nat : a + b + c + d = 0 => a = 0 /\ b = 0 /\ c = 0 /\ d = 0
  OBVIOUS

\* The part of the invariant that holds whatever overlaps.
LEMMA RestStep == ASSUME FullInv, [Next]_vars, Inv'
                  PROVE  RestType' /\ BoolType' /\ StartInv' /\ OpenInv'
<1> USE DEF FullInv, Inv
<1>1. RestType'
  BY DEF Next, vars, OpenEnter, OpenAlloc, OpenReject, Dup, CallEnter, Close, Put, Flush,
         FlushDec, ReleaseEnter, ReleaseCheck, ReleaseFree, RestType
<1>2. BoolType'
  BY Zenon DEF Next, vars, OpenEnter, OpenAlloc, OpenReject, Dup, CallEnter, Close, Put, Flush,
         FlushDec, ReleaseEnter, ReleaseCheck, ReleaseFree, BoolType, Starts
<1>3. StartInv'
  <2>1. Started \in SUBSET Files /\ Started' \in SUBSET Files
    BY DEF Started
  <2>2. Cardinality(Started) \in Nat /\ Cardinality(Started') \in Nat
    BY <2>1, Sizes
  <2>3. CASE \E f \in Files : OpenEnter(f)
    <3>1. PICK f \in Files : OpenEnter(f)
      BY <2>3
    <3>2. f \in Started' /\ Started = Started' \ {f}
      BY <3>1 DEF OpenEnter, Started, RefType
    <3>3. Cardinality(Started) = Cardinality(Started') - 1
      BY <2>1, <3>2, SizesByOne
    <3>4. nr_users' = nr_users + 1
      BY <3>1 DEF OpenEnter
    <3> QED
      BY <2>2, <3>3, <3>4 DEF StartInv, RefType
  <2>4. CASE ~ \E f \in Files : OpenEnter(f)
    <3>1. nr_users' = nr_users \/ nr_users' = nr_users - 1
      BY <2>4 DEF Next, vars, OpenAlloc, OpenReject, Dup, CallEnter, Close, Put, Flush,
           FlushDec, ReleaseEnter, ReleaseCheck, ReleaseFree
    <3>2. \A f \in Files : st[f] # "none" => st'[f] # "none"
      BY <2>4 DEF Next, vars, OpenAlloc, OpenReject, Dup, CallEnter, Close, Put, Flush,
           FlushDec, ReleaseEnter, ReleaseCheck, ReleaseFree, RefType
    <3>3. Started \subseteq Started'
      BY <3>2 DEF Started
    <3>4. Cardinality(Started) <= Cardinality(Started')
      BY <2>1, <3>3, Sizes
    <3> QED
      BY <2>2, <3>1, <3>4 DEF StartInv, RefType
  <2> QED
    BY <2>3, <2>4
<1>4. OpenInv'
  <2>1. ASSUME NEW f \in Files, OpenEnter(f) \/ OpenReject(f) PROVE OpenInv'
    BY <2>1 DEF OpenEnter, OpenReject, OpenInv, f_count, RefType
  <2>2. ASSUME NEW f \in Files, NEW ok \in BOOLEAN, OpenAlloc(f, ok) PROVE OpenInv'
    <3>1. \A h \in Holders : ref[f][h] = 0
      BY <2>2 DEF OpenAlloc, NewInv
    <3>2. \A g \in Files \ {f} : ref'[g] = ref[g] /\ st'[g] = st[g]
      BY <2>2 DEF OpenAlloc, RefType
    <3>3. /\ \A h \in Holders \ {"fd"} : ref'[f][h] = 0
          /\ ref'[f]["fd"] = IF ok THEN 1 ELSE 0
          /\ st'[f] = IF ok THEN "open" ELSE "reject"
      BY <2>2, <3>1 DEF OpenAlloc, RefType, Holders
    <3> QED
      BY <3>2, <3>3 DEF OpenInv, f_count, Holders
  <2>3. ASSUME NEW f \in Files, NEW from \in Holders \cup {"nobody"}, NEW to \in Holders,
               Hold(f, from, to), from \in Holders => ref[f][from] > 0, st' = st,
               st[f] = "open"
        PROVE  OpenInv'
    <3>h. /\ ref' \in [Files -> [Holders -> Nat]]
          /\ \A g \in Files \ {f} : ref'[g] = ref[g]
          /\ \A h \in Holders : ref'[f][h] =
               ref[f][h] + (IF h = to THEN 1 ELSE 0) - (IF h = from THEN 1 ELSE 0)
      BY <2>3, HoldFacts
    <3>1. f_count(f)' > 0
      <4>1. ref'[f][to] > 0
        BY <2>3, <3>h DEF RefType
      <4> QED
        BY <3>h, <4>1 DEF f_count, Holders
    <3> QED
      BY <2>3, <3>h, <3>1 DEF OpenInv, f_count
  <2>4. ASSUME NEW f \in Files, NEW h \in Holders, ref[f][h] > 0 PROVE st[f] = "open"
    BY <2>4 DEF OpenInv
  <2>5. ASSUME NEW f \in Files, Dup(f) \/ CallEnter(f) \/ Close(f) \/ Flush(f) \/ FlushDec(f)
        PROVE OpenInv'
    BY <2>3, <2>4, <2>5 DEF Dup, CallEnter, Close, Flush, FlushDec, Holders
  <2>6. ASSUME NEW f \in Files, NEW from \in {"call", "put"}, Put(f, from) PROVE OpenInv'
    <3>1. Hold(f, from, "nobody") /\ ref[f][from] > 0 /\ from \in Holders
      BY <2>6 DEF Put, Holders
    <3>h. /\ ref' \in [Files -> [Holders -> Nat]]
          /\ \A g \in Files \ {f} : ref'[g] = ref[g]
          /\ \A h \in Holders : ref'[f][h] = ref[f][h] - (IF h = from THEN 1 ELSE 0)
      BY <3>1, HoldFacts DEF Holders, RefType
    <3>2. st[f] = "open"
      BY <2>4, <3>1
    <3>3. \A g \in Files \ {f} : st'[g] = st[g]
      BY <2>6 DEF Put, RefType
    <3>4. CASE f_count(f) = 1
      <4>1. st'[f] = "release"
        BY <2>6, <3>4 DEF Put, RefType
      <4>2. \A h \in Holders : ref'[f][h] = 0
        <5>1. /\ ref[f]["fd"] \in Nat /\ ref[f]["call"] \in Nat /\ ref[f]["close"] \in Nat
              /\ ref[f]["dec"] \in Nat /\ ref[f]["put"] \in Nat
          BY DEF RefType, Holders
        <5>s. ref[f]["fd"] + ref[f]["call"] + ref[f]["close"] + ref[f]["dec"]
              + ref[f]["put"] = 1
          BY <3>4 DEF f_count
        <5>2. ref[f][from] = 1 /\ \A h \in Holders \ {from} : ref[f][h] = 0
          <6>1. CASE from = "call"
            <7>1. /\ ref[f]["call"] = 1 /\ ref[f]["fd"] = 0 /\ ref[f]["close"] = 0
                  /\ ref[f]["dec"] = 0 /\ ref[f]["put"] = 0
              <8>1. ref[f]["call"] > 0
                BY <3>1, <6>1
              <8> QED
                BY <5>1, <5>s, <8>1, LastRef
            <7> QED
              BY <6>1, <7>1 DEF Holders
          <6>2. CASE from = "put"
            <7>1. /\ ref[f]["call"] = 0 /\ ref[f]["fd"] = 0 /\ ref[f]["close"] = 0
                  /\ ref[f]["dec"] = 0 /\ ref[f]["put"] = 1
              <8>1. ref[f]["put"] > 0
                BY <3>1, <6>2
              <8>2. ref[f]["put"] = 1 - (ref[f]["fd"] + ref[f]["call"] + ref[f]["close"]
                                         + ref[f]["dec"])
                BY <5>1, <5>s
              <8>3. ref[f]["fd"] + ref[f]["call"] + ref[f]["close"] + ref[f]["dec"] = 0
                BY <5>1, <8>1, <8>2
              <8>4. ref[f]["put"] = 1
                BY <8>2, <8>3
              <8>5. ref[f]["fd"] = 0 /\ ref[f]["call"] = 0 /\ ref[f]["close"] = 0
                    /\ ref[f]["dec"] = 0
                BY <5>1, <8>3, NoRefs
              <8> QED
                BY <8>4, <8>5
            <7> QED
              BY <6>2, <7>1 DEF Holders
          <6> QED
            BY <2>6, <6>1, <6>2
        <5> QED
          BY <3>h, <5>2
      <4> QED
        BY <3>h, <3>3, <4>1, <4>2, ZenonT(60) DEF OpenInv, f_count
    <3>5. CASE f_count(f) # 1
      <4>1. st'[f] = "open"
        BY <2>6, <3>2, <3>5 DEF Put, RefType
      <4>2. f_count(f)' > 0
        BY <2>6, <3>2, <3>5, <3>h DEF f_count, Holders, RefType, OpenInv
      <4> QED
        BY <3>h, <3>3, <4>1, <4>2 DEF OpenInv, f_count
    <3> QED
      BY <3>4, <3>5
  <2>7. ASSUME NEW f \in Files, ReleaseEnter(f) \/ ReleaseCheck(f) \/ ReleaseFree(f)
        PROVE  OpenInv'
    BY <2>7 DEF ReleaseEnter, ReleaseCheck, ReleaseFree, OpenInv, RefType, f_count
  <2>8. CASE UNCHANGED vars
    BY <2>8 DEF vars, OpenInv, f_count
  <2> QED
    BY <2>1, <2>2, <2>5, <2>6, <2>7, <2>8 DEF Next
<1> QED
  BY <1>1, <1>2, <1>3, <1>4

\* A step that leaves the buffers to the file that has them.
LEMMA KeptSame ==
    ASSUME KeptInv, heap' = heap, heap \subseteq Files, outgoing' = outgoing,
           \A g \in Files : /\ Kept(g)' <=> Kept(g)
                            /\ st'[g] = "alloc" => st[g] = "alloc"
                            /\ st'[g] \in {"check", "free"} => buffers'[g] = g
                            /\ st'[g] # "bug"
    PROVE  KeptInv'
<1>1. \A f, g \in Files : (Kept(f)' /\ (Kept(g)' \/ st'[g] = "alloc")) => f = g
  BY DEF KeptInv
<1>2. \A f \in Files : Kept(f)' => outgoing' = f /\ f \in heap'
  BY DEF KeptInv
<1>3. \A f \in heap' : Kept(f)'
  BY DEF KeptInv
<1>4. outgoing' \in Files => Kept(outgoing)'
  BY DEF KeptInv, Kept
<1> QED
  BY <1>1, <1>2, <1>3, <1>4 DEF KeptInv

\* The part that holds until two calls overlap, action by action.
LEMMA SeqStep == ASSUME FullInv, [Next]_vars, ~ overlapped'
                 PROVE  BusyInv' /\ KeptInv' /\ ExactInv'
<1> USE DEF FullInv, Inv
<1>s. Counted \in SUBSET Files /\ Counted' \in SUBSET Files
  BY DEF Counted
<1>c. Cardinality(Counted) \in Nat /\ Cardinality(Counted') \in Nat
  BY <1>s, Sizes
<1>1. ASSUME NEW f \in Files, OpenEnter(f) PROVE BusyInv' /\ KeptInv' /\ ExactInv'
  <2>a. ~ overlapped /\ \A g \in Files : ~ Busy(g)
    BY <1>1, StartsAlone DEF OpenEnter
  <2>b. BusyInv /\ KeptInv /\ ExactInv
    BY <2>a DEF SeqInv
  <2>f. /\ ref' = ref /\ heap' = heap /\ outgoing' = outgoing /\ buffers' = buffers
        /\ st[f] = "none" /\ \A g \in Files \ {f} : st'[g] = st[g]
        /\ st'[f] = IF nr_users = 0 THEN "alloc" ELSE "reject"
    BY <1>1 DEF OpenEnter, RefType
  <2>1. BusyInv'
    <3>1. \A g \in Files \ {f} : ~ Busy(g)'
      BY <2>a, <2>f DEF Busy
    <3> QED
      BY <2>b, <2>f, <3>1 DEF BusyInv
  <2>2. \A g \in Files : Kept(g)' = Kept(g)
    BY <2>f DEF Kept
  <2>3. nr_users = 0 => \A g \in Files : ~ Kept(g)
    BY <2>a, IdleFree
  <2>4. KeptInv'
    BY <2>b, <2>f, <2>2, <2>3 DEF KeptInv, RestType
  <2>5. Counted' = Counted \cup {f} /\ f \notin Counted
    BY <2>f DEF Counted, Live, RefType, NewInv, Holders
  <2>6. Cardinality(Counted) = Cardinality(Counted') - 1
    <3>1. f \in Counted' /\ Counted = Counted' \ {f}
      BY <2>5
    <3> QED
      BY <1>s, <3>1, SizesByOne
  <2>7. nr_users' = nr_users + 1
    BY <1>1 DEF OpenEnter
  <2>8. ExactInv'
    BY <1>c, <2>b, <2>6, <2>7 DEF ExactInv
  <2> QED
    BY <2>1, <2>4, <2>8
<1>n. ASSUME overlapped' = overlapped PROVE BusyInv /\ KeptInv /\ ExactInv
  BY <1>n DEF SeqInv
<1>2. ASSUME NEW f \in Files, NEW ok \in BOOLEAN, OpenAlloc(f, ok)
      PROVE  BusyInv' /\ KeptInv' /\ ExactInv'
  <2>b. BusyInv /\ KeptInv /\ ExactInv
    BY <1>2, <1>n DEF OpenAlloc
  <2>z. \A h \in Holders : ref[f][h] = 0
    BY <1>2 DEF OpenAlloc, NewInv
  <2>g. \A g \in Files \ {f} : ref'[g] = ref[g] /\ st'[g] = st[g]
    BY <1>2 DEF OpenAlloc, RefType
  <2>f. /\ \A h \in Holders \ {"fd"} : ref'[f][h] = 0
        /\ ref'[f]["fd"] = IF ok THEN 1 ELSE 0
        /\ st'[f] = IF ok THEN "open" ELSE "reject"
        /\ st[f] = "alloc" /\ nr_users' = nr_users /\ buffers' = buffers
    BY <1>2, <2>z DEF OpenAlloc, RefType, Holders
  <2>k. \A g \in Files : ~ Kept(g)
    BY <2>b, <2>f DEF KeptInv, Kept
  <2>1. BusyInv'
    <3>1. \A g \in Files : Busy(g)' => Busy(g)
      BY <2>g, <2>f DEF Busy, Mid, Inner
    <3>2. \A g \in Files : Busy(g) => g = f
      BY <2>b, <2>f DEF BusyInv, Busy, Mid
    <3>3. \A h \in Inner : ref'[f][h] = 0
      BY <2>f DEF Inner
    <3> QED
      BY <2>b, <2>g, <2>f, <3>1, <3>2, <3>3 DEF BusyInv, Inner, Holders
  <2>2. KeptInv'
    <3>1. heap = {} /\ outgoing \notin Files
      BY <2>b, <2>k DEF KeptInv, RestType
    <3>2. CASE ok
      <4>1. heap' = {f} /\ outgoing' = f
        BY <1>2, <3>1, <3>2 DEF OpenAlloc
      <4>2. \A g \in Files : /\ Kept(g)' <=> g = f
                             /\ st'[g] \notin {"alloc", "check", "free", "bug"}
        BY <2>b, <2>g, <2>f, <2>k, <3>2 DEF Kept, KeptInv, BusyInv, Busy, Mid
      <4> QED
        BY <4>1, <4>2 DEF KeptInv
    <3>3. CASE ~ ok
      <4>1. heap' = {} /\ outgoing' \notin Files
        BY <1>2, <3>1, <3>3 DEF OpenAlloc
      <4>2. \A g \in Files : ~ Kept(g)' /\ st'[g] # "bug"
        BY <2>b, <2>g, <2>f, <2>k, <3>3 DEF Kept, KeptInv
      <4>3. \A g \in Files : st'[g] \notin {"check", "free"}
        BY <4>2 DEF Kept
      <4> QED
        BY <4>1, <4>2, <4>3 DEF KeptInv
    <3> QED
      BY <3>2, <3>3
  <2>3. Counted' = Counted
    BY <2>z, <2>g, <2>f DEF Counted, Live, Holders
  <2>4. ExactInv'
    BY <2>b, <2>f, <2>3 DEF ExactInv
  <2> QED
    BY <2>1, <2>2, <2>4
<1>3. ASSUME NEW f \in Files, OpenReject(f) PROVE BusyInv' /\ KeptInv' /\ ExactInv'
  <2>b. BusyInv /\ KeptInv /\ ExactInv
    BY <1>3, <1>n DEF OpenReject
  <2>f. /\ ref' = ref /\ heap' = heap /\ outgoing' = outgoing /\ buffers' = buffers
        /\ st[f] = "reject" /\ \A g \in Files \ {f} : st'[g] = st[g]
        /\ st'[f] = "failed" /\ nr_users' = nr_users - 1
    BY <1>3 DEF OpenReject, RefType
  <2>1. BusyInv'
    <3>1. \A g \in Files : Busy(g)' => Busy(g)
      BY <2>f DEF Busy, Mid
    <3> QED
      BY <2>b, <2>f, <3>1 DEF BusyInv
  <2>2. \A g \in Files : Kept(g)' = Kept(g)
    BY <2>f DEF Kept
  <2>3. KeptInv'
    BY <2>b, <2>f, <2>2 DEF KeptInv, RestType
  <2>4. f \in Counted /\ Counted' = Counted \ {f}
    <3>1. \A g \in Files : Live(g)' <=> Live(g)
      BY <2>f DEF Live
    <3>2. ~ Live(f)
      BY <2>f DEF Live, NewInv, Holders
    <3> QED
      BY <2>f, <3>1, <3>2 DEF Counted
  <2>5. Cardinality(Counted') = Cardinality(Counted) - 1
    BY <1>s, <2>4, SizesByOne
  <2>6. ExactInv'
    BY <1>c, <2>b, <2>f, <2>5 DEF ExactInv
  <2> QED
    BY <2>1, <2>3, <2>6
<1>4. ASSUME NEW f \in Files, Dup(f) \/ CallEnter(f) \/ Close(f)
      PROVE  BusyInv' /\ KeptInv' /\ ExactInv'
  <2>a. ~ overlapped /\ \A g \in Files : ~ Busy(g)
    BY <1>4, StartsAlone DEF Dup, CallEnter, Close
  <2>b. BusyInv /\ KeptInv /\ ExactInv
    BY <2>a DEF SeqInv
  <2>1. PICK from \in Holders \cup {"nobody"}, to \in Holders :
          /\ Hold(f, from, to)
          /\ from \in Holders => ref[f][from] > 0
          /\ \/ from = "nobody" /\ to \in {"fd", "call"}
             \/ from = "fd" /\ to = "close"
    BY <1>4 DEF Dup, CallEnter, Close, Holders
  <2>f. /\ nr_users' = nr_users /\ st' = st /\ ref[f]["fd"] > 0
        /\ heap' = heap /\ outgoing' = outgoing /\ buffers' = buffers
    BY <1>4 DEF Dup, CallEnter, Close
  <2>h. /\ ref' \in [Files -> [Holders -> Nat]]
        /\ \A g \in Files \ {f} : ref'[g] = ref[g]
        /\ \A h \in Holders : ref'[f][h] =
             ref[f][h] + (IF h = to THEN 1 ELSE 0) - (IF h = from THEN 1 ELSE 0)
    BY <2>1, HoldFacts
  <2>2. \A h \in Inner : ref[f][h] = 0
    BY <2>a DEF Busy, RefType, Inner
  <2>3. BusyInv'
    <3>1. \A g \in Files \ {f} : ~ Busy(g)'
      BY <2>a, <2>f, <2>h DEF Busy
    <3>2. \A h \in Inner : ref'[f][h] = IF h = to THEN 1 ELSE 0
      BY <2>1, <2>2, <2>h DEF Inner, Holders
    <3>3. to = "call" => ref'[f]["fd"] > 0
      BY <2>1, <2>f, <2>h DEF Holders, RefType
    <3>4. \A h \in Inner : ref'[f][h] <= 1 /\ (ref'[f][h] > 0 => h = to)
      BY <3>2
    <3> QED
      BY <2>b, <2>h, <3>1, <3>3, <3>4 DEF BusyInv, Inner, Holders
  <2>4. KeptInv'
    BY <2>b, <2>f DEF KeptInv, Kept
  <2>5. \A g \in Files : Live(g)' <=> Live(g)
    BY <2>1, <2>f, <2>h DEF RefType, Live, Holders
  <2>6. Counted' = Counted
    BY <2>f, <2>5 DEF Counted
  <2>7. ExactInv'
    BY <2>b, <2>f, <2>6 DEF ExactInv
  <2> QED
    BY <2>3, <2>4, <2>7
<1>5. ASSUME NEW f \in Files, NEW from \in {"call", "put"}, Put(f, from)
      PROVE  BusyInv' /\ KeptInv' /\ ExactInv'
  <2>b. BusyInv /\ KeptInv /\ ExactInv
    BY <1>5, <1>n DEF Put
  <2>1. Hold(f, from, "nobody") /\ ref[f][from] > 0 /\ from \in Inner
    BY <1>5 DEF Put, Inner, Holders
  <2>h. /\ ref' \in [Files -> [Holders -> Nat]]
        /\ \A g \in Files \ {f} : ref'[g] = ref[g]
        /\ \A h \in Holders : ref'[f][h] = ref[f][h] - (IF h = from THEN 1 ELSE 0)
    BY <2>1, HoldFacts DEF Inner, Holders, RefType
  <2>i. \A h \in Inner : ref[f][h] = IF h = from THEN 1 ELSE 0
    BY <2>b, <2>1 DEF BusyInv, RefType, Inner
  <2>z. \A h \in Inner : ref'[f][h] = 0
    BY <2>h, <2>i DEF Inner
  <2>f. /\ nr_users' = nr_users /\ heap' = heap /\ outgoing' = outgoing
        /\ buffers' = buffers /\ \A g \in Files \ {f} : st'[g] = st[g]
        /\ st'[f] = IF f_count(f) = 1 THEN "release" ELSE st[f]
    BY <1>5 DEF Put, RefType
  <2>o. st[f] = "open"
    BY <2>1 DEF OpenInv, Inner
  <2>2. from = "call" => f_count(f) # 1 /\ ref[f]["fd"] > 0
    BY <2>b, <2>1, <2>i DEF BusyInv, f_count, RefType, Inner, Holders
  <2>3. BusyInv'
    <3>1. \A g \in Files : Busy(g)' => g = f
      BY <2>b, <2>1, <2>h, <2>f DEF BusyInv, Busy
    <3> QED
      <4>1. ref'[f]["call"] = 0
        BY <2>z DEF Inner, Holders
      <4>2. \A h \in Inner : ~ (ref'[f][h] > 0) /\ ref'[f][h] <= 1
        BY <2>z
      <4> QED
        BY <2>b, <2>h, <3>1, <4>1, <4>2 DEF BusyInv
  <2>4. \A g \in Files : Kept(g)' = Kept(g)
    BY <2>f, <2>o DEF Kept
  <2>5. KeptInv'
    <3>1. \A g \in Files : /\ Kept(g)' <=> Kept(g)
                           /\ st'[g] = "alloc" => st[g] = "alloc"
                           /\ st'[g] \in {"check", "free"} => buffers'[g] = g
                           /\ st'[g] # "bug"
      BY <2>b, <2>f, <2>o, <2>4 DEF KeptInv
    <3>2. heap \subseteq Files
      BY DEF RestType
    <3> QED
      BY <2>b, <2>f, <3>1, <3>2, KeptSame
  <2>6. Live(f)' <=> Live(f)
    <3>1. CASE from = "call"
      <4>1. Live(f) /\ ref'[f]["fd"] > 0
        BY <2>2, <2>h, <3>1 DEF Live, RefType, Holders
      <4> QED
        BY <2>h, <4>1 DEF Live, Holders
    <3>2. CASE from = "put"
      BY <2>h, <3>2 DEF Live, RefType, Holders
    <3> QED
      BY <1>5, <3>1, <3>2
  <2>7. Counted' = Counted
    <3>1. \A g \in Files \ {f} : Live(g)' <=> Live(g)
      BY <2>h DEF Live
    <3>2. st'[f] \notin {"alloc", "reject"}
      BY <2>f, <2>o
    <3> QED
      BY <2>f, <2>o, <2>6, <3>1, <3>2 DEF Counted
  <2>8. ExactInv'
    BY <2>b, <2>f, <2>7 DEF ExactInv
  <2> QED
    BY <2>3, <2>5, <2>8
<1>6. ASSUME NEW f \in Files, Flush(f) \/ FlushDec(f)
      PROVE  BusyInv' /\ KeptInv' /\ ExactInv'
  <2>b. BusyInv /\ KeptInv /\ ExactInv
    BY <1>6, <1>n DEF Flush, FlushDec
  <2>1. PICK from \in {"close", "dec"}, to \in {"dec", "put"} :
          /\ Hold(f, from, to) /\ ref[f][from] > 0
          /\ \/ /\ from = "close" /\ nr_users' = nr_users
                /\ to = IF f_count(f) = 1 THEN "dec" ELSE "put"
             \/ from = "dec" /\ to = "put" /\ nr_users' = nr_users - 1
    BY <1>6 DEF Flush, FlushDec
  <2>f. st' = st /\ heap' = heap /\ outgoing' = outgoing /\ buffers' = buffers
    BY <1>6 DEF Flush, FlushDec
  <2>h. /\ ref' \in [Files -> [Holders -> Nat]]
        /\ \A g \in Files \ {f} : ref'[g] = ref[g]
        /\ \A h \in Holders : ref'[f][h] =
             ref[f][h] + (IF h = to THEN 1 ELSE 0) - (IF h = from THEN 1 ELSE 0)
    BY <2>1, HoldFacts DEF Holders
  <2>i. \A h \in Inner : ref[f][h] = IF h = from THEN 1 ELSE 0
    BY <2>b, <2>1 DEF BusyInv, RefType, Inner, Holders
  <2>z. \A h \in Inner : ref'[f][h] = IF h = to THEN 1 ELSE 0
    BY <2>1, <2>h, <2>i DEF Inner
  <2>2. BusyInv'
    <3>1. \A g \in Files : Busy(g)' => g = f
      BY <2>b, <2>1, <2>h, <2>f DEF BusyInv, Busy, Inner, Holders
    <3>2. \A h \in Inner : ref'[f][h] <= 1 /\ (ref'[f][h] > 0 => h = to)
      BY <2>z
    <3>3. ref'[f]["call"] = 0
      BY <2>1, <2>z DEF Inner, Holders
    <3> QED
      BY <2>b, <2>h, <3>1, <3>2, <3>3 DEF BusyInv, Inner, Holders
  <2>3. KeptInv'
    BY <2>b, <2>f DEF KeptInv, Kept
  <2>g. \A g \in Files \ {f} : Live(g)' <=> Live(g)
    BY <2>h DEF Live
  <2>4. CASE from = "close"
    <3>1. Live(f)
      BY <2>i, <2>4 DEF Live, RefType, Inner, Holders
    <3>2. Live(f)'
      <4>1. CASE to = "dec"
        BY <2>h, <2>z, <4>1 DEF Live, Inner, Holders
      <4>2. CASE to = "put"
        <5>1. f_count(f) # 1
          BY <2>1, <2>4, <4>2
        <5>2. ref[f]["fd"] > 0
          BY <2>i, <2>4, <5>1 DEF f_count, RefType, Inner, Holders
        <5>3. ref'[f]["fd"] > 0
          BY <2>h, <2>4, <4>2, <5>2 DEF Holders, RefType
        <5> QED
          BY <2>h, <5>3 DEF Live, Holders
      <4> QED
        BY <2>1, <4>1, <4>2
    <3>3. Counted' = Counted
      BY <2>f, <2>g, <3>1, <3>2 DEF Counted
    <3>4. ExactInv'
      BY <2>b, <2>1, <2>4, <3>3 DEF ExactInv
    <3> QED
      BY <2>2, <2>3, <3>4
  <2>5. CASE from = "dec"
    <3>1. f_count(f) = 1 /\ to = "put" /\ nr_users' = nr_users - 1
      BY <2>1, <2>5 DEF DecInv
    <3>2. Live(f) /\ ~ Live(f)'
      BY <2>h, <2>1, <2>5, <3>1 DEF Live, f_count, RefType, Holders
    <3>3. st[f] \notin {"alloc", "reject"}
      BY <2>1 DEF NewInv, Holders
    <3>4. f \in Counted /\ Counted' = Counted \ {f}
      BY <2>f, <2>g, <3>2, <3>3 DEF Counted
    <3>5. Cardinality(Counted') = Cardinality(Counted) - 1
      BY <1>s, <3>4, SizesByOne
    <3>6. ExactInv'
      BY <1>c, <2>b, <3>1, <3>5 DEF ExactInv
    <3> QED
      BY <2>2, <2>3, <3>6
  <2> QED
    BY <2>1, <2>4, <2>5
<1>7. ASSUME NEW f \in Files, ReleaseEnter(f) \/ ReleaseCheck(f) \/ ReleaseFree(f)
      PROVE  BusyInv' /\ KeptInv' /\ ExactInv'
  <2>b. BusyInv /\ KeptInv /\ ExactInv
    BY <1>7, <1>n DEF ReleaseEnter, ReleaseCheck, ReleaseFree
  <2>f. /\ ref' = ref /\ nr_users' = nr_users /\ st[f] \in {"release", "check", "free"}
        /\ \A g \in Files \ {f} : st'[g] = st[g]
        /\ st'[f] \in {"check", "free", "bug", "released"}
    BY <1>7 DEF ReleaseEnter, ReleaseCheck, ReleaseFree, RefType
  <2>k. Kept(f) /\ outgoing = f /\ \A g \in Files : Kept(g) => g = f
    BY <2>b, <2>f DEF KeptInv, Kept
  <2>1. BusyInv'
    <3>1. \A g \in Files : Busy(g)' => Busy(g)
      BY <2>f DEF Busy, Mid
    <3> QED
      BY <2>b, <2>f, <3>1 DEF BusyInv
  <2>2. Counted' = Counted
    BY <2>f DEF Counted, Live
  <2>3. ExactInv'
    BY <2>b, <2>f, <2>2 DEF ExactInv
  <2>4. CASE ReleaseEnter(f)
    <3>1. /\ heap' = heap /\ outgoing' = outgoing /\ st'[f] = "check"
          /\ \A g \in Files : buffers'[g] = IF g = f THEN f ELSE buffers[g]
      BY <2>4, <2>k DEF ReleaseEnter, RefType, RestType
    <3>2. \A g \in Files : /\ Kept(g)' <=> Kept(g)
                           /\ st'[g] = "alloc" => st[g] = "alloc"
                           /\ st'[g] \in {"check", "free"} => buffers'[g] = g
                           /\ st'[g] # "bug"
      BY <2>b, <2>f, <2>k, <3>1 DEF Kept, KeptInv
    <3>3. heap \subseteq Files
      BY DEF RestType
    <3>4. KeptInv'
      BY <2>b, <3>1, <3>2, <3>3, KeptSame
    <3> QED
      BY <2>1, <2>3, <3>4
  <2>5. CASE ReleaseCheck(f)
    <3>1. Counted = {}
      <4>1. \A h \in Holders : ref[f][h] = 0
        BY <2>f DEF OpenInv
      <4>2. f \notin Counted
        BY <2>f, <4>1 DEF Counted, Live, Holders
      <4>3. ASSUME NEW g \in Files, g # f PROVE g \notin Counted
        <5>1. st[g] # "open"
          BY <2>k, <4>3 DEF Kept
        <5>2. ~ Live(g)
          BY <5>1 DEF OpenInv, Live, Holders
        <5>3. ~ Busy(g)
          BY <2>b, <2>f, <4>3 DEF BusyInv, Busy, Mid
        <5> QED
          BY <5>2, <5>3 DEF Counted, Busy, Mid
      <4> QED
        BY <4>2, <4>3 DEF Counted
    <3>2. nr_users = 0
      BY <2>b, <3>1, FS_EmptySet DEF ExactInv
    <3>3. heap' = heap /\ outgoing' = outgoing /\ buffers' = buffers /\ st'[f] = "free"
          /\ st[f] = "check"
      BY <2>5, <3>2 DEF ReleaseCheck, RefType
    <3>4. \A g \in Files : /\ Kept(g)' <=> Kept(g)
                           /\ st'[g] = "alloc" => st[g] = "alloc"
                           /\ st'[g] \in {"check", "free"} => buffers'[g] = g
                           /\ st'[g] # "bug"
      BY <2>b, <2>f, <2>k, <3>3 DEF Kept, KeptInv
    <3>5. heap \subseteq Files
      BY DEF RestType
    <3>6. KeptInv'
      BY <2>b, <3>3, <3>4, <3>5, KeptSame
    <3> QED
      BY <2>1, <2>3, <3>6
  <2>6. CASE ReleaseFree(f)
    <3>1. outgoing' = Null /\ st'[f] = "released" /\ buffers[f] = f /\ heap' = heap \ {f}
      BY <2>6, <2>b DEF ReleaseFree, RefType, KeptInv
    <3>2. \A g \in Files : ~ Kept(g)' /\ st'[g] # "bug"
      BY <2>b, <2>f, <2>k, <3>1 DEF Kept, KeptInv
    <3>3. heap' = {}
      BY <2>b, <2>k, <3>1 DEF KeptInv, RestType
    <3>4. \A g \in Files : st'[g] \notin {"check", "free"}
      BY <3>2 DEF Kept
    <3> QED
      BY <2>1, <2>3, <3>1, <3>2, <3>3, <3>4, FilesAssumption DEF KeptInv
  <2> QED
    BY <1>7, <2>4, <2>5, <2>6
<1>8. CASE UNCHANGED vars
  <2>b. BusyInv /\ KeptInv /\ ExactInv
    BY <1>8, <1>n DEF vars
  <2> QED
    BY <1>8, <2>b DEF vars, BusyInv, Busy, KeptInv, Kept, ExactInv, Counted, Live
<1> QED
  BY <1>1, <1>2, <1>3, <1>4, <1>5, <1>6, <1>7, <1>8 DEF Next

LEMMA FullInit == Init => FullInv
<1> SUFFICES ASSUME Init PROVE FullInv
  OBVIOUS
<1>1. Inv
  BY InvInit
<1>2. RestType /\ BoolType /\ OpenInv
  BY DEF Init, RestType, BoolType, OpenInv, f_count
<1>3. Started = {} /\ Counted = {}
  BY DEF Init, Started, Counted, Live, Holders
<1>4. StartInv /\ ExactInv
  BY <1>3, FS_EmptySet DEF StartInv, ExactInv, Init
<1>5. BusyInv /\ KeptInv
  BY FilesAssumption DEF Init, BusyInv, KeptInv, Busy, Kept, Mid, Inner, Holders
<1> QED
  BY <1>1, <1>2, <1>4, <1>5 DEF FullInv, SeqInv

LEMMA FullStep == FullInv /\ [Next]_vars => FullInv'
<1> SUFFICES ASSUME FullInv, [Next]_vars PROVE FullInv'
  OBVIOUS
<1>1. Inv'
  BY InvStep DEF FullInv
<1>2. RestType' /\ BoolType' /\ StartInv' /\ OpenInv'
  BY <1>1, RestStep
<1>3. SeqInv'
  BY SeqStep DEF SeqInv
<1> QED
  BY <1>1, <1>2, <1>3 DEF FullInv

-------------------------------------------------------------------------------

\* famez_bridge_open, flush and release keep nr_users between zero and the
\* number of opens, and outgoing and the allocated buffers with the opens.
THEOREM BridgeTypeTheorem == Spec => []TypeOK
<1>1. FullInv => TypeOK
  <2> SUFFICES ASSUME FullInv PROVE TypeOK
    OBVIOUS
  <2>1. Started \in SUBSET Files /\ Counted \in SUBSET Files /\ Files \in SUBSET Files
    BY DEF Started, Counted
  <2>2. /\ Cardinality(Counted) \in Nat /\ Cardinality(Started) <= Cardinality(Files)
        /\ Cardinality(Started) \in Nat /\ Cardinality(Files) \in Nat
    BY <2>1, Sizes
  <2>3. nr_users \in 0 .. Cardinality(Files)
    BY <2>2 DEF FullInv, Inv, RefType, CountInv, StartInv
  <2>4. overlapped \in BOOLEAN
    BY DEF FullInv, BoolType
  <2> QED
    BY <2>3, <2>4 DEF FullInv, Inv, RefType, RestType, TypeOK
<1> QED
  BY FullInit, FullStep, <1>1, PTL DEF Spec

\* Without overlap of system calls, fz_bridge's write goes to buffers that its
\* own open has allocated and no release has freed.
THEOREM WritesOwnBuffersTheorem == Spec => []WritesOwnBuffers
<1>1. FullInv => WritesOwnBuffers
  <2> SUFFICES ASSUME FullInv, ~ overlapped, NEW f \in Files, Usable(f)
               PROVE  outgoing = f /\ f \in heap
    BY DEF WritesOwnBuffers
  <2>1. st[f] = "open"
    BY DEF FullInv, OpenInv, Usable, Holders
  <2> QED
    BY <2>1 DEF FullInv, SeqInv, KeptInv, Kept
<1> QED
  BY FullInit, FullStep, <1>1, PTL DEF Spec

\* Without overlap, release frees what open allocated and flush or the failed
\* open takes the count back: the idle device is as it was before the first open.
THEOREM NothingLeftTheorem == Spec => []NothingLeft
<1>1. FullInv => NothingLeft
  <2> SUFFICES ASSUME FullInv, ~ overlapped, Quiet, \A f \in Files : ~ Usable(f)
               PROVE  nr_users = 0 /\ outgoing = Null /\ heap = {}
    BY DEF NothingLeft
  <2>0. BusyInv /\ KeptInv /\ ExactInv
    BY DEF FullInv, SeqInv
  <2>1. \A f \in Files : \A h \in Holders : ref[f][h] = 0
    BY DEF Quiet, Usable, FullInv, Inv, RefType, Holders
  <2>2. \A f \in Files : st[f] # "open"
    BY <2>1 DEF FullInv, OpenInv, f_count, Holders
  <2>3. \A f \in Files : ~ Kept(f) /\ st[f] \notin {"alloc", "reject"}
    BY <2>2 DEF Quiet, Kept
  <2>4. Counted = {}
    BY <2>1, <2>3 DEF Counted, Live, Holders
  <2>5. nr_users = 0
    BY <2>0, <2>4, FS_EmptySet DEF ExactInv
  <2> QED
    BY <2>0, <2>3, <2>5 DEF FullInv, KeptInv, RestType
<1> QED
  BY FullInit, FullStep, <1>1, PTL DEF Spec

\* The BUG_ON(nr_users) in release, which fails when calls on a shared
\* file overlap, cannot fail before: whatever single calls came earlier,
\* with dup, fork and rejected or failed opens, flush has counted the user out
\* by the time of the last fput.
THEOREM NoBugTheorem == Spec => [](~ overlapped => NoBug)
<1>1. FullInv => (~ overlapped => NoBug)
  BY DEF FullInv, SeqInv, KeptInv, NoBug
<1> QED
  BY FullInit, FullStep, <1>1, PTL DEF Spec

\* famez_bridge_open lets one file at a time into use, whatever open, dup,
\* close and calls in flight overlap: Exclusive holds for every set of opens.
THEOREM ExclusiveTheorem == Spec => []Exclusive
<1>1. Inv => Exclusive
  BY DEF Inv, OneInv, Owner, Live, Exclusive, Usable, RefType, Holders
<1> QED
  BY InvInit, InvStep, <1>1, PTL DEF Spec
===============================================================================
