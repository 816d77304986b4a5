------------------------------ MODULE BridgeFile ------------------------------
(***************************************************************************)
(* The bridge device file (fz_bridge.c) of one adapter: open, flush and    *)
(* release, which keep the device to one user with the counter nr_users    *)
(* and allocate and free that user's write buffers, and the references     *)
(* that the kernel holds on a file while system calls are inside it.       *)
(*                                                                         *)
(* An element of Files is one open(2).  ref[f] counts the references on    *)
(* it, by what holds them; their sum is file->f_count.  close(2) takes the *)
(* descriptor out of the table, calls flush and then drops its reference;  *)
(* the last reference to go, of a close or of a read or write still        *)
(* running, calls release.                                                 *)
(***************************************************************************)
EXTENDS Integers, FiniteSets

CONSTANTS
    Files,      \* the open(2) calls
    MaxRefs,    \* bound on the references on one file
    Null

ASSUME FilesAssumption   == IsFiniteSet(Files) /\ Null \notin Files
ASSUME MaxRefsAssumption == MaxRefs \in Nat \ {0}

\* What may hold a reference: a descriptor, a read or write, and a close
\* before flush, between the test and the decrement in flush, and after it.
Holders == {"fd", "call", "close", "dec", "put"}

VARIABLES
    nr_users,   \* adapter->nr_users
    outgoing,   \* adapter->outgoing: the open whose buffers it points to
    st,         \* st[f]: how far open or release of f has come
    ref,        \* ref[f][h]: references on f
    buffers,    \* buffers[f]: the local variable of release
    heap,       \* buffers that are allocated
    overlapped  \* history: a system call has started while another ran

vars == <<nr_users, outgoing, st, ref, buffers, heap, overlapped>>

Init ==
    /\ nr_users = 0
    /\ outgoing = Null
    /\ st = [f \in Files |-> "none"]
    /\ ref = [f \in Files |-> [h \in Holders |-> 0]]
    /\ buffers = [f \in Files |-> Null]
    /\ heap = {} /\ overlapped = FALSE

f_count(f) == ref[f]["fd"] + ref[f]["call"] + ref[f]["close"] + ref[f]["dec"]
              + ref[f]["put"]

\* Nobody is inside a system call on the device.
Quiet ==
    \A f \in Files : /\ st[f] \in {"none", "open", "failed", "released", "bug"}
                     /\ \A h \in Holders \ {"fd"} : ref[f][h] = 0
Starts == overlapped' = (overlapped \/ ~ Quiet)

-------------------------------------------------------------------------------
(* famez_bridge_open *)

OpenEnter(f) ==
    /\ st[f] = "none" /\ Starts
    /\ nr_users' = nr_users + 1
    /\ st' = [st EXCEPT ![f] = IF nr_users = 0 THEN "alloc" ELSE "reject"]
    /\ UNCHANGED <<outgoing, ref, buffers, heap>>

\* (mutant: a failed allocation takes the count back, and so does alldone)
OpenAllocDecs(f, ok) ==
    /\ st[f] = "alloc"
    /\ st' = [st EXCEPT ![f] = IF ok THEN "open" ELSE "reject"]
    /\ nr_users' = IF ok THEN nr_users ELSE nr_users - 1
    /\ outgoing' = IF ok THEN f ELSE outgoing
    /\ heap' = IF ok THEN heap \cup {f} ELSE heap
    /\ ref' = [ref EXCEPT ![f]["fd"] = IF ok THEN 1 ELSE 0]
    /\ UNCHANGED <<buffers, overlapped>>

\* Both allocations succeed, or one fails and the other is undone.
OpenAlloc(f, ok) ==
    /\ st[f] = "alloc"
    /\ st' = [st EXCEPT ![f] = IF ok THEN "open" ELSE "reject"]
    /\ outgoing' = IF ok THEN f ELSE outgoing
    /\ heap' = IF ok THEN heap \cup {f} ELSE heap
    /\ ref' = [ref EXCEPT ![f]["fd"] = IF ok THEN 1 ELSE 0]
    /\ UNCHANGED <<nr_users, buffers, overlapped>>

\* (mutant: alldone also undoes the allocation, which is another open's)
OpenRejectFrees(f) ==
    /\ st[f] = "reject"
    /\ nr_users' = nr_users - 1
    /\ heap' = heap \ {outgoing}
    /\ outgoing' = Null
    /\ st' = [st EXCEPT ![f] = "failed"]
    /\ UNCHANGED <<ref, buffers, overlapped>>

OpenReject(f) ==
    /\ st[f] = "reject"
    /\ nr_users' = nr_users - 1
    /\ st' = [st EXCEPT ![f] = "failed"]
    /\ UNCHANGED <<outgoing, ref, buffers, heap, overlapped>>

-------------------------------------------------------------------------------
(* Descriptors and calls: what the kernel does around the driver *)

Hold(f, from, to) ==
    ref' = [ref EXCEPT ![f] =
              [h \in Holders |-> @[h] + (IF h = to THEN 1 ELSE 0)
                                      - (IF h = from THEN 1 ELSE 0)]]

\* dup(2), fork(2).
Dup(f) ==
    /\ ref[f]["fd"] > 0 /\ f_count(f) < MaxRefs /\ Starts
    /\ Hold(f, "nobody", "fd")
    /\ UNCHANGED <<nr_users, outgoing, st, buffers, heap>>

\* read(2) and write(2), which hold a reference when the table is shared.
CallEnter(f) ==
    /\ ref[f]["fd"] > 0 /\ f_count(f) < MaxRefs /\ Starts
    /\ Hold(f, "nobody", "call")
    /\ UNCHANGED <<nr_users, outgoing, st, buffers, heap>>

Close(f) ==
    /\ ref[f]["fd"] > 0 /\ Starts
    /\ Hold(f, "fd", "close")
    /\ UNCHANGED <<nr_users, outgoing, st, buffers, heap>>

\* fput: the last reference starts release.
Put(f, from) ==
    /\ ref[f][from] > 0
    /\ Hold(f, from, "nobody")
    /\ st' = [st EXCEPT ![f] = IF f_count(f) = 1 THEN "release" ELSE @]
    /\ UNCHANGED <<nr_users, outgoing, buffers, heap, overlapped>>

-------------------------------------------------------------------------------
(* famez_bridge_flush *)

\* (mutant: every close counts as the last)
FlushAlways(f) ==
    /\ ref[f]["close"] > 0
    /\ Hold(f, "close", "dec")
    /\ UNCHANGED <<nr_users, outgoing, st, buffers, heap, overlapped>>

Flush(f) ==
    /\ ref[f]["close"] > 0
    /\ Hold(f, "close", IF f_count(f) = 1 THEN "dec" ELSE "put")
    /\ UNCHANGED <<nr_users, outgoing, st, buffers, heap, overlapped>>

FlushDec(f) ==
    /\ ref[f]["dec"] > 0
    /\ nr_users' = nr_users - 1
    /\ Hold(f, "dec", "put")
    /\ UNCHANGED <<outgoing, st, buffers, heap, overlapped>>

-------------------------------------------------------------------------------
(* famez_bridge_release *)

ReleaseEnter(f) ==
    /\ st[f] = "release"
    /\ buffers' = [buffers EXCEPT ![f] = outgoing]
    /\ st' = [st EXCEPT ![f] = "check"]
    /\ UNCHANGED <<nr_users, outgoing, ref, heap, overlapped>>

\* BUG_ON(nr_users) ends the task.
ReleaseCheck(f) ==
    /\ st[f] = "check"
    /\ st' = [st EXCEPT ![f] = IF nr_users = 0 THEN "free" ELSE "bug"]
    /\ UNCHANGED <<nr_users, outgoing, ref, buffers, heap, overlapped>>

\* (mutant: the buffers are not freed)
ReleaseLeaks(f) ==
    /\ st[f] = "free"
    /\ outgoing' = Null
    /\ st' = [st EXCEPT ![f] = "released"]
    /\ UNCHANGED <<nr_users, ref, buffers, heap, overlapped>>

ReleaseFree(f) ==
    /\ st[f] = "free"
    /\ heap' = heap \ {buffers[f]}
    /\ outgoing' = Null
    /\ st' = [st EXCEPT ![f] = "released"]
    /\ UNCHANGED <<nr_users, ref, buffers, overlapped>>

-------------------------------------------------------------------------------

Next == \E f \in Files :
    \/ OpenEnter(f) \/ OpenReject(f) \/ \E ok \in BOOLEAN : OpenAlloc(f, ok)
    \/ Dup(f) \/ CallEnter(f) \/ Close(f)
    \/ Put(f, "call") \/ Put(f, "put")
    \/ Flush(f) \/ FlushDec(f)
    \/ ReleaseEnter(f) \/ ReleaseCheck(f) \/ ReleaseFree(f)

Spec == Init /\ [][Next]_vars

-------------------------------------------------------------------------------
(* Properties *)

Stages == {"none", "alloc", "reject", "open", "failed", "release", "check",
           "free", "released", "bug"}

\* The counter and the references keep their ranges: nr_users is never
\* negative, and counts no more than there are callers of open.
TypeOK ==
    /\ nr_users \in 0 .. Cardinality(Files)
    /\ outgoing \in Files \cup {Null}
    /\ st \in [Files -> Stages]
    /\ ref \in [Files -> [Holders -> Nat]]
    /\ buffers \in [Files -> Files \cup {Null}]
    /\ heap \subseteq Files /\ overlapped \in BOOLEAN

Usable(f) == ref[f]["fd"] + ref[f]["call"] > 0

\* "just exclusive open() for now": whatever overlaps, no two files of the
\* device are in use, by a descriptor or by a call still running.
Exclusive == \A f, g \in Files : (Usable(f) /\ Usable(g)) => f = g

\* As long as no two system calls have overlapped, the user of the device
\* writes into buffers of its own that are allocated, ...
WritesOwnBuffers ==
    ~ overlapped => \A f \in Files : Usable(f) => outgoing = f /\ f \in heap

\* ... and between users of the device nothing stays behind: it can be opened
\* again and no buffers are left allocated (release frees what open allocated,
\* and a failed open takes its count back).
NothingLeft ==
    (~ overlapped /\ Quiet /\ \A f \in Files : ~ Usable(f)) =>
        nr_users = 0 /\ outgoing = Null /\ heap = {}

\* BUG_ON(nr_users) in release (fz_bridge.c:138) asserts that flush has
\* counted the user out by then.
NoBug == \A f \in Files : st[f] # "bug"
===============================================================================
