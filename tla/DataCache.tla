------------------------------- MODULE DataCache -------------------------------
(***************************************************************************)
(* The SSD data cache of each worker (internal/cache/data.go): copies of   *)
(* objects on its disk and, under a mutex, the items that name them, in    *)
(* the order of their last access.                                         *)
(*                                                                         *)
(* An object stands for its bucket, key and etag: another content is       *)
(* another object.                                                         *)
(***************************************************************************)
EXTENDS Integers, FiniteSets, Sequences, SequencesExt

CONSTANTS Endpoints,   \* the workers
          Requests,    \* the queries that use their caches
          Objects,
          Size,        \* the size of each object
          MaxBytes     \* the cap, 0 for none

ASSUME DataCacheAssumption ==
    /\ IsFiniteSet(Endpoints) /\ IsFiniteSet(Requests) /\ IsFiniteSet(Objects)
    /\ Size \in [Objects -> Nat]
    /\ MaxBytes \in Nat

VARIABLES lru,      \* the items of each worker, least recently used first
          total,    \* DataCache.total
          disk,     \* each object's file: "absent", "torn" or "whole"
          missing,  \* the misses under way at each worker: who copies which object
          doubled   \* history: objects copied by two at once

cacheVars == <<lru, total, disk, missing, doubled>>

Items(w) == Range(lru[w])

Footprint(w) == SumFunctionOnSet(Size, Items(w))

CacheInit ==
    /\ lru = [w \in Endpoints |-> <<>>]
    /\ total = [w \in Endpoints |-> 0]
    /\ disk = [w \in Endpoints |-> [o \in Objects |-> "absent"]]
    /\ missing = [w \in Endpoints |-> {}]
    /\ doubled = [w \in Endpoints |-> {}]

\* Fault: the item of before is not replaced.
SecondItem(s, o) == Append(s, o)

Touched(s, o) == Append(RemoveFirst(s, o), o)

\* Ensure has fetched o and looks for its item: a hit is touched ...
Hit(w, o) ==
    /\ o \in Items(w)
    /\ lru' = [lru EXCEPT ![w] = Touched(@, o)]
    /\ UNCHANGED <<total, disk, missing, doubled>>

\* ... and a miss goes on without the mutex.
Miss(w, q, o) ==
    /\ o \notin Items(w)
    /\ missing' = [missing EXCEPT ![w] = @ \cup {[by |-> q, object |-> o]}]
    /\ doubled' = [doubled EXCEPT ![w] = IF \E m \in missing[w] : m.object = o
                                         THEN @ \cup {o} ELSE @]
    /\ UNCHANGED <<lru, total, disk>>

SetFile(w, o, c) ==
    /\ disk' = [disk EXCEPT ![w][o] = c]
    /\ UNCHANGED <<lru, total, missing, doubled>>

\* evictLocked: of the items in s, how many it removes, the oldest first.
Evicted(s, t) ==
    IF MaxBytes = 0 \/ t <= MaxBytes THEN 0
    ELSE LET Left(n) == t - SumFunctionOnSet(Size, Range(SubSeq(s, 1, n)))
             enough == {n \in 1..Len(s) : Left(n) <= MaxBytes}
         IN IF enough = {} THEN Len(s) ELSE CHOOSE n \in enough : \A k \in enough : n <= k

\* Fault: the size of what is evicted stays in the total.
TotalWithEvicted(s, t, n) == t

TotalAfter(s, t, n) == t - SumFunctionOnSet(Size, Range(SubSeq(s, 1, n)))

\* The file is there; the item is inserted, and eviction may remove any item,
\* this one included.  An item that another miss has inserted is replaced.
Insert(w, q, o) ==
    LET s == Touched(lru[w], o)
        t == total[w] + Size[o]
        n == Evicted(s, t)
    IN
    /\ lru' = [lru EXCEPT ![w] = SubSeq(s, n + 1, Len(s))]
    /\ total' = [total EXCEPT ![w] = TotalAfter(s, t, n)]
    /\ disk' = [disk EXCEPT ![w] = [p \in Objects |->
                   IF p \in Range(SubSeq(s, 1, n)) THEN "absent" ELSE @[p]]]
    /\ missing' = [missing EXCEPT ![w] = @ \ {[by |-> q, object |-> o]}]
    /\ UNCHANGED doubled

\* A miss that fails leaves what it has written.
GiveUpMiss(w, q) ==
    /\ missing' = [missing EXCEPT ![w] = {m \in @ : m.by # q}]
    /\ UNCHANGED <<lru, total, disk, doubled>>

\* The worker's process ends: its disk stays, and nothing knows what is on it.
LoseItems(w) ==
    /\ lru' = [lru EXCEPT ![w] = <<>>]
    /\ total' = [total EXCEPT ![w] = 0]
    /\ missing' = [missing EXCEPT ![w] = {}]
    /\ UNCHANGED <<disk, doubled>>

CacheTypeOK ==
    /\ \A w \in Endpoints : lru[w] \in Seq(Objects) /\ Cardinality(Items(w)) = Len(lru[w])
    /\ total \in [Endpoints -> Int]
    /\ disk \in [Endpoints -> [Objects -> {"absent", "torn", "whole"}]]
    /\ missing \in [Endpoints -> SUBSET [by : Requests, object : Objects]]
    /\ doubled \in [Endpoints -> SUBSET Objects]

\* The byte count never misses an item, and is exact as long as no object was
\* copied by two queries at once (each of them counts it); after every insert it
\* is within the cap, or nothing is left to evict.  The file of an item is there,
\* again but for objects copied twice: evicting one copy removes the other's file.
CacheAccounts ==
    \A w \in Endpoints :
        /\ Footprint(w) <= total[w]
        /\ doubled[w] = {} => Footprint(w) = total[w]
        /\ MaxBytes > 0 => total[w] <= MaxBytes \/ lru[w] = <<>>
        /\ \A o \in Items(w) \ doubled[w] : disk[w][o] = "whole"
===============================================================================
