--------------------------- MODULE ResultCacheProofs ---------------------------
(***************************************************************************)
(* Theorems about ResultCache, for all readers, statements, writes, limits *)
(* and failures.                                                           *)
(***************************************************************************)
EXTENDS ResultCache, FiniteSetTheorems, TLAPS

USE DEF Works, Fails, KeepsData, KeepsCache, KeepsPlan, KeepsEviction, Goto, Step,
        cacheVars, dataVars

-------------------------------------------------------------------------------
(* Types                                                                    *)

Payload(b) == b = [key |-> b.key, val |-> b.val, clean |-> b.clean] /\ b.clean \in BOOLEAN

\* The inductive form of CacheTypeOK: what a reader has read the versions of are
\* tables of its statement, and what it has listed was in the index.
ReaderTypes ==
    /\ rpc \in [Readers -> ReaderPlaces]
    /\ todo \in [Readers -> SUBSET Tables]
    /\ mark \in [Readers -> Marks]
    /\ DOMAIN seen = Readers /\ DOMAIN val = Readers
    /\ DOMAIN listed = Readers /\ DOMAIN doomed = Readers
    /\ \A r \in Readers :
         /\ todo[r] \subseteq TablesOf(r) /\ DOMAIN seen[r] \subseteq TablesOf(r)
         /\ doomed[r] \subseteq listed[r] /\ IsFiniteSet(listed[r])
         /\ rpc[r] # "evicting" => listed[r] = {}

StoreTypes ==
    /\ IsFiniteSet(index) /\ revived \subseteq index
    /\ \A k \in index : k.stmt \in Statements /\ DOMAIN k.seen \subseteq Reads[k.stmt]
    /\ \A b \in blobs : Payload(b)
    /\ \A b, c \in blobs : b.key = c.key => b = c

TypeInv ==
    /\ WriteTypeOK
    /\ ReaderTypes
    /\ StoreTypes
    /\ unsettled \subseteq Tables

LEMMA TypeInvHasTypes == TypeInv => CacheTypeOK
BY DEF TypeInv, ReaderTypes, StoreTypes, CacheTypeOK

LEMMA KeyTypes ==
    ASSUME ReaderTypes, NEW r \in Readers
    PROVE  KeyOf(r).stmt \in Statements /\ DOMAIN KeyOf(r).seen \subseteq Reads[KeyOf(r).stmt]
BY CacheAssumption DEF KeyOf, TablesOf, ReaderTypes

\* The steps that write the index or the payloads keep their types.
LEMMA UnindexTypes ==
    ASSUME StoreTypes, NEW k, Unindex(k), UNCHANGED blobs
    PROVE  StoreTypes'
<1>1. IsFiniteSet(index \ {k})
  BY FS_RemoveElement DEF StoreTypes
<1> QED BY <1>1 DEF Unindex, StoreTypes, Payload

LEMMA UnstoreTypes ==
    ASSUME StoreTypes, NEW k, Unstore(k), UNCHANGED <<index, revived>>
    PROVE  StoreTypes'
BY DEF Unstore, StoreTypes, Payload

LEMMA EntryTypes ==
    ASSUME StoreTypes, ReaderTypes, NEW r \in Readers, index' = index \cup {KeyOf(r)},
           revived' \subseteq index', UNCHANGED blobs
    PROVE  StoreTypes'
<1>1. IsFiniteSet(index \cup {KeyOf(r)})
  BY FS_AddElement DEF StoreTypes
<1> QED BY <1>1, KeyTypes DEF StoreTypes, Payload

LEMMA PayloadTypes ==
    ASSUME StoreTypes, NEW r \in Readers, NEW v, StoreBlob(r, v), UNCHANGED <<index, revived>>
    PROVE  StoreTypes'
<1> DEFINE new == [key |-> KeyOf(r), val |-> v, clean |-> mark[r] = "clean"]
<1>1. blobs' = {b \in blobs : b.key # KeyOf(r)} \cup {new}
  BY DEF StoreBlob, BlobOf
<1>2. Payload(new) /\ new.key = KeyOf(r)
  BY DEF Payload
<1> HIDE DEF new
<1>3. \A b, c \in blobs' : b.key = c.key => b = c
  BY <1>1, <1>2 DEF StoreTypes
<1> QED BY <1>1, <1>2, <1>3 DEF StoreTypes, Payload

\* A run changes nothing that it reads.
LEMMA ReadKeepsData ==
    ASSUME NEW r \in Readers, ReadStep(r)
    PROVE  UNCHANGED <<files, version, source, wpc, unsettled>>
BY DEF ReadStep, Resolve, GetVersion, Lookup, ExpireEntry, ExpireBlob, ReadBlob, DropEntry,
       Touch, Execute, WriteBlob, Index, List, EvictBlob, EvictEntry, EndEviction

LEMMA ReadFailures ==
    ASSUME NEW r \in Readers, ReadStep(r)
    PROVE  failures' = failures \/ (failures < MaxFailures /\ failures' = failures + 1)
BY DEF ReadStep, Resolve, GetVersion, Lookup, ExpireEntry, ExpireBlob, ReadBlob, DropEntry,
       Touch, Execute, WriteBlob, Index, List, EvictBlob, EvictEntry, EndEviction,
       Unindex, Unstore

LEMMA ReadTypeStep ==
    ASSUME TypeInv, NEW r \in Readers, ReadStep(r)
    PROVE  TypeInv'
<1> USE DEF ReaderPlaces, Marks
<1>1. WriteTypeOK' /\ unsettled' = unsettled
  BY ReadKeepsData, ReadFailures, WriteAssumption DEF TypeInv, WriteTypeOK
<1>2. CASE Resolve(r)
  <2>1. ReaderTypes'
    <3>1. todo' = todo \/ todo' = [todo EXCEPT ![r] = {t \in TablesOf(r) : HasRow(t)}]
      BY <1>2 DEF Resolve
    <3>2. TablesOf(r) \subseteq Tables
      BY CacheAssumption DEF TablesOf
    <3>3. /\ todo' \in [Readers -> SUBSET Tables]
          /\ \A q \in Readers : todo'[q] \subseteq TablesOf(q)
      BY <3>1, <3>2 DEF TypeInv, ReaderTypes
    <3>4. mark' \in [Readers -> Marks]
      BY <1>2 DEF Resolve, TypeInv, ReaderTypes
    <3>5. \E p \in {"resolved", "bypass"} : rpc[r] = "idle" /\ rpc' = [rpc EXCEPT ![r] = p]
      BY <1>2 DEF Resolve
    <3> QED BY <1>2, <3>3, <3>4, <3>5 DEF Resolve, TypeInv, ReaderTypes, TablesOf
  <2> QED BY <1>1, <1>2, <2>1 DEF Resolve, TypeInv, StoreTypes, Payload
<1>3. CASE GetVersion(r)
  <2>1. ReaderTypes'
    BY <1>3 DEF GetVersion, TypeInv, ReaderTypes, TablesOf
  <2> QED BY <1>1, <1>3, <2>1 DEF GetVersion, TypeInv, StoreTypes, Payload
<1>4. CASE Lookup(r) \/ ReadBlob(r) \/ Execute(r)
  <2>1. ReaderTypes'
    BY <1>4 DEF Lookup, ReadBlob, Execute, TypeInv, ReaderTypes, TablesOf
  <2> QED BY <1>1, <1>4, <2>1 DEF Lookup, ReadBlob, Execute, TypeInv, StoreTypes, Payload
<1>5. CASE ExpireEntry(r) \/ DropEntry(r)
  <2>1. ReaderTypes'
    BY <1>5 DEF ExpireEntry, DropEntry, TypeInv, ReaderTypes, TablesOf
  <2>2. StoreTypes'
    BY <1>5, UnindexTypes DEF ExpireEntry, DropEntry, TypeInv
  <2> QED BY <1>1, <2>1, <2>2 DEF TypeInv
<1>6. CASE ExpireBlob(r)
  <2>1. ReaderTypes'
    BY <1>6 DEF ExpireBlob, TypeInv, ReaderTypes, TablesOf
  <2>2. StoreTypes'
    BY <1>6, UnstoreTypes DEF ExpireBlob, TypeInv
  <2> QED BY <1>1, <2>1, <2>2 DEF TypeInv
<1>7. CASE Touch(r) \/ Index(r)
  <2>1. ReaderTypes'
    BY <1>7 DEF Touch, Index, TypeInv, ReaderTypes, TablesOf
  <2>2. StoreTypes'
    <3>1. CASE UNCHANGED <<index, revived>>
      BY <1>7, <3>1 DEF Touch, Index, TypeInv, StoreTypes, Payload
    <3>2. CASE index' = index \cup {KeyOf(r)} /\ revived' \subseteq index'
      BY <1>7, <3>2, EntryTypes DEF Touch, Index, TypeInv
    <3> QED BY <1>7, <3>1, <3>2 DEF Touch, Index, TypeInv, StoreTypes
  <2> QED BY <1>1, <2>1, <2>2 DEF TypeInv
<1>8. CASE WriteBlob(r)
  <2>1. ReaderTypes'
    BY <1>8 DEF WriteBlob, TypeInv, ReaderTypes, TablesOf
  <2>2. StoreTypes'
    <3>1. CASE UNCHANGED blobs
      BY <1>8, <3>1 DEF WriteBlob, TypeInv, StoreTypes, Payload
    <3>2. CASE \E v : StoreBlob(r, v)
      BY <1>8, <3>2, PayloadTypes DEF WriteBlob, TypeInv
    <3> QED BY <1>8, <3>1, <3>2 DEF WriteBlob
  <2> QED BY <1>1, <2>1, <2>2 DEF TypeInv
<1>9. CASE List(r)
  <2>1. ReaderTypes'
    BY <1>9 DEF List, TypeInv, ReaderTypes, StoreTypes, TablesOf
  <2> QED BY <1>1, <1>9, <2>1 DEF List, TypeInv, StoreTypes, Payload
<1>10. CASE EvictBlob(r)
  <2>1. ReaderTypes'
    BY <1>10 DEF EvictBlob, TypeInv, ReaderTypes, TablesOf
  <2>2. StoreTypes'
    BY <1>10, UnstoreTypes DEF EvictBlob, TypeInv
  <2> QED BY <1>1, <2>1, <2>2 DEF TypeInv
<1>11. CASE EvictEntry(r)
  <2>1. PICK k \in doomed[r] : Unindex(k) /\ listed' = [listed EXCEPT ![r] = @ \ {k}]
    BY <1>11 DEF EvictEntry
  <2>2. IsFiniteSet(listed[r] \ {k})
    BY FS_RemoveElement DEF TypeInv, ReaderTypes
  <2>3. ReaderTypes'
    BY <1>11, <2>1, <2>2 DEF EvictEntry, TypeInv, ReaderTypes, TablesOf
  <2>4. StoreTypes'
    BY <1>11, <2>1, UnindexTypes DEF EvictEntry, TypeInv
  <2> QED BY <1>1, <2>3, <2>4 DEF TypeInv
<1>12. CASE EndEviction(r)
  <2>1. ReaderTypes'
    BY <1>12, FS_EmptySet DEF EndEviction, TypeInv, ReaderTypes, TablesOf
  <2> QED BY <1>1, <1>12, <2>1 DEF EndEviction, TypeInv, StoreTypes, Payload
<1> QED BY <1>2, <1>3, <1>4, <1>5, <1>6, <1>7, <1>8, <1>9, <1>10, <1>11, <1>12 DEF ReadStep

\* The steps of a write.
LEMMA WriteTypes ==
    ASSUME WriteTypeOK, NEW w \in Writers, ChangesData(w) \/ LeavesData(w) \/ Flush(w)
    PROVE  WriteTypeOK'
<1> USE WriteAssumption DEF WriteTypeOK, Proceed, SetFiles, SetVersion, WriterPlaces
<1>1. CASE Clear(w)
  BY <1>1 DEF Clear
<1>2. CASE Copy(w)
  BY <1>2 DEF Copy, Copied
<1>3. CASE Describe(w) \/ ReadBack(w) \/ Flush(w)
  BY <1>3 DEF Describe, ReadBack, Flush
<1>4. CASE DeleteRow(w) \/ Bump(w)
  BY <1>4 DEF DeleteRow, Bump
<1>5. CASE CreateRow(w) \/ Register(w)
  BY <1>5 DEF CreateRow, Register, InsertRow
<1> QED BY <1>1, <1>2, <1>3, <1>4, <1>5 DEF ChangesData, LeavesData

LEMMA FlushTypes ==
    ASSUME StoreTypes, NEW w \in Writers, Flush(w)
    PROVE  StoreTypes'
<1>1. CASE UNCHANGED cacheVars
  BY <1>1 DEF StoreTypes, Payload
<1>2. CASE ~UNCHANGED cacheVars
  <2> DEFINE stale == {k \in index : TargetOf[w] \in DOMAIN k.seen}
  <2>1. PICK Orphaned \in [blobs -> BOOLEAN] :
            /\ index' = index \ stale /\ revived' = revived \ stale
            /\ blobs' = {[b EXCEPT !.clean = @ /\ ~Orphaned[b]] : b \in blobs}
    <3> DEFINE orphaned == [b \in blobs |-> TargetOf[w] \in Reads[b.key.stmt]
                                               /\ b.key \notin index \ stale]
    <3>1. /\ index' = index \ stale /\ revived' = revived \ stale
          /\ blobs' = {[b EXCEPT !.clean = @ /\ ~orphaned[b]] : b \in blobs}
      BY <1>2 DEF Flush
    <3> QED BY <3>1
  <2>2. IsFiniteSet(index \ stale)
    BY FS_Difference DEF StoreTypes
  <2>3. \A c \in blobs' : \E b \in blobs : c = [b EXCEPT !.clean = b.clean /\ ~Orphaned[b]]
    BY <2>1
  <2>4. \A c \in blobs' : Payload(c)
    <3> SUFFICES ASSUME NEW b \in blobs
                 PROVE  Payload([b EXCEPT !.clean = b.clean /\ ~Orphaned[b]])
      BY <2>3
    <3> DEFINE clean == b.clean /\ ~Orphaned[b]
    <3>1. clean \in BOOLEAN /\ b = [key |-> b.key, val |-> b.val, clean |-> b.clean]
      BY DEF StoreTypes, Payload
    <3> HIDE DEF clean
    <3>2. [b EXCEPT !.clean = clean] = [key |-> b.key, val |-> b.val, clean |-> clean]
      BY <3>1
    <3>3. Payload([b EXCEPT !.clean = clean])
      BY <3>1, <3>2 DEF Payload
    <3> QED BY <3>3 DEF clean
  <2>5. \A c, d \in blobs' : c.key = d.key => c = d
    BY <2>3 DEF StoreTypes, Payload
  <2> QED BY <2>1, <2>2, <2>4, <2>5 DEF StoreTypes, Payload
<1> QED BY <1>1, <1>2

LEMMA MarkTypes ==
    ASSUME TypeInv, NEW t \in Tables, Changes(t)
    PROVE  mark' \in [Readers -> Marks] /\ unsettled' \subseteq Tables
BY DEF Changes, Marks, TypeInv, ReaderTypes

LEMMA TypeStep ==
    ASSUME TypeInv, [Next]_vars
    PROVE  TypeInv'
<1>1. CASE UNCHANGED vars
  BY <1>1 DEF vars, writeVars, readerVars, TypeInv, WriteTypeOK, ReaderTypes, StoreTypes,
              Payload, TablesOf
<1>2. ASSUME NEW r \in Readers, ReadStep(r)
      PROVE  TypeInv'
  BY <1>2, ReadTypeStep
<1>3. ASSUME NEW w \in Writers, WriteStep(w)
      PROVE  TypeInv'
  <2>1. WriteTypeOK'
    BY <1>3, WriteTypes DEF WriteStep, TypeInv
  <2>2. mark' \in [Readers -> Marks] /\ unsettled' \subseteq Tables
    <3>1. CASE Changes(TargetOf[w])
      BY <3>1, MarkTypes, WriteAssumption
    <3>2. CASE UNCHANGED mark /\ unsettled' \subseteq unsettled
      BY <3>2 DEF TypeInv, ReaderTypes
    <3> QED BY <1>3, <3>1, <3>2 DEF WriteStep, Flush
  <2>3. ReaderTypes'
    BY <1>3, <2>2 DEF WriteStep, readerVars, TypeInv, ReaderTypes, TablesOf
  <2>4. StoreTypes'
    <3>1. CASE UNCHANGED cacheVars
      BY <3>1 DEF TypeInv, StoreTypes, Payload
    <3> QED BY <1>3, <3>1, FlushTypes DEF WriteStep, TypeInv
  <2> QED BY <2>1, <2>2, <2>3, <2>4 DEF TypeInv
<1>4. CASE DropStep
  <2>1. PICK t \in Tables : Drop(t) /\ Changes(t) /\ UNCHANGED <<readerVars, cacheVars>>
    BY <1>4 DEF DropStep
  <2>2. WriteTypeOK'
    BY <2>1 DEF Drop, SetVersion, TypeInv, WriteTypeOK
  <2>3. ReaderTypes' /\ unsettled' \subseteq Tables
    BY <2>1, MarkTypes DEF readerVars, TypeInv, ReaderTypes, TablesOf
  <2> QED BY <2>1, <2>2, <2>3 DEF TypeInv, StoreTypes, Payload
<1> QED BY <1>1, <1>2, <1>3, <1>4 DEF Next

LEMMA TypeInvariance == Spec => []TypeInv
<1>1. Init => TypeInv
  BY WriteAssumption, FS_EmptySet
     DEF Init, WriteInit, Nothing, TypeInv, WriteTypeOK, WriterPlaces, ReaderTypes, ReaderPlaces,
         Marks, StoreTypes, TablesOf
<1> QED BY <1>1, TypeStep, PTL DEF Spec

\* Every variable of the cache keeps its type: among others a key has one payload,
\* and what an eviction deletes it has listed.
THEOREM TypeCorrect == Spec => []CacheTypeOK
BY TypeInvariance, TypeInvHasTypes, PTL

-------------------------------------------------------------------------------
(* The limit                                                                *)

\* The entries some eviction has to have seen: they were neither put back by a hit
\* nor are they of a Put that has yet to list.
IndexedKeys == {KeyOf(r) : r \in {q \in Readers : rpc[q] = "indexed"}}

Listable == (index \ revived) \ IndexedKeys

\* The last eviction to have listed the index covers them, or has got them down to
\* the limit.
LimitInv ==
    failures = 0 /\ MaxEntries > 0 =>
        \/ Cardinality(Listable) <= MaxEntries
        \/ \E r \in Readers : rpc[r] = "evicting" /\ Listable \subseteq listed[r]

LEMMA ListableFinite ==
    ASSUME TypeInv
    PROVE  IsFiniteSet(Listable)
BY FS_Subset DEF Listable, TypeInv, StoreTypes

\* A step that makes no more entries listable, ends no eviction and takes nothing
\* listable from its list.
LEMMA LimitKept ==
    ASSUME TypeInv, LimitInv, failures' = 0 => failures = 0, Listable' \subseteq Listable,
           \A r \in Readers : rpc[r] = "evicting" =>
               rpc'[r] = "evicting" /\ listed[r] \cap Listable' \subseteq listed'[r]
    PROVE  LimitInv'
<1> SUFFICES ASSUME failures' = 0, MaxEntries > 0
             PROVE  \/ Cardinality(Listable') <= MaxEntries
                    \/ \E r \in Readers : rpc'[r] = "evicting" /\ Listable' \subseteq listed'[r]
  BY DEF LimitInv
<1>1. Cardinality(Listable') <= Cardinality(Listable)
  BY ListableFinite, FS_Subset
<1>2. Cardinality(Listable') \in Nat /\ Cardinality(Listable) \in Nat
  BY ListableFinite, FS_Subset, FS_CardinalityType
<1>3. CASE Cardinality(Listable) <= MaxEntries
  BY <1>1, <1>2, <1>3, CacheAssumption
<1>4. CASE \E r \in Readers : rpc[r] = "evicting" /\ Listable \subseteq listed[r]
  BY <1>4
<1> QED BY <1>3, <1>4 DEF LimitInv

LEMMA NoFailureYet ==
    ASSUME TypeInv, failures' = failures \/ failures' = failures + 1, failures' = 0
    PROVE  failures = 0
BY WriteAssumption DEF TypeInv, WriteTypeOK

\* Runs that leave the index alone, and do not list or evict.
LEMMA QuietStep ==
    ASSUME TypeInv, LimitInv, NEW r \in Readers,
           Resolve(r) \/ GetVersion(r) \/ Lookup(r) \/ ReadBlob(r) \/ Execute(r)
             \/ WriteBlob(r) \/ ExpireBlob(r) \/ EvictBlob(r),
           failures' = 0 => failures = 0
    PROVE  LimitInv'
<1> USE DEF TypeInv, ReaderTypes
<1>1. UNCHANGED <<index, revived, listed>>
  BY DEF Resolve, GetVersion, Lookup, ReadBlob, Execute, WriteBlob, ExpireBlob, EvictBlob
<1>2. CASE GetVersion(r)
  <2>1. \A q \in Readers : q # r => seen'[q] = seen[q] /\ rpc'[q] = rpc[q]
    BY <1>2 DEF GetVersion
  <2>2. rpc[r] = "resolved" /\ rpc'[r] \in {"resolved", "bypass"}
    BY <1>2 DEF GetVersion
  <2>3. Listable' = Listable
    BY <1>1, <2>1, <2>2 DEF Listable, IndexedKeys, KeyOf
  <2> QED BY <1>1, <2>1, <2>2, <2>3, LimitKept
<1>3. CASE ~GetVersion(r)
  <2>1. /\ seen' = seen
        /\ \E p \in ReaderPlaces : rpc' = [rpc EXCEPT ![r] = p]
        /\ rpc[r] # "indexed"
        /\ rpc[r] = "evicting" => rpc'[r] = "evicting"
    BY <1>3 DEF Resolve, Lookup, ReadBlob, Execute, WriteBlob, ExpireBlob, EvictBlob, ReaderPlaces
  <2>2. Listable' \subseteq Listable
    BY <1>1, <2>1 DEF Listable, IndexedKeys, KeyOf
  <2> QED BY <1>1, <2>1, <2>2, LimitKept
<1> QED BY <1>2, <1>3

LEMMA ReadLimitStep ==
    ASSUME TypeInv, LimitInv, NEW r \in Readers, ReadStep(r)
    PROVE  LimitInv'
<1> SUFFICES ASSUME failures' = 0, MaxEntries > 0 PROVE LimitInv'
  BY DEF LimitInv
<1>1. failures = 0 /\ ~Fails
  <2>1. failures = 0
    BY ReadFailures, NoFailureYet
  <2> QED BY <2>1
<1>2. CASE Resolve(r) \/ GetVersion(r) \/ Lookup(r) \/ ReadBlob(r) \/ Execute(r)
             \/ WriteBlob(r) \/ ExpireBlob(r) \/ EvictBlob(r)
  BY <1>1, <1>2, QuietStep
<1>3. CASE ExpireEntry(r) \/ DropEntry(r)
  <2>1. /\ index' \ revived' \subseteq index \ revived
        /\ UNCHANGED <<seen, listed>>
        /\ \E p \in ReaderPlaces : rpc' = [rpc EXCEPT ![r] = p]
        /\ rpc[r] \notin {"indexed", "evicting"}
    BY <1>1, <1>3 DEF ExpireEntry, DropEntry, Unindex, ReaderPlaces
  <2>2. Listable' \subseteq Listable
    BY <2>1 DEF Listable, IndexedKeys, KeyOf, TypeInv, ReaderTypes
  <2> QED BY <1>1, <2>1, <2>2, LimitKept DEF TypeInv, ReaderTypes
<1>4. CASE Touch(r) \/ Index(r)
  <2>1. /\ UNCHANGED <<seen, listed>>
        /\ \E p \in ReaderPlaces : rpc' = [rpc EXCEPT ![r] = p]
        /\ rpc[r] \notin {"indexed", "evicting"}
    BY <1>4 DEF Touch, Index, ReaderPlaces
  <2>2. \/ index' \ revived' \subseteq index \ revived
        \/ rpc'[r] = "indexed" /\ index' \ revived' \subseteq (index \ revived) \cup {KeyOf(r)}
    BY <1>1, <1>4 DEF Touch, Index, TypeInv, ReaderTypes
  <2>3. Listable' \subseteq Listable
    BY <2>1, <2>2 DEF Listable, IndexedKeys, KeyOf, TypeInv, ReaderTypes
  <2> QED BY <1>1, <2>1, <2>3, LimitKept DEF TypeInv, ReaderTypes
<1>5. CASE List(r)
  <2>1. index' = index /\ rpc'[r] = "evicting" /\ listed'[r] = index
    BY <1>1, <1>5 DEF List, TypeInv, ReaderTypes
  <2>2. Listable' \subseteq listed'[r]
    BY <2>1 DEF Listable
  <2> QED BY <2>1, <2>2 DEF LimitInv
<1>6. CASE EvictEntry(r)
  <2>1. PICK k \in doomed[r] :
            /\ index' = index \ {k} /\ revived' = revived \ {k}
            /\ listed' = [listed EXCEPT ![r] = @ \ {k}]
    BY <1>1, <1>6 DEF EvictEntry, Unindex
  <2>2. UNCHANGED <<rpc, seen>>
    BY <1>6 DEF EvictEntry
  <2>3. Listable' = Listable \ {k}
    BY <2>1, <2>2 DEF Listable, IndexedKeys, KeyOf
  <2>4. \A q \in Readers : listed[q] \ {k} \subseteq listed'[q]
    BY <2>1 DEF TypeInv, ReaderTypes
  <2> QED BY <1>1, <2>2, <2>3, <2>4, LimitKept
<1>7. CASE EndEviction(r)
  <2>1. /\ UNCHANGED <<index, revived, seen>>
        /\ rpc' = [rpc EXCEPT ![r] = "answered"] /\ rpc[r] = "evicting"
        /\ listed' = [listed EXCEPT ![r] = {}]
    BY <1>7 DEF EndEviction
  <2>2. Listable' = Listable
    BY <2>1 DEF Listable, IndexedKeys, KeyOf, TypeInv, ReaderTypes
  <2>3. CASE Listable \subseteq listed[r]
    <3>1. /\ Cardinality(Listable) <= Cardinality(listed[r])
          /\ Cardinality(Listable) \in Nat /\ Cardinality(listed[r]) \in Nat
      BY <2>3, FS_Subset, FS_CardinalityType DEF TypeInv, ReaderTypes
    <3>2. Cardinality(listed[r]) <= MaxEntries
      BY <1>7, <3>1, CacheAssumption DEF EndEviction, OverFull
    <3> QED BY <2>2, <3>1, <3>2, CacheAssumption DEF LimitInv
  <2>4. CASE ~(Listable \subseteq listed[r])
    BY <1>1, <2>1, <2>2, <2>4 DEF LimitInv, TypeInv, ReaderTypes
  <2> QED BY <2>3, <2>4
<1> QED BY <1>2, <1>3, <1>4, <1>5, <1>6, <1>7 DEF ReadStep

LEMMA LimitStep ==
    ASSUME TypeInv, LimitInv, [Next]_vars
    PROVE  LimitInv'
<1>1. CASE UNCHANGED vars
  <2>1. Listable' = Listable
    BY <1>1 DEF vars, readerVars, Listable, IndexedKeys, KeyOf
  <2> QED BY <1>1, <2>1 DEF vars, readerVars, writeVars, LimitInv
<1>2. ASSUME NEW r \in Readers, ReadStep(r)
      PROVE  LimitInv'
  BY <1>2, ReadLimitStep
<1>3. ASSUME UNCHANGED readerVars, index' \ revived' \subseteq index \ revived,
             failures' = failures \/ failures' = failures + 1
      PROVE  LimitInv'
  <2>1. Listable' \subseteq Listable /\ UNCHANGED <<rpc, listed>>
    BY <1>3 DEF readerVars, Listable, IndexedKeys, KeyOf
  <2>2. failures' = 0 => failures = 0
    BY <1>3, NoFailureYet
  <2> QED BY <2>1, <2>2, LimitKept
<1>4. ASSUME NEW w \in Writers, WriteStep(w)
      PROVE  LimitInv'
  <2>1. UNCHANGED readerVars
    BY <1>4 DEF WriteStep
  <2>2. index' \ revived' \subseteq index \ revived
    BY <1>4 DEF WriteStep, Flush
  <2>3. failures' = failures \/ failures' = failures + 1
    BY <1>4 DEF WriteStep, Flush, ChangesData, LeavesData, Clear, Copy, Describe, DeleteRow,
                CreateRow, Bump, ReadBack, Register
  <2> QED BY <1>3, <2>1, <2>2, <2>3
<1>5. CASE DropStep
  <2>1. UNCHANGED <<readerVars, cacheVars, failures>>
    BY <1>5 DEF DropStep, Drop
  <2> QED BY <1>3, <2>1
<1> QED BY <1>1, <1>2, <1>4, <1>5 DEF Next

\* Evictions that run beside one another, each by the listing it began with, keep
\* the index within its limit (evictLRU).
THEOREM LimitHolds == Spec => []WithinLimit
<1>1. Init => LimitInv
  <2>1. Init => Listable = {}
    BY DEF Init, Listable
  <2> QED BY <2>1, FS_EmptySet, CacheAssumption DEF LimitInv
<1>2. LimitInv => WithinLimit
  <2> SUFFICES ASSUME LimitInv, failures = 0, MaxEntries > 0,
                      \A r \in Readers : rpc[r] \notin {"indexed", "evicting"}
               PROVE  Cardinality(index \ revived) <= MaxEntries
    BY DEF WithinLimit
  <2>1. Listable = index \ revived
    BY DEF Listable, IndexedKeys
  <2> QED BY <2>1 DEF LimitInv
<1> QED BY <1>1, <1>2, LimitStep, TypeInvariance, PTL DEF Spec
-------------------------------------------------------------------------------
(* Coherence                                                                *)

IdleInv == \A r \in Readers : rpc[r] = "idle" => val[r] = Nothing /\ DOMAIN seen[r] = {}

Looking == {"hit", "expired", "expiring", "dangling", "missed"}

Resolved(r) == {t \in TablesOf(r) : HasRow(t)}

\* A clean run: nobody writes its tables and their last change is invalidated, it
\* has read or will read the version of each table with a row, so that the key it
\* stores under names all of them, and its result is what the tables hold.
FreshReader(r) ==
    /\ \A t \in TablesOf(r) : ~Busy(t) /\ t \notin unsettled
    /\ rpc[r] \in {"resolved"} \cup Looking => DOMAIN seen[r] \cup todo[r] = Resolved(r)
    /\ rpc[r] \in Looking => todo[r] = {}
    /\ rpc[r] = "storing" => DOMAIN seen[r] = TablesOf(r)
    /\ val[r] # Nothing => val[r] = Current(r)

ReaderInv == \A r \in Readers : rpc[r] # "idle" /\ mark[r] = "clean" => FreshReader(r)

\* The payload of a clean run names all tables of its statement, by which an
\* invalidation finds its entry, and holds what they hold, unless one of them has
\* a change that is yet to be invalidated.
FreshBlob(b) ==
    /\ b.key.stmt \in Statements /\ DOMAIN b.key.seen = Reads[b.key.stmt]
    /\ Reads[b.key.stmt] \cap unsettled = {} => b.val = [t \in Reads[b.key.stmt] |-> Content(t)]

BlobInv == \A b \in blobs : b.clean /\ b.val # Nothing => FreshBlob(b)

FreshInv == IdleInv /\ ReaderInv /\ BlobInv

LEMMA ReadsTables ==
    ASSUME NEW r \in Readers
    PROVE  TablesOf(r) \subseteq Tables
BY CacheAssumption DEF TablesOf

\* A step of a write leaves the other tables alone ...
LEMMA OtherTablesKept ==
    ASSUME TypeInv, NEW w \in Writers, WriteStep(w), NEW t \in Tables, t # TargetOf[w]
    PROVE  /\ Content(t)' = Content(t) /\ HasRow(t)' = HasRow(t)
           /\ Busy(t)' => Busy(t)
           /\ t \in unsettled' <=> t \in unsettled
<1> USE WriteAssumption DEF TypeInv, WriteTypeOK, Proceed, SetFiles, SetVersion
<1>1. files'[t] = files[t] /\ version'[t] = version[t] /\ source'[t] = source[t]
  BY DEF WriteStep, Flush, ChangesData, LeavesData, Clear, Copy, Describe, DeleteRow, CreateRow,
         Bump, ReadBack, Register, InsertRow
<1>2. \A v \in Writers : TargetOf[v] = t => wpc'[v] = wpc[v]
  BY DEF WriteStep, Flush, ChangesData, LeavesData, Clear, Copy, Describe, DeleteRow, CreateRow,
         Bump, ReadBack, Register
<1>3. t \in unsettled' <=> t \in unsettled
  BY DEF WriteStep, Flush, Changes
<1> QED BY <1>1, <1>2, <1>3 DEF Content, HasRow, Busy

\* ... and one that changes what a query of its table reads crosses the runs that
\* query it; before the others the table is being written.
LEMMA WriteMarks ==
    ASSUME TypeInv, NEW w \in Writers, WriteStep(w), NEW r \in Readers, rpc[r] # "idle",
           mark'[r] = "clean"
    PROVE  mark[r] = "clean" /\ (TargetOf[w] \notin TablesOf(r) \/ Busy(TargetOf[w]))
<1>1. CASE Changes(TargetOf[w])
  BY <1>1 DEF Changes
<1>2. CASE (LeavesData(w) \/ Flush(w)) /\ UNCHANGED mark
  <2>1. wpc[w] \notin Resting
    BY <1>2 DEF LeavesData, Flush, Describe, DeleteRow, Bump, ReadBack, Proceed, Resting
  <2> QED BY <1>2, <2>1 DEF Busy
<1> QED BY <1>1, <1>2 DEF WriteStep, Flush

\* A run all of whose tables are as they were.
LEMMA FreshReaderKept ==
    ASSUME NEW r \in Readers, FreshReader(r),
           rpc'[r] = rpc[r], todo'[r] = todo[r], seen'[r] = seen[r], val'[r] = val[r],
           \A t \in TablesOf(r) : /\ Content(t)' = Content(t) /\ HasRow(t)' = HasRow(t)
                                  /\ Busy(t)' => Busy(t)
                                  /\ t \in unsettled' => t \in unsettled
    PROVE  FreshReader(r)'
<1>1. Current(r)' = Current(r) /\ Resolved(r)' = Resolved(r)
  BY DEF Current, Resolved, TablesOf
<1> QED BY <1>1 DEF FreshReader, TablesOf

\* The same for a payload, ...
LEMMA FreshBlobKept ==
    ASSUME NEW b, FreshBlob(b),
           \A t \in Reads[b.key.stmt] : /\ Content(t)' = Content(t)
                                        /\ t \in unsettled => t \in unsettled'
    PROVE  FreshBlob(b)'
<1> DEFINE read == Reads[b.key.stmt]
<1>1. [t \in read |-> Content(t)'] = [t \in read |-> Content(t)]
  OBVIOUS
<1> QED BY <1>1 DEF FreshBlob

LEMMA QuietWrite ==
    ASSUME NEW w \in Writers, LeavesData(w) \/ Flush(w), NEW t
    PROVE  Content(t)' = Content(t)
BY DEF LeavesData, Flush, Describe, DeleteRow, Bump, ReadBack, Content

\* ... and the invalidation of a table, which reaches every clean payload that was
\* made of it, since the key names the table.
LEMMA FlushFreshBlobs ==
    ASSUME TypeInv, BlobInv, NEW w \in Writers, Flush(w),
           ~UNCHANGED <<blobs, unsettled>>
    PROVE  BlobInv'
<1> DEFINE stale == {k \in index : TargetOf[w] \in DOMAIN k.seen}
           orphaned == [b \in blobs |-> /\ TargetOf[w] \in Reads[b.key.stmt]
                                        /\ b.key \notin index \ stale]
           clean(b) == b.clean /\ ~orphaned[b]
<1>1. /\ blobs' = {[b EXCEPT !.clean = clean(b)] : b \in blobs}
      /\ unsettled' = unsettled \ {TargetOf[w]}
  BY DEF Flush
<1> SUFFICES ASSUME NEW b \in blobs, NEW c, c = [b EXCEPT !.clean = clean(b)],
                    c.clean, c.val # Nothing
             PROVE  FreshBlob(c)'
  BY <1>1 DEF BlobInv
<1>2. c.key = b.key /\ c.val = b.val /\ clean(b)
  <2>1. clean(b) \in BOOLEAN /\ b = [key |-> b.key, val |-> b.val, clean |-> b.clean]
    BY DEF TypeInv, StoreTypes, Payload
  <2> HIDE DEF clean
  <2> QED BY <2>1
<1>3. FreshBlob(b)
  BY <1>2 DEF BlobInv
<1>4. TargetOf[w] \notin Reads[b.key.stmt]
  BY <1>2, <1>3 DEF FreshBlob
<1> QED BY <1>1, <1>2, <1>3, <1>4, QuietWrite, FreshBlobKept DEF FreshBlob

LEMMA WriteFreshStep ==
    ASSUME TypeInv, FreshInv, NEW w \in Writers, WriteStep(w)
    PROVE  FreshInv'
<1>1. UNCHANGED <<rpc, todo, seen, val>>
  BY DEF WriteStep, readerVars
<1>2. ReaderInv'
  <2> SUFFICES ASSUME NEW r \in Readers, rpc[r] # "idle", mark'[r] = "clean"
               PROVE  FreshReader(r)'
    BY <1>1 DEF ReaderInv
  <2>1. FreshReader(r)
    BY WriteMarks DEF FreshInv, ReaderInv
  <2>2. TargetOf[w] \notin TablesOf(r)
    BY WriteMarks, <2>1 DEF FreshReader
  <2> QED BY <1>1, <2>1, <2>2, FreshReaderKept, OtherTablesKept, ReadsTables
<1>3. BlobInv'
  <2>1. CASE UNCHANGED blobs /\ Changes(TargetOf[w])
    <3> SUFFICES ASSUME NEW b \in blobs, b.clean, b.val # Nothing
                 PROVE  FreshBlob(b)'
      BY <2>1 DEF BlobInv
    <3>1. FreshBlob(b)
      BY DEF FreshInv, BlobInv
    <3>2. CASE TargetOf[w] \in Reads[b.key.stmt]
      BY <2>1, <3>1, <3>2 DEF FreshBlob, Changes
    <3>3. CASE TargetOf[w] \notin Reads[b.key.stmt]
      BY <3>1, <3>3, FreshBlobKept, OtherTablesKept, CacheAssumption DEF FreshBlob
    <3> QED BY <3>2, <3>3
  <2>2. CASE UNCHANGED <<blobs, unsettled>> /\ (LeavesData(w) \/ Flush(w))
    BY <2>2, QuietWrite, FreshBlobKept DEF FreshInv, BlobInv
  <2>3. CASE Flush(w) /\ ~UNCHANGED <<blobs, unsettled>>
    BY <2>3, FlushFreshBlobs DEF FreshInv
  <2> QED BY <2>1, <2>2, <2>3 DEF WriteStep, Flush
<1>4. IdleInv'
  BY <1>1 DEF FreshInv, IdleInv
<1> QED BY <1>2, <1>3, <1>4 DEF FreshInv

LEMMA DropFreshStep ==
    ASSUME TypeInv, FreshInv, DropStep
    PROVE  FreshInv'
<1>1. PICK d \in Tables : Drop(d) /\ Changes(d) /\ UNCHANGED <<readerVars, cacheVars>>
  BY DEF DropStep
<1>2. UNCHANGED <<rpc, todo, seen, val, blobs>>
  BY <1>1 DEF readerVars
<1>3. /\ \A t : Content(t)' = Content(t) /\ (t \in unsettled => t \in unsettled')
      /\ \A t \in Tables : t # d => /\ HasRow(t)' = HasRow(t)
                                    /\ t \in unsettled' => t \in unsettled
      /\ \A t : Busy(t)' = Busy(t)
  BY <1>1 DEF Drop, SetVersion, Changes, Content, HasRow, Busy, TypeInv, WriteTypeOK
<1>4. ReaderInv'
  <2> SUFFICES ASSUME NEW r \in Readers, rpc[r] # "idle", mark'[r] = "clean"
               PROVE  FreshReader(r)'
    BY <1>2 DEF ReaderInv
  <2>1. mark[r] = "clean" /\ d \notin TablesOf(r)
    BY <1>1 DEF Changes
  <2> QED BY <1>2, <1>3, <2>1, FreshReaderKept, ReadsTables DEF FreshInv, ReaderInv
<1>5. BlobInv'
  BY <1>2, <1>3, FreshBlobKept DEF FreshInv, BlobInv
<1>6. IdleInv'
  BY <1>2 DEF FreshInv, IdleInv
<1> QED BY <1>4, <1>5, <1>6 DEF FreshInv

\* A run leaves the tables and the other runs alone.
LEMMA ReadKeepsTables ==
    ASSUME NEW r \in Readers, ReadStep(r), NEW t
    PROVE  /\ Content(t)' = Content(t) /\ HasRow(t)' = HasRow(t) /\ Busy(t)' = Busy(t)
           /\ t \in unsettled' <=> t \in unsettled
BY ReadKeepsData DEF Content, HasRow, Busy

LEMMA ReadKeepsOthers ==
    ASSUME TypeInv, NEW r \in Readers, ReadStep(r), NEW q \in Readers, q # r
    PROVE  /\ rpc'[q] = rpc[q] /\ todo'[q] = todo[q] /\ seen'[q] = seen[q]
           /\ val'[q] = val[q] /\ mark'[q] = mark[q]
<1> USE DEF TypeInv, ReaderTypes
<1>1. CASE Resolve(r) \/ GetVersion(r)
  BY <1>1 DEF Resolve, GetVersion
<1>2. CASE Lookup(r) \/ ReadBlob(r) \/ Execute(r)
  BY <1>2 DEF Lookup, ReadBlob, Execute
<1>3. CASE ~(Resolve(r) \/ GetVersion(r) \/ Lookup(r) \/ ReadBlob(r) \/ Execute(r))
  BY <1>3 DEF ReadStep, ExpireEntry, ExpireBlob, DropEntry, Touch, WriteBlob, Index, List,
              EvictBlob, EvictEntry, EndEviction
<1> QED BY <1>1, <1>2, <1>3

\* What a step of a run does to the run.
LEMMA ReaderFreshStep ==
    ASSUME TypeInv, FreshInv, NEW r \in Readers, ReadStep(r), mark'[r] = "clean"
    PROVE  FreshReader(r)'
<1> USE DEF TypeInv, ReaderTypes
<1>1. Current(r)' = Current(r) /\ Resolved(r)' = Resolved(r)
  BY ReadKeepsTables DEF Current, Resolved, TablesOf
<1>2. CASE Resolve(r)
  <2>1. \A t \in TablesOf(r) : ~Busy(t) /\ t \notin unsettled
    BY <1>2 DEF Resolve
  <2>2. val'[r] = Nothing /\ DOMAIN seen'[r] = {}
    BY <1>2 DEF Resolve, FreshInv, IdleInv
  <2>3. rpc'[r] \in {"resolved", "bypass"} /\ (rpc'[r] = "resolved" => todo'[r] = Resolved(r))
    BY <1>2 DEF Resolve, Resolved
  <2> QED BY <1>1, <2>1, <2>2, <2>3, ReadKeepsTables DEF FreshReader, Looking, TablesOf
<1>3. CASE ~Resolve(r)
  <2>1. rpc[r] # "idle" /\ mark[r] = "clean"
    BY <1>3 DEF ReadStep, GetVersion, Lookup, ExpireEntry, ExpireBlob, ReadBlob, DropEntry,
                Touch, Execute, WriteBlob, Index, List, EvictBlob, EvictEntry, EndEviction
  <2>2. FreshReader(r)
    BY <2>1 DEF FreshInv, ReaderInv
  <2>3. \A t \in TablesOf(r)' : ~Busy(t)' /\ t \notin unsettled'
    BY <2>2, ReadKeepsTables DEF FreshReader, TablesOf
  <2>4. CASE GetVersion(r)
    <3>1. UNCHANGED val /\ rpc[r] = "resolved" /\ rpc'[r] \in {"resolved", "bypass"}
      BY <2>4 DEF GetVersion
    <3>2. DOMAIN seen'[r] \cup todo'[r] = DOMAIN seen[r] \cup todo[r]
      BY <2>4 DEF GetVersion
    <3> QED BY <1>1, <2>2, <2>3, <3>1, <3>2 DEF FreshReader, Looking
  <2>5. CASE ReadBlob(r) /\ rpc'[r] = "touching"
    <3>1. PICK b \in BlobOf(KeyOf(r)) : /\ b.val # Nothing
                                        /\ val' = [val EXCEPT ![r] = b.val]
                                        /\ mark'[r] = IF mark[r] = "clean" /\ ~b.clean
                                                      THEN "infected" ELSE mark[r]
      BY <2>5 DEF ReadBlob
    <3>2. b.clean /\ FreshBlob(b)
      BY <2>1, <3>1 DEF BlobOf, FreshInv, BlobInv
    <3>3. val'[r] = Current(r)
      BY <2>2, <3>1, <3>2 DEF FreshBlob, BlobOf, KeyOf, FreshReader, Current, TablesOf
    <3> QED BY <1>1, <2>3, <2>5, <3>3 DEF FreshReader, Looking
  <2>6. CASE ReadBlob(r) /\ rpc'[r] # "touching"
    <3>1. UNCHANGED <<val, todo, seen>> /\ {rpc[r], rpc'[r]} \subseteq Looking
      BY <2>6 DEF ReadBlob, Looking
    <3> QED BY <1>1, <2>2, <2>3, <3>1 DEF FreshReader, Looking
  <2>7. CASE Execute(r)
    <3>1. UNCHANGED <<todo, seen>> /\ rpc'[r] \in {"storing", "answered"}
      BY <2>7 DEF Execute
    <3>2. val'[r] = Current(r) \/ val'[r] = val[r]
      BY <2>7 DEF Execute
    <3>3. rpc'[r] = "storing" => DOMAIN seen[r] = TablesOf(r)
      BY <2>2, <2>7 DEF Execute, FreshReader, Looking, Resolved
    <3> QED BY <1>1, <2>2, <2>3, <3>1, <3>2, <3>3 DEF FreshReader, Looking, TablesOf
  <2>8. CASE Lookup(r) \/ ExpireEntry(r) \/ ExpireBlob(r) \/ DropEntry(r)
    <3>1. /\ UNCHANGED <<val, todo, seen>>
          /\ rpc[r] \in {"resolved"} \cup Looking /\ rpc'[r] \in Looking
          /\ rpc[r] = "resolved" => todo[r] = {}
      BY <2>8 DEF Lookup, ExpireEntry, ExpireBlob, DropEntry, Looking
    <3> QED BY <1>1, <2>2, <2>3, <3>1 DEF FreshReader, Looking
  <2>9. CASE \/ Touch(r) \/ WriteBlob(r) \/ Index(r) \/ List(r)
             \/ EvictBlob(r) \/ EvictEntry(r) \/ EndEviction(r)
    <3>1. /\ UNCHANGED <<val, todo, seen>>
          /\ rpc'[r] \in {"answered", "stored", "indexed", "evicting"}
      BY <2>9 DEF Touch, WriteBlob, Index, List, EvictBlob, EvictEntry, EndEviction
    <3> QED BY <1>1, <2>2, <2>3, <3>1 DEF FreshReader, Looking
  <2> QED BY <1>3, <2>4, <2>5, <2>6, <2>7, <2>8, <2>9 DEF ReadStep
<1> QED BY <1>2, <1>3

\* A payload is stored by a run whose key names all tables of its statement.
LEMMA ReadFreshBlobs ==
    ASSUME TypeInv, FreshInv, NEW r \in Readers, ReadStep(r)
    PROVE  BlobInv'
<1>1. \A b : FreshBlob(b) => FreshBlob(b)'
  BY ReadKeepsTables, FreshBlobKept
<1>2. CASE blobs' \subseteq blobs
  BY <1>1, <1>2 DEF FreshInv, BlobInv
<1>3. CASE rpc[r] = "storing" /\ \E v \in {val[r], Nothing} : StoreBlob(r, v)
  <2>1. PICK v \in {val[r], Nothing} : StoreBlob(r, v)
    BY <1>3
  <2> SUFFICES ASSUME NEW b \in blobs', b.clean, b.val # Nothing, b \notin blobs
               PROVE  FreshBlob(b)
    BY <1>1 DEF FreshInv, BlobInv
  <2>2. b = [key |-> KeyOf(r), val |-> v, clean |-> mark[r] = "clean"]
    BY <2>1 DEF StoreBlob
  <2>3. b.key = KeyOf(r) /\ b.val = val[r] /\ mark[r] = "clean"
    BY <2>1, <2>2
  <2>4. FreshReader(r)
    BY <1>3, <2>3 DEF FreshInv, ReaderInv
  <2> QED BY <1>3, <2>3, <2>4, CacheAssumption DEF FreshReader, FreshBlob, KeyOf, Current, TablesOf
<1> QED BY <1>2, <1>3 DEF ReadStep, Resolve, GetVersion, Lookup, ExpireEntry, ExpireBlob,
           ReadBlob, DropEntry, Touch, Execute, WriteBlob, Index, List, EvictBlob, EvictEntry,
           EndEviction, Unstore

LEMMA FreshStep ==
    ASSUME TypeInv, FreshInv, [Next]_vars
    PROVE  FreshInv'
<1>1. CASE UNCHANGED vars
  <2>1. \A t : Content(t)' = Content(t) /\ HasRow(t)' = HasRow(t) /\ Busy(t)' = Busy(t)
    BY <1>1 DEF vars, writeVars, Content, HasRow, Busy
  <2>2. ReaderInv'
    BY <1>1, <2>1, FreshReaderKept DEF vars, readerVars, FreshInv, ReaderInv
  <2>3. BlobInv'
    BY <1>1, <2>1, FreshBlobKept DEF vars, FreshInv, BlobInv
  <2> QED BY <1>1, <2>2, <2>3 DEF vars, readerVars, FreshInv, IdleInv
<1>2. ASSUME NEW r \in Readers, ReadStep(r)
      PROVE  FreshInv'
  <2>1. ReaderInv'
    <3> SUFFICES ASSUME NEW q \in Readers, rpc'[q] # "idle", mark'[q] = "clean"
                 PROVE  FreshReader(q)'
      BY DEF ReaderInv
    <3>1. CASE q = r
      BY <1>2, <3>1, ReaderFreshStep
    <3>2. CASE q # r
      <4>1. FreshReader(q)
        BY <1>2, <3>2, ReadKeepsOthers DEF FreshInv, ReaderInv
      <4> QED BY <1>2, <3>2, <4>1, ReadKeepsOthers, ReadKeepsTables, FreshReaderKept
    <3> QED BY <3>1, <3>2
  <2>2. rpc'[r] # "idle"
    BY <1>2 DEF ReadStep, Resolve, GetVersion, Lookup, ExpireEntry, ExpireBlob, ReadBlob,
                DropEntry, Touch, Execute, WriteBlob, Index, List, EvictBlob, EvictEntry,
                EndEviction, TypeInv, ReaderTypes
  <2>3. IdleInv'
    BY <1>2, <2>2, ReadKeepsOthers DEF FreshInv, IdleInv
  <2> QED BY <1>2, <2>1, <2>3, ReadFreshBlobs DEF FreshInv
<1>3. ASSUME NEW w \in Writers, WriteStep(w)
      PROVE  FreshInv'
  BY <1>3, WriteFreshStep
<1>4. CASE DropStep
  BY <1>4, DropFreshStep
<1> QED BY <1>1, <1>2, <1>3, <1>4 DEF Next

\* Cached answers are what the tables hold, except after the races and failures the
\* marks name: the data_version in the key and the invalidation by table
\* (versionSource, afterWrite) leave no other way to an old result.
THEOREM CacheIsCoherent == Spec => []FreshIfClean
<1>1. Init => FreshInv
  BY DEF Init, Nothing, FreshInv, IdleInv, ReaderInv, BlobInv
<1>2. FreshInv => FreshIfClean
  BY DEF FreshInv, ReaderInv, FreshReader, FreshIfClean, Answered
<1> QED BY <1>1, <1>2, FreshStep, TypeInvariance, PTL DEF Spec
================================================================================
