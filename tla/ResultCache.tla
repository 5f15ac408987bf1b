------------------------------ MODULE ResultCache ------------------------------
(***************************************************************************)
(* The result cache (internal/cache/result.go) in front of the executor,   *)
(* beside the writes of WritePath.tla that invalidate it.  A reader is one *)
(* run of CachingExecutor.Run; a writer ends with the invalidation of      *)
(* afterWrite (internal/write/write.go).                                   *)
(*                                                                         *)
(* A key is a statement and the data_version of every table it was         *)
(* resolved to; every payload has size 1.  The order in which entries are  *)
(* evicted is left open.                                                   *)
(***************************************************************************)
EXTENDS WritePath

CONSTANTS Readers,
          Statements,
          StatementOf,    \* the statement each reader runs
          Reads,          \* the tables each statement reads
          MaxEntries,     \* ResultMaxBytes, 0 for no limit
          Expires         \* whether there is a TTL

ASSUME CacheAssumption ==
    /\ StatementOf \in [Readers -> Statements]
    /\ Reads \in [Statements -> SUBSET Tables]
    /\ MaxEntries \in Nat
    /\ Expires \in BOOLEAN

VARIABLES rpc,        \* where each reader is
          todo,       \* the resolved tables whose version it has yet to read
          seen,       \* the versions it has read
          val,        \* its result
          index,      \* cache_index: a set of keys
          blobs,      \* the payload files: key, value, and the history "clean":
                      \* stored by a clean run, and its entry never invalidated
          listed,     \* the entries its eviction has yet to look at
          doomed,     \* ... and the one whose payload it has deleted
          mark,       \* history: why a reader may answer with an old result
          unsettled,  \* history: tables changed since their last invalidation
          revived     \* history: entries put back by a hit after their removal

readerVars == <<rpc, todo, seen, val, listed, doomed>>
cacheVars == <<index, blobs, revived>>
dataVars == <<files, version, source, wpc>>
vars == <<writeVars, readerVars, cacheVars, mark, unsettled>>

ReaderPlaces == {"idle",
                 "resolved",   \* versions being read
                 "bypass",     \* ... which failed: no caching
                 "keyed",      \* all versions read
                 "hit",        \* an entry was found
                 "expired", "expiring",  \* ... past its TTL, being deleted
                 "touching",   \* ... and its payload was read
                 "dangling",   \* ... whose payload is missing
                 "missed",
                 "storing",    \* executed; Put writes the payload
                 "stored",     \* ... the entry
                 "indexed",    \* ... lists the entries
                 "evicting",   \* ... and evicts
                 "answered"}

Marks == {"clean",
          "crossed",   \* a table changed, or was being written, during its run
          "unsure",    \* a table was left unsettled by a change before its run
          "infected"}  \* it hit an entry of a reader that was not clean

Nothing == <<>>

TablesOf(r) == Reads[StatementOf[r]]

KeyOf(r) == [stmt |-> StatementOf[r], seen |-> seen[r]]

\* What the statement's result is now.
Current(r) == [t \in TablesOf(r) |-> Content(t)]

Resting == {"idle", "done", "unflushed", "failed"}

Busy(t) == \E w \in Writers : TargetOf[w] = t /\ wpc[w] \notin Resting

BlobOf(k) == {b \in blobs : b.key = k}

Init ==
    /\ WriteInit
    /\ rpc = [r \in Readers |-> "idle"]
    /\ todo = [r \in Readers |-> {}]
    /\ seen = [r \in Readers |-> Nothing]
    /\ val = [r \in Readers |-> Nothing]
    /\ listed = [r \in Readers |-> {}]
    /\ doomed = [r \in Readers |-> {}]
    /\ index = {}
    /\ blobs = {}
    /\ revived = {}
    /\ mark = [r \in Readers |-> "clean"]
    /\ unsettled = {}

Goto(r, place) == rpc' = [rpc EXCEPT ![r] = place]

Step(r, a, b) == rpc[r] = a /\ Goto(r, b)

\* Restrictions of what a step may change.
KeepsData == UNCHANGED <<dataVars, unsettled>>
KeepsCache == UNCHANGED cacheVars
KeepsPlan == UNCHANGED <<todo, seen>>
KeepsEviction == UNCHANGED <<listed, doomed>>

-------------------------------------------------------------------------------
(* CachingExecutor.Run and the versionSource of main.go                     *)

\* Resolve lists the tables: those of the statement that have a row.
Resolve(r) ==
    /\ \/ /\ Works
          /\ Step(r, "idle", "resolved")
          /\ todo' = [todo EXCEPT ![r] = {t \in TablesOf(r) : HasRow(t)}]
       \/ Fails /\ Step(r, "idle", "bypass") /\ UNCHANGED todo
    /\ mark' = [mark EXCEPT ![r] =
                   IF \E t \in TablesOf(r) : Busy(t) THEN "crossed"
                   ELSE IF TablesOf(r) \cap unsettled # {} THEN "unsure"
                   ELSE "clean"]
    /\ KeepsData /\ KeepsCache /\ KeepsEviction /\ UNCHANGED <<seen, val>>

\* GetTable for one of them.
GetVersion(r) ==
    /\ rpc[r] = "resolved"
    /\ \E t \in todo[r] :
         \/ /\ Works /\ HasRow(t)
            /\ Goto(r, "resolved")
            /\ todo' = [todo EXCEPT ![r] = @ \ {t}]
            /\ seen' = [seen EXCEPT ![r] = [u \in DOMAIN @ \cup {t} |->
                                              IF u = t THEN version[t] ELSE @[u]]]
         \/ /\ (Works /\ ~HasRow(t)) \/ Fails
            /\ Goto(r, "bypass")
            /\ UNCHANGED <<todo, seen>>
    /\ KeepsData /\ KeepsCache /\ KeepsEviction /\ UNCHANGED <<val, mark>>

\* ResultCache.Get: LookupCacheEntry, and the age of what it found.
Lookup(r) ==
    /\ rpc[r] = "resolved" /\ todo[r] = {}
    /\ \/ Works /\ KeyOf(r) \in index /\ Goto(r, "hit")
       \/ Works /\ KeyOf(r) \in index /\ Expires /\ Goto(r, "expired")
       \/ Works /\ KeyOf(r) \notin index /\ Goto(r, "missed")
       \/ Fails /\ Goto(r, "missed")
    /\ KeepsData /\ KeepsCache /\ KeepsPlan /\ KeepsEviction /\ UNCHANGED <<val, mark>>

\* Deletes an entry.  Its error is dropped.
Unindex(k) ==
    \/ Works /\ index' = index \ {k} /\ revived' = revived \ {k}
    \/ Fails /\ UNCHANGED <<index, revived>>

\* Deletes a payload.  Its error is dropped.
Unstore(k) ==
    \/ Works /\ blobs' = blobs \ BlobOf(k)
    \/ Fails /\ UNCHANGED blobs

ExpireEntry(r) ==
    /\ Step(r, "expired", "expiring")
    /\ Unindex(KeyOf(r))
    /\ KeepsData /\ KeepsPlan /\ KeepsEviction /\ UNCHANGED <<blobs, val, mark>>

ExpireBlob(r) ==
    /\ Step(r, "expiring", "missed")
    /\ Unstore(KeyOf(r))
    /\ KeepsData /\ KeepsPlan /\ KeepsEviction
    /\ UNCHANGED <<index, revived, val, mark>>

\* A payload that a failed write has torn is not decoded, and stays.
ReadBlob(r) ==
    /\ rpc[r] = "hit"
    /\ \/ \E b \in BlobOf(KeyOf(r)) :
             /\ Works
             /\ \/ b.val = Nothing /\ Goto(r, "missed") /\ UNCHANGED <<val, mark>>
                \/ /\ b.val # Nothing
                   /\ Goto(r, "touching")
                   /\ val' = [val EXCEPT ![r] = b.val]
                   /\ mark' = [mark EXCEPT ![r] =
                                  IF @ = "clean" /\ ~b.clean THEN "infected" ELSE @]
       \/ /\ (Works /\ BlobOf(KeyOf(r)) = {}) \/ Fails
          /\ Goto(r, "dangling")
          /\ UNCHANGED <<val, mark>>
    /\ KeepsData /\ KeepsCache /\ KeepsPlan /\ KeepsEviction

DropEntry(r) ==
    /\ Step(r, "dangling", "missed")
    /\ Unindex(KeyOf(r))
    /\ KeepsData /\ KeepsPlan /\ KeepsEviction /\ UNCHANGED <<blobs, val, mark>>

\* last_access_at is refreshed by writing the whole entry, also if it is gone.
Touch(r) ==
    LET k == KeyOf(r) IN
    /\ Step(r, "touching", "answered")
    /\ \/ /\ Works
          /\ index' = index \cup {k}
          /\ revived' = IF k \in index THEN revived ELSE revived \cup {k}
       \/ Fails /\ UNCHANGED <<index, revived>>
    /\ KeepsData /\ KeepsPlan /\ KeepsEviction /\ UNCHANGED <<blobs, val, mark>>

\* The execution of the statement, with the rows and files of this moment.
Execute(r) ==
    /\ rpc[r] \in {"missed", "bypass"}
    /\ \/ /\ Works /\ \A t \in TablesOf(r) : HasRow(t)
          /\ val' = [val EXCEPT ![r] = Current(r)]
          /\ Goto(r, IF rpc[r] = "missed" THEN "storing" ELSE "answered")
       \/ /\ (Works /\ \E t \in TablesOf(r) : ~HasRow(t)) \/ Fails
          /\ Goto(r, "answered")
          /\ UNCHANGED val
    /\ KeepsData /\ KeepsCache /\ KeepsPlan /\ KeepsEviction /\ UNCHANGED mark

-------------------------------------------------------------------------------
(* ResultCache.Put                                                          *)

\* Fault: each Put makes a file of its own.
StoreBlobBeside(r, v) ==
    blobs' = blobs \cup {[key |-> KeyOf(r), val |-> v, clean |-> mark[r] = "clean"]}

\* The file named by the key is replaced.
StoreBlob(r, v) ==
    blobs' = (blobs \ BlobOf(KeyOf(r))) \cup
                 {[key |-> KeyOf(r), val |-> v, clean |-> mark[r] = "clean"]}

\* A file that cannot be written completely is left torn.
WriteBlob(r) ==
    /\ \/ Works /\ Step(r, "storing", "stored") /\ StoreBlob(r, val[r])
       \/ /\ Fails
          /\ Step(r, "storing", "answered")
          /\ StoreBlob(r, Nothing) \/ UNCHANGED blobs
    /\ KeepsData /\ KeepsPlan /\ KeepsEviction
    /\ UNCHANGED <<index, revived, val, mark>>

Index(r) ==
    LET k == KeyOf(r) IN
    /\ \/ /\ Works
          /\ Step(r, "stored", "indexed")
          /\ index' = index \cup {k}
          /\ revived' = revived \ {k}
       \/ Fails /\ Step(r, "stored", "answered") /\ UNCHANGED <<index, revived>>
    /\ KeepsData /\ KeepsPlan /\ KeepsEviction /\ UNCHANGED <<blobs, val, mark>>

\* evictLRU: ListCacheEntries ...
List(r) ==
    /\ \/ /\ Works /\ MaxEntries > 0
          /\ Step(r, "indexed", "evicting")
          /\ listed' = [listed EXCEPT ![r] = index]
       \/ /\ (Works /\ MaxEntries = 0) \/ Fails
          /\ Step(r, "indexed", "answered")
          /\ UNCHANGED listed
    /\ KeepsData /\ KeepsCache /\ KeepsPlan /\ UNCHANGED <<doomed, val, mark>>

\* Fault: stops one entry above the limit.
OverFullByTwo(r) == Cardinality(listed[r]) > MaxEntries + 1

OverFull(r) == Cardinality(listed[r]) > MaxEntries

\* ... while over the limit, the payload of an entry ...
EvictBlob(r) ==
    /\ rpc[r] = "evicting" /\ doomed[r] = {} /\ OverFull(r)
    /\ \E k \in listed[r] :
         /\ Unstore(k)
         /\ doomed' = [doomed EXCEPT ![r] = {k}]
    /\ KeepsData /\ KeepsPlan /\ UNCHANGED <<rpc, index, revived, listed, val, mark>>

\* ... and the entry.
EvictEntry(r) ==
    /\ rpc[r] = "evicting"
    /\ \E k \in doomed[r] :
         /\ Unindex(k)
         /\ listed' = [listed EXCEPT ![r] = @ \ {k}]
    /\ doomed' = [doomed EXCEPT ![r] = {}]
    /\ KeepsData /\ KeepsPlan /\ UNCHANGED <<rpc, blobs, val, mark>>

EndEviction(r) ==
    /\ Step(r, "evicting", "answered")
    /\ doomed[r] = {} /\ ~OverFull(r)
    /\ listed' = [listed EXCEPT ![r] = {}]
    /\ Works
    /\ KeepsData /\ KeepsCache /\ KeepsPlan /\ UNCHANGED <<doomed, val, mark>>

-------------------------------------------------------------------------------
(* Writers and drops                                                        *)

\* History of a step that may change t.
Changes(t) ==
    /\ unsettled' = unsettled \cup {t}
    /\ mark' = [r \in Readers |->
                   IF rpc[r] # "idle" /\ t \in TablesOf(r) THEN "crossed" ELSE mark[r]]

\* Fault: cached results are not invalidated.
FlushForgotten(w) ==
    /\ Works
    /\ Proceed(w, "flushing", "done")
    /\ unsettled' = unsettled \ {TargetOf[w]}
    /\ UNCHANGED <<files, version, source, cacheVars, mark>>

\* DeleteCacheEntriesForTable.  Its error is dropped; payloads stay.
Flush(w) ==
    LET stale == {k \in index : TargetOf[w] \in DOMAIN k.seen}
        Orphaned(b) == /\ TargetOf[w] \in Reads[b.key.stmt]
                       /\ b.key \notin index \ stale
    IN
    /\ \/ /\ Works
          /\ Proceed(w, "flushing", "done")
          /\ index' = index \ stale
          /\ revived' = revived \ stale
          /\ blobs' = {[b EXCEPT !.clean = @ /\ ~Orphaned(b)] : b \in blobs}
          /\ unsettled' = unsettled \ {TargetOf[w]}
       \/ /\ Fails
          /\ Proceed(w, "flushing", "unflushed")
          /\ UNCHANGED <<cacheVars, unsettled>>
    /\ UNCHANGED <<files, version, source, mark>>

WriteStep(w) ==
    /\ \/ ChangesData(w) /\ Changes(TargetOf[w]) /\ KeepsCache
       \/ LeavesData(w) /\ UNCHANGED <<mark, unsettled, cacheVars>>
       \/ Flush(w)
    /\ UNCHANGED readerVars

DropStep ==
    \E t \in Tables : Drop(t) /\ Changes(t) /\ UNCHANGED <<readerVars, cacheVars>>

ReadStep(r) ==
    /\ \/ Resolve(r) \/ GetVersion(r) \/ Lookup(r)
       \/ ExpireEntry(r) \/ ExpireBlob(r) \/ ReadBlob(r) \/ DropEntry(r) \/ Touch(r)
       \/ Execute(r)
       \/ WriteBlob(r) \/ Index(r) \/ List(r)
       \/ EvictBlob(r) \/ EvictEntry(r) \/ EndEviction(r)

Next == (\E r \in Readers : ReadStep(r)) \/ (\E w \in Writers : WriteStep(w)) \/ DropStep

Spec == Init /\ [][Next]_vars

-------------------------------------------------------------------------------
(* Properties                                                               *)

Keys == [stmt : Statements,
         seen : UNION {[T -> Nat] : T \in SUBSET Tables}]

CacheTypeOK ==
    /\ WriteTypeOK
    /\ rpc \in [Readers -> ReaderPlaces]
    /\ todo \in [Readers -> SUBSET Tables]
    /\ mark \in [Readers -> Marks]
    /\ unsettled \subseteq Tables
    /\ revived \subseteq index
    /\ \A k \in index : k.stmt \in Statements /\ DOMAIN k.seen \subseteq Reads[k.stmt]
    /\ \A b, c \in blobs : b.key = c.key => b = c
    /\ \A r \in Readers :
         /\ doomed[r] \subseteq listed[r]
         /\ rpc[r] # "evicting" => listed[r] = {}

Answered(r) == rpc[r] = "answered" /\ val[r] # Nothing

\* The cache is coherent except for the races and failures the marks name: a
\* run that no change of its tables overlapped, that began when the last change
\* of each had been invalidated, and that hit no entry stored by a run that was
\* overlapped, answers with what its tables hold.
FreshIfClean ==
    \A r \in Readers : Answered(r) /\ mark[r] = "clean" => val[r] = Current(r)

\* "so subsequent queries see fresh data": a run that no write overlapped, and
\* which began when every write had invalidated the cache, answers with what
\* its tables hold.
NoStaleAnswer ==
    \A r \in Readers :
        Answered(r) /\ mark[r] \notin {"crossed", "unsure"} => val[r] = Current(r)

\* When nothing fails and no Put is between its entry and the end of its
\* eviction, the index is within the limit but for entries that hits put back.
WithinLimit ==
    (/\ failures = 0
     /\ MaxEntries > 0
     /\ \A r \in Readers : rpc[r] \notin {"indexed", "evicting"})
    => Cardinality(index \ revived) <= MaxEntries
===============================================================================
