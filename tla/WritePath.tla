------------------------------- MODULE WritePath -------------------------------
(***************************************************************************)
(* Writes to catalog tables: CTAS and load (internal/write), the           *)
(* registration of their result (RegisterManaged and RegisterTable of      *)
(* internal/catalog/service.go), drops, and the tables rows of the         *)
(* metastore they replace, create and bump.                                *)
(*                                                                         *)
(* Every call of the object store and every statement sent to the          *)
(* metastore is one step.  A managed location holds the set of writes      *)
(* whose files are there; what DuckDB does with a location is external:    *)
(* COPY of a CTAS puts files where the readers of the location find them.  *)
(* ResultCache.tla adds the last step of a write, the invalidation of      *)
(* cached results.                                                         *)
(***************************************************************************)
EXTENDS Naturals, FiniteSets

CONSTANTS Tables,
          Writers,        \* the write requests
          TargetOf,       \* the table each writes to
          Kind,           \* ... and how
          Droppable,      \* the tables a client may drop
          MaxFailures     \* bound: failing calls and statements

Kinds == {"ctas", "append", "overwrite",
          "external"}     \* registration of files the system does not write

ASSUME WriteAssumption ==
    /\ TargetOf \in [Writers -> Tables]
    /\ Kind \in [Writers -> Kinds]
    /\ Droppable \subseteq Tables
    /\ MaxFailures \in Nat
    /\ {"before", "managed"} \cap Writers = {}    \* Before, Managed

VARIABLES files,      \* files[t]: the writes whose files are at t's managed location
          version,    \* data_version in the row of t, 0 if there is no row
          source,     \* location in the row: "managed", or the external files of a write
          wpc,        \* where each write is
          failures    \* failed calls so far

writeVars == <<files, version, source, wpc, failures>>

WriterPlaces == {"idle",
                 "cleared",      \* the old files are deleted (overwrite)
                 "copied",       \* COPY has written its files
                 "described",    \* the files at the location have a schema
                 "deleted",      \* the old row is deleted
                 "created",      \* the new row is inserted
                 "bumped",       \* data_version is incremented
                 "flushing",     \* ... and read back
                 "done",         \* cached results invalidated
                 "unflushed",    \* reported done, but the invalidation failed
                 "failed"}

Before == "before"  \* the files of the writes that made the tables

Managed == "managed"

\* The tables exist from earlier writes, which left their data_version at 2.
WriteInit ==
    /\ files = [t \in Tables |-> {Before}]
    /\ version = [t \in Tables |-> 2]
    /\ source = [t \in Tables |-> Managed]
    /\ wpc = [w \in Writers |-> "idle"]
    /\ failures = 0

Works == UNCHANGED failures

Fails == failures < MaxFailures /\ failures' = failures + 1

Proceed(w, a, b) == wpc[w] = a /\ wpc' = [wpc EXCEPT ![w] = b]

SetFiles(w, c) == files' = [files EXCEPT ![TargetOf[w]] = c]

SetVersion(t, v) == version' = [version EXCEPT ![t] = v]

HasRow(t) == version[t] # 0

\* CreateTable gives a new row the data_version 1.
InsertRow(t, place) ==
    /\ SetVersion(t, 1)
    /\ source' = [source EXCEPT ![t] = place]

\* What a query of t reads.
Content(t) == IF source[t] = Managed THEN files[t] ELSE {source[t]}

-------------------------------------------------------------------------------
(* RunCTAS and RunLoad                                                      *)

\* DeletePrefix.  When it fails some of the files may be gone.
Clear(w) ==
    /\ Kind[w] = "overwrite"
    /\ \/ Works /\ Proceed(w, "idle", "cleared") /\ SetFiles(w, {})
       \/ /\ Fails
          /\ Proceed(w, "idle", "failed")
          /\ \E c \in {files[TargetOf[w]], {}} : SetFiles(w, c)
    /\ UNCHANGED <<version, source>>

\* What COPY may leave at the table's location.  A CTAS replaces its one file
\* or, partitioned, adds to what is there.  The target of a load is
\* filepath.Join(location, ...), which makes "s3:/..." of "s3://...": its files
\* go to the server's disk, not to the location.
Copied(w) ==
    LET old == files[TargetOf[w]] IN
    IF Kind[w] = "ctas" THEN {{w}, old \cup {w}} ELSE {old}

Copy(w) ==
    LET place == IF Kind[w] = "overwrite" THEN "cleared" ELSE "idle" IN
    /\ Kind[w] # "external"
    /\ \/ /\ Works
          /\ Proceed(w, place, "copied")
          /\ \E c \in Copied(w) : SetFiles(w, c)
       \/ /\ Fails
          /\ Proceed(w, place, "failed")
          /\ \E c \in Copied(w) \cup {files[TargetOf[w]]} : SetFiles(w, c)
    /\ UNCHANGED <<version, source>>

\* RegisterManaged: DESCRIBE fails on a location without files.
Describe(w) ==
    /\ \/ Works /\ files[TargetOf[w]] # {} /\ Proceed(w, "copied", "described")
       \/ /\ (Works /\ files[TargetOf[w]] = {}) \/ Fails
          /\ Proceed(w, "copied", "failed")
    /\ UNCHANGED <<files, version, source>>

\* The first half of replacing the row.  Its error is dropped.
DeleteRow(w) ==
    /\ Proceed(w, "described", "deleted")
    /\ \/ Works /\ SetVersion(TargetOf[w], 0)
       \/ Fails /\ UNCHANGED version
    /\ UNCHANGED <<files, source>>

\* Fault: when the INSERT fails, the row that is there is taken back.
CreateRowUndone(w) ==
    LET t == TargetOf[w] IN
    /\ Works
    /\ IF HasRow(t)
       THEN Proceed(w, "deleted", "failed") /\ SetVersion(t, 0) /\ UNCHANGED source
       ELSE Proceed(w, "deleted", "created") /\ InsertRow(t, Managed)
    /\ UNCHANGED files

\* The second half.  It fails if a write to the same table was faster.
CreateRow(w) ==
    LET t == TargetOf[w] IN
    /\ \/ /\ Works
          /\ ~HasRow(t)
          /\ Proceed(w, "deleted", "created")
          /\ InsertRow(t, Managed)
       \/ /\ (Works /\ HasRow(t)) \/ Fails
          /\ Proceed(w, "deleted", "failed")
          /\ UNCHANGED <<version, source>>
    /\ UNCHANGED files

\* afterWrite: the UPDATE of data_version ...
Bump(w) ==
    LET t == TargetOf[w] IN
    /\ \/ /\ Works
          /\ HasRow(t)
          /\ Proceed(w, "created", "bumped")
          /\ SetVersion(t, version[t] + 1)
       \/ /\ (Works /\ ~HasRow(t)) \/ Fails
          /\ Proceed(w, "created", "failed")
          /\ UNCHANGED version
    /\ UNCHANGED <<files, source>>

\* ... and the SELECT that reads it back.
ReadBack(w) ==
    /\ \/ Works /\ HasRow(TargetOf[w]) /\ Proceed(w, "bumped", "flushing")
       \/ /\ (Works /\ ~HasRow(TargetOf[w])) \/ Fails
          /\ Proceed(w, "bumped", "failed")
    /\ UNCHANGED <<files, version, source>>

-------------------------------------------------------------------------------
\* RegisterTable: the row of an external table, under a name that has none.
Register(w) ==
    /\ Kind[w] = "external"
    /\ ~HasRow(TargetOf[w])
    /\ Proceed(w, "idle", "done")
    /\ InsertRow(TargetOf[w], w)
    /\ Works
    /\ UNCHANGED files

\* The drop that the server routes to deletes the row, and nothing else.
Drop(t) ==
    /\ t \in Droppable
    /\ HasRow(t)
    /\ SetVersion(t, 0)
    /\ Works
    /\ UNCHANGED <<files, source, wpc>>

\* The steps that may change what a query of the table reads, and the others.
ChangesData(w) == Clear(w) \/ Copy(w) \/ CreateRow(w) \/ Register(w)

LeavesData(w) == Describe(w) \/ DeleteRow(w) \/ Bump(w) \/ ReadBack(w)

WriteTypeOK ==
    /\ files \in [Tables -> SUBSET (Writers \cup {Before})]
    /\ version \in [Tables -> Nat]
    /\ source \in [Tables -> Writers \cup {Managed}]
    /\ wpc \in [Writers -> WriterPlaces]
    /\ failures \in 0..MaxFailures
===============================================================================
