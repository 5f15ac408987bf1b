-------------------------------- MODULE Catalog --------------------------------
(***************************************************************************)
(* The catalog (internal/catalog/service.go) over its two tables of the    *)
(* metastore, datasets and tables, which no foreign key ties together:     *)
(* datasets are created and deleted, writes and registrations (of          *)
(* WritePath.tla) check their dataset long before they insert a row, and   *)
(* queries resolve their tables dataset by dataset.  Every statement sent  *)
(* to the metastore is one step.                                           *)
(*                                                                         *)
(* Nothing but tests saves a list of partitions with a row.  What          *)
(* ResolvePruned does with a list is Planner.tla, whatever the list.       *)
(***************************************************************************)
EXTENDS WritePath, Planner

CONSTANTS Datasets,
          DatasetOf,      \* the dataset of each table
          Deleters,       \* requests to delete a dataset
          Queries         \* queries that resolve their tables

ASSUME CatalogAssumption ==
    DatasetOf \in [Tables -> Datasets]

VARIABLES datasets,   \* the datasets that have a row
          checked,    \* writes that have found their dataset
          deletion,   \* of each deleter: where it is, its dataset, the tables it has
                      \* yet to delete, and (history) those it listed and has not deleted
          query,      \* of each query: where it is, the datasets it has yet to list,
                      \* and the tables it has bound
          late,       \* history: tables that may lack their dataset
          dropped,    \* history: tables that were dropped
          steady      \* history: of each query, tables in the catalog since it began

requestVars == <<deletion, query>>
historyVars == <<late, dropped, steady>>
rowVars == <<files, version, source, datasets>>
vars == <<writeVars, datasets, checked, requestVars, historyVars>>

Cataloged(t) == HasRow(t) /\ DatasetOf[t] \in datasets

TablesIn(d) == {t \in Tables : DatasetOf[t] = d}

Resting == {"idle", "done", "unflushed", "failed"}

Busy(t) == \E w \in Writers : TargetOf[w] = t /\ wpc[w] \notin Resting

Init ==
    /\ WriteInit
    /\ datasets = Datasets
    /\ checked = {}
    /\ deletion = [x \in Deleters |-> [at |-> "idle"]]
    /\ query = [q \in Queries |-> [at |-> "idle", todo |-> {}, bound |-> {}]]
    /\ late = {}
    /\ dropped = {}
    /\ steady = [q \in Queries |-> {}]

\* History of a step after which the tables in gone are not in the catalog.
Leaves(gone) ==
    steady' = [q \in Queries |-> steady[q] \ gone]

-------------------------------------------------------------------------------
(* Datasets                                                                 *)

CreateDataset(d) ==
    /\ d \notin datasets
    /\ datasets' = datasets \cup {d}
    /\ Works
    /\ UNCHANGED <<files, version, source, wpc, checked, requestVars, historyVars>>

DeleterGoes(x, a, b) == deletion[x].at = a /\ deletion' = [deletion EXCEPT ![x] = b]

\* Fault: lists the tables of the project.
RowsOfProject(d) == {t \in Tables : HasRow(t)}

RowsIn(d) == {t \in TablesIn(d) : HasRow(t)}

\* DeleteDataset: ListTables ...
ListForDelete(x) ==
    /\ \/ Works /\ \E d \in Datasets :
             DeleterGoes(x, "idle", [at |-> "listed", dataset |-> d,
                                     todo |-> RowsIn(d), owed |-> RowsIn(d)])
       \/ Fails /\ DeleterGoes(x, "idle", [at |-> "failed"])
    /\ UNCHANGED <<rowVars, wpc, checked, query, historyVars>>

\* Fault: goes on without the table that it could not delete.
SkipTable(x, t) == DeleterGoes(x, "listed", [deletion[x] EXCEPT !.todo = @ \ {t}])

StopDeleting(x, t) == DeleterGoes(x, "listed", [at |-> "failed"])

\* ... DeleteTable for each, which fails for one that is gone by now ...
DeleteOne(x) ==
    /\ deletion[x].at = "listed"
    /\ \E t \in deletion[x].todo :
         \/ /\ Works /\ HasRow(t)
            /\ SetVersion(t, 0)
            /\ Leaves({t})
            /\ dropped' = dropped \cup {t}
            /\ DeleterGoes(x, "listed", [deletion[x] EXCEPT !.todo = @ \ {t}, !.owed = @ \ {t}])
         \/ /\ (Works /\ ~HasRow(t)) \/ Fails
            /\ StopDeleting(x, t)
            /\ UNCHANGED <<version, steady, dropped>>
    /\ UNCHANGED <<files, source, datasets, wpc, checked, query, late>>

\* Writes that have found the dataset and have yet to insert their row.
Pending(t) ==
    \E w \in checked :
        /\ TargetOf[w] = t
        /\ wpc[w] \in {"copied", "described", "deleted"} \/ (Kind[w] = "external" /\ wpc[w] = "idle")

\* ... and the row of the dataset.
DeleteRowOfDataset(x) ==
    /\ deletion[x].at = "listed" /\ deletion[x].todo = {}
    /\ LET d == deletion[x].dataset IN
       \/ /\ Works /\ d \in datasets
          /\ datasets' = datasets \ {d}
          /\ Leaves(TablesIn(d))
          /\ late' = (late \ TablesIn(d)) \cup
                       {t \in TablesIn(d) : Pending(t) \/ (HasRow(t) /\ t \notin deletion[x].owed)}
          /\ DeleterGoes(x, "listed", [at |-> "done"])
       \/ /\ (Works /\ d \notin datasets) \/ Fails
          /\ DeleterGoes(x, "listed", [at |-> "failed"])
          /\ UNCHANGED <<datasets, late, steady>>
    /\ UNCHANGED <<files, version, source, wpc, checked, query, dropped>>

-------------------------------------------------------------------------------
(* Tables                                                                   *)

\* GetDataset of RegisterManaged, after the COPY, and of RegisterTable.
CheckDataset(w) ==
    LET place == IF Kind[w] = "external" THEN "idle" ELSE "copied" IN
    /\ wpc[w] = place /\ w \notin checked
    /\ \/ /\ Works /\ DatasetOf[TargetOf[w]] \in datasets
          /\ checked' = checked \cup {w}
          /\ UNCHANGED wpc
       \/ /\ (Works /\ DatasetOf[TargetOf[w]] \notin datasets) \/ Fails
          /\ Proceed(w, place, "failed")
          /\ UNCHANGED checked
    /\ UNCHANGED <<rowVars, requestVars, historyVars>>

\* InferSchema and CreateTable of RegisterTable: the name may be taken by then.
RegisterExternal(w) ==
    /\ w \in checked
    /\ \/ Register(w)
       \/ /\ Kind[w] = "external" /\ Proceed(w, "idle", "failed")
          /\ (Works /\ HasRow(TargetOf[w])) \/ Fails
          /\ UNCHANGED <<files, version, source>>

\* DeleteCacheEntriesForTable: the cache is not modelled here.
Flush(w) ==
    /\ Proceed(w, "flushing", "done")
    /\ Works
    /\ UNCHANGED <<files, version, source>>

WriteStep(w) ==
    /\ \/ /\ \/ Clear(w) \/ Copy(w) \/ RegisterExternal(w) \/ (w \in checked /\ Describe(w))
             \/ CreateRow(w) \/ Bump(w) \/ ReadBack(w) \/ Flush(w)
          /\ UNCHANGED steady
       \/ DeleteRow(w) /\ Leaves(IF HasRow(TargetOf[w])' THEN {} ELSE {TargetOf[w]})
    /\ UNCHANGED <<datasets, checked, requestVars, late, dropped>>

\* DropTable.
DropTable(t) ==
    /\ Drop(t)
    /\ Leaves({t})
    /\ dropped' = dropped \cup {t}
    /\ UNCHANGED <<datasets, checked, requestVars, late>>

-------------------------------------------------------------------------------
(* Resolve                                                                  *)

QueryGoes(q, a, rec) == query[q].at = a /\ query' = [query EXCEPT ![q] = rec]

QueryFails(q, a) == QueryGoes(q, a, [at |-> "failed", todo |-> {}, bound |-> {}])

\* ListDatasets ...
ListDatasets(q) ==
    /\ \/ /\ Works
          /\ QueryGoes(q, "idle", [at |-> "listing", todo |-> datasets, bound |-> {}])
          /\ steady' = [steady EXCEPT ![q] = {t \in Tables : Cataloged(t)}]
       \/ Fails /\ QueryFails(q, "idle") /\ UNCHANGED steady
    /\ UNCHANGED <<rowVars, wpc, checked, deletion, late, dropped>>

\* Fault: a dataset without tables ends the loop.
StopAtEmpty(q, d) == IF RowsIn(d) = {} THEN {} ELSE query[q].todo \ {d}

NextDatasets(q, d) == query[q].todo \ {d}

\* ... and ListTables for each; every table of theirs is referenced.
ListTables(q) ==
    /\ \/ /\ Works
          /\ \E d \in query[q].todo :
                QueryGoes(q, "listing",
                          [at |-> IF NextDatasets(q, d) = {} THEN "bound" ELSE "listing",
                           todo |-> NextDatasets(q, d), bound |-> query[q].bound \cup RowsIn(d)])
       \/ query[q].todo # {} /\ Fails /\ QueryFails(q, "listing")
    /\ UNCHANGED <<rowVars, wpc, checked, deletion, historyVars>>

DatasetStep == (\E d \in Datasets : CreateDataset(d))
    \/ \E x \in Deleters : ListForDelete(x) \/ DeleteOne(x) \/ DeleteRowOfDataset(x)

TableStep == (\E w \in Writers : CheckDataset(w) \/ WriteStep(w)) \/ \E t \in Tables : DropTable(t)

Next == DatasetStep \/ TableStep \/ \E q \in Queries : ListDatasets(q) \/ ListTables(q)

Spec == Init /\ [][Next]_vars

-------------------------------------------------------------------------------
(* Properties                                                               *)

CatalogTypeOK ==
    /\ WriteTypeOK
    /\ datasets \subseteq Datasets /\ checked \subseteq Writers
    /\ \A x \in Deleters :
         deletion[x].at = "listed" =>
             deletion[x].todo \subseteq deletion[x].owed /\ deletion[x].owed \subseteq TablesIn(deletion[x].dataset)
    /\ \A q \in Queries :
         /\ query[q].at \in {"idle", "listing", "bound", "failed"}
         /\ query[q].todo \subseteq Datasets /\ query[q].bound \subseteq Tables
    /\ late \subseteq Tables /\ dropped \subseteq Tables
    /\ steady \in [Queries -> SUBSET Tables]

\* Writes to one table that replace its row in two statements each, and bump it
\* in a third, do not lose it between them: without failures, when all are at rest
\* a table that nobody dropped has a row, bumped since it was created unless a
\* registration put its own in between.
RowSurvives ==
    failures = 0 =>
        \A t \in Tables \ dropped :
            ~Busy(t) => HasRow(t) /\ (source[t] = Managed => version[t] > 1)

\* No foreign key keeps a table in its dataset, the order of DeleteDataset does: a
\* table is without one only when its row was inserted after the deletion had
\* listed the tables, by a write that had found the dataset before it went.
OrphansAreLate ==
    \A t \in Tables : HasRow(t) /\ DatasetOf[t] \notin datasets => t \in late

\* The listings a query is resolved from are no snapshot, but a table that was in
\* the catalog from the first to the last of them is bound.
SteadyTablesBound ==
    \A q \in Queries : query[q].at = "bound" => steady[q] \subseteq query[q].bound
===============================================================================
