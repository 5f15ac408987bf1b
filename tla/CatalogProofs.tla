----------------------------- MODULE CatalogProofs -----------------------------
(***************************************************************************)
(* Theorems about Catalog and Planner, for all tables, datasets, writes,   *)
(* deletions, queries, values and failures.                                *)
(***************************************************************************)
EXTENDS Catalog, TLAPS

-------------------------------------------------------------------------------
(* Planner                                                                  *)

\* A partition whose value satisfies a comparison, as the statement means it, matches
\* the predicate that the planner makes of it, unless it is misread.
LEMMA HoldsMatches ==
    ASSUME NEW parts \in SUBSET (Texts \cup {NoValue}),
           NEW c \in Terms, c.column = "partition",
           NEW v \in parts, v # NoValue, Holds(parts, c, v), ~Misread(parts, c, v)
    PROVE  Matches(c, v)
<1>1. c \in Found /\ c.exact
  BY DEF Terms, Misread
<1>2. c.lits \subseteq Texts /\ v \in Texts
  BY <1>1 DEF Found
<1>3. PICK t \in c.lits :
          \/ c.op \in {"=", "IN", ">=", "<="} /\ Equal(parts, c, v, t)
          \/ c.op \in {">", ">="} /\ Precedes(parts, c, t, v)
          \/ c.op \in {"<", "<="} /\ Precedes(parts, c, v, t)
  BY <1>1 DEF Holds
<1>4. c.op \in {"=", ">", ">=", "<", "<=", "IN"}
  BY <1>1 DEF Found
<1>5. c.op # "IN" => c.lits = {t}
  <2>1. c.op # "IN" => \E s \in Texts : c.lits = {s}
    BY <1>1 DEF Found
  <2> QED BY <2>1
<1>6. t \in Texts
  BY <1>2
<1>7. /\ \A s, u \in Texts : Rank[s] \in Nat /\ (Rank[s] = Rank[u] => s = u)
      /\ \A s \in Texts : Number[s] \in Nat \cup {NaN}
      /\ NaN = -1
  BY PlannerAssumption DEF NaN
<1>8. CASE c.op \in {"=", "IN"}
  <2>1. Equal(parts, c, v, t)
    BY <1>3, <1>8
  <2>2. CASE AllNumbers(parts, c)
    <3>1. Number[t] = Number[v]
      BY <1>2, <1>6, <1>7, <2>1, <2>2 DEF Equal, Precedes, AllNumbers, Numeric
    <3>2. ~TwoWritings(parts, c, v)
      BY DEF Misread
    <3> QED BY <1>3, <1>8, <2>2, <3>1, <3>2 DEF TwoWritings, Matches
  <2>3. CASE ~AllNumbers(parts, c)
    <3>1. v = t
      BY <1>2, <1>6, <1>7, <2>1, <2>3 DEF Equal, Precedes
    <3> QED BY <1>3, <1>8, <3>1 DEF Matches
  <2> QED BY <2>2, <2>3
<1>9. CASE c.op \notin {"=", "IN"}
  <2>1. /\ Precedes(parts, c, t, v) <=> Less(t, v)
        /\ Precedes(parts, c, v, t) <=> Less(v, t)
    <3>1. CASE AllNumbers(parts, c)
      BY <1>3, <3>1 DEF AllNumbers, Precedes, Less
    <3>2. CASE ~AllNumbers(parts, c)
      <4>1. ~(Numeric(v) /\ Numeric(t))
        BY <1>3, <1>9, <3>2 DEF Misread, TwoOrders
      <4> QED BY <3>2, <4>1 DEF Precedes, Less
    <3> QED BY <3>1, <3>2
  <2>2. Equal(parts, c, v, t) => ~Less(v, t) /\ ~Less(t, v)
    BY <2>1 DEF Equal
  <2>3. Less(t, v) => ~Less(v, t)
    <3>1. CASE Numeric(t) /\ Numeric(v)
      BY <1>2, <1>6, <1>7, <3>1 DEF Less, Numeric
    <3>2. CASE ~(Numeric(t) /\ Numeric(v))
      BY <1>2, <1>6, <1>7, <3>2 DEF Less
    <3> QED BY <3>1, <3>2
  <2> QED BY <1>3, <1>4, <1>5, <1>9, <2>1, <2>2, <2>3 DEF Matches
<1> QED BY <1>8, <1>9

\* For any partitions, any literals and any clause of one or two comparisons, what the
\* statement selects is read (Prune, and the fallback of ResolvePruned), but for the
\* partitions for which the planner misreads a comparison.
THEOREM PruningSound == OnlyMisreadLost
<1> SUFFICES ASSUME NEW parts \in SUBSET (Texts \cup {NoValue}), NEW w \in Clauses,
                    NEW v \in Selected(w, parts), v \notin PartitionsRead(w, parts)
             PROVE  \E c \in Predicates(w) : Misread(parts, c, v) /\ ~Matches(c, v)
  BY DEF OnlyMisreadLost, Lost
<1>1. w.join \in {"AND", "OR", "NOT"} /\ w.terms \subseteq Terms
  BY DEF Clauses
<1>2. v \in parts
  BY <1>1 DEF Selected
<1>3. v # NoValue /\ \E c \in Predicates(w) : ~Matches(c, v)
  BY <1>2 DEF PartitionsRead, Prune
<1>4. PICK c \in Predicates(w) : ~Matches(c, v)
  BY <1>3
<1>5. w.join = "AND" /\ c \in w.terms /\ c.column = "partition"
  BY <1>4 DEF Predicates
<1>6. Holds(parts, c, v)
  BY <1>5 DEF Selected
<1>7. Misread(parts, c, v)
  BY <1>1, <1>2, <1>3, <1>4, <1>5, <1>6, HoldsMatches
<1> QED BY <1>4, <1>7

\* "It only ever removes partitions that cannot match" (prune.go:4) is not so: among
\* others that are read, a partition is lost although it may hold a row of the answer,
\* when the statement compares something else than the planner found in it, or another
\* writing of the partition's value.
THEOREM MisreadIsLost ==
    ASSUME NEW parts \in SUBSET (Texts \cup {NoValue}), NoValue \in parts,
           NEW c \in Found, NEW v \in parts \ {NoValue}, ~Matches(c, v),
           ~c.exact \/ TwoWritings(parts, c, v)
    PROVE  v \in Lost([join |-> "AND", terms |-> {c}], parts)
<1> DEFINE w == [join |-> "AND", terms |-> {c}]
<1>1. c.lits \subseteq Texts /\ v \in Texts /\ c.column = "partition"
  BY DEF Found
<1>2. Holds(parts, c, v)
  <2>1. CASE ~c.exact
    BY <2>1 DEF Holds
  <2>2. CASE TwoWritings(parts, c, v)
    <3>1. PICK t \in c.lits : Number[t] = Number[v]
      BY <2>2 DEF TwoWritings
    <3>2. Number[v] \in Nat \cup {-1}
      BY <1>1, PlannerAssumption DEF NaN
    <3>3. Equal(parts, c, v, t) /\ c.op \in {"=", "IN"}
      BY <2>2, <3>1, <3>2 DEF TwoWritings, Equal, Precedes
    <3> QED BY <3>1, <3>3 DEF Holds
  <2> QED BY <2>1, <2>2
<1>3. v \in Selected(w, parts)
  BY <1>2 DEF Selected
<1>4. v \notin Prune(w, parts) /\ NoValue \in Prune(w, parts)
  BY <1>1 DEF Prune, Predicates
<1> QED BY <1>3, <1>4 DEF Lost, PartitionsRead

-------------------------------------------------------------------------------
(* Types                                                                    *)

DeletionTypes ==
    [at : {"idle", "done", "failed"}] \cup
    [at : {"listed"}, dataset : Datasets, todo : SUBSET Tables, owed : SUBSET Tables]

QueryTypes ==
    [at : {"idle", "listing", "bound", "failed"}, todo : SUBSET Datasets, bound : SUBSET Tables]

\* The inductive form of CatalogTypeOK: a deletion owes the tables it has to do.
TypeInv ==
    /\ WriteTypeOK
    /\ datasets \subseteq Datasets /\ checked \subseteq Writers
    /\ deletion \in [Deleters -> DeletionTypes]
    /\ \A x \in Deleters :
         deletion[x].at = "listed" =>
             /\ deletion[x].todo = deletion[x].owed
             /\ deletion[x].owed \subseteq TablesIn(deletion[x].dataset)
    /\ query \in [Queries -> QueryTypes]
    /\ late \subseteq Tables /\ dropped \subseteq Tables
    /\ steady \in [Queries -> SUBSET Tables]

LEMMA TypeInvHasTypes == TypeInv => CatalogTypeOK
BY DEF TypeInv, CatalogTypeOK, QueryTypes

USE DEF Works, Fails

\* The steps of a write.
LEMMA WriteTypes ==
    ASSUME WriteTypeOK, NEW w \in Writers,
           \/ Clear(w) \/ Copy(w) \/ Describe(w) \/ DeleteRow(w) \/ CreateRow(w)
           \/ Bump(w) \/ ReadBack(w) \/ Register(w) \/ Flush(w)
    PROVE  WriteTypeOK'
<1> USE WriteAssumption DEF WriteTypeOK, Proceed, SetFiles, SetVersion, WriterPlaces
<1>1. CASE Clear(w)
  BY <1>1 DEF Clear
<1>2. CASE Copy(w)
  BY <1>2 DEF Copy, Copied
<1>3. CASE Describe(w) \/ ReadBack(w) \/ Flush(w)
  BY <1>3 DEF Describe, ReadBack, Flush
<1>4. CASE DeleteRow(w) \/ Bump(w)
  BY <1>4 DEF DeleteRow, Bump
<1>5. CASE CreateRow(w) \/ Register(w)
  BY <1>5 DEF CreateRow, Register, InsertRow
<1> QED BY <1>1, <1>2, <1>3, <1>4, <1>5

LEMMA RegisterExternalTypes ==
    ASSUME WriteTypeOK, NEW w \in Writers, RegisterExternal(w)
    PROVE  WriteTypeOK'
<1>1. CASE Register(w)
  BY <1>1, WriteTypes
<1>2. CASE ~Register(w)
  BY <1>2, WriteAssumption DEF RegisterExternal, WriteTypeOK, Proceed, WriterPlaces
<1> QED BY <1>1, <1>2

LEMMA TypeStep ==
    ASSUME TypeInv, [Next]_vars
    PROVE  TypeInv'
<1> USE CatalogAssumption
<1> USE DEF rowVars, requestVars, historyVars
<1>1. CASE UNCHANGED vars
  BY <1>1 DEF vars, writeVars, TypeInv, WriteTypeOK
<1>2. ASSUME NEW d \in Datasets, CreateDataset(d)
      PROVE  TypeInv'
  BY <1>2 DEF CreateDataset, TypeInv, WriteTypeOK
<1>3. ASSUME NEW x \in Deleters, ListForDelete(x)
      PROVE  TypeInv'
  <2>1. WriteTypeOK'
    BY <1>3, WriteAssumption DEF ListForDelete, TypeInv, WriteTypeOK
  <2>2. CASE DeleterGoes(x, "idle", [at |-> "failed"])
    BY <1>3, <2>1, <2>2 DEF ListForDelete, DeleterGoes, TypeInv, DeletionTypes
  <2>3. ASSUME NEW d \in Datasets,
               DeleterGoes(x, "idle", [at |-> "listed", dataset |-> d,
                                       todo |-> RowsIn(d), owed |-> RowsIn(d)])
        PROVE  TypeInv'
    <3> DEFINE rec == [at |-> "listed", dataset |-> d, todo |-> RowsIn(d), owed |-> RowsIn(d)]
    <3>1. /\ rec \in DeletionTypes
          /\ rec.todo = rec.owed /\ rec.owed \subseteq TablesIn(rec.dataset)
      BY DEF RowsIn, TablesIn, DeletionTypes
    <3> HIDE DEF rec
    <3> QED BY <1>3, <2>1, <2>3, <3>1 DEF ListForDelete, DeleterGoes, TypeInv, rec
  <2> QED BY <1>3, <2>2, <2>3 DEF ListForDelete
<1>4. ASSUME NEW x \in Deleters, DeleteOne(x)
      PROVE  TypeInv'
  <2>1. PICK t \in deletion[x].todo :
         \/ /\ Works /\ HasRow(t)
            /\ SetVersion(t, 0)
            /\ Leaves({t})
            /\ dropped' = dropped \cup {t}
            /\ DeleterGoes(x, "listed", [deletion[x] EXCEPT !.todo = @ \ {t}, !.owed = @ \ {t}])
         \/ /\ (Works /\ ~HasRow(t)) \/ Fails
            /\ StopDeleting(x, t)
            /\ UNCHANGED <<version, steady, dropped>>
    BY <1>4, Zenon DEF DeleteOne
  <2>2. /\ deletion[x] \in [at : {"listed"}, dataset : Datasets, todo : SUBSET Tables, owed : SUBSET Tables]
        /\ t \in Tables
    BY <1>4, <2>1 DEF DeleteOne, TypeInv, DeletionTypes
  <2>3. WriteTypeOK'
    BY <1>4, <2>1, <2>2, WriteAssumption DEF DeleteOne, SetVersion, TypeInv, WriteTypeOK
  <2>4. dropped' \subseteq Tables /\ steady' \in [Queries -> SUBSET Tables]
    BY <2>1, <2>2 DEF Leaves, TypeInv
  <2>5. CASE DeleterGoes(x, "listed", [deletion[x] EXCEPT !.todo = @ \ {t}, !.owed = @ \ {t}])
    <3> DEFINE rec == [deletion[x] EXCEPT !.todo = @ \ {t}, !.owed = @ \ {t}]
    <3>1. /\ rec \in DeletionTypes
          /\ rec.todo = rec.owed
          /\ rec.owed \subseteq TablesIn(rec.dataset)
      BY <1>4, <2>2 DEF DeleteOne, DeletionTypes, TypeInv
    <3> HIDE DEF rec
    <3> QED BY <1>4, <2>3, <2>4, <2>5, <3>1 DEF DeleteOne, DeleterGoes, TypeInv, rec
  <2>6. CASE StopDeleting(x, t)
    BY <1>4, <2>3, <2>4, <2>6 DEF DeleteOne, StopDeleting, DeleterGoes, TypeInv, DeletionTypes
  <2> QED BY <2>1, <2>5, <2>6
<1>5. ASSUME NEW x \in Deleters, DeleteRowOfDataset(x)
      PROVE  TypeInv'
  <2>1. WriteTypeOK'
    BY <1>5, WriteAssumption DEF DeleteRowOfDataset, TypeInv, WriteTypeOK
  <2>2. PICK e \in {"done", "failed"} : DeleterGoes(x, "listed", [at |-> e])
    BY <1>5 DEF DeleteRowOfDataset
  <2>3. /\ datasets' \subseteq Datasets /\ late' \subseteq Tables
        /\ steady' \in [Queries -> SUBSET Tables]
    BY <1>5 DEF DeleteRowOfDataset, Leaves, TablesIn, TypeInv
  <2> QED BY <1>5, <2>1, <2>2, <2>3 DEF DeleteRowOfDataset, DeleterGoes, TypeInv, DeletionTypes
<1>6. ASSUME NEW w \in Writers, CheckDataset(w)
      PROVE  TypeInv'
  BY <1>6, WriteAssumption DEF CheckDataset, Proceed, TypeInv, WriteTypeOK, WriterPlaces
<1>7. ASSUME NEW w \in Writers, WriteStep(w)
      PROVE  TypeInv'
  <2>1. WriteTypeOK'
    BY <1>7, WriteTypes, RegisterExternalTypes DEF WriteStep, TypeInv
  <2>2. steady' \in [Queries -> SUBSET Tables]
    BY <1>7 DEF WriteStep, Leaves, TypeInv
  <2> QED BY <1>7, <2>1, <2>2 DEF WriteStep, TypeInv
<1>8. ASSUME NEW t \in Tables, DropTable(t)
      PROVE  TypeInv'
  BY <1>8 DEF DropTable, Drop, SetVersion, Leaves, TypeInv, WriteTypeOK
<1>9. ASSUME NEW q \in Queries, ListDatasets(q)
      PROVE  TypeInv'
  <2>1. WriteTypeOK'
    BY <1>9, WriteAssumption DEF ListDatasets, TypeInv, WriteTypeOK
  <2>2. query' \in [Queries -> QueryTypes]
    BY <1>9 DEF ListDatasets, QueryGoes, QueryFails, TypeInv, QueryTypes
  <2>3. steady' \in [Queries -> SUBSET Tables]
    BY <1>9 DEF ListDatasets, TypeInv
  <2> QED BY <1>9, <2>1, <2>2, <2>3 DEF ListDatasets, TypeInv
<1>10. ASSUME NEW q \in Queries, ListTables(q)
       PROVE  TypeInv'
  <2>1. WriteTypeOK'
    BY <1>10, WriteAssumption DEF ListTables, TypeInv, WriteTypeOK
  <2>2. query' \in [Queries -> QueryTypes]
    BY <1>10 DEF ListTables, QueryGoes, QueryFails, NextDatasets, RowsIn, TablesIn, TypeInv, QueryTypes
  <2> QED BY <1>10, <2>1, <2>2 DEF ListTables, TypeInv
<1> QED BY <1>1, <1>2, <1>3, <1>4, <1>5, <1>6, <1>7, <1>8, <1>9, <1>10
        DEF Next, DatasetStep, TableStep

LEMMA TypeInvariance == Spec => []TypeInv
<1>1. Init => TypeInv
  BY CatalogAssumption, WriteAssumption
     DEF Init, WriteInit, TypeInv, WriteTypeOK, WriterPlaces, DeletionTypes, QueryTypes
<1> QED BY <1>1, TypeStep, PTL DEF Spec

\* Every variable of the catalog keeps its type, and what a deletion has yet to
\* delete is of its dataset.
THEOREM TypeCorrect == Spec => []CatalogTypeOK
BY TypeInvariance, TypeInvHasTypes, PTL

-------------------------------------------------------------------------------
(* Queries find what stays                                                  *)

\* A table that has stayed since a query began is in the catalog, and the query has
\* bound it or has yet to list its dataset.
SteadyInv ==
    \A q \in Queries :
        /\ \A t \in steady[q] : Cataloged(t)
        /\ query[q].at = "idle" => steady[q] = {}
        /\ query[q].at \in {"listing", "bound"} =>
             \A t \in steady[q] : t \in query[q].bound \/ DatasetOf[t] \in query[q].todo
        /\ query[q].at = "bound" => query[q].todo = {}

\* Rows go only with those that are no longer steady, whatever the write does.
LEMMA WriteKeepsSteadyRows ==
    ASSUME TypeInv, NEW w \in Writers, WriteStep(w)
    PROVE  /\ \A q \in Queries : steady'[q] \subseteq steady[q]
           /\ \A q \in Queries : \A t \in steady'[q] : HasRow(t) => HasRow(t)'
           /\ UNCHANGED <<datasets, query>>
<1> USE WriteAssumption DEF TypeInv, WriteTypeOK, SetVersion, HasRow
<1>1. CASE DeleteRow(w) /\ Leaves(IF HasRow(TargetOf[w])' THEN {} ELSE {TargetOf[w]})
  BY <1>1 DEF DeleteRow, Leaves, WriteStep, requestVars
<1>2. CASE /\ UNCHANGED steady
           /\ \/ Clear(w) \/ Copy(w) \/ RegisterExternal(w) \/ Describe(w)
              \/ CreateRow(w) \/ Bump(w) \/ ReadBack(w) \/ Flush(w)
  <2>1. UNCHANGED version \/ \E n \in Nat : n # 0 /\ SetVersion(TargetOf[w], n)
    <3>1. CASE Bump(w)
      BY <3>1 DEF Bump
    <3>2. CASE CreateRow(w) \/ RegisterExternal(w)
      BY <3>2 DEF CreateRow, RegisterExternal, Register, InsertRow
    <3>3. CASE Clear(w) \/ Copy(w) \/ Describe(w) \/ ReadBack(w) \/ Flush(w)
      BY <3>3 DEF Clear, Copy, Describe, ReadBack, Flush
    <3> QED BY <1>2, <3>1, <3>2, <3>3
  <2>2. UNCHANGED <<datasets, query>>
    BY DEF WriteStep, requestVars
  <2>3. \A t \in Tables : HasRow(t) => HasRow(t)'
    BY <2>1
  <2> QED BY <1>2, <2>2, <2>3
<1> QED BY <1>1, <1>2 DEF WriteStep

LEMMA SteadyStep ==
    ASSUME TypeInv, SteadyInv, [Next]_vars
    PROVE  SteadyInv'
<1> USE CatalogAssumption DEF rowVars, requestVars, historyVars, Cataloged, HasRow, SteadyInv
<1>1. CASE UNCHANGED vars
  BY <1>1 DEF vars, writeVars
<1>2. ASSUME NEW d \in Datasets, CreateDataset(d)
      PROVE  SteadyInv'
  BY <1>2 DEF CreateDataset
<1>3. ASSUME NEW x \in Deleters, ListForDelete(x)
      PROVE  SteadyInv'
  BY <1>3 DEF ListForDelete
<1>4. ASSUME NEW x \in Deleters, DeleteOne(x)
      PROVE  SteadyInv'
  <2>1. UNCHANGED <<version, steady>> \/ \E t : SetVersion(t, 0) /\ Leaves({t})
    BY <1>4, Zenon DEF DeleteOne
  <2>2. UNCHANGED <<datasets, query>>
    BY <1>4 DEF DeleteOne
  <2> QED BY <2>1, <2>2 DEF SetVersion, Leaves, TypeInv, WriteTypeOK
<1>5. ASSUME NEW x \in Deleters, DeleteRowOfDataset(x)
      PROVE  SteadyInv'
  BY <1>5 DEF DeleteRowOfDataset, Leaves, TablesIn, TypeInv
<1>6. ASSUME NEW w \in Writers, CheckDataset(w)
      PROVE  SteadyInv'
  BY <1>6 DEF CheckDataset
<1>7. ASSUME NEW w \in Writers, WriteStep(w)
      PROVE  SteadyInv'
  BY <1>7, WriteKeepsSteadyRows
<1>8. ASSUME NEW t \in Tables, DropTable(t)
      PROVE  SteadyInv'
  BY <1>8 DEF DropTable, Drop, SetVersion, Leaves, TypeInv, WriteTypeOK
<1>9. ASSUME NEW q \in Queries, ListDatasets(q)
      PROVE  SteadyInv'
  BY <1>9 DEF ListDatasets, QueryGoes, QueryFails, TypeInv
<1>10. ASSUME NEW q \in Queries, ListTables(q)
       PROVE  SteadyInv'
  <2>1. UNCHANGED <<version, datasets, steady>>
    BY <1>10 DEF ListTables
  <2>2. CASE QueryFails(q, "listing")
    BY <2>1, <2>2 DEF QueryFails, QueryGoes, TypeInv
  <2>3. ASSUME NEW d \in query[q].todo,
               QueryGoes(q, "listing",
                         [at |-> IF NextDatasets(q, d) = {} THEN "bound" ELSE "listing",
                          todo |-> NextDatasets(q, d), bound |-> query[q].bound \cup RowsIn(d)])
        PROVE  SteadyInv'
    <3>1. \A t \in steady[q] : DatasetOf[t] = d => t \in RowsIn(d)
      BY DEF RowsIn, TablesIn, TypeInv
    <3> QED BY <2>1, <2>3, <3>1 DEF QueryGoes, NextDatasets, TypeInv
  <2> QED BY <1>10, <2>2, <2>3 DEF ListTables
<1> QED BY <1>1, <1>2, <1>3, <1>4, <1>5, <1>6, <1>7, <1>8, <1>9, <1>10
        DEF Next, DatasetStep, TableStep

\* The listings a query is resolved from (ListDatasets, then ListTables for each)
\* bind every table that was in the catalog all the while.
THEOREM SteadyTablesAreBound == Spec => []SteadyTablesBound
<1>1. Init => SteadyInv
  BY DEF Init, SteadyInv
<1>2. SteadyInv => SteadyTablesBound
  BY DEF SteadyInv, SteadyTablesBound
<1> QED BY <1>1, <1>2, SteadyStep, TypeInvariance, PTL DEF Spec

-------------------------------------------------------------------------------
(* Tables without a dataset                                                 *)

\* A table has, or will have, a row of a write that found its dataset.
Expected(t) == HasRow(t) \/ Pending(t)

\* RegisterManaged asks for the dataset between the COPY and the DESCRIBE; a table
\* that has lost its dataset and may have a row is late.
OrphanInv ==
    /\ \A w \in checked : Kind[w] # "external" => wpc[w] \notin {"idle", "cleared"}
    /\ \A w \in Writers : wpc[w] \in {"described", "deleted"} => w \in checked
    /\ \A t \in Tables : DatasetOf[t] \notin datasets /\ Expected(t) => t \in late

\* A write that goes on makes no row be expected that was not.
LEMMA WriteExpectsNoMore ==
    ASSUME TypeInv, OrphanInv, NEW w \in Writers, WriteStep(w)
    PROVE  /\ \A u \in checked : Kind[u] # "external" => wpc'[u] \notin {"idle", "cleared"}
           /\ \A u \in Writers : wpc'[u] \in {"described", "deleted"} => u \in checked
           /\ \A t \in Tables : Expected(t)' => Expected(t)
           /\ UNCHANGED <<datasets, checked, late>>
<1> USE WriteAssumption DEF Proceed, SetVersion, HasRow, Pending, Expected
<1>1. UNCHANGED <<datasets, checked, late>>
  BY DEF WriteStep
<1>2. /\ version \in [Tables -> Nat] /\ wpc \in [Writers -> WriterPlaces]
      /\ checked \subseteq Writers
  BY DEF TypeInv, WriteTypeOK
<1>3. CASE Clear(w) \/ Copy(w)
  BY <1>1, <1>2, <1>3 DEF Clear, Copy, OrphanInv
<1>4. CASE w \in checked /\ Describe(w)
  BY <1>1, <1>2, <1>4 DEF Describe, OrphanInv
<1>5. CASE DeleteRow(w)
  BY <1>1, <1>2, <1>5 DEF DeleteRow, OrphanInv
<1>6. CASE CreateRow(w)
  BY <1>1, <1>2, <1>6 DEF CreateRow, InsertRow, OrphanInv
<1>7. CASE RegisterExternal(w)
  BY <1>1, <1>2, <1>7 DEF RegisterExternal, Register, InsertRow, OrphanInv
<1>8. CASE Bump(w)
  BY <1>1, <1>2, <1>8 DEF Bump, OrphanInv
<1>9. CASE ReadBack(w) \/ Flush(w)
  BY <1>1, <1>2, <1>9 DEF ReadBack, Flush, OrphanInv
<1> QED BY <1>3, <1>4, <1>5, <1>6, <1>7, <1>8, <1>9 DEF WriteStep

LEMMA OrphanStep ==
    ASSUME TypeInv, OrphanInv, [Next]_vars
    PROVE  OrphanInv'
<1> USE DEF rowVars, requestVars, historyVars, HasRow
<1>1. CASE UNCHANGED vars
  BY <1>1 DEF vars, writeVars, OrphanInv, Expected, Pending
<1>2. ASSUME NEW d \in Datasets, CreateDataset(d)
      PROVE  OrphanInv'
  BY <1>2 DEF CreateDataset, OrphanInv, Expected, Pending
<1>3. ASSUME NEW x \in Deleters, ListForDelete(x)
      PROVE  OrphanInv'
  BY <1>3 DEF ListForDelete, OrphanInv, Expected, Pending
<1>4. ASSUME NEW x \in Deleters, DeleteOne(x)
      PROVE  OrphanInv'
  <2>1. UNCHANGED version \/ \E t : SetVersion(t, 0)
    BY <1>4, Zenon DEF DeleteOne
  <2>2. \A t \in Tables : HasRow(t)' => HasRow(t)
    BY <2>1 DEF SetVersion, TypeInv, WriteTypeOK
  <2>3. UNCHANGED <<wpc, datasets, checked, late>>
    BY <1>4 DEF DeleteOne
  <2> QED BY <2>2, <2>3 DEF OrphanInv, Expected, Pending
<1>5. ASSUME NEW x \in Deleters, DeleteRowOfDataset(x)
      PROVE  OrphanInv'
  <2>1. UNCHANGED <<wpc, version, checked>>
    BY <1>5 DEF DeleteRowOfDataset
  <2>2. deletion[x].owed = {}
    BY <1>5 DEF DeleteRowOfDataset, TypeInv
  <2>3. ASSUME NEW t \in Tables, DatasetOf[t] \notin datasets', Expected(t)
        PROVE  t \in late'
    <3>1. CASE UNCHANGED <<datasets, late>>
      BY <2>3, <3>1 DEF OrphanInv
    <3>2. CASE t \in TablesIn(deletion[x].dataset)
      BY <1>5, <2>2, <2>3, <3>1, <3>2 DEF DeleteRowOfDataset, Expected
    <3>3. CASE t \notin TablesIn(deletion[x].dataset)
      BY <1>5, <2>3, <3>1, <3>3 DEF DeleteRowOfDataset, TablesIn, OrphanInv
    <3> QED BY <3>2, <3>3
  <2>4. \A t \in Tables : Expected(t)' => Expected(t)
    BY <2>1 DEF Expected, Pending
  <2> QED BY <2>1, <2>3, <2>4 DEF OrphanInv
<1>6. ASSUME NEW w \in Writers, CheckDataset(w)
      PROVE  OrphanInv'
  <2>1. UNCHANGED <<version, datasets, late>> /\ wpc \in [Writers -> WriterPlaces]
    BY <1>6 DEF CheckDataset, TypeInv, WriteTypeOK
  <2>2. CASE DatasetOf[TargetOf[w]] \in datasets /\ checked' = checked \cup {w} /\ UNCHANGED wpc
    BY <1>6, <2>1, <2>2 DEF CheckDataset, OrphanInv, Expected, Pending
  <2>3. CASE UNCHANGED checked /\ wpc' = [wpc EXCEPT ![w] = "failed"]
    BY <2>1, <2>3 DEF OrphanInv, Expected, Pending
  <2> QED BY <1>6, <2>2, <2>3 DEF CheckDataset, Proceed
<1>7. ASSUME NEW w \in Writers, WriteStep(w)
      PROVE  OrphanInv'
  BY <1>7, WriteExpectsNoMore DEF OrphanInv
<1>8. ASSUME NEW t \in Tables, DropTable(t)
      PROVE  OrphanInv'
  BY <1>8 DEF DropTable, Drop, SetVersion, OrphanInv, Expected, Pending, TypeInv, WriteTypeOK
<1>9. ASSUME NEW q \in Queries, ListDatasets(q) \/ ListTables(q)
      PROVE  OrphanInv'
  BY <1>9 DEF ListDatasets, ListTables, OrphanInv, Expected, Pending
<1> QED BY <1>1, <1>2, <1>3, <1>4, <1>5, <1>6, <1>7, <1>8, <1>9
        DEF Next, DatasetStep, TableStep

\* No foreign key ties a table to its dataset; the order of DeleteDataset leaves a
\* table without one only when its row came late.
THEOREM OrphansOnlyLate == Spec => []OrphansAreLate
<1>1. Init => OrphanInv
  BY CatalogAssumption DEF Init, WriteInit, OrphanInv
<1>2. OrphanInv => OrphansAreLate
  BY DEF OrphanInv, OrphansAreLate, Expected
<1> QED BY <1>1, <1>2, OrphanStep, TypeInvariance, PTL DEF Spec

-------------------------------------------------------------------------------
(* Rows that are replaced                                                   *)

\* Without failures, a table that lacks its row is about to get one, and a row that
\* was never bumped is about to be.
RowInv ==
    failures = 0 =>
        \A t \in Tables \ dropped :
            /\ ~HasRow(t) => \E w \in Writers : TargetOf[w] = t /\ wpc[w] = "deleted"
            /\ version[t] = 1 /\ source[t] = Managed =>
                 \E w \in Writers : TargetOf[w] = t /\ wpc[w] = "created"

LEMMA WriteRowStep ==
    ASSUME TypeInv, RowInv, NEW w \in Writers, WriteStep(w)
    PROVE  RowInv'
<1> SUFFICES ASSUME failures' = 0 PROVE RowInv'
  BY DEF RowInv
<1> USE WriteAssumption DEF Proceed, SetVersion, HasRow
<1>1. /\ version \in [Tables -> Nat] /\ wpc \in [Writers -> WriterPlaces]
      /\ source \in [Tables -> Writers \cup {Managed}]
      /\ failures \in Nat /\ UNCHANGED dropped
  BY DEF TypeInv, WriteTypeOK, WriteStep
<1>2. failures = 0 /\ UNCHANGED failures
  BY <1>1 DEF WriteStep, Clear, Copy, Describe, DeleteRow, CreateRow, Bump, ReadBack,
              RegisterExternal, Register, Flush
<1>3. CASE Clear(w) \/ Copy(w) \/ Describe(w) \/ ReadBack(w) \/ Flush(w)
  <2>1. /\ UNCHANGED <<version, source>>
        /\ \E b \in WriterPlaces : wpc' = [wpc EXCEPT ![w] = b]
        /\ wpc[w] \notin {"deleted", "created"}
    BY <1>3 DEF Clear, Copy, Describe, ReadBack, Flush, WriterPlaces
  <2> QED BY <1>1, <1>2, <2>1 DEF RowInv
<1>4. CASE DeleteRow(w)
  BY <1>1, <1>2, <1>4 DEF DeleteRow, RowInv
<1>5. CASE CreateRow(w)
  BY <1>1, <1>2, <1>5 DEF CreateRow, InsertRow, RowInv
<1>6. CASE Bump(w)
  BY <1>1, <1>2, <1>6 DEF Bump, RowInv
<1>7. CASE RegisterExternal(w)
  BY <1>1, <1>2, <1>7 DEF RegisterExternal, Register, InsertRow, RowInv, Managed
<1> QED BY <1>3, <1>4, <1>5, <1>6, <1>7 DEF WriteStep

LEMMA RowStep ==
    ASSUME TypeInv, RowInv, [Next]_vars
    PROVE  RowInv'
<1> USE WriteAssumption DEF rowVars, requestVars, historyVars, HasRow
<1>1. CASE UNCHANGED vars
  BY <1>1 DEF vars, writeVars, historyVars, RowInv
<1>2. ASSUME NEW d \in Datasets, CreateDataset(d)
      PROVE  RowInv'
  BY <1>2 DEF CreateDataset, RowInv
<1>3. ASSUME NEW x \in Deleters, ListForDelete(x) \/ DeleteRowOfDataset(x)
      PROVE  RowInv'
  BY <1>3 DEF ListForDelete, DeleteRowOfDataset, RowInv, TypeInv, WriteTypeOK
<1>4. ASSUME NEW x \in Deleters, DeleteOne(x)
      PROVE  RowInv'
  <2>1. \/ UNCHANGED <<version, dropped>> /\ (UNCHANGED failures \/ failures' = failures + 1)
        \/ UNCHANGED failures /\ \E t : SetVersion(t, 0) /\ dropped' = dropped \cup {t}
    BY <1>4, Zenon DEF DeleteOne
  <2>2. UNCHANGED <<wpc, source>> /\ failures \in Nat /\ version \in [Tables -> Nat]
    BY <1>4 DEF DeleteOne, TypeInv, WriteTypeOK
  <2> QED BY <2>1, <2>2 DEF SetVersion, RowInv
<1>5. ASSUME NEW w \in Writers, CheckDataset(w)
      PROVE  RowInv'
  BY <1>5 DEF CheckDataset, Proceed, RowInv, TypeInv, WriteTypeOK
<1>6. ASSUME NEW w \in Writers, WriteStep(w)
      PROVE  RowInv'
  BY <1>6, WriteRowStep
<1>7. ASSUME NEW t \in Tables, DropTable(t)
      PROVE  RowInv'
  BY <1>7 DEF DropTable, Drop, SetVersion, RowInv, TypeInv, WriteTypeOK
<1>8. ASSUME NEW q \in Queries, ListDatasets(q) \/ ListTables(q)
      PROVE  RowInv'
  BY <1>8 DEF ListDatasets, ListTables, RowInv, TypeInv, WriteTypeOK
<1> QED BY <1>1, <1>2, <1>3, <1>4, <1>5, <1>6, <1>7, <1>8
        DEF Next, DatasetStep, TableStep

\* Writes that replace a row in two statements and bump it in a third never lose it
\* between them, however many interleave (RegisterManaged, afterWrite).
THEOREM RowsSurvive == Spec => []RowSurvives
<1>1. Init => RowInv
  BY DEF Init, WriteInit, RowInv, HasRow
<1>2. TypeInv /\ RowInv => RowSurvives
  <2> SUFFICES ASSUME TypeInv, RowInv, failures = 0, NEW t \in Tables \ dropped, ~Busy(t)
               PROVE  HasRow(t) /\ (source[t] = Managed => version[t] > 1)
    BY DEF RowSurvives
  <2>1. \A w \in Writers : TargetOf[w] = t => wpc[w] \notin {"deleted", "created"}
    BY DEF Busy, Resting
  <2>2. HasRow(t) /\ (source[t] = Managed => version[t] # 1)
    BY <2>1 DEF RowInv
  <2> QED BY <2>2 DEF HasRow, TypeInv, WriteTypeOK
<1> QED BY <1>1, <1>2, RowStep, TypeInvariance, PTL DEF Spec
================================================================================
