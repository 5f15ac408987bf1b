-------------------------------- MODULE Planner --------------------------------
(***************************************************************************)
(* Partition pruning (internal/planner/prune.go): which partitions of a    *)
(* table its reader is built from, given the WHERE clause of a statement.  *)
(*                                                                         *)
(* A clause is a set of comparisons and how they are joined.  Each is what *)
(* the regular expressions find in the text of the statement: a column,    *)
(* an operator and literals, which need not be what the statement          *)
(* compares.  A partition is the value it has for the partition column, or *)
(* NoValue.  Values and literals are texts, of which some read as numbers. *)
(***************************************************************************)
EXTENDS Integers, FiniteSets

CONSTANTS Texts,      \* the values and literals
          Rank,       \* their lexicographic order
          Number,     \* the number a text reads as, or NaN
          NoValue     \* a partition without a value for the column

NaN == -1

ASSUME PlannerAssumption ==
    /\ Rank \in [Texts -> Nat] /\ \A s, t \in Texts : Rank[s] = Rank[t] => s = t
    /\ Number \in [Texts -> Nat \cup {NaN}]
    /\ NoValue \notin Texts

\* What is found of a comparison of a partition column; a list of two literals only for
\* IN.  It is exact if it is what the statement compares.  It is not when the literal is
\* the first of an expression (n = 1 is found in n = 1 + k), or the name of a column or
\* a part of an IN list that is no literal, or when the column is another table's.
Found ==
    [column : {"partition"}, op : {"=", ">", ">=", "<", "<="}, lits : {{t} : t \in Texts},
     exact : BOOLEAN]
      \cup [column : {"partition"}, op : {"IN"}, lits : {{s, t} : s \in Texts, t \in Texts},
             exact : BOOLEAN]

\* A column that is no partition's is compared in one way.
Terms == Found \cup {[column |-> "other", op |-> "=", lits |-> {}, exact |-> TRUE]}

\* Clauses of one comparison or two.
Clauses == {[join |-> j, terms |-> {c, d}] : j \in {"AND", "OR", "NOT"}, c \in Terms, d \in Terms}

Numeric(t) == Number[t] # NaN

\* compare: by number if both are numbers, by text otherwise.
Less(s, t) ==
    IF Numeric(s) /\ Numeric(t) THEN Number[s] < Number[t] ELSE Rank[s] < Rank[t]

\* matches: equality is of texts.
Matches(c, v) ==
    CASE c.op \in {"=", "IN"} -> v \in c.lits
      [] c.op = ">"  -> \A t \in c.lits : Less(t, v)
      [] c.op = ">=" -> \A t \in c.lits : ~Less(v, t)
      [] c.op = "<"  -> \A t \in c.lits : Less(v, t)
      [] c.op = "<=" -> \A t \in c.lits : ~Less(t, v)

\* ParseWhere: none with an OR or a NOT anywhere, else those of the partition column.
Predicates(w) ==
    IF w.join = "AND" THEN {c \in w.terms : c.column = "partition"} ELSE {}

Prune(w, parts) ==
    {v \in parts : v = NoValue \/ \A c \in Predicates(w) : Matches(c, v)}

\* ResolvePruned: a list of which nothing is kept is not used; the reader of the
\* table's location reads every partition.
PartitionsRead(w, parts) ==
    IF Prune(w, parts) = {} THEN parts ELSE Prune(w, parts)

-------------------------------------------------------------------------------
(* What the statement means: DuckDB compares the values of a column all of   *)
(* which are numbers as numbers, and others as texts.                        *)

AllNumbers(parts, c) == \A t \in (parts \ {NoValue}) \cup c.lits : Numeric(t)

Precedes(parts, c, s, t) ==
    IF AllNumbers(parts, c) THEN Number[s] < Number[t] ELSE Rank[s] < Rank[t]

Equal(parts, c, s, t) == ~Precedes(parts, c, s, t) /\ ~Precedes(parts, c, t, s)

Holds(parts, c, v) ==
    \/ c.column = "other" \/ ~c.exact \/ v = NoValue    \* some row may satisfy it
    \/ \E t \in c.lits :
          \/ c.op \in {"=", "IN", ">=", "<="} /\ Equal(parts, c, v, t)
          \/ c.op \in {">", ">="} /\ Precedes(parts, c, t, v)
          \/ c.op \in {"<", "<="} /\ Precedes(parts, c, v, t)

\* The partitions that may hold a row the statement selects.
Selected(w, parts) ==
    CASE w.join = "AND" -> {v \in parts : \A c \in w.terms : Holds(parts, c, v)}
      [] w.join = "OR"  -> {v \in parts : \E c \in w.terms : Holds(parts, c, v)}
      [] w.join = "NOT" -> {v \in parts : v = NoValue \/ \E c \in w.terms :
                               c.column = "other" \/ ~c.exact \/ ~Holds(parts, c, v)}

-------------------------------------------------------------------------------
(* Where the two part                                                        *)

\* One number written in two ways: '01' is not the 1 of dt = 1.
TwoWritings(parts, c, v) ==
    c.op \in {"=", "IN"} /\ AllNumbers(parts, c) /\ v \notin c.lits /\ \E t \in c.lits : Number[t] = Number[v]

\* Two numbers among texts that are not all numbers: '10' is before '9' there, and the
\* planner has it after.
TwoOrders(parts, c, v) ==
    c.op \notin {"=", "IN"} /\ ~AllNumbers(parts, c) /\ Numeric(v) /\ \E t \in c.lits : Numeric(t)

Misread(parts, c, v) == ~c.exact \/ TwoWritings(parts, c, v) \/ TwoOrders(parts, c, v)

\* The partitions that hold, or may, a row the statement selects and go unread.
Lost(w, parts) == Selected(w, parts) \ PartitionsRead(w, parts)

\* A partition is lost in three cases only: a comparison of the partition column that
\* it does not match is not what the statement compares, or compares two writings of
\* a number, or two numbers that are ordered as texts.
OnlyMisreadLost ==
    \A parts \in SUBSET (Texts \cup {NoValue}) : \A w \in Clauses : \A v \in Lost(w, parts) :
        \E c \in Predicates(w) : Misread(parts, c, v) /\ ~Matches(c, v)

\* And each of the three does lose one: "it only ever removes partitions that cannot
\* match" (prune.go:4) is more than the planner does.
EveryMisreadingLoses ==
    LET Loses(Cause(_, _, _)) ==
            \E parts \in SUBSET (Texts \cup {NoValue}), c \in Found :
                \E v \in Lost([join |-> "AND", terms |-> {c}], parts) : Cause(parts, c, v)
        Inexact(parts, c, v) == ~c.exact
        InTwoWritings(parts, c, v) == c.exact /\ TwoWritings(parts, c, v)
        InTwoOrders(parts, c, v) == c.exact /\ TwoOrders(parts, c, v)
    IN Loses(Inexact) /\ Loses(InTwoWritings) /\ Loses(InTwoOrders)
===============================================================================
