------------------------------ MODULE EnginePool ------------------------------
(***************************************************************************)
(* The pool of DuckDB connections that internal/query, internal/analysis   *)
(* and internal/convert share, and what a request leaves on the connection *)
(* it used: credentials, schemas with views, a temporary table, and        *)
(* whatever a client's own SQL makes.                                      *)
(*                                                                         *)
(* A session is one call of QueryView, ExecWrite or Query ("view"), of     *)
(* InferSchema ("infer"), of Analyze ("analyze") or of convertFile         *)
(* ("convert").  What a statement computes is external: it works or not.   *)
(* The statements of one loop are one step: nobody else is on the          *)
(* connection, which ConnectionsClean asserts.                             *)
(*                                                                         *)
(* POST /query and POST /jobs take any SQL.  Of what it may leave on the   *)
(* connection this has what the other requests' statements meet: the       *)
(* secret, views and tables in the schemas, and analysis_data.             *)
(***************************************************************************)
EXTENDS Naturals, FiniteSets, Sequences, SequencesExt

CONSTANTS Sessions,
          KindOf,
          UserOf,         \* whose credentials each session brings
          Users,
          Bindings,       \* the catalog tables a "view" session registers
          Scripts,        \* the "view" sessions whose SQL is a client's and no mere SELECT
          Strays,         \* the names of tables that it makes or drops
          Tables,
          SchemaOf,       \* the schema of each table
          Connections,
          MaxFaults       \* bound: statements that fail without reason

Kinds == {"view", "infer", "analyze", "convert"}

Schemas == {SchemaOf[t] : t \in Tables}

ASSUME PoolAssumption ==
    /\ KindOf \in [Sessions -> Kinds]
    /\ UserOf \in [Sessions -> Users]
    /\ Bindings \in [Sessions -> SUBSET Tables]
    /\ Scripts \subseteq {s \in Sessions : KindOf[s] = "view"} /\ Strays \subseteq Tables
    /\ IsFiniteSet(Connections) /\ "none" \notin Connections
    /\ MaxFaults \in Nat

VARIABLES free,       \* the channel of free connections, in its order
          waiting,    \* the sessions blocked in a receive from it
          place,      \* where each session is
          conn,       \* the connection it holds, or "none"
          outcome,    \* what a conversion returns: "none" so far, "ok" or "error"
          secret,     \* per connection: the user whose credentials it has
          schemas,    \* ... the schemas on it
          views,      \* ... what is in them, with the session that made it
          temp,       \* ... who made its analysis_data: one session, or none
          faults,     \* failed statements so far
          unapplied,  \* history: sessions that go on without their credentials
          spoiled     \* history: connections on which a DROP failed

statementVars == <<secret, schemas, views, temp, spoiled>>
poolVars == <<free, waiting, place, conn, outcome, statementVars, faults, unapplied>>

SessionPlaces == {"new",        \* not called
                  "waiting",    \* in the receive
                  "holding",    \* has a connection
                  "creating",   \* ... with its credentials; creates schemas
                  "viewing",    \* ... and views
                  "executing",  \* ... then executes its statement
                  "dropping",   \* runs the deferred DROP SCHEMAs
                  "clearing",   \* runs the deferred DROP TABLE
                  "returning",  \* runs the deferred send to the pool
                  "over"}

PoolInit ==
    /\ free = SetToSeq(Connections)
    /\ waiting = <<>>
    /\ place = [s \in Sessions |-> "new"]
    /\ conn = [s \in Sessions |-> "none"]
    /\ outcome = [s \in Sessions |-> "none"]
    /\ secret = [c \in Connections |-> "none"]
    /\ schemas = [c \in Connections |-> {}]
    /\ views = [c \in Connections |-> {}]
    /\ temp = [c \in Connections |-> {}]
    /\ faults = 0
    /\ unapplied = {}
    /\ spoiled = {}

Faultless == UNCHANGED faults

Fault == faults < MaxFaults /\ faults' = faults + 1

Goto(s, p) == place' = [place EXCEPT ![s] = p]

\* Only the worker of a conversion acts on what it returned.
Returns(s, o) ==
    outcome' = [outcome EXCEPT ![s] = IF KindOf[s] = "convert" THEN o ELSE @]

\* The session returns an error; only the send to the pool has been deferred.
Abort(s) == Goto(s, "returning") /\ Returns(s, "error")

SchemasOf(s) == {SchemaOf[t] : t \in Bindings[s]}

\* A name in a schema stands for a view that registers a table of the catalog, or for
\* a view or a table that some client's SQL has made.
Relations == [table : Tables, by : Sessions, as : {"binding", "view", "table"}]

Binding(t, s) == [table |-> t, by |-> s, as |-> "binding"]

KeepsChannel == UNCHANGED <<free, waiting, conn>>

-------------------------------------------------------------------------------
(* The channel                                                              *)

\* db := <-e.pool
Enter(s) ==
    /\ place[s] = "new"
    /\ IF free # <<>>
       THEN /\ conn' = [conn EXCEPT ![s] = Head(free)]
            /\ free' = Tail(free)
            /\ Goto(s, "holding")
            /\ UNCHANGED waiting
       ELSE /\ waiting' = Append(waiting, s)
            /\ Goto(s, "waiting")
            /\ UNCHANGED <<free, conn>>
    /\ UNCHANGED <<outcome, statementVars, faults, unapplied>>

\* Fault: a session that returns an error keeps its connection.
PutBackOnSuccess(s) ==
    /\ place[s] = "returning" /\ outcome[s] # "error"
    /\ free' = Append(free, conn[s])
    /\ conn' = [conn EXCEPT ![s] = "none"]
    /\ Goto(s, "over")
    /\ UNCHANGED <<waiting, outcome, statementVars, faults, unapplied>>

\* Fault: an early return sends the connection, and the deferred send again.
PutBackTwice(s) ==
    /\ place[s] = "returning"
    /\ free' = free \o <<conn[s], conn[s]>>
    /\ conn' = [conn EXCEPT ![s] = "none"]
    /\ Goto(s, "over")
    /\ UNCHANGED <<waiting, outcome, statementVars, faults, unapplied>>

\* The deferred e.pool <- db.  A blocked receive gets the connection at once.
PutBack(s) ==
    /\ place[s] = "returning"
    /\ IF waiting = <<>>
       THEN /\ free' = Append(free, conn[s])
            /\ conn' = [conn EXCEPT ![s] = "none"]
            /\ Goto(s, "over")
            /\ UNCHANGED waiting
       ELSE LET next == Head(waiting) IN
            /\ conn' = [conn EXCEPT ![s] = "none", ![next] = conn[s]]
            /\ place' = [place EXCEPT ![s] = "over", ![next] = "holding"]
            /\ waiting' = Tail(waiting)
            /\ UNCHANGED free
    /\ UNCHANGED <<outcome, statementVars, faults, unapplied>>

-------------------------------------------------------------------------------
(* Credentials                                                              *)

\* Where a session goes that has its credentials.
AfterCreds(s) == Goto(s, IF KindOf[s] = "view" THEN "creating" ELSE "executing")

\* InferSchema is the only one that does not look at the error.
CredsFailed(s) ==
    IF KindOf[s] = "infer"
    THEN AfterCreds(s) /\ unapplied' = unapplied \cup {s} /\ UNCHANGED outcome
    ELSE Abort(s) /\ UNCHANGED <<unapplied>>

\* applyS3Creds, or the secret of convertFile.  The secret comes first; when one
\* of the settings after it fails, it has been replaced.
ApplyCreds(s) ==
    /\ place[s] = "holding" /\ KindOf[s] # "analyze"
    /\ \/ /\ Faultless
          /\ secret' = [secret EXCEPT ![conn[s]] = UserOf[s]]
          /\ AfterCreds(s)
          /\ UNCHANGED <<outcome, unapplied>>
       \/ /\ Fault
          /\ secret' = [secret EXCEPT ![conn[s]] = UserOf[s]] \/ UNCHANGED secret
          /\ CredsFailed(s)
    /\ KeepsChannel /\ UNCHANGED <<schemas, views, temp, spoiled>>

-------------------------------------------------------------------------------
(* Views                                                                    *)

\* CREATE SCHEMA IF NOT EXISTS, in the order of a map.  The DROPs are deferred
\* when all of them have worked: a failure leaves the schemas made before it.
CreateSchemas(s) ==
    /\ place[s] = "creating"
    /\ \E made \in SUBSET SchemasOf(s) :
         /\ schemas' = [schemas EXCEPT ![conn[s]] = @ \cup made]
         /\ \/ Faultless /\ made = SchemasOf(s) /\ Goto(s, "viewing") /\ UNCHANGED outcome
            \/ Fault /\ made # SchemasOf(s) /\ Abort(s)
    /\ KeepsChannel /\ UNCHANGED <<secret, views, temp, spoiled, unapplied>>

\* Fault: CREATE VIEW IF NOT EXISTS.
PutViewsIfAbsent(s, made) ==
    views' = [views EXCEPT ![conn[s]] =
                 @ \cup {Binding(t, s) : t \in made \ {v.table : v \in @}}]

\* CREATE OR REPLACE VIEW
PutViews(s, made) ==
    views' = [views EXCEPT ![conn[s]] =
                 {v \in @ : v.table \notin made} \cup {Binding(t, s) : t \in made}]

\* ... replaces a view, whoever made it, but no table.
TablesInTheWay(s) == {t \in Bindings[s] : \E v \in views[conn[s]] : v.table = t /\ v.as = "table"}

CreateViews(s) ==
    /\ place[s] = "viewing"
    /\ \E made \in SUBSET (Bindings[s] \ TablesInTheWay(s)) :
         /\ PutViews(s, made)
         /\ \/ Faultless /\ made = Bindings[s] /\ Goto(s, "executing") /\ UNCHANGED outcome
            \/ /\ made # Bindings[s] /\ Goto(s, "dropping") /\ Returns(s, "error")
               /\ Fault \/ (TablesInTheWay(s) # {} /\ Faultless)
    /\ KeepsChannel /\ UNCHANGED <<secret, schemas, temp, spoiled, unapplied>>

\* DROP SCHEMA CASCADE for each.  Its error is dropped.
DropSchemas(s) ==
    /\ place[s] = "dropping"
    /\ \E gone \in SUBSET SchemasOf(s) :
         /\ schemas' = [schemas EXCEPT ![conn[s]] = @ \ gone]
         /\ views' = [views EXCEPT ![conn[s]] = {v \in @ : SchemaOf[v.table] \notin gone}]
         /\ \/ Faultless /\ gone = SchemasOf(s) /\ UNCHANGED spoiled
            \/ Fault /\ gone # SchemasOf(s) /\ spoiled' = spoiled \cup {conn[s]}
    /\ Goto(s, "returning")
    /\ KeepsChannel /\ UNCHANGED <<outcome, secret, temp, unapplied>>

-------------------------------------------------------------------------------
(* Analyze                                                                  *)

\* A value of a type it does not know ends it before the CREATE, which fails if
\* the table is there.
CreateTemp(s) ==
    /\ place[s] = "holding" /\ KindOf[s] = "analyze"
    /\ \/ /\ temp[conn[s]] = {}
          /\ temp' = [temp EXCEPT ![conn[s]] = {s}]
          /\ Goto(s, "executing")
          /\ UNCHANGED outcome
       \/ Abort(s) /\ UNCHANGED temp
    /\ Faultless
    /\ KeepsChannel /\ UNCHANGED <<secret, schemas, views, spoiled, unapplied>>

\* Its error is dropped.
DropTemp(s) ==
    /\ place[s] = "clearing"
    /\ \/ Faultless /\ temp' = [temp EXCEPT ![conn[s]] = {}] /\ UNCHANGED spoiled
       \/ Fault /\ spoiled' = spoiled \cup {conn[s]} /\ UNCHANGED temp
    /\ Goto(s, "returning")
    /\ KeepsChannel /\ UNCHANGED <<outcome, secret, schemas, views, unapplied>>

-------------------------------------------------------------------------------
(* The statement                                                            *)

\* Fault: the DROPs are not deferred, and an error returns before them.
AfterErrorReturn(s, o) ==
    Goto(s, CASE o = "ok" /\ KindOf[s] = "view" -> "dropping"
              [] o = "ok" /\ KindOf[s] = "analyze" -> "clearing"
              [] OTHER -> "returning")

\* The deferred calls that follow it, whatever it returned.
AfterStatement(s, o) ==
    Goto(s, CASE KindOf[s] = "view" -> "dropping"
              [] KindOf[s] = "analyze" -> "clearing"
              [] OTHER -> "returning")

\* A client's statements run one after the other as they are.  Whatever becomes of the
\* answer, they may have put other credentials in place (whose, is not known: "none"),
\* made analysis_data, and in any schema dropped what is there, or put their own.
LeaveBehind(s) ==
    /\ secret' = [secret EXCEPT ![conn[s]] = "none"]
    /\ temp' = [temp EXCEPT ![conn[s]] = {s}] \/ UNCHANGED temp
    /\ \E fate \in [Strays -> {"kept", "dropped", "view", "table"}] :
         LET made == {[table |-> t, by |-> s, as |-> fate[t]] : t \in {t \in Strays : fate[t] \in {"view", "table"}}} IN
         /\ views' = [views EXCEPT ![conn[s]] =
                         {v \in @ : v.table \in Strays => fate[v.table] = "kept"} \cup made]
         /\ schemas' = [schemas EXCEPT ![conn[s]] = @ \cup {SchemaOf[v.table] : v \in made}]
    /\ UNCHANGED spoiled

Execute(s, o) ==
    /\ place[s] = "executing"
    /\ Returns(s, o)
    /\ AfterStatement(s, o)
    /\ IF s \in Scripts THEN LeaveBehind(s) ELSE UNCHANGED statementVars
    /\ KeepsChannel /\ UNCHANGED <<faults, unapplied>>

\* The steps of a session between its receive and its statement, and after it.
SessionStep(s) ==
    \/ ApplyCreds(s) \/ CreateSchemas(s) \/ CreateViews(s) \/ CreateTemp(s)
    \/ DropSchemas(s) \/ DropTemp(s) \/ PutBack(s)

-------------------------------------------------------------------------------
(* Properties                                                               *)

PoolTypeOK ==
    /\ free \in Seq(Connections) /\ Len(free) <= Cardinality(Connections)
    /\ waiting \in Seq(Sessions)
    /\ place \in [Sessions -> SessionPlaces]
    /\ conn \in [Sessions -> Connections \cup {"none"}]
    /\ outcome \in [Sessions -> {"none", "ok", "error"}]
    /\ secret \in [Connections -> Users \cup {"none"}]
    /\ schemas \in [Connections -> SUBSET Schemas]
    /\ views \in [Connections -> SUBSET Relations]
    /\ temp \in [Connections -> SUBSET Sessions]
    /\ faults \in 0..MaxFaults
    /\ unapplied \subseteq Sessions
    /\ spoiled \subseteq Connections

Holders(c) == {s \in Sessions : conn[s] = c}

\* A connection that somebody else has used before runs a statement with the
\* credentials and the views of the request it is running now, through every
\* failure and whatever a client's SQL has left there under the names of its tables:
\* the only statement that may run with somebody else's credentials is
\* InferSchema's, after it has ignored the failure to set its own.
RunsAsItself ==
    \A s \in Sessions : place[s] = "executing" =>
        /\ KindOf[s] # "analyze" /\ s \notin unapplied => secret[conn[s]] = UserOf[s]
        /\ \A t \in Bindings[s] :
             KindOf[s] = "view" => {v \in views[conn[s]] : v.table = t} = {Binding(t, s)}

\* The server's own objects do not outlive the request they were made for: unless a
\* DROP has failed on it, a connection is in the pool or with one holder, and the
\* views that register tables and the analysis_data on it are the holder's.  What else
\* it carries, free or not, is what the SQL of some client has left there.
ConnectionsClean ==
    \A c \in Connections :
        /\ Cardinality(Holders(c)) + (IF Contains(free, c) THEN 1 ELSE 0) = 1
        /\ c \notin spoiled =>
             /\ \A v \in views[c] : v.by \in Holders(c) \/ (v.by \in Scripts /\ v.as # "binding")
             /\ \A s \in temp[c] : s \in Scripts \/
                                   (s \in Holders(c) /\ KindOf[s] = "analyze" /\ place[s] # "holding")
===============================================================================
