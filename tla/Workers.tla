-------------------------------- MODULE Workers --------------------------------
(***************************************************************************)
(* Remote execution (internal/worker): the coordinator's RemoteExecutor    *)
(* posts a query to one worker after the other until one answers; a        *)
(* worker's Execute localizes the objects through its DataCache and runs   *)
(* the statement.  The server's main wires workers without a data cache:   *)
(* those outside Caching.                                                  *)
(*                                                                         *)
(* What the network does is external: a request may not arrive, an answer  *)
(* may be lost or come after the client's timeout.                         *)
(***************************************************************************)
EXTENDS DataCache

CONSTANTS ObjectsOf,     \* the objects of each query's tables of class hdd
          RouteKey,      \* the hash of each query's routeKey
          VnodesOf,      \* the hashes of each worker's virtual nodes
          Precedence,    \* the endpoints as configured: a later one wins a hash
          Authorized,    \* the workers that share the coordinator's secret
          Caching,       \* the workers that have a data cache
          MaxFailures    \* bound: failing fetches, writes, resolutions, and crashes

ASSUME WorkersAssumption ==
    /\ ObjectsOf \in [Requests -> SUBSET Objects]
    /\ RouteKey \in [Requests -> Nat]
    /\ VnodesOf \in [Endpoints -> (SUBSET Nat) \ {{}}]
    /\ Precedence \in Seq(Endpoints) /\ Precedence # <<>>
    /\ ToSet(Precedence) = Endpoints /\ Len(Precedence) = Cardinality(Endpoints)
    /\ Authorized \subseteq Endpoints /\ Caching \subseteq Endpoints
    /\ MaxFailures \in Nat

VARIABLES at,        \* where each query is at the coordinator
          targets,   \* the workers it will try, in order
          tried,     \* how many it has tried
          inFlight,  \* RemoteExecutor.inFlight
          run,       \* where each query is at each worker
          todo,      \* the objects it has yet to localize there
          local,     \* the objects it will read from the disk there
          pulled,    \* history: of these, the ones evicted since
          failures,  \* failures and crashes so far
          up         \* the workers that run

dispatchVars == <<at, targets, tried, inFlight>>
serverVars == <<run, todo, local, pulled>>
faultVars == <<failures, up>>
vars == <<cacheVars, dispatchVars, serverVars, faultVars>>

Places == {"idle", "ordered", "posting", "answered", "failed"}

RunPlaces == {"none",        \* not received
              "refused",     \* the secret does not match
              "localizing",  \* goes through its objects
              "missed", "writing", "written",  \* ... one of them not cached
              "original",    \* reads the object store: no cache, or it failed
              "ran",         \* the statement has run, the answer is on its way
              "lost"}        \* the worker crashed

Init ==
    /\ CacheInit
    /\ at = [q \in Requests |-> "idle"]
    /\ targets = [q \in Requests |-> <<>>]
    /\ tried = [q \in Requests |-> 0]
    /\ inFlight = [w \in Endpoints |-> 0]
    /\ run = [q \in Requests |-> [w \in Endpoints |-> "none"]]
    /\ todo = [q \in Requests |-> [w \in Endpoints |-> {}]]
    /\ local = [q \in Requests |-> [w \in Endpoints |-> {}]]
    /\ pulled = [q \in Requests |-> [w \in Endpoints |-> {}]]
    /\ failures = 0
    /\ up = Endpoints

Works == UNCHANGED faultVars

Fails == failures < MaxFailures /\ failures' = failures + 1 /\ UNCHANGED up

GoTo(q, p) == at' = [at EXCEPT ![q] = p]

RunGoes(q, w, a, b) == run[q][w] = a /\ run' = [run EXCEPT ![q][w] = b]

-------------------------------------------------------------------------------
(* The ring                                                                 *)

Vnodes == UNION {VnodesOf[w] : w \in Endpoints}

\* The endpoint that NewHashRing wrote last at hash h.
OwnerOf(h) ==
    Precedence[CHOOSE i \in DOMAIN Precedence :
                  /\ h \in VnodesOf[Precedence[i]]
                  /\ \A k \in DOMAIN Precedence : h \in VnodesOf[Precedence[k]] => k <= i]

\* Get: the owner of the first vnode clockwise from the key.
Preferred(q) ==
    LET after == {h \in Vnodes : h >= RouteKey[q]}
        from == IF after = {} THEN Vnodes ELSE after
    IN OwnerOf(CHOOSE h \in from : \A g \in from : h <= g)

\* The other workers, least loaded first; the sort leaves ties in any order.
LeastLoadedFirst(S) ==
    {s \in SetToSeqs(S) : \A i, k \in DOMAIN s : i < k => inFlight[s[i]] <= inFlight[s[k]]}

-------------------------------------------------------------------------------
(* The coordinator                                                          *)

\* ResolveWire, and orderedTargets with the loads of this moment.
Order(q) ==
    /\ at[q] = "idle"
    /\ \/ /\ Works
          /\ GoTo(q, "ordered")
          /\ \E rest \in LeastLoadedFirst(Endpoints \ {Preferred(q)}) :
               targets' = [targets EXCEPT ![q] = <<Preferred(q)>> \o rest]
       \/ Fails /\ GoTo(q, "failed") /\ UNCHANGED targets
    /\ UNCHANGED <<cacheVars, serverVars, tried, inFlight>>

Target(q) == targets[q][tried[q]]

\* Fault: the loop begins again with the same worker.
FirstAgain(q) == 1

NextTried(q) == tried[q] + 1

Post(q) ==
    /\ at[q] = "ordered" /\ tried[q] < Len(targets[q])
    /\ GoTo(q, "posting")
    /\ tried' = [tried EXCEPT ![q] = NextTried(q)]
    /\ inFlight' = [inFlight EXCEPT ![targets[q][NextTried(q)]] = @ + 1]
    /\ Works
    /\ UNCHANGED <<cacheVars, serverVars, targets>>

PostEnds(q) == inFlight' = [inFlight EXCEPT ![Target(q)] = @ - 1]

\* Status 200 and a result, which may report an error of the statement.
Answer(q) ==
    /\ at[q] = "posting"
    /\ run[q][Target(q)] = "ran"
    /\ GoTo(q, "answered")
    /\ PostEnds(q)
    /\ Works
    /\ UNCHANGED <<cacheVars, serverVars, targets, tried>>

\* Fault: the counter is decremented on the way to an answer only.
LoadStays(q) == UNCHANGED inFlight

LoadDrops(q) == PostEnds(q)

NextTarget(q) == IF tried[q] < Len(targets[q]) THEN "ordered" ELSE "failed"

\* No connection, another status, a lost answer, or the timeout of the client:
\* the worker may still be at it, or have done it.
GiveUp(q) ==
    /\ at[q] = "posting"
    /\ GoTo(q, NextTarget(q))
    /\ LoadDrops(q)
    /\ Works
    /\ UNCHANGED <<cacheVars, serverVars, targets, tried>>

-------------------------------------------------------------------------------
(* A worker                                                                 *)

\* checkSecret, and resolveBindings.
AfterReceive(w) ==
    IF w \notin Authorized THEN "refused"
    ELSE IF w \in Caching THEN "localizing" ELSE "original"

Receive(q, w) ==
    /\ at[q] = "posting" /\ Target(q) = w /\ w \in up
    /\ RunGoes(q, w, "none", AfterReceive(w))
    /\ todo' = [todo EXCEPT ![q][w] = IF AfterReceive(w) = "localizing" THEN ObjectsOf[q] ELSE {}]
    /\ Works
    /\ UNCHANGED <<cacheVars, dispatchVars, local, pulled>>

Localized(q, w, o) ==
    /\ todo' = [todo EXCEPT ![q][w] = @ \ {o}]
    /\ local' = [local EXCEPT ![q][w] = @ \cup {o}]

\* RewriteBindings returns an error: all readers stay as they are.
FallBack(q, w) ==
    /\ run' = [run EXCEPT ![q][w] = "original"]
    /\ local' = [local EXCEPT ![q][w] = {}]
    /\ UNCHANGED todo

\* Ensure fetches an object, which may fail, and looks for its item.
Ensure(q, w) ==
    /\ run[q][w] = "localizing"
    /\ \E o \in todo[q][w] :
         \/ Works /\ Hit(w, o) /\ Localized(q, w, o) /\ UNCHANGED run
         \/ Works /\ Miss(w, q, o) /\ RunGoes(q, w, "localizing", "missed") /\ UNCHANGED <<todo, local>>
         \/ Fails /\ FallBack(q, w) /\ UNCHANGED cacheVars
    /\ UNCHANGED <<dispatchVars, pulled>>

Missing(q, w, o) == [by |-> q, object |-> o] \in missing[w]

\* os.WriteFile truncates the file ...
TruncateFile(q, w) ==
    /\ \E o \in Objects : Missing(q, w, o) /\ SetFile(w, o, "torn")
    /\ RunGoes(q, w, "missed", "writing")
    /\ Works
    /\ UNCHANGED <<dispatchVars, todo, local, pulled>>

\* Fault: a copy that failed half-way is taken for a good one.
WriteErrorIgnored(q, w) ==
    RunGoes(q, w, "writing", "written") /\ UNCHANGED <<cacheVars, todo, local>>

WriteError(q, w) == run[q][w] = "writing" /\ GiveUpMiss(w, q) /\ FallBack(q, w)

\* ... and writes it, or fails half-way.
WriteFile(q, w) ==
    /\ \/ /\ Works
          /\ \E o \in Objects : Missing(q, w, o) /\ SetFile(w, o, "whole")
          /\ RunGoes(q, w, "writing", "written")
          /\ UNCHANGED <<todo, local>>
       \/ Fails /\ WriteError(q, w)
    /\ UNCHANGED <<dispatchVars, pulled>>

InsertItem(q, w) ==
    /\ \E o \in Objects :
         /\ Missing(q, w, o)
         /\ Insert(w, q, o)
         /\ Localized(q, w, o)
         /\ LET gone == (Items(w) \cup {o}) \ Range(lru'[w]) IN
            pulled' = [r \in Requests |->
                          [pulled[r] EXCEPT ![w] = @ \cup (gone \cap local'[r][w])]]
    /\ RunGoes(q, w, "written", "localizing")
    /\ Works
    /\ UNCHANGED dispatchVars

\* QueryView, with the local files or the original readers.  After it nobody
\* looks at what the query had localized.
RunStatement(q, w) ==
    /\ \/ todo[q][w] = {} /\ RunGoes(q, w, "localizing", "ran")
       \/ RunGoes(q, w, "original", "ran")
    /\ todo' = [todo EXCEPT ![q][w] = {}]
    /\ local' = [local EXCEPT ![q][w] = {}]
    /\ pulled' = [pulled EXCEPT ![q][w] = {}]
    /\ Works
    /\ UNCHANGED <<cacheVars, dispatchVars>>

Serve(q, w) ==
    /\ w \in up
    /\ \/ Ensure(q, w) \/ TruncateFile(q, w) \/ WriteFile(q, w)
       \/ InsertItem(q, w) \/ RunStatement(q, w)

Crash(w) ==
    /\ w \in up /\ failures < MaxFailures
    /\ failures' = failures + 1
    /\ up' = up \ {w}
    /\ LoseItems(w)
    /\ run' = [q \in Requests |-> [run[q] EXCEPT ![w] = IF @ = "none" THEN @ ELSE "lost"]]
    /\ UNCHANGED <<dispatchVars, todo, local, pulled>>

Restart(w) ==
    /\ w \notin up
    /\ up' = up \cup {w}
    /\ UNCHANGED <<cacheVars, dispatchVars, serverVars, failures>>

Dispatch(q) == Order(q) \/ Post(q) \/ Answer(q) \/ GiveUp(q)

Next ==
    \/ \E q \in Requests : Dispatch(q)
    \/ \E q \in Requests, w \in Endpoints : Receive(q, w) \/ Serve(q, w)
    \/ \E w \in Endpoints : Crash(w) \/ Restart(w)

Spec == Init /\ [][Next]_vars

\* The client's timeout ends every post: while a query is with a worker or has one
\* left to try, some query goes on.  Nothing is assumed of the workers.
FairSpec == Spec /\ WF_vars(\E q \in Requests : Post(q) \/ GiveUp(q))

-------------------------------------------------------------------------------
(* Properties                                                               *)

WorkersTypeOK ==
    /\ CacheTypeOK
    /\ at \in [Requests -> Places]
    /\ \A q \in Requests : ToSet(targets[q]) \subseteq Endpoints /\ tried[q] \in 0..Len(targets[q])
    /\ inFlight \in [Endpoints -> Nat]
    /\ run \in [Requests -> [Endpoints -> RunPlaces]]
    /\ todo \in [Requests -> [Endpoints -> SUBSET Objects]]
    /\ local \in [Requests -> [Endpoints -> SUBSET Objects]]
    /\ pulled \in [Requests -> [Endpoints -> SUBSET Objects]]
    /\ failures \in 0..MaxFailures /\ up \subseteq Endpoints

\* Fail-over is complete and counts right: a query fails for want of workers only
\* when it has tried every one of them, no worker runs what was not sent to it or
\* runs it unauthorized, and a worker's load is the number of posts open to it.
DispatchSound ==
    /\ \A w \in Endpoints :
         inFlight[w] = Cardinality({q \in Requests : at[q] = "posting" /\ Target(q) = w})
    /\ \A q \in Requests :
         LET sent == {targets[q][i] : i \in 1..tried[q]} IN
         /\ at[q] = "failed" /\ targets[q] # <<>> => sent = Endpoints
         /\ Cardinality(sent) = tried[q]
         /\ \A w \in Endpoints : run[q][w] # "none" => w \in sent
         /\ \A w \in Endpoints \ Authorized : run[q][w] \in {"none", "refused", "lost"}

\* The readers a query was rewritten to read whole files, at the moment its
\* statement runs: unless another query has evicted one since, or copied it at
\* the same time.
LocalFilesWhole ==
    \A q \in Requests, w \in Endpoints :
        run[q][w] = "localizing" /\ todo[q][w] = {} =>
            \A o \in local[q][w] \ (pulled[q][w] \cup doubled[w]) : disk[w][o] = "whole"

\* Every query that was sent is answered or fails, whatever the workers do: in
\* the end none is left between two workers or waiting for one.
EveryQueryReturns ==
    <>[](\A q \in Requests : at[q] \notin {"ordered", "posting"})
===============================================================================
