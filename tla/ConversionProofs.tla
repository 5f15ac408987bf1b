--------------------------- MODULE ConversionProofs ----------------------------
(***************************************************************************)
(* Theorems about Conversion, and about the EnginePool and the ColumnStore *)
(* it is made of, for all sessions, connections, jobs and configurations.  *)
(***************************************************************************)
EXTENDS Conversion, FiniteSetTheorems, SequenceTheorems, TLAPS

-------------------------------------------------------------------------------
(* The configurations                                                       *)

SaverPlaces == {"idle", "deleting", "writing", "saved"}

OfProfile(p) == {n \in Listed : ProfileOf(store[n]) = p}

\* What a save under way knows of its profile: before it truncates, every
\* configuration of the profile is among those it deletes; then there is none.
\* Only a save of the same profile could add one.
SaveInv ==
    ~overlapped =>
        /\ \A u, v \in Savers :
             /\ saving[u] \in {"deleting", "writing"} /\ saving[v] \in {"deleting", "writing"}
             /\ ProfileOf(u) = ProfileOf(v)
             => u = v
        /\ \A v \in Savers : ProfileOf(v) # NoProfile =>
             /\ saving[v] = "deleting" => OfProfile(ProfileOf(v)) \subseteq doomed[v]
             /\ saving[v] = "writing" => OfProfile(ProfileOf(v)) = {}

ColumnInv == ColumnTypeOK /\ SaveInv /\ OneConfigPerProfile

ColumnNext ==
    \/ \E v \in Savers : BeginSave(v)
    \/ \E p \in Patterns : DeleteConfig(p)
    \/ SaveStep
    \/ UNCHANGED columnVars

LEMMA FilesOfPatterns == \A p \in Patterns : FileOf[p] \in ConfigFiles
BY DEF ConfigFiles

\* A step that lists no more files, nor changes what is in those that stay.
LEMMA LessListed ==
    ASSUME ColumnInv, ColumnTypeOK', overlapped' = overlapped,
           Listed' \subseteq Listed, \A n \in Listed' : store'[n] = store[n]
    PROVE  /\ OneConfigPerProfile'
           /\ \A p : OfProfile(p)' \subseteq OfProfile(p) \cap Listed'
BY DEF ColumnInv, OneConfigPerProfile, OfProfile

LEMMA ColumnStep ==
    ASSUME ColumnInv, ColumnNext
    PROVE  ColumnInv'
<1> USE ColumnAssumption, FilesOfPatterns DEF ColumnTypeOK, SaverPlaces, At, PatternOf
<1>1. ASSUME NEW v \in Savers, BeginSave(v)
      PROVE  ColumnInv'
  <2>1. /\ store' = store /\ Listed' = Listed
        /\ saving[v] = "idle" /\ saving' = [saving EXCEPT ![v] = "deleting"]
        /\ doomed' = [doomed EXCEPT ![v] = SameProfile(v)]
    BY <1>1 DEF BeginSave, Listed
  <2>2. SameProfile(v) \subseteq ConfigFiles
    BY DEF SameProfile, Listed
  <2>3. ColumnTypeOK'
    <3>1. overlapped' \in BOOLEAN
      BY <1>1 DEF BeginSave
    <3> QED BY <2>1, <2>2, <3>1 DEF ColumnInv
  <2>4. ~overlapped' => ~overlapped /\ \A u \in Savers :
            saving[u] \in {"deleting", "writing"} => ProfileOf(u) # ProfileOf(v)
    BY <1>1 DEF BeginSave
  <2>5. OneConfigPerProfile'
    BY <2>1, <2>4 DEF ColumnInv, OneConfigPerProfile
  <2>6. \A p : OfProfile(p)' = OfProfile(p)
    BY <2>1 DEF OfProfile
  <2>7. ProfileOf(v) # NoProfile => OfProfile(ProfileOf(v)) = doomed'[v]
    BY <2>1 DEF OfProfile, SameProfile, ColumnInv
  <2>8. SaveInv'
    BY <2>1, <2>4, <2>6, <2>7 DEF ColumnInv, SaveInv
  <2> QED BY <2>3, <2>5, <2>8 DEF ColumnInv
<1>2. ASSUME NEW p \in Patterns, DeleteConfig(p)
      PROVE  ColumnInv'
  <2>1. /\ store' = [store EXCEPT ![FileOf[p]] = "absent"]
        /\ UNCHANGED <<saving, doomed, overlapped>>
    BY <1>2 DEF DeleteConfig
  <2>2. ColumnTypeOK' /\ Listed' \subseteq Listed /\ \A n \in Listed' : store'[n] = store[n]
    BY <2>1 DEF Listed, ColumnInv
  <2> QED BY <2>1, <2>2, LessListed DEF ColumnInv, SaveInv
<1>3. ASSUME NEW v \in Savers, DeleteOld(v)
      PROVE  ColumnInv'
  <2>1. PICK n \in doomed[v] : /\ store' = [store EXCEPT ![n] = "absent"]
                               /\ doomed' = [doomed EXCEPT ![v] = @ \ {n}]
    BY <1>3 DEF DeleteOld
  <2>2. UNCHANGED <<saving, overlapped>>
    BY <1>3 DEF DeleteOld
  <2>3. ColumnTypeOK' /\ Listed' = Listed \ {n} /\ \A m \in Listed' : store'[m] = store[m]
    BY <2>1, <2>2 DEF Listed, ColumnInv
  <2> QED BY <2>1, <2>2, <2>3, LessListed DEF ColumnInv, SaveInv
<1>4. ASSUME NEW v \in Savers, Truncate(v)
      PROVE  ColumnInv'
  <2>1. /\ store' = [store EXCEPT ![FileOf[PatternOf(v)]] = "torn"]
        /\ saving[v] = "deleting" /\ saving' = [saving EXCEPT ![v] = "writing"]
        /\ doomed[v] = {} /\ UNCHANGED <<doomed, overlapped>>
    BY <1>4 DEF Truncate
  <2>2. ColumnTypeOK' /\ Listed' \subseteq Listed /\ \A n \in Listed' : store'[n] = store[n]
    BY <2>1 DEF Listed, ColumnInv
  <2> QED BY <2>1, <2>2, LessListed DEF ColumnInv, SaveInv
<1>5. ASSUME NEW v \in Savers, WriteConfig(v)
      PROVE  ColumnInv'
  <2> DEFINE f == FileOf[PatternOf(v)]
  <2>1. /\ store' = [store EXCEPT ![f] = v]
        /\ saving[v] = "writing" /\ saving' = [saving EXCEPT ![v] = "saved"]
        /\ UNCHANGED <<doomed, overlapped>>
    BY <1>5 DEF WriteConfig
  <2>2. ColumnTypeOK'
    BY <2>1 DEF ColumnInv
  <2>3. /\ Listed' = Listed \cup {f} /\ store'[f] = v
        /\ \A n \in Listed' : n # f => n \in Listed /\ store'[n] = store[n]
    BY <2>1 DEF Listed, ColumnInv
  <2>4. \A p : p # ProfileOf(v) => OfProfile(p)' \subseteq OfProfile(p)
    BY <2>3 DEF OfProfile
  <2>5. SaveInv'
    BY <2>1, <2>4 DEF ColumnInv, SaveInv
  <2>6. OneConfigPerProfile'
    <3> SUFFICES ASSUME ~overlapped, NEW m \in Listed', NEW n \in Listed', m # n,
                        ProfileOf(store'[m]) = ProfileOf(store'[n]),
                        ProfileOf(store'[m]) # NoProfile
                 PROVE  FALSE
      BY <2>1 DEF OneConfigPerProfile
    <3>1. m # f /\ n # f
      BY <2>1, <2>3 DEF ColumnInv, SaveInv, OfProfile
    <3> QED BY <2>3, <3>1 DEF ColumnInv, OneConfigPerProfile
  <2> QED BY <2>2, <2>5, <2>6 DEF ColumnInv
<1>6. CASE UNCHANGED columnVars
  BY <1>6 DEF columnVars, ColumnInv, SaveInv, OneConfigPerProfile, OfProfile, Listed
<1> QED BY <1>1, <1>2, <1>3, <1>4, <1>5, <1>6 DEF ColumnNext, SaveStep

LEMMA NextOnColumns == [Next]_vars => ColumnNext
BY DEF Next, vars, ColumnNext, Call, PoolStep, TaskStep, MatchConfig, CopyFile, StartJob, JobStep,
       TakeFile, EndJob, RecordResult, ForgetJob, BeginColumnRequest

LEMMA ColumnInvariance == Spec => []ColumnInv
<1>1. Init => ColumnInv
  <2> SUFFICES ASSUME ColumnInit PROVE ColumnInv
    BY DEF Init
  <2>1. ColumnTypeOK
    BY DEF ColumnInit, ColumnTypeOK
  <2>2. Listed = {}
    BY ColumnAssumption DEF ColumnInit, Listed
  <2> QED BY <2>1, <2>2 DEF ColumnInit, ColumnInv, SaveInv, OneConfigPerProfile
<1> QED BY <1>1, ColumnStep, NextOnColumns, PTL DEF Spec

\* Replacing the configurations of a profile under another pattern leaves one, also
\* beside deletions, saves of other profiles and patterns kept in one file.
THEOREM OneConfigKept == Spec => []OneConfigPerProfile
<1>1. ColumnInv => OneConfigPerProfile
  BY DEF ColumnInv
<1> QED BY <1>1, ColumnInvariance, PTL

-------------------------------------------------------------------------------
(* Queues                                                                   *)

\* What leaves the head of a queue without repetitions, and what is put at its end.
LEMMA Dequeued ==
    ASSUME NEW S, NEW q \in Seq(S), q # <<>>, IsInjective(q)
    PROVE  /\ Head(q) \in S /\ Head(q) \in Range(q)
           /\ Tail(q) \in Seq(S) /\ IsInjective(Tail(q))
           /\ Range(Tail(q)) = Range(q) \ {Head(q)}
<1>1. /\ Len(q) \in Nat \ {0} /\ DOMAIN q = 1..Len(q) /\ Head(q) = q[1]
      /\ Tail(q) \in Seq(S) /\ Len(Tail(q)) = Len(q) - 1 /\ DOMAIN Tail(q) = 1..(Len(q) - 1)
      /\ \A i \in 1..(Len(q) - 1) : Tail(q)[i] = q[i + 1]
  BY EmptySeq, LenProperties, HeadTailProperties
<1>2. IsInjective(Tail(q))
  BY <1>1 DEF IsInjective
<1>3. ASSUME NEW i \in 2..Len(q)
      PROVE  q[i] = Tail(q)[i - 1] /\ q[i] # q[1]
  BY <1>1 DEF IsInjective
<1>4. Range(Tail(q)) = Range(q) \ {Head(q)}
  <2>1. ASSUME NEW e \in Range(Tail(q))
        PROVE  e \in Range(q) \ {Head(q)}
    BY <1>1 DEF Range, IsInjective
  <2>2. ASSUME NEW e \in Range(q), e # Head(q)
        PROVE  e \in Range(Tail(q))
    <3>1. PICK i \in 1..Len(q) : e = q[i]
      BY <1>1 DEF Range
    <3>2. i \in 2..Len(q) /\ i - 1 \in 1..(Len(q) - 1)
      BY <1>1, <2>2, <3>1
    <3> QED BY <1>1, <1>3, <3>1, <3>2 DEF Range
  <2> QED BY <2>1, <2>2
<1>5. Head(q) \in S /\ Head(q) \in Range(q)
  BY <1>1, HeadTailProperties DEF Range
<1> QED BY <1>1, <1>2, <1>4, <1>5

LEMMA Enqueued ==
    ASSUME NEW S, NEW q \in Seq(S), IsInjective(q), NEW e \in S, e \notin Range(q)
    PROVE  /\ Append(q, e) \in Seq(S) /\ IsInjective(Append(q, e))
           /\ Range(Append(q, e)) = Range(q) \cup {e}
<1> DEFINE n == Len(q) + 1
<1>1. n \in Nat /\ DOMAIN q = 1..Len(q) /\ DOMAIN Append(q, e) = 1..n
  BY LenProperties
<1>2. \A i \in 1..n : Append(q, e)[i] = IF i = n THEN e ELSE q[i]
  BY LenProperties
<1>3. \A i \in 1..n : i # n => i \in 1..Len(q)
  BY LenProperties
<1> HIDE DEF n
<1>4. IsInjective(Append(q, e))
  BY <1>1, <1>2, <1>3 DEF IsInjective, Range
<1>5. \A x \in Range(Append(q, e)) : x \in Range(q) \cup {e}
  BY <1>1, <1>2, <1>3 DEF Range
<1>6. n \in 1..n /\ \A i \in 1..Len(q) : i \in 1..n /\ i # n
  BY <1>1, LenProperties DEF n
<1>7. \A x \in Range(q) \cup {e} : x \in Range(Append(q, e))
  BY <1>1, <1>2, <1>6 DEF Range
<1> QED BY <1>4, <1>5, <1>7

-------------------------------------------------------------------------------
(* The pool of connections                                                  *)

Holding == {"holding", "creating", "viewing", "executing", "dropping", "clearing", "returning"}

\* A connection is in the channel or with one session; the queue of the receivers
\* is who waits.
ChannelInv ==
    /\ free \in Seq(Connections) /\ IsInjective(free)
    /\ waiting \in Seq(Sessions) /\ IsInjective(waiting)
    /\ place \in [Sessions -> SessionPlaces]
    /\ conn \in [Sessions -> Connections \cup {"none"}]
    /\ Range(waiting) = {s \in Sessions : place[s] = "waiting"}
    /\ \A s \in Sessions : conn[s] # "none" <=> place[s] \in Holding
    /\ \A s, q \in Sessions : conn[s] = conn[q] /\ conn[s] # "none" => s = q
    /\ \A c \in Connections : c \in Range(free) <=> \A s \in Sessions : conn[s] # c

StatementTypes ==
    /\ outcome \in [Sessions -> {"none", "ok", "error"}]
    /\ secret \in [Connections -> Users \cup {"none"}]
    /\ schemas \in [Connections -> SUBSET Schemas]
    /\ views \in [Connections -> SUBSET Relations]
    /\ temp \in [Connections -> SUBSET Sessions]
    /\ faults \in 0..MaxFaults
    /\ unapplied \subseteq Sessions
    /\ spoiled \subseteq Connections

\* What a request has made of its connection by the time it executes.
Prepared(s) ==
    /\ place[s] \in {"creating", "viewing", "dropping"} => KindOf[s] = "view"
    /\ place[s] = "clearing" => KindOf[s] = "analyze"
    /\ place[s] \in {"creating", "viewing", "executing"} /\ KindOf[s] # "analyze"
         /\ s \notin unapplied => secret[conn[s]] = UserOf[s]
    /\ place[s] = "executing" /\ KindOf[s] = "view" =>
         \A t \in Bindings[s] : {v \in views[conn[s]] : v.table = t} = {Binding(t, s)}

\* What a request may have left on a connection it will give back: nothing of the
\* server's that one of the drops ahead of it does not drop.
Stray(v) == v.by \in Scripts /\ v.as # "binding"

OwnView(s, v) ==
    v.table \in Bindings[s] /\ KindOf[s] = "view" /\ place[s] \in {"executing", "dropping"}

OwnTemp(s) == KindOf[s] = "analyze" /\ place[s] \in {"executing", "clearing"}

Tidy(c) ==
    c \notin spoiled =>
        /\ \A v \in views[c] : Stray(v) \/ (v.by \in Sessions /\ conn[v.by] = c /\ OwnView(v.by, v))
        /\ \A s \in temp[c] : s \in Scripts \/ (s \in Sessions /\ conn[s] = c /\ OwnTemp(s))

PoolInv ==
    /\ ChannelInv
    /\ StatementTypes
    /\ \A s \in Sessions : Prepared(s)
    /\ \A c \in Connections : Tidy(c)

StatementStep(s) ==
    \/ ApplyCreds(s) \/ CreateSchemas(s) \/ CreateViews(s) \/ CreateTemp(s)
    \/ DropSchemas(s) \/ DropTemp(s) \/ \E o \in {"ok", "error"} : Execute(s, o)

PoolNext ==
    \/ \E s \in Sessions : Enter(s) \/ PutBack(s) \/ StatementStep(s)
    \/ UNCHANGED poolVars

\* Between the receive and the send a request keeps its connection and the channel.
LEMMA ChannelKept ==
    ASSUME ChannelInv, NEW s \in Sessions, place[s] \in Holding, NEW p \in Holding,
           Goto(s, p), KeepsChannel
    PROVE  ChannelInv'
BY DEF ChannelInv, Holding, SessionPlaces, Goto, KeepsChannel

\* Sending and receiving disturb no request that is at its statements.
LEMMA PreparedKept ==
    ASSUME NEW s, Prepared(s), UNCHANGED <<statementVars, unapplied>>,
           place'[s] \in {"new", "waiting", "holding", "over"}
             \/ (place'[s] = place[s] /\ conn'[s] = conn[s])
    PROVE  Prepared(s)'
BY DEF Prepared, statementVars

LEMMA TidyKept ==
    ASSUME NEW c, Tidy(c), UNCHANGED statementVars,
           \A s \in Sessions : place[s] \in {"executing", "dropping", "clearing"} =>
               place'[s] = place[s] /\ conn'[s] = conn[s]
    PROVE  Tidy(c)'
BY DEF Tidy, Stray, OwnView, OwnTemp, statementVars

LEMMA EnterStep ==
    ASSUME PoolInv, NEW s \in Sessions, Enter(s)
    PROVE  PoolInv'
<1> USE DEF PoolInv
<1>1. UNCHANGED <<outcome, statementVars, faults, unapplied>> /\ place[s] = "new"
  BY DEF Enter
<1>2. conn[s] = "none" /\ s \notin Range(waiting)
  BY <1>1 DEF ChannelInv, Holding
<1>3. CASE free # <<>>
  <2> DEFINE c == Head(free)
  <2>1. /\ conn' = [conn EXCEPT ![s] = c] /\ free' = Tail(free)
        /\ place' = [place EXCEPT ![s] = "holding"] /\ waiting' = waiting
    BY <1>3 DEF Enter, Goto
  <2>2. /\ c \in Connections /\ c \in Range(free)
        /\ Tail(free) \in Seq(Connections) /\ IsInjective(Tail(free))
        /\ Range(Tail(free)) = Range(free) \ {c}
    BY <1>3, Dequeued DEF ChannelInv
  <2> HIDE DEF c
  <2>3. c # "none" /\ \A q \in Sessions : conn[q] # c
    BY <2>2, PoolAssumption DEF ChannelInv
  <2>4. ChannelInv'
    <3>1. /\ place' \in [Sessions -> SessionPlaces]
          /\ conn' \in [Sessions -> Connections \cup {"none"}]
          /\ Range(waiting') = {q \in Sessions : place'[q] = "waiting"}
          /\ \A q \in Sessions : conn'[q] # "none" <=> place'[q] \in Holding
      BY <1>1, <2>1, <2>2, <2>3 DEF ChannelInv, SessionPlaces, Holding
    <3>2. /\ \A q, p \in Sessions : conn'[q] = conn'[p] /\ conn'[q] # "none" => q = p
          /\ \A d \in Connections : (\A q \in Sessions : conn'[q] # d) <=>
                                    (d # c /\ \A q \in Sessions : conn[q] # d)
      BY <1>2, <2>1, <2>3, PoolAssumption DEF ChannelInv
    <3> QED BY <2>1, <2>2, <3>1, <3>2 DEF ChannelInv
  <2>5. \A q \in Sessions : Prepared(q)'
    BY <1>1, <2>1, PreparedKept DEF ChannelInv
  <2>6. \A d \in Connections : Tidy(d)'
    BY <1>1, <2>1, TidyKept DEF ChannelInv
  <2> QED BY <1>1, <2>4, <2>5, <2>6 DEF StatementTypes, statementVars
<1>4. CASE free = <<>>
  <2>1. /\ waiting' = Append(waiting, s) /\ place' = [place EXCEPT ![s] = "waiting"]
        /\ UNCHANGED <<free, conn>>
    BY <1>4 DEF Enter, Goto
  <2>2. /\ waiting' \in Seq(Sessions) /\ IsInjective(waiting')
        /\ Range(waiting') = Range(waiting) \cup {s}
    BY <1>2, <2>1, Enqueued DEF ChannelInv
  <2>3. ChannelInv'
    BY <1>1, <1>2, <2>1, <2>2 DEF ChannelInv, SessionPlaces, Holding
  <2>4. \A q \in Sessions : Prepared(q)'
    BY <1>1, <2>1, PreparedKept DEF ChannelInv
  <2>5. \A d \in Connections : Tidy(d)'
    BY <1>1, <2>1, TidyKept DEF ChannelInv
  <2> QED BY <1>1, <2>3, <2>4, <2>5 DEF StatementTypes, statementVars
<1> QED BY <1>3, <1>4

LEMMA PutBackStep ==
    ASSUME PoolInv, NEW s \in Sessions, PutBack(s)
    PROVE  PoolInv'
<1> USE DEF PoolInv
<1> DEFINE c == conn[s]
<1>1. UNCHANGED <<outcome, statementVars, faults, unapplied>> /\ place[s] = "returning"
  BY DEF PutBack
<1>2. c \in Connections /\ c # "none" /\ \A q \in Sessions : conn[q] = c => q = s
  BY <1>1 DEF ChannelInv, Holding
<1>3. CASE waiting = <<>>
  <2>1. /\ free' = Append(free, c) /\ conn' = [conn EXCEPT ![s] = "none"]
        /\ place' = [place EXCEPT ![s] = "over"] /\ waiting' = waiting
    BY <1>3 DEF PutBack, Goto
  <2>2. c \notin Range(free)
    BY <1>2 DEF ChannelInv
  <2>3. /\ free' \in Seq(Connections) /\ IsInjective(free')
        /\ Range(free') = Range(free) \cup {c}
    BY <1>2, <2>1, <2>2, Enqueued DEF ChannelInv
  <2>4. ChannelInv'
    <3>1. /\ place' \in [Sessions -> SessionPlaces]
          /\ conn' \in [Sessions -> Connections \cup {"none"}]
          /\ Range(waiting') = {q \in Sessions : place'[q] = "waiting"}
          /\ \A q \in Sessions : conn'[q] # "none" <=> place'[q] \in Holding
      BY <1>1, <2>1 DEF ChannelInv, SessionPlaces, Holding
    <3>2. /\ \A q, p \in Sessions : conn'[q] = conn'[p] /\ conn'[q] # "none" => q = p
          /\ \A d \in Connections : (\A q \in Sessions : conn'[q] # d) <=>
                                    (d = c \/ \A q \in Sessions : conn[q] # d)
      BY <1>2, <2>1, PoolAssumption DEF ChannelInv
    <3> QED BY <2>1, <2>3, <3>1, <3>2 DEF ChannelInv
  <2>5. \A q \in Sessions : Prepared(q)'
    BY <1>1, <2>1, PreparedKept DEF ChannelInv
  <2>6. \A d \in Connections : Tidy(d)'
    BY <1>1, <2>1, TidyKept DEF ChannelInv
  <2> QED BY <1>1, <2>4, <2>5, <2>6 DEF StatementTypes, statementVars
<1>4. CASE waiting # <<>>
  <2> DEFINE next == Head(waiting)
  <2>1. /\ conn' = [conn EXCEPT ![s] = "none", ![next] = c]
        /\ place' = [place EXCEPT ![s] = "over", ![next] = "holding"]
        /\ waiting' = Tail(waiting) /\ free' = free
    BY <1>4 DEF PutBack
  <2>2. /\ next \in Sessions /\ next \in Range(waiting)
        /\ Tail(waiting) \in Seq(Sessions) /\ IsInjective(Tail(waiting))
        /\ Range(Tail(waiting)) = Range(waiting) \ {next}
    BY <1>4, Dequeued DEF ChannelInv
  <2> HIDE DEF next, c
  <2>3. place[next] = "waiting" /\ next # s
    BY <1>1, <2>2 DEF ChannelInv
  <2>4. /\ conn'[s] = "none" /\ conn'[next] = c
        /\ \A q \in Sessions : q \notin {s, next} => conn'[q] = conn[q]
        /\ place'[s] = "over" /\ place'[next] = "holding"
        /\ \A q \in Sessions : q \notin {s, next} => place'[q] = place[q]
    BY <2>1, <2>2, <2>3 DEF ChannelInv
  <2>5. ChannelInv'
    <3>1. /\ place' \in [Sessions -> SessionPlaces]
          /\ conn' \in [Sessions -> Connections \cup {"none"}]
      BY <1>2, <2>1, <2>4 DEF ChannelInv, SessionPlaces
    <3>2. \A q \in Sessions : conn'[q] # "none" <=> place'[q] \in Holding
      BY <1>2, <2>4 DEF ChannelInv, Holding
    <3>3. Range(waiting') = {q \in Sessions : place'[q] = "waiting"}
      BY <1>1, <2>1, <2>2, <2>4 DEF ChannelInv
    <3>4. \A q, p \in Sessions : conn'[q] = conn'[p] /\ conn'[q] # "none" => q = p
      BY <1>2, <2>4 DEF ChannelInv
    <3>5. \A d \in Connections : (\A q \in Sessions : conn'[q] # d) <=>
                                 (\A q \in Sessions : conn[q] # d)
      <4>1. conn[next] = "none" /\ conn[s] = c /\ c # "none"
        BY <1>2, <2>2, <2>3 DEF ChannelInv, Holding, c
      <4> QED BY <2>2, <2>4, <4>1, PoolAssumption
    <3> QED BY <2>1, <2>2, <3>1, <3>2, <3>3, <3>4, <3>5 DEF ChannelInv
  <2>6. \A q \in Sessions : Prepared(q)'
    BY <1>1, <2>4, PreparedKept
  <2>7. \A d \in Connections : Tidy(d)'
    BY <1>1, <2>3, <2>4, TidyKept
  <2> QED BY <1>1, <2>5, <2>6, <2>7 DEF StatementTypes, statementVars
<1> QED BY <1>3, <1>4

\* What the statements of a request may change, and of which connection.
LEMMA StatementFrame ==
    ASSUME PoolInv, NEW s \in Sessions, StatementStep(s)
    PROVE  /\ place[s] \in Holding /\ KeepsChannel
           /\ \E p \in Holding : Goto(s, p)
           /\ \A q : q # s => (q \in unapplied' <=> q \in unapplied)
           /\ \A c \in Connections : c # conn[s] =>
                /\ secret'[c] = secret[c] /\ views'[c] = views[c] /\ temp'[c] = temp[c]
                /\ c \in spoiled' <=> c \in spoiled
<1> USE DEF Holding, KeepsChannel, PoolInv, StatementTypes, statementVars, Abort
<1>1. CASE ApplyCreds(s)
  BY <1>1 DEF ApplyCreds, AfterCreds, CredsFailed
<1>2. CASE CreateSchemas(s)
  BY <1>2 DEF CreateSchemas
<1>3. CASE CreateViews(s)
  BY <1>3 DEF CreateViews, PutViews
<1>4. CASE DropSchemas(s)
  BY <1>4 DEF DropSchemas
<1>5. CASE CreateTemp(s) \/ DropTemp(s)
  BY <1>5 DEF CreateTemp, DropTemp
<1>6. CASE \E o \in {"ok", "error"} : Execute(s, o)
  BY <1>6 DEF Execute, AfterStatement, LeaveBehind
<1> QED BY <1>1, <1>2, <1>3, <1>4, <1>5, <1>6 DEF StatementStep

LEMMA StatementOthers ==
    ASSUME PoolInv, NEW s \in Sessions, StatementStep(s)
    PROVE  /\ ChannelInv'
           /\ \A q \in Sessions : q # s => Prepared(q)'
           /\ \A c \in Connections : c # conn[s] => Tidy(c)'
<1> USE StatementFrame DEF PoolInv
<1>1. ChannelInv'
  BY ChannelKept
<1>2. conn' = conn /\ \A q \in Sessions : q # s => place'[q] = place[q]
  BY DEF KeepsChannel, Goto, ChannelInv
<1>3. ASSUME NEW q \in Sessions, q # s
      PROVE  Prepared(q)'
  <2>1. CASE place[q] \in Holding
    <3>1. conn[q] \in Connections /\ conn[q] # conn[s]
      BY <1>3, <2>1 DEF ChannelInv
    <3> QED BY <1>2, <1>3, <3>1 DEF Prepared
  <2>2. CASE place[q] \notin Holding
    BY <1>2, <1>3, <2>2 DEF Prepared, Holding
  <2> QED BY <2>1, <2>2
<1>4. ASSUME NEW c \in Connections, c # conn[s]
      PROVE  Tidy(c)'
  <2>1. views'[c] = views[c] /\ temp'[c] = temp[c] /\ (c \in spoiled' <=> c \in spoiled)
    BY <1>4
  <2>2. \A q \in Sessions : conn[q] = c => q # s
    BY <1>4
  <2> QED BY <1>2, <2>1, <2>2 DEF Tidy, Stray, OwnView, OwnTemp
<1> QED BY <1>1, <1>3, <1>4

\* Of what a client's SQL does to a connection, what the server's own objects see: some
\* of what is there goes, and what comes is a relation of the client's.
LeavesOf(s, made) ==
    /\ \A v \in made : v.by = s /\ v.as # "binding"
    /\ \E stay \in SUBSET views[conn[s]] : views' = [views EXCEPT ![conn[s]] = stay \cup made]
    /\ schemas' = [schemas EXCEPT ![conn[s]] = @ \cup {SchemaOf[v.table] : v \in made}]
    /\ secret' = [secret EXCEPT ![conn[s]] = "none"]
    /\ temp' = [temp EXCEPT ![conn[s]] = {s}] \/ UNCHANGED temp
    /\ UNCHANGED spoiled

LEMMA Left ==
    ASSUME NEW s \in Sessions, LeaveBehind(s), views \in [Connections -> SUBSET Relations], conn[s] \in Connections
    PROVE  \E made \in SUBSET Relations : LeavesOf(s, made)
<1>1. PICK fate \in [Strays -> {"kept", "dropped", "view", "table"}] :
        LET made == {[table |-> t, by |-> s, as |-> fate[t]] : t \in {t \in Strays : fate[t] \in {"view", "table"}}} IN
        /\ views' = [views EXCEPT ![conn[s]] =
                        {v \in @ : v.table \in Strays => fate[v.table] = "kept"} \cup made]
        /\ schemas' = [schemas EXCEPT ![conn[s]] = @ \cup {SchemaOf[v.table] : v \in made}]
  BY DEF LeaveBehind
<1> DEFINE made == {[table |-> t, by |-> s, as |-> fate[t]] : t \in {t \in Strays : fate[t] \in {"view", "table"}}}
           stay == {v \in views[conn[s]] : v.table \in Strays => fate[v.table] = "kept"}
<1>2. made \subseteq Relations /\ \A v \in made : v.by = s /\ v.as # "binding"
  BY PoolAssumption DEF PoolAssumption, Relations
<1>3. /\ stay \in SUBSET views[conn[s]] /\ views' = [views EXCEPT ![conn[s]] = stay \cup made]
      /\ schemas' = [schemas EXCEPT ![conn[s]] = @ \cup {SchemaOf[v.table] : v \in made}]
  BY <1>1
<1> HIDE DEF made, stay
<1>4. LeavesOf(s, made)
  BY <1>2, <1>3 DEF LeavesOf, LeaveBehind
<1> QED
  BY <1>2, <1>4

LEMMA StatementTypeStep ==
    ASSUME PoolInv, NEW s \in Sessions, StatementStep(s)
    PROVE  StatementTypes'
<1> USE PoolAssumption DEF PoolInv, StatementTypes, statementVars, Abort, Returns, Fault, Faultless
<1>1. conn[s] \in Connections
  BY StatementFrame DEF ChannelInv, Holding
<1>2. CASE ApplyCreds(s)
  BY <1>2 DEF ApplyCreds, AfterCreds, CredsFailed
<1>3. CASE CreateSchemas(s)
  BY <1>3, <1>1 DEF CreateSchemas, SchemasOf, Schemas
<1>4. CASE CreateViews(s)
  <2>1. PICK made \in SUBSET (Bindings[s] \ TablesInTheWay(s)) : PutViews(s, made)
    BY <1>4 DEF CreateViews
  <2>2. made \subseteq Tables
    OBVIOUS
  <2>3. {v \in views[conn[s]] : v.table \notin made} \cup {Binding(t, s) : t \in made} \subseteq Relations
    BY <1>1, <2>2 DEF Relations, Binding
  <2>4. views' \in [Connections -> SUBSET Relations]
    BY <2>1, <2>3 DEF PutViews
  <2> QED BY <1>4, <2>4 DEF CreateViews
<1>5. CASE DropSchemas(s)
  BY <1>5, <1>1 DEF DropSchemas
<1>6. CASE CreateTemp(s)
  BY <1>6, <1>1 DEF CreateTemp
<1>7. CASE DropTemp(s)
  BY <1>7, <1>1 DEF DropTemp
<1>8. CASE \E o \in {"ok", "error"} : Execute(s, o)
  <2>1. UNCHANGED <<faults, unapplied, spoiled>> /\ outcome' \in [Sessions -> {"none", "ok", "error"}]
    BY <1>8 DEF Execute, LeaveBehind
  <2>2. CASE s \notin Scripts
    BY <1>8, <2>1, <2>2 DEF Execute
  <2>3. CASE LeaveBehind(s)
    <3>1. PICK made \in SUBSET Relations : LeavesOf(s, made)
      BY <1>1, <2>3, Left
    <3>2. {SchemaOf[v.table] : v \in made} \subseteq Schemas
      BY DEF Relations, Schemas
    <3> QED BY <1>1, <2>1, <3>1, <3>2 DEF LeavesOf
  <2> QED BY <1>8, <2>2, <2>3 DEF Execute
<1> QED BY <1>2, <1>3, <1>4, <1>5, <1>6, <1>7, <1>8 DEF StatementStep

\* Tidy, of a connection that nobody but s holds.
Neat(s, c) ==
    c \notin spoiled =>
        /\ \A v \in views[c] : Stray(v) \/ (v.by = s /\ OwnView(s, v))
        /\ \A q \in temp[c] : q \in Scripts \/ (q = s /\ OwnTemp(s))

LEMMA StatementSelf ==
    ASSUME PoolInv, NEW s \in Sessions, StatementStep(s)
    PROVE  Prepared(s)' /\ Tidy(conn[s])'
<1> USE DEF PoolInv, Prepared, Abort, Goto, KeepsChannel
<1>0. PICK c : c = conn[s]
  OBVIOUS
<1>1. /\ c \in Connections /\ conn' = conn /\ place \in [Sessions -> SessionPlaces]
      /\ \A q \in Sessions : conn[q] = c => q = s
  BY <1>0, StatementFrame DEF ChannelInv, Holding
<1>2. /\ secret \in [Connections -> Users \cup {"none"}]
      /\ views \in [Connections -> SUBSET Relations]
      /\ temp \in [Connections -> SUBSET Sessions]
      /\ DOMAIN schemas = Connections
  BY DEF StatementTypes
<1>3. Neat(s, c)
  BY <1>1, <1>2 DEF Tidy, Neat
<1> SUFFICES Prepared(s)' /\ Neat(s, c)'
  <2>1. Neat(s, c)' => Tidy(c)'
    BY <1>0, <1>1 DEF Tidy, Neat, OwnView, OwnTemp
  <2> QED BY <1>0, <1>1, <2>1 DEF Tidy
<1>4. CASE ApplyCreds(s)
  <2>1. place[s] = "holding" /\ KindOf[s] # "analyze" /\ UNCHANGED <<views, temp, spoiled>>
    BY <1>4 DEF ApplyCreds
  <2>2. Neat(s, c)'
    BY <1>3, <2>1 DEF Neat, OwnView, OwnTemp
  <2>3. \/ /\ secret' = [secret EXCEPT ![c] = UserOf[s]]
           /\ place' = [place EXCEPT ![s] =
                           IF KindOf[s] = "view" THEN "creating" ELSE "executing"]
        \/ /\ s \in unapplied' /\ KindOf[s] = "infer"
           /\ place' = [place EXCEPT ![s] = "executing"]
        \/ place' = [place EXCEPT ![s] = "returning"]
    BY <1>0, <1>4 DEF ApplyCreds, AfterCreds, CredsFailed
  <2>4. Prepared(s)'
    BY <1>0, <1>1, <1>2, <2>1, <2>3
  <2> QED BY <2>2, <2>4
<1>5. CASE CreateSchemas(s)
  <2>1. /\ place[s] = "creating" /\ UNCHANGED <<secret, views, temp, spoiled, unapplied>>
        /\ \E p \in {"viewing", "returning"} : place' = [place EXCEPT ![s] = p]
    BY <1>5 DEF CreateSchemas
  <2>2. Neat(s, c)'
    BY <1>3, <2>1 DEF Neat, OwnView, OwnTemp
  <2> QED BY <1>1, <2>1, <2>2
<1>6. CASE CreateViews(s)
  <2>1. PICK made \in SUBSET Bindings[s] :
            /\ PutViews(s, made)
            /\ \/ made = Bindings[s] /\ place' = [place EXCEPT ![s] = "executing"]
               \/ place' = [place EXCEPT ![s] = "dropping"]
    BY <1>6 DEF CreateViews
  <2>2. place[s] = "viewing" /\ KindOf[s] = "view" /\ UNCHANGED <<secret, temp, spoiled, unapplied>>
    BY <1>6 DEF CreateViews
  <2>3. views'[c] = {v \in views[c] : v.table \notin made} \cup {Binding(t, s) : t \in made}
    BY <1>0, <1>1, <1>2, <2>1 DEF PutViews
  <2>4. Neat(s, c)'
    <3>1. place'[s] \in {"executing", "dropping"}
      BY <1>1, <2>1
    <3>2. \A v \in {Binding(t, s) : t \in made} : v.by = s /\ v.table \in Bindings[s]
      BY DEF Binding
    <3> QED BY <1>3, <2>2, <2>3, <3>1, <3>2 DEF Neat, OwnView, OwnTemp
  <2>5. made = Bindings[s] => \A t \in Bindings[s] :
            {v \in views'[c] : v.table = t} = {Binding(t, s)}
    BY <2>3 DEF Binding
  <2> QED BY <1>0, <1>1, <2>1, <2>2, <2>4, <2>5
<1>7. CASE DropSchemas(s)
  <2>1. PICK gone \in SUBSET SchemasOf(s) :
            /\ views' = [views EXCEPT ![c] = {v \in @ : SchemaOf[v.table] \notin gone}]
            /\ gone = SchemasOf(s) \/ c \in spoiled'
    BY <1>0, <1>7 DEF DropSchemas
  <2>2. /\ place[s] = "dropping" /\ place' = [place EXCEPT ![s] = "returning"] /\ KindOf[s] = "view"
        /\ temp' = temp /\ (c \in spoiled => c \in spoiled')
    BY <1>7 DEF DropSchemas
  <2>3. c \notin spoiled' => \A v \in views'[c] : Stray(v)
    BY <1>1, <1>2, <1>3, <2>1, <2>2 DEF SchemasOf, Neat, OwnView
  <2>4. Neat(s, c)'
    BY <1>3, <2>2, <2>3 DEF Neat, OwnTemp
  <2> QED BY <1>1, <2>2, <2>4
<1>8. CASE CreateTemp(s)
  <2>1. place[s] = "holding" /\ KindOf[s] = "analyze" /\ UNCHANGED <<views, spoiled>>
    BY <1>8 DEF CreateTemp
  <2>2. \/ temp' = [temp EXCEPT ![c] = {s}] /\ place' = [place EXCEPT ![s] = "executing"]
        \/ temp' = temp /\ place' = [place EXCEPT ![s] = "returning"]
    BY <1>0, <1>8 DEF CreateTemp
  <2>3. Neat(s, c)'
    BY <1>1, <1>2, <1>3, <2>1, <2>2 DEF Neat, OwnView, OwnTemp
  <2> QED BY <1>1, <2>1, <2>2, <2>3
<1>9. CASE DropTemp(s)
  <2>1. /\ place[s] = "clearing" /\ place' = [place EXCEPT ![s] = "returning"]
        /\ views' = views /\ (c \in spoiled => c \in spoiled')
        /\ temp' = [temp EXCEPT ![c] = {}] \/ c \in spoiled'
    BY <1>0, <1>9 DEF DropTemp
  <2>2. Neat(s, c)'
    BY <1>2, <1>3, <1>1, <2>1 DEF Neat, OwnView, OwnTemp
  <2> QED BY <1>1, <2>1, <2>2
<1>10. CASE \E o \in {"ok", "error"} : Execute(s, o)
  <2>1. /\ place[s] = "executing" /\ spoiled' = spoiled
        /\ place' = [place EXCEPT ![s] = CASE KindOf[s] = "view" -> "dropping"
                                           [] KindOf[s] = "analyze" -> "clearing"
                                           [] OTHER -> "returning"]
    BY <1>10 DEF Execute, AfterStatement, statementVars, LeaveBehind
  <2>2. \/ KindOf[s] = "view" /\ place'[s] = "dropping"
        \/ KindOf[s] = "analyze" /\ place'[s] = "clearing"
        \/ KindOf[s] \notin {"view", "analyze"} /\ place'[s] = "returning"
    BY <1>1, <2>1
  <2>3. CASE s \notin Scripts
    <3>1. UNCHANGED <<views, temp>>
      BY <1>10, <2>3 DEF Execute, statementVars
    <3> QED BY <1>3, <2>1, <2>2, <3>1 DEF Neat, OwnView, OwnTemp
  <2>4. CASE s \in Scripts
    <3>1. PICK made \in SUBSET Relations : LeavesOf(s, made)
      BY <1>0, <1>1, <1>2, <1>10, <2>4, Left DEF Execute
    <3>2. \A v \in views'[c] : v \in views[c] \/ Stray(v)
      BY <1>0, <1>1, <1>2, <2>4, <3>1 DEF LeavesOf, Stray
    <3>3. \A q \in temp'[c] : q \in temp[c] \/ q \in Scripts
      BY <1>0, <1>1, <1>2, <2>4, <3>1 DEF LeavesOf
    <3> QED BY <1>3, <2>1, <2>2, <3>2, <3>3 DEF Neat, OwnView, OwnTemp
  <2> QED BY <2>3, <2>4
<1> QED BY <1>4, <1>5, <1>6, <1>7, <1>8, <1>9, <1>10 DEF StatementStep

LEMMA PoolStepKept ==
    ASSUME PoolInv, PoolNext
    PROVE  PoolInv'
<1>1. ASSUME NEW s \in Sessions, Enter(s) \/ PutBack(s)
      PROVE  PoolInv'
  BY <1>1, EnterStep, PutBackStep
<1>2. ASSUME NEW s \in Sessions, StatementStep(s)
      PROVE  PoolInv'
  <2>1. ChannelInv' /\ StatementTypes'
    BY <1>2, StatementOthers, StatementTypeStep
  <2>2. \A q \in Sessions : Prepared(q)'
    BY <1>2, StatementOthers, StatementSelf
  <2>3. \A c \in Connections : Tidy(c)'
    <3>1. Tidy(conn[s])' /\ conn' = conn
      BY <1>2, StatementSelf, StatementFrame DEF KeepsChannel
    <3>2. \A c \in Connections : c = conn[s] => (Tidy(c)' <=> Tidy(conn[s])')
      BY <3>1 DEF Tidy
    <3> QED BY <1>2, <3>1, <3>2, StatementOthers
  <2> QED BY <2>1, <2>2, <2>3 DEF PoolInv
<1>3. CASE UNCHANGED poolVars
  BY <1>3 DEF poolVars, statementVars, PoolInv, ChannelInv, StatementTypes, Prepared,
                      Tidy, Stray, OwnView, OwnTemp
<1> QED BY <1>1, <1>2, <1>3 DEF PoolNext

-------------------------------------------------------------------------------
(* The jobs                                                                 *)

JobTypes ==
    /\ jobStatus \in [ConvJobs -> {"none", "running", "done", "error"}]
    /\ taken \in [ConvJobs -> Nat] /\ \A j \in ConvJobs : taken[j] <= Len(TasksOf[j])
    /\ completed \in [ConvJobs -> Nat]
    /\ result \in [AllTasks -> {"pending", "running", "done", "error"}]
    /\ jobsKept \subseteq ConvJobs
    /\ originals \subseteq Files
    /\ parquets \subseteq Files
    /\ readBy \in [AllTasks -> Savers \cup {"format", "none"}]

\* The tasks beyond the last one taken are pending, and only they; Completed counts;
\* the workers are done before the status of the job says so.
JobOK(j) ==
    /\ \A i \in 1..Len(TasksOf[j]) : result[TasksOf[j][i]] = "pending" <=> i > taken[j]
    /\ completed[j] = Cardinality(With(j, "done"))
    /\ jobStatus[j] \in {"done", "error"} =>
         WorkersDone(j) /\ (jobStatus[j] = "error" <=> With(j, "error") # {})

JobInv == \A j \in ConvJobs : JobOK(j)

\* Only a COPY that worked makes the outcome of a conversion "ok".
ObjectInv ==
    /\ \A t \in AllTasks : outcome[t] = "ok" \/ result[t] = "done" => FileIn[t] \in parquets
    /\ Files \ originals \subseteq parquets

LEMMA TasksOfJob ==
    ASSUME NEW j \in ConvJobs
    PROVE  /\ Len(TasksOf[j]) \in Nat
           /\ \A i \in 1..Len(TasksOf[j]) : TasksOf[j][i] \in Tasks(j)
           /\ \A t \in Tasks(j) : \E i \in 1..Len(TasksOf[j]) : t = TasksOf[j][i]
           /\ \A i, k \in 1..Len(TasksOf[j]) : TasksOf[j][i] = TasksOf[j][k] => i = k
           /\ Tasks(j) \subseteq AllTasks
<1>1. TasksOf[j] \in Seq(Sessions) /\ IsInjective(TasksOf[j])
  BY ConversionAssumption
<1>2. Len(TasksOf[j]) \in Nat /\ DOMAIN TasksOf[j] = 1..Len(TasksOf[j])
  BY <1>1, LenProperties
<1> QED BY <1>1, <1>2 DEF Tasks, AllTasks, Range, IsInjective

\* As many results as tasks were taken, at most.
LEMMA DoneAmongTaken ==
    ASSUME JobTypes, NEW j \in ConvJobs,
           \A i \in 1..Len(TasksOf[j]) : result[TasksOf[j][i]] = "pending" <=> i > taken[j]
    PROVE  IsFiniteSet(With(j, "done")) /\ Cardinality(With(j, "done")) <= taken[j]
<1> DEFINE n == taken[j]
           f == [i \in 1..n |-> TasksOf[j][i]]
           T == {TasksOf[j][i] : i \in 1..n}
<1>1. n \in Nat /\ 1..n \subseteq 1..Len(TasksOf[j])
  BY TasksOfJob DEF JobTypes
<1>2. IsFiniteSet(1..n) /\ Cardinality(1..n) = n
  <2>1. 1 \in Int /\ n \in Int
    BY <1>1
  <2> HIDE DEF n
  <2> QED BY <1>1, <2>1, FS_Interval
<1>3. f \in Surjection(1..n, T)
  BY DEF Surjection
<1>4. IsFiniteSet(T) /\ Cardinality(T) <= n /\ Cardinality(T) \in Nat
  BY <1>2, <1>3, FS_Surjection, FS_CardinalityType
<1>5. With(j, "done") \subseteq T
  <2> SUFFICES ASSUME NEW t \in With(j, "done") PROVE t \in T
    OBVIOUS
  <2>1. PICK i \in 1..Len(TasksOf[j]) : t = TasksOf[j][i]
    BY TasksOfJob DEF With
  <2>2. i \in 1..n
    BY <2>1, <1>1 DEF With, JobTypes
  <2> QED BY <2>1, <2>2
<1>6. /\ IsFiniteSet(With(j, "done")) /\ Cardinality(With(j, "done")) <= Cardinality(T)
      /\ Cardinality(With(j, "done")) \in Nat
  BY <1>4, <1>5, FS_Subset, FS_CardinalityType
<1> QED BY <1>1, <1>4, <1>6

LEMMA JobTypeStep ==
    ASSUME JobTypes, [Next]_vars
    PROVE  JobTypes'
<1> USE DEF JobTypes, jobVars, objectVars, SetResult
<1>1. ASSUME NEW s \in Sessions, Call(s) \/ PoolStep(s)
      PROVE  JobTypes'
  BY <1>1 DEF Call, PoolStep
<1>2. ASSUME NEW t \in AllTasks, TaskStep(t)
      PROVE  JobTypes'
  <2>1. CASE MatchConfig(t)
    BY <1>2, <2>1 DEF MatchConfig, Match, Candidates
  <2>2. CASE CopyFile(t)
    BY <1>2, <2>2, ConversionAssumption DEF CopyFile
  <2> QED BY <1>2, <2>1, <2>2 DEF TaskStep
<1>3. ASSUME NEW j \in ConvJobs, StartJob(j) \/ EndJob(j) \/ ForgetJob(j)
      PROVE  JobTypes'
  BY <1>3 DEF StartJob, EndJob, ForgetJob
<1>4. ASSUME NEW j \in ConvJobs, TakeFile(j)
      PROVE  JobTypes'
  <2>1. taken' = [taken EXCEPT ![j] = taken[j] + 1] /\ taken[j] + 1 <= Len(TasksOf[j])
    BY <1>4, TasksOfJob DEF TakeFile
  <2>2. result' \in [AllTasks -> {"pending", "running", "done", "error"}]
    BY <1>4 DEF TakeFile
  <2> QED BY <1>4, <2>1, <2>2 DEF TakeFile
<1>5. ASSUME NEW j \in ConvJobs, NEW t \in Tasks(j), RecordResult(j, t)
      PROVE  JobTypes'
  <2>1. /\ completed' \in [ConvJobs -> Nat] /\ originals' \subseteq Files
        /\ result' = [result EXCEPT ![t] = IF outcome[t] = "ok" THEN "done" ELSE "error"]
    BY <1>5 DEF RecordResult, CountDone, DeleteOriginal
  <2>2. result' \in [AllTasks -> {"pending", "running", "done", "error"}]
    BY <2>1
  <2> QED BY <1>5, <2>1, <2>2 DEF RecordResult
<1>6. CASE UNCHANGED <<jobVars, objectVars>>
  BY <1>6
<1> QED BY <1>1, <1>2, <1>3, <1>4, <1>5, <1>6 DEF Next, vars, JobStep, BeginColumnRequest

LEMMA NextOnPool ==
    ASSUME JobTypes, [Next]_vars
    PROVE  PoolNext
<1>1. ASSUME NEW s \in Sessions, Call(s) \/ PoolStep(s)
      PROVE  PoolNext
  BY <1>1 DEF Call, PoolStep, RunStatement, SessionStep, PoolNext, StatementStep
<1>2. ASSUME NEW t \in AllTasks, TaskStep(t)
      PROVE  PoolNext
  BY <1>2, ConversionAssumption DEF TaskStep, MatchConfig, CopyFile, PoolNext, StatementStep
<1>3. ASSUME NEW j \in ConvJobs, TakeFile(j)
      PROVE  PoolNext
  <2>1. Enter(TasksOf[j][taken[j] + 1]) /\ taken[j] + 1 \in 1..Len(TasksOf[j])
    BY <1>3, TasksOfJob DEF TakeFile, JobTypes
  <2> QED BY <2>1, TasksOfJob, ConversionAssumption DEF PoolNext
<1>4. ASSUME NEW j \in ConvJobs, StartJob(j) \/ EndJob(j) \/ ForgetJob(j)
      PROVE  PoolNext
  BY <1>4 DEF StartJob, EndJob, ForgetJob, PoolNext
<1>5. ASSUME NEW j \in ConvJobs, NEW t \in Tasks(j), RecordResult(j, t)
      PROVE  PoolNext
  BY <1>5 DEF RecordResult, PoolNext
<1> QED BY <1>1, <1>2, <1>3, <1>4, <1>5 DEF Next, vars, JobStep, BeginColumnRequest, PoolNext

\* A step that leaves the results of the tasks of a job leaves the job consistent.
LEMMA JobKept ==
    ASSUME NEW j \in ConvJobs, JobOK(j), \A t \in Tasks(j) : result'[t] = result[t],
           taken'[j] = taken[j], completed'[j] = completed[j], jobStatus'[j] = jobStatus[j]
    PROVE  JobOK(j)'
<1>1. \A r : With(j, r)' = With(j, r)
  BY DEF With, Tasks
<1> QED BY <1>1, TasksOfJob DEF JobOK, WorkersDone

LEMMA TakeKept ==
    ASSUME JobTypes, JobInv, NEW j \in ConvJobs, TakeFile(j)
    PROVE  JobInv'
<1> DEFINE k == taken[j] + 1
           t == TasksOf[j][k]
<1>1. /\ k \in 1..Len(TasksOf[j]) /\ t \in Tasks(j) /\ taken[j] \in Nat
      /\ taken' = [taken EXCEPT ![j] = k] /\ result' = [result EXCEPT ![t] = "running"]
      /\ UNCHANGED <<completed, jobStatus>> /\ jobStatus[j] = "running"
  BY TasksOfJob DEF TakeFile, SetResult, JobTypes
<1>2. result[t] = "pending"
  BY <1>1, TasksOfJob DEF JobInv, JobOK
<1> HIDE DEF t
<1>3. /\ \A i \in 1..Len(TasksOf[j]) : i # k => TasksOf[j][i] # t
      /\ t \in AllTasks /\ t = TasksOf[j][k]
  BY <1>1, TasksOfJob DEF t
<1>4. JobOK(j)'
  <2>1. \A i \in 1..Len(TasksOf[j]) : result'[TasksOf[j][i]] = "pending" <=> i > taken'[j]
    <3> SUFFICES ASSUME NEW i \in 1..Len(TasksOf[j])
                 PROVE  result'[TasksOf[j][i]] = "pending" <=> i > k
      BY <1>1 DEF JobTypes
    <3>1. i \in Nat /\ TasksOf[j][i] \in AllTasks
      BY TasksOfJob
    <3>2. CASE i = k
      BY <1>1, <1>3, <3>1, <3>2 DEF JobTypes
    <3>3. CASE i # k
      <4>1. result'[TasksOf[j][i]] = result[TasksOf[j][i]]
        BY <1>1, <1>3, <3>1, <3>3 DEF JobTypes
      <4> QED BY <1>1, <3>1, <3>3, <4>1 DEF JobInv, JobOK
    <3> QED BY <3>2, <3>3
  <2>2. With(j, "done")' = With(j, "done")
    BY <1>1, <1>2, <1>3, TasksOfJob DEF With, Tasks, JobTypes
  <2> QED BY <1>1, <2>1, <2>2 DEF JobInv, JobOK
<1>5. ASSUME NEW i \in ConvJobs, i # j
      PROVE  JobOK(i)'
  <2>1. t \notin Tasks(i)
    BY <1>1, <1>5, ConversionAssumption
  <2> QED BY <1>1, <1>5, <2>1, TasksOfJob, JobKept DEF JobTypes, JobInv
<1> QED BY <1>4, <1>5 DEF JobInv

LEMMA RecordKept ==
    ASSUME JobTypes, JobInv, NEW j \in ConvJobs, NEW t \in Tasks(j), RecordResult(j, t)
    PROVE  JobInv'
<1> DEFINE r == IF outcome[t] = "ok" THEN "done" ELSE "error"
<1>1. /\ result[t] = "running" /\ result' = [result EXCEPT ![t] = r]
      /\ completed' = [completed EXCEPT ![j] = IF r = "done" THEN @ + 1 ELSE @]
      /\ UNCHANGED <<taken, jobStatus>>
  BY DEF RecordResult, SetResult, CountDone
<1>2. r \in {"done", "error"}
  OBVIOUS
<1> HIDE DEF r
<1>3. JobOK(j)'
  <2>1. \A i \in 1..Len(TasksOf[j]) : result'[TasksOf[j][i]] = "pending" <=> i > taken'[j]
    BY <1>1, <1>2, TasksOfJob DEF JobInv, JobOK, JobTypes
  <2>2. jobStatus[j] \notin {"done", "error"}
    BY <1>1 DEF JobInv, JobOK, WorkersDone, With
  <2>3. With(j, "done")' = With(j, "done") \cup (IF r = "done" THEN {t} ELSE {})
    BY <1>1, <1>2, TasksOfJob DEF With, Tasks, JobTypes
  <2>4. t \notin With(j, "done") /\ IsFiniteSet(With(j, "done"))
    BY <1>1, DoneAmongTaken DEF With, JobInv, JobOK
  <2>5. Cardinality(With(j, "done") \cup {t}) = Cardinality(With(j, "done")) + 1
    BY <2>4, FS_AddElement
  <2>6. completed'[j] = Cardinality(With(j, "done"))'
    <3>1. completed[j] = Cardinality(With(j, "done")) /\ completed[j] \in Nat
      BY DEF JobInv, JobOK, JobTypes
    <3>2. CASE r = "done"
      BY <1>1, <2>3, <2>5, <3>1, <3>2 DEF JobTypes
    <3>3. CASE r # "done"
      BY <1>1, <2>3, <3>1, <3>3 DEF JobTypes
    <3> QED BY <3>2, <3>3
  <2> QED BY <1>1, <2>1, <2>2, <2>6 DEF JobOK
<1>4. ASSUME NEW i \in ConvJobs, i # j
      PROVE  JobOK(i)'
  <2>1. t \notin Tasks(i)
    BY <1>4, ConversionAssumption
  <2> QED BY <1>1, <1>4, <2>1, TasksOfJob, JobKept DEF JobTypes, JobInv
<1> QED BY <1>3, <1>4 DEF JobInv

LEMMA JobInvStep ==
    ASSUME JobTypes, JobInv, [Next]_vars
    PROVE  JobInv'
<1> USE DEF jobVars
<1>1. ASSUME NEW j \in ConvJobs, StartJob(j)
      PROVE  JobInv'
  <2>1. /\ UNCHANGED <<result, taken, completed>>
        /\ jobStatus' = [jobStatus EXCEPT ![j] = "running"]
    BY <1>1 DEF StartJob, objectVars
  <2>2. \A i \in ConvJobs : \A r : With(i, r)' = With(i, r)
    BY <2>1 DEF With, Tasks
  <2> QED BY <2>1, <2>2 DEF JobInv, JobOK, WorkersDone, JobTypes
<1>2. ASSUME NEW j \in ConvJobs, EndJob(j)
      PROVE  JobInv'
  <2>1. /\ UNCHANGED <<result, taken, completed>> /\ WorkersDone(j)
        /\ jobStatus' = [jobStatus EXCEPT ![j] = IF With(j, "error") # {} THEN "error" ELSE "done"]
    BY <1>2 DEF EndJob
  <2>2. \A i \in ConvJobs : \A r : With(i, r)' = With(i, r)
    BY <2>1 DEF With, Tasks
  <2> QED BY <2>1, <2>2 DEF JobInv, JobOK, WorkersDone, JobTypes
<1>3. ASSUME NEW j \in ConvJobs, TakeFile(j) \/ \E t \in Tasks(j) : RecordResult(j, t)
      PROVE  JobInv'
  BY <1>3, TakeKept, RecordKept
<1>4. CASE UNCHANGED <<jobStatus, taken, result, completed>>
  BY <1>4, JobKept DEF JobInv
<1> QED BY <1>1, <1>2, <1>3, <1>4
        DEF Next, vars, JobStep, BeginColumnRequest, Call, PoolStep, TaskStep, MatchConfig,
            CopyFile, ForgetJob

\* Where the outcome of a conversion comes from.
LEMMA OutcomeStep ==
    ASSUME PoolInv, JobTypes, [Next]_vars, NEW t \in AllTasks, outcome'[t] = "ok"
    PROVE  outcome[t] = "ok" \/ FileIn[t] \in parquets'
<1> USE DEF PoolInv, StatementTypes, Returns, Abort
<1>1. AllTasks \subseteq Sessions
  BY ConversionAssumption
<1>2. ASSUME NEW s \in Sessions, Enter(s) \/ SessionStep(s)
      PROVE  outcome[t] = "ok"
  <2>1. UNCHANGED outcome \/ \E o \in {outcome[s], "error"} : outcome' = [outcome EXCEPT ![s] = o]
    BY <1>2 DEF Enter, SessionStep, ApplyCreds, CredsFailed, CreateSchemas, CreateViews,
                CreateTemp, DropSchemas, DropTemp, PutBack
  <2> QED BY <1>1, <2>1
<1>3. ASSUME NEW s \in Sessions, RunStatement(s)
      PROVE  outcome[t] = "ok"
  BY <1>1, <1>3 DEF RunStatement, Execute
<1>4. ASSUME NEW s \in AllTasks, MatchConfig(s)
      PROVE  outcome[t] = "ok"
  BY <1>1, <1>4 DEF MatchConfig, Execute, poolVars
<1>5. ASSUME NEW s \in AllTasks, CopyFile(s)
      PROVE  outcome[t] = "ok" \/ FileIn[t] \in parquets'
  BY <1>1, <1>5 DEF CopyFile, Execute
<1>6. ASSUME NEW j \in ConvJobs, TakeFile(j)
      PROVE  outcome[t] = "ok"
  BY <1>6 DEF TakeFile, Enter
<1>7. CASE UNCHANGED poolVars
  BY <1>7 DEF poolVars
<1> QED BY <1>2, <1>3, <1>4, <1>5, <1>6, <1>7
        DEF Next, vars, JobStep, BeginColumnRequest, Call, PoolStep, TaskStep, StartJob, EndJob,
            RecordResult, ForgetJob

LEMMA ObjectStep ==
    ASSUME PoolInv, JobTypes, ObjectInv, [Next]_vars
    PROVE  ObjectInv'
<1> USE DEF jobVars, objectVars
<1>1. parquets \subseteq parquets'
  BY DEF Next, vars, JobStep, BeginColumnRequest, Call, PoolStep, TaskStep, MatchConfig, CopyFile,
         StartJob, TakeFile, EndJob, RecordResult, ForgetJob
<1>2. ASSUME NEW j \in ConvJobs, NEW t \in Tasks(j), RecordResult(j, t)
      PROVE  ObjectInv'
  <2>1. /\ result' = [result EXCEPT ![t] = IF outcome[t] = "ok" THEN "done" ELSE "error"]
        /\ UNCHANGED <<outcome, parquets>>
    BY <1>2 DEF RecordResult, SetResult, poolVars
  <2>2. originals' = originals \/ (outcome[t] = "ok" /\ originals' = originals \ {FileIn[t]})
    BY <1>2 DEF RecordResult, DeleteOriginal
  <2>3. \A s \in AllTasks : result'[s] = "done" => result[s] = "done" \/ outcome[s] = "ok"
    BY <2>1, TasksOfJob DEF JobTypes
  <2>4. Files \ originals' \subseteq parquets
    BY <2>2, TasksOfJob DEF ObjectInv
  <2> QED BY <2>1, <2>3, <2>4 DEF ObjectInv
<1>3. CASE /\ originals' = originals
           /\ \A t \in AllTasks : result'[t] = "done" => result[t] = "done"
  BY <1>1, <1>3, OutcomeStep DEF ObjectInv
<1>4. ASSUME NEW j \in ConvJobs, TakeFile(j)
      PROVE  /\ originals' = originals
             /\ \A t \in AllTasks : result'[t] = "done" => result[t] = "done"
  BY <1>4 DEF TakeFile, SetResult, JobTypes
<1> QED BY <1>2, <1>3, <1>4
        DEF Next, vars, JobStep, BeginColumnRequest, Call, PoolStep, TaskStep, MatchConfig,
            CopyFile, StartJob, EndJob, ForgetJob

-------------------------------------------------------------------------------
(* The invariant and what it shows                                          *)

ConversionInv == PoolInv /\ ColumnInv /\ JobTypes /\ JobInv /\ ObjectInv

\* NewEngine fills the channel with every connection once.
LEMMA AllFree ==
    LET q == SetToSeq(Connections) IN
    q \in Seq(Connections) /\ IsInjective(q) /\ Range(q) = Connections
<1> DEFINE n == Cardinality(Connections)
           q == SetToSeq(Connections)
<1>1. n \in Nat /\ \E f \in [1..n -> Connections] : IsInjective(f)
  BY PoolAssumption, FS_CardinalityType DEF ExistsBijection, Bijection, Injection
<1>2. q \in [1..n -> Connections] /\ IsInjective(q)
  BY <1>1 DEF SetToSeq
<1>3. 1 \in Int /\ n \in Int
  BY <1>1
<1> HIDE DEF n, q
<1>4. Cardinality(1..n) = n
  BY <1>1, <1>3, FS_Interval
<1>5. q \in Injection(1..n, Connections)
  BY <1>2 DEF Injection
<1>6. q \in Surjection(1..n, Connections)
  BY <1>4, <1>5, FS_Injection, PoolAssumption DEF n
<1>7. Range(q) = Connections
  BY <1>2, <1>6 DEF Surjection, Range
<1>8. q \in Seq(Connections)
  BY <1>1, <1>2
<1> QED BY <1>2, <1>7, <1>8 DEF q

LEMMA Initially == Init => PoolInv /\ JobTypes /\ JobInv /\ ObjectInv
<1> SUFFICES ASSUME Init
             PROVE  PoolInv /\ JobTypes /\ JobInv /\ ObjectInv
  OBVIOUS
<1>1. ChannelInv
  <2>1. Range(waiting) = {} /\ waiting \in Seq(Sessions) /\ IsInjective(waiting)
    BY DEF Init, PoolInit, Range, IsInjective
  <2>2. free \in Seq(Connections) /\ IsInjective(free) /\ Range(free) = Connections
    BY AllFree DEF Init, PoolInit
  <2> QED BY <2>1, <2>2, PoolAssumption DEF Init, PoolInit, ChannelInv, SessionPlaces, Holding
<1>2. StatementTypes
  BY PoolAssumption DEF Init, PoolInit, StatementTypes
<1>3. PoolInv
  BY <1>1, <1>2 DEF Init, PoolInit, PoolInv, Prepared, Tidy
<1>4. JobTypes
  BY TasksOfJob DEF Init, JobTypes
<1>5. \A j \in ConvJobs : With(j, "done") = {}
  BY TasksOfJob DEF Init, With
<1>6. JobInv
  <2> SUFFICES ASSUME NEW j \in ConvJobs PROVE JobOK(j)
    BY DEF JobInv
  <2>1. taken[j] = 0 /\ completed[j] = 0 /\ jobStatus[j] = "none"
    BY DEF Init
  <2>2. \A i \in 1..Len(TasksOf[j]) : i > 0 /\ result[TasksOf[j][i]] = "pending"
    BY TasksOfJob DEF Init
  <2> QED BY <1>5, <2>1, <2>2, FS_EmptySet DEF JobOK
<1>7. ObjectInv
  BY ConversionAssumption DEF Init, PoolInit, ObjectInv
<1> QED BY <1>3, <1>4, <1>6, <1>7

LEMMA ConversionInvariance == Spec => []ConversionInv
<1>1. ConversionInv /\ [Next]_vars => ConversionInv'
  BY PoolStepKept, NextOnPool, ColumnStep, NextOnColumns, JobTypeStep, JobInvStep, ObjectStep
     DEF ConversionInv
<1>2. Init /\ ColumnInv => ConversionInv
  BY Initially DEF ConversionInv
<1> QED BY <1>1, <1>2, ColumnInvariance, PTL DEF Spec

\* Every variable keeps its type; the channel never holds more than the pool has
\* connections, and Completed never exceeds what the workers have taken.
THEOREM TypeCorrect == Spec => []ConversionTypeOK
<1>1. ConversionInv => PoolTypeOK
  <2> SUFFICES ASSUME ConversionInv PROVE PoolTypeOK
    OBVIOUS
  <2> DEFINE n == Len(free)
  <2>1. n \in Nat /\ free \in [1..n -> Connections] /\ IsInjective(free)
    BY LenProperties DEF ConversionInv, PoolInv, ChannelInv
  <2>2. 1 \in Int /\ n \in Int
    BY <2>1
  <2> HIDE DEF n
  <2>3. Cardinality(1..n) = n
    BY <2>1, <2>2, FS_Interval
  <2>4. free \in Injection(1..n, Connections)
    BY <2>1 DEF Injection
  <2>5. n <= Cardinality(Connections)
    BY <2>3, <2>4, FS_Injection, PoolAssumption
  <2> QED BY <2>5 DEF n, ConversionInv, PoolInv, ChannelInv, StatementTypes, PoolTypeOK
<1>2. ConversionInv => \A j \in ConvJobs : taken[j] \in 0..Len(TasksOf[j])
                                            /\ completed[j] \in 0..taken[j]
  <2> SUFFICES ASSUME ConversionInv, NEW j \in ConvJobs
               PROVE  taken[j] \in 0..Len(TasksOf[j]) /\ completed[j] \in 0..taken[j]
    OBVIOUS
  <2>1. Cardinality(With(j, "done")) <= taken[j]
    BY DoneAmongTaken DEF ConversionInv, JobInv, JobOK
  <2> QED BY <2>1, TasksOfJob DEF ConversionInv, JobTypes, JobInv, JobOK
<1>3. ConversionInv => ConversionTypeOK
  BY <1>1, <1>2 DEF ConversionInv, ColumnInv, JobTypes, ConversionTypeOK
<1> QED BY <1>3, ConversionInvariance, PTL

\* Whatever fails between them, the steps of QueryView, ExecWrite, InferSchema,
\* Analyze and convertFile give every connection back once and clean.
THEOREM ConnectionsStayClean == Spec => []ConnectionsClean
<1>1. PoolInv => ConnectionsClean
  <2> SUFFICES ASSUME PoolInv, NEW c \in Connections
               PROVE  /\ Cardinality(Holders(c)) + (IF Contains(free, c) THEN 1 ELSE 0) = 1
                      /\ c \notin spoiled =>
                           /\ \A v \in views[c] :
                                  v.by \in Holders(c) \/ (v.by \in Scripts /\ v.as # "binding")
                           /\ \A s \in temp[c] : s \in Scripts \/
                                  (s \in Holders(c) /\ KindOf[s] = "analyze" /\ place[s] # "holding")
    BY DEF ConnectionsClean
  <2>1. Contains(free, c) <=> c \in Range(free)
    BY LenProperties DEF PoolInv, ChannelInv, Contains, Range
  <2>2. c # "none"
    BY PoolAssumption
  <2>5. c \notin spoiled =>
          /\ \A v \in views[c] : v.by \in Holders(c) \/ (v.by \in Scripts /\ v.as # "binding")
          /\ \A s \in temp[c] : s \in Scripts \/
                 (s \in Holders(c) /\ KindOf[s] = "analyze" /\ place[s] # "holding")
    BY DEF PoolInv, StatementTypes, Tidy, Stray, OwnView, OwnTemp, Holders
  <2>3. CASE \E s \in Sessions : conn[s] = c
    <3>1. PICK s \in Sessions : conn[s] = c
      BY <2>3
    <3>2. Holders(c) = {s} /\ ~Contains(free, c)
      BY <2>1, <2>2, <3>1 DEF Holders, PoolInv, ChannelInv
    <3>3. Cardinality(Holders(c)) = 1
      BY <3>2, FS_Singleton
    <3> QED BY <3>2, <3>3, <2>5
  <2>4. CASE ~\E s \in Sessions : conn[s] = c
    <3>1. Holders(c) = {} /\ Contains(free, c)
      BY <2>1, <2>4 DEF Holders, PoolInv, ChannelInv
    <3>2. Cardinality(Holders(c)) = 0
      BY <3>1, FS_EmptySet
    <3> QED BY <3>1, <3>2, <2>5
  <2> QED BY <2>3, <2>4
<1> QED BY <1>1, ConversionInvariance, PTL DEF ConversionInv

\* A statement runs with the credentials and the views of its own request
\* (applyS3Creds, CREATE OR REPLACE VIEW), but for InferSchema's after an ignored
\* failure.
THEOREM RequestsRunAsThemselves == Spec => []RunsAsItself
<1>1. PoolInv => RunsAsItself
  BY DEF PoolInv, Prepared, RunsAsItself
<1> QED BY <1>1, ConversionInvariance, PTL DEF ConversionInv

\* What GetJob shows of a conversion agrees with itself at every moment, however
\* the workers of a job and the jobs interleave.
THEOREM JobsAgree == Spec => []JobAgrees
<1>1. ConversionInv => JobAgrees
  <2> SUFFICES ASSUME ConversionInv, NEW j \in ConvJobs, jobStatus[j] \in {"done", "error"}
               PROVE  With(j, "done") \cup With(j, "error") = Tasks(j)
    BY DEF ConversionInv, JobInv, JobOK, JobAgrees
  <2>1. \A t \in Tasks(j) : result[t] \notin {"pending", "running"}
    <3> SUFFICES ASSUME NEW t \in Tasks(j) PROVE result[t] \notin {"pending", "running"}
      OBVIOUS
    <3>1. taken[j] = Len(TasksOf[j]) /\ With(j, "running") = {}
      BY DEF ConversionInv, JobInv, JobOK, WorkersDone
    <3>2. PICK i \in 1..Len(TasksOf[j]) : t = TasksOf[j][i]
      BY TasksOfJob
    <3>3. result[t] # "pending"
      BY <3>1, <3>2, TasksOfJob DEF ConversionInv, JobInv, JobOK
    <3> QED BY <3>1, <3>3 DEF With
  <2> QED BY <2>1, TasksOfJob DEF With, ConversionInv, JobTypes
<1> QED BY <1>1, ConversionInvariance, PTL

\* delete_original removes nothing that has no parquet beside it, however many
\* tasks and jobs name one file.
THEOREM NothingIsLost == Spec => []NothingLost
<1>1. ObjectInv => NothingLost
  BY DEF ObjectInv, NothingLost
<1> QED BY <1>1, ConversionInvariance, PTL DEF ConversionInv
================================================================================
