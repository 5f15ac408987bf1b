--------------------------- MODULE SessionsProofs ---------------------------
(***************************************************************************)
(* Proofs about Sessions: types; whose tokens a session has, crossed by    *)
(* another request or not; and that S3 keys are replaced, not lost.        *)
(*                                                                         *)
(* Every action moves one request, so each invariant is a conjunct for     *)
(* every request, and a step is looked at twice: for the request that      *)
(* takes it, and for the others, which it can only disturb through the     *)
(* client they share (OwnOf) or through IAM's keys (KeyInv).               *)
(***************************************************************************)
EXTENDS Sessions, TLAPS

-------------------------------------------------------------------------------
(* The inductive invariant                                                  *)

\* With a project at hand; within the loop over the projects; through with reading the
\* refresh token; with an access token.
Forging == {"forge", "list", "delete", "create"}
WithProjects == Forging \cup {"next"}
WithTokens == WithProjects \cup {"projects", "store", "stored"}
Granted == WithTokens \cup {"sent", "signed", "captured"}

Work == [kind : {"login", "refresh"}, for : Tokens, account : Tokens, refresh : Tokens,
         url : Hosts \cup {NoAccount}, left : SUBSET Projects, project : Projects \cup {NoAccount},
         nth : Nat, creds : SUBSET Credentials, seen : SUBSET Credentials]

TypeInv ==
    /\ base \in Hosts /\ jar \in [Hosts -> Tokens] /\ shared \in Tokens
    /\ live \in [Users -> SUBSET Keys]
    /\ pc \in [Requests -> Places]
    /\ work \in [Requests -> Work]
    /\ DOMAIN sessions \subseteq Requests
    /\ failures \in 0..MaxFailures
    /\ bare \cup astray \cup overtaken \subseteq Requests /\ keyless \subseteq Users

\* What a request is, and which of its accounts are some account.
PlaceOf(r) ==
    /\ pc[r] # "idle" => work[r].for \in Accounts
    /\ pc[r] = "sent" => work[r].url \in Hosts
    /\ pc[r] \in {"sent", "signed"} => work[r].account \in Accounts
    /\ pc[r] \in {"restored", "refreshing"} => Refreshing(r)
    /\ pc[r] \in {"idle", "signin", "projects"} \cup WithProjects => ~Refreshing(r)

\* A credential is that of a user of one of the account's projects, one that the loop
\* is through with: the others are left, or at hand.
CredOf(r) ==
    /\ pc[r] \in {"idle", "signin", "sent", "signed", "captured", "projects"} \/ Refreshing(r)
          => work[r].creds = {}
    /\ pc[r] \in {"store", "stored"} /\ ~Refreshing(r) => work[r].creds # {}
    /\ pc[r] \in WithProjects => work[r].left \subseteq ProjectsOf[work[r].for]
    /\ pc[r] \in Forging => /\ work[r].project \in ProjectsOf[work[r].for] \ work[r].left
                            /\ work[r].nth \in DOMAIN UsersOf[work[r].project]
    /\ \A c \in work[r].creds : \E p \in ProjectsOf[work[r].for] :
          /\ c.user \in Range(UsersOf[p])
          /\ pc[r] \in WithProjects => p \notin work[r].left
          /\ pc[r] \in Forging => p # work[r].project

\* Whose access token a request has, or is about to get: of the client it needs the URL
\* and the cookie, if it is a refresh.
AccessOf(r) ==
    /\ pc[r] \in Granted /\ (~Refreshing(r) \/ r \notin astray) => work[r].account = work[r].for
    /\ pc[r] = "restored" /\ r \notin astray => work[r].url = base
    /\ pc[r] = "refreshing" /\ r \notin astray => jar[base] = work[r].for

\* Whose refresh token it has, or the client has for it to read.
RefreshOf(r) ==
    /\ pc[r] \in {"idle", "signin", "sent", "signed", "restored", "refreshing"} => r \notin bare
    /\ r \in AwaitToken \ overtaken /\ Refreshing(r) /\ pc[r] # "captured" => shared = work[r].for
    /\ pc[r] = "captured" /\ r \notin overtaken =>
          /\ r \notin bare => shared = work[r].account
          /\ r \in bare /\ Refreshing(r) => shared = work[r].for
    /\ pc[r] \in WithTokens /\ r \notin overtaken =>
          /\ r \notin bare => work[r].refresh = work[r].account
          /\ r \in bare /\ Refreshing(r) => work[r].refresh = work[r].for

OwnOf(r) == AccessOf(r) /\ RefreshOf(r)

\* A session is what its request had when it was done: it changes no more.
StoredInv == \A r \in DOMAIN sessions : pc[r] = "stored" /\ sessions[r] = SessionOf(r)

RequestInv(r) == PlaceOf(r) /\ CredOf(r) /\ OwnOf(r)

SessionInv == TypeInv /\ StoredInv /\ \A r \in Requests : RequestInv(r)

-------------------------------------------------------------------------------
(* What a step of a request does                                            *)

Fields == {"kind", "for", "account", "refresh", "url", "left", "project", "nth", "creds", "seen"}

\* v is w but for the fields in F.
SameBut(v, w, F) == \A f \in Fields \ F : v[f] = w[f]

LEMMA FieldsOf ==
    ASSUME NEW v \in Work, NEW w \in Work, SameBut(v, w, {}) PROVE v = w
BY DEF Work, SameBut, Fields

\* To the others, a step of r only means that the client has changed, and then it
\* crosses those who relied on it.
Alone(r) ==
    /\ \A q \in Requests \ {r} :
          /\ pc'[q] = pc[q] /\ work'[q] = work[q]
          /\ q \in bare' <=> q \in bare
          /\ q \in astray => q \in astray'
          /\ q \in overtaken => q \in overtaken'
    /\ base' = base \/ AwaitURL \ {r} \subseteq astray'
    /\ jar' = jar \/ AwaitCookie \ {r} \subseteq astray'
    /\ shared' = shared \/ AwaitToken \ {r} \subseteq overtaken'

Done(r) == TypeInv' /\ Alone(r) /\ RequestInv(r)'

LEMMA Moved ==
    ASSUME TypeInv, NEW r \in Requests, NEW to \in Places, NEW w \in Work,
           pc' = [pc EXCEPT ![r] = to], work' = [work EXCEPT ![r] = w]
    PROVE  /\ pc' \in [Requests -> Places] /\ work' \in [Requests -> Work]
           /\ pc'[r] = to /\ work'[r] = w
           /\ \A q \in Requests \ {r} : pc'[q] = pc[q] /\ work'[q] = work[q]
BY DEF TypeInv

\* Once a request has read its refresh token, the client matters to it no more.
LEMMA OwnKept ==
    ASSUME NEW r, RequestInv(r), pc[r] \in WithTokens, pc'[r] \in WithTokens \cup {"failed"},
           SameBut(work'[r], work[r], {"left", "project", "nth", "creds", "seen"}),
           UNCHANGED <<clientVars, crossVars>>
    PROVE  OwnOf(r)'
<1>1. /\ work'[r].for = work[r].for /\ work'[r].kind = work[r].kind
      /\ work'[r].account = work[r].account /\ work'[r].refresh = work[r].refresh
    BY DEF SameBut, Fields
<1> QED
    BY <1>1 DEF RequestInv, OwnOf, AccessOf, RefreshOf, AwaitToken, Refreshing, clientVars, crossVars,
                Granted, WithTokens, WithProjects, Forging

LEMMA SetBaseURLStep ==
    ASSUME SessionInv, NEW r \in Requests, SetBaseURL(r)
    PROVE  Done(r)
<1>1. PICK a \in Accounts : /\ work' = [work EXCEPT ![r].for = a]
                            /\ \/ base' = HostOf[a] /\ LeadAstray(r, AwaitURL)
                               \/ UNCHANGED <<base, astray>>
    BY DEF SetBaseURL
<1>2. PICK w \in Work : /\ work' = [work EXCEPT ![r] = w]
                        /\ w.for = a /\ SameBut(w, work[r], {"for"})
    <2> DEFINE w == [work[r] EXCEPT !.for = a]
    <2>1. work[r] \in Work
        BY DEF SessionInv, TypeInv
    <2>2. w \in Work /\ w.for = a /\ SameBut(w, work[r], {"for"})
        BY <2>1 DEF Work, SameBut, Fields, Tokens
    <2>3. work' = [work EXCEPT ![r] = w]
        BY <1>1
    <2> QED BY <2>2, <2>3
<1>3. /\ pc[r] = "idle" /\ pc' = [pc EXCEPT ![r] = "signin"]
      /\ UNCHANGED <<jar, shared, live, sessions, failures, bare, overtaken, keyless>>
    BY DEF SetBaseURL, Goes
<1>4. /\ pc' \in [Requests -> Places] /\ work' \in [Requests -> Work]
      /\ pc'[r] = "signin" /\ work'[r] = w
      /\ \A q \in Requests \ {r} : pc'[q] = pc[q] /\ work'[q] = work[q]
    BY <1>2, <1>3, Moved DEF SessionInv, Places
<1>5. TypeInv'
    BY <1>1, <1>3, <1>4, SessionsAssumption
       DEF SessionsAssumption, SessionInv, TypeInv, LeadAstray, AwaitURL
<1>6. Alone(r)
    BY <1>1, <1>3, <1>4 DEF Alone, LeadAstray
<1>7. RequestInv(r)
    BY DEF SessionInv
<1>8. PlaceOf(r)'
    BY <1>2, <1>3, <1>4, <1>7 DEF RequestInv, PlaceOf, Refreshing, SameBut, Fields, WithProjects, Forging
<1>9. CredOf(r)'
    BY <1>2, <1>3, <1>4, <1>7 DEF RequestInv, CredOf, Refreshing, SameBut, Fields, WithProjects, Forging
<1>10. OwnOf(r)'
    BY <1>3, <1>4, <1>7 DEF RequestInv, OwnOf, AccessOf, RefreshOf, AwaitToken,
                            Granted, WithTokens, WithProjects, Forging
<1> QED
    BY <1>5, <1>6, <1>8, <1>9, <1>10 DEF Done, RequestInv

LEMMA Went ==
    ASSUME TypeInv, NEW r \in Requests, NEW to \in Places, pc' = [pc EXCEPT ![r] = to], work' = work
    PROVE  /\ pc' \in [Requests -> Places] /\ work' \in [Requests -> Work]
           /\ pc'[r] = to /\ work'[r] = work[r] /\ work[r] \in Work
           /\ \A q \in Requests \ {r} : pc'[q] = pc[q] /\ work'[q] = work[q]
BY DEF TypeInv

\* What goes out is on behalf of a, be it a login's own account or that of a cookie.
LEMMA Sent ==
    ASSUME SessionInv, NEW r \in Requests, pc[r] \in {"signin", "refreshing"}, NEW a \in Accounts, Send(r, a),
           pc[r] = "signin" => a = work[r].for,
           pc[r] = "refreshing" => a = jar[base],
           UNCHANGED <<clientVars, live, sessions, crossVars, keyless>>
    PROVE  Done(r)
<1> DEFINE w == [work[r] EXCEPT !.account = a, !.url = base]
<1>1. /\ pc' = [pc EXCEPT ![r] = "sent"] /\ work' = [work EXCEPT ![r] = w]
      /\ work[r] \in Work /\ base \in Hosts /\ failures' = failures /\ RequestInv(r)
    BY DEF Send, Goes, Answered, SessionInv, TypeInv
<1>2. w \in Work /\ w.account = a /\ w.url = base /\ SameBut(w, work[r], {"account", "url"})
    BY <1>1 DEF Work, SameBut, Fields, Tokens
<1> HIDE DEF w
<1>3. /\ pc' \in [Requests -> Places] /\ work' \in [Requests -> Work]
      /\ pc'[r] = "sent" /\ work'[r] = w
      /\ \A q \in Requests \ {r} : pc'[q] = pc[q] /\ work'[q] = work[q]
    <2>1. "sent" \in Places /\ TypeInv
        BY DEF SessionInv, Places
    <2> QED BY <1>1, <1>2, <2>1, Moved
<1>4. TypeInv' /\ Alone(r)
    BY <1>1, <1>3 DEF SessionInv, TypeInv, clientVars, crossVars, Alone
<1>5. w.creds = work[r].creds /\ w.for = work[r].for /\ w.kind = work[r].kind
    BY <1>2 DEF SameBut, Fields
<1>6. PlaceOf(r)' /\ CredOf(r)'
    BY <1>1, <1>2, <1>3, <1>5 DEF RequestInv, PlaceOf, CredOf, Refreshing, clientVars, WithProjects, Forging
<1>7. OwnOf(r)'
    <2>1. AccessOf(r)'
        BY <1>1, <1>2, <1>3, <1>5 DEF RequestInv, PlaceOf, OwnOf, AccessOf, Refreshing, clientVars, crossVars
    <2>2. RefreshOf(r)'
        BY <1>1, <1>3, <1>5 DEF RequestInv, PlaceOf, OwnOf, RefreshOf, AwaitToken, Refreshing, clientVars, crossVars,
                                WithTokens, WithProjects, Forging
    <2> QED BY <2>1, <2>2 DEF OwnOf
<1> QED
    BY <1>4, <1>6, <1>7 DEF Done, RequestInv

LEMMA Failed ==
    ASSUME SessionInv, NEW r \in Requests, pc[r] \notin {"idle", "failed"}, pc' = [pc EXCEPT ![r] = "failed"], work' = work,
           failures' \in 0..MaxFailures, UNCHANGED <<clientVars, live, sessions, crossVars, keyless>>
    PROVE  Done(r)
<1>1. /\ pc' \in [Requests -> Places] /\ work' \in [Requests -> Work]
      /\ pc'[r] = "failed" /\ work'[r] = work[r]
      /\ \A q \in Requests \ {r} : pc'[q] = pc[q] /\ work'[q] = work[q]
    <2>1. "failed" \in Places /\ TypeInv
        BY DEF SessionInv, Places
    <2> QED BY <2>1, Went
<1>2. TypeInv' /\ Alone(r)
    BY <1>1 DEF SessionInv, TypeInv, clientVars, crossVars, Alone
<1>3. RequestInv(r) /\ work[r] \in Work
    BY DEF SessionInv, TypeInv
<1>4. PlaceOf(r)' /\ OwnOf(r)'
    BY <1>1, <1>3 DEF RequestInv, PlaceOf, OwnOf, AccessOf, RefreshOf, AwaitToken,
                      Granted, WithTokens, WithProjects, Forging
<1>5. CredOf(r)'
    BY <1>1, <1>3 DEF RequestInv, CredOf, Refreshing, WithProjects, Forging
<1> QED
    BY <1>2, <1>4, <1>5 DEF Done, RequestInv

LEMMA FailuresCounted ==
    ASSUME SessionInv, NEW a, Answered(a) \/ Denied(a) \/ UNCHANGED failures
    PROVE  failures' \in 0..MaxFailures
BY SessionsAssumption DEF SessionsAssumption, SessionInv, TypeInv, Answered, Denied

LEMMA SignInStep ==
    ASSUME SessionInv, NEW r \in Requests, SignIn(r)
    PROVE  Done(r)
<1> DEFINE a == work[r].for
<1>1. pc[r] = "signin" /\ UNCHANGED <<clientVars, live, sessions, crossVars, keyless>> /\ a \in Accounts
    BY DEF SignIn, SessionInv, RequestInv, PlaceOf
<1>2. CASE Send(r, a)
    BY <1>1, <1>2, Sent
<1>3. CASE Denied(a) /\ Goes(r, "signin", "failed") /\ UNCHANGED work
    <2>1. failures' \in 0..MaxFailures /\ pc' = [pc EXCEPT ![r] = "failed"] /\ pc[r] \notin {"idle", "failed"}
        BY <1>3, FailuresCounted DEF Goes
    <2> QED BY <1>1, <1>3, <2>1, Failed
<1> QED
    BY <1>2, <1>3 DEF SignIn

LEMMA AnswerStep ==
    ASSUME SessionInv, NEW r \in Requests, Answer(r)
    PROVE  Done(r)
<1>1. /\ pc[r] = "sent" /\ UNCHANGED <<base, shared, live, work, sessions, failures, overtaken, keyless>>
      /\ work[r] \in Work /\ RequestInv(r)
    BY DEF Answer, Goes, SessionInv, TypeInv
<1>2. work[r].account \in Accounts /\ work[r].url \in Hosts
    BY <1>1 DEF RequestInv, PlaceOf
<1>3. CASE /\ Goes(r, "sent", "signed")
           /\ jar' = [jar EXCEPT ![work[r].url] = work[r].account]
           /\ LeadAstray(r, AwaitCookie)
           /\ UNCHANGED bare
    <2>1. /\ pc' \in [Requests -> Places] /\ work' \in [Requests -> Work]
          /\ pc'[r] = "signed" /\ work'[r] = work[r]
          /\ \A q \in Requests \ {r} : pc'[q] = pc[q] /\ work'[q] = work[q]
        <3>1. "signed" \in Places /\ TypeInv /\ pc' = [pc EXCEPT ![r] = "signed"]
            BY <1>3 DEF SessionInv, Places, Goes
        <3> QED BY <1>1, <3>1, Went
    <2>2. TypeInv'
        BY <1>1, <1>2, <1>3, <2>1 DEF SessionInv, TypeInv, LeadAstray, AwaitCookie, Tokens
    <2>3. Alone(r)
        BY <1>1, <1>3, <2>1 DEF Alone, LeadAstray
    <2>4. r \in astray' <=> r \in astray
        BY <1>3 DEF LeadAstray
    <2>5. PlaceOf(r)' /\ CredOf(r)'
        BY <1>1, <2>1 DEF RequestInv, PlaceOf, CredOf, Refreshing, WithProjects, Forging
    <2>6. OwnOf(r)'
        BY <1>1, <1>3, <2>1, <2>4 DEF RequestInv, OwnOf, AccessOf, RefreshOf, AwaitToken, Refreshing,
                                      Granted, WithTokens, WithProjects, Forging
    <2> QED BY <2>2, <2>3, <2>5, <2>6 DEF Done, RequestInv
<1>4. CASE /\ Goes(r, "sent", "captured")
           /\ bare' = bare \cup {r}
           /\ UNCHANGED <<jar, astray>>
    <2>1. /\ pc' \in [Requests -> Places] /\ work' \in [Requests -> Work]
          /\ pc'[r] = "captured" /\ work'[r] = work[r]
          /\ \A q \in Requests \ {r} : pc'[q] = pc[q] /\ work'[q] = work[q]
        <3>1. "captured" \in Places /\ TypeInv /\ pc' = [pc EXCEPT ![r] = "captured"]
            BY <1>4 DEF SessionInv, Places, Goes
        <3> QED BY <1>1, <3>1, Went
    <2>2. TypeInv' /\ Alone(r)
        BY <1>1, <1>4, <2>1 DEF SessionInv, TypeInv, Alone
    <2>3. PlaceOf(r)' /\ CredOf(r)'
        BY <1>1, <2>1 DEF RequestInv, PlaceOf, CredOf, Refreshing, WithProjects, Forging
    <2>4. OwnOf(r)'
        BY <1>1, <1>4, <2>1 DEF RequestInv, OwnOf, AccessOf, RefreshOf, AwaitToken, Refreshing,
                                Granted, WithTokens, WithProjects, Forging
    <2> QED BY <2>2, <2>3, <2>4 DEF Done, RequestInv
<1> QED
    BY <1>3, <1>4 DEF Answer

LEMMA CaptureCookieStep ==
    ASSUME SessionInv, NEW r \in Requests, CaptureCookie(r)
    PROVE  Done(r)
<1>1. /\ pc[r] = "signed" /\ pc' = [pc EXCEPT ![r] = "captured"] /\ shared' = work[r].account
      /\ Overtake(r) /\ UNCHANGED <<base, jar, live, work, sessions, failures, bare, astray, keyless>>
    BY DEF CaptureCookie, Goes
<1>2. work[r] \in Work /\ shared' \in Accounts /\ RequestInv(r)
    BY <1>1 DEF SessionInv, TypeInv, RequestInv, PlaceOf
<1>3. /\ pc' \in [Requests -> Places] /\ work' \in [Requests -> Work]
      /\ pc'[r] = "captured" /\ work'[r] = work[r]
      /\ \A q \in Requests \ {r} : pc'[q] = pc[q] /\ work'[q] = work[q]
    BY <1>1, Went DEF SessionInv, Places
<1>4. TypeInv'
    BY <1>1, <1>2, <1>3 DEF SessionInv, TypeInv, Overtake, AwaitToken, Tokens
<1>5. Alone(r)
    BY <1>1, <1>3 DEF Alone, Overtake
<1>6. PlaceOf(r)' /\ CredOf(r)'
    BY <1>1, <1>2, <1>3 DEF RequestInv, PlaceOf, CredOf, Refreshing, WithProjects, Forging
<1>7. OwnOf(r)'
    BY <1>1, <1>2, <1>3 DEF RequestInv, OwnOf, AccessOf, RefreshOf, AwaitToken, Refreshing,
                            Granted, WithTokens, WithProjects, Forging
<1> QED
    BY <1>4, <1>5, <1>6, <1>7 DEF Done, RequestInv

LEMMA ReadCookieStep ==
    ASSUME SessionInv, NEW r \in Requests, ReadCookie(r)
    PROVE  Done(r)
<1> DEFINE to == IF Refreshing(r) THEN "store" ELSE "projects"
           w  == [work[r] EXCEPT !.refresh = shared]
<1>1. /\ pc[r] = "captured" /\ UNCHANGED <<clientVars, live, sessions, crossVars, keyless>>
      /\ \/ pc' = [pc EXCEPT ![r] = to] /\ work' = [work EXCEPT ![r] = w] /\ UNCHANGED failures
         \/ /\ failures < MaxFailures /\ failures' = failures + 1
            /\ pc' = [pc EXCEPT ![r] = "failed"] /\ work' = work
    BY DEF ReadCookie, Goes
<1>2. work[r] \in Work /\ shared \in Tokens /\ RequestInv(r)
    BY <1>1 DEF SessionInv, TypeInv
<1>3. w \in Work /\ w.refresh = shared /\ SameBut(w, work[r], {"refresh"})
    BY <1>2 DEF Work, SameBut, Fields
<1>4. to \in Places
    BY DEF Places
<1> HIDE DEF w
<1>5. CASE pc' = [pc EXCEPT ![r] = to] /\ work' = [work EXCEPT ![r] = w] /\ UNCHANGED failures
    <2>1. /\ pc' \in [Requests -> Places] /\ work' \in [Requests -> Work]
          /\ pc'[r] = to /\ work'[r] = w
          /\ \A q \in Requests \ {r} : pc'[q] = pc[q] /\ work'[q] = work[q]
        BY <1>3, <1>4, <1>5, Moved DEF SessionInv
    <2>2. TypeInv' /\ Alone(r)
        BY <1>1, <1>5, <2>1 DEF SessionInv, TypeInv, Alone, clientVars, crossVars
    <2>3. w.creds = work[r].creds /\ w.for = work[r].for /\ w.kind = work[r].kind /\ w.account = work[r].account
        BY <1>3 DEF SameBut, Fields
    <2>4. PlaceOf(r)' /\ CredOf(r)'
        BY <1>1, <1>2, <2>1, <2>3 DEF RequestInv, PlaceOf, CredOf, Refreshing, WithProjects, Forging
    <2>5. OwnOf(r)'
        BY <1>1, <1>2, <1>3, <2>1, <2>3 DEF RequestInv, OwnOf, AccessOf, RefreshOf, AwaitToken, Refreshing,
                                      clientVars, crossVars, Granted, WithTokens, WithProjects, Forging
    <2> QED BY <2>2, <2>4, <2>5 DEF Done, RequestInv
<1>6. CASE /\ failures < MaxFailures /\ failures' = failures + 1
           /\ pc' = [pc EXCEPT ![r] = "failed"] /\ work' = work
    <2>1. failures' \in 0..MaxFailures
        BY <1>6, SessionsAssumption DEF SessionsAssumption, SessionInv, TypeInv
    <2> QED BY <1>1, <1>6, <2>1, Failed
<1> QED
    BY <1>1, <1>5, <1>6

-------------------------------------------------------------------------------
(* The loop of a login over the projects and their users                    *)

\* A step that leaves the client alone.
Quiet(r) ==
    /\ pc' \in [Requests -> Places] /\ work' \in [Requests -> Work]
    /\ Alone(r) /\ RequestInv(r)'

LEMMA FetchProjectsStep ==
    ASSUME SessionInv, NEW r \in Requests, FetchProjects(r)
    PROVE  Done(r)
<1> DEFINE a == work[r].for
           w == [work[r] EXCEPT !.left = ProjectsOf[a]]
<1>1. /\ pc[r] = "projects" /\ UNCHANGED <<clientVars, live, sessions, crossVars, keyless>>
      /\ work[r] \in Work /\ a \in Accounts /\ RequestInv(r)
    BY DEF FetchProjects, SessionInv, TypeInv, RequestInv, PlaceOf
<1>2. CASE Answered(a) /\ Goes(r, "projects", "next") /\ work' = [work EXCEPT ![r].left = ProjectsOf[a]]
    <2>1. w \in Work /\ w.left = ProjectsOf[a] /\ SameBut(w, work[r], {"left"})
        BY <1>1, SessionsAssumption DEF SessionsAssumption, Work, SameBut, Fields
    <2>2. pc' = [pc EXCEPT ![r] = "next"] /\ work' = [work EXCEPT ![r] = w]
        BY <1>2 DEF Goes
    <2> HIDE DEF w
    <2>3. /\ pc' \in [Requests -> Places] /\ work' \in [Requests -> Work]
          /\ pc'[r] = "next" /\ work'[r] = w
          /\ \A q \in Requests \ {r} : pc'[q] = pc[q] /\ work'[q] = work[q]
        BY <2>1, <2>2, Moved DEF SessionInv, Places
    <2>4. TypeInv' /\ Alone(r)
        BY <1>1, <1>2, <2>3 DEF SessionInv, TypeInv, Answered, clientVars, crossVars, Alone
    <2>5. RequestInv(r)'
        BY <1>1, <2>1, <2>3, OwnKept
       DEF RequestInv, PlaceOf, CredOf, Refreshing, SameBut, Fields, WithTokens, WithProjects, Forging
    <2> QED BY <2>4, <2>5 DEF Done
<1>3. CASE Denied(a) /\ Goes(r, "projects", "failed") /\ UNCHANGED work
    <2>1. failures' \in 0..MaxFailures /\ pc' = [pc EXCEPT ![r] = "failed"] /\ pc[r] \notin {"idle", "failed"}
        BY <1>3, FailuresCounted DEF Goes
    <2> QED BY <1>1, <1>3, <2>1, Failed
<1> QED
    BY <1>2, <1>3 DEF FetchProjects

LEMMA NextProjectStep ==
    ASSUME SessionInv, NEW r \in Requests, NextProject(r)
    PROVE  Done(r)
<1>0. pc[r] = "next" /\ UNCHANGED <<clientVars, live, sessions, failures, crossVars, keyless>>
    BY Zenon DEF NextProject, Goes
<1>1. work[r] \in Work /\ work[r].for \in Accounts /\ RequestInv(r)
    BY <1>0 DEF SessionInv, TypeInv, RequestInv, PlaceOf
<1>2. ASSUME NEW p \in work[r].left,
             Goes(r, "next", IF UsersOf[p] = <<>> THEN "next" ELSE "forge"),
             work' = [work EXCEPT ![r].left = @ \ {p}, ![r].project = p, ![r].nth = 1]
      PROVE  Done(r)
    <2> DEFINE to == IF UsersOf[p] = <<>> THEN "next" ELSE "forge"
               w  == [work[r] EXCEPT !.left = work[r].left \ {p}, !.project = p, !.nth = 1]
    <2>1. p \in Projects /\ p \in ProjectsOf[work[r].for] /\ work[r].left \subseteq ProjectsOf[work[r].for]
        BY <1>0, <1>1 DEF Work, RequestInv, CredOf, WithProjects
    <2>2. /\ w \in Work /\ SameBut(w, work[r], {"left", "project", "nth"})
          /\ w.left = work[r].left \ {p} /\ w.project = p /\ w.nth = 1
        BY <1>0, <1>1, <2>1 DEF Work, SameBut, Fields
    <2>3. to \in Places /\ pc' = [pc EXCEPT ![r] = to] /\ work' = [work EXCEPT ![r] = w]
        BY <1>2, <1>1 DEF Goes, Places, Work
    <2>4. to = "forge" => 1 \in DOMAIN UsersOf[p]
        BY <2>1, SessionsAssumption DEF SessionsAssumption
    <2>5. to \in {"next", "forge"}
        OBVIOUS
    <2> HIDE DEF w, to
    <2>6. /\ pc' \in [Requests -> Places] /\ work' \in [Requests -> Work]
          /\ pc'[r] = to /\ work'[r] = w
          /\ \A q \in Requests \ {r} : pc'[q] = pc[q] /\ work'[q] = work[q]
        BY <2>2, <2>3, Moved DEF SessionInv
    <2>7. TypeInv' /\ Alone(r)
        BY <1>0, <1>1, <2>6 DEF SessionInv, TypeInv, clientVars, crossVars, Alone
    <2>8. PlaceOf(r)' /\ OwnOf(r)'
        BY <1>0, <1>1, <2>2, <2>5, <2>6, OwnKept
       DEF RequestInv, PlaceOf, Refreshing, SameBut, Fields, WithTokens, WithProjects, Forging
    <2>9. CredOf(r)'
        <3>1. /\ w.creds = work[r].creds /\ w.for = work[r].for /\ w.kind = work[r].kind
            BY <2>2 DEF SameBut, Fields
        <3>2. \A c \in w.creds : \E q \in ProjectsOf[w.for] :
                  c.user \in Range(UsersOf[q]) /\ q \notin work[r].left
            BY <1>0, <1>1, <3>1 DEF RequestInv, CredOf, WithProjects
        <3>3. \A c \in w.creds : \E q \in ProjectsOf[w.for] :
                  c.user \in Range(UsersOf[q]) /\ q \notin w.left /\ q # w.project
            BY <2>2, <3>2
        <3> QED BY <1>0, <1>1, <2>1, <2>2, <2>4, <2>5, <2>6, <3>1, <3>3
                DEF RequestInv, PlaceOf, CredOf, Refreshing, WithProjects, Forging
    <2> QED BY <2>7, <2>8, <2>9 DEF Done, RequestInv
<1>3. CASE /\ Goes(r, "next", IF work[r].creds = {} THEN "failed" ELSE "store")
           /\ UNCHANGED work
    <2> DEFINE to == IF work[r].creds = {} THEN "failed" ELSE "store"
    <2>1. to \in Places /\ pc' = [pc EXCEPT ![r] = to]
        BY <1>3 DEF Goes, Places
    <2>2. /\ pc' \in [Requests -> Places] /\ work' \in [Requests -> Work]
          /\ pc'[r] = to /\ work'[r] = work[r]
          /\ \A q \in Requests \ {r} : pc'[q] = pc[q] /\ work'[q] = work[q]
        BY <1>3, <2>1, Went DEF SessionInv
    <2>3. TypeInv' /\ Alone(r)
        BY <1>0, <1>1, <2>2 DEF SessionInv, TypeInv, clientVars, crossVars, Alone
    <2>4. RequestInv(r)'
        BY <1>0, <1>1, <2>2, OwnKept DEF RequestInv, PlaceOf, CredOf, Refreshing, SameBut, Fields, WithTokens, WithProjects, Forging
    <2> QED BY <2>3, <2>4 DEF Done
<1> QED
    BY <1>2, <1>3, Zenon DEF NextProject

LEMMA UserAtHand ==
    ASSUME SessionInv, NEW r \in Requests, pc[r] \in Forging
    PROVE  /\ work[r] \in Work /\ work[r].for \in Accounts /\ work[r].project \in Projects
           /\ UserOf(r) \in Users /\ UserOf(r) \in Range(UsersOf[work[r].project])
<1>1. work[r] \in Work /\ RequestInv(r)
    BY DEF SessionInv, TypeInv
<1>2. work[r].for \in Accounts /\ work[r].project \in ProjectsOf[work[r].for]
    BY <1>1 DEF RequestInv, PlaceOf, CredOf, Forging
<1>3. work[r].project \in Projects /\ UsersOf[work[r].project] \in Seq(Users)
    BY <1>2, SessionsAssumption DEF SessionsAssumption
<1>4. work[r].nth \in DOMAIN UsersOf[work[r].project]
    BY <1>1 DEF RequestInv, CredOf
<1> QED
    BY <1>1, <1>2, <1>3, <1>4 DEF UserOf, Range

LEMMA GoesOn ==
    ASSUME SessionInv, NEW r \in Requests, NEW from \in Forging, NEW to \in Forging \cup {"next"},
           Goes(r, from, to), UNCHANGED <<work, clientVars, crossVars>>
    PROVE  Quiet(r)
<1>1. /\ pc[r] = from /\ pc' = [pc EXCEPT ![r] = to] /\ RequestInv(r) /\ to \in Places /\ work' = work
    BY DEF Goes, SessionInv, Forging, Places
<1>2. /\ pc' \in [Requests -> Places] /\ work' \in [Requests -> Work]
      /\ pc'[r] = to /\ work'[r] = work[r]
      /\ \A q \in Requests \ {r} : pc'[q] = pc[q] /\ work'[q] = work[q]
    BY <1>1, Went DEF SessionInv
<1>3. Alone(r)
    BY <1>2 DEF Alone, clientVars, crossVars
<1>4. PlaceOf(r)' /\ OwnOf(r)'
    BY <1>1, <1>2, OwnKept
       DEF RequestInv, PlaceOf, Refreshing, SameBut, Fields, WithTokens, WithProjects, Forging
<1>5. CredOf(r)'
    BY <1>1, <1>2 DEF RequestInv, PlaceOf, CredOf, Refreshing, WithTokens, WithProjects, Forging
<1> QED
    BY <1>2, <1>3, <1>4, <1>5 DEF Quiet, RequestInv

LEMMA NextUserQuiet ==
    ASSUME SessionInv, NEW r \in Requests, NEW from \in Forging,
           NextUser(r, from), UNCHANGED <<clientVars, crossVars>>
    PROVE  Quiet(r)
<1>1. CASE MoreUsers(r)
    <2> DEFINE w == [work[r] EXCEPT !.nth = work[r].nth + 1]
    <2>1. /\ pc[r] = from /\ pc' = [pc EXCEPT ![r] = "forge"] /\ work' = [work EXCEPT ![r].nth = @ + 1]
        BY <1>1 DEF NextUser, Goes
    <2>2. /\ work[r] \in Work /\ work[r].project \in Projects /\ RequestInv(r)
          /\ work[r].nth \in DOMAIN UsersOf[work[r].project]
        BY <2>1, UserAtHand DEF SessionInv, RequestInv, CredOf
    <2>3. w \in Work /\ SameBut(w, work[r], {"nth"}) /\ w.nth = work[r].nth + 1
        BY <2>2 DEF Work, SameBut, Fields
    <2>4. work' = [work EXCEPT ![r] = w]
        BY <2>1
    <2>5. work[r].nth + 1 \in DOMAIN UsersOf[work[r].project]
        BY <1>1, <2>2, SessionsAssumption DEF SessionsAssumption, MoreUsers
    <2> HIDE DEF w
    <2>6. /\ pc' \in [Requests -> Places] /\ work' \in [Requests -> Work]
          /\ pc'[r] = "forge" /\ work'[r] = w
          /\ \A q \in Requests \ {r} : pc'[q] = pc[q] /\ work'[q] = work[q]
        <3>1. "forge" \in Places /\ TypeInv
            BY DEF SessionInv, Places
        <3> QED BY <2>1, <2>3, <2>4, <3>1, Moved
    <2>7. Alone(r)
        BY <2>6 DEF Alone, clientVars, crossVars
    <2>8. PlaceOf(r)' /\ OwnOf(r)'
        BY <2>1, <2>2, <2>3, <2>6, OwnKept
       DEF RequestInv, PlaceOf, Refreshing, SameBut, Fields, WithTokens, WithProjects, Forging
    <2>9. CredOf(r)'
        <3>1. /\ w.creds = work[r].creds /\ w.for = work[r].for /\ w.kind = work[r].kind
              /\ w.left = work[r].left /\ w.project = work[r].project
            BY <2>3 DEF SameBut, Fields
        <3> QED BY <2>1, <2>2, <2>3, <2>5, <2>6, <3>1 DEF RequestInv, PlaceOf, CredOf, Refreshing, WithProjects, Forging
    <2> QED BY <2>6, <2>7, <2>8, <2>9 DEF Quiet, RequestInv
<1>2. CASE ~MoreUsers(r)
    BY <1>2, GoesOn DEF NextUser
<1> QED
    BY <1>1, <1>2

LEMMA CredentialQuiet ==
    ASSUME SessionInv, NEW r \in Requests, NEW from \in Forging, NEW k \in Keys,
           Credential(r, from, k), UNCHANGED <<clientVars, crossVars>>
    PROVE  /\ Quiet(r)
           /\ work'[r].creds = work[r].creds \cup {[user |-> UserOf(r), key |-> k]}
           /\ work'[r].seen = work[r].seen
<1> DEFINE c == [user |-> UserOf(r), key |-> k]
           w == [work[r] EXCEPT !.creds = work[r].creds \cup {c}]
<1>1. /\ pc[r] = from /\ pc' = [pc EXCEPT ![r] = "next"]
      /\ work' = [work EXCEPT ![r].creds = @ \cup {c}]
    BY DEF Credential, Goes
<1>2. /\ work[r] \in Work /\ RequestInv(r)
      /\ UserOf(r) \in Users /\ UserOf(r) \in Range(UsersOf[work[r].project])
    BY <1>1, UserAtHand DEF SessionInv
<1>3. c \in Credentials /\ c.user = UserOf(r)
    BY <1>2 DEF Credentials
<1> HIDE DEF c
<1>4. w \in Work /\ SameBut(w, work[r], {"creds"}) /\ w.creds = work[r].creds \cup {c}
    BY <1>2, <1>3 DEF Work, SameBut, Fields
<1>5. work' = [work EXCEPT ![r] = w]
    BY <1>1
<1> HIDE DEF w
<1>6. /\ pc' \in [Requests -> Places] /\ work' \in [Requests -> Work]
      /\ pc'[r] = "next" /\ work'[r] = w
      /\ \A q \in Requests \ {r} : pc'[q] = pc[q] /\ work'[q] = work[q]
    <2>1. "next" \in Places /\ TypeInv
        BY DEF SessionInv, Places
    <2> QED BY <1>1, <1>4, <1>5, <2>1, Moved
<1>7. Alone(r)
    BY <1>6 DEF Alone, clientVars, crossVars
<1>8. PlaceOf(r)' /\ OwnOf(r)'
    BY <1>1, <1>2, <1>4, <1>6, OwnKept
       DEF RequestInv, PlaceOf, Refreshing, SameBut, Fields, WithTokens, WithProjects, Forging
<1>9. /\ w.for = work[r].for /\ w.kind = work[r].kind /\ w.seen = work[r].seen
      /\ w.left = work[r].left /\ w.project = work[r].project
    BY <1>4 DEF SameBut, Fields
<1>10. CredOf(r)'
    <2>1. /\ work[r].project \in ProjectsOf[w.for] \ w.left /\ w.left \subseteq ProjectsOf[w.for]
          /\ \A d \in work[r].creds : \E p \in ProjectsOf[w.for] : d.user \in Range(UsersOf[p]) /\ p \notin w.left
        BY <1>1, <1>2, <1>9 DEF RequestInv, CredOf, WithProjects
    <2>2. \A d \in w.creds : \E p \in ProjectsOf[w.for] : d.user \in Range(UsersOf[p]) /\ p \notin w.left
        BY <1>2, <1>3, <1>4, <2>1
    <2>3. w.kind # "refresh"
        BY <1>1, <1>2, <1>9 DEF RequestInv, PlaceOf, Refreshing, WithProjects
    <2> QED BY <1>6, <2>1, <2>2, <2>3 DEF CredOf, Refreshing, WithProjects, Forging
<1> QED
    BY <1>4, <1>6, <1>7, <1>8, <1>9, <1>10 DEF Quiet, RequestInv, c

LEMMA QuietTypes ==
    ASSUME SessionInv, NEW r \in Requests, Quiet(r), UNCHANGED <<clientVars, crossVars>>,
           live' \in [Users -> SUBSET Keys], DOMAIN sessions' \subseteq Requests,
           failures' \in 0..MaxFailures, keyless' \subseteq Users
    PROVE  Done(r)
BY DEF SessionInv, TypeInv, Quiet, Done, clientVars, crossVars

LEMMA ForgeJWTStep ==
    ASSUME SessionInv, NEW r \in Requests, ForgeJWT(r)
    PROVE  Done(r)
<1> DEFINE a == jar[base]
<1>1. pc[r] = "forge" /\ UNCHANGED <<clientVars, live, sessions, crossVars, keyless>>
    BY DEF ForgeJWT
<1>2. \/ Answered(a) /\ Goes(r, "forge", "list") /\ UNCHANGED work
      \/ (Denied(a) \/ UNCHANGED failures) /\ NextUser(r, "forge")
    BY DEF ForgeJWT
<1>3. failures' \in 0..MaxFailures
    BY <1>2, FailuresCounted
<1>4. Quiet(r)
    BY <1>1, <1>2, GoesOn, NextUserQuiet DEF Forging
<1> QED
    BY <1>1, <1>3, <1>4, QuietTypes DEF SessionInv, TypeInv

LEMMA SeenQuiet ==
    ASSUME SessionInv, NEW r \in Requests, NEW c \in Credentials, Goes(r, "list", "delete"),
           work' = [work EXCEPT ![r].seen = @ \cup {c}], UNCHANGED <<clientVars, crossVars>>
    PROVE  /\ Quiet(r)
           /\ work'[r].creds = work[r].creds /\ work'[r].seen = work[r].seen \cup {c}
<1> DEFINE w == [work[r] EXCEPT !.seen = work[r].seen \cup {c}]
<1>1. /\ pc[r] = "list" /\ pc' = [pc EXCEPT ![r] = "delete"]
      /\ work[r] \in Work /\ RequestInv(r)
    BY DEF Goes, SessionInv, TypeInv
<1>2. w \in Work /\ SameBut(w, work[r], {"seen"}) /\ w.seen = work[r].seen \cup {c}
    BY <1>1 DEF Work, SameBut, Fields
<1>3. work' = [work EXCEPT ![r] = w]
    OBVIOUS
<1> HIDE DEF w
<1>4. /\ pc' \in [Requests -> Places] /\ work' \in [Requests -> Work]
      /\ pc'[r] = "delete" /\ work'[r] = w
      /\ \A q \in Requests \ {r} : pc'[q] = pc[q] /\ work'[q] = work[q]
    <2>1. "delete" \in Places /\ TypeInv
        BY DEF SessionInv, Places
    <2> QED BY <1>1, <1>2, <1>3, <2>1, Moved
<1>5. Alone(r)
    BY <1>4 DEF Alone, clientVars, crossVars
<1>6. PlaceOf(r)' /\ OwnOf(r)'
    BY <1>1, <1>2, <1>4, OwnKept
       DEF RequestInv, PlaceOf, Refreshing, SameBut, Fields, WithTokens, WithProjects, Forging
<1>7. /\ w.creds = work[r].creds /\ w.for = work[r].for /\ w.kind = work[r].kind
      /\ w.left = work[r].left /\ w.project = work[r].project /\ w.nth = work[r].nth
    BY <1>2 DEF SameBut, Fields
<1>8. CredOf(r)'
    BY <1>1, <1>4, <1>7 DEF RequestInv, CredOf, Refreshing, WithProjects, Forging
<1> QED
    BY <1>2, <1>4, <1>5, <1>6, <1>7, <1>8 DEF Quiet, RequestInv

LEMMA ListAPIKeysStep ==
    ASSUME SessionInv, NEW r \in Requests, ListAPIKeys(r)
    PROVE  Done(r)
<1> DEFINE u == UserOf(r)
           a == work[r].for
<1>1. pc[r] = "list" /\ UNCHANGED <<clientVars, live, sessions, crossVars, keyless>>
    BY DEF ListAPIKeys
<1>2. u \in Users /\ live[u] \subseteq Keys
    BY <1>1, UserAtHand DEF Forging, SessionInv, TypeInv
<1>3. /\ Answered(a) \/ Denied(a)
      /\ \/ \E k \in live[u] :
               \/ Credential(r, "list", k)
               \/ /\ Goes(r, "list", "delete")
                  /\ work' = [work EXCEPT ![r].seen = @ \cup {[user |-> u, key |-> k]}]
         \/ Goes(r, "list", "create") /\ UNCHANGED work
    BY Zenon DEF ListAPIKeys
<1>4. failures' \in 0..MaxFailures
    BY <1>3, FailuresCounted
<1>5. \A k \in live[u] : k \in Keys /\ [user |-> u, key |-> k] \in Credentials
    BY <1>2 DEF Credentials
<1>6. Quiet(r)
    <2>1. ASSUME NEW k \in live[u], Credential(r, "list", k) PROVE Quiet(r)
        BY <1>1, <1>5, <2>1, CredentialQuiet DEF Forging
    <2>2. ASSUME NEW k \in live[u], Goes(r, "list", "delete"),
                 work' = [work EXCEPT ![r].seen = @ \cup {[user |-> u, key |-> k]}]
          PROVE  Quiet(r)
        <3> DEFINE c == [user |-> u, key |-> k]
        <3>1. c \in Credentials
            BY <1>5
        <3> QED BY <1>1, <2>2, <3>1, SeenQuiet
    <2>3. CASE Goes(r, "list", "create") /\ UNCHANGED work
        BY <1>1, <2>3, GoesOn DEF Forging
    <2> QED BY <1>3, <2>1, <2>2, <2>3, Zenon
<1> QED
    BY <1>1, <1>4, <1>6, QuietTypes DEF SessionInv, TypeInv

LEMMA DeleteAPIKeyStep ==
    ASSUME SessionInv, NEW r \in Requests, DeleteAPIKey(r)
    PROVE  Done(r)
<1>1. /\ pc[r] = "delete" /\ AfterDelete(r) /\ UNCHANGED <<clientVars, sessions, crossVars, keyless>>
      /\ Answered(work[r].for) \/ Denied(work[r].for)
      /\ live' = live \/ live' = [live EXCEPT ![UserOf(r)] = @ \ Listed(r)]
    BY DEF DeleteAPIKey
<1>2. Quiet(r)
    BY <1>1, GoesOn DEF AfterDelete, Forging
<1>3. failures' \in 0..MaxFailures
    BY <1>1, FailuresCounted
<1>4. live' \in [Users -> SUBSET Keys]
    BY <1>1 DEF SessionInv, TypeInv
<1> QED
    BY <1>1, <1>2, <1>3, <1>4, QuietTypes DEF SessionInv, TypeInv

LEMMA CreateAPIKeyStep ==
    ASSUME SessionInv, NEW r \in Requests, CreateAPIKey(r)
    PROVE  Done(r)
<1> DEFINE u == UserOf(r)
<1>1. /\ pc[r] = "create" /\ UNCHANGED <<clientVars, sessions, crossVars>>
      /\ Answered(work[r].for) \/ Denied(work[r].for)
      /\ \/ /\ live' = [live EXCEPT ![u] = @ \cup {r}]
            /\ Credential(r, "create", r)
            /\ keyless' = keyless \ {u}
         \/ /\ NextUser(r, "create")
            /\ keyless' = IF live[u] = {} THEN keyless \cup {u} ELSE keyless
            /\ live' = live
    BY DEF CreateAPIKey
<1>2. u \in Users /\ r \in Keys
    BY <1>1, UserAtHand DEF Forging, Keys
<1>3. Quiet(r)
    BY <1>1, <1>2, CredentialQuiet, NextUserQuiet DEF Forging
<1>4. failures' \in 0..MaxFailures
    BY <1>1, FailuresCounted
<1>5. live' \in [Users -> SUBSET Keys] /\ keyless' \subseteq Users
    BY <1>1, <1>2 DEF SessionInv, TypeInv
<1> QED
    BY <1>1, <1>3, <1>4, <1>5, QuietTypes DEF SessionInv, TypeInv

-------------------------------------------------------------------------------
(* Refreshes, and the session store                                         *)

LEMMA StoreSessionStep ==
    ASSUME SessionInv, NEW r \in Requests, StoreSession(r)
    PROVE  Done(r)
<1>1. /\ pc[r] = "store" /\ pc' = [pc EXCEPT ![r] = "stored"]
      /\ UNCHANGED <<clientVars, live, work, failures, crossVars, keyless>>
      /\ DOMAIN sessions' = DOMAIN sessions \cup {r}
    BY DEF StoreSession, Goes
<1>2. RequestInv(r)
    BY DEF SessionInv
<1>3. /\ pc' \in [Requests -> Places] /\ work' \in [Requests -> Work]
      /\ pc'[r] = "stored" /\ work'[r] = work[r]
      /\ \A q \in Requests \ {r} : pc'[q] = pc[q] /\ work'[q] = work[q]
    <2>1. "stored" \in Places /\ TypeInv
        BY DEF SessionInv, Places
    <2> QED BY <1>1, <2>1, Went
<1>4. TypeInv' /\ Alone(r)
    BY <1>1, <1>3 DEF SessionInv, TypeInv, clientVars, crossVars, Alone
<1>5. RequestInv(r)'
    BY <1>1, <1>2, <1>3, OwnKept
       DEF RequestInv, PlaceOf, CredOf, Refreshing, SameBut, Fields, WithTokens, WithProjects, Forging
<1> QED
    BY <1>4, <1>5 DEF Done

LEMMA RestoreTokenStep ==
    ASSUME SessionInv, NEW r \in Requests, RestoreToken(r)
    PROVE  Done(r)
<1>1. PICK q \in Requests :
        /\ pc[q] = "stored"
        /\ work[q].refresh # NoAccount
        /\ shared' = work[q].refresh
        /\ work' = [work EXCEPT ![r].kind = "refresh", ![r].for = work[q].refresh, ![r].url = base]
    BY Zenon DEF RestoreToken
<1> DEFINE a == work[q].refresh
           w == [work[r] EXCEPT !.kind = "refresh", !.for = a, !.url = base]
<1>2. /\ pc[r] = "idle" /\ pc' = [pc EXCEPT ![r] = "restored"] /\ Overtake(r)
      /\ UNCHANGED <<base, jar, live, sessions, failures, bare, astray, keyless>>
    BY DEF RestoreToken, Goes
<1>3. work[r] \in Work /\ work[q] \in Work /\ RequestInv(r) /\ base \in Hosts
    BY DEF SessionInv, TypeInv
<1>4. a \in Accounts
    BY <1>1, <1>3 DEF Work, Tokens
<1>5. /\ w \in Work /\ w.kind = "refresh" /\ w.for = a /\ w.url = base
      /\ SameBut(w, work[r], {"kind", "for", "url"})
    BY <1>3, <1>4 DEF Work, SameBut, Fields, Tokens
<1>6. work' = [work EXCEPT ![r] = w]
    BY <1>1
<1> HIDE DEF w
<1>7. /\ pc' \in [Requests -> Places] /\ work' \in [Requests -> Work]
      /\ pc'[r] = "restored" /\ work'[r] = w
      /\ \A p \in Requests \ {r} : pc'[p] = pc[p] /\ work'[p] = work[p]
    <2>1. "restored" \in Places /\ TypeInv
        BY DEF SessionInv, Places
    <2> QED BY <1>2, <1>5, <1>6, <2>1, Moved
<1>8. TypeInv'
    BY <1>1, <1>2, <1>4, <1>7 DEF SessionInv, TypeInv, Overtake, AwaitToken, Tokens
<1>9. Alone(r)
    BY <1>1, <1>2, <1>7 DEF Alone, Overtake
<1>10. PlaceOf(r)' /\ OwnOf(r)'
    BY <1>1, <1>2, <1>3, <1>4, <1>5, <1>7 DEF RequestInv, PlaceOf, OwnOf, AccessOf, RefreshOf, Refreshing,
                                        Granted, WithTokens, WithProjects, Forging
<1>11. w.creds = {}
    BY <1>2, <1>3, <1>5 DEF RequestInv, CredOf, SameBut, Fields
<1>12. CredOf(r)'
    BY <1>5, <1>7, <1>11 DEF CredOf, Refreshing, WithProjects, Forging
<1> QED
    BY <1>8, <1>9, <1>10, <1>12 DEF Done, RequestInv

LEMMA RestoreCookieStep ==
    ASSUME SessionInv, NEW r \in Requests, RestoreCookie(r)
    PROVE  Done(r)
<1>1. /\ pc[r] = "restored" /\ pc' = [pc EXCEPT ![r] = "refreshing"]
      /\ jar' = [jar EXCEPT ![work[r].url] = work[r].for] /\ LeadAstray(r, AwaitCookie)
      /\ UNCHANGED <<base, shared, live, work, sessions, failures, bare, overtaken, keyless>>
    BY DEF RestoreCookie, Goes, SetCookie
<1>2. RequestInv(r) /\ work[r] \in Work
    BY DEF SessionInv, TypeInv
<1>3. /\ pc' \in [Requests -> Places] /\ work' \in [Requests -> Work]
      /\ pc'[r] = "refreshing" /\ work'[r] = work[r]
      /\ \A q \in Requests \ {r} : pc'[q] = pc[q] /\ work'[q] = work[q]
    <2>1. "refreshing" \in Places /\ TypeInv
        BY DEF SessionInv, Places
    <2> QED BY <1>1, <2>1, Went
<1>4. TypeInv'
    BY <1>1, <1>2, <1>3 DEF SessionInv, TypeInv, LeadAstray, AwaitCookie, Work
<1>5. Alone(r)
    BY <1>1, <1>3 DEF Alone, LeadAstray
<1>6. PlaceOf(r)' /\ CredOf(r)'
    BY <1>1, <1>2, <1>3 DEF RequestInv, PlaceOf, CredOf, Refreshing, WithProjects, Forging
<1>7. AccessOf(r)'
    <2>1. r \notin astray' => work[r].url = base /\ r \notin astray
        BY <1>1, <1>2 DEF RequestInv, OwnOf, AccessOf, LeadAstray
    <2>2. base' = base /\ base \in DOMAIN jar
        BY <1>1 DEF SessionInv, TypeInv
    <2> QED BY <1>1, <1>3, <2>1, <2>2 DEF AccessOf, Granted, WithTokens, WithProjects, Forging
<1>8. RefreshOf(r)'
    BY <1>1, <1>2, <1>3 DEF RequestInv, PlaceOf, OwnOf, RefreshOf, AwaitToken, Refreshing,
                            WithTokens, WithProjects, Forging
<1> QED
    BY <1>4, <1>5, <1>6, <1>7, <1>8 DEF Done, RequestInv, OwnOf

LEMMA RefreshAccessStep ==
    ASSUME SessionInv, NEW r \in Requests, RefreshAccess(r)
    PROVE  Done(r)
<1> DEFINE a == jar[base]
<1>1. pc[r] = "refreshing" /\ UNCHANGED <<clientVars, live, sessions, crossVars, keyless>> /\ a \in Tokens
    BY DEF RefreshAccess, SessionInv, TypeInv
<1>2. CASE a # NoAccount /\ Send(r, a)
    <2>1. a \in Accounts
        BY <1>1, <1>2 DEF Tokens
    <2> QED BY <1>1, <1>2, <2>1, Sent
<1>3. CASE /\ IF a = NoAccount THEN UNCHANGED failures ELSE Denied(a)
           /\ Goes(r, "refreshing", "failed")
           /\ UNCHANGED work
    <2>1. failures' \in 0..MaxFailures /\ pc' = [pc EXCEPT ![r] = "failed"] /\ pc[r] \notin {"idle", "failed"}
        BY <1>3, FailuresCounted DEF Goes
    <2> QED BY <1>1, <1>3, <2>1, Failed
<1> QED
    BY <1>2, <1>3 DEF RefreshAccess

LEMMA DropExpiredStep ==
    ASSUME SessionInv, NEW r \in Requests, DropExpired(r)
    PROVE  Done(r)
<1>1. /\ DOMAIN sessions' = DOMAIN sessions \ {r}
      /\ UNCHANGED <<clientVars, live, pc, work, failures, crossVars, keyless>>
    BY DEF DropExpired
<1>2. TypeInv' /\ Alone(r)
    BY <1>1 DEF SessionInv, TypeInv, clientVars, crossVars, Alone
<1>3. RequestInv(r)'
    BY <1>1 DEF SessionInv, RequestInv, PlaceOf, CredOf, OwnOf, AccessOf, RefreshOf, AwaitToken, Refreshing,
                clientVars, crossVars
<1> QED
    BY <1>2, <1>3 DEF Done

-------------------------------------------------------------------------------
(* Every step                                                               *)

LEMMA OthersKept ==
    ASSUME SessionInv, NEW r \in Requests, Done(r), NEW q \in Requests
    PROVE  RequestInv(q)'
<1>1. CASE q = r
    BY <1>1 DEF Done
<1>2. CASE q # r
    <2>1. pc'[q] = pc[q] /\ work'[q] = work[q] /\ RequestInv(q)
        BY <1>2 DEF Done, Alone, SessionInv
    <2>2. PlaceOf(q)'
        BY <2>1 DEF Done, Alone, RequestInv, PlaceOf, Refreshing
    <2>3. CredOf(q)'
        BY <2>1 DEF RequestInv, CredOf, Refreshing
    <2>4. AccessOf(q)'
        BY <1>2, <2>1 DEF Done, Alone, RequestInv, OwnOf, AccessOf, AwaitURL, AwaitCookie, Refreshing
    <2>5. RefreshOf(q)'
        <3>1. /\ q \in bare' <=> q \in bare
              /\ q \in AwaitToken' <=> q \in AwaitToken
              /\ q \in overtaken => q \in overtaken'
              /\ q \in AwaitToken \ overtaken' => shared' = shared
              /\ pc[q] = "captured" => q \in AwaitToken
            BY <1>2, <2>1 DEF Done, Alone, AwaitToken, Refreshing
        <3> QED BY <2>1, <3>1 DEF RequestInv, OwnOf, RefreshOf, Refreshing
    <2> QED BY <2>2, <2>3, <2>4, <2>5 DEF RequestInv, OwnOf
<1> QED
    BY <1>1, <1>2

LEMMA SessionsKept ==
    ASSUME SessionInv, NEW r \in Requests, Login(r) \/ Refresh(r) \/ Answer(r) \/ CaptureCookie(r) \/ ReadCookie(r)
    PROVE  sessions' = sessions /\ pc[r] # "stored"
BY Zenon DEF Login, Refresh, SetBaseURL, SignIn, Answer, CaptureCookie, ReadCookie, FetchProjects, NextProject,
       ForgeJWT, ListAPIKeys, DeleteAPIKey, CreateAPIKey, RestoreToken, RestoreCookie, RefreshAccess, Send, Goes

LEMMA StepDone ==
    ASSUME SessionInv, NEW r \in Requests,
           \/ Login(r) \/ Refresh(r) \/ Answer(r) \/ CaptureCookie(r) \/ ReadCookie(r)
           \/ StoreSession(r) \/ DropExpired(r)
    PROVE  Done(r)
BY SetBaseURLStep, SignInStep, AnswerStep, CaptureCookieStep, ReadCookieStep, FetchProjectsStep, NextProjectStep,
   ForgeJWTStep, ListAPIKeysStep, DeleteAPIKeyStep, CreateAPIKeyStep, StoreSessionStep,
   RestoreTokenStep, RestoreCookieStep, RefreshAccessStep, DropExpiredStep DEF Login, Refresh

LEMMA SessionStep ==
    ASSUME SessionInv, [Next]_vars
    PROVE  SessionInv'
<1>1. ASSUME NEW r \in Requests,
             \/ Login(r) \/ Refresh(r) \/ Answer(r) \/ CaptureCookie(r) \/ ReadCookie(r)
             \/ StoreSession(r) \/ DropExpired(r)
      PROVE  SessionInv'
    <2>1. Done(r)
        BY <1>1, StepDone
    <2>2. TypeInv' /\ \A q \in Requests : RequestInv(q)'
        BY <2>1, OthersKept DEF Done
    <2>3. \A q \in Requests \ {r} : pc'[q] = pc[q] /\ SessionOf(q)' = SessionOf(q)
        BY <2>1 DEF Done, Alone, SessionOf
    <2>4. DOMAIN sessions \subseteq Requests
        BY DEF SessionInv, TypeInv
    <2>5. StoredInv'
        <3>1. CASE Login(r) \/ Refresh(r) \/ Answer(r) \/ CaptureCookie(r) \/ ReadCookie(r)
            BY <2>3, <2>4, <3>1, SessionsKept DEF SessionInv, StoredInv
        <3>2. CASE StoreSession(r)
            <4>1. /\ pc'[r] = "stored" /\ SessionOf(r)' = SessionOf(r)
                  /\ sessions' = [q \in DOMAIN sessions \cup {r} |->
                                     IF q = r THEN SessionOf(r) ELSE sessions[q]]
                BY <3>2 DEF StoreSession, Goes, SessionOf, SessionInv, TypeInv
            <4> QED BY <2>3, <2>4, <4>1 DEF SessionInv, StoredInv
        <3>3. CASE DropExpired(r)
            <4>1. sessions' = [q \in DOMAIN sessions \ {r} |-> sessions[q]]
                BY <3>3 DEF DropExpired
            <4> QED BY <2>3, <2>4, <4>1 DEF SessionInv, StoredInv
        <3> QED BY <1>1, <3>1, <3>2, <3>3
    <2> QED BY <2>2, <2>5 DEF SessionInv
<1>2. CASE UNCHANGED vars
    BY <1>2 DEF vars, clientVars, crossVars, SessionInv, TypeInv, StoredInv, SessionOf, RequestInv, PlaceOf, CredOf,
                OwnOf, AccessOf, RefreshOf, AwaitToken, Refreshing
<1> QED
    BY <1>1, <1>2 DEF Next

LEMMA SessionInit == Init => SessionInv
<1> SUFFICES ASSUME Init PROVE SessionInv
    OBVIOUS
<1> USE SessionsAssumption DEF SessionsAssumption, Init
<1>1. Blank \in Work
    BY DEF Blank, Work, Tokens
<1>2. TypeInv
    BY <1>1 DEF TypeInv, Tokens, Keys, Places
<1>3. \A r \in Requests : RequestInv(r)
    BY DEF RequestInv, PlaceOf, CredOf, OwnOf, AccessOf, RefreshOf, AwaitToken, Blank, Refreshing,
           Granted, WithTokens, WithProjects, Forging
<1>4. StoredInv
    BY DEF StoredInv
<1> QED
    BY <1>2, <1>3, <1>4 DEF SessionInv

LEMMA SessionInvariance == Spec => []SessionInv
BY SessionInit, SessionStep, PTL DEF Spec

\* Every variable of Sessions keeps its type; in particular a request that is after the
\* key of a user has one of its project's (UserOf is defined).
THEOREM TypeCorrect == Spec => []SessionsTypeOK
<1>1. SessionInv => SessionsTypeOK
    <2> SUFFICES ASSUME SessionInv PROVE SessionsTypeOK
        OBVIOUS
    <2>1. \A r \in Requests : work[r] \in Work
        BY DEF SessionInv, TypeInv
    <2>2. \A r \in Requests : work[r].creds \subseteq Credentials /\ work[r].seen \subseteq Credentials
        BY <2>1 DEF Work
    <2>3. \A r \in Requests : pc[r] \in Forging => work[r].nth \in DOMAIN UsersOf[work[r].project]
        BY DEF SessionInv, RequestInv, CredOf
    <2> QED BY <2>2, <2>3 DEF SessionInv, TypeInv, SessionsTypeOK, Forging
<1> QED
    BY <1>1, SessionInvariance, PTL

\* The access token of a login is its own account's, and so is that of a refresh unless
\* another request wrote the URL or the jar before it was sent; the refresh token is of
\* the same account unless another request wrote the shared field, or the answer set no
\* cookie; and a login's session has credentials, of its own account's projects only.
THEOREM TokensAreOwn == Spec => []OwnUnlessCrossed
<1>1. SessionInv => OwnUnlessCrossed
    <2> SUFFICES ASSUME SessionInv, NEW r \in DOMAIN sessions
                 PROVE  LET s == sessions[r] IN
                        /\ s.kind = "login" \/ r \notin astray => s.account = s.for
                        /\ r \notin overtaken \cup bare => s.refresh = s.account
                        /\ r \in bare \ overtaken /\ s.kind = "refresh" => s.refresh = s.for
                        /\ s.kind = "refresh" <=> s.creds = {}
                        /\ \A c \in s.creds : \E p \in ProjectsOf[s.for] :
                              \E i \in DOMAIN UsersOf[p] : c.user = UsersOf[p][i]
        BY DEF OwnUnlessCrossed
    <2>1. /\ r \in Requests /\ pc[r] = "stored" /\ sessions[r] = SessionOf(r) /\ RequestInv(r)
          /\ work[r] \in Work
        BY DEF SessionInv, TypeInv, StoredInv
    <2>2. /\ sessions[r].for = work[r].for /\ sessions[r].account = work[r].account
          /\ sessions[r].refresh = work[r].refresh /\ sessions[r].kind = work[r].kind
          /\ sessions[r].creds = work[r].creds
        BY <2>1 DEF SessionOf
    <2>3. /\ work[r].kind = "login" \/ r \notin astray => work[r].account = work[r].for
          /\ r \notin overtaken \cup bare => work[r].refresh = work[r].account
          /\ r \in bare \ overtaken /\ work[r].kind = "refresh" => work[r].refresh = work[r].for
        BY <2>1 DEF RequestInv, OwnOf, AccessOf, RefreshOf, Refreshing, Granted, WithTokens
    <2>4. work[r].kind = "refresh" <=> work[r].creds = {}
        BY <2>1 DEF RequestInv, CredOf, Refreshing
    <2>5. \A c \in work[r].creds : \E p \in ProjectsOf[work[r].for] : c.user \in Range(UsersOf[p])
        BY <2>1 DEF RequestInv, CredOf
    <2> QED BY <2>2, <2>3, <2>4, <2>5 DEF Range
<1> QED
    BY <1>1, SessionInvariance, PTL

-------------------------------------------------------------------------------
(* The keys                                                                 *)

Replaced(u) ==
    \/ live[u] # {}
    \/ u \in keyless
    \/ \E q \in Requests : pc[q] = "create" /\ UserOf(q) = u

\* KeysReplaced, of every request and not only of those that have a session.
KeyOf(r) ==
    \A c \in work[r].creds :
        c.key \notin live[c.user] => Replaced(c.user) /\ \E q \in Requests \ {r} : c \in work[q].seen

KeyInv == \A r \in Requests : KeyOf(r)

\* A step that has nothing to do with IAM's keys, or only lists them.
LEMMA KeysLeftAlone ==
    ASSUME SessionInv, KeyInv, NEW r \in Requests, Done(r), UNCHANGED <<live, keyless>>, pc[r] # "create",
           work[r].seen \subseteq work'[r].seen,
           \A c \in work'[r].creds : c \in work[r].creds \/ c.key \in live[c.user]
    PROVE  KeyInv'
<1> SUFFICES ASSUME NEW q \in Requests, NEW c \in work'[q].creds, c.key \notin live[c.user]
             PROVE  /\ Replaced(c.user)'
                    /\ \E p \in Requests \ {q} : c \in work'[p].seen
    BY DEF KeyInv, KeyOf
<1>1. \A p \in Requests \ {r} : pc'[p] = pc[p] /\ work'[p] = work[p] /\ UserOf(p)' = UserOf(p)
    BY DEF Done, Alone, UserOf
<1>2. c \in work[q].creds
    BY <1>1
<1>3. Replaced(c.user) /\ \E p \in Requests \ {q} : c \in work[p].seen
    BY <1>2 DEF KeyInv, KeyOf
<1>4. Replaced(c.user)'
    BY <1>1, <1>3 DEF Replaced
<1> QED
    BY <1>1, <1>3, <1>4

LEMMA CredentialsKept ==
    ASSUME SessionInv, NEW r \in Requests,
           \/ SetBaseURL(r) \/ SignIn(r) \/ Answer(r) \/ FetchProjects(r) \/ NextProject(r) \/ ForgeJWT(r)
           \/ RestoreToken(r) \/ RestoreCookie(r) \/ RefreshAccess(r)
           \/ Answer(r) \/ CaptureCookie(r) \/ ReadCookie(r) \/ StoreSession(r)
    PROVE  /\ work'[r].creds = work[r].creds /\ work'[r].seen = work[r].seen
           /\ UNCHANGED <<live, keyless>> /\ pc[r] # "create"
<1>1. work \in [Requests -> Work] /\ work[r] \in Work
    BY DEF SessionInv, TypeInv
<1>2. UNCHANGED <<live, keyless>> /\ pc[r] # "create"
    BY Zenon DEF SetBaseURL, SignIn, Answer, FetchProjects, NextProject, ForgeJWT, RestoreToken, RestoreCookie,
           RefreshAccess, CaptureCookie, ReadCookie, StoreSession, Goes
<1>3. SetBaseURL(r) => work'[r].creds = work[r].creds /\ work'[r].seen = work[r].seen
    BY <1>1 DEF SetBaseURL, Work
<1>4. SignIn(r) => work'[r].creds = work[r].creds /\ work'[r].seen = work[r].seen
    BY <1>1 DEF SignIn, Send, Work
<1>5. FetchProjects(r) => work'[r].creds = work[r].creds /\ work'[r].seen = work[r].seen
    BY <1>1 DEF FetchProjects, Work
<1>6. NextProject(r) => work'[r].creds = work[r].creds /\ work'[r].seen = work[r].seen
    <2>1. ASSUME NEW p \in work[r].left,
                 work' = [work EXCEPT ![r].left = @ \ {p}, ![r].project = p, ![r].nth = 1]
          PROVE  work'[r].creds = work[r].creds /\ work'[r].seen = work[r].seen
        BY <1>1, <2>1 DEF Work
    <2> QED BY <2>1, Zenon DEF NextProject
<1>7. ForgeJWT(r) => work'[r].creds = work[r].creds /\ work'[r].seen = work[r].seen
    BY <1>1 DEF ForgeJWT, NextUser, Work
<1>8. RestoreToken(r) => work'[r].creds = work[r].creds /\ work'[r].seen = work[r].seen
    <2>1. ASSUME NEW q \in Requests,
                 work' = [work EXCEPT ![r].kind = "refresh", ![r].for = work[q].refresh, ![r].url = base]
          PROVE  work'[r].creds = work[r].creds /\ work'[r].seen = work[r].seen
        BY <1>1, <2>1 DEF Work
    <2> QED BY <2>1, Zenon DEF RestoreToken
<1>9. RefreshAccess(r) => work'[r].creds = work[r].creds /\ work'[r].seen = work[r].seen
    BY <1>1 DEF RefreshAccess, Send, Work
<1>10. ReadCookie(r) => work'[r].creds = work[r].creds /\ work'[r].seen = work[r].seen
    BY <1>1 DEF ReadCookie, Work
<1>11. RestoreCookie(r) \/ Answer(r) \/ CaptureCookie(r) \/ StoreSession(r) => work' = work
    BY DEF RestoreCookie, Answer, CaptureCookie, StoreSession
<1> QED
    BY <1>2, <1>3, <1>4, <1>5, <1>6, <1>7, <1>8, <1>9, <1>10, <1>11

\* A listing takes a key that is there, or only notes it.
LEMMA ListedKeys ==
    ASSUME SessionInv, KeyInv, NEW r \in Requests, ListAPIKeys(r), Done(r)
    PROVE  KeyInv'
<1> DEFINE u == UserOf(r)
<1>1. pc[r] = "list" /\ UNCHANGED <<clientVars, live, sessions, crossVars, keyless>>
    BY DEF ListAPIKeys
<1>2. /\ u \in Users /\ work[r] \in Work /\ work \in [Requests -> Work] /\ live[u] \subseteq Keys
    BY <1>1, UserAtHand DEF Forging, SessionInv, TypeInv
<1>3. \/ \E k \in live[u] :
           \/ Credential(r, "list", k)
           \/ /\ Goes(r, "list", "delete")
              /\ work' = [work EXCEPT ![r].seen = @ \cup {[user |-> u, key |-> k]}]
      \/ work' = work
    BY Zenon DEF ListAPIKeys
<1>4. \A k \in live[u] : [user |-> u, key |-> k] \in Credentials
    BY <1>2 DEF Credentials
<1>5. /\ work[r].seen \subseteq work'[r].seen
      /\ \A c \in work'[r].creds : c \in work[r].creds \/ c.key \in live[c.user]
    <2>1. ASSUME NEW k \in live[u], Credential(r, "list", k)
          PROVE  /\ work'[r].creds = work[r].creds \cup {[user |-> u, key |-> k]}
                 /\ work'[r].seen = work[r].seen
        BY <1>1, <1>2, <2>1, CredentialQuiet DEF Forging
    <2>2. ASSUME NEW k \in live[u], Goes(r, "list", "delete"),
                 work' = [work EXCEPT ![r].seen = @ \cup {[user |-> u, key |-> k]}]
          PROVE  work'[r].creds = work[r].creds /\ work[r].seen \subseteq work'[r].seen
        BY <1>2, <2>2 DEF Work
    <2>3. ASSUME NEW k \in live[u], NEW c \in {[user |-> u, key |-> k]}
          PROVE  c.key \in live[c.user]
        BY <2>3
    <2> QED BY <1>3, <2>1, <2>2, <2>3
<1> QED
    BY <1>1, <1>5, KeysLeftAlone

\* A deletion makes a gap, and this request is there to close it.  The key is one that it
\* has seen, and none of its own: those are of users of other projects.
LEMMA DeletedKeys ==
    ASSUME SessionInv, KeyInv, NEW r \in Requests, DeleteAPIKey(r)
    PROVE  KeyInv'
<1>0. PICK u : u = UserOf(r)
    OBVIOUS
<1>1. /\ pc[r] = "delete" /\ pc' = [pc EXCEPT ![r] = "create"] /\ work' = work /\ keyless' = keyless
      /\ live' = live \/ live' = [live EXCEPT ![u] = @ \ Listed(r)]
    BY <1>0 DEF DeleteAPIKey, AfterDelete, Goes
<1>2. /\ u \in Users /\ u \in Range(UsersOf[work[r].project]) /\ work[r] \in Work
      /\ work[r].for \in Accounts
    BY <1>0, <1>1, UserAtHand DEF Forging
<1>3. /\ pc'[r] = "create" /\ \A p \in Requests \ {r} : pc'[p] = pc[p]
      /\ \A x \in Users : live'[x] \subseteq live[x] /\ live[x] \subseteq live'[x] \cup Listed(r)
      /\ \A x \in Users \ {u} : live'[x] = live[x]
    BY <1>1, <1>2 DEF SessionInv, TypeInv
<1>4. \A p \in Requests : UserOf(p)' = UserOf(p)
    BY <1>1 DEF UserOf
<1>5. Replaced(u)'
    BY <1>0, <1>3, <1>4 DEF Replaced
<1>6. \A x \in Users : Replaced(x) => Replaced(x)'
    <2> SUFFICES ASSUME NEW x \in Users \ {u}, Replaced(x) PROVE Replaced(x)'
        BY <1>5
    <2> QED BY <1>1, <1>3, <1>4 DEF Replaced
<1> SUFFICES ASSUME NEW q \in Requests, NEW c \in work[q].creds, c.key \notin live'[c.user]
             PROVE  Replaced(c.user)' /\ \E p \in Requests \ {q} : c \in work[p].seen
    BY <1>1 DEF KeyInv, KeyOf
<1>7. c \in Credentials /\ c.user \in Users
    BY DEF SessionInv, TypeInv, Work, Credentials
<1>8. CASE c.key \notin live[c.user]
    BY <1>6, <1>7, <1>8 DEF KeyInv, KeyOf
<1>9. CASE c.key \in live[c.user]
    <2>1. c.user = u /\ c.key \in Listed(r)
        BY <1>3, <1>7, <1>9
    <2>2. PICK s \in work[r].seen : s.user = u /\ s.key = c.key
        BY <1>0, <2>1 DEF Listed
    <2>3. s = c
        BY <1>2, <1>7, <2>1, <2>2 DEF Work, Credentials
    <2>4. q # r
        <3>1. SUFFICES ASSUME q = r PROVE FALSE
            OBVIOUS
        <3>2. RequestInv(r)
            BY DEF SessionInv
        <3>3. PICK p \in ProjectsOf[work[r].for] : c.user \in Range(UsersOf[p]) /\ p # work[r].project
            BY <1>1, <3>1, <3>2 DEF RequestInv, CredOf, Forging
        <3>4. work[r].project \in ProjectsOf[work[r].for]
            BY <1>1, <3>2 DEF RequestInv, CredOf, Forging
        <3> QED BY <1>2, <2>1, <3>3, <3>4, SessionsAssumption DEF SessionsAssumption
    <2> QED BY <1>5, <2>1, <2>2, <2>3, <2>4
<1> QED
    BY <1>8, <1>9

\* The gap is closed, or it is known that it could not be.
LEMMA CreatedKeys ==
    ASSUME SessionInv, KeyInv, NEW r \in Requests, CreateAPIKey(r)
    PROVE  KeyInv'
<1> DEFINE u == UserOf(r)
<1>1. /\ pc[r] = "create" /\ UNCHANGED <<clientVars, sessions, crossVars>>
      /\ \/ /\ live' = [live EXCEPT ![u] = @ \cup {r}]
            /\ Credential(r, "create", r)
            /\ keyless' = keyless \ {u}
         \/ /\ NextUser(r, "create")
            /\ keyless' = IF live[u] = {} THEN keyless \cup {u} ELSE keyless
            /\ live' = live
    BY DEF CreateAPIKey
<1>2. u \in Users /\ r \in Keys /\ work \in [Requests -> Work] /\ work[r] \in Work
    BY <1>1, UserAtHand DEF Forging, Keys, SessionInv, TypeInv
<1>3. /\ \A x \in Users : live[x] \subseteq live'[x]
      /\ \A x \in Users \ {u} : keyless \cap {x} = keyless' \cap {x}
      /\ live'[u] # {} \/ u \in keyless'
    BY <1>1, <1>2 DEF SessionInv, TypeInv
<1>4. \A p \in Requests \ {r} : pc'[p] = pc[p] /\ work'[p] = work[p] /\ UserOf(p)' = UserOf(p)
    BY CreateAPIKeyStep DEF Done, Alone, UserOf
<1>5. \A x \in Users : Replaced(x) => Replaced(x)'
    BY <1>3, <1>4 DEF Replaced
<1>6. /\ work'[r].seen = work[r].seen
      /\ \A c \in work'[r].creds : c \in work[r].creds \/ c.key \in live'[c.user]
    <2>1. CASE /\ live' = [live EXCEPT ![u] = @ \cup {r}]
               /\ Credential(r, "create", r)
        <3>1. /\ work'[r].creds = work[r].creds \cup {[user |-> u, key |-> r]}
              /\ work'[r].seen = work[r].seen
            BY <1>1, <1>2, <2>1, CredentialQuiet DEF Forging
        <3>2. r \in live'[u]
            BY <1>2, <2>1 DEF SessionInv, TypeInv
        <3>3. \A c \in {[user |-> u, key |-> r]} : c.key \in live'[c.user]
            BY <3>2
        <3> QED BY <3>1, <3>3
    <2>2. CASE NextUser(r, "create")
        BY <1>2, <2>2 DEF NextUser, Work
    <2> QED BY <1>1, <2>1, <2>2
<1> SUFFICES ASSUME NEW q \in Requests, NEW c \in work'[q].creds, c.key \notin live'[c.user]
             PROVE  Replaced(c.user)' /\ \E p \in Requests \ {q} : c \in work'[p].seen
    BY DEF KeyInv, KeyOf
<1>7. c \in work[q].creds
    BY <1>4, <1>6
<1>8. c.user \in Users
    BY <1>7 DEF SessionInv, TypeInv, Work, Credentials
<1>9. Replaced(c.user) /\ \E p \in Requests \ {q} : c \in work[p].seen
    BY <1>3, <1>7, <1>8 DEF KeyInv, KeyOf
<1> QED
    BY <1>4, <1>5, <1>6, <1>8, <1>9

LEMMA KeyStep ==
    ASSUME SessionInv, KeyInv, [Next]_vars
    PROVE  KeyInv'
<1>1. ASSUME NEW r \in Requests,
             \/ Login(r) \/ Refresh(r) \/ Answer(r) \/ CaptureCookie(r) \/ ReadCookie(r)
             \/ StoreSession(r) \/ DropExpired(r)
      PROVE  KeyInv'
    <2>1. Done(r)
        BY <1>1, StepDone
    <2>2. CASE ListAPIKeys(r)
        BY <2>1, <2>2, ListedKeys
    <2>3. CASE DeleteAPIKey(r)
        BY <2>3, DeletedKeys
    <2>4. CASE CreateAPIKey(r)
        BY <2>4, CreatedKeys
    <2>5. CASE DropExpired(r)
        BY <2>5 DEF DropExpired, KeyInv, KeyOf, Replaced, UserOf
    <2>6. CASE ~ListAPIKeys(r) /\ ~DeleteAPIKey(r) /\ ~CreateAPIKey(r) /\ ~DropExpired(r)
        BY <1>1, <2>1, <2>6, CredentialsKept, KeysLeftAlone DEF Login, Refresh
    <2> QED BY <2>2, <2>3, <2>4, <2>5, <2>6
<1>2. CASE UNCHANGED vars
    BY <1>2 DEF vars, KeyInv, KeyOf, Replaced, UserOf
<1> QED
    BY <1>1, <1>2 DEF Next

\* A key that a session holds is gone only when another login has listed it without its
\* secret; and then its user has another key, or is about to, or it could not be created.
THEOREM KeysAreReplaced == Spec => []KeysReplaced
<1>1. Init => KeyInv
    BY SessionsAssumption DEF SessionsAssumption, Init, KeyInv, KeyOf, Blank
<1>2. SessionInv /\ KeyInv => KeysReplaced
    <2> SUFFICES ASSUME SessionInv, KeyInv, NEW r \in DOMAIN sessions, NEW c \in sessions[r].creds,
                        c.key \notin live[c.user]
                 PROVE  /\ \E q \in Requests \ {r} : c \in work[q].seen
                        /\ Replaced(c.user)
        BY DEF KeysReplaced, Replaced
    <2>1. r \in Requests /\ sessions[r] = SessionOf(r)
        BY DEF SessionInv, TypeInv, StoredInv
    <2>2. c \in work[r].creds
        BY <2>1 DEF SessionOf
    <2> QED BY <2>1, <2>2 DEF KeyInv, KeyOf
<1>3. SessionInv /\ KeyInv /\ [Next]_vars => KeyInv'
    BY KeyStep
<1> QED
    BY <1>1, <1>2, <1>3, SessionInvariance, PTL DEF Spec
===============================================================================
