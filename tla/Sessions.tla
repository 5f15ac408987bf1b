-------------------------------- MODULE Sessions --------------------------------
(***************************************************************************)
(* Logins, refreshes and the session store (internal/auth, auth_handler).  *)
(* All of them go through one HTTP client, whose base URL, cookie jar and  *)
(* last refresh token they share; and each login finds or creates, per     *)
(* project, the S3 key of one of the project's users.                      *)
(*                                                                         *)
(* A token is the account it is a token of.  IAM is external: it answers   *)
(* for an account at its own host only, and refuses a cookie of another;   *)
(* what it lists may or may not hold a key's secret; a key of a name that  *)
(* exists may or may not be created.  Only sign-ins and refreshes that it  *)
(* grants set a cookie, or set none.  Logout and Me change nothing here.   *)
(*                                                                         *)
(* A user is one of a project's users, and its keys are those of the name  *)
(* that the two of them make (S3KeyName).  So an account's projects share  *)
(* no user: names that S3KeyName makes equal are left out.                 *)
(***************************************************************************)
EXTENDS Naturals, Sequences, FiniteSets, Functions

CONSTANTS Accounts, Hosts, Projects, Users, Requests,
          IAMURL,       \* the host the server is configured with
          HostOf,       \* the host of each account's IAM
          ProjectsOf,   \* the projects of each account
          UsersOf,      \* the users of each project, in the order they are tried
          HaveKey,      \* the users that have a key at first
          Before,       \* the name of a key that no request has created
          NoAccount,
          MaxFailures   \* bound: requests that IAM fails

ASSUME SessionsAssumption ==
    /\ IAMURL \in Hosts /\ HaveKey \subseteq Users
    /\ HostOf \in [Accounts -> Hosts] /\ ProjectsOf \in [Accounts -> SUBSET Projects]
    /\ UsersOf \in [Projects -> Seq(Users)]
    /\ \A a \in Accounts : \A p, q \in ProjectsOf[a] :
          p # q => Range(UsersOf[p]) \cap Range(UsersOf[q]) = {}
    /\ NoAccount \notin Accounts /\ Before \notin Requests /\ MaxFailures \in Nat

VARIABLES base,      \* httpClient.baseURL
          jar,       \* the _refresh cookie of each host
          shared,    \* httpClient.refreshToken
          live,      \* the keys IAM holds for each user
          pc,        \* where each request is
          work,      \* what it has got so far
          sessions,  \* SessionStore.sessions: request that made it |-> the session
          failures,
          bare,      \* history: requests whose answer set no cookie
          astray,    \* history: requests whose URL or cookie another one wrote
          overtaken, \* history: requests whose refresh token another one wrote
          keyless    \* history: users whose key was not created again

clientVars == <<base, jar, shared>>
crossVars == <<bare, astray, overtaken>>
vars == <<clientVars, live, pc, work, sessions, failures, crossVars, keyless>>

Keys == Requests \cup {Before}
Tokens == Accounts \cup {NoAccount}
Places == {"idle", "signin", "sent", "signed", "captured", "projects", "next", "forge", "list",
           "delete", "create", "restored", "refreshing", "store", "stored", "failed"}

Credentials == [user : Users, key : Keys]
Blank == [kind |-> "login", for |-> NoAccount, account |-> NoAccount, refresh |-> NoAccount, url |-> NoAccount,
          left |-> {}, project |-> NoAccount, nth |-> 1, creds |-> {}, seen |-> {}]

Refreshing(r) == work[r].kind = "refresh"

Init ==
    /\ base = IAMURL
    /\ jar = [h \in Hosts |-> NoAccount]
    /\ shared = NoAccount
    /\ live = [u \in Users |-> IF u \in HaveKey THEN {Before} ELSE {}]
    /\ pc = [r \in Requests |-> "idle"]
    /\ work = [r \in Requests |-> Blank]
    /\ sessions = <<>>
    /\ failures = 0
    /\ bare = {}
    /\ astray = {}
    /\ overtaken = {}
    /\ keyless = {}

Goes(r, a, b) == pc[r] = a /\ pc' = [pc EXCEPT ![r] = b]

\* A write to the client crosses the requests that have written it themselves and
\* are yet to use what they wrote: the URL, the cookie, or the refresh token, which a
\* refresh may need until its answer brings another one.
AwaitURL == {q \in Requests : pc[q] \in {"restored", "refreshing"}}
AwaitCookie == {q \in Requests : pc[q] = "refreshing"}
AwaitToken ==
    {q \in Requests : \/ pc[q] \in {"restored", "refreshing", "captured"}
                      \/ pc[q] = "sent" /\ Refreshing(q)}

LeadAstray(r, waiting) == astray' = astray \cup (waiting \ {r})
Overtake(r) == overtaken' = (overtaken \cup AwaitToken) \ {r}

\* IAM answers a request on behalf of account a ...
Answered(a) == base = HostOf[a] /\ UNCHANGED failures

\* ... or not: the base URL is that of another host by now, or it fails.
Denied(a) ==
    \/ base # HostOf[a] /\ UNCHANGED failures
    \/ base = HostOf[a] /\ failures < MaxFailures /\ failures' = failures + 1

-------------------------------------------------------------------------------
(* IAMClient.Login                                                          *)

\* A login of the form brings its api_url, which then is everybody's.
SetBaseURL(r) ==
    /\ Goes(r, "idle", "signin")
    /\ \E a \in Accounts :
         /\ work' = [work EXCEPT ![r].for = a]
         /\ \/ base' = HostOf[a] /\ LeadAstray(r, AwaitURL)
            \/ UNCHANGED <<base, astray>>
    /\ UNCHANGED <<jar, shared, live, sessions, failures, bare, overtaken, keyless>>

\* The request for an access token of account a leaves for the base URL, which must
\* be that of a's IAM; what comes back is r's, but the jar is everybody's.
Send(r, a) ==
    /\ Goes(r, pc[r], "sent")
    /\ Answered(a)
    /\ work' = [work EXCEPT ![r].account = a, ![r].url = base]

\* The challenge, signed with the password, and the sign-in.
SignIn(r) ==
    LET a == work[r].for IN
    /\ pc[r] = "signin"
    /\ \/ Send(r, a)
       \/ Denied(a) /\ Goes(r, "signin", "failed") /\ UNCHANGED work
    /\ UNCHANGED <<clientVars, live, sessions, crossVars, keyless>>

\* A round trip later client.Do puts the cookie of the answer, if it has one, into the
\* jar, over what is there by now ...
Answer(r) ==
    /\ \/ /\ Goes(r, "sent", "signed")
          /\ jar' = [jar EXCEPT ![work[r].url] = work[r].account]
          /\ LeadAstray(r, AwaitCookie)
          /\ UNCHANGED bare
       \/ /\ Goes(r, "sent", "captured")
          /\ bare' = bare \cup {r}
          /\ UNCHANGED <<jar, astray>>
    /\ UNCHANGED <<base, shared, live, work, sessions, failures, overtaken, keyless>>

\* ... doRequest makes it everybody's refresh token ...
CaptureCookie(r) ==
    /\ Goes(r, "signed", "captured")
    /\ shared' = work[r].account
    /\ Overtake(r)
    /\ UNCHANGED <<base, jar, live, work, sessions, failures, bare, astray, keyless>>

\* ... and later, without the mutex, whatever is everybody's becomes this session's;
\* unless the rest of the answer is lost or makes no sense.
ReadCookie(r) ==
    /\ \/ /\ Goes(r, "captured", IF Refreshing(r) THEN "store" ELSE "projects")
          /\ work' = [work EXCEPT ![r].refresh = shared]
          /\ UNCHANGED failures
       \/ /\ failures < MaxFailures
          /\ failures' = failures + 1
          /\ Goes(r, "captured", "failed")
          /\ UNCHANGED work
    /\ UNCHANGED <<clientVars, live, sessions, crossVars, keyless>>

-------------------------------------------------------------------------------
(* AuthHandler.Login                                                        *)

\* GetAccount, GetProjects.
FetchProjects(r) ==
    /\ pc[r] = "projects"
    /\ \/ /\ Answered(work[r].for)
          /\ Goes(r, "projects", "next")
          /\ work' = [work EXCEPT ![r].left = ProjectsOf[work[r].for]]
       \/ Denied(work[r].for) /\ Goes(r, "projects", "failed") /\ UNCHANGED work
    /\ UNCHANGED <<clientVars, live, sessions, crossVars, keyless>>

NextProject(r) ==
    /\ \/ \E p \in work[r].left :
            /\ Goes(r, "next", IF UsersOf[p] = <<>> THEN "next" ELSE "forge")
            /\ work' = [work EXCEPT ![r].left = @ \ {p}, ![r].project = p, ![r].nth = 1]
       \/ /\ work[r].left = {}
          /\ Goes(r, "next", IF work[r].creds = {} THEN "failed" ELSE "store")
          /\ UNCHANGED work
    /\ UNCHANGED <<clientVars, live, sessions, failures, crossVars, keyless>>

UserOf(r) == UsersOf[work[r].project][work[r].nth]

\* Fault: the loop goes on past the last user.
OneUserMore(r) == work[r].nth <= Len(UsersOf[work[r].project])

MoreUsers(r) == work[r].nth < Len(UsersOf[work[r].project])

\* No credential of this user: the project's next one, or the next project.
NextUser(r, from) ==
    IF MoreUsers(r)
    THEN Goes(r, from, "forge") /\ work' = [work EXCEPT ![r].nth = @ + 1]
    ELSE Goes(r, from, "next") /\ UNCHANGED work

Credential(r, from, k) ==
    /\ Goes(r, from, "next")
    /\ work' = [work EXCEPT ![r].creds = @ \cup {[user |-> UserOf(r), key |-> k]}]

\* The only request with no token of its own: IAM goes by the cookie in the jar.
ForgeJWT(r) ==
    /\ pc[r] = "forge"
    /\ LET a == jar[base] IN
       IF a # NoAccount /\ work[r].project \in ProjectsOf[a]
       THEN \/ Answered(a) /\ Goes(r, "forge", "list") /\ UNCHANGED work
            \/ Denied(a) /\ NextUser(r, "forge")
       ELSE UNCHANGED failures /\ NextUser(r, "forge")
    /\ UNCHANGED <<clientVars, live, sessions, crossVars, keyless>>

\* A key is there, with its secret or without; or none, or the list fails.
ListAPIKeys(r) ==
    LET u == UserOf(r) IN
    /\ pc[r] = "list"
    /\ \/ /\ Answered(work[r].for)
          /\ \E k \in live[u] :
               \/ Credential(r, "list", k)
               \/ /\ Goes(r, "list", "delete")
                  /\ work' = [work EXCEPT ![r].seen = @ \cup {[user |-> u, key |-> k]}]
       \/ live[u] = {} /\ Answered(work[r].for) /\ Goes(r, "list", "create") /\ UNCHANGED work
       \/ Denied(work[r].for) /\ Goes(r, "list", "create") /\ UNCHANGED work
    /\ UNCHANGED <<clientVars, live, sessions, crossVars, keyless>>

Listed(r) == {c.key : c \in {s \in work[r].seen : s.user = UserOf(r)}}

\* Fault: the key that was listed is used although it has just been deleted.
KeepListed(r) == \E k \in Listed(r) : Credential(r, "delete", k)

AfterDelete(r) == Goes(r, "delete", "create") /\ UNCHANGED work

\* Deleted by its own id; a failure is logged.
DeleteAPIKey(r) ==
    /\ pc[r] = "delete"
    /\ \/ /\ Answered(work[r].for)
          /\ live' = [live EXCEPT ![UserOf(r)] = @ \ Listed(r)]
       \/ Denied(work[r].for) /\ UNCHANGED live
    /\ AfterDelete(r)
    /\ UNCHANGED <<clientVars, sessions, crossVars, keyless>>

CreateAPIKey(r) ==
    LET u == UserOf(r) IN
    /\ pc[r] = "create"
    /\ \/ /\ Answered(work[r].for)
          /\ live' = [live EXCEPT ![u] = @ \cup {r}]
          /\ Credential(r, "create", r)
          /\ keyless' = keyless \ {u}
       \/ /\ Denied(work[r].for) \/ (live[u] # {} /\ Answered(work[r].for))
          /\ NextUser(r, "create")
          /\ keyless' = IF live[u] = {} THEN keyless \cup {u} ELSE keyless
          /\ UNCHANGED live
    /\ UNCHANGED <<clientVars, sessions, crossVars>>

SessionOf(r) ==
    [kind |-> work[r].kind, for |-> work[r].for, account |-> work[r].account, refresh |-> work[r].refresh,
     creds |-> work[r].creds]

\* SessionStore.Set, under the access token that this request got.
StoreSession(r) ==
    /\ Goes(r, "store", "stored")
    /\ sessions' = [q \in DOMAIN sessions \cup {r} |->
                       IF q = r THEN SessionOf(r) ELSE sessions[q]]
    /\ UNCHANGED <<clientVars, live, work, failures, crossVars, keyless>>

-------------------------------------------------------------------------------
(* AuthHandler.Refresh                                                      *)

\* A client presents the refresh token of a session it once got, if that has one; the
\* base URL is read for the jar under the same mutex.
RestoreToken(r) ==
    /\ Goes(r, "idle", "restored")
    /\ \E q \in Requests :
         /\ pc[q] = "stored"
         /\ work[q].refresh # NoAccount
         /\ shared' = work[q].refresh
         /\ work' = [work EXCEPT ![r].kind = "refresh", ![r].for = work[q].refresh, ![r].url = base]
    /\ Overtake(r)
    /\ UNCHANGED <<base, jar, live, sessions, failures, bare, astray, keyless>>

\* Fault: the jar keeps the cookie of whoever came last.
KeepCookie(r) == UNCHANGED jar

SetCookie(r) == jar' = [jar EXCEPT ![work[r].url] = work[r].for]

RestoreCookie(r) ==
    /\ Goes(r, "restored", "refreshing")
    /\ SetCookie(r)
    /\ LeadAstray(r, AwaitCookie)
    /\ UNCHANGED <<base, shared, live, work, sessions, failures, bare, overtaken, keyless>>

\* The answer will be for the account of the cookie that is sent.
RefreshAccess(r) ==
    LET a == jar[base] IN
    /\ pc[r] = "refreshing"
    /\ \/ a # NoAccount /\ Send(r, a)
       \/ /\ IF a = NoAccount THEN UNCHANGED failures ELSE Denied(a)
          /\ Goes(r, "refreshing", "failed")
          /\ UNCHANGED work
    /\ UNCHANGED <<clientVars, live, sessions, crossVars, keyless>>

-------------------------------------------------------------------------------
(* The middleware                                                           *)

\* SessionStore.Get: a session past its ExpiresAt goes when it is asked for.
DropExpired(r) ==
    /\ r \in DOMAIN sessions
    /\ sessions' = [q \in DOMAIN sessions \ {r} |-> sessions[q]]
    /\ UNCHANGED <<clientVars, live, pc, work, failures, crossVars, keyless>>

Login(r) ==
    \/ SetBaseURL(r) \/ SignIn(r) \/ FetchProjects(r) \/ NextProject(r)
    \/ ForgeJWT(r) \/ ListAPIKeys(r) \/ DeleteAPIKey(r) \/ CreateAPIKey(r)

Refresh(r) == RestoreToken(r) \/ RestoreCookie(r) \/ RefreshAccess(r)

Next ==
    \E r \in Requests :
        \/ Login(r) \/ Refresh(r)
        \/ Answer(r) \/ CaptureCookie(r) \/ ReadCookie(r) \/ StoreSession(r)
        \/ DropExpired(r)

Spec == Init /\ [][Next]_vars

-------------------------------------------------------------------------------
(* Properties                                                               *)

SessionsTypeOK ==
    /\ base \in Hosts /\ jar \in [Hosts -> Tokens] /\ shared \in Tokens
    /\ live \in [Users -> SUBSET Keys]
    /\ pc \in [Requests -> Places]
    /\ \A r \in Requests :
         /\ work[r].creds \subseteq Credentials /\ work[r].seen \subseteq Credentials
         /\ pc[r] \in {"forge", "list", "delete", "create"} =>
               work[r].nth \in DOMAIN UsersOf[work[r].project]
    /\ DOMAIN sessions \subseteq Requests
    /\ failures \in 0..MaxFailures
    /\ bare \cup astray \cup overtaken \subseteq Requests /\ keyless \subseteq Users

\* Whose tokens a session has, although every request goes through one client.
\* The access token of a login is always its own account's; that of a refresh is of
\* the account whose refresh token was presented, unless another request wrote the
\* base URL or the jar before the refresh was sent.  The refresh token is that of the
\* same account, unless another request wrote its own between the answer and the
\* read; if the answer set no cookie, a refresh keeps the token that was presented,
\* and a login gets whatever the client holds.  And a login's session has a project,
\* and only of its own account's; the session of a refresh has none.
OwnUnlessCrossed ==
    \A r \in DOMAIN sessions : LET s == sessions[r] IN
        /\ s.kind = "login" \/ r \notin astray => s.account = s.for
        /\ r \notin overtaken \cup bare => s.refresh = s.account
        /\ r \in bare \ overtaken /\ s.kind = "refresh" => s.refresh = s.for
        /\ s.kind = "refresh" <=> s.creds = {}
        /\ \A c \in s.creds : \E p \in ProjectsOf[s.for] :
              \E i \in DOMAIN UsersOf[p] : c.user = UsersOf[p][i]

\* Keys are replaced, not lost: a key that a session holds is gone only when another
\* login has listed it without a secret, and then its user has another one, unless
\* that is being created or could not be.
KeysReplaced ==
    \A r \in DOMAIN sessions : \A c \in sessions[r].creds :
        c.key \notin live[c.user] =>
            /\ \E q \in Requests \ {r} : c \in work[q].seen
            /\ \/ live[c.user] # {}
               \/ c.user \in keyless
               \/ \E q \in Requests : pc[q] = "create" /\ UserOf(q) = c.user
===============================================================================
