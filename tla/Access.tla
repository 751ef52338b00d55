------------------------------- MODULE Access -------------------------------
(***************************************************************************)
(* Who may do what in the API: sign-in with GitHub and sessions (services/ *)
(* auth.ts, repositories/auth.ts), the check in front of every tenant      *)
(* route (middleware/auth.ts), API keys (services/api-keys.ts) and the     *)
(* operator's script that grants and withdraws memberships.                *)
(*                                                                         *)
(* One browser has several tabs that share its cookies; a request carries  *)
(* the cookies of the moment it is sent and is handled in steps between    *)
(* which the tables may change, by other API processes too.  Tokens are    *)
(* random and stored as hashes, so a token is the row it opens; the        *)
(* browser token of a login stands for that login, the CSRF token of a     *)
(* session for that session.                                               *)
(***************************************************************************)
EXTENDS Integers, FiniteSets

CONSTANTS
    Tabs,         \* pages of one browser
    Users,        \* GitHub accounts
    Tenants,
    Logins,       \* rows oauth_logins may hold
    Sessions,     \* rows auth_sessions may hold
    ApiKeys,      \* rows api_keys may hold
    LoginLife,    \* LOGIN_SECONDS
    SessionLife,  \* SESSION_SECONDS
    KeyLife,      \* expiresInDays
    MaxTime       \* bound on the clock, for TLC

AccessAssumption == {LoginLife, SessionLife, KeyLife, MaxTime} \subseteq Nat

None == -1

Time == 0 .. MaxTime

VARIABLES
    now,
    users,       \* GitHub accounts with a row
    members,     \* tenant_memberships
    login,       \* oauth_logins: "new", "open" or "gone", and its expiry
    session,     \* auth_sessions
    key,         \* api_keys
    jar,         \* the cookies of the browser
    tab,         \* each tab: what its page shows, and its request
    client,      \* an integration that sends events with an API key
    opened       \* history: sessions that came of each login

vars == <<now, users, members, login, session, key, jar, tab, client, opened>>

NoLogin == [at |-> "new", expires |-> None]

NoSession == [at |-> "new", user |-> None, expires |-> None]

NoKey == [at |-> "new", tenant |-> None, by |-> None, expires |-> None, revoked |-> FALSE]

NoRequest == [at |-> "idle", login |-> None, cookie |-> None, tenant |-> None,
              key |-> None, as |-> None]

NoEvent == [at |-> "idle", key |-> None, tenant |-> None, late |-> FALSE]

\* One type invariant for the tables, the browser and the requests.
TypeOK ==
    /\ now \in Time
    /\ users \subseteq Users /\ members \subseteq Users \X Tenants
    /\ login \in [Logins -> [at : {"new", "open", "gone"}, expires : Int]]
    /\ session \in [Sessions -> [at : {"new", "open", "gone"}, user : users \cup {None}, expires : Int]]
    /\ key \in [ApiKeys -> [at : {"new", "open", "gone"}, tenant : Tenants \cup {None},
                         by : users \cup {None}, expires : Int, revoked : BOOLEAN]]
    /\ jar \in [oauth : Logins \cup {None}, session : Sessions \cup {None}]
    /\ \A t \in Tabs :
          /\ tab[t].csrf \in Sessions \cup {None} /\ tab[t].shown \in users \cup {None}
          /\ tab[t].request.at \in {"idle", "found", "consumed", "issuing", "revoking", "leaving"}
    /\ client.at \in {"idle", "sent", "allowed"}
    /\ opened \in [Logins -> Nat]

Init ==
    /\ now = 0
    /\ users = {} /\ members = {}
    /\ login = [l \in Logins |-> NoLogin]
    /\ session = [s \in Sessions |-> NoSession]
    /\ key = [k \in ApiKeys |-> NoKey]
    /\ jar = [oauth |-> None, session |-> None]
    /\ tab = [t \in Tabs |-> [csrf |-> None, shown |-> None, request |-> NoRequest]]
    /\ client = NoEvent
    /\ opened = [l \in Logins |-> 0]

Unused(table) == {i \in DOMAIN table : table[i].at = "new"}

Fresh(table) == CHOOSE i \in DOMAIN table : table[i].at = "new"

\* deleteMany of what has expired, and of the rows in R.
Swept(table, R) ==
    [i \in DOMAIN table |->
        IF table[i].at = "open" /\ (table[i].expires <= now \/ i \in R)
        THEN [table[i] EXCEPT !.at = "gone"] ELSE table[i]]

At(t, at) == tab[t].request.at = at

Goes(t, at) == tab' = [tab EXCEPT ![t].request.at = at]

\* A tab has one request under way.
Sends(t, request) ==
    /\ At(t, "idle")
    /\ tab' = [tab EXCEPT ![t].request = request]

Answered(t) == tab' = [tab EXCEPT ![t].request = NoRequest]

-----------------------------------------------------------------------------
(* Sign-in.                                                                *)

\* GET /auth/github: a new login, and the browser's cookie for it.
Begin ==
    /\ Unused(login) # {}
    /\ LET l == Fresh(login)
       IN /\ login' = [Swept(login, {}) EXCEPT ![l] = [at |-> "open", expires |-> now + LoginLife]]
          /\ jar' = [jar EXCEPT !.oauth = l]
    /\ UNCHANGED <<now, users, members, session, key, tab, client, opened>>

\* GitHub sends a tab back with a state; a reload sends it once more.
\* consumeLogin reads the row of the state, which must be that of the cookie.  Any
\* other callback is answered 400: denied at GitHub, without a code, with the state
\* of another login or of one that is gone.  Every answer clears the login cookie.
Callback(t) ==
    /\ \/ \E l \in Logins \ Unused(login) :
             /\ login[l].at = "open" /\ jar.oauth = l /\ now < login[l].expires
             /\ Sends(t, [NoRequest EXCEPT !.at = "found", !.login = l, !.cookie = jar.session])
             /\ UNCHANGED jar
       \/ At(t, "idle") /\ jar' = [jar EXCEPT !.oauth = None] /\ UNCHANGED tab
    /\ UNCHANGED <<now, users, members, login, session, key, client, opened>>

\* Mutant: the number of deleted rows is not looked at.
ConsumeLoginAnyway(t) ==
    LET l == tab[t].request.login
    IN /\ At(t, "found")
       /\ Goes(t, "consumed")
       /\ login' = [login EXCEPT ![l].at = "gone"]
       /\ UNCHANGED <<now, users, members, session, key, jar, client, opened>>

\* consumeLogin deletes it: only one of two transactions finds it there.
ConsumeLogin(t) ==
    LET l == tab[t].request.login
    IN /\ At(t, "found")
       /\ IF login[l].at = "open"
          THEN Goes(t, "consumed") /\ login' = [login EXCEPT ![l].at = "gone"] /\ UNCHANGED jar
          ELSE Answered(t) /\ jar' = [jar EXCEPT !.oauth = None] /\ UNCHANGED login
       /\ UNCHANGED <<now, users, members, session, key, client, opened>>

\* githubIdentity fails: 502, and the login is used up.
GithubFails(t) ==
    /\ At(t, "consumed")
    /\ Answered(t) /\ jar' = [jar EXCEPT !.oauth = None]
    /\ UNCHANGED <<now, users, members, login, session, key, client, opened>>

\* githubIdentity answers for the account the user chose there; createSession
\* upserts the user and replaces the session the request came with.
CreateSession(t) ==
    /\ At(t, "consumed") /\ Unused(session) # {}
    /\ LET s == Fresh(session)
       IN \E u \in Users :
             /\ users' = users \cup {u}
             /\ session' = [Swept(session, {tab[t].request.cookie})
                               EXCEPT ![s] = [at |-> "open", user |-> u, expires |-> now + SessionLife]]
             /\ jar' = [oauth |-> None, session |-> s]
    /\ opened' = [opened EXCEPT ![tab[t].request.login] = @ + 1]
    /\ Answered(t)
    /\ UNCHANGED <<now, members, login, key, client>>

-----------------------------------------------------------------------------
(* Sessions.                                                               *)

\* findSession: the row of the cookie, unless it has expired.
Valid(s) == s # None /\ session[s].at = "open" /\ now < session[s].expires

\* GET /auth/me: the page learns who is signed in, and the CSRF token.
Me(t) ==
    /\ At(t, "idle")
    /\ tab' = [tab EXCEPT ![t] =
                  IF Valid(jar.session)
                  THEN [csrf |-> jar.session, shown |-> session[jar.session].user, request |-> NoRequest]
                  ELSE [csrf |-> None, shown |-> None, request |-> NoRequest]]
    /\ UNCHANGED <<now, users, members, login, session, key, jar, client, opened>>

\* Mutant: any CSRF token that was ever given out will do.
SessionWithAnyCsrf(t) == Valid(jar.session) /\ tab[t].csrf # None

\* session and csrf: the token must be the one of the session of the cookie.
SessionWithCsrf(t) == Valid(jar.session) /\ tab[t].csrf = jar.session

\* authorize for a method that writes.
Authorized(t, w) == SessionWithCsrf(t) /\ <<session[jar.session].user, w>> \in members

\* A request that passes its checks runs on behalf of the session's user from
\* then on; the cookie, the token and the row it was checked with are not
\* read again.  A request that is refused leaves no trace and no action.
Allowed(t, at, w, k) ==
    Sends(t, [NoRequest EXCEPT !.at = at, !.cookie = jar.session, !.tenant = w, !.key = k,
                               !.as = session[jar.session].user])

Logout(t) ==
    /\ SessionWithCsrf(t)
    /\ Allowed(t, "leaving", None, None)
    /\ UNCHANGED <<now, users, members, login, session, key, jar, client, opened>>

\* deleteSession; the answer clears the cookie, whatever it holds by then.
DeleteSession(t) ==
    /\ At(t, "leaving")
    /\ session' = [session EXCEPT ![tab[t].request.cookie].at = "gone"]
    /\ jar' = [jar EXCEPT !.session = None]
    /\ Answered(t)
    /\ UNCHANGED <<now, users, members, login, key, client, opened>>

-----------------------------------------------------------------------------
(* API keys.                                                               *)

\* issue and revoke after the checks of the service, which are those of the
\* middleware once more.
Issue(t) ==
    /\ \E w \in Tenants : Authorized(t, w) /\ Allowed(t, "issuing", w, None)
    /\ UNCHANGED <<now, users, members, login, session, key, jar, client, opened>>

Revoke(t) ==
    /\ \E w \in Tenants, k \in ApiKeys \ Unused(key) : Authorized(t, w) /\ Allowed(t, "revoking", w, k)
    /\ UNCHANGED <<now, users, members, login, session, key, jar, client, opened>>

\* create: the foreign key refuses a row without its membership (503).
CreateKey(t) ==
    /\ At(t, "issuing") /\ Unused(key) # {}
    /\ LET r == tab[t].request
       IN key' = IF <<r.as, r.tenant>> \in members
                 THEN [key EXCEPT ![Fresh(key)] = [at |-> "open", tenant |-> r.tenant, by |-> r.as,
                                                   expires |-> now + KeyLife, revoked |-> FALSE]]
                 ELSE key
    /\ Answered(t)
    /\ UNCHANGED <<now, users, members, login, session, jar, client, opened>>

\* revoke: only a key of that tenant, and 404 for any other.
RevokeKey(t) ==
    /\ At(t, "revoking")
    /\ LET r == tab[t].request
       IN key' = IF key[r.key].at = "open" /\ key[r.key].tenant = r.tenant
                 THEN [key EXCEPT ![r.key].revoked = TRUE] ELSE key
    /\ Answered(t)
    /\ UNCHANGED <<now, users, members, login, session, jar, client, opened>>

\* Mutant: the expiry of a key is not looked at.
UsableForever(k, w) == key[k].at = "open" /\ ~key[k].revoked /\ key[k].tenant = w

\* What authorize asks of a key.
Usable(k, w) ==
    /\ key[k].at = "open" /\ ~key[k].revoked
    /\ now < key[k].expires
    /\ key[k].tenant = w

\* Has this key been ended: revoked, expired, or deleted with a membership?
Ended(k) == key[k].at = "gone" \/ key[k].revoked \/ key[k].expires <= now

\* POST /events with a bearer token.
PostEvent ==
    /\ client.at = "idle"
    /\ \E k \in ApiKeys \ Unused(key), w \in Tenants :
          client' = [at |-> "sent", key |-> k, tenant |-> w, late |-> Ended(k) \/ key[k].tenant # w]
    /\ UNCHANGED <<now, users, members, login, session, key, jar, tab, opened>>

\* The guard of the route: 401 or 404, or on to the ingestion.
EventAllowed ==
    /\ client.at = "sent"
    /\ client' = IF Usable(client.key, client.tenant) THEN [client EXCEPT !.at = "allowed"] ELSE NoEvent
    /\ UNCHANGED <<now, users, members, login, session, key, jar, tab, opened>>

EventIngested ==
    /\ client.at = "allowed"
    /\ client' = NoEvent
    /\ UNCHANGED <<now, users, members, login, session, key, jar, tab, opened>>

-----------------------------------------------------------------------------
(* grant-tenant.ts, and the clock.                                         *)

Grant(u, w) ==
    /\ u \in users
    /\ members' = members \cup {<<u, w>>}
    /\ UNCHANGED <<now, users, login, session, key, jar, tab, client, opened>>

\* Mutant: keys stay when the membership goes.
WithdrawAlone(u, w) ==
    /\ <<u, w>> \in members
    /\ members' = members \ {<<u, w>>}
    /\ UNCHANGED <<now, users, login, session, key, jar, tab, client, opened>>

\* --revoke: the keys the user created for the tenant go with the membership.
Withdraw(u, w) ==
    /\ <<u, w>> \in members
    /\ members' = members \ {<<u, w>>}
    /\ key' = [k \in ApiKeys |-> IF key[k].at = "open" /\ key[k].by = u /\ key[k].tenant = w
                              THEN [key[k] EXCEPT !.at = "gone"] ELSE key[k]]
    /\ UNCHANGED <<now, users, login, session, jar, tab, client, opened>>

Tick ==
    /\ now < MaxTime
    /\ now' = now + 1
    /\ UNCHANGED <<users, members, login, session, key, jar, tab, client, opened>>

Next ==
    \/ Begin
    \/ \E t \in Tabs :
          \/ Callback(t) \/ ConsumeLogin(t) \/ GithubFails(t) \/ CreateSession(t)
          \/ Me(t) \/ Logout(t) \/ DeleteSession(t)
          \/ Issue(t) \/ Revoke(t) \/ CreateKey(t) \/ RevokeKey(t)
    \/ PostEvent \/ EventAllowed \/ EventIngested
    \/ \E u \in Users, w \in Tenants : Grant(u, w) \/ Withdraw(u, w)
    \/ Tick

Spec == Init /\ [][Next]_vars

-----------------------------------------------------------------------------
\* A login state is good for one session, however many callbacks with it are
\* under way at once, in whatever processes (consumeLogin).
OneSessionPerLogin == \A l \in Logins : opened[l] <= 1

\* What the API does for a tab it does as the user whose name the tab shows,
\* although the browser may have signed in as somebody else in another tab
\* since: the CSRF token binds the page to its session.
ActsAsShown ==
    \A t \in Tabs : tab[t].request.as # None => tab[t].request.as = tab[t].shown

\* No API key outlives the membership of the user who issued it, even if the
\* membership is withdrawn while the request that issues the key is already
\* past its check (the foreign key to tenant_memberships, ON DELETE CASCADE).
KeysNeedMembers ==
    \A k \in ApiKeys : key[k].at = "open" => <<key[k].by, key[k].tenant>> \in members

\* An event that is sent with a key that has been revoked, has expired or was
\* deleted, or is for another tenant, is never ingested.
EndedForGood == client.at = "allowed" => ~client.late

\* What a browser gets by signing in: one session, and requests in its own name.
SessionsBound == OneSessionPerLogin /\ ActsAsShown

\* What an API key is good for: while its membership lasts and it has not ended.
KeysBound == KeysNeedMembers /\ EndedForGood
=============================================================================
