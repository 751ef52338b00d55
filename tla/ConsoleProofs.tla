---------------------------- MODULE ConsoleProofs ----------------------------
(***************************************************************************)
(* Proofs about Console and the modules it puts side by side, for any      *)
(* number of tabs, users, keys, rows, dead letters and requests.  Each     *)
(* part has its invariant, kept by its own steps; the others do not touch  *)
(* it.                                                                     *)
(***************************************************************************)
EXTENDS Console, FiniteSetTheorems, NaturalsInduction, WellFoundedInduction, TLAPS

-----------------------------------------------------------------------------
(* Access: rows that are used once, and requests that name what they were  *)
(* checked with.                                                           *)

RequestTypes ==
    [at : {"idle", "found", "consumed", "issuing", "revoking", "leaving"}, login : Logins \cup {None},
     cookie : Sessions \cup {None}, tenant : Tenants \cup {None}, key : ApiKeys \cup {None},
     as : Users \cup {None}]

RowStates == {"new", "open", "gone"}

LoginRows == [Logins -> [at : RowStates, expires : Int]]

SessionRows == [Sessions -> [at : RowStates, user : Users \cup {None}, expires : Int]]

KeyRows ==
    [at : RowStates, tenant : Tenants \cup {None}, by : Users \cup {None}, expires : Int, revoked : BOOLEAN]

KeyTypes == [ApiKeys -> KeyRows]

TabTypes == [Tabs -> [csrf : Sessions \cup {None}, shown : Users \cup {None}, request : RequestTypes]]

AccessTypes ==
    /\ now \in Int
    /\ login \in LoginRows
    /\ session \in SessionRows
    /\ key \in KeyTypes
    /\ jar \in [oauth : Logins \cup {None}, session : Sessions \cup {None}]
    /\ tab \in TabTypes
    /\ opened \in [Logins -> Nat]

\* A request under way names the rows it was checked with.
SentFits ==
    \A t \in Tabs :
      /\ At(t, "idle") => tab[t].request = NoRequest
      /\ At(t, "found") \/ At(t, "consumed") => tab[t].request.login \in Logins
      /\ At(t, "leaving") => tab[t].request.cookie \in Sessions
      /\ At(t, "revoking") => tab[t].request.key \in ApiKeys

\* A login is followed by one session at most: until it is deleted there is none,
\* and the one tab that deleted it is the only one that may open it.
LoginUsedOnce ==
    \A l \in Logins :
      /\ opened[l] <= 1
      /\ login[l].at # "gone" => opened[l] = 0
      /\ \A t \in Tabs : At(t, "consumed") /\ tab[t].request.login = l =>
           /\ login[l].at = "gone" /\ opened[l] = 0
           /\ \A u \in Tabs : At(u, "consumed") /\ tab[u].request.login = l => u = t

\* A page that holds a CSRF token shows the user of its session, and a session that
\* was opened never changes hands.
PageOfSession ==
    /\ jar.session # None => session[jar.session].at # "new"
    /\ \A t \in Tabs : tab[t].csrf # None =>
         session[tab[t].csrf].at # "new" /\ tab[t].shown = session[tab[t].csrf].user

\* An event whose key had ended when it was sent: the key stays ended.
LateStays ==
    /\ client.at # "idle" => client.key \in ApiKeys /\ key[client.key].at # "new"
    /\ client.at = "sent" /\ client.late => Ended(client.key) \/ key[client.key].tenant # client.tenant
    /\ EndedForGood

-----------------------------------------------------------------------------
\* The effect of a step on the tabs: one of them has another request.
SetRequest(t, r) ==
    /\ tab' \in TabTypes
    /\ tab'[t].request = r /\ tab'[t].csrf = tab[t].csrf /\ tab'[t].shown = tab[t].shown
    /\ \A u \in Tabs \ {t} : tab'[u] = tab[u]

LEMMA NoRequestTyped == NoRequest \in RequestTypes /\ NoRequest.at = "idle" /\ NoRequest.as = None
BY DEF NoRequest, RequestTypes

LEMMA RequestIsSet ==
    ASSUME tab \in TabTypes, NEW t \in Tabs, NEW STATE r, r \in RequestTypes,
           tab' = [tab EXCEPT ![t].request = r]
    PROVE  SetRequest(t, r)
BY DEF SetRequest, TabTypes

LEMMA RequestGoes ==
    ASSUME tab \in TabTypes, NEW t \in Tabs, NEW a \in {"consumed"}, Goes(t, a)
    PROVE  SetRequest(t, [tab[t].request EXCEPT !.at = a])
<1>1. [tab[t].request EXCEPT !.at = a] \in RequestTypes
  BY DEF TabTypes, RequestTypes
<1> QED
  BY <1>1 DEF SetRequest, TabTypes, Goes

LEMMA RequestAnswered ==
    ASSUME tab \in TabTypes, NEW t \in Tabs, Answered(t)
    PROVE  SetRequest(t, NoRequest)
BY NoRequestTyped, RequestIsSet DEF Answered

LEMMA FreshIsNew ==
    ASSUME NEW slots, Unused(slots) # {}
    PROVE  Fresh(slots) \in DOMAIN slots /\ slots[Fresh(slots)].at = "new"
BY DEF Unused, Fresh

\* The effect of Begin on the logins.
LEMMA BeginsLogin ==
    ASSUME AccessAssumption, AccessTypes, Begin
    PROVE  /\ login' \in LoginRows /\ jar' \in [oauth : Logins \cup {None}, session : Sessions \cup {None}]
           /\ \A l \in Logins : login'[l].at = "gone" => login[l].at # "new"
           /\ \A l \in Logins : login[l].at = "gone" => login'[l].at = "gone"
           /\ jar'.session = jar.session
<1>1. Fresh(login) \in Logins /\ login[Fresh(login)].at = "new"
  BY FreshIsNew DEF Begin, AccessTypes, LoginRows
<1>2. /\ Swept(login, {}) \in LoginRows
      /\ \A l \in Logins : Swept(login, {})[l].at = "gone" => login[l].at # "new"
      /\ \A l \in Logins : login[l].at = "gone" => Swept(login, {})[l].at = "gone"
  BY DEF Swept, AccessTypes, LoginRows, RowStates
<1>3. login' = [Swept(login, {}) EXCEPT ![Fresh(login)] = [at |-> "open", expires |-> now + LoginLife]]
  BY DEF Begin
<1>4. jar' = [jar EXCEPT !.oauth = Fresh(login)]
  BY DEF Begin
<1>5. [at |-> "open", expires |-> now + LoginLife] \in [at : RowStates, expires : Int]
  BY DEF AccessTypes, AccessAssumption, RowStates
<1> QED
  BY <1>1, <1>2, <1>3, <1>4, <1>5 DEF LoginRows, AccessTypes

\* The effect of CreateSession on the sessions: one is opened, some are swept, and
\* none changes hands.
LEMMA SessionCreated ==
    ASSUME AccessAssumption, AccessTypes, NEW t \in Tabs, CreateSession(t)
    PROVE  /\ session' \in SessionRows
           /\ jar' \in [oauth : Logins \cup {None}, session : Sessions \cup {None}]
           /\ \A s \in Sessions : session[s].at # "new" =>
                session'[s].at # "new" /\ session'[s].user = session[s].user
           /\ jar'.session \in Sessions /\ session'[jar'.session].at # "new"
<1> DEFINE old == Swept(session, {tab[t].request.cookie})
           f == Fresh(session)
<1>1. f \in Sessions /\ session[f].at = "new"
  BY FreshIsNew DEF CreateSession, AccessTypes, SessionRows
<1>2. /\ old \in SessionRows
      /\ \A s \in Sessions : session[s].at # "new" => old[s].at # "new" /\ old[s].user = session[s].user
  BY DEF Swept, AccessTypes, SessionRows, RowStates
<1>3. PICK u \in Users :
        /\ session' = [old EXCEPT ![f] = [at |-> "open", user |-> u, expires |-> now + SessionLife]]
        /\ jar' = [oauth |-> None, session |-> f]
  BY DEF CreateSession
<1>4. [at |-> "open", user |-> u, expires |-> now + SessionLife]
        \in [at : RowStates, user : Users \cup {None}, expires : Int]
  BY DEF AccessTypes, AccessAssumption, RowStates
<1> HIDE DEF old, f
<1> QED
  BY <1>1, <1>2, <1>3, <1>4 DEF SessionRows

\* The effect of the requests that a tab sends with its CSRF token.
LEMMA RequestAllowed ==
    ASSUME AccessTypes, NEW t \in Tabs, Logout(t) \/ Issue(t) \/ Revoke(t)
    PROVE  \E r \in RequestTypes :
             /\ SetRequest(t, r)
             /\ r.at \in {"leaving", "issuing", "revoking"}
             /\ r.at = "leaving" => r.cookie \in Sessions
             /\ r.at = "revoking" => r.key \in ApiKeys
             /\ tab[t].csrf = jar.session /\ jar.session # None /\ r.as = session[jar.session].user
             /\ UNCHANGED <<now, users, members, login, session, key, jar, client, opened>>
<1>1. /\ SessionWithCsrf(t)
      /\ jar.session \in Sessions /\ jar.session # None /\ tab[t].csrf = jar.session
      /\ session[jar.session].user \in Users \cup {None}
  BY DEF Logout, Issue, Revoke, Authorized, SessionWithCsrf, Valid, AccessTypes, SessionRows
<1>2. PICK a \in {"leaving", "issuing", "revoking"}, w \in Tenants \cup {None}, k \in ApiKeys \cup {None} :
        Allowed(t, a, w, k) /\ (a = "revoking" => k \in ApiKeys)
  BY DEF Logout, Issue, Revoke
<1> DEFINE r == [NoRequest EXCEPT !.at = a, !.cookie = jar.session, !.tenant = w, !.key = k,
                                  !.as = session[jar.session].user]
<1>3. /\ r \in RequestTypes /\ r.at = a /\ r.cookie = jar.session /\ r.key = k
      /\ r.as = session[jar.session].user
  BY <1>1 DEF NoRequest, RequestTypes
<1>4. SetRequest(t, r)
  <2>1. tab' = [tab EXCEPT ![t].request = r]
    BY <1>2 DEF Allowed, Sends
  <2> HIDE DEF r
  <2> QED
    BY <1>3, <2>1, RequestIsSet DEF AccessTypes
<1>5. UNCHANGED <<now, users, members, login, session, key, jar, client, opened>>
  BY DEF Logout, Issue, Revoke
<1> HIDE DEF r
<1> QED
  BY <1>1, <1>2, <1>3, <1>4, <1>5

\* The effect of a callback.
LEMMA CallbackFinds ==
    ASSUME AccessTypes, NEW t \in Tabs, Callback(t)
    PROVE  /\ UNCHANGED <<now, users, members, login, session, key, client, opened>>
           /\ jar' \in [oauth : Logins \cup {None}, session : Sessions \cup {None}]
           /\ jar'.session = jar.session
           /\ \/ UNCHANGED tab
              \/ \E r \in RequestTypes :
                   SetRequest(t, r) /\ r.at = "found" /\ r.login \in Logins /\ r.as = None
<1>1. jar' = jar \/ jar' = [jar EXCEPT !.oauth = None] =>
        /\ jar' \in [oauth : Logins \cup {None}, session : Sessions \cup {None}]
        /\ jar'.session = jar.session
  BY DEF AccessTypes
<1>2. ASSUME NEW l \in Logins, UNCHANGED jar,
             Sends(t, [NoRequest EXCEPT !.at = "found", !.login = l, !.cookie = jar.session])
      PROVE  \E r \in RequestTypes :
               SetRequest(t, r) /\ r.at = "found" /\ r.login \in Logins /\ r.as = None
  <2> DEFINE r == [NoRequest EXCEPT !.at = "found", !.login = l, !.cookie = jar.session]
  <2>1. r \in RequestTypes /\ r.at = "found" /\ r.login = l /\ r.as = None
    BY DEF NoRequest, RequestTypes, AccessTypes
  <2>2. tab' = [tab EXCEPT ![t].request = r]
    BY <1>2 DEF Sends
  <2> HIDE DEF r
  <2>3. SetRequest(t, r)
    BY <2>1, <2>2, RequestIsSet DEF AccessTypes
  <2> QED
    BY <2>1, <2>3
<1>3. UNCHANGED <<now, users, members, login, session, key, client, opened>>
  BY DEF Callback
<1>4. \/ jar' = [jar EXCEPT !.oauth = None] /\ UNCHANGED tab
      \/ \E l \in Logins :
           /\ UNCHANGED jar
           /\ Sends(t, [NoRequest EXCEPT !.at = "found", !.login = l, !.cookie = jar.session])
  BY DEF Callback
<1> QED
  BY <1>1, <1>2, <1>3, <1>4

\* The types are kept, and so is what a request under way knows.
LEMMA AccessTypeStep ==
    ASSUME AccessAssumption, AccessTypes, SentFits, [Next]_vars
    PROVE  AccessTypes' /\ SentFits'
<1> USE NoRequestTyped DEF AccessTypes, SentFits, At
<1>1. CASE Begin
  BY <1>1, BeginsLogin DEF Begin
<1>2. ASSUME NEW t \in Tabs, Callback(t) PROVE AccessTypes' /\ SentFits'
  BY <1>2, CallbackFinds DEF SetRequest
<1>3. ASSUME NEW t \in Tabs, ConsumeLogin(t) PROVE AccessTypes' /\ SentFits'
  <2>1. CASE Answered(t) /\ jar' = [jar EXCEPT !.oauth = None] /\ UNCHANGED login
    BY <1>3, <2>1, RequestAnswered DEF ConsumeLogin, SetRequest
  <2>2. CASE Goes(t, "consumed") /\ UNCHANGED jar
             /\ login' = [login EXCEPT ![tab[t].request.login].at = "gone"]
    <3>1. tab[t].request.login \in Logins
      BY <1>3 DEF ConsumeLogin
    <3>2. login' \in LoginRows
      BY <2>2, <3>1 DEF LoginRows, RowStates
    <3> DEFINE r == [tab[t].request EXCEPT !.at = "consumed"]
    <3>3. SetRequest(t, r)
      BY <2>2, RequestGoes
    <3>4. r.login = tab[t].request.login /\ r.at = "consumed"
      BY DEF TabTypes, RequestTypes
    <3>5. UNCHANGED <<now, session, key, opened>>
      BY <1>3 DEF ConsumeLogin
    <3> HIDE DEF r
    <3> QED
      BY <2>2, <3>1, <3>2, <3>3, <3>4, <3>5 DEF SetRequest
  <2> QED
    BY <1>3, <2>1, <2>2 DEF ConsumeLogin
<1>4. ASSUME NEW t \in Tabs, GithubFails(t) PROVE AccessTypes' /\ SentFits'
  BY <1>4, RequestAnswered DEF GithubFails, SetRequest
<1>5. ASSUME NEW t \in Tabs, CreateSession(t) PROVE AccessTypes' /\ SentFits'
  <2>1. opened' \in [Logins -> Nat]
    BY <1>5 DEF CreateSession
  <2>2. SetRequest(t, NoRequest) /\ UNCHANGED <<now, login, key>>
    BY <1>5, RequestAnswered DEF CreateSession
  <2> QED
    BY <1>5, <2>1, <2>2, SessionCreated DEF SetRequest
<1>6. ASSUME NEW t \in Tabs, Me(t) PROVE AccessTypes' /\ SentFits'
  <2>1. PICK c \in Sessions \cup {None}, u \in Users \cup {None} :
          tab' = [tab EXCEPT ![t] = [csrf |-> c, shown |-> u, request |-> NoRequest]]
    BY <1>6 DEF Me, Valid, SessionRows
  <2>2. tab' \in TabTypes /\ \A v \in Tabs : tab'[v].request = IF v = t THEN NoRequest ELSE tab[v].request
    BY <2>1 DEF TabTypes
  <2> QED
    BY <1>6, <2>2 DEF Me
<1>7. ASSUME NEW t \in Tabs, Logout(t) \/ Issue(t) \/ Revoke(t) PROVE AccessTypes' /\ SentFits'
  BY <1>7, RequestAllowed DEF SetRequest
<1>8. ASSUME NEW t \in Tabs, DeleteSession(t) PROVE AccessTypes' /\ SentFits'
  <2>1. session' \in SessionRows
    BY <1>8 DEF DeleteSession, SessionRows, RowStates
  <2>2. SetRequest(t, NoRequest)
    BY <1>8, RequestAnswered DEF DeleteSession
  <2> QED
    BY <1>8, <2>1, <2>2 DEF DeleteSession, SetRequest
<1>9. ASSUME NEW t \in Tabs, CreateKey(t) \/ RevokeKey(t) PROVE AccessTypes' /\ SentFits'
  <2>1. SetRequest(t, NoRequest)
    BY <1>9, RequestAnswered DEF CreateKey, RevokeKey
  <2>2. CASE CreateKey(t)
    <3>1. Fresh(key) \in ApiKeys
      BY <2>2, FreshIsNew DEF CreateKey, KeyTypes
    <3>2. tab[t].request.tenant \in Tenants \cup {None} /\ tab[t].request.as \in Users \cup {None}
      BY DEF TabTypes, RequestTypes
    <3>3. key' \in KeyTypes
      BY <2>2, <3>1, <3>2 DEF CreateKey, KeyTypes, KeyRows, RowStates, AccessAssumption
    <3> QED
      BY <2>1, <2>2, <3>3 DEF CreateKey, SetRequest
  <2>3. CASE RevokeKey(t)
    <3>1. key' \in KeyTypes
      <4>1. tab[t].request.key \in ApiKeys
        BY <2>3 DEF RevokeKey
      <4>2. key' = key \/ key' = [key EXCEPT ![tab[t].request.key].revoked = TRUE]
        BY <2>3 DEF RevokeKey
      <4>3. ASSUME NEW old \in KeyRows PROVE [old EXCEPT !.revoked = TRUE] \in KeyRows
        BY DEF KeyRows
      <4> QED
        BY <4>1, <4>2, <4>3 DEF KeyTypes
    <3> QED
      BY <2>1, <2>3, <3>1 DEF RevokeKey, SetRequest
  <2> QED
    BY <1>9, <2>2, <2>3
<1>10. CASE PostEvent \/ EventAllowed \/ EventIngested \/ Tick
  BY <1>10 DEF PostEvent, EventAllowed, EventIngested, Tick
<1>11. ASSUME NEW u \in Users, NEW w \in Tenants, Grant(u, w) PROVE AccessTypes' /\ SentFits'
  BY <1>11 DEF Grant
<1>12. ASSUME NEW u \in Users, NEW w \in Tenants, Withdraw(u, w) PROVE AccessTypes' /\ SentFits'
  <2>1. key' \in KeyTypes
    BY <1>12 DEF Withdraw, KeyTypes, KeyRows, RowStates
  <2> QED
    BY <1>12, <2>1 DEF Withdraw
<1>13. CASE UNCHANGED vars
  BY <1>13 DEF vars
<1> QED
  BY <1>1, <1>2, <1>3, <1>4, <1>5, <1>6, <1>7, <1>8, <1>9, <1>10, <1>11, <1>12, <1>13 DEF Next

\* Callbacks race for a login: deleting its row decides.
LEMMA LoginStep ==
    ASSUME AccessAssumption, AccessTypes, SentFits, LoginUsedOnce, [Next]_vars
    PROVE  LoginUsedOnce'
<1> USE NoRequestTyped DEF AccessTypes, SentFits, LoginUsedOnce, At
<1>1. CASE Begin
  <2>1. UNCHANGED <<tab, opened>>
    BY <1>1 DEF Begin
  <2>2. \A l \in Logins : login[l].at = "gone" => login'[l].at = "gone"
    BY <1>1, BeginsLogin
  <2> QED
    BY <2>1, <2>2
<1>2. ASSUME NEW t \in Tabs, Callback(t) PROVE LoginUsedOnce'
  BY <1>2, CallbackFinds DEF SetRequest
<1>3. ASSUME NEW t \in Tabs, ConsumeLogin(t) PROVE LoginUsedOnce'
  <2>1. CASE Answered(t) /\ UNCHANGED login
    BY <1>3, <2>1, RequestAnswered DEF ConsumeLogin, SetRequest
  <2>2. CASE /\ login[tab[t].request.login].at = "open" /\ Goes(t, "consumed")
             /\ login' = [login EXCEPT ![tab[t].request.login].at = "gone"]
    <3> DEFINE r == [tab[t].request EXCEPT !.at = "consumed"]
    <3>1. SetRequest(t, r) /\ UNCHANGED opened
      BY <1>3, <2>2, RequestGoes DEF ConsumeLogin
    <3>2. r.login = tab[t].request.login
      BY DEF TabTypes, RequestTypes
    <3>3. tab[t].request.login \in Logins
      BY <1>3 DEF ConsumeLogin
    <3>4. \A l \in Logins : login'[l].at = IF l = tab[t].request.login THEN "gone" ELSE login[l].at
      BY <2>2, <3>3 DEF LoginRows
    <3> HIDE DEF r
    <3> QED
      BY <2>2, <3>1, <3>2, <3>3, <3>4 DEF SetRequest
  <2> QED
    BY <1>3, <2>1, <2>2 DEF ConsumeLogin
<1>4. ASSUME NEW t \in Tabs, GithubFails(t) PROVE LoginUsedOnce'
  BY <1>4, RequestAnswered DEF GithubFails, SetRequest
<1>5. ASSUME NEW t \in Tabs, CreateSession(t) PROVE LoginUsedOnce'
  BY <1>5, RequestAnswered DEF CreateSession, SetRequest
<1>6. ASSUME NEW t \in Tabs, Me(t) PROVE LoginUsedOnce'
  <2>1. \A v \in Tabs : tab'[v].request = IF v = t THEN NoRequest ELSE tab[v].request
    BY <1>6 DEF Me, TabTypes
  <2> QED
    BY <1>6, <2>1 DEF Me
<1>7. ASSUME NEW t \in Tabs, Logout(t) \/ Issue(t) \/ Revoke(t) PROVE LoginUsedOnce'
  BY <1>7, RequestAllowed DEF SetRequest
<1>8. ASSUME NEW t \in Tabs, DeleteSession(t) \/ CreateKey(t) \/ RevokeKey(t) PROVE LoginUsedOnce'
  <2>1. SetRequest(t, NoRequest) /\ UNCHANGED <<login, opened>>
    BY <1>8, RequestAnswered DEF DeleteSession, CreateKey, RevokeKey
  <2> QED
    BY <2>1 DEF SetRequest
<1>9. CASE PostEvent \/ EventAllowed \/ EventIngested \/ Tick
  BY <1>9 DEF PostEvent, EventAllowed, EventIngested, Tick
<1>10. ASSUME NEW u \in Users, NEW w \in Tenants, Grant(u, w) \/ Withdraw(u, w) PROVE LoginUsedOnce'
  BY <1>10 DEF Grant, Withdraw
<1>11. CASE UNCHANGED vars
  BY <1>11 DEF vars
<1> QED
  BY <1>1, <1>2, <1>3, <1>4, <1>5, <1>6, <1>7, <1>8, <1>9, <1>10, <1>11 DEF Next

\* Sessions are opened once and never change hands, and a request runs as the user
\* of the session whose token the page holds.
LEMMA PageStep ==
    ASSUME AccessAssumption, AccessTypes, SentFits, PageOfSession, ActsAsShown, [Next]_vars
    PROVE  PageOfSession' /\ ActsAsShown'
<1> USE NoRequestTyped DEF AccessTypes, PageOfSession, ActsAsShown
<1>c. \A t \in Tabs : tab[t].csrf \in Sessions \cup {None}
  BY DEF TabTypes
<1>1. CASE Begin
  BY <1>1, BeginsLogin DEF Begin
<1>2. ASSUME NEW t \in Tabs, Callback(t) PROVE PageOfSession' /\ ActsAsShown'
  BY <1>2, CallbackFinds DEF SetRequest
<1>3. ASSUME NEW t \in Tabs, ConsumeLogin(t) PROVE PageOfSession' /\ ActsAsShown'
  <2>1. /\ jar'.session = jar.session /\ UNCHANGED session
        /\ Answered(t) \/ Goes(t, "consumed")
    BY <1>3 DEF ConsumeLogin
  <2>2. CASE Answered(t)
    BY <2>1, <2>2, RequestAnswered DEF SetRequest
  <2>3. CASE Goes(t, "consumed")
    <3> DEFINE r == [tab[t].request EXCEPT !.at = "consumed"]
    <3>1. r.as = tab[t].request.as
      BY DEF TabTypes, RequestTypes
    <3>2. SetRequest(t, r)
      BY <2>3, RequestGoes
    <3> HIDE DEF r
    <3> QED
      BY <2>1, <3>1, <3>2 DEF SetRequest
  <2> QED
    BY <2>1, <2>2, <2>3
<1>4. ASSUME NEW t \in Tabs, GithubFails(t) PROVE PageOfSession' /\ ActsAsShown'
  BY <1>4, RequestAnswered DEF GithubFails, SetRequest
<1>5. ASSUME NEW t \in Tabs, CreateSession(t) PROVE PageOfSession' /\ ActsAsShown'
  <2>1. SetRequest(t, NoRequest)
    BY <1>5, RequestAnswered DEF CreateSession
  <2> QED
    BY <1>5, <1>c, <2>1, SessionCreated DEF SetRequest
<1>6. ASSUME NEW t \in Tabs, Me(t) PROVE PageOfSession' /\ ActsAsShown'
  <2>1. PICK c \in Sessions \cup {None}, u \in Users \cup {None} :
          /\ tab' = [tab EXCEPT ![t] = [csrf |-> c, shown |-> u, request |-> NoRequest]]
          /\ c # None => session[c].at # "new" /\ u = session[c].user
    BY <1>6 DEF Me, Valid, SessionRows
  <2>2. /\ tab'[t].csrf = c /\ tab'[t].shown = u /\ tab'[t].request = NoRequest
        /\ \A v \in Tabs \ {t} : tab'[v] = tab[v]
    BY <2>1 DEF TabTypes
  <2> QED
    BY <1>6, <2>1, <2>2 DEF Me
<1>7. ASSUME NEW t \in Tabs, Logout(t) \/ Issue(t) \/ Revoke(t) PROVE PageOfSession' /\ ActsAsShown'
  BY <1>7, RequestAllowed DEF SetRequest
<1>8. ASSUME NEW t \in Tabs, DeleteSession(t) PROVE PageOfSession' /\ ActsAsShown'
  <2>1. SetRequest(t, NoRequest) /\ jar'.session = None
    BY <1>8, RequestAnswered DEF DeleteSession
  <2>2. \A s \in Sessions : session[s].at # "new" =>
          session'[s].at # "new" /\ session'[s].user = session[s].user
    BY <1>8 DEF DeleteSession, SessionRows
  <2> QED
    BY <1>c, <2>1, <2>2 DEF SetRequest
<1>9. ASSUME NEW t \in Tabs, CreateKey(t) \/ RevokeKey(t) PROVE PageOfSession' /\ ActsAsShown'
  <2>1. SetRequest(t, NoRequest) /\ UNCHANGED <<session, jar>>
    BY <1>9, RequestAnswered DEF CreateKey, RevokeKey
  <2> QED
    BY <2>1 DEF SetRequest
<1>10. CASE PostEvent \/ EventAllowed \/ EventIngested \/ Tick
  BY <1>10 DEF PostEvent, EventAllowed, EventIngested, Tick
<1>11. ASSUME NEW u \in Users, NEW w \in Tenants, Grant(u, w) \/ Withdraw(u, w)
       PROVE  PageOfSession' /\ ActsAsShown'
  BY <1>11 DEF Grant, Withdraw
<1>12. CASE UNCHANGED vars
  BY <1>12 DEF vars
<1> QED
  BY <1>1, <1>2, <1>3, <1>4, <1>5, <1>6, <1>7, <1>8, <1>9, <1>10, <1>11, <1>12 DEF Next

\* Keys come and go with memberships, and a key that has ended stays so.
LEMMA KeyStep ==
    ASSUME AccessAssumption, AccessTypes, SentFits, KeysNeedMembers, LateStays, [Next]_vars
    PROVE  KeysNeedMembers' /\ LateStays'
<1> USE DEF AccessTypes, KeyTypes, KeyRows, RowStates, KeysNeedMembers, LateStays, EndedForGood, Ended
<1>1. ASSUME UNCHANGED <<now, members, key, client>> PROVE KeysNeedMembers' /\ LateStays'
  BY <1>1
<1>2. ASSUME NEW t \in Tabs, CreateKey(t) PROVE KeysNeedMembers' /\ LateStays'
  <2>1. Fresh(key) \in ApiKeys /\ key[Fresh(key)].at = "new"
    BY <1>2, FreshIsNew DEF CreateKey
  <2> QED
    BY <1>2, <2>1 DEF CreateKey
<1>3. ASSUME NEW t \in Tabs, RevokeKey(t) PROVE KeysNeedMembers' /\ LateStays'
  BY <1>3 DEF RevokeKey, SentFits
<1>4. CASE PostEvent
  BY <1>4 DEF PostEvent, Unused
<1>5. CASE EventAllowed
  BY <1>5 DEF EventAllowed, Usable, NoEvent
<1>6. CASE EventIngested
  BY <1>6 DEF EventIngested, NoEvent
<1>7. ASSUME NEW u \in Users, NEW w \in Tenants, Grant(u, w) PROVE KeysNeedMembers' /\ LateStays'
  BY <1>7 DEF Grant
<1>8. ASSUME NEW u \in Users, NEW w \in Tenants, Withdraw(u, w) PROVE KeysNeedMembers' /\ LateStays'
  BY <1>8 DEF Withdraw
<1>9. CASE Tick
  BY <1>9 DEF Tick
<1>10. \/ UNCHANGED <<now, members, key, client>>
       \/ \E t \in Tabs : CreateKey(t) \/ RevokeKey(t)
       \/ PostEvent \/ EventAllowed \/ EventIngested \/ Tick
       \/ \E u \in Users, w \in Tenants : Grant(u, w) \/ Withdraw(u, w)
  BY DEF Next, vars, Begin, Callback, ConsumeLogin, GithubFails, CreateSession, Me, Logout,
         DeleteSession, Issue, Revoke
<1> QED
  BY <1>1, <1>2, <1>3, <1>4, <1>5, <1>6, <1>7, <1>8, <1>9, <1>10

\* Whoever is named has a row, and the clock stays within its bound.
UsersKnown ==
    /\ users \subseteq Users /\ members \subseteq Users \X Tenants
    /\ now \in Time
    /\ client \in [at : {"idle", "sent", "allowed"}, key : ApiKeys \cup {None},
                   tenant : Tenants \cup {None}, late : BOOLEAN]
    /\ \A s \in Sessions : session[s].user \in users \cup {None}
    /\ \A k \in ApiKeys : key[k].by \in users \cup {None}
    /\ \A t \in Tabs : tab[t].shown \in users \cup {None} /\ tab[t].request.as \in users \cup {None}

LEMMA UsersStep ==
    ASSUME AccessAssumption, AccessTypes, SentFits, UsersKnown, [Next]_vars
    PROVE  UsersKnown'
<1> USE NoRequestTyped DEF AccessTypes, UsersKnown
<1>1. CASE Begin
  BY <1>1 DEF Begin
<1>2. ASSUME NEW t \in Tabs, Callback(t) PROVE UsersKnown'
  BY <1>2, CallbackFinds DEF SetRequest
<1>3. ASSUME NEW t \in Tabs, ConsumeLogin(t) PROVE UsersKnown'
  <2>1. UNCHANGED <<now, users, members, session, key, client>> /\ (Answered(t) \/ Goes(t, "consumed"))
    BY <1>3 DEF ConsumeLogin
  <2>2. CASE Answered(t)
    BY <2>1, <2>2, RequestAnswered DEF SetRequest
  <2>3. CASE Goes(t, "consumed")
    <3> DEFINE r == [tab[t].request EXCEPT !.at = "consumed"]
    <3>1. r.as = tab[t].request.as
      BY DEF TabTypes, RequestTypes
    <3>2. SetRequest(t, r)
      BY <2>3, RequestGoes
    <3> HIDE DEF r
    <3> QED
      BY <2>1, <3>1, <3>2 DEF SetRequest
  <2> QED
    BY <2>1, <2>2, <2>3
<1>4. ASSUME NEW t \in Tabs, GithubFails(t) PROVE UsersKnown'
  BY <1>4, RequestAnswered DEF GithubFails, SetRequest
<1>5. ASSUME NEW t \in Tabs, CreateSession(t) PROVE UsersKnown'
  <2> DEFINE swept == Swept(session, {tab[t].request.cookie})
  <2>1. SetRequest(t, NoRequest)
    BY <1>5, RequestAnswered DEF CreateSession
  <2>2. Fresh(session) \in Sessions
    BY <1>5, FreshIsNew DEF CreateSession, SessionRows
  <2>3. PICK u \in Users :
          /\ users' = users \cup {u}
          /\ session' = [swept EXCEPT ![Fresh(session)] =
                            [at |-> "open", user |-> u, expires |-> now + SessionLife]]
    BY <1>5 DEF CreateSession
  <2>4. DOMAIN swept = Sessions /\ \A s \in Sessions : swept[s].user = session[s].user
    BY DEF Swept, SessionRows
  <2> HIDE DEF swept
  <2>5. \A s \in Sessions : session'[s].user \in users' \cup {None}
    BY <2>2, <2>3, <2>4
  <2>6. UNCHANGED <<now, members, key, client>>
    BY <1>5 DEF CreateSession
  <2> QED
    BY <2>1, <2>3, <2>5, <2>6 DEF SetRequest
<1>6. ASSUME NEW t \in Tabs, Me(t) PROVE UsersKnown'
  <2>1. PICK c \in Sessions \cup {None}, u \in users \cup {None} :
          tab' = [tab EXCEPT ![t] = [csrf |-> c, shown |-> u, request |-> NoRequest]]
    BY <1>6 DEF Me, Valid
  <2>2. /\ tab'[t].shown = u /\ tab'[t].request = NoRequest
        /\ \A v \in Tabs \ {t} : tab'[v] = tab[v]
    BY <2>1 DEF TabTypes
  <2> QED
    BY <1>6, <2>2 DEF Me
<1>7. ASSUME NEW t \in Tabs, Logout(t) \/ Issue(t) \/ Revoke(t) PROVE UsersKnown'
  <2>1. PICK r \in RequestTypes :
          /\ SetRequest(t, r) /\ jar.session # None /\ r.as = session[jar.session].user
          /\ UNCHANGED <<now, users, members, login, session, key, jar, client, opened>>
    BY <1>7, RequestAllowed
  <2>2. r.as \in users \cup {None}
    BY <2>1
  <2> QED
    BY <2>1, <2>2 DEF SetRequest
<1>8. ASSUME NEW t \in Tabs, DeleteSession(t) PROVE UsersKnown'
  <2>1. SetRequest(t, NoRequest)
    BY <1>8, RequestAnswered DEF DeleteSession
  <2>2. \A s \in Sessions : session'[s].user = session[s].user
    BY <1>8 DEF DeleteSession, SessionRows
  <2> QED
    BY <1>8, <2>1, <2>2 DEF DeleteSession, SetRequest
<1>9. ASSUME NEW t \in Tabs, CreateKey(t) \/ RevokeKey(t) PROVE UsersKnown'
  <2>1. SetRequest(t, NoRequest) /\ UNCHANGED <<now, users, members, session, client>>
    BY <1>9, RequestAnswered DEF CreateKey, RevokeKey
  <2>2. \A k \in ApiKeys : key'[k].by \in users \cup {None}
    <3>1. CASE CreateKey(t)
      BY <3>1 DEF CreateKey, KeyTypes
    <3>2. CASE RevokeKey(t)
      BY <3>2 DEF RevokeKey, KeyTypes, KeyRows
    <3> QED
      BY <1>9, <3>1, <3>2
  <2> QED
    BY <2>1, <2>2 DEF SetRequest
<1>10. CASE PostEvent \/ EventAllowed \/ EventIngested
  <2>1. CASE PostEvent
    BY <2>1 DEF PostEvent, Ended
  <2>2. CASE EventAllowed
    BY <2>2 DEF EventAllowed, NoEvent
  <2>3. CASE EventIngested
    BY <2>3 DEF EventIngested, NoEvent
  <2> QED
    BY <1>10, <2>1, <2>2, <2>3
<1>11. CASE Tick
  BY <1>11 DEF Tick, Time, AccessAssumption
<1>12. ASSUME NEW u \in Users, NEW w \in Tenants, Grant(u, w) PROVE UsersKnown'
  BY <1>12 DEF Grant
<1>13. ASSUME NEW u \in Users, NEW w \in Tenants, Withdraw(u, w) PROVE UsersKnown'
  <2>1. \A k \in ApiKeys : key'[k].by = key[k].by
    BY <1>13 DEF Withdraw, KeyTypes, KeyRows
  <2> QED
    BY <1>13, <2>1 DEF Withdraw
<1>14. CASE UNCHANGED vars
  BY <1>14 DEF vars
<1> QED
  BY <1>1, <1>2, <1>3, <1>4, <1>5, <1>6, <1>7, <1>8, <1>9, <1>10, <1>11, <1>12, <1>13, <1>14 DEF Next

DoorInv ==
    /\ AccessTypes /\ SentFits /\ UsersKnown /\ LoginUsedOnce /\ PageOfSession /\ ActsAsShown
    /\ KeysNeedMembers /\ LateStays

LEMMA DoorStep ==
    ASSUME AccessAssumption, DoorInv, [Next]_vars
    PROVE  DoorInv'
BY AccessTypeStep, UsersStep, LoginStep, PageStep, KeyStep DEF DoorInv

LEMMA DoorTyped ==
    ASSUME DoorInv
    PROVE  TypeOK
<1> USE DEF DoorInv, AccessTypes, UsersKnown, RowStates
<1>1. session \in [Sessions -> [at : {"new", "open", "gone"}, user : users \cup {None}, expires : Int]]
  BY DEF SessionRows
<1>2. key \in [ApiKeys -> [at : {"new", "open", "gone"}, tenant : Tenants \cup {None},
                           by : users \cup {None}, expires : Int, revoked : BOOLEAN]]
  BY DEF KeyTypes, KeyRows
<1>3. \A t \in Tabs :
        /\ tab[t].csrf \in Sessions \cup {None} /\ tab[t].shown \in users \cup {None}
        /\ tab[t].request.at \in {"idle", "found", "consumed", "issuing", "revoking", "leaving"}
  BY DEF TabTypes, RequestTypes
<1>4. login \in [Logins -> [at : {"new", "open", "gone"}, expires : Int]]
  BY DEF LoginRows
<1> QED
  BY <1>1, <1>2, <1>3, <1>4 DEF TypeOK

LEMMA DoorKeeps == ASSUME DoorInv PROVE SessionsBound /\ KeysBound
BY DEF DoorInv, LoginUsedOnce, OneSessionPerLogin, SessionsBound, LateStays, KeysBound

LEMMA DoorStarts ==
    ASSUME AccessAssumption, Init
    PROVE  DoorInv
<1>1. AccessTypes
  BY NoRequestTyped
  DEF Init, AccessTypes, LoginRows, SessionRows, KeyTypes, KeyRows, TabTypes, RowStates, NoLogin, NoSession,
      NoKey, None
<1>2. \A t \in Tabs : tab[t].csrf = None /\ tab[t].shown = None /\ tab[t].request = NoRequest
  BY DEF Init
<1>3. SentFits /\ PageOfSession /\ ActsAsShown
  BY <1>2, NoRequestTyped DEF Init, SentFits, PageOfSession, ActsAsShown, At
<1>4. LoginUsedOnce
  BY <1>2, NoRequestTyped DEF Init, LoginUsedOnce, NoLogin, At
<1>5. KeysNeedMembers /\ LateStays
  BY DEF Init, KeysNeedMembers, LateStays, EndedForGood, NoKey, NoEvent
<1>6. UsersKnown
  BY <1>2, NoRequestTyped DEF Init, UsersKnown, NoSession, NoKey, NoEvent, Time, AccessAssumption
<1> QED
  BY <1>1, <1>3, <1>4, <1>5, <1>6 DEF DoorInv

-----------------------------------------------------------------------------
(* SessionState: what was asked before a session was forgotten is dropped. *)

CallTypes == [no : Nat, generation : Nat, answer : {"none", "failed", "session", "refused"}]

SignedTypes ==
    /\ valid \in BOOLEAN /\ refused \in BOOLEAN
    /\ status \in {"loading", "ready", "signed-out", "error"}
    /\ leaving \in {"no", "me", "logout", "done"}
    /\ calls \subseteq CallTypes
    /\ {number, shownOf, endedAt, generation} \subseteq Nat
    /\ number >= 1 /\ number <= MaxCalls /\ shownOf <= number /\ endedAt <= number

\* Only one request is of the current generation, and it was sent after the session
\* was forgotten; the page waits for it while it is loading.
CallsInOrder ==
    /\ \A c \in calls :
         /\ 1 <= c.no /\ c.no <= number /\ 1 <= c.generation /\ c.generation <= generation
         /\ c.generation = generation => c.no > endedAt
    /\ \A c, d \in calls : c.generation = generation /\ d.generation = generation => c = d
    /\ status = "loading" => \E c \in calls : c.generation = generation

SignedInv == SignedTypes /\ CallsInOrder /\ Signed!ForgottenForGood

\* The call that a reload adds.
LEMMA CallIsTyped ==
    ASSUME NEW n \in Nat, NEW g \in Nat
    PROVE  /\ Signed!Call(n, g) \in CallTypes
           /\ Signed!Call(n, g).no = n /\ Signed!Call(n, g).generation = g
BY DEF Signed!Call, CallTypes

\* Only reload and signing out go on to a new generation.
LEMMA SignedStep ==
    ASSUME Signed!SignedAssumption, SignedInv, [Signed!Next]_(Signed!vars)
    PROVE  SignedInv'
<1> USE DEF SignedInv, SignedTypes, CallsInOrder, Signed!ForgottenForGood, Signed!Answered
<1>1. CASE Signed!Reload
  <2> DEFINE new == Signed!Call(number', generation')
  <2>1. /\ number' = number + 1 /\ generation' = generation + 1 /\ number < MaxCalls
        /\ calls' = Signed!Answered \cup {new}
        /\ status' = IF status = "ready" THEN "ready" ELSE "loading"
        /\ UNCHANGED <<valid, refused, leaving, shownOf, endedAt>>
    BY <1>1 DEF Signed!Reload
  <2>2. number' \in Nat /\ generation' \in Nat /\ number' <= MaxCalls
    BY <2>1 DEF Signed!SignedAssumption
  <2>3. new \in CallTypes /\ new.no = number' /\ new.generation = generation'
    BY <2>2, CallIsTyped
  <2> HIDE DEF new
  <2>4. SignedTypes'
    BY <2>1, <2>2, <2>3
  <2>5. \A c \in calls' : c = new \/ (c \in calls /\ c.generation < generation')
    BY <2>1, <2>2 DEF CallTypes
  <2>6. CallsInOrder'
    BY <2>1, <2>2, <2>3, <2>5 DEF CallTypes
  <2> QED
    BY <2>1, <2>4, <2>6
<1>2. ASSUME NEW c \in calls, Signed!Answer(c) PROVE SignedInv'
  <2>1. PICK a \in {"failed", "session", "refused"} : calls' = (calls \ {c}) \cup {[c EXCEPT !.answer = a]}
    BY <1>2 DEF Signed!Answer
  <2> DEFINE new == [c EXCEPT !.answer = a]
  <2>2. new \in CallTypes /\ new.no = c.no /\ new.generation = c.generation
    BY DEF CallTypes
  <2>3. UNCHANGED <<valid, status, generation, refused, leaving, number, shownOf, endedAt>>
    BY <1>2 DEF Signed!Answer
  <2> HIDE DEF new
  <2>4. calls' = (calls \ {c}) \cup {new}
    BY <2>1 DEF new
  <2> QED
    BY <2>2, <2>3, <2>4
<1>3. ASSUME NEW c \in calls, Signed!Continue(c) PROVE SignedInv'
  <2>1. calls' = calls \ {c} /\ UNCHANGED <<valid, generation, refused, leaving, number, endedAt>>
    BY <1>3 DEF Signed!Continue
  <2>2. c.no \in Nat /\ c.answer \in {"failed", "session", "refused"}
    BY <1>3 DEF Signed!Continue, CallTypes
  <2>3. CASE c.generation = generation
    <3>1. /\ status' \in {"ready", "signed-out", "error"}
          /\ status' = "ready" <=> c.answer = "session"
          /\ shownOf' = IF c.answer = "session" THEN c.no ELSE shownOf
      BY <1>3, <2>2, <2>3 DEF Signed!Continue, Signed!Applies
    <3> QED
      BY <2>1, <2>2, <2>3, <3>1
  <2>4. CASE c.generation # generation
    <3>1. UNCHANGED <<status, shownOf>>
      BY <1>3, <2>4 DEF Signed!Continue, Signed!Applies
    <3> QED
      BY <2>1, <2>4, <3>1
  <2> QED
    BY <2>3, <2>4
<1>4. ASSUME Signed!Invalidate, UNCHANGED valid, refused' \in BOOLEAN,
             leaving' \in {"no", "me", "logout", "done"}
      PROVE  SignedInv'
  BY <1>4 DEF Signed!Invalidate, CallTypes
<1>5. CASE Signed!HearRefused
  BY <1>4, <1>5 DEF Signed!HearRefused
<1>6. CASE Signed!SignOut
  BY <1>6 DEF Signed!SignOut, CallTypes
<1>7. CASE Signed!SignOutEnds
  BY <1>4, <1>7 DEF Signed!SignOutEnds
<1>8. CASE Signed!Refuse \/ Signed!SignOutReads \/ Signed!SignOutPosts \/ Signed!SignOutFails \/ Signed!OtherTab
  BY <1>8 DEF Signed!Refuse, Signed!SignOutReads, Signed!SignOutPosts, Signed!SignOutFails, Signed!OtherTab
<1>9. CASE UNCHANGED Signed!vars
  BY <1>9 DEF Signed!vars
<1> QED
  BY <1>1, <1>2, <1>3, <1>5, <1>6, <1>7, <1>8, <1>9 DEF Signed!Next

LEMMA AtMostOne ==
    ASSUME NEW S, \A a, b \in S : a = b
    PROVE  IsFiniteSet(S) /\ Cardinality(S) <= 1
<1>1. CASE S = {}
  BY <1>1, FS_EmptySet
<1>2. ASSUME NEW a \in S PROVE IsFiniteSet(S) /\ Cardinality(S) <= 1
  <2>1. S = {a}
    BY <1>2
  <2>2. IsFiniteSet({a}) /\ Cardinality({a}) = 1
    BY FS_Singleton
  <2> QED
    BY <2>1, <2>2
<1> QED
  BY <1>1, <1>2

\* The types of the module from those of the invariant.
LEMMA SignedTyped == ASSUME Signed!SignedAssumption, SignedInv PROVE Signed!TypeOK
<1> USE DEF SignedInv, SignedTypes, CallsInOrder
<1>1. \A c \in calls : c.no \in 1 .. number /\ c.generation \in 1 .. generation
  BY DEF CallTypes
<1> DEFINE now1 == {c \in calls : c.generation = generation}
<1>2. IsFiniteSet(now1) /\ Cardinality(now1) <= 1
  BY AtMostOne
<1>3. Signed!Cardinality(now1) <= 1
  BY <1>2 DEF Signed!Cardinality, Cardinality, Signed!IsFiniteSet, IsFiniteSet
<1>4. {number, shownOf, endedAt} \subseteq 0 .. MaxCalls
  <2>1. number \in Nat /\ shownOf \in Nat /\ endedAt \in Nat
    OBVIOUS
  <2>2. number <= MaxCalls /\ shownOf <= number /\ endedAt <= number
    OBVIOUS
  <2>3. ASSUME NEW i \in Nat, i <= number PROVE i \in 0 .. MaxCalls
    BY <2>1, <2>2, <2>3 DEF Signed!SignedAssumption
  <2> QED
    BY <2>1, <2>2, <2>3
<1> QED
  BY <1>1, <1>3, <1>4 DEF Signed!TypeOK

LEMMA SignedStarts == ASSUME Signed!SignedAssumption, Signed!Init PROVE SignedInv
<1>1. Signed!Call(1, 1) \in CallTypes /\ Signed!Call(1, 1).no = 1 /\ Signed!Call(1, 1).generation = 1
  BY CallIsTyped
<1>2. /\ valid \in BOOLEAN /\ status = "loading" /\ generation = 1 /\ calls = {Signed!Call(1, 1)}
      /\ refused = FALSE /\ leaving = "no" /\ number = 1 /\ shownOf = 0 /\ endedAt = 0
  BY DEF Signed!Init
<1>3. MaxCalls \in Nat /\ 1 <= MaxCalls
  BY DEF Signed!SignedAssumption
<1>4. SignedTypes
  <2>1. calls \subseteq CallTypes
    BY <1>1, <1>2
  <2>2. {number, shownOf, endedAt, generation} \subseteq Nat
    BY <1>2
  <2>3. number >= 1 /\ number <= MaxCalls /\ shownOf <= number /\ endedAt <= number
    BY <1>2, <1>3
  <2>4. refused \in BOOLEAN
    BY <1>2
  <2> QED
    BY <1>2, <2>1, <2>2, <2>3, <2>4 DEF SignedTypes
<1>5. CallsInOrder /\ Signed!ForgottenForGood
  BY <1>1, <1>2 DEF CallsInOrder, Signed!ForgottenForGood
<1> QED
  BY <1>4, <1>5 DEF SignedInv

-----------------------------------------------------------------------------
(* FrameLoop: the handle of a frame is set as long as one is pending.      *)

Scenes == [layout : Layouts \cup {Frames!None}, text : Texts \cup {Frames!None},
            scene : Layouts \cup {Frames!None}]

FrameTypes ==
    /\ page \in [layout : Layouts, text : Texts, scroll : Scrolls]
    /\ changes \in 0 .. MaxVisits
    /\ state \in Scenes /\ wanted \in Scenes
    /\ scroll \in Scrolls \cup {Frames!None}
    /\ drawn \in [layout : Layouts \cup {Frames!None}, text : Texts \cup {Frames!None},
                  scene : Layouts \cup {Frames!None}, scroll : Scrolls \cup {Frames!None}]

Flags ==
    /\ hidden \in BOOLEAN /\ still \in BOOLEAN /\ present \in BOOLEAN
    /\ measuring \in BOOLEAN /\ frame \in BOOLEAN /\ dirty \in BOOLEAN

\* One frame is pending if the handle is set, and none otherwise.
HandleIsKept == queued = (IF frame THEN 1 ELSE 0) /\ (frame => present)

FrameInv == FrameTypes /\ Flags /\ HandleIsKept

\* sync and requestFrame leave one frame under one handle.
LEMMA SyncKeepsHandle ==
    ASSUME HandleIsKept, NEW s, Frames!Sync(s), present'
    PROVE  HandleIsKept'
<1>1. Frames!Cancelled = 0
  BY DEF HandleIsKept, Frames!Cancelled
<1>2. CASE ~still' /\ ~hidden'
  <2>1. frame' /\ queued' = Frames!Cancelled + 1
    BY <1>2 DEF Frames!Sync
  <2> QED
    BY <1>1, <2>1 DEF HandleIsKept
<1>3. CASE ~(~still' /\ ~hidden')
  <2>1. ~frame' /\ queued' = Frames!Cancelled
    BY <1>3 DEF Frames!Sync
  <2> QED
    BY <1>1, <2>1 DEF HandleIsKept
<1> QED
  BY <1>2, <1>3

LEMMA HandleStep ==
    ASSUME HandleIsKept, [Frames!Next]_(Frames!vars)
    PROVE  HandleIsKept'
<1> USE DEF HandleIsKept
<1>1. CASE Frames!ChangePage \/ Frames!Measure \/ Frames!Mount
  <2>1. UNCHANGED <<frame, queued>> /\ (present => present')
    BY <1>1 DEF Frames!ChangePage, Frames!Measure, Frames!Mount
  <2> QED
    BY <2>1
<1>2. CASE Frames!Commit
  BY <1>2, SyncKeepsHandle DEF Frames!Commit
<1>3. CASE Frames!Tick
  <2>1. queued > 0 /\ frame' = Frames!Animated /\ present' = present
        /\ queued' = IF Frames!Animated THEN queued ELSE queued - 1
    BY <1>3 DEF Frames!Tick
  <2>2. frame
    BY <2>1
  <2>3. CASE Frames!Animated
    BY <2>1, <2>2, <2>3
  <2>4. CASE ~Frames!Animated
    BY <2>1, <2>2, <2>4
  <2> QED
    BY <2>3, <2>4
<1>4. CASE Frames!OnScroll \/ Frames!OnPointer
  BY <1>4 DEF Frames!OnScroll, Frames!OnPointer, Frames!RequestFrame, Frames!Drawing
<1>5. CASE Frames!ChangeMotion
  BY <1>5, SyncKeepsHandle DEF Frames!ChangeMotion, Frames!Drawing
<1>6. CASE Frames!Unmount
  BY <1>6 DEF Frames!Unmount, Frames!Cancelled
<1>7. CASE UNCHANGED Frames!vars
  BY <1>7 DEF Frames!vars
<1> QED
  BY <1>1, <1>2, <1>3, <1>4, <1>5, <1>6, <1>7 DEF Frames!Next

LEMMA FlagsStep ==
    ASSUME Flags, [Frames!Next]_(Frames!vars)
    PROVE  Flags'
<1> USE DEF Flags, Frames!Animated
<1>1. CASE Frames!ChangePage \/ Frames!Measure \/ Frames!Mount
  BY <1>1 DEF Frames!ChangePage, Frames!Measure, Frames!Mount
<1>2. CASE Frames!Commit
  BY <1>2 DEF Frames!Commit, Frames!Sync
<1>3. CASE Frames!Tick
  BY <1>3 DEF Frames!Tick
<1>4. CASE Frames!OnScroll \/ Frames!OnPointer
  BY <1>4 DEF Frames!OnScroll, Frames!OnPointer, Frames!RequestFrame
<1>5. CASE Frames!ChangeMotion
  BY <1>5 DEF Frames!ChangeMotion, Frames!Sync
<1>6. CASE Frames!Unmount
  BY <1>6 DEF Frames!Unmount
<1>7. CASE UNCHANGED Frames!vars
  BY <1>7 DEF Frames!vars
<1> QED
  BY <1>1, <1>2, <1>3, <1>4, <1>5, <1>6, <1>7 DEF Frames!Next

\* What is drawn is drawn from states and positions there were.
LEMMA RenderTyped ==
    ASSUME FrameTypes, NEW s \in Scenes, NEW y \in Scrolls \cup {Frames!None}, NEW moved,
           Frames!Render(s, y, moved)
    PROVE  drawn' \in [layout : Layouts \cup {Frames!None}, text : Texts \cup {Frames!None},
                       scene : Layouts \cup {Frames!None}, scroll : Scrolls \cup {Frames!None}]
<1>1. (IF moved THEN y ELSE drawn.scroll) \in Scrolls \cup {Frames!None}
  BY DEF FrameTypes
<1> QED
  BY <1>1 DEF Frames!Render, Scenes

LEMMA FrameTypesStep ==
    ASSUME Frames!FrameAssumption, FrameTypes, [Frames!Next]_(Frames!vars)
    PROVE  FrameTypes'
<1> USE DEF FrameTypes
<1>c. Frames!Changed => changes' \in 0 .. MaxVisits
  BY DEF Frames!Changed, Frames!FrameAssumption
<1>s. ASSUME NEW s \in Scenes, Frames!Sync(s)
      PROVE  /\ scroll' \in Scrolls \cup {Frames!None}
             /\ drawn' \in [layout : Layouts \cup {Frames!None}, text : Texts \cup {Frames!None},
                            scene : Layouts \cup {Frames!None}, scroll : Scrolls \cup {Frames!None}]
  <2>1. page.scroll \in Scrolls \cup {Frames!None}
    OBVIOUS
  <2> QED
    BY <1>s, <2>1, RenderTyped DEF Frames!Sync
<1>1. CASE Frames!ChangePage
  BY <1>1, <1>c DEF Frames!ChangePage
<1>2. CASE Frames!Measure
  BY <1>2 DEF Frames!Measure, Scenes
<1>3. CASE Frames!Commit
  <2>1. state' \in Scenes /\ wanted' \in Scenes /\ UNCHANGED <<page, changes>>
    BY <1>3 DEF Frames!Commit, Scenes
  <2>2. CASE UNCHANGED <<scroll, drawn>>
    BY <2>1, <2>2
  <2>3. CASE Frames!Sync(wanted)
    BY <1>s, <2>1, <2>3
  <2> QED
    BY <1>3, <2>2, <2>3 DEF Frames!Commit
<1>4. CASE Frames!Tick
  <2>1. Frames!Render(state, scroll, dirty) /\ UNCHANGED <<page, changes, state, wanted, scroll>>
    BY <1>4 DEF Frames!Tick
  <2> QED
    BY <2>1, RenderTyped
<1>5. CASE Frames!OnScroll
  BY <1>5, <1>c DEF Frames!OnScroll
<1>6. CASE Frames!OnPointer
  BY <1>6 DEF Frames!OnPointer
<1>7. CASE Frames!ChangeMotion
  <2>1. UNCHANGED <<page, state, wanted>> /\ changes' \in 0 .. MaxVisits
    BY <1>7, <1>c DEF Frames!ChangeMotion
  <2> QED
    BY <1>7, <1>s, <2>1 DEF Frames!ChangeMotion
<1>8. CASE Frames!Unmount
  BY <1>8, <1>c DEF Frames!Unmount
<1>9. CASE Frames!Mount
  BY <1>9, <1>c DEF Frames!Mount, Frames!NoState, Frames!Blank, Scenes
<1>10. CASE UNCHANGED Frames!vars
  BY <1>10 DEF Frames!vars
<1> QED
  BY <1>1, <1>2, <1>3, <1>4, <1>5, <1>6, <1>7, <1>8, <1>9, <1>10 DEF Frames!Next

LEMMA FrameStep ==
    ASSUME Frames!FrameAssumption, FrameInv, [Frames!Next]_(Frames!vars)
    PROVE  FrameInv'
BY HandleStep, FlagsStep, FrameTypesStep DEF FrameInv

LEMMA FramesTyped == ASSUME FrameInv PROVE Frames!TypeOK
<1>1. queued \in Nat
  BY DEF FrameInv, HandleIsKept
<1>2. {hidden, still, present, measuring, frame, dirty} \subseteq BOOLEAN
  BY DEF FrameInv, Flags
<1> QED
  BY <1>1, <1>2 DEF FrameInv, FrameTypes, Scenes, Frames!TypeOK

LEMMA HandleIsOneLoop == ASSUME FrameInv PROVE Frames!OneLoop
BY DEF FrameInv, HandleIsKept, Frames!OneLoop

LEMMA FramesStart == ASSUME Frames!FrameAssumption, Frames!Init PROVE FrameInv
<1>1. page \in [layout : Layouts, text : Texts, scroll : Scrolls]
  <2>1. \E l \in Layouts, x \in Texts, y \in Scrolls : TRUE
    BY DEF Frames!FrameAssumption
  <2>2. \E p \in [layout : Layouts, text : Texts, scroll : Scrolls] : TRUE
    <3>1. PICK l \in Layouts, x \in Texts, y \in Scrolls : TRUE
      BY <2>1
    <3>2. [layout |-> l, text |-> x, scroll |-> y] \in [layout : Layouts, text : Texts, scroll : Scrolls]
      OBVIOUS
    <3> QED
      BY <3>2
  <2>3. page = CHOOSE p \in [layout : Layouts, text : Texts, scroll : Scrolls] : TRUE
    BY DEF Frames!Init
  <2> QED
    BY <2>2, <2>3
<1>2. HandleIsKept /\ Flags
  BY DEF Frames!Init, HandleIsKept, Flags
<1>3. FrameTypes
  BY <1>1 DEF Frames!FrameAssumption, Frames!Init, FrameTypes, Frames!NoState, Frames!Blank, Scenes
<1> QED
  BY <1>2, <1>3 DEF FrameInv

-----------------------------------------------------------------------------
(* ApiKeyPage: whatever list arrives, the page keeps what it was told.     *)

\* A key that exists was asked for by a creation that is awaited or accounted for.
CreationsKnown ==
    \A k \in New :
      /\ stored[k] # "none" => creations[k] = "created"
      /\ creations[k] \in {"sent", "created"} => k = awaiting \/ k \in accounted

\* What the page shows as revoked, or was told of, is so in the table.
SeenIsStored ==
    /\ \A h \in {rows} \cup (IF request.at = "ready" THEN {request.rows} ELSE {}) :
         /\ \A k \in h.shown : stored[k] # "none"
         /\ \A k \in h.revoked : stored[k] = "revoked"
    /\ \A k \in overrides : stored[k] = "revoked"
    /\ confirmed \subseteq overrides
    /\ dialog.at # "none" => stored[dialog.row] # "none"
    /\ dialog.at = "done" => stored[dialog.row] = "revoked"

\* No secret is shown while another is made.
SecretFits == (awaiting # KeyList!None => reveal = KeyList!None) /\ KeyList!CopiedIsShown

KeyPageInv == KeyList!TypeOK /\ CreationsKnown /\ SeenIsStored /\ SecretFits

LEMMA KeyTypeStep ==
    ASSUME KeyList!KeyAssumption, KeyList!TypeOK, [KeyList!Next]_(KeyList!vars)
    PROVE  KeyList!TypeOK'
<1> USE DEF KeyList!TypeOK, KeyList!Keys, KeyList!server, KeyList!view, KeyList!form, KeyList!secret,
            KeyList!revocation
<1>l. ASSUME KeyList!Leaves PROVE KeyList!TypeOK'
  BY <1>l DEF KeyList!Leaves, KeyList!Blank, KeyList!NoRows, KeyList!Histories, KeyList!Closed, KeyList!NoRequest
<1>1. ASSUME NEW k \in New, KeyList!CreateKey(k) PROVE KeyList!TypeOK'
  BY <1>1 DEF KeyList!CreateKey
<1>2. ASSUME NEW k \in New, KeyList!RefuseKey(k) PROVE KeyList!TypeOK'
  BY <1>2 DEF KeyList!RefuseKey
<1>3. ASSUME NEW k \in New, KeyList!Submit(k) PROVE KeyList!TypeOK'
  BY <1>3 DEF KeyList!Submit
<1>4. ASSUME NEW k \in Revocable, KeyList!RevokeElsewhere(k) PROVE KeyList!TypeOK'
  BY <1>4 DEF KeyList!RevokeElsewhere, KeyList!KeyAssumption
<1>5. ASSUME NEW k \in Revocable, KeyList!OpenDialog(k) PROVE KeyList!TypeOK'
  BY <1>5 DEF KeyList!OpenDialog, KeyList!KeyAssumption, KeyList!Closed
<1>6. ASSUME NEW k \in Old, KeyList!Expire(k) PROVE KeyList!TypeOK'
  BY <1>6 DEF KeyList!Expire
<1>7. ASSUME NEW k \in New, NEW written \in BOOLEAN, KeyList!CopyEnds(k, written) PROVE KeyList!TypeOK'
  BY <1>7 DEF KeyList!CopyEnds
<1>8. ASSUME NEW code, KeyList!ArriveListFailed(code) PROVE KeyList!TypeOK'
  BY <1>8, <1>l DEF KeyList!ArriveListFailed, KeyList!NoRows, KeyList!Histories
<1>9. ASSUME NEW code, KeyList!FailCreation(code) PROVE KeyList!TypeOK'
  BY <1>9, <1>l DEF KeyList!FailCreation, KeyList!Refreshed
<1>10. ASSUME NEW code, KeyList!FailRevocation(code) PROVE KeyList!TypeOK'
  BY <1>10, <1>l DEF KeyList!FailRevocation, KeyList!Closed
<1>11. CASE KeyList!RevokeKey \/ KeyList!RefuseRevocation
  BY <1>11 DEF KeyList!RevokeKey, KeyList!RefuseRevocation, KeyList!Closed
<1>12. CASE KeyList!ServeList
  BY <1>12 DEF KeyList!ServeList, KeyList!Histories, KeyList!Asked, KeyList!NoRequest
<1>13. CASE KeyList!ArriveList
  BY <1>13 DEF KeyList!ArriveList, KeyList!Asked, KeyList!NoRequest
<1>14. CASE KeyList!Refresh \/ KeyList!SetNow
  BY <1>14 DEF KeyList!Refresh, KeyList!SetNow, KeyList!Refreshed
<1>15. CASE KeyList!Leave
  BY <1>15, <1>l DEF KeyList!Leave
<1>16. CASE KeyList!Reopen
  BY <1>16 DEF KeyList!Reopen, KeyList!Blank, KeyList!NoRows, KeyList!Histories
<1>17. CASE KeyList!Created
  BY <1>17 DEF KeyList!Created, KeyList!Refreshed
<1>18. CASE KeyList!DismissSecret \/ KeyList!CopySecret
  BY <1>18 DEF KeyList!DismissSecret, KeyList!CopySecret
<1>19. CASE KeyList!SubmitRevocation \/ KeyList!Revoked \/ KeyList!DismissDialog
  BY <1>19 DEF KeyList!SubmitRevocation, KeyList!Revoked, KeyList!DismissDialog, KeyList!Refreshed, KeyList!Closed
<1>20. CASE UNCHANGED KeyList!vars
  BY <1>20 DEF KeyList!vars
<1> QED
  BY <1>1, <1>2, <1>3, <1>4, <1>5, <1>6, <1>7, <1>8, <1>9, <1>10, <1>11, <1>12, <1>13, <1>14, <1>15, <1>16,
     <1>17, <1>18, <1>19, <1>20 DEF KeyList!Next

LEMMA CreationStep ==
    ASSUME KeyList!KeyAssumption, KeyPageInv, [KeyList!Next]_(KeyList!vars)
    PROVE  CreationsKnown'
<1> USE DEF KeyPageInv, CreationsKnown, KeyList!TypeOK, KeyList!Keys, KeyList!server, KeyList!view, KeyList!form,
            KeyList!secret, KeyList!revocation
<1>l. ASSUME KeyList!Leaves PROVE CreationsKnown'
  BY <1>l DEF KeyList!Leaves, KeyList!Blank
<1>1. ASSUME NEW k \in New, KeyList!CreateKey(k) PROVE CreationsKnown'
  BY <1>1 DEF KeyList!CreateKey
<1>2. ASSUME NEW k \in New, KeyList!RefuseKey(k) PROVE CreationsKnown'
  BY <1>2 DEF KeyList!RefuseKey
<1>3. ASSUME NEW k \in New, KeyList!Submit(k) PROVE CreationsKnown'
  BY <1>3 DEF KeyList!Submit, KeyList!KeyAssumption
<1>4. ASSUME NEW k \in Revocable, KeyList!RevokeElsewhere(k) PROVE CreationsKnown'
  BY <1>4 DEF KeyList!RevokeElsewhere, KeyList!KeyAssumption
<1>5. ASSUME NEW code \in KeyList!Unconfirmed \cup KeyList!Refusals, KeyList!FailCreation(code) PROVE CreationsKnown'
  <2>1. CASE code = 401
    BY <1>5, <1>l, <2>1 DEF KeyList!FailCreation
  <2>2. CASE code \in KeyList!Unconfirmed /\ code # 401
    BY <1>5, <2>2 DEF KeyList!FailCreation, KeyList!Warns
  <2>3. CASE creations[awaiting] = "refused" /\ code # 401
    BY <1>5, <2>3 DEF KeyList!FailCreation
  <2> QED
    BY <1>5, <2>1, <2>2, <2>3 DEF KeyList!FailCreation
<1>6. CASE KeyList!RevokeKey
  <2>1. dialog.row \in KeyList!Keys /\ stored[dialog.row] # "none"
    BY <1>6 DEF KeyList!RevokeKey, SeenIsStored, KeyList!Closed
  <2> QED
    BY <1>6, <2>1 DEF KeyList!RevokeKey
<1>7. CASE KeyList!Created
  BY <1>7 DEF KeyList!Created
<1>8. ASSUME NEW code, KeyList!ArriveListFailed(code) \/ KeyList!FailRevocation(code) PROVE CreationsKnown'
  BY <1>8, <1>l DEF KeyList!ArriveListFailed, KeyList!FailRevocation
<1>9. CASE KeyList!Leave
  BY <1>9, <1>l DEF KeyList!Leave
<1>10. CASE KeyList!Reopen
  BY <1>10 DEF KeyList!Reopen, KeyList!Blank
<1>11. CASE UNCHANGED <<stored, creations, awaiting, accounted>>
  BY <1>11
<1>12. ASSUME NEW k, NEW written, KeyList!OpenDialog(k) \/ KeyList!Expire(k) \/ KeyList!CopyEnds(k, written)
       PROVE  UNCHANGED <<stored, creations, awaiting, accounted>>
  BY <1>12 DEF KeyList!OpenDialog, KeyList!Expire, KeyList!CopyEnds
<1>13. ASSUME \/ KeyList!RefuseRevocation \/ KeyList!ServeList \/ KeyList!ArriveList \/ KeyList!Refresh \/ KeyList!SetNow
              \/ KeyList!DismissSecret \/ KeyList!CopySecret \/ KeyList!SubmitRevocation \/ KeyList!Revoked
              \/ KeyList!DismissDialog \/ UNCHANGED KeyList!vars
       PROVE  UNCHANGED <<stored, creations, awaiting, accounted>>
  BY <1>13 DEF KeyList!RefuseRevocation, KeyList!ServeList, KeyList!ArriveList, KeyList!Refresh, KeyList!SetNow,
     KeyList!DismissSecret, KeyList!CopySecret, KeyList!SubmitRevocation, KeyList!Revoked, KeyList!DismissDialog,
     KeyList!vars
<1> QED
  BY <1>1, <1>2, <1>3, <1>4, <1>5, <1>6, <1>7, <1>8, <1>9, <1>10, <1>11, <1>12, <1>13 DEF KeyList!Next

LEMMA SeenStep ==
    ASSUME KeyList!KeyAssumption, KeyPageInv, [KeyList!Next]_(KeyList!vars)
    PROVE  SeenIsStored'
<1> USE DEF KeyPageInv, SeenIsStored, KeyList!TypeOK, KeyList!Keys, KeyList!server, KeyList!view, KeyList!form,
            KeyList!secret, KeyList!revocation
<1>l. ASSUME KeyList!Leaves PROVE SeenIsStored'
  BY <1>l DEF KeyList!Leaves, KeyList!Blank, KeyList!NoRows, KeyList!Closed, KeyList!NoRequest
<1>g. ASSUME UNCHANGED <<request, rows, overrides, confirmed, dialog>>,
             \A k \in KeyList!Keys : stored[k] # "none" => stored'[k] # "none",
             \A k \in KeyList!Keys : stored[k] = "revoked" => stored'[k] = "revoked"
      PROVE  SeenIsStored'
  BY <1>g DEF KeyList!Histories, KeyList!NoRequest, KeyList!Asked, KeyList!Closed
<1>1. ASSUME NEW k \in New, KeyList!CreateKey(k) PROVE SeenIsStored'
  <2>1. stored[k] = "none"
    BY <1>1 DEF KeyList!CreateKey, CreationsKnown
  <2> QED
    BY <1>1, <1>g, <2>1 DEF KeyList!CreateKey
<1>2. ASSUME NEW k \in Revocable, KeyList!RevokeElsewhere(k) PROVE SeenIsStored'
  BY <1>2, <1>g DEF KeyList!RevokeElsewhere, KeyList!KeyAssumption
<1>3. CASE KeyList!RevokeKey
  <2>1. dialog.row \in KeyList!Keys /\ dialog'.row = dialog.row
    BY <1>3 DEF KeyList!RevokeKey, KeyList!Closed
  <2>2. stored' = [stored EXCEPT ![dialog.row] = "revoked"] /\ UNCHANGED <<request, rows, overrides, confirmed>>
    BY <1>3 DEF KeyList!RevokeKey
  <2>3. \A k \in KeyList!Keys : /\ stored[k] # "none" => stored'[k] # "none"
                                /\ stored[k] = "revoked" => stored'[k] = "revoked"
    BY <2>2
  <2>4. stored'[dialog.row] = "revoked"
    BY <2>1, <2>2
  <2> QED
    BY <2>1, <2>2, <2>3, <2>4 DEF KeyList!Histories, KeyList!NoRequest, KeyList!Asked
<1>4. ASSUME NEW k \in Revocable, KeyList!OpenDialog(k) PROVE SeenIsStored'
  BY <1>4 DEF KeyList!OpenDialog
<1>5. ASSUME NEW code, KeyList!ArriveListFailed(code) PROVE SeenIsStored'
  BY <1>5, <1>l DEF KeyList!ArriveListFailed, KeyList!NoRows, KeyList!NoRequest
<1>6. ASSUME NEW code, KeyList!FailCreation(code) PROVE SeenIsStored'
  <2>1. CASE code = 401
    BY <1>6, <1>l, <2>1 DEF KeyList!FailCreation
  <2>2. CASE code # 401
    <3>1. UNCHANGED <<stored, rows, overrides, confirmed, dialog>> /\ (request' = request \/ request' = KeyList!Asked)
      BY <1>6, <2>2 DEF KeyList!FailCreation, KeyList!Refreshed
    <3> QED
      BY <3>1 DEF KeyList!Asked
  <2> QED
    BY <2>1, <2>2
<1>7. ASSUME NEW code, KeyList!FailRevocation(code) PROVE SeenIsStored'
  BY <1>7, <1>l DEF KeyList!FailRevocation, KeyList!Closed
<1>8. CASE KeyList!RefuseRevocation \/ KeyList!SubmitRevocation \/ KeyList!DismissDialog
  BY <1>8 DEF KeyList!RefuseRevocation, KeyList!SubmitRevocation, KeyList!DismissDialog, KeyList!Closed
<1>9. CASE KeyList!ServeList
  BY <1>9 DEF KeyList!ServeList
<1>10. CASE KeyList!ArriveList
  BY <1>10 DEF KeyList!ArriveList, KeyList!NoRequest
<1>11. CASE KeyList!Refresh
  BY <1>11 DEF KeyList!Refresh, KeyList!Refreshed, KeyList!Asked
<1>12. CASE KeyList!Created
  BY <1>12 DEF KeyList!Created, KeyList!Refreshed, KeyList!Asked
<1>13. CASE KeyList!Leave
  BY <1>13, <1>l DEF KeyList!Leave
<1>14. CASE KeyList!Reopen
  BY <1>14 DEF KeyList!Reopen, KeyList!Blank, KeyList!NoRows, KeyList!Closed, KeyList!Asked
<1>15. CASE KeyList!Revoked
  BY <1>15 DEF KeyList!Revoked, KeyList!Refreshed, KeyList!Asked, KeyList!Closed
<1>16. ASSUME NEW k, NEW written,
              KeyList!RefuseKey(k) \/ KeyList!Submit(k) \/ KeyList!Expire(k) \/ KeyList!CopyEnds(k, written)
       PROVE  UNCHANGED <<stored, request, rows, overrides, confirmed, dialog>>
  BY <1>16 DEF KeyList!RefuseKey, KeyList!Submit, KeyList!Expire, KeyList!CopyEnds
<1>17. ASSUME KeyList!SetNow \/ KeyList!DismissSecret \/ KeyList!CopySecret \/ UNCHANGED KeyList!vars
       PROVE  UNCHANGED <<stored, request, rows, overrides, confirmed, dialog>>
  BY <1>17 DEF KeyList!SetNow, KeyList!DismissSecret, KeyList!CopySecret, KeyList!vars
<1> QED
  BY <1>1, <1>2, <1>3, <1>4, <1>5, <1>6, <1>7, <1>8, <1>9, <1>10, <1>11, <1>12, <1>13, <1>14, <1>15, <1>16, <1>17,
     <1>g DEF KeyList!Next

LEMMA SecretStep ==
    ASSUME KeyPageInv, [KeyList!Next]_(KeyList!vars)
    PROVE  SecretFits'
<1> USE DEF KeyPageInv, SecretFits, KeyList!CopiedIsShown, KeyList!TypeOK, KeyList!Keys, KeyList!server, KeyList!view,
            KeyList!form, KeyList!secret, KeyList!revocation
<1>l. ASSUME KeyList!Leaves PROVE SecretFits'
  BY <1>l DEF KeyList!Leaves, KeyList!Blank
<1>1. ASSUME NEW k \in New, KeyList!Submit(k) PROVE SecretFits'
  BY <1>1 DEF KeyList!Submit
<1>2. ASSUME NEW k \in New, NEW written \in BOOLEAN, KeyList!CopyEnds(k, written) PROVE SecretFits'
  BY <1>2 DEF KeyList!CopyEnds
<1>3. ASSUME NEW code, KeyList!ArriveListFailed(code) PROVE SecretFits'
  BY <1>3, <1>l DEF KeyList!ArriveListFailed
<1>4. ASSUME NEW code, KeyList!FailCreation(code) PROVE SecretFits'
  BY <1>4, <1>l DEF KeyList!FailCreation
<1>5. ASSUME NEW code, KeyList!FailRevocation(code) PROVE SecretFits'
  BY <1>5, <1>l DEF KeyList!FailRevocation
<1>6. CASE KeyList!Leave
  BY <1>6, <1>l DEF KeyList!Leave
<1>7. CASE KeyList!Reopen
  BY <1>7 DEF KeyList!Reopen, KeyList!Blank
<1>8. CASE KeyList!Created
  BY <1>8 DEF KeyList!Created
<1>9. CASE KeyList!DismissSecret \/ KeyList!CopySecret
  BY <1>9 DEF KeyList!DismissSecret, KeyList!CopySecret
<1>10. ASSUME NEW k,
              \/ KeyList!CreateKey(k) \/ KeyList!RefuseKey(k) \/ KeyList!RevokeElsewhere(k) \/ KeyList!OpenDialog(k)
              \/ KeyList!Expire(k)
       PROVE  UNCHANGED <<awaiting, reveal, copy, clipboard>>
  BY <1>10 DEF KeyList!CreateKey, KeyList!RefuseKey, KeyList!RevokeElsewhere, KeyList!OpenDialog, KeyList!Expire
<1>11. ASSUME \/ KeyList!RevokeKey \/ KeyList!RefuseRevocation \/ KeyList!ServeList \/ KeyList!ArriveList
              \/ KeyList!Refresh \/ KeyList!SetNow \/ KeyList!SubmitRevocation \/ KeyList!Revoked
              \/ KeyList!DismissDialog \/ UNCHANGED KeyList!vars
       PROVE  UNCHANGED <<awaiting, reveal, copy, clipboard>>
  BY <1>11 DEF KeyList!RevokeKey, KeyList!RefuseRevocation, KeyList!ServeList, KeyList!ArriveList, KeyList!Refresh,
     KeyList!SetNow, KeyList!SubmitRevocation, KeyList!Revoked, KeyList!DismissDialog, KeyList!vars
<1> QED
  BY <1>1, <1>2, <1>3, <1>4, <1>5, <1>6, <1>7, <1>8, <1>9, <1>10, <1>11 DEF KeyList!Next

LEMMA KeyPageStep ==
    ASSUME KeyList!KeyAssumption, KeyPageInv, [KeyList!Next]_(KeyList!vars)
    PROVE  KeyPageInv'
BY KeyTypeStep, CreationStep, SeenStep, SecretStep DEF KeyPageInv

LEMMA KeyPageKeeps == ASSUME KeyPageInv PROVE KeyPageIsSound
<1> USE DEF KeyPageInv, KeyList!Row, KeyList!Status, KeyList!Keys
<1>1. KeyList!NothingSilent
  BY DEF CreationsKnown, KeyList!NothingSilent
<1>2. KeyList!RevokedAsShown
  BY DEF SeenIsStored, KeyList!RevokedAsShown
<1> QED
  BY <1>1, <1>2 DEF SecretFits, KeyPageIsSound

LEMMA KeyPageStarts == ASSUME KeyList!KeyAssumption, KeyList!Init PROVE KeyPageInv
<1> USE DEF KeyList!Init, KeyList!KeyAssumption, KeyList!Keys, KeyList!NoRows, KeyList!Closed, KeyList!Asked
<1>1. KeyList!TypeOK
  BY DEF KeyList!TypeOK, KeyList!Histories
<1>2. CreationsKnown
  BY DEF CreationsKnown
<1>3. SeenIsStored /\ SecretFits
  BY DEF SeenIsStored, SecretFits, KeyList!CopiedIsShown
<1> QED
  BY <1>1, <1>2, <1>3 DEF KeyPageInv

-----------------------------------------------------------------------------
(* DeadLetterPage: the requests of a panel share its key, and only the     *)
(* last of them is listened to.                                            *)

PostStates == {"sent", "looked", "checked"} \cup Dead!Answers

PostTypes ==
    [no : Nat, row : DeadLetters, key : Nat, at : PostStates, live : BOOLEAN, over : BOOLEAN]

ItemTypes == UNION {[S -> BOOLEAN] : S \in SUBSET DeadLetters}

PanelTypes ==
    [no : Nat, row : DeadLetters \cup {Dead!NoRow}, payload : {"loading", "ready", "error"},
     result : {"idle", "pending", "success", "error", "blocked"}, key : Nat]

ReplayTypes == [DeadLetters -> {Dead!Nobody, Dead!Other} \cup 1 .. MaxPosts]

DeadTypes ==
    /\ replays \in ReplayTypes
    /\ standby \in [first : SUBSET DeadLetters, replayed : SUBSET DeadLetters]
    /\ moves \in 0 .. MaxMoves
    /\ list \in [at : {"idle", "asked", "read"}, items : ItemTypes]
    /\ items \in ItemTypes
    /\ selected \in DeadLetters \cup {Dead!NoRow}
    /\ panel \in PanelTypes
    /\ panels \in 0 .. MaxPanels
    /\ receipts \subseteq DeadLetters /\ known \subseteq DeadLetters
    /\ busy \in BOOLEAN /\ locker \in Nat
    /\ posts \in Seq(PostTypes) /\ Len(posts) <= MaxPosts

\* The panel is the one of the selected row; without one there is nothing to ask.
PanelFits ==
    /\ panel.row # Dead!NoRow <=> selected \in DOMAIN items
    /\ panel.row \in {selected, Dead!NoRow}
    /\ panel.no <= panels
    /\ IF panel.row = Dead!NoRow THEN panel = Dead!NoPanel ELSE panel.no >= 1

\* The requests of one panel carry the key of its first one.
PanelHasOneKey ==
    /\ \A i \in DOMAIN posts :
         /\ 1 <= posts[i].no /\ posts[i].no <= panels
         /\ posts[i].key \in 1 .. i /\ posts[posts[i].key].no = posts[i].no
         /\ posts[i].no = panel.no => panel.key = posts[i].key
    /\ \A i, j \in DOMAIN posts : posts[j].no = posts[i].no => posts[j].key = posts[i].key
    /\ panel.key # Dead!Nobody => panel.key \in DOMAIN posts /\ posts[panel.key].no = panel.no

\* The request the panel waits for is its last.
LastIsLive ==
    /\ \A i \in DOMAIN posts : posts[i].live =>
         /\ posts[i].no = panel.no /\ panel.result = "pending"
         /\ \A j \in DOMAIN posts : posts[j].no = posts[i].no => j <= i
    /\ panel.result = "pending" => \E i \in DOMAIN posts : posts[i].live

\* A replay is stored under the key of a request; a later request of the same panel
\* that finds it there overtook it.
OvertakenKnown ==
    /\ \A r \in DeadLetters :
         replays[r] >= 1 => replays[r] \in DOMAIN posts /\ posts[replays[r]].key = replays[r]
    /\ \A i, j \in DOMAIN posts :
         j < i /\ posts[j].no = posts[i].no /\ posts[j].at \notin Dead!Answers => posts[i].over
    /\ \A i \in DOMAIN posts :
         /\ posts[i].live /\ posts[i].at \in {"looked", "checked", "conflict"}
         /\ replays[posts[i].row] = posts[i].key
         => posts[i].over

\* The page is locked by the panel that waits, or by one that is gone.
LockFits ==
    /\ locker <= panels
    /\ busy => locker >= 1 /\ (panel.no = locker => \E i \in DOMAIN posts : posts[i].live)

DeadInv ==
    /\ DeadTypes /\ PanelFits /\ PanelHasOneKey /\ LastIsLive /\ OvertakenKnown /\ LockFits
    /\ known \subseteq receipts

\* The effect of a step on the requests: one of them goes on, or is not listened to
\* any more.
PostsKeep ==
    /\ posts' \in Seq(PostTypes) /\ Len(posts') = Len(posts) /\ DOMAIN posts' = DOMAIN posts
    /\ \A i \in DOMAIN posts :
         /\ posts'[i].no = posts[i].no /\ posts'[i].row = posts[i].row /\ posts'[i].key = posts[i].key
         /\ posts'[i].over = posts[i].over

LEMMA PostGoes ==
    ASSUME posts \in Seq(PostTypes), NEW i \in DOMAIN posts, NEW a \in PostStates, Dead!Goes(i, a)
    PROVE  /\ PostsKeep
           /\ \A j \in DOMAIN posts :
                posts'[j].live = posts[j].live /\ posts'[j].at = IF j = i THEN a ELSE posts[j].at
<1>1. posts' = [posts EXCEPT ![i] = [posts[i] EXCEPT !.at = a]]
  BY DEF Dead!Goes
<1>2. posts[i] \in PostTypes
  OBVIOUS
<1>3. [posts[i] EXCEPT !.at = a] \in PostTypes
  BY <1>2 DEF PostTypes
<1>4. posts' \in Seq(PostTypes) /\ Len(posts') = Len(posts) /\ DOMAIN posts' = DOMAIN posts
  BY <1>1, <1>2, <1>3
<1>5. \A j \in DOMAIN posts : posts[j] \in PostTypes
  OBVIOUS
<1> QED
  BY <1>1, <1>4, <1>5 DEF PostsKeep, PostTypes

LEMMA PostHeard ==
    ASSUME posts \in Seq(PostTypes), NEW i \in DOMAIN posts, posts' = Dead!Heard(i)
    PROVE  /\ PostsKeep
           /\ \A j \in DOMAIN posts :
                posts'[j].at = posts[j].at /\ posts'[j].live = IF j = i THEN FALSE ELSE posts[j].live
<1>1. posts' = [posts EXCEPT ![i] = [posts[i] EXCEPT !.live = FALSE]]
  BY DEF Dead!Heard
<1>2. posts[i] \in PostTypes
  OBVIOUS
<1>3. [posts[i] EXCEPT !.live = FALSE] \in PostTypes
  BY <1>2 DEF PostTypes
<1>4. posts' \in Seq(PostTypes) /\ Len(posts') = Len(posts) /\ DOMAIN posts' = DOMAIN posts
  BY <1>1, <1>2, <1>3
<1>5. \A j \in DOMAIN posts : posts[j] \in PostTypes
  OBVIOUS
<1> QED
  BY <1>1, <1>4, <1>5 DEF PostsKeep, PostTypes

LEMMA PostsDropped ==
    ASSUME posts \in Seq(PostTypes), posts' = [i \in DOMAIN posts |-> [posts[i] EXCEPT !.live = FALSE]]
    PROVE  /\ PostsKeep
           /\ \A i \in DOMAIN posts : posts'[i].at = posts[i].at /\ ~posts'[i].live
<1>0. \A i \in DOMAIN posts : posts[i] \in PostTypes
  OBVIOUS
<1>1. \A i \in DOMAIN posts : [posts[i] EXCEPT !.live = FALSE] \in PostTypes
  BY <1>0 DEF PostTypes
<1>2. DOMAIN posts = 1 .. Len(posts) /\ Len(posts) \in Nat
  OBVIOUS
<1>3. posts' \in Seq(PostTypes) /\ Len(posts') = Len(posts)
  BY <1>1, <1>2
<1> QED
  BY <1>0, <1>1, <1>2, <1>3 DEF PostsKeep, PostTypes

\* What stays when the requests and the panel keep who they are, or the panel is new.
LEMMA OneKeyKept ==
    ASSUME DeadInv, PostsKeep, panels' \in Nat, panels' >= panels,
           \/ panel'.no = panel.no /\ panel'.key = panel.key
           \/ panel'.key = Dead!Nobody /\ panel'.no \notin 1 .. panels
    PROVE  PanelHasOneKey'
<1>1. \A i \in DOMAIN posts : posts[i] \in PostTypes
  BY DEF DeadInv, DeadTypes
<1>2. panels \in Nat /\ panel.no \in Nat /\ panel.key \in Nat
  BY DEF DeadInv, DeadTypes, PanelTypes
<1>3. \A i \in DOMAIN posts : posts[i].no \in Nat /\ posts[i].key \in DOMAIN posts
  <2>1. DOMAIN posts = 1 .. Len(posts) /\ Len(posts) \in Nat
    BY DEF DeadInv, DeadTypes
  <2> QED
    BY <1>1, <2>1 DEF DeadInv, PanelHasOneKey, PostTypes
<1> QED
  BY <1>2, <1>3 DEF DeadInv, PanelHasOneKey, PostsKeep, Dead!Nobody

\* A request goes on at the server.
LEMMA ServerGoes ==
    ASSUME Dead!DeadAssumption, DeadInv, NEW i \in DOMAIN posts, NEW a \in PostStates,
           Dead!Goes(i, a), posts[i].at \notin Dead!Answers,
           UNCHANGED <<Dead!Server, standby, moves>>,
           \/ /\ replays' = replays
              /\ a \in {"looked", "checked", "conflict"} =>
                   posts[i].at \in {"looked", "checked"} \/ replays[posts[i].row] # posts[i].key
           \/ /\ replays' = [replays EXCEPT ![posts[i].row] = posts[i].key]
              /\ a = "ok"
    PROVE  DeadInv'
<1> USE DEF Dead!Server
<1>0. posts \in Seq(PostTypes) /\ replays \in ReplayTypes
  BY DEF DeadInv, DeadTypes
<1>1. /\ PostsKeep
      /\ \A j \in DOMAIN posts :
           posts'[j].live = posts[j].live /\ posts'[j].at = IF j = i THEN a ELSE posts[j].at
  BY <1>0, PostGoes
<1>2. \A j \in DOMAIN posts : posts[j] \in PostTypes
  BY <1>0
<1>3. DOMAIN posts = 1 .. Len(posts) /\ Len(posts) \in 0 .. MaxPosts /\ MaxPosts \in Nat
  BY <1>0 DEF DeadInv, DeadTypes, Dead!DeadAssumption
<1>4. \A j \in DOMAIN posts :
        posts[j].row \in DeadLetters /\ posts[j].no \in Nat /\ posts[j].key \in 1 .. MaxPosts
  BY <1>2, <1>3 DEF PostTypes, DeadInv, PanelHasOneKey
<1>5. replays' \in ReplayTypes
  BY <1>0, <1>4 DEF ReplayTypes
<1>6. DeadTypes'
  BY <1>1, <1>5 DEF DeadInv, DeadTypes, PostsKeep
<1>7. PanelFits' /\ LockFits' /\ LastIsLive'
  BY <1>1 DEF DeadInv, PanelFits, LockFits, LastIsLive, PostsKeep
<1>8. PanelHasOneKey'
  BY OneKeyKept, <1>1 DEF DeadInv, DeadTypes
<1>9. OvertakenKnown'
  <2>1. \A r \in DeadLetters :
          replays'[r] >= 1 => replays'[r] \in DOMAIN posts' /\ posts'[replays'[r]].key = replays'[r]
    <3> SUFFICES ASSUME NEW r \in DeadLetters, replays'[r] >= 1
                 PROVE  replays'[r] \in DOMAIN posts' /\ posts'[replays'[r]].key = replays'[r]
      OBVIOUS
    <3>1. CASE replays'[r] = replays[r]
      BY <3>1, <1>1 DEF DeadInv, OvertakenKnown, PostsKeep
    <3>2. CASE replays'[r] # replays[r]
      <4>1. replays'[r] = posts[i].key
        BY <3>2, <1>0 DEF ReplayTypes
      <4>2. posts[i].key \in DOMAIN posts /\ posts[posts[i].key].no = posts[i].no
        BY <1>3 DEF DeadInv, PanelHasOneKey
      <4>3. posts[posts[i].key].key = posts[i].key
        BY <4>2 DEF DeadInv, PanelHasOneKey
      <4> QED
        BY <4>1, <4>2, <4>3, <1>1 DEF PostsKeep
    <3> QED
      BY <3>1, <3>2
  <2>2. \A k, j \in DOMAIN posts' :
          j < k /\ posts'[j].no = posts'[k].no /\ posts'[j].at \notin Dead!Answers => posts'[k].over
    BY <1>1 DEF DeadInv, OvertakenKnown, PostsKeep
  <2>3. ASSUME NEW k \in DOMAIN posts', posts'[k].live, posts'[k].at \in {"looked", "checked", "conflict"},
               replays'[posts'[k].row] = posts'[k].key
        PROVE  posts'[k].over
    <3>0. k \in DOMAIN posts /\ posts[k].live /\ posts'[k].key = posts[k].key /\ posts'[k].row = posts[k].row
          /\ posts'[k].over = posts[k].over
      BY <2>3, <1>1 DEF PostsKeep
    <3>1. CASE replays' = replays /\ k # i
      <4>1. posts[k].at \in {"looked", "checked", "conflict"} /\ replays[posts[k].row] = posts[k].key
        BY <3>0, <3>1, <2>3, <1>1
      <4> QED
        BY <4>1, <3>0 DEF DeadInv, OvertakenKnown
    <3>2. CASE replays' = replays /\ k = i
      <4>1. a \in {"looked", "checked", "conflict"} /\ replays[posts[i].row] = posts[i].key /\ posts[i].live
        BY <3>0, <3>2, <2>3, <1>1
      <4>2. posts[i].at \in {"looked", "checked"}
        <5>1. a # "ok"
          BY <4>1
        <5> QED
          BY <4>1, <5>1
      <4> QED
        BY <3>0, <3>2, <4>1, <4>2 DEF DeadInv, OvertakenKnown
    <3>3. CASE replays' # replays
      <4>1. replays' = [replays EXCEPT ![posts[i].row] = posts[i].key] /\ a = "ok"
        BY <3>3
      <4>2. k # i /\ posts[k].at \in {"looked", "checked", "conflict"}
        BY <4>1, <2>3, <3>0, <1>1
      <4>3. CASE posts[k].row # posts[i].row
        <5>1. replays'[posts[k].row] = replays[posts[k].row]
          BY <4>1, <4>3, <3>0, <1>0, <1>4 DEF ReplayTypes
        <5> QED
          BY <5>1, <3>0, <4>2, <2>3 DEF DeadInv, OvertakenKnown
      <4>4. CASE posts[k].row = posts[i].row
        <5>1. replays'[posts[k].row] = posts[i].key
          BY <4>1, <4>4, <3>0, <1>0, <1>4 DEF ReplayTypes
        <5>2. posts[k].key = posts[i].key
          BY <5>1, <3>0, <2>3
        <5>3. posts[k].no = posts[i].no
          BY <5>2, <3>0 DEF DeadInv, PanelHasOneKey
        <5>4. i <= k
          BY <3>0, <5>3 DEF DeadInv, LastIsLive
        <5>5. i < k
          BY <5>4, <4>2, <3>0, <1>3
        <5> QED
          BY <5>3, <5>5, <3>0 DEF DeadInv, OvertakenKnown
      <4> QED
        BY <4>3, <4>4
    <3> QED
      BY <3>1, <3>2, <3>3
  <2> QED
    BY <2>1, <2>2, <2>3 DEF OvertakenKnown
<1> QED
  BY <1>6, <1>7, <1>8, <1>9 DEF DeadInv

LEMMA ServerStep ==
    ASSUME Dead!DeadAssumption, DeadInv, NEW i \in DOMAIN posts,
           Dead!Look(i) \/ Dead!Check(i) \/ Dead!Create(i) \/ Dead!Fail(i)
    PROVE  DeadInv'
<1> USE DEF PostStates, Dead!Answers
<1>1. CASE Dead!Look(i)
  <2>1. CASE replays[posts[i].row] = posts[i].key
    BY <1>1, <2>1, ServerGoes DEF Dead!Look
  <2>2. CASE replays[posts[i].row] # posts[i].key
    BY <1>1, <2>2, ServerGoes DEF Dead!Look
  <2> QED
    BY <2>1, <2>2
<1>2. CASE Dead!Check(i)
  <2>1. PICK a \in {"conflict", "checked", "gone"} : Dead!Goes(i, a)
    BY <1>2 DEF Dead!Check
  <2> QED
    BY <1>2, <2>1, ServerGoes DEF Dead!Check
<1>3. CASE Dead!Create(i)
  <2>1. CASE replays[posts[i].row] = Dead!Nobody
    BY <1>3, <2>1, ServerGoes DEF Dead!Create
  <2>2. CASE replays[posts[i].row] # Dead!Nobody /\ replays[posts[i].row] = posts[i].key
    BY <1>3, <2>2, ServerGoes DEF Dead!Create
  <2>3. CASE replays[posts[i].row] # Dead!Nobody /\ replays[posts[i].row] # posts[i].key
    BY <1>3, <2>3, ServerGoes DEF Dead!Create
  <2> QED
    BY <2>1, <2>2, <2>3
<1>4. CASE Dead!Fail(i)
  BY <1>4, ServerGoes DEF Dead!Fail
<1> QED
  BY <1>1, <1>2, <1>3, <1>4

\* Another member replays a row: under no request of this page.
LEMMA OtherStep ==
    ASSUME Dead!DeadAssumption, DeadInv, NEW r \in DeadLetters, Dead!ReplayedByOther(r)
    PROVE  DeadInv'
<1> USE DEF Dead!Server
<1>0. /\ replays \in ReplayTypes /\ replays' = [replays EXCEPT ![r] = Dead!Other]
      /\ UNCHANGED <<Dead!Server, standby, posts>>
  BY DEF DeadInv, DeadTypes, Dead!ReplayedByOther
<1>1. DeadTypes'
  <2>1. replays' \in ReplayTypes
    BY <1>0 DEF ReplayTypes
  <2>2. moves' \in 0 .. MaxMoves
    BY DEF DeadInv, DeadTypes, Dead!ReplayedByOther, Dead!DeadAssumption
  <2> QED
    BY <1>0, <2>1, <2>2 DEF DeadInv, DeadTypes
<1>2. PanelFits' /\ PanelHasOneKey' /\ LastIsLive' /\ LockFits'
  BY <1>0 DEF DeadInv, PanelFits, PanelHasOneKey, LastIsLive, LockFits
<1>3. \A i \in DOMAIN posts : posts[i].row \in DeadLetters /\ posts[i].key \in 1 .. i
  <2>1. \A i \in DOMAIN posts : posts[i] \in PostTypes
    BY DEF DeadInv, DeadTypes
  <2> QED
    BY <2>1 DEF PostTypes, DeadInv, PanelHasOneKey
<1>4. \A s \in DeadLetters : replays'[s] = IF s = r THEN -1 ELSE replays[s]
  BY <1>0 DEF ReplayTypes, Dead!Other
<1>5. \A s \in DeadLetters : replays[s] \in Int
  BY <1>0 DEF ReplayTypes, Dead!Other, Dead!Nobody
<1>6. \A i \in DOMAIN posts : replays'[posts[i].row] = posts[i].key => replays[posts[i].row] = posts[i].key
  <2>1. DOMAIN posts = 1 .. Len(posts) /\ Len(posts) \in Nat
    BY DEF DeadInv, DeadTypes
  <2> QED
    BY <1>3, <1>4, <2>1
<1>7. OvertakenKnown'
  <2>1. \A s \in DeadLetters :
          replays'[s] >= 1 => replays'[s] \in DOMAIN posts /\ posts[replays'[s]].key = replays'[s]
    BY <1>4, <1>5 DEF DeadInv, OvertakenKnown
  <2>2. \A i \in DOMAIN posts :
          /\ posts[i].live /\ posts[i].at \in {"looked", "checked", "conflict"}
          /\ replays'[posts[i].row] = posts[i].key
          => posts[i].over
    BY <1>6 DEF DeadInv, OvertakenKnown
  <2> QED
    BY <1>0, <2>1, <2>2 DEF DeadInv, OvertakenKnown
<1> QED
  BY <1>0, <1>1, <1>2, <1>7 DEF DeadInv

\* The list and the standby move, the panel reads its payload: no request is touched.
LEMMA QuietStep ==
    ASSUME Dead!DeadAssumption, DeadInv,
           \/ \E r \in DeadLetters : Dead!CatchUp(r) \/ Dead!PushOff(r)
           \/ Dead!Refresh \/ Dead!ServeList \/ Dead!ArrivePayload \/ Dead!RetryPayload
    PROVE  DeadInv'
<1> USE DEF Dead!Server
<1>1. UNCHANGED <<replays, items, selected, panels, receipts, busy, posts, known, locker>>
  BY DEF Dead!CatchUp, Dead!PushOff, Dead!Refresh, Dead!ServeList, Dead!ArrivePayload, Dead!RetryPayload
<1>2. standby \in [first : SUBSET DeadLetters, replayed : SUBSET DeadLetters] /\ panel \in PanelTypes
      /\ moves \in 0 .. MaxMoves /\ list \in [at : {"idle", "asked", "read"}, items : ItemTypes]
  BY DEF DeadInv, DeadTypes
<1>3. /\ standby' \in [first : SUBSET DeadLetters, replayed : SUBSET DeadLetters]
      /\ moves' \in 0 .. MaxMoves
  BY <1>2 DEF Dead!DeadAssumption, Dead!CatchUp, Dead!PushOff, Dead!Refresh, Dead!ServeList, Dead!ArrivePayload, Dead!RetryPayload
<1>4. list' \in [at : {"idle", "asked", "read"}, items : ItemTypes]
  <2>1. CASE list' = list
    BY <1>2, <2>1
  <2>2. CASE Dead!Refresh
    <3>1. Dead!NoItems \in ItemTypes
      BY DEF Dead!NoItems, ItemTypes
    <3> QED
      BY <2>2, <3>1 DEF Dead!Refresh, Dead!Asked
  <2>3. CASE Dead!ServeList
    <3>1. [r \in standby.first |-> r \in standby.replayed] \in ItemTypes
      BY <1>2 DEF ItemTypes
    <3> QED
      BY <2>3, <3>1 DEF Dead!ServeList
  <2> QED
    BY <2>1, <2>2, <2>3 DEF Dead!CatchUp, Dead!PushOff, Dead!ArrivePayload, Dead!RetryPayload
<1>5. /\ panel' \in PanelTypes /\ panel'.no = panel.no /\ panel'.key = panel.key /\ panel'.row = panel.row
      /\ panel.row = Dead!NoRow => panel' = panel
      /\ panel'.result = "pending" <=> panel.result = "pending"
  <2>1. CASE panel' = panel
    BY <1>2, <2>1
  <2>2. CASE Dead!Refresh
    <3>1. panel' = Dead!Revised(panel)
      BY <2>2 DEF Dead!Refresh
    <3>2. panel.row = Dead!NoRow => panel = Dead!NoPanel
      BY DEF DeadInv, PanelFits
    <3>3. Dead!Revised(Dead!NoPanel) = Dead!NoPanel
      <4>1. \A p, q \in PanelTypes :
              /\ p.no = q.no /\ p.row = q.row /\ p.payload = q.payload
              /\ p.result = q.result /\ p.key = q.key
              => p = q
        BY DEF PanelTypes
      <4>2. Dead!NoPanel \in PanelTypes
        BY DEF Dead!NoPanel, PanelTypes, Dead!Nobody
      <4>3. Dead!Revised(Dead!NoPanel) \in PanelTypes
        BY <4>2 DEF Dead!Revised, PanelTypes
      <4> QED
        BY <4>1, <4>2, <4>3 DEF Dead!Revised, Dead!NoPanel
    <3>4. panel' \in PanelTypes /\ panel'.no = panel.no /\ panel'.key = panel.key /\ panel'.row = panel.row
          /\ (panel'.result = "pending" <=> panel.result = "pending")
      BY <1>2, <3>1 DEF Dead!Revised, PanelTypes
    <3> QED
      BY <3>1, <3>2, <3>3, <3>4
  <2>3. CASE Dead!ArrivePayload
    BY <1>2, <2>3 DEF Dead!ArrivePayload, PanelTypes
  <2>4. CASE Dead!RetryPayload
    <3>1. panel.row # Dead!NoRow
      BY <2>4 DEF Dead!RetryPayload, DeadInv, PanelFits, Dead!NoPanel
    <3> QED
      BY <1>2, <2>4, <3>1 DEF Dead!RetryPayload, PanelTypes
  <2> QED
    BY <2>1, <2>2, <2>3, <2>4 DEF Dead!CatchUp, Dead!PushOff, Dead!ServeList
<1>6. DeadTypes'
  BY <1>1, <1>3, <1>4, <1>5 DEF DeadInv, DeadTypes
<1>7. PanelFits'
  BY <1>1, <1>5 DEF DeadInv, PanelFits
<1>8. PanelHasOneKey' /\ OvertakenKnown'
  BY <1>1, <1>5 DEF DeadInv, PanelHasOneKey, OvertakenKnown
<1>9. LastIsLive' /\ LockFits'
  BY <1>1, <1>5 DEF DeadInv, LastIsLive, LockFits
<1> QED
  BY <1>1, <1>6, <1>7, <1>8, <1>9 DEF DeadInv

\* The page is drawn again: with the panel it had, or a new one or none, and then
\* nobody listens to the requests.
LEMMA Shown ==
    ASSUME Dead!DeadAssumption, DeadInv, NEW sel \in DeadLetters \cup {Dead!NoRow}, NEW its \in ItemTypes,
           NEW shown, (shown = panel /\ sel = selected) \/ shown.row # sel \/ sel \notin DOMAIN its,
           Dead!Show(sel, its, shown, posts),
           UNCHANGED <<replays, standby, moves>>,
           list' \in [at : {"idle", "asked", "read"}, items : ItemTypes],
           \/ UNCHANGED <<receipts, busy, known, locker>>
           \/ receipts' = {} /\ busy' = FALSE /\ known' = {} /\ locker' = 0
    PROVE  DeadInv'
<1>0. /\ posts \in Seq(PostTypes) /\ panels \in 0 .. MaxPanels /\ panel \in PanelTypes /\ MaxPanels \in Nat
      /\ Dead!NoRow \notin DeadLetters /\ Len(posts) <= MaxPosts /\ locker \in Nat /\ busy \in BOOLEAN
  BY DEF DeadInv, DeadTypes, Dead!DeadAssumption
<1>a. receipts' \subseteq DeadLetters /\ known' \subseteq receipts' /\ busy' \in BOOLEAN /\ locker' \in Nat
  <2>1. CASE UNCHANGED <<receipts, busy, known, locker>>
    BY <2>1 DEF DeadInv, DeadTypes
  <2>2. CASE receipts' = {} /\ busy' = FALSE /\ known' = {} /\ locker' = 0
    BY <2>2
  <2> QED
    BY <2>1, <2>2
<1>1. sel \in DOMAIN its => sel \in DeadLetters /\ sel # Dead!NoRow
  BY <1>0 DEF ItemTypes
<1>2. selected' = sel /\ items' = its
  BY DEF Dead!Show
<1>3. Dead!NoPanel \in PanelTypes /\ Dead!NoPanel.no = 0 /\ Dead!NoPanel.key = 0 /\ Dead!NoPanel.row = Dead!NoRow
      /\ Dead!NoPanel.result = "idle"
  BY DEF Dead!NoPanel, PanelTypes, Dead!Nobody, Dead!NoRow
<1>4. CASE panel' = panel /\ panels' = panels /\ posts' = posts /\ sel \in DOMAIN its /\ panel.row = sel
  <2>1. DeadTypes'
    BY <1>0, <1>a, <1>2, <1>4 DEF DeadInv, DeadTypes
  <2>2. PanelFits'
    BY <1>1, <1>2, <1>4 DEF DeadInv, PanelFits
  <2>3. PanelHasOneKey' /\ OvertakenKnown' /\ LastIsLive'
    BY <1>4 DEF DeadInv, PanelHasOneKey, OvertakenKnown, LastIsLive
  <2>4. LockFits' /\ known' \subseteq receipts'
    BY <1>0, <1>4 DEF DeadInv, LockFits
  <2> QED
    BY <2>1, <2>2, <2>3, <2>4 DEF DeadInv
<1>5. CASE /\ posts' = [i \in DOMAIN posts |-> [posts[i] EXCEPT !.live = FALSE]]
           /\ \/ /\ panels' = panels + 1 /\ panels < MaxPanels /\ sel \in DOMAIN its
                 /\ panel' = [Dead!NoPanel EXCEPT !.no = panels + 1, !.row = sel]
              \/ panels' = panels /\ panel' = Dead!NoPanel /\ sel \notin DOMAIN its
  <2>1. /\ PostsKeep
        /\ \A i \in DOMAIN posts : posts'[i].at = posts[i].at /\ ~posts'[i].live
    BY <1>0, <1>5, PostsDropped
  <2>2. /\ panel' \in PanelTypes /\ panels' \in 0 .. MaxPanels /\ panels' >= panels
        /\ panel'.key = 0 /\ panel'.no <= panels' /\ panel'.no \in Nat /\ panel'.no \notin 1 .. panels
        /\ panel'.result = "idle"
        /\ IF sel \in DOMAIN its THEN panel'.row = sel /\ panel'.no >= 1 ELSE panel' = Dead!NoPanel
    <3>1. CASE sel \in DOMAIN its
      <4>1. panels' = panels + 1 /\ panels < MaxPanels
            /\ panel' = [Dead!NoPanel EXCEPT !.no = panels + 1, !.row = sel]
        BY <1>5, <3>1
      <4>2. panel' \in PanelTypes /\ panel'.no = panels + 1 /\ panel'.row = sel /\ panel'.key = 0
            /\ panel'.result = "idle"
        <5>1. panel' = [no |-> panels + 1, row |-> sel, payload |-> "loading", result |-> "idle", key |-> 0]
          BY <4>1 DEF Dead!NoPanel, Dead!Nobody
        <5> HIDE <4>1
        <5> QED
          BY <1>0, <1>1, <3>1, <5>1 DEF PanelTypes
      <4> QED
        BY <1>0, <3>1, <4>1, <4>2
    <3>2. CASE sel \notin DOMAIN its
      BY <1>0, <1>3, <1>5, <3>2
    <3> QED
      BY <3>1, <3>2
  <2>3. DeadTypes'
    BY <1>0, <1>a, <1>2, <2>1, <2>2 DEF DeadInv, DeadTypes, PostsKeep
  <2>4. PanelFits'
    BY <1>1, <1>2, <1>3, <2>2 DEF PanelFits
  <2>5. PanelHasOneKey'
    BY <1>0, <2>1, <2>2, OneKeyKept DEF Dead!Nobody
  <2>6. LastIsLive'
    BY <2>1, <2>2 DEF LastIsLive, PostsKeep
  <2>7. OvertakenKnown'
    BY <2>1 DEF DeadInv, OvertakenKnown, PostsKeep
  <2>8. LockFits' /\ known' \subseteq receipts'
    BY <1>0, <2>2 DEF DeadInv, LockFits
  <2> QED
    BY <2>3, <2>4, <2>5, <2>6, <2>7, <2>8 DEF DeadInv
<1> QED
  BY <1>1, <1>4, <1>5 DEF Dead!Show

LEMMA ShowStep ==
    ASSUME Dead!DeadAssumption, DeadInv,
           \/ \E r \in DeadLetters : Dead!Select(r)
           \/ Dead!Turn \/ Dead!Reopen \/ Dead!ArriveList \/ Dead!ArriveListFailed
    PROVE  DeadInv'
<1>0. Dead!NoItems \in ItemTypes /\ items \in ItemTypes /\ selected \in DeadLetters \cup {Dead!NoRow}
      /\ list \in [at : {"idle", "asked", "read"}, items : ItemTypes] /\ Dead!NoRow \notin DeadLetters
      /\ DOMAIN Dead!NoItems = {}
  <2>1. Dead!NoItems \in [{} -> BOOLEAN] /\ DOMAIN Dead!NoItems = {}
    BY DEF Dead!NoItems
  <2>2. Dead!NoItems \in ItemTypes
    BY <2>1 DEF ItemTypes
  <2> QED
    BY <2>1, <2>2 DEF DeadInv, DeadTypes, Dead!DeadAssumption
<1>1. Dead!Asked \in [at : {"idle", "asked", "read"}, items : ItemTypes]
      /\ Dead!NoRequest \in [at : {"idle", "asked", "read"}, items : ItemTypes] /\ list.items \in ItemTypes
  BY <1>0 DEF Dead!Asked, Dead!NoRequest
<1>2. ASSUME NEW r \in DeadLetters, Dead!Select(r) PROVE DeadInv'
  <2>1. panel.row # r
    BY <1>0, <1>2 DEF Dead!Select, DeadInv, PanelFits
  <2> QED
    BY <1>0, <1>2, <2>1, Shown DEF Dead!Select
<1>3. CASE Dead!Turn
  BY <1>0, <1>1, <1>3, Shown DEF Dead!Turn
<1>4. CASE Dead!Reopen
  BY <1>0, <1>1, <1>4, Shown DEF Dead!Reopen
<1>5. CASE Dead!ArriveList
  BY <1>0, <1>1, <1>5, Shown DEF Dead!ArriveList
<1>6. CASE Dead!ArriveListFailed
  BY <1>0, <1>1, <1>6, Shown DEF Dead!ArriveListFailed
<1> QED
  BY <1>2, <1>3, <1>4, <1>5, <1>6

\* The answer is heard: the panel does not wait any more, and the page is free.
LEMMA HeardStep ==
    ASSUME Dead!DeadAssumption, DeadInv, NEW i \in DOMAIN posts, posts[i].live, posts' = Dead!Heard(i),
           panel' \in PanelTypes, panel'.no = panel.no, panel'.row = panel.row, panel'.key = panel.key,
           panel'.result # "pending", busy' = FALSE,
           list' \in [at : {"idle", "asked", "read"}, items : ItemTypes],
           \/ UNCHANGED <<receipts, known>>
           \/ receipts' = receipts \cup {panel.row} /\ known' = known \cup {panel.row},
           UNCHANGED <<replays, standby, moves, items, selected, panels, locker>>
    PROVE  DeadInv'
<1>1. posts \in Seq(PostTypes) /\ panels \in Nat /\ panel \in PanelTypes /\ selected \in DeadLetters \cup {Dead!NoRow}
  BY DEF DeadInv, DeadTypes
<1>2. /\ PostsKeep
      /\ \A j \in DOMAIN posts :
           posts'[j].at = posts[j].at /\ posts'[j].live = IF j = i THEN FALSE ELSE posts[j].live
  BY <1>1, PostHeard
<1>3. panel.no = posts[i].no /\ panel.no >= 1 /\ panel.row # Dead!NoRow
  BY DEF DeadInv, LastIsLive, PanelHasOneKey, PanelFits, Dead!NoPanel
<1>4. panel.row \in DeadLetters
  BY <1>1, <1>3 DEF PanelTypes
<1>5. receipts' \subseteq DeadLetters /\ known' \subseteq receipts'
  BY <1>4 DEF DeadInv, DeadTypes
<1>6. DeadTypes'
  BY <1>2, <1>5 DEF DeadInv, DeadTypes, PostsKeep
<1>7. PanelFits' /\ LockFits'
  BY <1>3 DEF DeadInv, PanelFits, LockFits
<1>8. PanelHasOneKey'
  BY <1>1, <1>2, OneKeyKept
<1>9. \A j \in DOMAIN posts : ~posts'[j].live
  <2> SUFFICES ASSUME NEW j \in DOMAIN posts, posts[j].live PROVE j = i
    BY <1>2
  <2>1. posts[j].no = posts[i].no /\ i <= j /\ j <= i
    BY DEF DeadInv, LastIsLive
  <2>2. DOMAIN posts = 1 .. Len(posts) /\ Len(posts) \in Nat
    BY <1>1
  <2> QED
    BY <2>1, <2>2
<1>10. LastIsLive'
  BY <1>2, <1>9 DEF LastIsLive, PostsKeep
<1>11. OvertakenKnown'
  <2>1. \A j \in DOMAIN posts : posts'[j].at = posts[j].at
    BY <1>2
  <2>2. PostsKeep /\ replays' = replays /\ OvertakenKnown
    BY <1>2 DEF DeadInv
  <2> HIDE DEF DeadInv
  <2> QED
    BY <1>9, <2>1, <2>2 DEF OvertakenKnown, PostsKeep
<1> QED
  BY <1>5, <1>6, <1>7, <1>8, <1>10, <1>11 DEF DeadInv

LEMMA AnswerStep ==
    ASSUME Dead!DeadAssumption, DeadInv, NEW i \in DOMAIN posts,
           Dead!Succeed(i) \/ Dead!FailReplay(i) \/ Dead!TimeOut(i)
    PROVE  DeadInv'
<1>1. panel \in PanelTypes /\ busy \in BOOLEAN /\ list \in [at : {"idle", "asked", "read"}, items : ItemTypes]
  BY DEF DeadInv, DeadTypes
<1>2. CASE Dead!Succeed(i)
  <2>1. /\ panel' \in PanelTypes /\ panel'.no = panel.no /\ panel'.row = panel.row /\ panel'.key = panel.key
        /\ panel'.result = "success"
    <3>1. [panel EXCEPT !.result = "success"] \in PanelTypes
      BY <1>1 DEF PanelTypes
    <3>2. panel' = Dead!Revised([panel EXCEPT !.result = "success"])
      BY <1>2 DEF Dead!Succeed
    <3> QED
      BY <1>1, <3>1, <3>2 DEF Dead!Revised, PanelTypes
  <2>2. busy' = FALSE
    BY <1>1, <1>2 DEF Dead!Succeed, Dead!Released
  <2>3. Dead!Asked \in [at : {"idle", "asked", "read"}, items : ItemTypes]
    <3>1. Dead!NoItems \in [{} -> BOOLEAN]
      BY DEF Dead!NoItems
    <3>2. Dead!NoItems \in ItemTypes
      BY <3>1 DEF ItemTypes
    <3> QED
      BY <3>2 DEF Dead!Asked
  <2> QED
    BY <1>2, <2>1, <2>2, <2>3, HeardStep DEF Dead!Succeed, Dead!Accepted
<1>3. CASE Dead!FailReplay(i) \/ Dead!TimeOut(i)
  <2>1. PICK v \in {"error", "blocked"} : panel' = [panel EXCEPT !.result = v]
    BY <1>3 DEF Dead!FailReplay, Dead!TimeOut
  <2>2. /\ panel' \in PanelTypes /\ panel'.no = panel.no /\ panel'.row = panel.row /\ panel'.key = panel.key
        /\ panel'.result # "pending"
    BY <1>1, <2>1 DEF PanelTypes
  <2>3. busy' = FALSE
    BY <1>1, <1>3 DEF Dead!FailReplay, Dead!TimeOut, Dead!Released
  <2> QED
    BY <1>1, <1>3, <2>2, <2>3, HeardStep DEF Dead!FailReplay, Dead!TimeOut
<1> QED
  BY <1>2, <1>3

\* The panel asks, for the first time or again: under the key it has, or a new one.
LEMMA SubmitStep ==
    ASSUME Dead!DeadAssumption, DeadInv, Dead!Submit
    PROVE  DeadInv'
<1> DEFINE n == Len(posts) + 1
           k == Dead!KeyOf(n)
           asked == [no |-> panel.no, row |-> panel.row, key |-> k, at |-> "sent", live |-> TRUE,
                     over |-> \E i \in DOMAIN posts : posts[i].no = panel.no /\ posts[i].at \notin Dead!Answers]
<1>1. /\ posts \in Seq(PostTypes) /\ panels \in Nat /\ panel \in PanelTypes /\ MaxPosts \in Nat
      /\ selected \in DeadLetters \cup {Dead!NoRow} /\ Len(posts) \in Nat /\ Len(posts) < MaxPosts
      /\ DOMAIN posts = 1 .. Len(posts)
  BY DEF DeadInv, DeadTypes, Dead!DeadAssumption, Dead!Submit
<1>2. /\ panel.row # Dead!NoRow /\ panel.result # "pending" /\ posts' = Append(posts, asked)
      /\ panel' = [panel EXCEPT !.result = "pending", !.key = k] /\ busy' = TRUE /\ locker' = panel.no
      /\ UNCHANGED <<replays, standby, moves, list, items, selected, panels, receipts, known>>
  BY DEF Dead!Submit, Dead!Eligible
<1>3. panel.row \in DeadLetters /\ panel.no >= 1 /\ panel.no <= panels /\ panel.no \in Nat /\ panel.key \in Nat
  BY <1>1, <1>2 DEF DeadInv, PanelFits, PanelTypes
<1>4. /\ k \in 1 .. n
      /\ IF panel.key = 0 THEN k = n
         ELSE k = panel.key /\ k \in DOMAIN posts /\ posts[k].no = panel.no
  <2>1. panel.key # 0 => panel.key \in DOMAIN posts /\ posts[panel.key].no = panel.no
    BY DEF DeadInv, PanelHasOneKey, Dead!Nobody
  <2> QED
    BY <1>1, <1>3, <2>1 DEF Dead!KeyOf, Dead!Nobody
<1>5. asked \in PostTypes
  BY <1>3, <1>4, <1>1 DEF PostTypes, PostStates
<1> HIDE DEF k
<1>6. /\ posts' \in Seq(PostTypes) /\ Len(posts') = n /\ DOMAIN posts' = 1 .. n /\ posts'[n] = asked
      /\ \A i \in DOMAIN posts : posts'[i] = posts[i] /\ i < n
  BY <1>1, <1>2, <1>5
<1>7. \A i \in DOMAIN posts' : i \in DOMAIN posts \/ i = n
  BY <1>1, <1>6
<1>8. panel' \in PanelTypes /\ panel'.no = panel.no /\ panel'.row = panel.row /\ panel'.key = k
      /\ panel'.result = "pending"
  <2>1. k \in Nat
    BY <1>1, <1>4
  <2> QED
    BY <1>1, <1>2, <2>1 DEF PanelTypes
<1>9. /\ posts'[n].no = panel.no /\ posts'[n].row = panel.row /\ posts'[n].key = k /\ posts'[n].at = "sent"
      /\ posts'[n].live
      /\ (\E i \in DOMAIN posts : posts[i].no = panel.no /\ posts[i].at \notin Dead!Answers) => posts'[n].over
  BY <1>6
<1> HIDE DEF asked
<1>10. \A i \in DOMAIN posts : posts[i].no = panel.no => posts[i].key = k
  <2>1. ASSUME NEW i \in DOMAIN posts, posts[i].no = panel.no PROVE posts[i].key = panel.key /\ posts[i].key # 0
    BY <2>1, <1>1 DEF DeadInv, PanelHasOneKey
  <2> QED
    BY <2>1, <1>4
<1>11. DeadTypes'
  BY <1>1, <1>2, <1>3, <1>6, <1>8 DEF DeadInv, DeadTypes
<1>12. PanelFits'
  BY <1>2, <1>3, <1>8 DEF DeadInv, PanelFits
<1>13. \A i \in DOMAIN posts : posts[i].key \in DOMAIN posts
  BY <1>1 DEF DeadInv, PanelHasOneKey
<1>14. PanelHasOneKey'
  <2>1. ASSUME NEW i \in DOMAIN posts'
        PROVE  /\ 1 <= posts'[i].no /\ posts'[i].no <= panels'
               /\ posts'[i].key \in 1 .. i /\ posts'[posts'[i].key].no = posts'[i].no
               /\ posts'[i].no = panel'.no => panel'.key = posts'[i].key
    <3>1. CASE i \in DOMAIN posts
      BY <3>1, <1>2, <1>6, <1>8, <1>10, <1>13 DEF DeadInv, PanelHasOneKey
    <3>2. CASE i = n
      <4>1. posts'[k].no = panel.no
        BY <1>4, <1>6, <1>9
      <4> QED
        BY <3>2, <1>2, <1>3, <1>4, <1>8, <1>9, <4>1
    <3> QED
      BY <3>1, <3>2, <1>7
  <2>2. \A i, j \in DOMAIN posts' : posts'[j].no = posts'[i].no => posts'[j].key = posts'[i].key
    BY <1>6, <1>7, <1>9, <1>10 DEF DeadInv, PanelHasOneKey
  <2>3. panel'.key # Dead!Nobody => panel'.key \in DOMAIN posts' /\ posts'[panel'.key].no = panel'.no
    <3>1. posts'[k].no = panel.no
      BY <1>4, <1>6, <1>9
    <3> QED
      BY <1>4, <1>6, <1>8, <3>1
  <2> QED
    BY <2>1, <2>2, <2>3 DEF PanelHasOneKey
<1>15. \A i \in DOMAIN posts : ~posts[i].live
  BY <1>2 DEF DeadInv, LastIsLive
<1>16. n \in DOMAIN posts' /\ \A j \in DOMAIN posts' : j <= n
  BY <1>1, <1>6
<1>17. LastIsLive' /\ LockFits'
  BY <1>2, <1>3, <1>6, <1>7, <1>8, <1>9, <1>15, <1>16 DEF LastIsLive, LockFits
<1>18. OvertakenKnown'
  <2>1. \A r \in DeadLetters :
          replays'[r] >= 1 => replays'[r] \in DOMAIN posts' /\ posts'[replays'[r]].key = replays'[r]
    <3>1. DOMAIN posts \subseteq DOMAIN posts'
      BY <1>1, <1>6
    <3> QED
      BY <1>2, <1>6, <3>1 DEF DeadInv, OvertakenKnown
  <2>2. \A i, j \in DOMAIN posts' :
          j < i /\ posts'[j].no = posts'[i].no /\ posts'[j].at \notin Dead!Answers => posts'[i].over
    <3> SUFFICES ASSUME NEW i \in DOMAIN posts', NEW j \in DOMAIN posts',
                        j < i, posts'[j].no = posts'[i].no, posts'[j].at \notin Dead!Answers
                 PROVE  posts'[i].over
      OBVIOUS
    <3>1. j \in DOMAIN posts
      BY <1>1, <1>6, <1>7
    <3>2. CASE i \in DOMAIN posts
      BY <3>1, <3>2, <1>6 DEF DeadInv, OvertakenKnown
    <3>3. CASE i = n
      BY <3>1, <3>3, <1>6, <1>9
    <3> QED
      BY <3>2, <3>3, <1>7
  <2>3. \A i \in DOMAIN posts' :
          ~(posts'[i].live /\ posts'[i].at \in {"looked", "checked", "conflict"})
    BY <1>6, <1>7, <1>9, <1>15
  <2> QED
    BY <2>1, <2>2, <2>3 DEF OvertakenKnown
<1> QED
  BY <1>2, <1>11, <1>12, <1>14, <1>17, <1>18 DEF DeadInv

LEMMA DeadStep ==
    ASSUME Dead!DeadAssumption, DeadInv, Dead!Next
    PROVE  DeadInv'
<1>1. ASSUME NEW i \in DOMAIN posts, Dead!Look(i) \/ Dead!Check(i) \/ Dead!Create(i) \/ Dead!Fail(i)
      PROVE  DeadInv'
  BY <1>1, ServerStep
<1>2. ASSUME NEW i \in DOMAIN posts, Dead!Succeed(i) \/ Dead!FailReplay(i) \/ Dead!TimeOut(i)
      PROVE  DeadInv'
  BY <1>2, AnswerStep
<1>3. ASSUME NEW r \in DeadLetters, Dead!ReplayedByOther(r) PROVE DeadInv'
  BY <1>3, OtherStep
<1>4. CASE \/ \E r \in DeadLetters : Dead!CatchUp(r) \/ Dead!PushOff(r)
           \/ Dead!Refresh \/ Dead!ServeList \/ Dead!ArrivePayload \/ Dead!RetryPayload
  BY <1>4, QuietStep
<1>5. CASE \/ \E r \in DeadLetters : Dead!Select(r)
           \/ Dead!Turn \/ Dead!Reopen \/ Dead!ArriveList \/ Dead!ArriveListFailed
  BY <1>5, ShowStep
<1>6. CASE Dead!Submit
  BY <1>6, SubmitStep
<1> QED
  BY <1>1, <1>2, <1>3, <1>4, <1>5, <1>6 DEF Dead!Next

\* What the invariant says of the page.
LEMMA DeadKeeps ==
    ASSUME DeadInv
    PROVE  ReplaysAreSound
<1>1. Dead!NotOfferedAgain
  BY DEF DeadInv, Dead!NotOfferedAgain, Dead!Eligible, Dead!Replayed
<1>2. Dead!RetryRecognised
  <2> SUFFICES ASSUME NEW i \in DOMAIN posts, posts[i].live, posts[i].at = "conflict",
                      replays[posts[i].row] \in DOMAIN posts,
                      posts[replays[posts[i].row]].no = posts[i].no
               PROVE  \E j \in 1 .. i : posts[j].no = posts[i].no /\ posts[j].over
    BY DEF Dead!RetryRecognised
  <2>1. posts[i] \in PostTypes /\ i \in 1 .. i /\ replays[posts[i].row] >= 1
    BY DEF DeadInv, DeadTypes
  <2>2. posts[i].row \in DeadLetters
    BY <2>1 DEF PostTypes
  <2>3. posts[replays[posts[i].row]].key = replays[posts[i].row]
    BY <2>1, <2>2 DEF DeadInv, OvertakenKnown
  <2>4. posts[replays[posts[i].row]].key = posts[i].key
    BY DEF DeadInv, PanelHasOneKey
  <2>5. posts[i].over
    BY <2>3, <2>4 DEF DeadInv, OvertakenKnown
  <2> QED
    BY <2>1, <2>5
<1>3. Dead!LockedForRequest
  BY DEF DeadInv, LockFits, LastIsLive, Dead!LockedForRequest
<1> QED
  BY <1>1, <1>2, <1>3 DEF ReplaysAreSound

LEMMA DeadTyped ==
    ASSUME Dead!DeadAssumption, DeadInv
    PROVE  Dead!TypeOK
<1>1. /\ replays \in ReplayTypes
      /\ standby \in [first : SUBSET DeadLetters, replayed : SUBSET DeadLetters]
      /\ moves \in 0 .. MaxMoves
      /\ list \in [at : {"idle", "asked", "read"}, items : ItemTypes]
      /\ items \in ItemTypes /\ selected \in DeadLetters \cup {Dead!NoRow}
      /\ panel \in PanelTypes /\ panels \in 0 .. MaxPanels /\ receipts \subseteq DeadLetters
      /\ known \subseteq DeadLetters /\ busy \in BOOLEAN /\ locker \in Nat
      /\ \A i \in DOMAIN posts : posts[i] \in PostTypes
  BY DEF DeadInv, DeadTypes
<1>2. list.at \in {"idle", "asked", "read"} /\ list.items \in ItemTypes
  BY <1>1
<1>3. \A f \in {items, list.items} : DOMAIN f \subseteq DeadLetters /\ f \in [DOMAIN f -> BOOLEAN]
  BY <1>1, <1>2 DEF ItemTypes
<1>4. panel.no \in 0 .. panels /\ locker \in 0 .. panels
  BY <1>1 DEF DeadInv, PanelFits, LockFits, PanelTypes
<1>5. panel.row \in {selected, Dead!NoRow} /\ (panel.row # Dead!NoRow <=> selected \in DOMAIN items)
  BY DEF DeadInv, PanelFits
<1>6. panel.payload \in {"loading", "ready", "error"}
      /\ panel.result \in {"idle", "pending", "success", "error", "blocked"}
  BY <1>1 DEF PanelTypes
<1>7. panel.result = "pending" => \E i \in DOMAIN posts : posts[i].live /\ posts[i].no = panel.no
  BY DEF DeadInv, LastIsLive
<1>8. \A i \in DOMAIN posts :
        /\ posts[i].at \in {"sent", "looked", "checked"} \cup Dead!Answers
        /\ posts[i].key \in 1 .. i /\ posts[i].row \in DeadLetters
  BY <1>1 DEF DeadInv, PanelHasOneKey, PostTypes, PostStates
<1>9. replays \in [DeadLetters -> {Dead!Nobody, Dead!Other} \cup 1 .. MaxPosts]
  BY <1>1 DEF ReplayTypes
<1> HIDE DEF DeadInv
<1> QED
  BY <1>1, <1>2, <1>3, <1>4, <1>5, <1>6, <1>7, <1>8, <1>9 DEF Dead!TypeOK

LEMMA DeadStarts ==
    ASSUME Dead!DeadAssumption, Dead!Init
    PROVE  DeadInv
<1>1. Dead!NoItems \in [{} -> BOOLEAN] /\ DOMAIN Dead!NoItems = {}
  BY DEF Dead!NoItems
<1>2. Dead!NoItems \in ItemTypes
  BY <1>1 DEF ItemTypes
<1>3. DeadTypes
  <2>1. panel \in PanelTypes
    BY DEF Dead!Init, Dead!NoPanel, PanelTypes, Dead!Nobody
  <2>2. replays \in ReplayTypes
    BY DEF Dead!Init, ReplayTypes
  <2>3. list \in [at : {"idle", "asked", "read"}, items : ItemTypes]
    BY <1>2 DEF Dead!Init, Dead!Asked
  <2>4. posts \in Seq(PostTypes) /\ Len(posts) = 0
    BY DEF Dead!Init
  <2>5. standby \in [first : SUBSET DeadLetters, replayed : SUBSET DeadLetters]
    BY DEF Dead!Init
  <2>6. moves \in 0 .. MaxMoves /\ panels \in 0 .. MaxPanels /\ Len(posts) <= MaxPosts
    BY <2>4 DEF Dead!Init, Dead!DeadAssumption
  <2> QED
    BY <1>2, <2>1, <2>2, <2>3, <2>4, <2>5, <2>6 DEF DeadTypes, Dead!Init
<1>4. PanelFits /\ LockFits /\ known \subseteq receipts
  BY <1>1 DEF PanelFits, LockFits, Dead!Init, Dead!NoPanel
<1>5. PanelHasOneKey /\ LastIsLive
  BY DEF PanelHasOneKey, LastIsLive, Dead!Init, Dead!NoPanel
<1>6. OvertakenKnown
  BY DEF OvertakenKnown, Dead!Init, Dead!Nobody
<1> QED
  BY <1>3, <1>4, <1>5, <1>6 DEF DeadInv

-----------------------------------------------------------------------------
(* ListPages: a page is everything between its cursor and the next one, so *)
(* the pages of a walk fit together.                                       *)

\* A row a page may show: below its cursor.
Under(r, cursor) == cursor = Pages!Top \/ Pages!Below(r, cursor.row)

\* A row the cursor of the next page leaves to the pages before it.
Upto(r, next) == next = Pages!Top \/ ~Pages!Below(r, next.row)

\* The rows of a filter that did not change since the page was opened.
Steady(filter) == {r \in DOMAIN table \ changed : Pages!Matches(r, filter)}

\* What an answer says, then and later: of the rows due, everything below the cursor
\* and not below the cursor it hands out.
Sound(filter, due, cursor, shown, next) ==
    /\ \A r \in shown : Under(r, cursor) /\ Upto(r, next)
    /\ next # Pages!Top => next.filter = filter /\ next.row \in shown
    /\ \A r \in due : Under(r, cursor) /\ Upto(r, next) => r \in shown

PageTypes ==
    /\ table \in [DOMAIN table -> Statuses] /\ DOMAIN table \subseteq Rows /\ IsFiniteSet(DOMAIN table)
    /\ changed \subseteq Rows
    /\ clicks \in 0 .. MaxClicks
    /\ query \in [filter : Filters, limit : Limits, cursors : Seq(Pages!Cursors), revision : Nat]
    /\ query.revision <= clicks
    /\ resource \in [key : Pages!Keys, answer : Pages!Answers \cup {Pages!Loading}]
    /\ requests \subseteq [key : Pages!Keys, live : BOOLEAN, answer : Pages!Answers \cup {Pages!Unread}]
    /\ mounted \in BOOLEAN
    /\ walk \in Seq(SUBSET Rows)

\* The cursors of the walk: the top first, and then one row below another.
Descends(q) ==
    /\ Len(q.cursors) >= 1 /\ q.cursors[1] = Pages!Top
    /\ \A d \in 2 .. Len(q.cursors) : q.cursors[d] \in [filter : {q.filter}, row : Rows]
    /\ \A c, d \in 2 .. Len(q.cursors) : c < d => Pages!Below(q.cursors[d].row, q.cursors[c].row)

\* The page waits for one request, the one of its query, and shows what that one said.
RequestsFit ==
    /\ resource.key = Pages!Key(query)
    /\ \A q \in requests :
         /\ Pages!Fits(q.key)
         /\ q.live => q.key = Pages!Key(query)
         /\ q.live /\ q.answer.status = "ready" =>
              Sound(query.filter, Steady(query.filter), Pages!Ends(query.cursors), q.answer.items, q.answer.next)
    /\ \A p, q \in requests : p.live /\ q.live => p = q
    /\ requests # {} => mounted
    /\ mounted /\ resource.answer.status = "loading" => \E q \in requests : q.live
    /\ resource.answer.status = "ready" =>
         Sound(query.filter, Steady(query.filter), Pages!Ends(query.cursors), resource.answer.items, resource.answer.next)

\* At every depth but the last the walk holds the page between two cursors.
WalkFits ==
    /\ Len(query.cursors) - 1 <= Len(walk) /\ Len(walk) <= Len(query.cursors)
    /\ resource.answer.status = "ready" =>
         Len(walk) = Len(query.cursors) /\ walk[Len(walk)] = resource.answer.items
    /\ \A d \in 1 .. Len(query.cursors) - 1 :
         Sound(query.filter, Steady(query.filter), query.cursors[d], walk[d], query.cursors[d + 1])

PagesInv == PageTypes /\ Descends(query) /\ RequestsFit /\ WalkFits

LEMMA BelowOrders ==
    ASSUME Pages!ListAssumption
    PROVE  /\ \A r \in Rows : ~Pages!Below(r, r)
           /\ \A r, s \in Rows : r = s \/ Pages!Below(r, s) \/ Pages!Below(s, r)
           /\ \A r, s, t \in Rows : Pages!Below(r, s) /\ Pages!Below(s, t) => Pages!Below(r, t)
<1>1. \A r \in Rows : r \in [at : Nat, id : Nat]
  BY DEF Pages!ListAssumption
<1>2. \A r \in Rows : ~Pages!Below(r, r)
  BY <1>1 DEF Pages!Below
<1>3. \A r, s \in Rows : r = s \/ Pages!Below(r, s) \/ Pages!Below(s, r)
  BY <1>1 DEF Pages!Below
<1>4. \A r, s, t \in Rows : Pages!Below(r, s) /\ Pages!Below(s, t) => Pages!Below(r, t)
  BY <1>1 DEF Pages!Below
<1> QED
  BY <1>2, <1>3, <1>4

LEMMA LeastNumber ==
    ASSUME NEW N, N \subseteq Nat, N # {}
    PROVE  \E m \in N : \A n \in N : m <= n
<1>1. IsWellFoundedOn(OpToRel(<, Nat), Nat)
  BY NatLessThanWellFounded
<1>2. PICK m \in N : \A n \in N : ~(<<n, m>> \in OpToRel(<, Nat))
  BY <1>1, WFMin
<1>3. \A n \in N : ~(n < m)
  BY <1>2 DEF OpToRel
<1> QED
  BY <1>3

LEMMA SmallerSet ==
    ASSUME NEW S, IsFiniteSet(S), NEW T, T \subseteq S, NEW x \in S, x \notin T
    PROVE  Cardinality(T) \in Nat /\ Cardinality(S) \in Nat /\ Cardinality(T) < Cardinality(S)
<1>1. IsFiniteSet(T) /\ T # S
  BY FS_Subset
<1> QED
  BY <1>1, FS_Subset, FS_CardinalityType

\* A finite set of rows has one that no other is above.
LEMMA HighestRow ==
    ASSUME Pages!ListAssumption, NEW S, S \subseteq Rows, IsFiniteSet(S), S # {}
    PROVE  \E m \in S : \A r \in S : ~Pages!Below(m, r)
<1> DEFINE up(r) == {s \in S : Pages!Below(r, s)}
           sizes == {Cardinality(up(r)) : r \in S}
<1>1. \A r \in S : IsFiniteSet(up(r)) /\ Cardinality(up(r)) \in Nat
  BY FS_Subset, FS_CardinalityType
<1>2. sizes \subseteq Nat /\ sizes # {}
  BY <1>1
<1> HIDE DEF sizes
<1>3. PICK k \in sizes : \A n \in sizes : k <= n
  BY <1>2, LeastNumber
<1>4. PICK m \in S : k = Cardinality(up(m))
  BY <1>3 DEF sizes
<1>5. ASSUME NEW r \in S, Pages!Below(m, r)
      PROVE  FALSE
  <2>1. up(r) \subseteq up(m) /\ r \in up(m) /\ r \notin up(r)
    BY <1>5, BelowOrders
  <2>2. Cardinality(up(r)) < Cardinality(up(m))
    BY <1>1, <2>1, SmallerSet
  <2>3. Cardinality(up(m)) <= Cardinality(up(r))
    BY <1>3, <1>4 DEF sizes
  <2> HIDE DEF up
  <2> QED
    BY <1>1, <2>2, <2>3
<1> QED
  BY <1>5

\* And one that no other is below.
LEMMA LowestRow ==
    ASSUME Pages!ListAssumption, NEW S, S \subseteq Rows, IsFiniteSet(S), S # {}
    PROVE  \E m \in S : \A r \in S : ~Pages!Below(r, m)
<1> DEFINE down(r) == {s \in S : Pages!Below(s, r)}
           sizes == {Cardinality(down(r)) : r \in S}
<1>1. \A r \in S : IsFiniteSet(down(r)) /\ Cardinality(down(r)) \in Nat
  BY FS_Subset, FS_CardinalityType
<1>2. sizes \subseteq Nat /\ sizes # {}
  BY <1>1
<1> HIDE DEF sizes
<1>3. PICK k \in sizes : \A n \in sizes : k <= n
  BY <1>2, LeastNumber
<1>4. PICK m \in S : k = Cardinality(down(m))
  BY <1>3 DEF sizes
<1>5. ASSUME NEW r \in S, Pages!Below(r, m)
      PROVE  FALSE
  <2>1. down(r) \subseteq down(m) /\ r \in down(m) /\ r \notin down(r)
    BY <1>5, BelowOrders
  <2>2. Cardinality(down(r)) < Cardinality(down(m))
    BY <1>1, <2>1, SmallerSet
  <2>3. Cardinality(down(m)) <= Cardinality(down(r))
    BY <1>3, <1>4 DEF sizes
  <2> HIDE DEF down
  <2> QED
    BY <1>1, <2>2, <2>3
<1> QED
  BY <1>5

\* Take by the order of the list.
LEMMA TakeIs ==
    ASSUME Pages!ListAssumption, NEW S, S \subseteq Rows, NEW n
    PROVE  Pages!Take(S, n) = {r \in S : Cardinality({s \in S : Pages!Below(r, s)}) < n}
<1>1. \A T : Pages!Cardinality(T) = Cardinality(T)
  BY DEF Pages!Cardinality, Cardinality, Pages!IsFiniteSet, IsFiniteSet
<1>2. \A r \in Rows : r \in [at : Nat, id : Nat]
  BY DEF Pages!ListAssumption
<1>3. ASSUME NEW r \in S
      PROVE  {s \in S : s.at > r.at \/ (s.at = r.at /\ s.id > r.id)} = {s \in S : Pages!Below(r, s)}
  BY <1>2 DEF Pages!Below
<1>4. \A r \in S : Pages!Cardinality({s \in S : s.at > r.at \/ (s.at = r.at /\ s.id > r.id)})
                     = Cardinality({s \in S : Pages!Below(r, s)})
  BY <1>1, <1>3
<1>5. Pages!Take(S, n)
        = {r \in S : Pages!Cardinality({s \in S : s.at > r.at \/ (s.at = r.at /\ s.id > r.id)}) < n}
  BY DEF Pages!Take
<1> QED
  BY <1>4, <1>5

\* What is taken is at the top of the set.
LEMMA TakeIsUpper ==
    ASSUME Pages!ListAssumption, NEW S, S \subseteq Rows, IsFiniteSet(S), NEW n \in Nat,
           NEW r \in Pages!Take(S, n), NEW s \in S, Pages!Below(r, s)
    PROVE  s \in Pages!Take(S, n)
<1> DEFINE up(t) == {u \in S : Pages!Below(t, u)}
<1>1. r \in S /\ Cardinality(up(r)) < n
  BY TakeIs
<1>2. up(s) \subseteq up(r)
  BY <1>1, BelowOrders
<1>3. IsFiniteSet(up(r))
  BY FS_Subset
<1>4. Cardinality(up(s)) <= Cardinality(up(r)) /\ Cardinality(up(s)) \in Nat /\ Cardinality(up(r)) \in Nat
  BY <1>2, <1>3, FS_Subset, FS_CardinalityType
<1>5. Cardinality(up(s)) < n
  BY <1>1, <1>4
<1> QED
  BY <1>5, TakeIs

\* Fewer than were asked for: that is all there is.
LEMMA TakeAll ==
    ASSUME Pages!ListAssumption, NEW S, S \subseteq Rows, IsFiniteSet(S), NEW n \in Nat,
           Cardinality(Pages!Take(S, n + 1)) <= n
    PROVE  Pages!Take(S, n + 1) = S /\ Pages!Take(S, n) = S
<1> DEFINE T == Pages!Take(S, n + 1)
           up(r) == {s \in S : Pages!Below(r, s)}
<1>0. T \subseteq S /\ IsFiniteSet(T)
  BY TakeIs, FS_Subset
<1>1. ASSUME S \ T # {}
      PROVE  FALSE
  <2>1. PICK m \in S \ T : \A r \in S \ T : ~Pages!Below(m, r)
    <3>1. S \ T \subseteq Rows /\ IsFiniteSet(S \ T)
      BY FS_Subset
    <3> QED
      BY <1>1, <3>1, HighestRow
  <2>2. up(m) \subseteq T
    BY <2>1
  <2>3. Cardinality(up(m)) <= Cardinality(T) /\ Cardinality(up(m)) \in Nat /\ Cardinality(T) \in Nat
    BY <1>0, <2>2, FS_Subset, FS_CardinalityType
  <2>4. Cardinality(up(m)) < n + 1
    BY <2>3
  <2>5. m \in T
    BY <2>4, TakeIs
  <2> QED
    BY <2>1, <2>5
<1>2. T = S
  BY <1>0, <1>1
<1>3. \A r \in S : Cardinality(up(r)) < n
  <2> SUFFICES ASSUME NEW r \in S PROVE Cardinality(up(r)) < n
    OBVIOUS
  <2>1. up(r) \subseteq S /\ r \notin up(r)
    BY BelowOrders
  <2>2. Cardinality(up(r)) < Cardinality(S) /\ Cardinality(up(r)) \in Nat /\ Cardinality(S) \in Nat
    BY <2>1, SmallerSet
  <2>3. Cardinality(S) <= n
    BY <1>2
  <2> HIDE DEF up
  <2> QED
    BY <2>2, <2>3
<1>4. Pages!Take(S, n) = {r \in S : Cardinality(up(r)) < n}
  BY TakeIs
<1> HIDE DEF up
<1> QED
  BY <1>2, <1>3, <1>4

\* LastOf is the lowest row.
LEMMA LastIsLowest ==
    ASSUME Pages!ListAssumption, NEW S, S \subseteq Rows, IsFiniteSet(S), S # {}
    PROVE  Pages!LastOf(S) \in S /\ \A r \in S : ~Pages!Below(r, Pages!LastOf(S))
<1> DEFINE up(r) == {s \in S : Pages!Below(r, s)}
           c == Cardinality(S)
<1>1. PICK m \in S : \A r \in S : ~Pages!Below(r, m)
  BY LowestRow
<1>2. c \in Nat /\ IsFiniteSet(S \ {m}) /\ Cardinality(S \ {m}) = c - 1
  BY FS_CardinalityType, FS_RemoveElement
<1>3. up(m) = S \ {m}
  BY <1>1, BelowOrders
<1>4. ASSUME NEW r \in S, r # m
      PROVE  Cardinality(up(r)) < c - 1
  <2>1. up(r) \subseteq S \ {m} /\ r \in S \ {m} /\ r \notin up(r)
    BY <1>1, <1>4, BelowOrders
  <2>2. Cardinality(up(r)) < Cardinality(S \ {m})
    BY <1>2, <2>1, SmallerSet
  <2> HIDE DEF up
  <2> QED
    BY <1>2, <2>2
<1>5. Pages!Take(S, c - 1) = S \ {m}
  <2>1. ~(Cardinality(up(m)) < c - 1)
    BY <1>2, <1>3
  <2>2. Pages!Take(S, c - 1) = {r \in S : Cardinality(up(r)) < c - 1}
    BY TakeIs
  <2> HIDE DEF up, c
  <2> QED
    BY <1>4, <2>1, <2>2
<1>6. \A T : Pages!Cardinality(T) = Cardinality(T)
  BY DEF Pages!Cardinality, Cardinality, Pages!IsFiniteSet, IsFiniteSet
<1>7. Pages!LastOf(S) = CHOOSE r \in S : Pages!Take(S, c - 1) = S \ {r}
  BY <1>6 DEF Pages!LastOf
<1>8. Pages!LastOf(S) \in S /\ Pages!Take(S, c - 1) = S \ {Pages!LastOf(S)}
  BY <1>5, <1>7
<1>9. Pages!LastOf(S) = m
  BY <1>5, <1>8
<1> QED
  BY <1>1, <1>9

LEMMA LastDepth == \A m \in Nat : m >= 1 /\ m # 1 => m \in 2 .. m
OBVIOUS

LEMMA TopIsNoRow ==
    \A f, r : [filter |-> f, row |-> r] # Pages!Top
<1>1. ASSUME NEW f, NEW r, [filter |-> f, row |-> r] = Pages!Top
      PROVE  FALSE
  <2>1. DOMAIN [filter |-> f, row |-> r] = {"filter", "row"} /\ DOMAIN Pages!Top = {"top"}
    BY DEF Pages!Top
  <2> QED
    BY <1>1, <2>1
<1> QED
  BY <1>1

\* The first n rows of a set, by way of its first n + 1.
LEMMA FirstPage ==
    ASSUME Pages!ListAssumption, NEW F, F \subseteq Rows, IsFiniteSet(F), NEW n \in Nat, n >= 1,
           NEW some, some = Pages!Take(F, n + 1), NEW shown, shown = Pages!Take(some, n)
    PROVE  /\ shown \subseteq F /\ Cardinality(some) \in Nat
           /\ Cardinality(some) <= n => shown = F
           /\ Cardinality(some) > n =>
                /\ Pages!LastOf(shown) \in shown
                /\ \A r \in shown : ~Pages!Below(r, Pages!LastOf(shown))
                /\ \A r \in F : ~Pages!Below(r, Pages!LastOf(shown)) => r \in shown
<1>1. some \subseteq F
  BY TakeIs
<1>2. some \subseteq Rows /\ IsFiniteSet(some) /\ Cardinality(some) \in Nat
  BY <1>1, FS_Subset, FS_CardinalityType
<1>3. shown = {r \in some : Cardinality({s \in some : Pages!Below(r, s)}) < n}
  BY <1>2, TakeIs
<1>4. shown \subseteq some /\ shown \subseteq Rows /\ IsFiniteSet(shown)
  BY <1>2, <1>3, FS_Subset
<1>5. CASE Cardinality(some) <= n
  <2>1. some = F
    BY <1>5, TakeAll
  <2>2. Pages!Take(F, n) = F
    BY <1>5, TakeAll
  <2> QED
    BY <1>2, <1>5, <2>1, <2>2
<1>6. CASE Cardinality(some) > n
  <2>1. some # {}
    BY <1>6, FS_EmptySet
  <2>2. PICK m \in some : \A r \in some : ~Pages!Below(m, r)
    BY <1>2, <2>1, HighestRow
  <2>3. {s \in some : Pages!Below(m, s)} = {}
    BY <2>2
  <2>4. m \in shown
    BY <1>3, <2>2, <2>3, FS_EmptySet
  <2>5. Pages!LastOf(shown) \in shown /\ \A r \in shown : ~Pages!Below(r, Pages!LastOf(shown))
    BY <1>4, <2>4, LastIsLowest
  <2>6. ASSUME NEW r \in F, ~Pages!Below(r, Pages!LastOf(shown)), r # Pages!LastOf(shown)
        PROVE  r \in shown
    <3>1. Pages!LastOf(shown) \in some /\ Pages!Below(Pages!LastOf(shown), r)
      BY <1>1, <1>2, <1>4, <2>5, <2>6, BelowOrders
    <3>2. r \in some
      BY <3>1, TakeIsUpper
    <3> QED
      BY <1>2, <2>5, <3>1, <3>2, TakeIsUpper
  <2> QED
    BY <1>1, <1>2, <1>4, <1>6, <2>5, <2>6
<1> QED
  BY <1>2, <1>5, <1>6

\* services/delivery-history.ts: one row more than the page holds says whether to go on,
\* and the cursor is the last row shown.
LEMMA PageIsSound ==
    ASSUME Pages!ListAssumption, PageTypes, NEW k \in Pages!Keys
    PROVE  /\ Pages!Page(k) \in Pages!Answers /\ Pages!Page(k).status = "ready"
           /\ Sound(k.filter, Steady(k.filter), k.cursor, Pages!Page(k).items, Pages!Page(k).next)
<1> DEFINE F == Pages!Found(k)
           n == k.limit
           some == Pages!Take(F, n + 1)
           shown == Pages!Take(some, n)
           last == Pages!LastOf(shown)
           next == IF Cardinality(some) > n THEN [filter |-> k.filter, row |-> last] ELSE Pages!Top
<1>1. n \in Nat /\ n >= 1 /\ k.filter \in Filters
  BY DEF Pages!Keys, Pages!ListAssumption
<1>2. F = {r \in DOMAIN table : Pages!Matches(r, k.filter) /\ Under(r, k.cursor)}
  BY DEF Pages!Found, Under
<1>3. F \subseteq Rows /\ IsFiniteSet(F)
  <2>1. F \subseteq DOMAIN table
    BY <1>2
  <2> QED
    BY <2>1, FS_Subset DEF PageTypes
<1>4. \A T : Pages!Cardinality(T) = Cardinality(T)
  BY DEF Pages!Cardinality, Cardinality, Pages!IsFiniteSet, IsFiniteSet
<1>5. Pages!Page(k) = [status |-> "ready", items |-> shown, next |-> next]
  BY <1>4 DEF Pages!Page
<1> HIDE DEF F
<1>6. /\ shown \subseteq F /\ Cardinality(some) \in Nat
      /\ Cardinality(some) <= n => shown = F
      /\ Cardinality(some) > n =>
           /\ last \in shown
           /\ \A r \in shown : ~Pages!Below(r, last)
           /\ \A r \in F : ~Pages!Below(r, last) => r \in shown
  BY <1>1, <1>3, FirstPage
<1> HIDE DEF some, shown, last, n
<1>7. /\ \A r \in shown : Upto(r, next)
      /\ next # Pages!Top => next.filter = k.filter /\ next.row \in shown
      /\ \A r \in F : Upto(r, next) => r \in shown
  <2>1. CASE Cardinality(some) <= n
    BY <1>1, <1>6, <2>1 DEF Upto
  <2>2. CASE Cardinality(some) > n
    <3>1. next = [filter |-> k.filter, row |-> last]
      BY <2>2
    <3>2. next # Pages!Top /\ next.filter = k.filter /\ next.row = last
      BY <3>1, TopIsNoRow
    <3> QED
      BY <1>6, <2>2, <3>2 DEF Upto
  <2> QED
    BY <1>1, <1>6, <2>1, <2>2
<1>8. next \in Pages!Cursors
  <2>1. CASE Cardinality(some) > n
    BY <1>1, <1>3, <1>6, <2>1 DEF Pages!Cursors
  <2>2. CASE ~(Cardinality(some) > n)
    BY <2>2 DEF Pages!Cursors
  <2> QED
    BY <2>1, <2>2
<1> HIDE DEF next
<1>9. Sound(k.filter, Steady(k.filter), k.cursor, shown, next)
  BY <1>2, <1>6, <1>7 DEF Sound, Steady
<1>10. [status |-> "ready", items |-> shown, next |-> next] \in Pages!Answers
  BY <1>3, <1>6, <1>8 DEF Pages!Answers
<1> QED
  BY <1>5, <1>9, <1>10

\* What was sound stays so: rows that change are not due any more.
LEMMA SoundStays ==
    ASSUME NEW f, NEW c, NEW s, NEW n, NEW d, Sound(f, d, c, s, n), NEW e, e \subseteq d
    PROVE  Sound(f, e, c, s, n)
BY DEF Sound

LEMMA ChangeStep ==
    ASSUME PagesInv, NEW r \in Rows, NEW s \in Statuses, Pages!Change(r, s)
    PROVE  PagesInv'
<1>1. /\ UNCHANGED <<clicks, query, resource, requests, mounted, walk>>
      /\ table' = [t \in DOMAIN table \cup {r} |-> IF t = r THEN s ELSE table[t]]
      /\ changed' = changed \cup {r}
  BY DEF Pages!Change
<1>2. PageTypes'
  <2>1. IsFiniteSet(DOMAIN table')
    BY <1>1, FS_AddElement DEF PagesInv, PageTypes
  <2> QED
    BY <1>1, <2>1 DEF PagesInv, PageTypes
<1>4. Steady(query.filter)' \subseteq Steady(query.filter)
  BY <1>1 DEF Steady, Pages!Matches
<1>5. Descends(query)'
  BY <1>1 DEF PagesInv, Descends
<1>6. RequestsFit'
  BY <1>1, <1>4, SoundStays DEF PagesInv, RequestsFit
<1>7. WalkFits'
  BY <1>1, <1>4, SoundStays DEF PagesInv, WalkFits
<1> QED
  BY <1>2, <1>5, <1>6, <1>7 DEF PagesInv

LEMMA AnswerComes ==
    ASSUME PagesInv, NEW q \in requests, NEW answer \in Pages!Answers, q.answer = Pages!Unread,
           Pages!Answered(q, answer),
           answer.status = "ready" =>
             Sound(q.key.filter, Steady(q.key.filter), q.key.cursor, answer.items, answer.next),
           UNCHANGED <<table, changed, clicks, query, resource, mounted, walk>>
    PROVE  PagesInv'
<1> DEFINE x == [q EXCEPT !.answer = answer]
<1>1. q \in [key : Pages!Keys, live : BOOLEAN, answer : Pages!Answers \cup {Pages!Unread}]
  BY DEF PagesInv, PageTypes
<1>2. /\ x \in [key : Pages!Keys, live : BOOLEAN, answer : Pages!Answers \cup {Pages!Unread}]
      /\ x.key = q.key /\ x.live = q.live /\ x.answer = answer
  BY <1>1
<1>3. requests' = (requests \ {q}) \cup {x}
  BY DEF Pages!Answered
<1> HIDE DEF x
<1>4. PageTypes'
  BY <1>2, <1>3 DEF PagesInv, PageTypes
<1>5. Steady(query.filter)' = Steady(query.filter)
  BY DEF Steady, Pages!Matches
<1>6. Descends(query)' /\ WalkFits'
  BY <1>5 DEF PagesInv, Descends, WalkFits
<1>7. q.live => q.key.filter = query.filter /\ q.key.cursor = Pages!Ends(query.cursors)
  BY DEF PagesInv, RequestsFit, Pages!Key
<1>8. RequestsFit'
  <2>1. ASSUME NEW p \in requests'
        PROVE  /\ Pages!Fits(p.key)
               /\ p.live => p.key = Pages!Key(query)
               /\ p.live /\ p.answer.status = "ready" =>
                    Sound(query.filter, Steady(query.filter), Pages!Ends(query.cursors), p.answer.items,
                          p.answer.next)
    <3>1. CASE p \in requests
      BY <3>1 DEF PagesInv, RequestsFit
    <3>2. CASE p = x
      BY <1>2, <1>7, <3>2 DEF PagesInv, RequestsFit
    <3> QED
      BY <1>3, <3>1, <3>2
  <2>2. \A p, r \in requests' : p.live /\ r.live => p = r
    <3> SUFFICES ASSUME NEW p \in requests', NEW r \in requests', p.live, r.live, p # r PROVE FALSE
      OBVIOUS
    <3>1. \A s \in requests : s.live /\ q.live => s = q
      BY DEF PagesInv, RequestsFit
    <3>2. CASE p \in requests \ {q} /\ r \in requests \ {q}
      BY <3>2 DEF PagesInv, RequestsFit
    <3> QED
      BY <1>2, <1>3, <3>1, <3>2
  <2>3. mounted /\ resource.answer.status = "loading" => \E p \in requests' : p.live
    <3> SUFFICES ASSUME mounted, resource.answer.status = "loading" PROVE \E p \in requests' : p.live
      OBVIOUS
    <3>1. PICK p \in requests : p.live
      BY DEF PagesInv, RequestsFit
    <3>2. CASE p = q
      BY <1>2, <1>3, <3>1, <3>2
    <3>3. CASE p # q
      BY <1>3, <3>1, <3>3
    <3> QED
      BY <3>2, <3>3
  <2>4. resource.key = Pages!Key(query) /\ mounted
        /\ (resource.answer.status = "ready" =>
              Sound(query.filter, Steady(query.filter), Pages!Ends(query.cursors), resource.answer.items,
                    resource.answer.next))
    BY DEF PagesInv, RequestsFit
  <2> QED
    BY <1>5, <2>1, <2>2, <2>3, <2>4 DEF RequestsFit
<1> QED
  BY <1>4, <1>6, <1>8 DEF PagesInv

LEMMA ServeStep ==
    ASSUME Pages!ListAssumption, PagesInv, NEW q \in requests, Pages!Serve(q) \/ Pages!ServeFails(q)
    PROVE  PagesInv'
<1>1. q.key \in Pages!Keys /\ Pages!Fits(q.key)
  BY DEF PagesInv, PageTypes, RequestsFit
<1>2. CASE Pages!Serve(q)
  <2>1. Pages!Answered(q, Pages!Page(q.key)) /\ q.answer = Pages!Unread
        /\ UNCHANGED <<table, changed, clicks, query, resource, mounted, walk>>
    BY <1>1, <1>2 DEF Pages!Serve
  <2>2. /\ Pages!Page(q.key) \in Pages!Answers
        /\ Sound(q.key.filter, Steady(q.key.filter), q.key.cursor, Pages!Page(q.key).items,
                 Pages!Page(q.key).next)
    BY <1>1, PageIsSound DEF PagesInv
  <2> QED
    BY <2>1, <2>2, AnswerComes
<1>3. CASE Pages!ServeFails(q)
  <2>1. PICK code \in Pages!Failures : Pages!Answered(q, [status |-> "error", code |-> code])
    BY <1>3 DEF Pages!ServeFails
  <2>2. [status |-> "error", code |-> code] \in Pages!Answers
    BY DEF Pages!Answers
  <2>3. [status |-> "error", code |-> code].status # "ready"
    OBVIOUS
  <2>4. q.answer = Pages!Unread /\ UNCHANGED <<table, changed, clicks, query, resource, mounted, walk>>
    BY <1>3 DEF Pages!ServeFails
  <2> HIDE DEF Pages!Answers
  <2> QED
    BY <2>1, <2>2, <2>3, <2>4, AnswerComes
<1> QED
  BY <1>2, <1>3

LEMMA LeaveStep ==
    ASSUME PagesInv, UNCHANGED <<table, changed, clicks, query, resource, walk>>,
           mounted' = FALSE, requests' = {}
    PROVE  PagesInv'
<1>1. Steady(query.filter)' = Steady(query.filter)
  BY DEF Steady, Pages!Matches
<1>2. PageTypes'
  BY DEF PagesInv, PageTypes
<1>3. Descends(query)' /\ WalkFits'
  BY <1>1 DEF PagesInv, Descends, WalkFits
<1>4. RequestsFit'
  BY <1>1 DEF PagesInv, RequestsFit
<1> QED
  BY <1>2, <1>3, <1>4 DEF PagesInv

LEMMA ArriveStep ==
    ASSUME PagesInv, NEW q \in requests, Pages!Arrive(q)
    PROVE  PagesInv'
<1>1. q \in [key : Pages!Keys, live : BOOLEAN, answer : Pages!Answers \cup {Pages!Unread}]
      /\ walk \in Seq(SUBSET Rows) /\ query.cursors \in Seq(Pages!Cursors)
  BY DEF PagesInv, PageTypes
<1>2. q.answer \in Pages!Answers /\ UNCHANGED <<table, changed, clicks, query>> /\ q.live \in BOOLEAN
  BY <1>1 DEF Pages!Arrive
<1> DEFINE ended == q.answer.status = "error" /\ q.answer.code = "signed-out"
<1>3. Steady(query.filter)' = Steady(query.filter)
  BY <1>2 DEF Steady, Pages!Matches
<1>4. CASE q.live /\ ended
  <2>1. mounted' = FALSE /\ requests' = {} /\ resource' = resource /\ walk' = walk
    BY <1>4 DEF Pages!Arrive, Pages!Applies
  <2> QED
    BY <1>2, <2>1, LeaveStep
<1>5. CASE ~q.live
  <2>1. mounted' = TRUE /\ requests' = requests \ {q} /\ resource' = resource /\ walk' = walk
    BY <1>5 DEF Pages!Arrive, Pages!Applies
  <2>2. PageTypes'
    BY <1>2, <2>1 DEF PagesInv, PageTypes
  <2>3. Descends(query)' /\ WalkFits'
    BY <1>2, <1>3, <2>1 DEF PagesInv, Descends, WalkFits
  <2>4. RequestsFit'
    <3>1. mounted
      BY DEF PagesInv, RequestsFit
    <3>2. mounted' /\ resource'.answer.status = "loading" => \E p \in requests' : p.live
      BY <1>5, <2>1, <3>1 DEF PagesInv, RequestsFit
    <3> QED
      BY <1>2, <1>3, <1>5, <2>1, <3>2 DEF PagesInv, RequestsFit
  <2> QED
    BY <2>2, <2>3, <2>4 DEF PagesInv
<1>6. CASE q.live /\ ~ended
  <2>1. /\ mounted' = TRUE /\ requests' = requests \ {q}
        /\ resource' = [key |-> q.key, answer |-> q.answer]
        /\ walk' = IF q.answer.status = "ready" /\ q.key = Pages!Key(query)
                   THEN Append(SubSeq(walk, 1, Len(query.cursors) - 1), q.answer.items) ELSE walk
    BY <1>6 DEF Pages!Arrive, Pages!Applies
  <2>2. q.key = Pages!Key(query)
    BY <1>6 DEF PagesInv, RequestsFit
  <2>3. q.answer.status # "loading"
    BY <1>2 DEF Pages!Answers
  <2>4. resource'.key = Pages!Key(query) /\ resource'.answer = q.answer
        /\ resource' \in [key : Pages!Keys, answer : Pages!Answers \cup {Pages!Loading}]
    BY <1>1, <1>2, <2>1, <2>2
  <2>5. RequestsFit'
    BY <1>2, <1>3, <1>6, <2>1, <2>3, <2>4 DEF PagesInv, RequestsFit
  <2>6. CASE q.answer.status = "ready"
    <3> DEFINE n == Len(query.cursors)
               kept == SubSeq(walk, 1, n - 1)
    <3>1. q.answer.items \in SUBSET Rows
      BY <1>2, <2>6 DEF Pages!Answers
    <3>2. n \in Nat /\ n >= 1 /\ n - 1 <= Len(walk) /\ Len(walk) \in Nat
      BY <1>1 DEF PagesInv, Descends, WalkFits
    <3>3. kept \in Seq(SUBSET Rows) /\ Len(kept) = n - 1 /\ \A d \in 1 .. n - 1 : kept[d] = walk[d]
      BY <1>1, <3>2
    <3>4. walk' = Append(kept, q.answer.items)
      BY <2>1, <2>2, <2>6
    <3> HIDE DEF kept
    <3>5. /\ walk' \in Seq(SUBSET Rows) /\ Len(walk') = n /\ walk'[n] = q.answer.items
          /\ \A d \in 1 .. n - 1 : walk'[d] = walk[d]
      BY <3>1, <3>2, <3>3, <3>4
    <3>6. PageTypes'
      BY <1>2, <2>1, <2>4, <3>5 DEF PagesInv, PageTypes
    <3>7. Descends(query)'
      BY <1>2 DEF PagesInv, Descends
    <3>8. WalkFits'
      BY <1>2, <1>3, <2>4, <3>2, <3>5 DEF PagesInv, WalkFits
    <3> QED
      BY <2>5, <3>6, <3>7, <3>8 DEF PagesInv
  <2>7. CASE q.answer.status # "ready"
    <3>1. walk' = walk
      BY <2>1, <2>7
    <3>2. PageTypes'
      BY <1>2, <2>1, <2>4, <3>1 DEF PagesInv, PageTypes
    <3>3. Descends(query)' /\ WalkFits'
      BY <1>2, <1>3, <2>4, <2>7, <3>1 DEF PagesInv, Descends, WalkFits
    <3> QED
      BY <2>5, <3>2, <3>3 DEF PagesInv
  <2> QED
    BY <2>6, <2>7
<1> QED
  BY <1>2, <1>4, <1>5, <1>6

\* deliveryListReducer and the effect: a new key gives up the request of the old one and
\* asks again, for the page the cursors of the new query lead to.
LEMMA DispatchStep ==
    ASSUME Pages!ListAssumption, PagesInv,
           NEW q \in [filter : Filters, limit : Limits, cursors : Seq(Pages!Cursors), revision : Nat],
           Pages!Dispatch(q), q.revision <= clicks + 1, Descends(q),
           Pages!Key(q) = Pages!Key(query) => q.cursors = query.cursors,
           Len(q.cursors) - 1 <= Len(walk),
           \A d \in 1 .. Len(q.cursors) - 1 :
             Sound(q.filter, Steady(q.filter), q.cursors[d], walk[d], q.cursors[d + 1])
    PROVE  PagesInv'
<1>1. /\ mounted /\ clicks < MaxClicks /\ clicks' = clicks + 1 /\ query' = q
      /\ UNCHANGED <<table, changed, mounted>>
  BY DEF Pages!Dispatch
<1>2. /\ clicks \in 0 .. MaxClicks /\ MaxClicks \in Nat /\ walk \in Seq(SUBSET Rows)
      /\ q.cursors \in Seq(Pages!Cursors) /\ Len(q.cursors) >= 1 /\ Len(walk) \in Nat
      /\ q.filter \in Filters /\ q.limit \in Limits /\ q.revision \in Nat
  BY DEF PagesInv, PageTypes, Pages!ListAssumption, Descends
<1>3. clicks' \in 0 .. MaxClicks
  BY <1>1, <1>2
<1>4. \A f : Steady(f)' = Steady(f)
  BY <1>1 DEF Steady, Pages!Matches
<1>5. Descends(query)'
  BY <1>1 DEF Descends
<1>6. Pages!Key(q) \in Pages!Keys
  <2>1. Pages!Ends(q.cursors) \in Pages!Cursors
    BY <1>2 DEF Pages!Ends
  <2>2. q.revision \in 0 .. MaxClicks
    BY <1>1, <1>2
  <2> QED
    BY <1>2, <2>1, <2>2 DEF Pages!Key, Pages!Keys
<1>7. Pages!Key(query)' = Pages!Key(q) /\ Steady(query.filter)' = Steady(q.filter)
  BY <1>1 DEF Pages!Key, Steady, Pages!Matches
<1>8. CASE Pages!Key(q) = Pages!Key(query)
  <2>1. resource' = resource /\ requests' = requests /\ walk' = walk
    BY <1>8 DEF Pages!Dispatch
  <2>2. q.cursors = query.cursors /\ q.filter = query.filter
    BY <1>8 DEF Pages!Key
  <2>3. PageTypes'
    BY <1>1, <1>3, <2>1 DEF PagesInv, PageTypes
  <2>4. RequestsFit'
    BY <1>1, <1>7, <1>8, <2>1, <2>2 DEF PagesInv, RequestsFit
  <2>5. WalkFits'
    BY <1>1, <1>7, <2>1, <2>2 DEF PagesInv, WalkFits
  <2> QED
    BY <1>5, <2>3, <2>4, <2>5 DEF PagesInv
<1>9. CASE Pages!Key(q) # Pages!Key(query)
  <2> DEFINE n == Len(q.cursors)
             asked == Pages!Asked(Pages!Key(q))
             kept == SubSeq(walk, 1, n - 1)
             AskTypes == [key : Pages!Keys, live : BOOLEAN, answer : Pages!Answers \cup {Pages!Unread}]
  <2>1. /\ resource' = [key |-> Pages!Key(q), answer |-> Pages!Loading]
        /\ requests' = Pages!Dropped \cup {asked} /\ walk' = kept
    BY <1>9 DEF Pages!Dispatch
  <2>0. n \in Nat /\ n >= 1 /\ n - 1 <= Len(walk) /\ n - 1 \in Nat
    BY <1>2
  <2>2. kept \in Seq(SUBSET Rows) /\ Len(kept) = n - 1 /\ \A d \in 1 .. n - 1 : kept[d] = walk[d]
    <3> HIDE DEF n
    <3> QED
      BY <1>2, <2>0
  <2>3. asked \in AskTypes /\ asked.key = Pages!Key(q) /\ asked.live /\ asked.answer.status = "unread"
    BY <1>6 DEF Pages!Asked, Pages!Unread
  <2>4. \A p \in Pages!Dropped : p \in AskTypes /\ ~p.live /\ \E o \in requests : p.key = o.key
    <3>1. ASSUME NEW o \in requests
          PROVE  [o EXCEPT !.live = FALSE] \in AskTypes /\ ~[o EXCEPT !.live = FALSE].live
                 /\ [o EXCEPT !.live = FALSE].key = o.key
      <4>1. o \in AskTypes
        BY DEF PagesInv, PageTypes
      <4> QED
        BY <4>1
    <3> QED
      BY <3>1 DEF Pages!Dropped
  <2>5. resource'.key = Pages!Key(q) /\ resource'.answer.status = "loading"
        /\ resource' \in [key : Pages!Keys, answer : Pages!Answers \cup {Pages!Loading}]
    BY <1>6, <2>1 DEF Pages!Loading
  <2> HIDE DEF asked, kept, AskTypes
  <2>6. PageTypes'
    <3>1. requests' \subseteq AskTypes
      BY <2>1, <2>3, <2>4
    <3> QED
      BY <1>1, <1>3, <2>1, <2>2, <2>5, <3>1 DEF PagesInv, PageTypes, AskTypes
  <2>7. Pages!Fits(Pages!Key(q))
    <3>1. n \in Nat /\ q.cursors[n] = Pages!Ends(q.cursors)
      BY <1>2 DEF Pages!Ends
    <3>2. CASE n = 1
      BY <3>1, <3>2 DEF Descends, Pages!Fits, Pages!Key
    <3>3. CASE n # 1
      <4>1. q.cursors[n] \in [filter : {q.filter}, row : Rows]
        <5>1. n \in 2 .. n
          BY <2>0, <3>3, LastDepth
        <5> QED
          BY <5>1 DEF Descends
      <4> QED
        BY <3>1, <4>1 DEF Pages!Fits, Pages!Key
    <3> QED
      BY <3>2, <3>3
  <2>8. RequestsFit'
    <3>1. \A p \in requests' :
            /\ Pages!Fits(p.key)
            /\ p.live => p = asked
      BY <2>1, <2>3, <2>4, <2>7 DEF PagesInv, RequestsFit
    <3> QED
      BY <1>1, <1>7, <2>1, <2>3, <2>5, <3>1 DEF RequestsFit
  <2>9. WalkFits'
    BY <1>1, <1>2, <1>7, <2>1, <2>2, <2>5 DEF WalkFits
  <2> QED
    BY <1>5, <2>6, <2>8, <2>9 DEF PagesInv
<1> QED
  BY <1>8, <1>9

\* Cursors of different depths are different: below the first they name a row.
LEMMA CursorsDiffer ==
    ASSUME Pages!ListAssumption, PagesInv
    PROVE  /\ \A d \in 2 .. Len(query.cursors) : query.cursors[d] # Pages!Top
           /\ \A c, d \in 1 .. Len(query.cursors) : c < d => query.cursors[c] # query.cursors[d]
<1>1. \A d \in 2 .. Len(query.cursors) : query.cursors[d] # Pages!Top
  <2> SUFFICES ASSUME NEW d \in 2 .. Len(query.cursors) PROVE query.cursors[d] # Pages!Top
    OBVIOUS
  <2>1. PICK f \in {query.filter}, r \in Rows : query.cursors[d] = [filter |-> f, row |-> r]
    BY DEF PagesInv, Descends
  <2> QED
    BY <2>1, TopIsNoRow
<1>2. ASSUME NEW c \in 1 .. Len(query.cursors), NEW d \in 1 .. Len(query.cursors), c < d
      PROVE  query.cursors[c] # query.cursors[d]
  <2>1. Len(query.cursors) \in Nat
    BY DEF PagesInv, PageTypes
  <2>2. d \in 2 .. Len(query.cursors)
    BY <1>2, <2>1
  <2>3. CASE c = 1
    BY <1>1, <2>2, <2>3 DEF PagesInv, Descends
  <2>4. CASE c # 1
    <3>1. c \in 2 .. Len(query.cursors)
      BY <2>1, <2>4
    <3>2. query.cursors[c].row \in Rows /\ Pages!Below(query.cursors[d].row, query.cursors[c].row)
      BY <1>2, <2>2, <3>1 DEF PagesInv, Descends
    <3> QED
      BY <3>2, BelowOrders
  <2> QED
    BY <2>3, <2>4
<1> QED
  BY <1>1, <1>2

LEMMA FirstPageStep ==
    ASSUME Pages!ListAssumption, PagesInv,
           \/ \E f \in Filters : Pages!SetFilter(f)
           \/ \E n \in Limits : Pages!SetLimit(n)
    PROVE  PagesInv'
<1>1. query \in [filter : Filters, limit : Limits, cursors : Seq(Pages!Cursors), revision : Nat]
      /\ query.revision <= clicks /\ clicks \in Nat /\ walk \in Seq(SUBSET Rows)
      /\ Len(query.cursors) \in Nat
  BY DEF PagesInv, PageTypes
<1>2. <<Pages!Top>> \in Seq(Pages!Cursors) /\ Len(<<Pages!Top>>) = 1 /\ <<Pages!Top>>[1] = Pages!Top
  BY DEF Pages!Cursors
<1>3. PICK q : /\ Pages!Dispatch(q)
               /\ q \in [filter : Filters, limit : Limits, cursors : Seq(Pages!Cursors), revision : Nat]
               /\ q.cursors = <<Pages!Top>> /\ q.revision = query.revision
  <2>1. ASSUME NEW f \in Filters, Pages!SetFilter(f)
        PROVE  /\ Pages!Dispatch(Pages!Filtered(query, f))
               /\ Pages!Filtered(query, f) \in
                    [filter : Filters, limit : Limits, cursors : Seq(Pages!Cursors), revision : Nat]
               /\ Pages!Filtered(query, f).cursors = <<Pages!Top>>
               /\ Pages!Filtered(query, f).revision = query.revision
    BY <1>1, <1>2, <2>1 DEF Pages!SetFilter, Pages!Filtered
  <2> DEFINE limited(n) == [query EXCEPT !.limit = n, !.cursors = <<Pages!Top>>]
  <2>2. ASSUME NEW n \in Limits, Pages!SetLimit(n)
        PROVE  /\ Pages!Dispatch(limited(n))
               /\ limited(n) \in [filter : Filters, limit : Limits, cursors : Seq(Pages!Cursors), revision : Nat]
               /\ limited(n).cursors = <<Pages!Top>> /\ limited(n).revision = query.revision
    BY <1>1, <1>2, <2>2 DEF Pages!SetLimit
  <2> HIDE DEF limited
  <2>3. CASE \E f \in Filters : Pages!SetFilter(f)
    BY <2>1, <2>3
  <2>4. CASE \E n \in Limits : Pages!SetLimit(n)
    BY <2>2, <2>4
  <2> QED
    BY <2>3, <2>4
<1>4. ASSUME Pages!Key(q) = Pages!Key(query)
      PROVE  q.cursors = query.cursors
  <2>1. Pages!Ends(query.cursors) = Pages!Top
    BY <1>2, <1>3, <1>4 DEF Pages!Key, Pages!Ends
  <2>2. Len(query.cursors) = 1
    <3>1. Len(query.cursors) >= 1
      BY DEF PagesInv, Descends
    <3>2. Len(query.cursors) \notin 2 .. Len(query.cursors)
      BY <2>1, CursorsDiffer DEF Pages!Ends
    <3>3. \A m \in Nat : m >= 1 /\ m \notin 2 .. m => m = 1
      OBVIOUS
    <3> QED
      BY <1>1, <3>1, <3>2, <3>3
  <2>3. query.cursors = <<query.cursors[1]>>
    BY <1>1, <2>2
  <2> QED
    BY <1>3, <2>3 DEF PagesInv, Descends
<1>5. Descends(q)
  BY <1>2, <1>3 DEF Descends
<1>6. /\ q.revision <= clicks + 1 /\ Len(q.cursors) - 1 <= Len(walk)
      /\ 1 .. Len(q.cursors) - 1 = {}
  BY <1>1, <1>2, <1>3
<1>7. \A d \in 1 .. Len(q.cursors) - 1 :
        Sound(q.filter, Steady(q.filter), q.cursors[d], walk[d], q.cursors[d + 1])
  BY <1>6
<1> QED
  BY <1>3, <1>4, <1>5, <1>6, <1>7, DispatchStep

LEMMA RefreshStep ==
    ASSUME Pages!ListAssumption, PagesInv, Pages!Refresh
    PROVE  PagesInv'
<1> DEFINE q == [query EXCEPT !.revision = @ + 1]
<1>1. query \in [filter : Filters, limit : Limits, cursors : Seq(Pages!Cursors), revision : Nat]
      /\ query.revision <= clicks /\ clicks \in Nat
  BY DEF PagesInv, PageTypes
<1>2. /\ q \in [filter : Filters, limit : Limits, cursors : Seq(Pages!Cursors), revision : Nat]
      /\ q.cursors = query.cursors /\ q.filter = query.filter /\ q.revision = query.revision + 1
      /\ Pages!Dispatch(q)
  BY <1>1 DEF Pages!Refresh
<1> HIDE DEF q
<1>3. Descends(q)
  BY <1>2 DEF PagesInv, Descends
<1>4. q.revision <= clicks + 1 /\ Len(q.cursors) - 1 <= Len(walk)
  BY <1>1, <1>2 DEF PagesInv, WalkFits
<1>5. \A d \in 1 .. Len(q.cursors) - 1 :
        Sound(q.filter, Steady(q.filter), q.cursors[d], walk[d], q.cursors[d + 1])
  BY <1>2 DEF PagesInv, WalkFits
<1> QED
  BY <1>2, <1>3, <1>4, <1>5, DispatchStep

LEMMA PreviousStep ==
    ASSUME Pages!ListAssumption, PagesInv, Pages!PreviousPage
    PROVE  PagesInv'
<1> DEFINE n == Len(query.cursors)
           front == SubSeq(query.cursors, 1, n - 1)
           q == [query EXCEPT !.cursors = front]
<1>1. query \in [filter : Filters, limit : Limits, cursors : Seq(Pages!Cursors), revision : Nat]
      /\ query.revision <= clicks /\ clicks \in Nat /\ n \in Nat /\ n > 1
      /\ Pages!Dispatch(q) /\ walk \in Seq(SUBSET Rows)
  BY DEF PagesInv, PageTypes, Pages!PreviousPage
<1>2. query.cursors \in Seq(Pages!Cursors)
  BY <1>1
<1>3. front \in Seq(Pages!Cursors) /\ Len(front) = n - 1 /\ \A d \in 1 .. n - 1 : front[d] = query.cursors[d]
  BY <1>1, <1>2
<1> HIDE DEF front
<1>4. /\ q \in [filter : Filters, limit : Limits, cursors : Seq(Pages!Cursors), revision : Nat]
      /\ q.cursors = front /\ q.filter = query.filter /\ q.revision = query.revision
  BY <1>1, <1>3
<1> HIDE DEF q
<1>5. Descends(q)
  <2>1. n - 1 >= 1 /\ 1 \in 1 .. n - 1 /\ 2 .. n - 1 \subseteq 2 .. n /\ 2 .. n - 1 \subseteq 1 .. n - 1
    BY <1>1
  <2> QED
    BY <1>3, <1>4, <2>1 DEF PagesInv, Descends
<1>6. Pages!Key(q) # Pages!Key(query)
  <2>1. Pages!Ends(q.cursors) = query.cursors[n - 1] /\ Pages!Ends(query.cursors) = query.cursors[n]
    BY <1>1, <1>3, <1>4 DEF Pages!Ends
  <2>2. query.cursors[n - 1] # query.cursors[n]
    BY <1>1, CursorsDiffer
  <2> QED
    BY <2>1, <2>2 DEF Pages!Key
<1>7. q.revision <= clicks + 1 /\ Len(q.cursors) - 1 <= Len(walk)
  <2>1. n - 1 <= Len(walk) /\ Len(walk) \in Nat
    BY <1>1 DEF PagesInv, WalkFits
  <2>2. Len(q.cursors) = n - 1
    BY <1>3, <1>4
  <2> HIDE DEF n
  <2> QED
    BY <1>1, <1>4, <2>1, <2>2
<1>8. \A d \in 1 .. Len(q.cursors) - 1 :
        Sound(q.filter, Steady(q.filter), q.cursors[d], walk[d], q.cursors[d + 1])
  <2> SUFFICES ASSUME NEW d \in 1 .. n - 2
               PROVE  Sound(q.filter, Steady(q.filter), q.cursors[d], walk[d], q.cursors[d + 1])
    BY <1>1, <1>3, <1>4
  <2>1. d \in 1 .. n - 1 /\ d + 1 \in 1 .. n - 1
    BY <1>1
  <2> QED
    BY <1>3, <1>4, <2>1 DEF PagesInv, WalkFits
<1>9. Pages!Key(q) = Pages!Key(query) => q.cursors = query.cursors
  BY <1>6
<1>10. Pages!Dispatch(q)
  BY <1>1
<1> QED
  BY <1>4, <1>5, <1>7, <1>8, <1>9, <1>10, DispatchStep

\* The page shown is the one below the last cursor; its own cursor is the next one.
LEMMA CurrentIsSound ==
    ASSUME PagesInv, Pages!Current.status = "ready"
    PROVE  /\ resource.answer.status = "ready" /\ Pages!Current = resource.answer
           /\ Pages!Current.items \subseteq Rows /\ Pages!Current.next \in Pages!Cursors
           /\ Len(walk) = Len(query.cursors) /\ walk[Len(walk)] = Pages!Current.items
           /\ Sound(query.filter, Steady(query.filter), Pages!Ends(query.cursors), Pages!Current.items,
                    Pages!Current.next)
<1>1. Pages!Current = resource.answer
  BY DEF Pages!Current, PagesInv, RequestsFit
<1>2. resource.answer \in Pages!Answers
  BY <1>1 DEF PagesInv, PageTypes, Pages!Loading
<1>3. Pages!Current.items \subseteq Rows /\ Pages!Current.next \in Pages!Cursors
  BY <1>1, <1>2 DEF Pages!Answers
<1> QED
  BY <1>1, <1>3 DEF PagesInv, RequestsFit, WalkFits

LEMMA NextStep ==
    ASSUME Pages!ListAssumption, PagesInv, Pages!NextPage
    PROVE  PagesInv'
<1> DEFINE n == Len(query.cursors)
           next == Pages!Current.next
           longer == Append(query.cursors, next)
           q == [query EXCEPT !.cursors = longer]
<1>1. query \in [filter : Filters, limit : Limits, cursors : Seq(Pages!Cursors), revision : Nat]
      /\ query.revision <= clicks /\ clicks \in Nat /\ n \in Nat /\ n >= 1
      /\ Pages!Dispatch(q) /\ walk \in Seq(SUBSET Rows) /\ next # Pages!Top
      /\ query.cursors \in Seq(Pages!Cursors)
  BY DEF PagesInv, PageTypes, Descends, Pages!NextPage
<1>2. /\ next \in Pages!Cursors /\ Pages!Current.items \subseteq Rows
      /\ Len(walk) = n /\ walk[n] = Pages!Current.items
      /\ Sound(query.filter, Steady(query.filter), Pages!Ends(query.cursors), Pages!Current.items, next)
  BY CurrentIsSound DEF Pages!NextPage
<1>3. /\ next \in [filter : {query.filter}, row : Rows]
      /\ Under(next.row, Pages!Ends(query.cursors))
  <2>1. next.filter = query.filter /\ next.row \in Rows /\ Under(next.row, Pages!Ends(query.cursors))
    BY <1>1, <1>2 DEF Sound
  <2>2. next \in [filter : Filters, row : Rows]
    BY <1>1, <1>2 DEF Pages!Cursors
  <2> QED
    BY <2>1, <2>2
<1> HIDE DEF next
<1>4. /\ longer \in Seq(Pages!Cursors) /\ Len(longer) = n + 1 /\ longer[n + 1] = next
      /\ \A d \in 1 .. n : longer[d] = query.cursors[d]
  BY <1>1, <1>2
<1> HIDE DEF longer
<1>5. /\ q \in [filter : Filters, limit : Limits, cursors : Seq(Pages!Cursors), revision : Nat]
      /\ q.cursors = longer /\ q.filter = query.filter /\ q.revision = query.revision
  BY <1>1, <1>4
<1> HIDE DEF q
<1>6. \A c \in 2 .. n : Pages!Below(next.row, query.cursors[c].row)
  <2> SUFFICES ASSUME NEW c \in 2 .. n PROVE Pages!Below(next.row, query.cursors[c].row)
    OBVIOUS
  <2>1. n \in 2 .. n
    BY <1>1
  <2>2. query.cursors[n] # Pages!Top /\ query.cursors[n].row \in Rows /\ query.cursors[c].row \in Rows
    BY <2>1, CursorsDiffer DEF PagesInv, Descends
  <2>3. Pages!Below(next.row, query.cursors[n].row)
    BY <1>3, <2>2 DEF Under, Pages!Ends
  <2>4. c = n \/ Pages!Below(query.cursors[n].row, query.cursors[c].row)
    BY <1>1, <2>1 DEF PagesInv, Descends
  <2> QED
    BY <1>3, <2>2, <2>3, <2>4, BelowOrders
<1>7. Descends(q)
  <2>1. Len(q.cursors) >= 1 /\ q.cursors[1] = Pages!Top
    BY <1>1, <1>4, <1>5 DEF PagesInv, Descends
  <2>2. \A d \in 2 .. n + 1 : d \in 2 .. n \/ d = n + 1
    BY <1>1
  <2>3. \A d \in 2 .. n : q.cursors[d] = query.cursors[d]
    BY <1>1, <1>4, <1>5
  <2>4. \A d \in 2 .. n + 1 : q.cursors[d] \in [filter : {q.filter}, row : Rows]
    BY <1>3, <1>4, <1>5, <2>2, <2>3 DEF PagesInv, Descends
  <2>5. \A c, d \in 2 .. n + 1 : c < d => Pages!Below(q.cursors[d].row, q.cursors[c].row)
    <3> SUFFICES ASSUME NEW c \in 2 .. n + 1, NEW d \in 2 .. n + 1, c < d
                 PROVE  Pages!Below(q.cursors[d].row, q.cursors[c].row)
      OBVIOUS
    <3>1. c \in 2 .. n
      BY <1>1
    <3>2. CASE d \in 2 .. n
      BY <2>3, <3>1, <3>2 DEF PagesInv, Descends
    <3>3. CASE d = n + 1
      BY <1>4, <1>5, <1>6, <2>3, <3>1, <3>3
    <3> QED
      BY <2>2, <3>2, <3>3
  <2> QED
    BY <1>4, <1>5, <2>1, <2>4, <2>5 DEF Descends
<1>8. Pages!Key(q) # Pages!Key(query)
  <2>1. Pages!Ends(q.cursors) = next /\ Pages!Ends(query.cursors) = query.cursors[n]
    BY <1>4, <1>5 DEF Pages!Ends
  <2>2. query.cursors[n] # next
    <3>1. CASE n = 1
      BY <1>1, <3>1 DEF PagesInv, Descends
    <3>2. CASE n # 1
      <4>1. n \in 2 .. n
        BY <1>1, <3>2, LastDepth
      <4> QED
        BY <1>3, <1>6, <4>1, BelowOrders
    <3> QED
      BY <3>1, <3>2
  <2> QED
    BY <2>1, <2>2 DEF Pages!Key
<1>9. q.revision <= clicks + 1 /\ Len(q.cursors) - 1 <= Len(walk)
  BY <1>1, <1>2, <1>4, <1>5
<1>10. \A d \in 1 .. Len(q.cursors) - 1 :
        Sound(q.filter, Steady(q.filter), q.cursors[d], walk[d], q.cursors[d + 1])
  <2> SUFFICES ASSUME NEW d \in 1 .. n
               PROVE  Sound(q.filter, Steady(q.filter), q.cursors[d], walk[d], q.cursors[d + 1])
    BY <1>1, <1>4, <1>5
  <2>1. CASE d = n
    BY <1>2, <1>4, <1>5, <2>1 DEF Pages!Ends
  <2>2. CASE d # n
    <3>1. d \in 1 .. n - 1 /\ d + 1 \in 1 .. n
      BY <1>1, <2>2
    <3> QED
      BY <1>4, <1>5, <3>1 DEF PagesInv, WalkFits
  <2> QED
    BY <2>1, <2>2
<1>11. Pages!Key(q) = Pages!Key(query) => q.cursors = query.cursors
  BY <1>8
<1>12. Pages!Dispatch(q)
  BY <1>1
<1> QED
  BY <1>5, <1>7, <1>9, <1>10, <1>11, <1>12, DispatchStep

LEMMA PagesStep ==
    ASSUME Pages!ListAssumption, PagesInv, Pages!Next
    PROVE  PagesInv'
<1>1. ASSUME NEW q \in requests, Pages!Serve(q) \/ Pages!ServeFails(q) PROVE PagesInv'
  BY <1>1, ServeStep
<1>2. ASSUME NEW q \in requests, Pages!Arrive(q) PROVE PagesInv'
  BY <1>2, ArriveStep
<1>3. ASSUME NEW r \in Rows, NEW s \in Statuses, Pages!Change(r, s) PROVE PagesInv'
  BY <1>3, ChangeStep
<1>4. CASE \/ \E f \in Filters : Pages!SetFilter(f)
           \/ \E n \in Limits : Pages!SetLimit(n)
  BY <1>4, FirstPageStep
<1>5. CASE Pages!NextPage
  BY <1>5, NextStep
<1>6. CASE Pages!PreviousPage
  BY <1>6, PreviousStep
<1>7. CASE Pages!Refresh
  BY <1>7, RefreshStep
<1>8. CASE Pages!Leave
  BY <1>8, LeaveStep DEF Pages!Leave
<1> QED
  BY <1>1, <1>2, <1>3, <1>4, <1>5, <1>6, <1>7, <1>8 DEF Pages!Next

\* What the invariant says of the walk.
LEMMA PagesKeep ==
    ASSUME Pages!ListAssumption, PagesInv
    PROVE  WalksAreSound
<1> DEFINE n == Len(query.cursors)
<1>0. n \in Nat /\ n >= 1 /\ walk \in Seq(SUBSET Rows) /\ DOMAIN table \subseteq Rows
  BY DEF PagesInv, PageTypes, Descends
<1>1. Pages!CursorsFit
  BY DEF PagesInv, RequestsFit, Pages!CursorsFit
<1>2. Pages!LoadingIsAwaited
  BY DEF PagesInv, RequestsFit, Pages!LoadingIsAwaited, Pages!IsLoading, Pages!Current
<1>3. ASSUME mounted, Pages!Current.status = "ready"
      PROVE  /\ Len(walk) = n
             /\ \A i, j \in DOMAIN walk : i # j => walk[i] \cap walk[j] = {}
             /\ \A r \in DOMAIN table \ changed :
                  Pages!Matches(r, query.filter)
                    /\ (Pages!Current.next = Pages!Top \/ ~Pages!Below(r, Pages!Current.next.row))
                    => \E i \in DOMAIN walk : r \in walk[i]
  <2>1. /\ Len(walk) = n /\ walk[n] = Pages!Current.items
        /\ Sound(query.filter, Steady(query.filter), query.cursors[n], walk[n], Pages!Current.next)
    BY <1>3, CurrentIsSound DEF Pages!Ends
  <2>2. DOMAIN walk = 1 .. n
    BY <1>0, <2>1
  <2>3. \A i \in 1 .. n - 1 :
          Sound(query.filter, Steady(query.filter), query.cursors[i], walk[i], query.cursors[i + 1])
    BY DEF PagesInv, WalkFits
  <2>4. \A i \in 2 .. n : query.cursors[i] # Pages!Top /\ query.cursors[i].row \in Rows
    BY CursorsDiffer DEF PagesInv, Descends
  <2>5. ASSUME NEW i \in 1 .. n, NEW j \in 1 .. n, i < j, NEW r \in walk[i], r \in walk[j]
        PROVE  FALSE
    <3>1. i \in 1 .. n - 1 /\ i + 1 \in 2 .. n /\ j \in 2 .. n
      BY <1>0, <2>5
    <3>2. r \in Rows
      BY <1>0, <2>2
    <3>3. ~Pages!Below(r, query.cursors[i + 1].row)
      BY <2>3, <2>4, <3>1 DEF Sound, Upto
    <3>4. Pages!Below(r, query.cursors[j].row)
      <4>1. Under(r, query.cursors[j])
        <5>1. CASE j = n
          BY <2>1, <2>5, <5>1 DEF Sound
        <5>2. CASE j # n
          <6>1. j \in 1 .. n - 1
            BY <1>0, <5>2
          <6> QED
            BY <2>3, <2>5, <6>1 DEF Sound
        <5> QED
          BY <5>1, <5>2
      <4> QED
        BY <2>4, <3>1, <4>1 DEF Under
    <3>5. i + 1 = j \/ Pages!Below(query.cursors[j].row, query.cursors[i + 1].row)
      <4>1. i + 1 = j \/ i + 1 < j
        BY <2>5
      <4> QED
        BY <3>1, <4>1 DEF PagesInv, Descends
    <3>6. query.cursors[i + 1].row \in Rows /\ query.cursors[j].row \in Rows
      BY <2>4, <3>1
    <3> QED
      BY <3>2, <3>3, <3>4, <3>5, <3>6, BelowOrders
  <2>6. ASSUME NEW r \in DOMAIN table \ changed, Pages!Matches(r, query.filter), Upto(r, Pages!Current.next)
        PROVE  \E i \in 1 .. n : r \in walk[i]
    <3> DEFINE passed == {d \in 2 .. n : ~Under(r, query.cursors[d])}
    <3>0. r \in Steady(query.filter)
      BY <2>6 DEF Steady
    <3>1. CASE passed = {}
      <4>1. Under(r, query.cursors[n])
        <5>1. CASE n = 1
          BY <5>1 DEF PagesInv, Descends, Under
        <5>2. CASE n # 1
          <6>1. n \in 2 .. n
            BY <1>0, <5>2, LastDepth
          <6> QED
            BY <3>1, <6>1
        <5> QED
          BY <5>1, <5>2
      <4>2. r \in walk[n]
        BY <2>1, <2>6, <3>0, <4>1 DEF Sound
      <4> QED
        BY <1>0, <4>2
    <3>2. CASE passed # {}
      <4>1. passed \subseteq Nat
        OBVIOUS
      <4>2. PICK d \in passed : \A e \in passed : d <= e
        BY <3>2, <4>1, LeastNumber
      <4>3. d \in 2 .. n /\ d - 1 \in 1 .. n - 1 /\ (d - 1) + 1 = d /\ d - 1 < d
        BY <1>0
      <4>4. Upto(r, query.cursors[d])
        BY DEF Upto, Under
      <4>5. Under(r, query.cursors[d - 1])
        <5>1. CASE d = 2
          BY <5>1 DEF PagesInv, Descends, Under
        <5>2. CASE d # 2
          <6>1. d - 1 \in 2 .. n /\ ~(d <= d - 1)
            BY <1>0, <4>3, <5>2
          <6>2. d - 1 \notin passed
            BY <4>2, <6>1
          <6> QED
            BY <6>1, <6>2
        <5> QED
          BY <5>1, <5>2
      <4>6. Sound(query.filter, Steady(query.filter), query.cursors[d - 1], walk[d - 1], query.cursors[d])
        BY <2>3, <4>3
      <4>7. r \in walk[d - 1]
        BY <3>0, <4>4, <4>5, <4>6 DEF Sound
      <4> QED
        BY <1>0, <4>3, <4>7
    <3> QED
      BY <3>1, <3>2
  <2>7. \A i, j \in 1 .. n : i # j => walk[i] \cap walk[j] = {}
    <3> SUFFICES ASSUME NEW i \in 1 .. n, NEW j \in 1 .. n, i # j, NEW r \in walk[i], r \in walk[j]
                 PROVE  FALSE
      OBVIOUS
    <3>1. i < j \/ j < i
      BY <1>0
    <3> QED
      BY <2>5, <3>1
  <2> QED
    BY <2>1, <2>2, <2>6, <2>7 DEF Upto
<1>4. Pages!WalkComplete
  BY <1>3 DEF Pages!WalkComplete
<1> QED
  BY <1>1, <1>2, <1>4 DEF WalksAreSound

LEMMA PagesTyped ==
    ASSUME Pages!ListAssumption, PagesInv
    PROVE  Pages!TypeOK
<1>1. /\ table \in [DOMAIN table -> Statuses] /\ DOMAIN table \subseteq Rows /\ changed \subseteq Rows
      /\ clicks \in 0 .. MaxClicks /\ mounted \in BOOLEAN /\ walk \in Seq(SUBSET Rows)
      /\ query \in [filter : Filters, limit : Limits, cursors : Seq(Pages!Cursors), revision : Nat]
      /\ query.revision <= clicks
      /\ resource \in [key : Pages!Keys, answer : Pages!Answers \cup {Pages!Loading}]
      /\ \A q \in requests :
           q \in [key : Pages!Keys, live : BOOLEAN, answer : Pages!Answers \cup {Pages!Unread}]
  BY DEF PagesInv, PageTypes
<1>2. query.filter \in Filters /\ query.limit \in Limits /\ query.cursors \in Seq(Pages!Cursors)
      /\ query.cursors # <<>>
  <2>1. Len(query.cursors) >= 1
    BY DEF PagesInv, Descends
  <2> QED
    BY <1>1, <2>1
<1>3. resource.key \in Pages!Keys /\ resource.answer \in Pages!Answers \cup {Pages!Loading}
  BY <1>1
<1>4. Pages!Key(query) \in Pages!Keys
  BY <1>3 DEF PagesInv, RequestsFit
<1>5. \A q \in requests : q.key \in Pages!Keys /\ q.answer \in Pages!Answers \cup {Pages!Unread}
  BY <1>1
<1> DEFINE live == {q \in requests : q.live}
<1>6. Cardinality(live) <= 1
  <2>1. \A p, q \in live : p = q
    BY DEF PagesInv, RequestsFit
  <2> QED
    BY <2>1, AtMostOne
<1>7. Pages!Cardinality(live) <= 1
  BY <1>6 DEF Pages!Cardinality, Cardinality, Pages!IsFiniteSet, IsFiniteSet
<1> HIDE DEF PagesInv
<1> QED
  BY <1>1, <1>2, <1>3, <1>4, <1>5, <1>7 DEF Pages!TypeOK

LEMMA PagesStart ==
    ASSUME Pages!ListAssumption, Pages!Init
    PROVE  PagesInv
<1> DEFINE q == Pages!FirstQuery
           asked == Pages!Asked(Pages!Key(q))
<1>1. /\ table = First /\ changed = {} /\ clicks = 0 /\ query = q
      /\ resource = [key |-> Pages!Key(q), answer |-> Pages!Loading]
      /\ requests = {asked} /\ mounted = TRUE /\ walk = <<>>
  BY DEF Pages!Init
<1>2. <<Pages!Top>> \in Seq(Pages!Cursors) /\ Len(<<Pages!Top>>) = 1 /\ <<Pages!Top>>[1] = Pages!Top
  BY DEF Pages!Cursors
<1>3. (CHOOSE n \in Limits : TRUE) \in Limits
  BY DEF Pages!ListAssumption
<1>4. /\ q \in [filter : Filters, limit : Limits, cursors : Seq(Pages!Cursors), revision : Nat]
      /\ q.filter = Pages!All /\ q.cursors = <<Pages!Top>> /\ q.revision = 0
      /\ q.limit \in Limits /\ q.filter \in Filters
  BY <1>2, <1>3 DEF Pages!FirstQuery, Pages!All, Pages!ListAssumption
<1> HIDE DEF q
<1>5. Pages!Ends(q.cursors) = Pages!Top
  BY <1>2, <1>4 DEF Pages!Ends
<1>6. Pages!Key(q) \in Pages!Keys /\ Pages!Fits(Pages!Key(q))
  BY <1>4, <1>5 DEF Pages!Key, Pages!Keys, Pages!Cursors, Pages!Fits, Pages!ListAssumption
<1>7. asked \in [key : Pages!Keys, live : BOOLEAN, answer : Pages!Answers \cup {Pages!Unread}]
      /\ asked.key = Pages!Key(q) /\ asked.live /\ asked.answer.status = "unread"
  BY <1>6 DEF Pages!Asked, Pages!Unread
<1>8. resource.answer.status = "loading" /\ resource.key = Pages!Key(q)
      /\ resource \in [key : Pages!Keys, answer : Pages!Answers \cup {Pages!Loading}]
  BY <1>1, <1>6 DEF Pages!Loading
<1> HIDE DEF asked
<1>9. PageTypes
  <2>1. /\ table \in [DOMAIN table -> Statuses] /\ DOMAIN table \subseteq Rows /\ IsFiniteSet(DOMAIN table)
        /\ clicks \in 0 .. MaxClicks
    BY <1>1 DEF Pages!ListAssumption, Pages!IsFiniteSet, IsFiniteSet
  <2>2. requests \subseteq [key : Pages!Keys, live : BOOLEAN, answer : Pages!Answers \cup {Pages!Unread}]
    BY <1>1, <1>7
  <2>3. query.revision <= clicks /\ changed \subseteq Rows /\ mounted \in BOOLEAN /\ walk \in Seq(SUBSET Rows)
    BY <1>1, <1>4
  <2> QED
    BY <1>1, <1>4, <1>8, <2>1, <2>2, <2>3 DEF PageTypes
<1>10. Descends(query)
  BY <1>1, <1>2, <1>4 DEF Descends
<1>11. RequestsFit
  BY <1>1, <1>6, <1>7, <1>8 DEF RequestsFit
<1>12. WalkFits
  BY <1>1, <1>2, <1>4, <1>8 DEF WalkFits
<1> QED
  BY <1>9, <1>10, <1>11, <1>12 DEF PagesInv

-----------------------------------------------------------------------------
(* Console: whatever the subject, every part keeps its invariant.          *)

ConsoleInv == DoorInv /\ PagesInv /\ DeadInv /\ KeyPageInv /\ SignedInv /\ FrameInv

LEMMA DeadRests == ASSUME DeadInv, UNCHANGED deadVars PROVE DeadInv'
BY DEF deadVars, DeadInv, DeadTypes, PanelFits, PanelHasOneKey, LastIsLive, OvertakenKnown, LockFits

LEMMA PagesRest == ASSUME PagesInv, UNCHANGED listVars PROVE PagesInv'
<1>1. Steady(query.filter)' = Steady(query.filter)
  BY DEF listVars, Steady, Pages!Matches
<1> QED
  BY <1>1 DEF listVars, PagesInv, PageTypes, Descends, RequestsFit, WalkFits

LEMMA ConsoleStep == ConsoleInv /\ [ConsoleNext]_all => ConsoleInv'
<1> SUFFICES ASSUME ConsoleInv, [ConsoleNext]_all PROVE ConsoleInv'
  OBVIOUS
<1> USE ConsoleAssumption
<1>1. DoorInv'
  <2>1. [Next]_vars
    BY DEF ConsoleNext, DoorMoves, PagesMove, DeadMoves, KeysMove, SignedMoves, FramesMove, FramesRest,
           accessVars, vars, all
  <2> QED
    BY <2>1, DoorStep DEF ConsoleInv, ConsoleAssumption
<1>2. PagesInv'
  <2>1. Pages!Next \/ UNCHANGED listVars
    BY DEF ConsoleNext, DoorMoves, PagesMove, DeadMoves, KeysMove, SignedMoves, FramesMove, FramesRest, all
  <2> QED
    BY <2>1, PagesStep, PagesRest DEF ConsoleInv, ConsoleAssumption
<1>3. DeadInv'
  <2>1. Dead!Next \/ UNCHANGED deadVars
    BY DEF ConsoleNext, DoorMoves, PagesMove, DeadMoves, KeysMove, SignedMoves, FramesMove, FramesRest, all
  <2> QED
    BY <2>1, DeadStep, DeadRests DEF ConsoleInv, ConsoleAssumption
<1>4. KeyPageInv'
  <2>1. [KeyList!Next]_(KeyList!vars)
    BY DEF ConsoleNext, DoorMoves, PagesMove, DeadMoves, KeysMove, SignedMoves, FramesMove, FramesRest, all,
           keyVars, KeyList!vars
  <2> QED
    BY <2>1, KeyPageStep DEF ConsoleInv, ConsoleAssumption
<1>5. SignedInv'
  <2>1. [Signed!Next]_(Signed!vars)
    BY DEF ConsoleNext, DoorMoves, PagesMove, DeadMoves, KeysMove, SignedMoves, FramesMove, FramesRest, all,
           sessionVars, Signed!vars
  <2> QED
    BY <2>1, SignedStep DEF ConsoleInv, ConsoleAssumption
<1>6. FrameInv'
  <2>1. [Frames!Next]_(Frames!vars)
    BY DEF ConsoleNext, DoorMoves, PagesMove, DeadMoves, KeysMove, SignedMoves, FramesMove, FramesRest, all,
           frameVars, Frames!vars
  <2> QED
    BY <2>1, FrameStep DEF ConsoleInv, ConsoleAssumption
<1> QED
  BY <1>1, <1>2, <1>3, <1>4, <1>5, <1>6 DEF ConsoleInv

LEMMA ConsoleStarts == ConsoleInit => ConsoleInv
BY ConsoleAssumption, DoorStarts, PagesStart, DeadStarts, KeyPageStarts, SignedStarts, FramesStart
   DEF ConsoleInit, ConsoleAssumption, ConsoleInv

LEMMA Invariance == ConsoleSpec => []ConsoleInv
BY ConsoleStarts, ConsoleStep, PTL DEF ConsoleSpec

\* Access: a login opens one session at most, and the API acts for a tab as the user
\* whose name the tab shows (repositories/auth.ts consumeLogin, services/auth.ts csrf).
THEOREM SessionsAreBound == ConsoleSpec => []SessionsBound
<1>1. ConsoleInv => SessionsBound
  BY DoorKeeps DEF ConsoleInv
<1> QED
  BY <1>1, Invariance, PTL

\* Access: no key outlives the membership it was issued under, and none that has ended
\* lets an event in (api_keys and its foreign key, services/api-keys.ts authenticate).
THEOREM KeysAreBound == ConsoleSpec => []KeysBound
<1>1. ConsoleInv => KeysBound
  BY DoorKeeps DEF ConsoleInv
<1> QED
  BY <1>1, Invariance, PTL

\* ListPages: the pages of a walk do not overlap and leave out no row that did not
\* change, no cursor is refused, and a page that loads is answered
\* (services/delivery-history.ts, delivery-list.ts, deliveries.tsx).
THEOREM WalksSound == ConsoleSpec => []WalksAreSound
<1>1. ConsoleInv => WalksAreSound
  BY ConsoleAssumption, PagesKeep DEF ConsoleInv, ConsoleAssumption
<1> QED
  BY <1>1, Invariance, PTL

\* DeadLetterPage: a replayed row is not offered again, a retry is recognised by its key,
\* and the page is locked only while a request runs (dead-letters.tsx,
\* dead-letter-replay.tsx).
THEOREM ReplaysSound == ConsoleSpec => []ReplaysAreSound
<1>1. ConsoleInv => ReplaysAreSound
  BY DeadKeeps DEF ConsoleInv
<1> QED
  BY <1>1, Invariance, PTL

\* ApiKeyPage: no key is made behind the reader's back, a revoked key is shown as revoked,
\* and "copied" is said of the secret on display (api-keys.tsx, api-key-create.tsx,
\* api-key-secret-dialog.tsx).
THEOREM KeyPageSound == ConsoleSpec => []KeyPageIsSound
<1>1. ConsoleInv => KeyPageIsSound
  BY KeyPageKeeps DEF ConsoleInv
<1> QED
  BY <1>1, Invariance, PTL

\* SessionState and FrameLoop: a session that was forgotten does not come back from a late
\* answer, and a loop of frames that was replaced draws no more (provider.tsx,
\* landing-network.tsx).
THEOREM NothingReturns == ConsoleSpec => []NothingComesBack
<1>1. ConsoleInv => NothingComesBack
  BY HandleIsOneLoop DEF ConsoleInv, SignedInv, NothingComesBack
<1> QED
  BY <1>1, Invariance, PTL

\* The tables, the requests under way and the state of the pages have their types.
THEOREM TypesCorrect == ConsoleSpec => []ConsoleTypeOK
<1>1. ConsoleInv => ConsoleTypeOK
  BY ConsoleAssumption, DoorTyped, PagesTyped, DeadTyped, SignedTyped, FramesTyped
     DEF ConsoleInv, ConsoleAssumption, ConsoleTypeOK, KeyPageInv
<1> QED
  BY <1>1, Invariance, PTL
=============================================================================
