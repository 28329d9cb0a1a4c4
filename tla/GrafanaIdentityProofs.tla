----------------------- MODULE GrafanaIdentityProofs -----------------------
(***************************************************************************)
(* Proofs about GrafanaIdentity, for any number of users and requests, any *)
(* size and age of the caches and any settings: whom a request acts for.   *)
(*                                                                         *)
(* The invariant says of every answer, where it is on its way from Grafana *)
(* to the cluster, how old it may be: it is as old as the request that     *)
(* holds it, or, in a cache, as old as its entry and the request that put  *)
(* it there; a request that takes it from a cache adds its own age.        *)
(***************************************************************************)
EXTENDS GrafanaIdentity, FiniteSetTheorems, TLAPS

(* The types of the variables. *)
Places == {"idle", "getUser", "askUser", "toldUser", "groups", "askId", "askTeams", "toldTeams",
           "search", "create", "createToken", "act", "notFound", "exists"}
Tokens == [type : {"user"}, id : Users] \cup [type : {"service-account"}, id : Accounts] \cup {Nobody}
Request == [pc : Places, call : {"user", "groups"}, token : Tokens, wanted : {"", "resources", "kubeconfig"},
            age : 0..Slow, user : Accounts \cup {""}, told : Accounts \cup {""}, owner : Accounts \cup {""},
            id : Users \cup {""}, groups : SUBSET Teams, account : Accounts \cup {""}, hidden : BOOLEAN]
Caches(Keys, Values) == UNION {[K -> [value : Values, left : 0..TTL]] : K \in SUBSET Keys}

TypeOK ==
  /\ users \in [Users -> Persons]
  /\ ended \subseteq [user : Users, login : Logins, teams : SUBSET Teams, ago : Nat]
  /\ accounts \subseteq Accounts /\ IsFiniteSet(accounts)
  /\ tokens \subseteq [account : Accounts, user : Users]
  /\ usersCache \in Caches(Users, Logins)
  /\ serviceAccountsCache \in Caches(Accounts, Accounts)
  /\ groupsCache \in Caches(Accounts, SUBSET Teams)
  /\ settings \in [impersonateUser : BOOLEAN, impersonateGroups : BOOLEAN, generateKubeconfig : BOOLEAN]
  /\ req \in [Requests -> Request]

(* What a cache holds. *)
EntryAge(entry) == TTL - entry.left + Slow
CacheInv ==
  /\ \A u \in DOMAIN usersCache : WasCalled(u, usersCache[u].value, EntryAge(usersCache[u]))
  /\ \A l \in DOMAIN serviceAccountsCache : serviceAccountsCache[l].value = l
  /\ \A l \in DOMAIN groupsCache : WereTeamsOf(l, groupsCache[l].value, EntryAge(groupsCache[l]))

(* Where a request can be, with which token and which settings. *)
OfAUser(q) == q.token.type = "user"
PlaceInv(q) ==
  /\ IF q.pc = "idle" THEN q.call = "user" ELSE q.token # Nobody
  /\ q.pc \in {"getUser", "askUser", "toldUser"} => Impersonates
  /\ q.pc \in {"groups", "askId", "askTeams", "toldTeams", "notFound"} => q.call = "groups"
  /\ q.pc \in {"search", "create", "createToken", "exists"} => q.wanted = "kubeconfig"
  /\ q.pc = "act" => q.wanted # "kubeconfig" /\ (settings.impersonateGroups => q.call = "groups")
  /\ q.wanted = "kubeconfig" => OfAUser(q) /\ q.call = "user"
  /\ q.call = "groups" => settings.impersonateGroups
  /\ q.call = "user" => q.groups = {}

(* The user that a request is for, from when it is known. *)
HasUser(q) == q.call = "groups" \/ q.pc \in {"act", "search", "create", "createToken", "exists"}
UserInv(q) ==
  /\ q.pc = "toldUser" =>
       IF OfAUser(q) THEN q.told \in Logins /\ WasCalled(q.token.id, q.told, q.age) ELSE q.told = q.token.id
  /\ HasUser(q) =>
       IF OfAUser(q)
       THEN IF Impersonates THEN WasCalled(q.token.id, q.user, q.age + Window)
            ELSE q.user = IF q.wanted = "kubeconfig" THEN "admin" ELSE ""
       ELSE q.user = IF Impersonates THEN q.token.id ELSE ""

(* Its groups, which are found by the name of the user, whoever has it. *)
NeedsOwner(q) == q.pc \in {"groups", "askId", "askTeams", "toldTeams"}
HasGroups(q) == q.pc = "act" /\ settings.impersonateGroups
GroupsInv(q) ==
  /\ NeedsOwner(q) => q.owner \in Accounts
  /\ (NeedsOwner(q) \/ HasGroups(q)) /\ OfAUser(q) => WasCalled(q.token.id, q.owner, q.age + Window)
  /\ q.pc = "askTeams" => q.id \in Users /\ WasCalled(q.id, q.owner, q.age)
  /\ q.pc = "toldTeams" => WereTeamsOf(q.owner, q.groups, q.age)
  /\ HasGroups(q) => WereTeamsOf(q.owner, q.groups, q.age + Window)
  /\ q.pc = "notFound" /\ OfAUser(q) =>
       \E e \in ended : e.user = q.token.id /\ e.login = q.owner /\ e.ago <= q.age + Window

(* Its service account. *)
AccountInv(q) ==
  /\ q.pc \in {"search", "create", "createToken"} => q.user \in Accounts
  /\ q.pc = "createToken" => q.account = q.user
  /\ q.pc \in {"create", "exists"} /\ q.hidden => Cardinality(Matches(q.user)) > Page
TokenInv == \A t \in tokens : t.account \in IF Impersonates THEN NamesOf(t.user) ELSE {"admin"}

RequestInv(q) == PlaceInv(q) /\ UserInv(q) /\ GroupsInv(q) /\ AccountInv(q)
IInv == TypeOK /\ CacheInv /\ TokenInv /\ \A r \in Requests : RequestInv(req[r])

-----------------------------------------------------------------------------
LEMMA BecomesLemma ==
  ASSUME req \in [Requests -> Request], NEW r \in Requests, NEW q \in Request, Becomes(r, q)
  PROVE  /\ req' \in [Requests -> Request]
         /\ req'[r] = q
         /\ \A s \in Requests : s # r => req'[s] = req[s]
BY DEF Becomes

LEMMA IdleLemma == Idle \in Request
<1>1. Nobody \in Tokens
  BY DEF Tokens
<1>2. 0 \in 0..Slow
  BY DurationsAssumption
<1> QED
  BY <1>1, <1>2 DEF Idle, Request, Places

LEMMA ReturnedLemma ==
  ASSUME NEW q \in Request, NEW login \in Accounts \cup {""}
  PROVE  Returned(q, login) \in Request
<1>1. CASE q.call = "groups"
  BY <1>1 DEF Returned, Request, Places
<1>2. CASE q.call = "user" /\ q.wanted = "kubeconfig"
  BY <1>2 DEF Returned, Request, Places, Accounts
<1>3. CASE q.call = "user" /\ q.wanted # "kubeconfig"
  BY <1>3 DEF Returned, Request, Places
<1> QED
  BY <1>1, <1>2, <1>3 DEF Request

LEMMA AddedLemma ==
  ASSUME NEW Keys, NEW Values, NEW cache \in Caches(Keys, Values), NEW key \in Keys, NEW value \in Values,
         NEW new \in Added(cache, key, value)
  PROVE  /\ new \in Caches(Keys, Values)
         /\ DOMAIN new \subseteq DOMAIN cache \cup {key}
         /\ \A k \in DOMAIN new : new[k] = IF k = key THEN [value |-> value, left |-> TTL] ELSE cache[k]
<1> DEFINE entry(k) == IF k = key THEN [value |-> value, left |-> TTL] ELSE cache[k]
           keys == DOMAIN cache \cup {key}
<1>1. PICK ks \in SUBSET keys : new = [k \in ks |-> entry(k)]
  BY DEF Added
<1>2. PICK K \in SUBSET Keys : cache \in [K -> [value : Values, left : 0..TTL]]
  BY DEF Caches
<1>3. ks \in SUBSET Keys /\ new \in [ks -> [value : Values, left : 0..TTL]]
  BY <1>1, <1>2, DurationsAssumption
<1> QED
  BY <1>1, <1>3 DEF Caches

LEMMA AgedLemma ==
  ASSUME NEW Keys, NEW Values, NEW cache \in Caches(Keys, Values)
  PROVE  /\ Aged(cache) \in Caches(Keys, Values)
         /\ DOMAIN Aged(cache) \subseteq DOMAIN cache
         /\ \A k \in DOMAIN Aged(cache) :
              /\ cache[k].left \in 0..TTL
              /\ Aged(cache)[k] = [value |-> cache[k].value, left |-> cache[k].left - 1]
<1> DEFINE kept == {k \in DOMAIN cache : cache[k].left > 0}
<1>1. PICK K \in SUBSET Keys : cache \in [K -> [value : Values, left : 0..TTL]]
  BY DEF Caches
<1>2. Aged(cache) = [k \in kept |-> [value |-> cache[k].value, left |-> cache[k].left - 1]]
  BY DEF Aged
<1>3. kept \in SUBSET Keys /\ Aged(cache) \in [kept -> [value : Values, left : 0..TTL]]
  BY <1>1, <1>2, DurationsAssumption
<1> QED
  BY <1>1, <1>2, <1>3 DEF Caches

LEMMA GetLemma ==
  ASSUME NEW Keys, NEW Values, NEW cache \in Caches(Keys, Values), NEW key, Hit(cache, key)
  PROVE  key \in Keys /\ Get(cache, key) \in Values /\ cache[key].left \in 0..TTL
BY DEF Caches, Hit, Get

LEMMA EntryLemma ==
  ASSUME NEW Keys, NEW Values, NEW cache \in Caches(Keys, Values)
  PROVE  \A key \in DOMAIN cache : key \in Keys /\ cache[key].value \in Values /\ cache[key].left \in 0..TTL
BY DEF Caches

-----------------------------------------------------------------------------
(* What was so some time ago, was so a longer time ago. *)
LEMMA LongerAgo ==
  ASSUME TypeOK, NEW a \in Nat, NEW b \in Nat, a <= b, NEW u \in Users
  PROVE  /\ \A l : WasCalled(u, l, a) => WasCalled(u, l, b)
         /\ \A g : WasIn(u, g, a) => WasIn(u, g, b)
BY DEF TypeOK, WasCalled, WasIn

LEMMA LongerAgoTeams ==
  ASSUME TypeOK, NEW a \in Nat, NEW b \in Nat, a <= b, NEW l, NEW g, WereTeamsOf(l, g, a)
  PROVE  WereTeamsOf(l, g, b)
BY LongerAgo DEF WereTeamsOf

LEMMA ChangeLemma ==
  ASSUME TypeOK, NEW c \in Changes, Change(c), NEW a \in Nat, NEW u \in Users
  PROVE  /\ \A l : WasCalled(u, l, a) => WasCalled(u, l, a)'
         /\ \A g : WasIn(u, g, a) => WasIn(u, g, a)'
<1>1. c.user \in Users
  BY UsersAssumption
<1> DEFINE e == [user |-> c.user, login |-> users[c.user].login, teams |-> users[c.user].teams, ago |-> 0]
<1>2. e \in ended' /\ ended \subseteq ended'
  BY DEF Change
<1>3. u # c.user => users'[u] = users[u]
  BY DEF Change, TypeOK
<1> QED
  BY <1>1, <1>2, <1>3 DEF WasCalled, WasIn

LEMMA TickLemma ==
  ASSUME TypeOK, Tick, NEW a \in Nat, NEW u \in Users
  PROVE  /\ \A l : WasCalled(u, l, a) => WasCalled(u, l, a + 1)'
         /\ \A g : WasIn(u, g, a) => WasIn(u, g, a + 1)'
<1>1. users' = users
  BY DEF Tick
<1>2. \A e \in ended : \E f \in ended' :
        f.user = e.user /\ f.login = e.login /\ f.teams = e.teams /\ f.ago <= e.ago + 1
  <2> TAKE e \in ended
  <2>1. [e EXCEPT !.ago = Older(@)] \in ended'
    BY DEF Tick
  <2> QED
    BY <2>1 DEF TypeOK, Older
<1>3. \A e \in ended : e.ago \in Nat
  BY DEF TypeOK
<1>4. \A f \in ended' : f.ago \in Nat
  BY <1>3, DurationsAssumption DEF Tick, TypeOK, Older, Window
<1> QED
  BY <1>1, <1>2, <1>3, <1>4 DEF WasCalled, WasIn

(* The same for the teams that belong to a name. *)
LEMMA TeamsLemma ==
  ASSUME TypeOK, NEW a \in Nat, NEW l, NEW g, WereTeamsOf(l, g, a)
  PROVE  /\ \A c \in Changes : Change(c) => WereTeamsOf(l, g, a)'
         /\ Tick => WereTeamsOf(l, g, a + 1)'
BY ChangeLemma, TickLemma DEF WereTeamsOf

-----------------------------------------------------------------------------
LEMMA RequestTypes ==
  ASSUME NEW q \in Request
  PROVE  /\ \A pc \in Places : [q EXCEPT !.pc = pc] \in Request
         /\ q.token \in Tokens
         /\ q.token.type = "user" => q.token.id \in Users
         /\ q.token.type = "service-account" => q.token.id \in Accounts
         /\ q.age \in Nat /\ q.age <= Slow
<1>1. q.token \in Tokens
  BY DEF Request
<1>2. ASSUME NEW t \in Tokens
      PROVE  (t.type = "user" => t.id \in Users) /\ (t.type = "service-account" => t.id \in Accounts)
  <2>1. CASE t \in [type : {"user"}, id : Users]
    BY <2>1
  <2>2. CASE t \in [type : {"service-account"}, id : Accounts]
    BY <2>2
  <2>3. CASE t = Nobody
    BY <2>3 DEF Nobody
  <2> QED
    BY <2>1, <2>2, <2>3 DEF Tokens
<1>3. \A pc \in Places : [q EXCEPT !.pc = pc] \in Request
  BY DEF Request
<1>4. q.age \in 0..Slow
  BY DEF Request
<1> QED
  BY <1>1, <1>2, <1>3, <1>4, DurationsAssumption

(* A step that changes nothing but a request. *)
LEMMA RequestStep ==
  ASSUME TypeOK, NEW r \in Requests, NEW q \in Request, Becomes(r, q),
         UNCHANGED <<inGrafana, caches, settings>>
  PROVE  TypeOK'
BY BecomesLemma DEF TypeOK, inGrafana, caches

(* The service account of a user is found, or it is not there, or there are *)
(* more matches than a page holds.                                            *)
LEMMA SearchLemma ==
  ASSUME TypeOK, NEW r \in Requests, Search(r), req[r].user \in Accounts
  PROVE  \/ Becomes(r, [req[r] EXCEPT !.pc = "createToken", !.account = req[r].user])
         \/ \E h \in BOOLEAN : /\ Becomes(r, [req[r] EXCEPT !.pc = "create", !.hidden = h])
                               /\ h => Cardinality(Matches(req[r].user)) > Page
<1> DEFINE user == req[r].user
<1>1. PICK found \in FirstPage(user) :
         \/ \E a \in OfName(user, found) : Becomes(r, [req[r] EXCEPT !.pc = "createToken", !.account = a])
         \/ /\ OfName(user, found) = {}
            /\ Becomes(r, [req[r] EXCEPT !.pc = "create", !.hidden = (user \in accounts)])
  BY DEF Search
<1>2. ASSUME user \in accounts, OfName(user, found) = {}
      PROVE  Cardinality(Matches(user)) > Page
  <2>1. user \in Matches(user) /\ user \notin found
    BY <1>2, ContainingAssumption DEF Matches, OfName
  <2>2. IsFiniteSet(Matches(user)) /\ Cardinality(Matches(user)) \in Nat
    BY FS_Subset, FS_CardinalityType DEF TypeOK, Matches
  <2>3. found \subseteq Matches(user) /\ Cardinality(found) # Cardinality(Matches(user))
    BY <2>1, <2>2, FS_Subset DEF FirstPage
  <2> QED
    BY <2>2, <2>3, PageAssumption DEF FirstPage
<1>3. CASE OfName(user, found) = {}
  <2>1. Becomes(r, [req[r] EXCEPT !.pc = "create", !.hidden = (user \in accounts)])
    BY <1>1, <1>3
  <2>2. (user \in accounts) \in BOOLEAN
    OBVIOUS
  <2> QED
    BY <1>2, <1>3, <2>1, <2>2
<1>4. CASE OfName(user, found) # {}
  BY <1>1, <1>4 DEF OfName
<1> QED
  BY <1>3, <1>4

LEMMA StepTypes ==
  ASSUME TypeOK, \A r \in Requests : RequestInv(req[r]), [Next]_vars
  PROVE  TypeOK'
<1> USE DEF At
<1> DEFINE q(r) == req[r]
<1>0. \A r \in Requests : req[r] \in Request /\ req[r].token \in Tokens
  BY RequestTypes DEF TypeOK
<1>1. ASSUME NEW r \in Requests, Ask(r) PROVE TypeOK'
  <2>1. PICK token \in Tokens, wanted \in {"resources", "kubeconfig"} : GetImpersonateUser(r, token, wanted)
    <3>1. \A u \in Users : OfUser(u) \in Tokens
      BY DEF OfUser, Tokens
    <3>2. \A t \in tokens : OfAccount(t) \in Tokens
      BY DEF OfAccount, Tokens, TypeOK
    <3> QED
      BY <1>1, <3>1, <3>2 DEF Ask
  <2> DEFINE p == [Idle EXCEPT !.pc = "getUser", !.token = token, !.wanted = wanted]
  <2>2. p \in Request
    BY IdleLemma DEF Request, Places
  <2>3. Returned(p, "") \in Request
    BY <2>2, ReturnedLemma
  <2> QED
    BY <2>1, <2>2, <2>3, RequestStep DEF GetImpersonateUser
<1>2. ASSUME NEW r \in Requests, GetUser(r) PROVE TypeOK'
  <2> DEFINE id == req[r].token.id
  <2>1. [req[r] EXCEPT !.pc = "askUser"] \in Request
    BY <1>0, RequestTypes DEF Places
  <2>2. Hit(usersCache, id) => Returned(req[r], Get(usersCache, id)) \in Request
    <3>1. Hit(usersCache, id) => Get(usersCache, id) \in Accounts
      BY GetLemma DEF TypeOK, Accounts
    <3> QED
      BY <1>0, <3>1, ReturnedLemma
  <2>3. Hit(serviceAccountsCache, id) => Returned(req[r], Get(serviceAccountsCache, id)) \in Request
    <3>1. Hit(serviceAccountsCache, id) => Get(serviceAccountsCache, id) \in Accounts
      BY GetLemma DEF TypeOK
    <3> QED
      BY <1>0, <3>1, ReturnedLemma
  <2> QED
    BY <1>2, <2>1, <2>2, <2>3, RequestStep DEF GetUser, Used, inGrafana, caches
<1>3. ASSUME NEW r \in Requests, TellUser(r) PROVE TypeOK'
  <2> DEFINE told == IF IsUser(r) THEN users[req[r].token.id].login ELSE req[r].token.id
  <2>1. told \in Accounts
    BY <1>0, <1>3, RequestTypes DEF TypeOK, IsUser, Persons, Accounts, RequestInv, PlaceInv, Tokens, TellUser
  <2>2. [req[r] EXCEPT !.pc = "toldUser", !.told = told] \in Request
    <3> HIDE DEF told
    <3> QED
      BY <1>0, <2>1 DEF Request, Places
  <2> QED
    BY <1>3, <2>2, RequestStep DEF TellUser
<1>4. ASSUME NEW r \in Requests, KeepUser(r) PROVE TypeOK'
  <2> DEFINE id == req[r].token.id
             told == req[r].told
  <2>1. Returned(req[r], told) \in Request
    BY <1>0, ReturnedLemma DEF Request
  <2>2. req' \in [Requests -> Request]
    BY <1>4, <2>1, BecomesLemma DEF KeepUser, TypeOK
  <2>3. CASE IsUser(r)
    <3>1. id \in Users /\ told \in Logins
      BY <1>0, <1>4, <2>3, RequestTypes DEF RequestInv, UserInv, OfAUser, IsUser, KeepUser
    <3>2. usersCache' \in Caches(Users, Logins)
      BY <1>4, <2>3, <3>1, AddedLemma DEF KeepUser, TypeOK
    <3> QED
      BY <1>4, <2>2, <2>3, <3>2 DEF KeepUser, TypeOK, inGrafana
  <2>4. CASE ~IsUser(r)
    <3>1. id \in Accounts /\ told \in Accounts
      BY <1>0, <1>4, <2>4, RequestTypes DEF RequestInv, PlaceInv, UserInv, OfAUser, IsUser, KeepUser, Tokens
    <3>2. serviceAccountsCache' \in Caches(Accounts, Accounts)
      BY <1>4, <2>4, <3>1, AddedLemma DEF KeepUser, TypeOK
    <3> QED
      BY <1>4, <2>2, <2>4, <3>2 DEF KeepUser, TypeOK, inGrafana
  <2> QED
    BY <2>3, <2>4
<1>5. ASSUME NEW r \in Requests, GetGroups(r) PROVE TypeOK'
  <2> DEFINE owner == req[r].owner
             groups == Get(groupsCache, owner)
  <2>1. [req[r] EXCEPT !.pc = "askId"] \in Request
    BY <1>0, RequestTypes DEF Places
  <2>2. Hit(groupsCache, owner) => [req[r] EXCEPT !.pc = "act", !.groups = groups] \in Request
    <3>1. Hit(groupsCache, owner) => groups \in SUBSET Teams
      BY GetLemma DEF TypeOK
    <3> HIDE DEF groups
    <3> QED
      BY <1>0, <3>1 DEF Request, Places
  <2> QED
    BY <1>5, <2>1, <2>2, RequestStep DEF GetGroups, Used, inGrafana, caches
<1>6. ASSUME NEW r \in Requests, TellId(r) PROVE TypeOK'
  <2>1. [req[r] EXCEPT !.pc = "notFound"] \in Request
    BY <1>0, RequestTypes DEF Places
  <2>2. \A u \in Users : [req[r] EXCEPT !.pc = "askTeams", !.id = u] \in Request
    BY <1>0 DEF Request, Places
  <2> QED
    BY <1>6, <2>1, <2>2, RequestStep DEF TellId
<1>7. ASSUME NEW r \in Requests, TellTeams(r) PROVE TypeOK'
  <2> DEFINE teams == users[req[r].id].teams
  <2>1. teams \in SUBSET Teams
    BY <1>7 DEF TellTeams, RequestInv, GroupsInv, TypeOK, Persons
  <2>2. [req[r] EXCEPT !.pc = "toldTeams", !.id = "", !.groups = teams] \in Request
    <3> HIDE DEF teams
    <3> QED
      BY <1>0, <2>1 DEF Request, Places
  <2> QED
    BY <1>7, <2>2, RequestStep DEF TellTeams
<1>8. ASSUME NEW r \in Requests, KeepGroups(r) PROVE TypeOK'
  <2>1. [req[r] EXCEPT !.pc = "act"] \in Request
    BY <1>0, RequestTypes DEF Places
  <2>2. req[r].owner \in Accounts /\ req[r].groups \in SUBSET Teams
    BY <1>0, <1>8 DEF KeepGroups, RequestInv, GroupsInv, NeedsOwner, Request
  <2>3. groupsCache' \in Caches(Accounts, SUBSET Teams)
    BY <1>8, <2>2, AddedLemma DEF KeepGroups, TypeOK
  <2> QED
    BY <1>8, <2>1, <2>3, BecomesLemma DEF KeepGroups, TypeOK, inGrafana
<1>9. ASSUME NEW r \in Requests, Search(r) PROVE TypeOK'
  <2>1. req[r].user \in Accounts
    BY <1>9 DEF Search, RequestInv, AccountInv
  <2>2. [req[r] EXCEPT !.pc = "createToken", !.account = req[r].user] \in Request
    BY <1>0, <2>1 DEF Request, Places
  <2>3. \A h \in BOOLEAN : [req[r] EXCEPT !.pc = "create", !.hidden = h] \in Request
    BY <1>0 DEF Request, Places
  <2>4. UNCHANGED <<inGrafana, caches, settings>>
    BY <1>9 DEF Search
  <2> QED
    BY <1>9, <2>1, <2>2, <2>3, <2>4, RequestStep, SearchLemma
<1>10. ASSUME NEW r \in Requests, CreateServiceAccount(r) PROVE TypeOK'
  <2>1. req[r].user \in Accounts
    BY <1>10 DEF CreateServiceAccount, RequestInv, AccountInv
  <2>2. [req[r] EXCEPT !.pc = "exists"] \in Request
    BY <1>0, RequestTypes DEF Places
  <2>3. [req[r] EXCEPT !.pc = "createToken", !.account = req[r].user] \in Request
    BY <1>0, <2>1 DEF Request, Places
  <2>4. req' \in [Requests -> Request]
    BY <1>10, <2>2, <2>3, BecomesLemma DEF CreateServiceAccount, TypeOK
  <2>5. IsFiniteSet(accounts')
    BY <1>10, FS_AddElement DEF CreateServiceAccount, TypeOK
  <2> QED
    BY <1>10, <2>1, <2>4, <2>5 DEF CreateServiceAccount, TypeOK, caches
<1>11. ASSUME NEW r \in Requests, CreateToken(r) PROVE TypeOK'
  <2>1. req[r].account \in Accounts /\ req[r].token.id \in Users
    BY <1>0, <1>11, RequestTypes DEF CreateToken, RequestInv, PlaceInv, AccountInv, OfAUser
  <2>2. req' \in [Requests -> Request]
    BY <1>11, IdleLemma, BecomesLemma DEF CreateToken, TypeOK
  <2> QED
    BY <1>11, <2>1, <2>2 DEF CreateToken, TypeOK, caches
<1>12. ASSUME NEW r \in Requests, Fault(r) \/ Leave(r) PROVE TypeOK'
  BY <1>12, IdleLemma, RequestStep DEF Fault, Leave
<1>13. ASSUME NEW c \in Changes, Change(c) PROVE TypeOK'
  <2>1. c.user \in Users /\ c.becomes \in Persons
    BY UsersAssumption
  <2>2. users[c.user].login \in Logins /\ users[c.user].teams \in SUBSET Teams
    BY <2>1 DEF TypeOK, Persons
  <2> QED
    BY <1>13, <2>1, <2>2 DEF Change, TypeOK, caches
<1>14. CASE Tick
  <2>1. req' \in [Requests -> Request]
    <3>1. ASSUME NEW r \in Requests, req[r].pc # "idle"
          PROVE  [req[r] EXCEPT !.age = @ + 1] \in Request
      <4>1. req[r].age \in 0..Slow /\ req[r].age < Slow
        BY <1>0, <1>14, <3>1 DEF Tick, Request
      <4>2. \A a \in 0..Slow : [req[r] EXCEPT !.age = a] \in Request
        BY <1>0 DEF Request
      <4>3. req[r].age + 1 \in 0..Slow
        BY <4>1, DurationsAssumption
      <4> QED
        BY <4>2, <4>3
    <3> QED
      BY <1>0, <1>14, <3>1 DEF Tick
  <2>2. ended' \subseteq [user : Users, login : Logins, teams : SUBSET Teams, ago : Nat]
    BY <1>14, DurationsAssumption DEF Tick, TypeOK, Older, Window
  <2>3. /\ usersCache' \in Caches(Users, Logins)
        /\ serviceAccountsCache' \in Caches(Accounts, Accounts)
        /\ groupsCache' \in Caches(Accounts, SUBSET Teams)
    BY <1>14, AgedLemma DEF Tick, TypeOK
  <2> QED
    BY <1>14, <2>1, <2>2, <2>3 DEF Tick, TypeOK
<1>15. CASE UNCHANGED vars
  BY <1>15 DEF vars, inGrafana, caches, TypeOK
<1> QED
  BY <1>1, <1>2, <1>3, <1>4, <1>5, <1>6, <1>7, <1>8, <1>9, <1>10, <1>11, <1>12, <1>13, <1>14, <1>15 DEF Next

-----------------------------------------------------------------------------
(* A user keeps the names that it has had; it was called by these only. *)
LEMMA NamesLemma ==
  ASSUME NEW u, NEW l
  PROVE  l \in NamesOf(u) <=> users[u].login = l \/ \E e \in ended : e.user = u /\ e.login = l
BY DEF NamesOf

LEMMA NamesStay ==
  ASSUME TypeOK, [Next]_vars
  PROVE  \A u \in Users : NamesOf(u) \subseteq NamesOf(u)'
<1>1. CASE UNCHANGED <<users, ended>>
  BY <1>1 DEF NamesOf
<1>2. ASSUME NEW c \in Changes, Change(c), NEW u \in Users PROVE NamesOf(u) \subseteq NamesOf(u)'
  <2> DEFINE e == [user |-> c.user, login |-> users[c.user].login, teams |-> users[c.user].teams, ago |-> 0]
  <2>1. e \in ended' /\ ended \subseteq ended' /\ c.user \in Users
    BY <1>2, UsersAssumption DEF Change
  <2>2. u # c.user => users'[u] = users[u]
    BY <1>2 DEF Change, TypeOK
  <2> QED
    BY <2>1, <2>2 DEF NamesOf
<1>3. CASE Tick
  <2>1. users' = users /\ ended' = {[e EXCEPT !.ago = Older(@)] : e \in ended}
    BY <1>3 DEF Tick
  <2>2. \A e \in ended : \E d \in ended' : d.user = e.user /\ d.login = e.login
    <3> TAKE e \in ended
    <3>1. [e EXCEPT !.ago = Older(@)] \in ended'
      BY <2>1
    <3> QED
      BY <3>1 DEF TypeOK, Older
  <2>3. ASSUME NEW u \in Users, NEW l, l \in NamesOf(u)
        PROVE  l \in {users'[u].login} \cup {d.login : d \in {f \in ended' : f.user = u}}
    <3>1. users[u].login = l \/ \E e \in ended : e.user = u /\ e.login = l
      BY <2>3, NamesLemma
    <3>2. CASE users[u].login = l
      BY <2>1, <3>2
    <3>3. ASSUME NEW e \in ended, e.user = u, e.login = l
          PROVE  \E d \in {f \in ended' : f.user = u} : d.login = l
      BY <2>2, <3>3
    <3> QED
      BY <3>1, <3>2, <3>3
  <2> QED
    BY <2>3 DEF NamesOf
<1> QED
  BY <1>1, <1>2, <1>3 DEF Next, vars, inGrafana, caches, Ask, GetImpersonateUser, GetUser, TellUser, KeepUser, GetGroups,
     TellId, TellTeams, KeepGroups, Search, CreateServiceAccount, CreateToken, Fault, Leave

LEMMA CalledByName ==
  ASSUME NEW u, NEW l, NEW a, WasCalled(u, l, a)
  PROVE  l \in NamesOf(u)
BY NamesLemma DEF WasCalled

-----------------------------------------------------------------------------
LEMMA Now ==
  ASSUME NEW s, NEW p, p = req'[s], RequestInv(p)'
  PROVE  RequestInv(req[s])'
<1>1. PlaceInv(req[s])' /\ UserInv(req[s])'
  BY DEF RequestInv, PlaceInv, UserInv, HasUser, OfAUser, Impersonates, WasCalled, Window
<1>2. GroupsInv(req[s])'
  BY DEF RequestInv, GroupsInv, NeedsOwner, HasGroups, OfAUser, WereTeamsOf, WasCalled, WasIn, Window
<1>3. AccountInv(req[s])'
  BY DEF RequestInv, AccountInv, Matches
<1> QED
  BY <1>1, <1>2, <1>3 DEF RequestInv

(* A step of another request or of Grafana, in which no user changes. *)
LEMMA Undisturbed ==
  ASSUME NEW p \in Request, RequestInv(p), UNCHANGED <<users, ended, settings>>,
         accounts \subseteq accounts', IsFiniteSet(accounts')
  PROVE  RequestInv(p)'
<1>1. PlaceInv(p)' /\ UserInv(p)' /\ GroupsInv(p)'
  BY DEF RequestInv, PlaceInv, UserInv, GroupsInv, HasUser, OfAUser, NeedsOwner, HasGroups, Impersonates, WereTeamsOf, WasCalled, WasIn, Window
<1>2. AccountInv(p)'
  <2>1. Matches(p.user) \subseteq Matches(p.user)' /\ IsFiniteSet(Matches(p.user)')
    BY FS_Subset DEF Matches
  <2>2. Cardinality(Matches(p.user)) <= Cardinality(Matches(p.user)')
    BY <2>1, FS_Subset
  <2>3. Cardinality(Matches(p.user)) \in Nat /\ Cardinality(Matches(p.user)') \in Nat
    BY <2>1, FS_Subset, FS_CardinalityType
  <2> QED
    BY <2>2, <2>3, PageAssumption DEF RequestInv, AccountInv
<1> QED
  BY <1>1, <1>2 DEF RequestInv

-----------------------------------------------------------------------------
LEMMA StepCaches ==
  ASSUME TypeOK, TypeOK', CacheInv, \A r \in Requests : RequestInv(req[r]), [Next]_vars
  PROVE  CacheInv'
<1>0. \A r \in Requests : req[r] \in Request
  BY DEF TypeOK
<1>1. CASE UNCHANGED <<users, ended, caches>>
  BY <1>1 DEF CacheInv, EntryAge, WereTeamsOf, WasCalled, WasIn, caches
<1>2. ASSUME NEW r \in Requests, GetUser(r) \/ GetGroups(r) PROVE CacheInv'
  BY <1>2 DEF CacheInv, EntryAge, WereTeamsOf, WasCalled, WasIn, caches, inGrafana, GetUser, GetGroups, Used
<1>3. ASSUME NEW r \in Requests, KeepUser(r) PROVE CacheInv'
  <2> DEFINE id == req[r].token.id
             told == req[r].told
  <2>1. UNCHANGED <<users, ended, groupsCache>>
    BY <1>3 DEF KeepUser, inGrafana
  <2>2. CASE IsUser(r)
    <3>1. id \in Users /\ told \in Logins /\ WasCalled(id, told, req[r].age)
      BY <1>0, <1>3, <2>2, RequestTypes DEF KeepUser, At, RequestInv, UserInv, OfAUser, IsUser
    <3>2. req[r].age \in Nat /\ req[r].age <= Slow
      BY <1>0, RequestTypes
    <3>3. WasCalled(id, told, Slow)
      BY <3>1, <3>2, LongerAgo, DurationsAssumption
    <3>4. /\ serviceAccountsCache' = serviceAccountsCache
          /\ DOMAIN usersCache' \subseteq DOMAIN usersCache \cup {id}
          /\ \A k \in DOMAIN usersCache' :
               usersCache'[k] = IF k = id THEN [value |-> told, left |-> TTL] ELSE usersCache[k]
      BY <1>3, <2>2, <3>1, AddedLemma DEF KeepUser, TypeOK
    <3>5. TTL - TTL + Slow = Slow
      BY DurationsAssumption
    <3>6. ASSUME NEW u \in DOMAIN usersCache'
          PROVE  WasCalled(u, usersCache'[u].value, EntryAge(usersCache'[u]))
      BY <3>3, <3>4, <3>5, <3>6 DEF CacheInv, EntryAge
    <3> QED
      BY <2>1, <3>4, <3>6 DEF CacheInv, EntryAge, WereTeamsOf, WasCalled, WasIn
  <2>3. CASE ~IsUser(r)
    <3>1. id \in Accounts /\ told = id
      BY <1>0, <1>3, <2>3, RequestTypes DEF KeepUser, At, RequestInv, PlaceInv, UserInv, OfAUser, IsUser, Tokens
    <3>2. /\ usersCache' = usersCache
          /\ DOMAIN serviceAccountsCache' \subseteq DOMAIN serviceAccountsCache \cup {id}
          /\ \A k \in DOMAIN serviceAccountsCache' :
               serviceAccountsCache'[k] = IF k = id THEN [value |-> told, left |-> TTL] ELSE serviceAccountsCache[k]
      BY <1>3, <2>3, <3>1, AddedLemma DEF KeepUser, TypeOK
    <3> QED
      BY <2>1, <3>1, <3>2 DEF CacheInv, EntryAge, WereTeamsOf, WasCalled, WasIn
  <2> QED
    BY <2>2, <2>3
<1>4. ASSUME NEW r \in Requests, KeepGroups(r) PROVE CacheInv'
  <2> DEFINE owner == req[r].owner
             groups == req[r].groups
  <2>1. UNCHANGED <<users, ended, usersCache, serviceAccountsCache>>
    BY <1>4 DEF KeepGroups, inGrafana
  <2>2. owner \in Accounts /\ groups \in SUBSET Teams
    BY <1>0, <1>4 DEF KeepGroups, At, RequestInv, GroupsInv, NeedsOwner, Request
  <2>3. WereTeamsOf(owner, groups, Slow)
    <3>1. WereTeamsOf(owner, groups, req[r].age)
      BY <1>4 DEF KeepGroups, At, RequestInv, GroupsInv
    <3>2. req[r].age \in Nat /\ req[r].age <= Slow
      BY <1>0, RequestTypes
    <3> QED
      BY <3>1, <3>2, LongerAgoTeams, DurationsAssumption
  <2>4. /\ DOMAIN groupsCache' \subseteq DOMAIN groupsCache \cup {owner}
        /\ \A k \in DOMAIN groupsCache' :
             groupsCache'[k] = IF k = owner THEN [value |-> groups, left |-> TTL] ELSE groupsCache[k]
    BY <1>4, <2>2, AddedLemma DEF KeepGroups, TypeOK
  <2>5. TTL - TTL + Slow = Slow
    BY DurationsAssumption
  <2>6. ASSUME NEW l \in DOMAIN groupsCache'
        PROVE  WereTeamsOf(l, groupsCache'[l].value, EntryAge(groupsCache'[l]))
    BY <2>3, <2>4, <2>5, <2>6 DEF CacheInv, EntryAge
  <2> QED
    BY <2>1, <2>6 DEF CacheInv, EntryAge, WereTeamsOf, WasCalled, WasIn
<1>5. ASSUME NEW c \in Changes, Change(c) PROVE CacheInv'
  <2>1. UNCHANGED <<usersCache, serviceAccountsCache, groupsCache>>
    BY <1>5 DEF Change, caches
  <2>2. ASSUME NEW u \in DOMAIN usersCache
        PROVE  WasCalled(u, usersCache[u].value, EntryAge(usersCache[u]))'
    <3>1. u \in Users /\ EntryAge(usersCache[u]) \in Nat
      BY <2>2, EntryLemma, DurationsAssumption DEF TypeOK, EntryAge
    <3>2. PICK a \in Nat, v \in {usersCache[u].value} : a = EntryAge(usersCache[u]) /\ v = usersCache[u].value
      BY <3>1
    <3>3. WasCalled(u, v, a)'
      BY <1>5, <2>2, <3>1, <3>2, ChangeLemma DEF CacheInv
    <3> QED
      BY <2>1, <3>2, <3>3 DEF WasCalled, EntryAge
  <2>3. ASSUME NEW l \in DOMAIN groupsCache
        PROVE  WereTeamsOf(l, groupsCache[l].value, EntryAge(groupsCache[l]))'
    <3>1. EntryAge(groupsCache[l]) \in Nat
      BY <2>3, EntryLemma, DurationsAssumption DEF TypeOK, EntryAge
    <3>2. PICK a \in Nat, v \in {groupsCache[l].value} : a = EntryAge(groupsCache[l]) /\ v = groupsCache[l].value
      BY <3>1
    <3>3. WereTeamsOf(l, v, a)'
      BY <1>5, <2>3, <3>2, TeamsLemma DEF CacheInv
    <3> QED
      BY <2>1, <3>2, <3>3 DEF WereTeamsOf, WasCalled, WasIn, EntryAge
  <2> QED
    BY <2>1, <2>2, <2>3 DEF CacheInv
<1>6. CASE Tick
  <2>1. /\ usersCache' = Aged(usersCache)
        /\ serviceAccountsCache' = Aged(serviceAccountsCache)
        /\ groupsCache' = Aged(groupsCache)
    BY <1>6 DEF Tick
  <2>2. ASSUME NEW u \in DOMAIN usersCache'
        PROVE  WasCalled(u, usersCache[u].value, EntryAge(usersCache[u]))'
    <3>1. /\ u \in DOMAIN usersCache /\ u \in Users /\ usersCache[u].left \in 0..TTL
          /\ usersCache'[u] = [value |-> usersCache[u].value, left |-> usersCache[u].left - 1]
      BY <2>1, <2>2, AgedLemma, EntryLemma DEF TypeOK
    <3>2. PICK a \in Nat, v \in {usersCache[u].value} : a = EntryAge(usersCache[u]) /\ v = usersCache[u].value
      BY <3>1, DurationsAssumption DEF EntryAge
    <3>3. WasCalled(u, v, a + 1)'
      BY <1>6, <3>1, <3>2, TickLemma DEF CacheInv
    <3>4. EntryAge(usersCache'[u]) = a + 1 /\ usersCache'[u].value = v
      BY <3>1, <3>2, DurationsAssumption DEF EntryAge
    <3> QED
      BY <3>3, <3>4 DEF WasCalled, EntryAge
  <2>3. ASSUME NEW l \in DOMAIN groupsCache'
        PROVE  WereTeamsOf(l, groupsCache[l].value, EntryAge(groupsCache[l]))'
    <3>1. /\ l \in DOMAIN groupsCache /\ groupsCache[l].left \in 0..TTL
          /\ groupsCache'[l] = [value |-> groupsCache[l].value, left |-> groupsCache[l].left - 1]
      BY <2>1, <2>3, AgedLemma DEF TypeOK
    <3>2. PICK a \in Nat, v \in {groupsCache[l].value} : a = EntryAge(groupsCache[l]) /\ v = groupsCache[l].value
      BY <3>1, DurationsAssumption DEF EntryAge
    <3>3. WereTeamsOf(l, v, a + 1)'
      BY <1>6, <2>3, <3>1, <3>2, TeamsLemma DEF CacheInv
    <3>4. EntryAge(groupsCache'[l]) = a + 1 /\ groupsCache'[l].value = v
      BY <3>1, <3>2, DurationsAssumption DEF EntryAge
    <3> QED
      BY <3>3, <3>4 DEF WereTeamsOf, WasCalled, WasIn, EntryAge
  <2>4. \A l \in DOMAIN serviceAccountsCache' : serviceAccountsCache'[l].value = l
    BY <2>1, AgedLemma DEF TypeOK, CacheInv
  <2> QED
    BY <2>2, <2>3, <2>4 DEF CacheInv
<1> QED
  BY <1>1, <1>2, <1>3, <1>4, <1>5, <1>6 DEF Next, vars, inGrafana, caches, Ask, GetImpersonateUser, TellUser,
     TellId, TellTeams, Search, CreateServiceAccount, CreateToken, Fault, Leave

-----------------------------------------------------------------------------
(* A step of a request, in which no user changes. *)
LEMMA OwnStep ==
  ASSUME TypeOK, TypeOK', \A s \in Requests : RequestInv(req[s]),
         NEW r \in Requests, NEW p, Becomes(r, p), p \in Request => RequestInv(p),
         UNCHANGED <<users, ended, settings>>, accounts \subseteq accounts'
  PROVE  \A s \in Requests : RequestInv(req[s])'
<1>1. /\ req'[r] = p
      /\ \A s \in Requests : s # r => req'[s] = req[s]
      /\ \A s \in Requests : req[s] \in Request /\ req'[s] \in Request
      /\ IsFiniteSet(accounts')
  BY DEF Becomes, TypeOK
<1> TAKE s \in Requests
<1>2. PICK n \in Request : n = req'[s] /\ RequestInv(n)
  BY <1>1
<1>3. RequestInv(n)'
  BY <1>1, <1>2, Undisturbed
<1> QED
  BY <1>2, <1>3, Now

(* The request goes on with the name of its user. *)
LEMMA ReturnedInv ==
  ASSUME NEW q \in Request, RequestInv(q), q.pc # "idle", Impersonates, NEW login \in Accounts,
         ~HasUser(q) \/ q.call = "groups",
         IF OfAUser(q) THEN login \in Logins /\ WasCalled(q.token.id, login, q.age + Window) ELSE login = q.token.id
  PROVE  RequestInv(Returned(q, login))
<1>1. CASE q.call = "groups"
  <2> DEFINE p == [q EXCEPT !.pc = "groups", !.told = "", !.owner = login]
  <2>1. /\ p.pc = "groups" /\ p.owner = login
        /\ p.call = q.call /\ p.token = q.token /\ p.wanted = q.wanted /\ p.age = q.age
        /\ p.user = q.user /\ p.groups = q.groups
    BY DEF Request
  <2>2. Returned(q, login) = p
    BY <1>1 DEF Returned
  <2> HIDE DEF p
  <2> QED
    BY <1>1, <2>1, <2>2 DEF RequestInv, PlaceInv, UserInv, GroupsInv, NeedsOwner, HasGroups, AccountInv, HasUser, OfAUser
<1>2. CASE q.call = "user" /\ q.wanted = "kubeconfig"
  <2> DEFINE p == [q EXCEPT !.pc = "search", !.told = "", !.user = IF login = "" THEN "admin" ELSE login]
  <2>1. /\ p.pc = "search" /\ p.user = IF login = "" THEN "admin" ELSE login
        /\ p.call = q.call /\ p.token = q.token /\ p.wanted = q.wanted /\ p.age = q.age /\ p.groups = q.groups
    BY DEF Request
  <2>2. Returned(q, login) = p
    BY <1>2 DEF Returned
  <2>3. OfAUser(q) /\ login # ""
    BY <1>2, UsersAssumption DEF RequestInv, PlaceInv
  <2> HIDE DEF p
  <2> QED
    BY <1>2, <2>1, <2>2, <2>3 DEF RequestInv, PlaceInv, UserInv, GroupsInv, NeedsOwner, HasGroups, AccountInv, HasUser, OfAUser
<1>3. CASE q.call = "user" /\ q.wanted # "kubeconfig" /\ settings.impersonateGroups
  <2> DEFINE p == [q EXCEPT !.pc = "getUser", !.told = "", !.user = login, !.call = "groups"]
  <2>1. /\ p.pc = "getUser" /\ p.user = login /\ p.call = "groups"
        /\ p.token = q.token /\ p.wanted = q.wanted /\ p.age = q.age /\ p.groups = q.groups
    BY DEF Request
  <2>2. Returned(q, login) = p
    BY <1>3 DEF Returned
  <2> HIDE DEF p
  <2> QED
    BY <1>3, <2>1, <2>2 DEF RequestInv, PlaceInv, UserInv, GroupsInv, NeedsOwner, HasGroups, AccountInv, HasUser, OfAUser
<1>4. CASE q.call = "user" /\ q.wanted # "kubeconfig" /\ ~settings.impersonateGroups
  <2> DEFINE p == [q EXCEPT !.pc = "act", !.told = "", !.user = login]
  <2>1. /\ p.pc = "act" /\ p.user = login /\ p.call = q.call
        /\ p.token = q.token /\ p.wanted = q.wanted /\ p.age = q.age /\ p.groups = q.groups
    BY DEF Request
  <2>2. Returned(q, login) = p
    BY <1>4 DEF Returned
  <2> HIDE DEF p
  <2> QED
    BY <1>4, <2>1, <2>2 DEF RequestInv, PlaceInv, UserInv, GroupsInv, NeedsOwner, HasGroups, AccountInv, HasUser, OfAUser
<1> QED
  BY <1>1, <1>2, <1>3, <1>4 DEF Request

LEMMA IdleInv == RequestInv(Idle)
BY DEF RequestInv, PlaceInv, UserInv, GroupsInv, NeedsOwner, HasGroups, AccountInv, HasUser, OfAUser, Idle, Nobody

LEMMA StepRequests ==
  ASSUME TypeOK, TypeOK', CacheInv, \A r \in Requests : RequestInv(req[r]), [Next]_vars
  PROVE  \A r \in Requests : RequestInv(req[r])'
<1> DEFINE Goal == \A s \in Requests : RequestInv(req[s])'
<1>0. \A r \in Requests : req[r] \in Request /\ RequestInv(req[r])
  BY DEF TypeOK
<1> USE DEF At, inGrafana
<1>1. ASSUME NEW r \in Requests, Ask(r) PROVE Goal
  <2>1. PICK token \in Tokens \ {Nobody}, wanted \in {"resources", "kubeconfig"} :
          /\ GetImpersonateUser(r, token, wanted)
          /\ wanted = "kubeconfig" => token.type = "user"
    <3>1. \A u \in Users : OfUser(u) \in Tokens \ {Nobody} /\ OfUser(u).type = "user"
      BY DEF OfUser, Tokens, Nobody
    <3>2. \A t \in tokens : OfAccount(t) \in Tokens \ {Nobody}
      BY DEF OfAccount, Tokens, Nobody, TypeOK
    <3> QED
      BY <1>1, <3>1, <3>2 DEF Ask
  <2> DEFINE p == [Idle EXCEPT !.pc = "getUser", !.token = token, !.wanted = wanted]
  <2>2. /\ p.pc = "getUser" /\ p.call = "user" /\ p.token = token /\ p.wanted = wanted
        /\ p.user = "" /\ p.groups = {}
    BY DEF Idle
  <2>3. CASE Impersonates
    <3>1. RequestInv(p)
      BY <2>1, <2>2, <2>3 DEF RequestInv, PlaceInv, UserInv, GroupsInv, NeedsOwner, HasGroups, AccountInv, HasUser, OfAUser
    <3> QED
      BY <2>1, <2>3, <3>1, OwnStep DEF GetImpersonateUser
  <2>4. CASE ~Impersonates
    <3> DEFINE n == Returned(p, "")
    <3>1. /\ n.pc = IF wanted = "kubeconfig" THEN "search" ELSE "act"
          /\ n.call = "user" /\ n.token = token /\ n.wanted = wanted /\ n.groups = {}
          /\ n.user = IF wanted = "kubeconfig" THEN "admin" ELSE ""
      BY <2>4 DEF Returned, Impersonates, Idle
    <3> HIDE DEF n
    <3>2. RequestInv(n)
      BY <2>1, <2>4, <3>1 DEF RequestInv, PlaceInv, UserInv, GroupsInv, NeedsOwner, HasGroups, AccountInv, HasUser, OfAUser, Impersonates, Accounts
    <3>3. Becomes(r, n)
      BY <2>1, <2>4 DEF GetImpersonateUser, n
    <3> QED
      BY <2>1, <3>2, <3>3, OwnStep DEF GetImpersonateUser
  <2> QED
    BY <2>3, <2>4
<1>2. ASSUME NEW r \in Requests, GetUser(r) PROVE Goal
  <2> DEFINE q == req[r]
             id == q.token.id
             cache == IF IsUser(r) THEN usersCache ELSE serviceAccountsCache
  <2>1. q.pc = "getUser" /\ Impersonates /\ (~HasUser(q) \/ q.call = "groups")
    BY <1>0, <1>2 DEF GetUser, RequestInv, PlaceInv, HasUser
  <2>2. CASE Hit(cache, id)
    <3> DEFINE login == Get(cache, id)
    <3>1. ASSUME IsUser(r) PROVE RequestInv(Returned(q, login))
      <4>1. id \in DOMAIN usersCache /\ login = usersCache[id].value
        BY <2>2, <3>1 DEF Hit, Get
      <4>2. id \in Users /\ login \in Logins /\ usersCache[id].left \in 0..TTL
        BY <4>1, EntryLemma DEF TypeOK
      <4>3. WasCalled(id, login, EntryAge(usersCache[id]))
        BY <4>1 DEF CacheInv
      <4>4. /\ EntryAge(usersCache[id]) \in Nat /\ q.age + Window \in Nat
            /\ EntryAge(usersCache[id]) <= q.age + Window
        BY <1>0, <4>2, RequestTypes, DurationsAssumption DEF EntryAge, Window
      <4>5. WasCalled(id, login, q.age + Window)
        BY <4>2, <4>3, <4>4, LongerAgo
      <4> QED
        BY <1>0, <2>1, <3>1, <4>2, <4>5, ReturnedInv DEF IsUser, OfAUser, Accounts
    <3>2. ASSUME ~IsUser(r) PROVE RequestInv(Returned(q, login))
      <4>1. id \in DOMAIN serviceAccountsCache /\ login = serviceAccountsCache[id].value
        BY <2>2, <3>2 DEF Hit, Get
      <4>2. login = id /\ login \in Accounts
        BY <4>1, EntryLemma DEF TypeOK, CacheInv
      <4> QED
        BY <1>0, <2>1, <3>2, <4>2, ReturnedInv DEF IsUser, OfAUser
    <3>3. RequestInv(Returned(q, login))
      BY <3>1, <3>2
    <3>4. Becomes(r, Returned(q, login)) /\ UNCHANGED <<users, ended, accounts, settings>>
      BY <1>2, <2>2 DEF GetUser
    <3> QED
      BY <3>3, <3>4, OwnStep
  <2>3. CASE ~Hit(cache, id)
    <3> DEFINE p == [q EXCEPT !.pc = "askUser"]
    <3>1. RequestInv(p)
      <4>1. /\ p.pc = "askUser" /\ p.call = q.call /\ p.token = q.token /\ p.wanted = q.wanted /\ p.age = q.age
            /\ p.user = q.user /\ p.groups = q.groups
        BY <1>0 DEF Request
      <4> HIDE DEF p
      <4> QED
        BY <1>0, <2>1, <4>1 DEF RequestInv, PlaceInv, UserInv, GroupsInv, NeedsOwner, HasGroups, AccountInv, HasUser, OfAUser
    <3>2. Becomes(r, p) /\ UNCHANGED <<users, ended, accounts, settings>>
      BY <1>2, <2>3 DEF GetUser
    <3> QED
      BY <3>1, <3>2, OwnStep
  <2> QED
    BY <2>2, <2>3
<1>3. ASSUME NEW r \in Requests, TellUser(r) PROVE Goal
  <2> DEFINE q == req[r]
             told == IF IsUser(r) THEN users[q.token.id].login ELSE q.token.id
             p == [q EXCEPT !.pc = "toldUser", !.told = told]
  <2>1. q.pc = "askUser" /\ Becomes(r, p) /\ UNCHANGED <<users, ended, accounts, settings>>
    BY <1>3 DEF TellUser
  <2>2. /\ p.pc = "toldUser" /\ p.told = told /\ p.call = q.call /\ p.token = q.token /\ p.wanted = q.wanted
        /\ p.age = q.age /\ p.user = q.user /\ p.groups = q.groups
    BY <1>0 DEF Request
  <2>3. OfAUser(q) => q.token.id \in Users /\ told \in Logins /\ WasCalled(q.token.id, told, q.age)
    BY <1>0, RequestTypes DEF OfAUser, IsUser, WasCalled, TypeOK, Persons
  <2>4. ~OfAUser(q) => told = q.token.id
    BY DEF OfAUser, IsUser
  <2> HIDE DEF p, told
  <2>5. RequestInv(p)
    <3>1. PlaceInv(p)
      BY <1>0, <2>1, <2>2 DEF RequestInv, PlaceInv, OfAUser
    <3>2. UserInv(p)
      BY <1>0, <2>1, <2>2, <2>3, <2>4 DEF RequestInv, UserInv, HasUser, OfAUser
    <3> QED
      BY <2>2, <3>1, <3>2 DEF RequestInv, GroupsInv, NeedsOwner, HasGroups, AccountInv
  <2> QED
    BY <2>1, <2>5, OwnStep
<1>4. ASSUME NEW r \in Requests, KeepUser(r) PROVE Goal
  <2> DEFINE q == req[r]
  <2>1. /\ q.pc = "toldUser" /\ Impersonates /\ (~HasUser(q) \/ q.call = "groups")
        /\ Becomes(r, Returned(q, q.told)) /\ UNCHANGED <<users, ended, accounts, settings>>
    BY <1>0, <1>4 DEF KeepUser, RequestInv, PlaceInv, HasUser
  <2>2. CASE OfAUser(q)
    <3>1. q.token.id \in Users /\ q.told \in Logins /\ WasCalled(q.token.id, q.told, q.age)
      BY <1>0, <2>1, <2>2, RequestTypes DEF RequestInv, UserInv, OfAUser
    <3>2. q.age \in Nat /\ q.age + Window \in Nat /\ q.age <= q.age + Window
      BY <1>0, RequestTypes, DurationsAssumption DEF Window
    <3>3. WasCalled(q.token.id, q.told, q.age + Window)
      BY <3>1, <3>2, LongerAgo
    <3> QED
      BY <1>0, <2>1, <2>2, <3>1, <3>3, ReturnedInv, OwnStep DEF Accounts
  <2>3. CASE ~OfAUser(q)
    <3>1. q.told = q.token.id /\ q.told \in Accounts
      BY <1>0, <2>1, <2>3, RequestTypes DEF RequestInv, PlaceInv, UserInv, OfAUser, Tokens
    <3> QED
      BY <1>0, <2>1, <2>3, <3>1, ReturnedInv, OwnStep
  <2> QED
    BY <2>2, <2>3
<1>5. ASSUME NEW r \in Requests, GetGroups(r) PROVE Goal
  <2> DEFINE q == req[r]
             id == q.token.id
  <2>1. q.pc = "groups" /\ UNCHANGED <<users, ended, accounts, settings>>
    BY <1>5 DEF GetGroups
  <2>2. CASE Hit(groupsCache, q.owner)
    <3> DEFINE groups == Get(groupsCache, q.owner)
               p == [q EXCEPT !.pc = "act", !.groups = groups]
    <3>1. Becomes(r, p)
      BY <1>5, <2>2 DEF GetGroups
    <3>2. /\ p.pc = "act" /\ p.groups = groups /\ p.call = q.call /\ p.token = q.token /\ p.wanted = q.wanted
          /\ p.age = q.age /\ p.user = q.user /\ p.owner = q.owner
      BY <1>0 DEF Request
    <3>3. WereTeamsOf(q.owner, groups, q.age + Window)
      <4>1. q.owner \in DOMAIN groupsCache /\ groups = groupsCache[q.owner].value
        BY <2>2 DEF Hit, Get
      <4>3. WereTeamsOf(q.owner, groups, EntryAge(groupsCache[q.owner]))
        BY <4>1 DEF CacheInv
      <4>4. groupsCache[q.owner].left \in 0..TTL
        BY <4>1, EntryLemma DEF TypeOK
      <4>5. /\ EntryAge(groupsCache[q.owner]) \in Nat /\ q.age + Window \in Nat
            /\ EntryAge(groupsCache[q.owner]) <= q.age + Window
        BY <1>0, <4>4, RequestTypes, DurationsAssumption DEF EntryAge, Window
      <4> QED
        BY <4>3, <4>5, LongerAgoTeams
    <3> HIDE DEF p, groups
    <3>4. RequestInv(p)
      <4>1. PlaceInv(p)
        BY <1>0, <2>1, <3>2 DEF RequestInv, PlaceInv, OfAUser
      <4>2. UserInv(p)
        BY <1>0, <2>1, <3>2 DEF RequestInv, PlaceInv, UserInv, HasUser, OfAUser
      <4> QED
        BY <1>0, <2>1, <3>2, <3>3, <4>1, <4>2 DEF RequestInv, GroupsInv, NeedsOwner, HasGroups, AccountInv, OfAUser
    <3> QED
      BY <2>1, <3>1, <3>4, OwnStep
  <2>3. CASE ~Hit(groupsCache, q.owner)
    <3> DEFINE p == [q EXCEPT !.pc = "askId"]
    <3>1. Becomes(r, p)
      BY <1>5, <2>3 DEF GetGroups
    <3>2. /\ p.pc = "askId" /\ p.call = q.call /\ p.token = q.token /\ p.wanted = q.wanted /\ p.age = q.age
          /\ p.user = q.user /\ p.groups = q.groups /\ p.owner = q.owner
      BY <1>0 DEF Request
    <3> HIDE DEF p
    <3>3. PlaceInv(p) /\ UserInv(p)
      BY <1>0, <2>1, <3>2 DEF RequestInv, PlaceInv, UserInv, HasUser, OfAUser
    <3>4. GroupsInv(p) /\ AccountInv(p)
      BY <1>0, <2>1, <3>2 DEF RequestInv, GroupsInv, NeedsOwner, HasGroups, AccountInv, OfAUser
    <3> QED
      BY <2>1, <3>1, <3>3, <3>4, OwnStep DEF RequestInv
  <2> QED
    BY <2>2, <2>3
<1>6. ASSUME NEW r \in Requests, TellId(r) PROVE Goal
  <2> DEFINE q == req[r]
  <2>1. q.pc = "askId" /\ UNCHANGED <<users, ended, accounts, settings>>
    BY <1>6 DEF TellId
  <2>2. ASSUME NEW u \in Users, users[u].login = q.owner, Becomes(r, [q EXCEPT !.pc = "askTeams", !.id = u]) PROVE Goal
    <3> DEFINE p == [q EXCEPT !.pc = "askTeams", !.id = u]
    <3>1. /\ p.pc = "askTeams" /\ p.id = u /\ p.call = q.call /\ p.token = q.token /\ p.wanted = q.wanted
          /\ p.age = q.age /\ p.user = q.user /\ p.groups = q.groups /\ p.owner = q.owner
      BY <1>0 DEF Request
    <3>2. WasCalled(u, q.owner, q.age)
      BY <2>2 DEF WasCalled
    <3> HIDE DEF p
    <3>3. PlaceInv(p) /\ UserInv(p)
      BY <1>0, <2>1, <3>1 DEF RequestInv, PlaceInv, UserInv, HasUser, OfAUser
    <3>4. GroupsInv(p) /\ AccountInv(p)
      BY <1>0, <2>1, <3>1, <3>2 DEF RequestInv, GroupsInv, NeedsOwner, HasGroups, AccountInv, OfAUser
    <3> QED
      BY <2>1, <2>2, <3>3, <3>4, OwnStep DEF p, RequestInv
  <2>3. ASSUME \A u \in Users : users[u].login # q.owner, Becomes(r, [q EXCEPT !.pc = "notFound"]) PROVE Goal
    <3> DEFINE p == [q EXCEPT !.pc = "notFound"]
    <3>1. /\ p.pc = "notFound" /\ p.call = q.call /\ p.token = q.token /\ p.wanted = q.wanted
          /\ p.age = q.age /\ p.user = q.user /\ p.groups = q.groups /\ p.owner = q.owner
      BY <1>0 DEF Request
    <3>2. OfAUser(q) => \E e \in ended : e.user = q.token.id /\ e.login = q.owner /\ e.ago <= q.age + Window
      BY <1>0, <2>1, <2>3, RequestTypes DEF RequestInv, GroupsInv, NeedsOwner, OfAUser, WasCalled
    <3> HIDE DEF p
    <3>3. PlaceInv(p) /\ UserInv(p)
      BY <1>0, <2>1, <3>1 DEF RequestInv, PlaceInv, UserInv, HasUser, OfAUser
    <3>4. GroupsInv(p) /\ AccountInv(p)
      BY <3>1, <3>2 DEF GroupsInv, NeedsOwner, HasGroups, AccountInv, OfAUser
    <3> QED
      BY <2>1, <2>3, <3>3, <3>4, OwnStep DEF p, RequestInv
  <2> QED
    BY <1>6, <2>2, <2>3 DEF TellId
<1>7. ASSUME NEW r \in Requests, TellTeams(r) PROVE Goal
  <2> DEFINE q == req[r]
             teams == users[q.id].teams
             p == [q EXCEPT !.pc = "toldTeams", !.id = "", !.groups = teams]
  <2>1. q.pc = "askTeams" /\ Becomes(r, p) /\ UNCHANGED <<users, ended, accounts, settings>>
    BY <1>7 DEF TellTeams
  <2>2. /\ p.pc = "toldTeams" /\ p.groups = teams /\ p.call = q.call /\ p.token = q.token /\ p.wanted = q.wanted
        /\ p.age = q.age /\ p.user = q.user /\ p.owner = q.owner
    BY <1>0 DEF Request
  <2>3. WereTeamsOf(q.owner, teams, q.age)
    BY <1>0, <2>1 DEF RequestInv, GroupsInv, WereTeamsOf, WasIn
  <2> HIDE DEF p, teams
  <2>4. PlaceInv(p) /\ UserInv(p)
    BY <1>0, <2>1, <2>2 DEF RequestInv, PlaceInv, UserInv, HasUser, OfAUser
  <2>5. GroupsInv(p) /\ AccountInv(p)
    BY <1>0, <2>1, <2>2, <2>3 DEF RequestInv, GroupsInv, NeedsOwner, HasGroups, AccountInv, OfAUser
  <2> QED
    BY <2>1, <2>4, <2>5, OwnStep DEF RequestInv
<1>8. ASSUME NEW r \in Requests, KeepGroups(r) PROVE Goal
  <2> DEFINE q == req[r]
             p == [q EXCEPT !.pc = "act"]
  <2>1. q.pc = "toldTeams" /\ Becomes(r, p) /\ UNCHANGED <<users, ended, accounts, settings>>
    BY <1>8 DEF KeepGroups
  <2>2. /\ p.pc = "act" /\ p.groups = q.groups /\ p.call = q.call /\ p.token = q.token /\ p.wanted = q.wanted
        /\ p.age = q.age /\ p.user = q.user /\ p.owner = q.owner
    BY <1>0 DEF Request
  <2>3. WereTeamsOf(q.owner, q.groups, q.age + Window)
    <3>2. WereTeamsOf(q.owner, q.groups, q.age)
      BY <1>0, <2>1 DEF RequestInv, GroupsInv
    <3>3. q.age \in Nat /\ q.age + Window \in Nat /\ q.age <= q.age + Window
      BY <1>0, RequestTypes, DurationsAssumption DEF Window
    <3> QED
      BY <3>2, <3>3, LongerAgoTeams
  <2> HIDE DEF p
  <2>4. PlaceInv(p) /\ UserInv(p)
    BY <1>0, <2>1, <2>2 DEF RequestInv, PlaceInv, UserInv, HasUser, OfAUser
  <2>5. GroupsInv(p) /\ AccountInv(p)
    BY <1>0, <2>1, <2>2, <2>3 DEF RequestInv, GroupsInv, NeedsOwner, HasGroups, AccountInv, OfAUser
  <2> QED
    BY <2>1, <2>4, <2>5, OwnStep DEF RequestInv
<1>9. ASSUME NEW r \in Requests, Search(r) PROVE Goal
  <2> DEFINE q == req[r]
  <2>1. q.pc = "search" /\ q.user \in Accounts /\ UNCHANGED <<users, ended, accounts, settings>>
    BY <1>0, <1>9 DEF Search, RequestInv, AccountInv
  <2>2. ASSUME Becomes(r, [q EXCEPT !.pc = "createToken", !.account = q.user]) PROVE Goal
    <3> DEFINE p == [q EXCEPT !.pc = "createToken", !.account = q.user]
    <3>1. /\ p.pc = "createToken" /\ p.account = q.user /\ p.call = q.call /\ p.token = q.token
          /\ p.wanted = q.wanted /\ p.age = q.age /\ p.user = q.user /\ p.groups = q.groups
      BY <1>0 DEF Request
    <3> HIDE DEF p
    <3>2. RequestInv(p)
      BY <1>0, <2>1, <3>1 DEF RequestInv, PlaceInv, UserInv, GroupsInv, NeedsOwner, HasGroups, AccountInv, HasUser, OfAUser
    <3> QED
      BY <2>1, <2>2, <3>2, OwnStep DEF p
  <2>3. ASSUME NEW h \in BOOLEAN, Becomes(r, [q EXCEPT !.pc = "create", !.hidden = h]),
               h => Cardinality(Matches(q.user)) > Page
        PROVE  Goal
    <3> DEFINE p == [q EXCEPT !.pc = "create", !.hidden = h]
    <3>1. /\ p.pc = "create" /\ p.hidden = h /\ p.call = q.call /\ p.token = q.token
          /\ p.wanted = q.wanted /\ p.age = q.age /\ p.user = q.user /\ p.groups = q.groups
      BY <1>0 DEF Request
    <3> HIDE DEF p
    <3>2. RequestInv(p)
      BY <1>0, <2>1, <2>3, <3>1 DEF RequestInv, PlaceInv, UserInv, GroupsInv, NeedsOwner, HasGroups, AccountInv, HasUser, OfAUser
    <3> QED
      BY <2>1, <2>3, <3>2, OwnStep DEF p
  <2> QED
    BY <1>9, <2>1, <2>2, <2>3, SearchLemma
<1>10. ASSUME NEW r \in Requests, CreateServiceAccount(r) PROVE Goal
  <2> DEFINE q == req[r]
  <2>1. q.pc = "create" /\ UNCHANGED <<users, ended, settings>> /\ accounts \subseteq accounts'
    BY <1>10 DEF CreateServiceAccount
  <2>2. ASSUME Becomes(r, [q EXCEPT !.pc = "createToken", !.account = q.user]) PROVE Goal
    <3> DEFINE p == [q EXCEPT !.pc = "createToken", !.account = q.user]
    <3>1. /\ p.pc = "createToken" /\ p.account = q.user /\ p.call = q.call /\ p.token = q.token
          /\ p.wanted = q.wanted /\ p.age = q.age /\ p.user = q.user /\ p.groups = q.groups
      BY <1>0 DEF Request
    <3> HIDE DEF p
    <3>2. RequestInv(p)
      BY <1>0, <2>1, <3>1 DEF RequestInv, PlaceInv, UserInv, GroupsInv, NeedsOwner, HasGroups, AccountInv, HasUser, OfAUser
    <3> QED
      BY <2>1, <2>2, <3>2, OwnStep DEF p
  <2>3. ASSUME Becomes(r, [q EXCEPT !.pc = "exists"]) PROVE Goal
    <3> DEFINE p == [q EXCEPT !.pc = "exists"]
    <3>1. /\ p.pc = "exists" /\ p.hidden = q.hidden /\ p.call = q.call /\ p.token = q.token
          /\ p.wanted = q.wanted /\ p.age = q.age /\ p.user = q.user /\ p.groups = q.groups
      BY <1>0 DEF Request
    <3> HIDE DEF p
    <3>2. PlaceInv(p) /\ UserInv(p)
      BY <1>0, <2>1, <3>1 DEF RequestInv, PlaceInv, UserInv, HasUser, OfAUser
    <3>3. GroupsInv(p) /\ AccountInv(p)
      BY <1>0, <2>1, <3>1 DEF RequestInv, GroupsInv, NeedsOwner, HasGroups, AccountInv
    <3> QED
      BY <2>1, <2>3, <3>2, <3>3, OwnStep DEF p, RequestInv
  <2> QED
    BY <1>10, <2>2, <2>3 DEF CreateServiceAccount
<1>11. ASSUME NEW r \in Requests, CreateToken(r) \/ Fault(r) \/ Leave(r) PROVE Goal
  <2>1. Becomes(r, Idle) /\ UNCHANGED <<users, ended, accounts, settings>>
    BY <1>11 DEF CreateToken, Fault, Leave
  <2> QED
    BY <2>1, IdleInv, OwnStep
<1>12. ASSUME NEW c \in Changes, Change(c) PROVE Goal
  <2> TAKE s \in Requests
  <2>1. PICK q \in Request : q = req[s] /\ q = req'[s] /\ RequestInv(q)
    BY <1>0, <1>12 DEF Change
  <2>2. UNCHANGED <<accounts, settings>> /\ ended \subseteq ended'
    BY <1>12 DEF Change
  <2>3. q.age \in Nat /\ q.age + Window \in Nat
    BY RequestTypes, DurationsAssumption DEF Window
  <2>4. OfAUser(q) => q.token.id \in Users
    BY RequestTypes DEF OfAUser
  <2>5. PlaceInv(q)' /\ AccountInv(q)'
    BY <2>1, <2>2 DEF RequestInv, PlaceInv, AccountInv, OfAUser, Impersonates, Matches
  <2>6. UserInv(q)'
    <3>1. q.pc = "toldUser" /\ OfAUser(q) => WasCalled(q.token.id, q.told, q.age)'
      BY <1>12, <2>1, <2>3, <2>4, ChangeLemma DEF RequestInv, UserInv
    <3>2. HasUser(q) /\ OfAUser(q) /\ Impersonates => WasCalled(q.token.id, q.user, q.age + Window)'
      BY <1>12, <2>1, <2>3, <2>4, ChangeLemma DEF RequestInv, UserInv
    <3>3. Impersonates' = Impersonates
      BY <2>2 DEF Impersonates
    <3> QED
      BY <2>1, <3>1, <3>2, <3>3 DEF RequestInv, UserInv, HasUser, OfAUser, Window
  <2>7. GroupsInv(q)'
    <3>1. (NeedsOwner(q) \/ HasGroups(q)) /\ OfAUser(q) => WasCalled(q.token.id, q.owner, q.age + Window)'
      BY <1>12, <2>1, <2>3, <2>4, ChangeLemma DEF RequestInv, GroupsInv
    <3>2. q.pc = "askTeams" => WasCalled(q.id, q.owner, q.age)'
      BY <1>12, <2>1, <2>3, ChangeLemma DEF RequestInv, GroupsInv
    <3>3. q.pc = "toldTeams" => WereTeamsOf(q.owner, q.groups, q.age)'
      BY <1>12, <2>1, <2>3, TeamsLemma DEF RequestInv, GroupsInv
    <3>4. HasGroups(q) => WereTeamsOf(q.owner, q.groups, q.age + Window)'
      BY <1>12, <2>1, <2>3, TeamsLemma DEF RequestInv, GroupsInv
    <3>5. HasGroups(q)' = HasGroups(q) /\ NeedsOwner(q)' = NeedsOwner(q)
      BY <2>2 DEF HasGroups, NeedsOwner
    <3> QED
      BY <2>1, <2>2, <3>1, <3>2, <3>3, <3>4, <3>5 DEF RequestInv, GroupsInv, OfAUser, Window
  <2> QED
    BY <2>1, <2>5, <2>6, <2>7, Now DEF RequestInv
<1>13. CASE Tick
  <2> TAKE s \in Requests
  <2>1. PICK q \in Request : q = req[s] /\ RequestInv(q)
    BY <1>0
  <2>2. UNCHANGED <<users, accounts, settings>> /\ q.pc \notin Over
    BY <1>13, <2>1 DEF Tick
  <2>3. CASE q.pc = "idle"
    <3>1. req'[s] = q
      BY <1>13, <2>1, <2>3 DEF Tick
    <3>2. RequestInv(q)'
      BY <2>1, <2>2, <2>3 DEF RequestInv, PlaceInv, UserInv, GroupsInv, NeedsOwner, HasGroups, AccountInv, HasUser, OfAUser, Impersonates
    <3> QED
      BY <3>1, <3>2, Now
  <2>4. CASE q.pc # "idle"
    <3> DEFINE n == [q EXCEPT !.age = q.age + 1]
    <3>1. PICK p : p = n /\ p = req'[s]
      BY <1>13, <2>1, <2>4 DEF Tick
    <3>2. /\ p.pc = q.pc /\ p.call = q.call /\ p.token = q.token /\ p.wanted = q.wanted /\ p.age = q.age + 1
          /\ p.user = q.user /\ p.told = q.told /\ p.owner = q.owner /\ p.id = q.id /\ p.groups = q.groups
          /\ p.account = q.account /\ p.hidden = q.hidden
      BY <3>1 DEF Request
    <3> HIDE DEF n
    <3>3. /\ q.age \in Nat /\ q.age + Window \in Nat /\ p.age + Window = (q.age + Window) + 1
      BY <3>2, RequestTypes, DurationsAssumption DEF Window
    <3>4. OfAUser(q) => q.token.id \in Users
      BY RequestTypes DEF OfAUser
    <3>5. PlaceInv(p)' /\ AccountInv(p)'
      BY <2>1, <2>2, <3>2 DEF RequestInv, PlaceInv, AccountInv, OfAUser, Impersonates, Matches
    <3>6. UserInv(p)'
      <4>1. q.pc = "toldUser" /\ OfAUser(q) => WasCalled(q.token.id, q.told, q.age + 1)'
        BY <1>13, <2>1, <3>3, <3>4, TickLemma DEF RequestInv, UserInv
      <4>2. HasUser(q) /\ OfAUser(q) /\ Impersonates => WasCalled(q.token.id, q.user, (q.age + Window) + 1)'
        BY <1>13, <2>1, <3>3, <3>4, TickLemma DEF RequestInv, UserInv
      <4>3. Impersonates' = Impersonates
        BY <2>2 DEF Impersonates
      <4>4. q.pc = "toldUser" => (OfAUser(q) => q.told \in Logins) /\ (~OfAUser(q) => q.told = q.token.id)
        BY <2>1 DEF RequestInv, UserInv
      <4>5. /\ HasUser(q) /\ ~OfAUser(q) => q.user = IF Impersonates THEN q.token.id ELSE ""
            /\ HasUser(q) /\ OfAUser(q) /\ ~Impersonates => q.user = IF q.wanted = "kubeconfig" THEN "admin" ELSE ""
        BY <2>1 DEF RequestInv, UserInv
      <4> QED
        BY <3>2, <3>3, <4>1, <4>2, <4>3, <4>4, <4>5 DEF UserInv, HasUser, OfAUser, Window
    <3>7. GroupsInv(p)'
      <4>1. NeedsOwner(q) /\ OfAUser(q) => WasCalled(q.token.id, q.owner, (q.age + Window) + 1)'
        BY <1>13, <2>1, <3>3, <3>4, TickLemma DEF RequestInv, GroupsInv
      <4>2. q.pc = "askTeams" => q.id \in Users /\ WasCalled(q.id, q.owner, q.age + 1)'
        BY <1>13, <2>1, <3>3, TickLemma DEF RequestInv, GroupsInv
      <4>3. q.pc = "toldTeams" => WereTeamsOf(q.owner, q.groups, q.age + 1)'
        BY <1>13, <2>1, <3>3, TeamsLemma DEF RequestInv, GroupsInv
      <4>4. q.pc # "act" /\ q.pc # "notFound"
        BY <2>2 DEF Over
      <4>5. NeedsOwner(q) => q.owner \in Accounts
        BY <2>1 DEF RequestInv, GroupsInv
      <4> QED
        BY <3>2, <3>3, <4>1, <4>2, <4>3, <4>4, <4>5 DEF GroupsInv, NeedsOwner, HasGroups, OfAUser, Window
    <3> QED
      BY <3>1, <3>5, <3>6, <3>7, Now DEF RequestInv
  <2> QED
    BY <2>3, <2>4
<1>14. CASE UNCHANGED vars
  <2> TAKE s \in Requests
  <2>1. PICK q \in Request : q = req[s] /\ q = req'[s] /\ RequestInv(q)
    BY <1>0, <1>14 DEF vars
  <2>2. UNCHANGED <<users, ended, accounts, settings>> /\ IsFiniteSet(accounts')
    BY <1>14 DEF vars, TypeOK
  <2> QED
    BY <2>1, <2>2, Undisturbed, Now
<1> QED
  BY <1>1, <1>2, <1>3, <1>4, <1>5, <1>6, <1>7, <1>8, <1>9, <1>10, <1>11, <1>12, <1>13, <1>14 DEF Next

LEMMA StepTokens ==
  ASSUME TypeOK, TokenInv, \A r \in Requests : RequestInv(req[r]), [Next]_vars
  PROVE  TokenInv'
<1>0. \A t \in tokens : t.user \in Users /\ NamesOf(t.user) \subseteq NamesOf(t.user)'
  BY NamesStay DEF TypeOK
<1>1. CASE UNCHANGED <<tokens, settings>>
  BY <1>0, <1>1 DEF TokenInv, Impersonates
<1>2. ASSUME NEW r \in Requests, CreateToken(r) PROVE TokenInv'
  <2> DEFINE q == req[r]
             t == [account |-> q.account, user |-> q.token.id]
  <2>1. /\ q \in Request /\ q.pc = "createToken" /\ UNCHANGED <<users, ended, settings>>
        /\ tokens' = tokens \cup {t}
    BY <1>2 DEF CreateToken, TypeOK, At
  <2>2. q.account = q.user /\ OfAUser(q) /\ q.wanted = "kubeconfig" /\ q.token.id \in Users
    BY <2>1, RequestTypes DEF RequestInv, PlaceInv, AccountInv, OfAUser
  <2>3. IF Impersonates THEN WasCalled(q.token.id, q.user, q.age + Window) ELSE q.user = "admin"
    BY <2>1, <2>2 DEF RequestInv, UserInv, HasUser
  <2>4. t.account \in IF Impersonates THEN NamesOf(t.user) ELSE {"admin"}
    BY <2>2, <2>3, CalledByName
  <2> QED
    BY <2>1, <2>4 DEF TokenInv, Impersonates, NamesOf
<1> QED
  BY <1>1, <1>2 DEF Next, vars, inGrafana, caches, Ask, GetImpersonateUser, GetUser, TellUser, KeepUser, GetGroups,
     TellId, TellTeams, KeepGroups, Search, CreateServiceAccount, Fault, Leave, Change, Tick

-----------------------------------------------------------------------------
THEOREM Invariance == Spec => []IInv
<1>1. Init => IInv
  <2> SUFFICES ASSUME Init PROVE IInv
    OBVIOUS
  <2>1. \A r \in Requests : req[r] = Idle
    BY DEF Init
  <2>2. \A r \in Requests : RequestInv(req[r])
    BY <2>1, IdleInv
  <2>3. [k \in {} |-> {}] \in Caches(Users, Logins) \cap Caches(Accounts, Accounts) \cap Caches(Accounts, SUBSET Teams)
    <3> DEFINE empty == [k \in {} |-> {}]
    <3>1. \A V : empty \in [{} -> [value : V, left : 0..TTL]]
      OBVIOUS
    <3> HIDE DEF empty
    <3> QED
      BY <3>1 DEF Caches
  <2>4. TypeOK
    <3>1. req \in [Requests -> Request]
      BY IdleLemma DEF Init
    <3>2. users \in [Users -> Persons] /\ settings \in Settings
      BY UsersAssumption DEF Init
    <3>3. settings \in [impersonateUser : BOOLEAN, impersonateGroups : BOOLEAN, generateKubeconfig : BOOLEAN]
      BY <3>2, SettingsAssumption
    <3> QED
      BY <2>3, <3>1, <3>2, <3>3, FS_EmptySet DEF Init, TypeOK
  <2>5. CacheInv /\ TokenInv
    BY DEF Init, CacheInv, TokenInv
  <2> QED
    BY <2>2, <2>4, <2>5 DEF IInv
<1>2. IInv /\ [Next]_vars => IInv'
  <2> SUFFICES ASSUME IInv, [Next]_vars PROVE IInv'
    OBVIOUS
  <2>1. TypeOK'
    BY StepTypes DEF IInv
  <2>2. CacheInv' /\ TokenInv'
    BY <2>1, StepCaches, StepTokens DEF IInv
  <2>3. \A r \in Requests : RequestInv(req[r])'
    BY <2>1, StepRequests DEF IInv
  <2> QED
    BY <2>1, <2>2, <2>3 DEF IInv
<1> QED
  BY <1>1, <1>2, PTL DEF Spec

(* A request runs in the cluster as a user that its user was, and with groups that *)
(* were those of this name, not longer ago than an entry of a cache and a request   *)
(* last, also when names pass from one user to another.                             *)
THEOREM IdentityIsRecent == Spec => []RecentIdentity
<1>1. IInv => RecentIdentity
  <2> DEFINE since(q) == q.age + Window
  <2> SUFFICES ASSUME IInv, NEW r \in Requests, At(r, "act"), IsUser(r)
               PROVE  /\ IF Impersonates THEN WasCalled(req[r].token.id, req[r].user, since(req[r]))
                         ELSE req[r].user = ""
                      /\ IF settings.impersonateGroups
                         THEN /\ WasCalled(req[r].token.id, req[r].owner, since(req[r]))
                              /\ WereTeamsOf(req[r].owner, req[r].groups, since(req[r]))
                         ELSE req[r].groups = {}
    BY DEF RecentIdentity
  <2>1. PlaceInv(req[r]) /\ UserInv(req[r]) /\ GroupsInv(req[r]) /\ req[r].call \in {"user", "groups"}
    BY DEF IInv, RequestInv, TypeOK, Request
  <2> QED
    BY <2>1 DEF PlaceInv, UserInv, GroupsInv, HasGroups, HasUser, OfAUser, At, IsUser
<1> QED
  BY <1>1, Invariance, PTL

(* A token that was created for a user belongs to its service account, and what *)
(* is done with it is done as this user.                                           *)
THEOREM TokensAreOfTheirUsers == Spec => []TokensActAsTheirUsers
<1>1. IInv => TokensActAsTheirUsers
  BY DEF IInv, TokenInv, TokensActAsTheirUsers, RequestInv, UserInv, HasUser, OfAUser, At, IsUser
<1> QED
  BY <1>1, Invariance, PTL

(* Grafana refuses a request of a user only if its name has changed, or another *)
(* request was faster, or too many service accounts match.                        *)
THEOREM RefusalsHaveReasons == Spec => []RefusedForAReason
<1>1. IInv => RefusedForAReason
  BY DEF IInv, RefusedForAReason, RequestInv, GroupsInv, AccountInv, OfAUser, At, IsUser
<1> QED
  BY <1>1, Invariance, PTL
=============================================================================
