-------------------------- MODULE GrafanaIdentity ---------------------------
(***************************************************************************)
(* For whom a request is made: the user and the groups that the plugin    *)
(* impersonates in the cluster, from the token of the request, the API of *)
(* Grafana and the caches of pkg/grafana/client.go; and the tokens that   *)
(* it creates for a kubeconfig, which belong to a service account of the  *)
(* user.  Several requests run at the same time, the answers of Grafana   *)
(* arrive late or not at all, and users are renamed and change teams.     *)
(***************************************************************************)
EXTENDS Integers, FiniteSets

CONSTANTS
  Requests,
  Users,          \* the ids of the users of Grafana
  Logins, Teams,
  Beginning,      \* for every user: [login, teams] at first
  Changes,        \* what happens to them: [user, becomes]
  Containing,     \* the logins that a search for a login matches
  Page,           \* how many matches the first page of a search has (100)
  Size,           \* the entries of a cache (100)
  TTL,            \* how long an entry is valid (60 minutes)
  Slow,           \* bound: a request ends within this time
  Settings,       \* the values of [impersonateUser, impersonateGroups, generateKubeconfig]
  MaxChanges, MaxTokens      \* bounds

Accounts == Logins \cup {"admin"}
Persons == [login : Logins, teams : SUBSET Teams]

ASSUME DurationsAssumption == TTL \in Nat /\ Slow \in Nat
ASSUME PageAssumption == Page \in Nat /\ Size \in Nat \ {0}
ASSUME UsersAssumption ==
  /\ "" \notin Logins
  /\ Beginning \in [Users -> Persons]
  /\ Changes \subseteq [user : Users, becomes : Persons]
  /\ \A u, v \in Users : u # v => Beginning[u].login # Beginning[v].login
ASSUME ContainingAssumption ==
  \A l \in Accounts : l \in Containing[l]
ASSUME SettingsAssumption ==
  Settings \subseteq [impersonateUser : BOOLEAN, impersonateGroups : BOOLEAN, generateKubeconfig : BOOLEAN]

VARIABLES
  users,        \* in Grafana: the [login, teams] of every user
  ended,        \* what they were before, and how long ago that ended: [user, login, teams, ago]
  accounts,     \* the logins that have a service account
  tokens,       \* those that were created: [account, user]
  usersCache, serviceAccountsCache, groupsCache,
  settings,
  req           \* the requests

inGrafana == <<users, ended, accounts, tokens>>
caches == <<usersCache, serviceAccountsCache, groupsCache>>
vars == <<inGrafana, caches, settings, req>>

-----------------------------------------------------------------------------
(* An expirable LRU cache.  Which entry has not been used for longest is not *)
(* followed: any other one may have to go for an entry that is added.          *)
Hit(cache, key) == key \in DOMAIN cache
Get(cache, key) == cache[key].value
(* Faulty: an entry that is used is valid for longer. *)
UsedAnew(cache, key) == [cache EXCEPT ![key].left = TTL]
Used(cache, key) == cache
Added(cache, key, value) ==
  LET entry(k) == IF k = key THEN [value |-> value, left |-> TTL] ELSE cache[k]
      keys == DOMAIN cache \cup {key}
  IN {[k \in ks |-> entry(k)] : ks \in IF Cardinality(keys) > Size THEN {keys \ {k} : k \in keys \ {key}}
                                       ELSE {keys}}
(* Faulty: an entry stays until another one needs its place. *)
NotAged(cache) == cache
Aged(cache) ==
  [k \in {j \in DOMAIN cache : cache[j].left > 0} |-> [value |-> cache[k].value, left |-> cache[k].left - 1]]

-----------------------------------------------------------------------------
Nobody == [type |-> "none", id |-> ""]
Idle == [pc |-> "idle", call |-> "user", token |-> Nobody, wanted |-> "", age |-> 0, user |-> "", told |-> "",
         owner |-> "", id |-> "", groups |-> {}, account |-> "", hidden |-> FALSE]

Init ==
  /\ users = Beginning
  /\ ended = {} /\ accounts = {} /\ tokens = {}
  /\ usersCache = [k \in {} |-> {}] /\ serviceAccountsCache = [k \in {} |-> {}] /\ groupsCache = [k \in {} |-> {}]
  /\ settings \in Settings
  /\ req = [r \in Requests |-> Idle]

At(r, pc) == req[r].pc = pc
Becomes(r, q) == req' = [req EXCEPT ![r] = q]
Impersonates == settings.impersonateUser \/ settings.impersonateGroups

(* GetImpersonateUser or getUser has returned.  A kubeconfig is for that user or *)
(* for admin; any other request needs the groups, and getUser is called again.     *)
Returned(q, login) ==
  CASE q.call = "groups" -> [q EXCEPT !.pc = "groups", !.told = "", !.owner = login]
    [] q.call = "user" /\ q.wanted = "kubeconfig" ->
         [q EXCEPT !.pc = "search", !.told = "", !.user = IF login = "" THEN "admin" ELSE login]
    [] q.call = "user" /\ q.wanted # "kubeconfig" /\ settings.impersonateGroups ->
         [q EXCEPT !.pc = "getUser", !.told = "", !.user = login, !.call = "groups"]
    [] OTHER -> [q EXCEPT !.pc = "act", !.told = "", !.user = login]

(* The token of a request is one of a user who is signed in, or of a service *)
(* account, which is for a kubeconfig and has been created for a user.         *)
GetImpersonateUser(r, token, wanted) ==
  LET q == [Idle EXCEPT !.pc = "getUser", !.token = token, !.wanted = wanted]
  IN /\ At(r, "idle")
     /\ Becomes(r, IF Impersonates THEN q ELSE Returned(q, ""))
     /\ UNCHANGED <<inGrafana, caches, settings>>

-----------------------------------------------------------------------------
(* getUser: from one of the two caches, or from Grafana. *)
IsUser(r) == req[r].token.type = "user"

GetUser(r) ==
  LET id == req[r].token.id
      cache == IF IsUser(r) THEN usersCache ELSE serviceAccountsCache
  IN /\ At(r, "getUser")
     /\ IF Hit(cache, id)
        THEN /\ Becomes(r, Returned(req[r], Get(cache, id)))
             /\ usersCache' = IF IsUser(r) THEN Used(usersCache, id) ELSE usersCache
             /\ serviceAccountsCache' = IF IsUser(r) THEN serviceAccountsCache ELSE Used(serviceAccountsCache, id)
        ELSE Becomes(r, [req[r] EXCEPT !.pc = "askUser"]) /\ UNCHANGED <<usersCache, serviceAccountsCache>>
     /\ UNCHANGED <<inGrafana, groupsCache, settings>>

(* Grafana answers; the name of a service account is its login after the prefix. *)
TellUser(r) ==
  /\ At(r, "askUser")
  /\ Becomes(r, [req[r] EXCEPT !.pc = "toldUser",
                               !.told = IF IsUser(r) THEN users[req[r].token.id].login ELSE req[r].token.id])
  /\ UNCHANGED <<inGrafana, caches, settings>>

KeepUser(r) ==
  LET id == req[r].token.id
      told == req[r].told
  IN /\ At(r, "toldUser")
     /\ Becomes(r, Returned(req[r], told))
     /\ IF IsUser(r) THEN usersCache' \in Added(usersCache, id, told) /\ UNCHANGED serviceAccountsCache
        ELSE serviceAccountsCache' \in Added(serviceAccountsCache, id, told) /\ UNCHANGED usersCache
     /\ UNCHANGED <<inGrafana, groupsCache, settings>>

-----------------------------------------------------------------------------
(* The rest of GetImpersonateGroups: from the cache, or the teams of the user *)
(* that has the login now.                                                       *)
GetGroups(r) ==
  LET owner == req[r].owner
  IN /\ At(r, "groups")
     /\ IF Hit(groupsCache, owner)
        THEN /\ Becomes(r, [req[r] EXCEPT !.pc = "act", !.groups = Get(groupsCache, owner)])
             /\ groupsCache' = Used(groupsCache, owner)
        ELSE Becomes(r, [req[r] EXCEPT !.pc = "askId"]) /\ UNCHANGED groupsCache
     /\ UNCHANGED <<inGrafana, usersCache, serviceAccountsCache, settings>>

TellId(r) ==
  /\ At(r, "askId")
  /\ \/ \E u \in Users : /\ users[u].login = req[r].owner
                         /\ Becomes(r, [req[r] EXCEPT !.pc = "askTeams", !.id = u])
     \/ /\ \A u \in Users : users[u].login # req[r].owner
        /\ Becomes(r, [req[r] EXCEPT !.pc = "notFound"])
  /\ UNCHANGED <<inGrafana, caches, settings>>

TellTeams(r) ==
  /\ At(r, "askTeams")
  /\ Becomes(r, [req[r] EXCEPT !.pc = "toldTeams", !.id = "", !.groups = users[req[r].id].teams])
  /\ UNCHANGED <<inGrafana, caches, settings>>

KeepGroups(r) ==
  /\ At(r, "toldTeams")
  /\ Becomes(r, [req[r] EXCEPT !.pc = "act"])
  /\ groupsCache' \in Added(groupsCache, req[r].owner, req[r].groups)
  /\ UNCHANGED <<inGrafana, usersCache, serviceAccountsCache, settings>>

-----------------------------------------------------------------------------
(* CreateUserToken: getServiceAccount takes the one of that name from the first *)
(* page of the matches, or creates it; Grafana has each name only once.            *)
Matches(l) == accounts \cap Containing[l]
FirstPage(l) ==
  {S \in SUBSET Matches(l) :
     Cardinality(S) = IF Cardinality(Matches(l)) > Page THEN Page ELSE Cardinality(Matches(l))}

(* Faulty: any match is taken for the service account. *)
AnyOf(l, found) == found
OfName(l, found) == found \cap {l}

Search(r) ==
  LET user == req[r].user
  IN /\ At(r, "search")
     /\ \E found \in FirstPage(user) :
          \/ \E a \in OfName(user, found) : Becomes(r, [req[r] EXCEPT !.pc = "createToken", !.account = a])
          \/ /\ OfName(user, found) = {}
             /\ Becomes(r, [req[r] EXCEPT !.pc = "create", !.hidden = (user \in accounts)])
     /\ UNCHANGED <<inGrafana, caches, settings>>

CreateServiceAccount(r) ==
  LET user == req[r].user
  IN /\ At(r, "create")
     /\ accounts' = accounts \cup {user}
     /\ Becomes(r, IF user \in accounts THEN [req[r] EXCEPT !.pc = "exists"]
                   ELSE [req[r] EXCEPT !.pc = "createToken", !.account = user])
     /\ UNCHANGED <<users, ended, tokens, caches, settings>>

CreateToken(r) ==
  /\ At(r, "createToken")
  /\ tokens' = tokens \cup {[account |-> req[r].account, user |-> req[r].token.id]}
  /\ Becomes(r, Idle)
  /\ UNCHANGED <<users, ended, accounts, caches, settings>>

(* A call of the API of Grafana fails. *)
Fault(r) ==
  /\ req[r].pc \in {"askUser", "askId", "askTeams", "search", "create", "createToken"}
  /\ Becomes(r, Idle)
  /\ UNCHANGED <<inGrafana, caches, settings>>

(* The request is answered, after what it does in the cluster or with an error. *)
Over == {"act", "notFound", "exists"}
Leave(r) ==
  /\ req[r].pc \in Over
  /\ Becomes(r, Idle)
  /\ UNCHANGED <<inGrafana, caches, settings>>

-----------------------------------------------------------------------------
(* A user is renamed, maybe to a name that another user had before, or changes  *)
(* teams; and time passes, of which a request, a cache and what has ended know   *)
(* how much it is for them.                                                         *)
Change(c) ==
  /\ Cardinality(ended) < MaxChanges
  /\ users[c.user] # c.becomes
  /\ \A v \in Users \ {c.user} : users[v].login # c.becomes.login
  /\ ended' = ended \cup {[user |-> c.user, login |-> users[c.user].login, teams |-> users[c.user].teams, ago |-> 0]}
  /\ users' = [users EXCEPT ![c.user] = c.becomes]
  /\ UNCHANGED <<accounts, tokens, caches, settings, req>>

Window == TTL + Slow
Older(ago) == IF ago > Window + Slow THEN ago ELSE ago + 1      \* longer ago makes no difference

Tick ==
  /\ \A r \in Requests : req[r].pc \notin Over /\ (~At(r, "idle") => req[r].age < Slow)
  /\ req' = [r \in Requests |-> IF At(r, "idle") THEN req[r] ELSE [req[r] EXCEPT !.age = @ + 1]]
  /\ ended' = {[e EXCEPT !.ago = Older(@)] : e \in ended}
  /\ usersCache' = Aged(usersCache)
  /\ serviceAccountsCache' = Aged(serviceAccountsCache)
  /\ groupsCache' = Aged(groupsCache)
  /\ UNCHANGED <<users, accounts, tokens, settings>>

-----------------------------------------------------------------------------
OfUser(u) == [type |-> "user", id |-> u]
OfAccount(t) == [type |-> "service-account", id |-> t.account]

Ask(r) ==
  \/ \E u \in Users : GetImpersonateUser(r, OfUser(u), "resources")
  \/ \E u \in Users :
       /\ settings.generateKubeconfig /\ Cardinality(tokens) < MaxTokens
       /\ GetImpersonateUser(r, OfUser(u), "kubeconfig")
  \/ \E t \in tokens : GetImpersonateUser(r, OfAccount(t), "resources")

Next ==
  \/ \E r \in Requests :
       \/ Ask(r) \/ GetUser(r) \/ TellUser(r) \/ KeepUser(r)
       \/ GetGroups(r) \/ TellId(r) \/ TellTeams(r) \/ KeepGroups(r)
       \/ Search(r) \/ CreateServiceAccount(r) \/ CreateToken(r) \/ Fault(r) \/ Leave(r)
  \/ \E c \in Changes : Change(c)
  \/ Tick

Spec == Init /\ [][Next]_vars

-----------------------------------------------------------------------------
(* What a user is or was until some time ago, the teams of somebody who had a     *)
(* login in that time, and the names that a user has had.                         *)
WasCalled(u, l, ago) ==
  users[u].login = l \/ \E e \in ended : e.user = u /\ e.login = l /\ e.ago <= ago
WasIn(u, ts, ago) ==
  users[u].teams = ts \/ \E e \in ended : e.user = u /\ e.teams = ts /\ e.ago <= ago
WereTeamsOf(l, ts, ago) == \E u \in Users : WasCalled(u, l, ago) /\ WasIn(u, ts, ago)
NamesOf(u) == {users[u].login} \cup {e.login : e \in {d \in ended : d.user = u}}

(* A request of a user runs in the cluster as a user that it was, and with groups *)
(* that were those of this name, not longer ago than an entry is valid and a      *)
(* request lasts: not with an answer that a cache kept for longer or that was     *)
(* given again by a slow request.  The groups are asked for and kept by the login *)
(* (client.go:282-289, 325), so they are those of the user unless its login has   *)
(* changed hands in that time: then they may be those of the other one that had   *)
(* it.  Without impersonation it runs as nobody.                                  *)
RecentIdentity ==
  \A r \in Requests :
    LET q == req[r]
        since == q.age + Window
    IN At(r, "act") /\ IsUser(r) =>
         /\ IF Impersonates THEN WasCalled(q.token.id, q.user, since) ELSE q.user = ""
         /\ IF settings.impersonateGroups
            THEN WasCalled(q.token.id, q.owner, since) /\ WereTeamsOf(q.owner, q.groups, since)
            ELSE q.groups = {}

(* A token for a kubeconfig belongs to the service account of a name that the     *)
(* user who asked for it has or had, and what is done with the token is done      *)
(* under that name, whoever has it by then: the prefix that CreateUserToken puts  *)
(* before the name is the one that getUserByServiceAccountId takes away.          *)
TokensActAsTheirUsers ==
  /\ \A t \in tokens : t.account \in IF Impersonates THEN NamesOf(t.user) ELSE {"admin"}
  /\ \A r \in Requests :
       At(r, "act") /\ ~IsUser(r) => req[r].user = IF Impersonates THEN req[r].token.id ELSE ""

(* Grafana refuses nothing that the plugin asks of it for a user, except when the *)
(* user was renamed while its old name is cached, and when a service account is    *)
(* created that another request has created meanwhile, or that is not on the first *)
(* page because there are too many matches.                                          *)
RefusedForAReason ==
  \A r \in Requests :
    /\ At(r, "notFound") /\ IsUser(r) =>
         \E e \in ended : /\ e.user = req[r].token.id /\ e.login = req[r].owner
                          /\ e.ago <= req[r].age + Window
    /\ At(r, "exists") /\ req[r].hidden => Cardinality(Matches(req[r].user)) > Page
=============================================================================
