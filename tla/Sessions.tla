------------------------------ MODULE Sessions ------------------------------
(***************************************************************************)
(* Refresh tokens in Redis: a key refresh:<hash> per token and a set       *)
(* user_sessions:<id> per account, both with a time to live, written by    *)
(* commands that other requests can come between.  Login, refresh, logout, *)
(* logout from all devices; the deletion of an account, which leaves the   *)
(* tokens of the account alone; and the saves that set a password, which   *)
(* insert the account again when it was deleted after they had loaded it.  *)
(*                                                                         *)
(* A token and its hash are one value.  Time to live is counted in days.   *)
(***************************************************************************)
EXTENDS Naturals

CONSTANTS
  Users,      \* ids of accounts
  Tokens,     \* the random strings the server draws
  Procs,      \* request handlers that may overlap
  TokenLife   \* REFRESH_EXPIRATION_IN_DAYS

ASSUME LifeAssumption == TokenLife \in Nat \ {0}

Never == TokenLife + 1     \* the time to live of a key without one

VARIABLES
  users,       \* accounts that exist
  holder,      \* holder[t]: the userId stored with token t, once drawn
  ttl,         \* ttl[t]: days refresh:<t> has left, 0 without the key
  sessions,    \* sessions[u]: the set user_sessions:<u>
  setTtl,      \* setTtl[u]: days that set has left, 0 without the key
  given,       \* tokens a client was given in its cookie
  access,      \* accounts a client holds a valid access token of
  mem,         \* mem[p]: where handler p is and what it has read
  revoked,     \* history: tokens a finished logout should have ended
  overlooked   \* history: tokens whose set went while a login, or a
               \* logout-all that had not read them, was under way

redisVars == <<holder, ttl, sessions, setTtl>>
historyVars == <<revoked, overlooked>>
vars == <<users, redisVars, given, access, mem, historyVars>>

Idle == [op |-> "idle", user |-> {}, tokens |-> {}, known |-> {}, lost |-> {}]

(* user and, for the handlers of one token, tokens are singletons.  known  *)
(* and lost are history: the tokens clients had when a logout-all began,   *)
(* and the account when it was deleted after the request had loaded it.    *)
Memory == [op : {"idle", "login", "set", "added", "refresh", "found", "password",
                 "logout", "members", "emptied"},
           user : SUBSET Users, tokens : SUBSET Tokens, known : SUBSET Tokens,
           lost : SUBSET Users]

(* Where a request holds the account it has loaded. *)
Holding == {"login", "set", "added", "found", "password"}

Drawn == DOMAIN holder
Live  == {t \in Tokens : ttl[t] > 0}
Of(u) == {t \in Drawn : holder[t] = u}

TypeOK ==
  /\ users \subseteq Users
  /\ Drawn \subseteq Tokens /\ \A t \in Drawn : holder[t] \in Users
  /\ ttl \in [Tokens -> 0 .. TokenLife]
  /\ sessions \in [Users -> SUBSET Tokens]
  /\ setTtl \in [Users -> 0 .. Never]
  /\ \A u \in Users : sessions[u] \subseteq Of(u) /\ (setTtl[u] = 0 <=> sessions[u] = {})
  /\ given \subseteq Drawn
  /\ access \subseteq Users
  /\ mem \in [Procs -> Memory]
  /\ revoked \subseteq Drawn /\ overlooked \subseteq Drawn

Init ==
  /\ users = Users
  /\ holder = [t \in {} |-> {}]
  /\ ttl = [t \in Tokens |-> 0]
  /\ sessions = [u \in Users |-> {}]
  /\ setTtl = [u \in Users |-> 0]
  /\ given = {} /\ access = {}
  /\ mem = [p \in Procs |-> Idle]
  /\ revoked = {} /\ overlooked = {}

Goes(p, op, u, tokens, known) ==
  mem' = [mem EXCEPT ![p] = [op |-> op, user |-> {u}, tokens |-> tokens,
                             known |-> known, lost |-> mem[p].lost]]
Ends(p) == mem' = [mem EXCEPT ![p] = Idle]

At(p, op, u) == mem[p].op = op /\ mem[p].user = {u}

-----------------------------------------------------------------------------
(* Login: the account is read and its password compared, then SET, SADD    *)
(* and EXPIRE, and the answer carries both tokens.                         *)

LoginReads(p, u) ==
  /\ mem[p] = Idle /\ u \in users
  /\ Goes(p, "login", u, {}, {})
  /\ UNCHANGED <<users, redisVars, given, access, historyVars>>

LoginSets(p, u, t) ==
  /\ At(p, "login", u) /\ t \notin Drawn
  /\ holder' = [x \in Drawn \cup {t} |-> IF x = t THEN u ELSE holder[x]]
  /\ ttl' = [ttl EXCEPT ![t] = TokenLife]
  /\ Goes(p, "set", u, {t}, {})
  /\ UNCHANGED <<users, sessions, setTtl, given, access, historyVars>>

(* SADD creates a set that has no time to live.                            *)
LoginAdds(p, u) ==
  /\ At(p, "set", u)
  /\ sessions' = [sessions EXCEPT ![u] = @ \cup mem[p].tokens]
  /\ setTtl' = [setTtl EXCEPT ![u] = IF sessions[u] = {} THEN Never ELSE @]
  /\ Goes(p, "added", u, mem[p].tokens, {})
  /\ UNCHANGED <<users, holder, ttl, given, access, historyVars>>

LoginEnds(p, u, days) ==
  /\ At(p, "added", u)
  /\ setTtl' = [setTtl EXCEPT ![u] = IF sessions[u] = {} THEN 0 ELSE days]
  /\ given' = given \cup mem[p].tokens
  /\ access' = access \cup {u}
  /\ Ends(p)
  /\ UNCHANGED <<users, holder, ttl, sessions, historyVars>>

(* Bugs: the set's time to live is set once only; or in a wrong unit. *)
LoginExpiresOnce(p, u) ==
  LoginEnds(p, u, IF setTtl[u] = Never THEN TokenLife ELSE setTtl[u])
LoginExpiresLater(p, u) == LoginEnds(p, u, 2 * Never)

(* EXPIRE does nothing when the set is gone.                               *)
LoginExpires(p, u) == LoginEnds(p, u, TokenLife)

-----------------------------------------------------------------------------
(* Refresh: the key is read, then the account; the access token is signed  *)
(* when the account has come back, whatever happened to it meanwhile.      *)

RefreshReads(p, t) ==
  /\ mem[p] = Idle /\ t \in given \cap Live
  /\ Goes(p, "refresh", holder[t], {t}, {})
  /\ UNCHANGED <<users, redisVars, given, access, historyVars>>

FindsAmong(p, u, accounts) ==
  /\ At(p, "refresh", u) /\ u \in accounts
  /\ Goes(p, "found", u, {}, {})
  /\ UNCHANGED <<users, redisVars, given, access, historyVars>>

(* Bug: the account of the token is not looked up. *)
RefreshFindsAnyone(p, u) == FindsAmong(p, u, Users)

RefreshFinds(p, u) == FindsAmong(p, u, users)

RefreshSigns(p, u) ==
  /\ At(p, "found", u)
  /\ access' = access \cup {u}
  /\ Ends(p)
  /\ UNCHANGED <<users, redisVars, given, historyVars>>

-----------------------------------------------------------------------------
(* An edit or a reset that sets a password: the account is loaded, and the *)
(* entity saved later.  save() inserts a row that is gone.                 *)

PasswordLoads(p, u) ==
  /\ mem[p] = Idle /\ u \in users
  /\ Goes(p, "password", u, {}, {})
  /\ UNCHANGED <<users, redisVars, given, access, historyVars>>

PasswordSaves(p, u) ==
  /\ At(p, "password", u)
  /\ users' = users \cup {u}
  /\ Ends(p)
  /\ UNCHANGED <<redisVars, given, access, historyVars>>

-----------------------------------------------------------------------------
(* Logout, with the account of the access token and the token of the       *)
(* cookie: the two need not belong together.                               *)

LogoutDeletes(p, u, t) ==
  /\ mem[p] = Idle /\ u \in access /\ t \in given
  /\ ttl' = [ttl EXCEPT ![t] = 0]
  /\ Goes(p, "logout", u, {t}, {})
  /\ UNCHANGED <<users, holder, sessions, setTtl, given, access, historyVars>>

(* Redis deletes a set with its last member.                               *)
LogoutRemoves(p, u) ==
  /\ At(p, "logout", u)
  /\ sessions' = [sessions EXCEPT ![u] = @ \ mem[p].tokens]
  /\ setTtl' = [setTtl EXCEPT
       ![u] = IF sessions[u] \subseteq mem[p].tokens THEN 0 ELSE @]
  /\ revoked' = revoked \cup mem[p].tokens
  /\ Ends(p)
  /\ UNCHANGED <<users, holder, ttl, given, access, overlooked>>

(* Logout from all devices: SMEMBERS, DEL of the keys, DEL of the set.     *)
LogoutAllReads(p, u) ==
  /\ mem[p] = Idle /\ u \in access
  /\ Goes(p, "members", u, sessions[u], given \cap Of(u))
  /\ UNCHANGED <<users, redisVars, given, access, historyVars>>

EmptiesSessions(p, u, keys) ==
  /\ At(p, "members", u) /\ mem[p].tokens # {}
  /\ ttl' = [t \in Tokens |-> IF t \in keys THEN 0 ELSE ttl[t]]
  /\ Goes(p, "emptied", u, mem[p].tokens, mem[p].known)
  /\ UNCHANGED <<users, holder, sessions, setTtl, given, access, historyVars>>

(* Bug: DEL of the hashes instead of the keys. *)
LogoutAllDeletesNothing(p, u) == EmptiesSessions(p, u, {})

LogoutAllDeletes(p, u) == EmptiesSessions(p, u, mem[p].tokens)

LogoutAllEnds(p, u) ==
  /\ \/ At(p, "emptied", u)
     \/ At(p, "members", u) /\ mem[p].tokens = {}
  /\ sessions' = [sessions EXCEPT ![u] = {}]
  /\ setTtl' = [setTtl EXCEPT ![u] = 0]
  /\ overlooked' = overlooked \cup (sessions[u] \ mem[p].tokens)
  /\ revoked' = revoked \cup (mem[p].known \ overlooked)
  /\ Ends(p)
  /\ UNCHANGED <<users, holder, ttl, given, access>>

-----------------------------------------------------------------------------
DeleteAccount(u) ==
  /\ u \in users
  /\ users' = users \ {u}
  /\ mem' = [p \in Procs |->
       IF mem[p].op \in Holding /\ mem[p].user = {u}
       THEN [mem[p] EXCEPT !.lost = {u}] ELSE mem[p]]
  /\ UNCHANGED <<redisVars, given, access, historyVars>>

(* The request throws, or the process stops.                               *)
Abort(p) ==
  /\ mem[p] # Idle
  /\ Ends(p)
  /\ UNCHANGED <<users, redisVars, given, access, historyVars>>

AccessExpires(u) ==
  /\ u \in access
  /\ access' = access \ {u}
  /\ UNCHANGED <<users, redisVars, given, mem, historyVars>>

Day(n) == IF n \in {0, Never} THEN n ELSE n - 1

(* A day passes in Redis.  A set that runs out takes the tokens with it    *)
(* that a login has added and not yet renewed it for.                      *)
Tick ==
  LET ended == {u \in Users : setTtl[u] = 1}
  IN /\ ttl' = [t \in Tokens |-> Day(ttl[t])]
     /\ setTtl' = [u \in Users |-> Day(setTtl[u])]
     /\ sessions' = [u \in Users |-> IF u \in ended THEN {} ELSE sessions[u]]
     /\ overlooked' = overlooked \cup
          UNION {mem[p].tokens : p \in {q \in Procs : \E u \in ended : At(q, "added", u)}}
     /\ UNCHANGED <<users, holder, given, access, mem, revoked>>

(* The endpoints a client calls. *)
LoginRequests(p)   == \E u \in Users : LoginReads(p, u)
RefreshRequests(p) == \E t \in Tokens : RefreshReads(p, t)
LogoutRequests(p)  == \E u \in Users, t \in Tokens : LogoutDeletes(p, u, t)
LogoutAllRequests(p) == \E u \in Users : LogoutAllReads(p, u)
PasswordRequests(p) == \E u \in Users : PasswordLoads(p, u)

Next ==
  \/ \E p \in Procs :
       \/ LoginRequests(p) \/ RefreshRequests(p)
       \/ LogoutRequests(p) \/ LogoutAllRequests(p) \/ PasswordRequests(p)
       \/ \E u \in Users :
            \/ \E t \in Tokens : LoginSets(p, u, t)
            \/ LoginAdds(p, u)
            \/ LoginExpires(p, u)
            \/ RefreshFinds(p, u)
            \/ RefreshSigns(p, u)
            \/ PasswordSaves(p, u)
            \/ LogoutRemoves(p, u)
            \/ LogoutAllDeletes(p, u)
            \/ LogoutAllEnds(p, u)
       \/ Abort(p)
  \/ \E u \in Users : DeleteAccount(u) \/ AccessExpires(u)
  \/ Tick

Spec == Init /\ [][Next]_vars

-----------------------------------------------------------------------------
(* Whatever token a client holds and the server accepts is in the set that *)
(* logout-all reads, for as long as it lives: every login renews the set   *)
(* for as long as its own token lasts.  The exception is the token of a    *)
(* login that a logout-all, or the end of the set, came in between.        *)
SessionsTracked ==
  \A t \in (given \cap Live) \ overlooked : t \in sessions[holder[t]]

(* A token that was in a client's hands before a logout, or before a       *)
(* logout-all that could see it, is never accepted after that ended,       *)
(* whatever logins and logouts of the account overlap with it.             *)
RevokedStaysRevoked == revoked \cap Live = {}

(* While an account is deleted, nobody gains access to it and no save      *)
(* brings it back, whatever tokens of it are still accepted, but by a      *)
(* request that had loaded the account before it was deleted.              *)
NoAccessAfterDeletion ==
  [][\A u \in Users \ users :
       u \in (access' \ access) \cup users' =>
         \E p \in Procs : mem'[p] = Idle /\ u \in mem[p].lost]_vars
=============================================================================
