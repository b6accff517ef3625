--------------------------- MODULE SessionsProofs ---------------------------
(* Theorems about Sessions for all accounts, tokens, handlers and times.   *)
EXTENDS Sessions, TLAPS

(* What a handler that is at m may rely on: its tokens are tokens of its   *)
(* account, those it deleted stay deleted, and the token of a login that   *)
(* was added is in the set unless it died or was overlooked.               *)
Fits(m, ho, tt, se, ov) ==
  /\ m.op # "idle" => \E u \in Users : m.user = {u}
  /\ m.tokens \cup m.known \subseteq DOMAIN ho
  /\ m.op \in {"set", "added", "refresh", "members", "emptied"} =>
       \A t \in m.tokens : m.user = {ho[t]}
  /\ m.op = "set" => m.tokens # {}
  /\ m.op \in {"logout", "emptied"} => \A t \in m.tokens : tt[t] = 0
  /\ m.op = "added" => \A u \in Users, t \in m.tokens :
       m.user = {u} => tt[t] = 0 \/ t \in ov \/ t \in se[u]
  /\ m.op \in {"members", "emptied"} => \A t \in m.known :
       t \in m.tokens \/ tt[t] = 0 \/ t \in ov

HandlersFit == \A p \in Procs : Fits(mem[p], holder, ttl, sessions, overlooked)

(* The set of an account outlives the tokens in clients' hands.            *)
SetsOutlive ==
  \A t \in given : \/ ttl[t] = 0
                   \/ t \in overlooked
                   \/ t \in sessions[holder[t]] /\ ttl[t] <= setTtl[holder[t]]

RevokedDead == \A t \in revoked : ttl[t] = 0

SessionInv == TypeOK /\ HandlersFit /\ SetsOutlive /\ RevokedDead

(* What no step undoes: tokens keep their account, dead ones stay dead.    *)
Lasting ==
  /\ \A t \in DOMAIN holder : /\ t \in DOMAIN holder' /\ holder'[t] = holder[t]
                              /\ ttl[t] = 0 => ttl'[t] = 0
  /\ overlooked \subseteq overlooked'

(* A live token leaves the set of its account only when it is overlooked.  *)
Staying ==
  \A u \in Users, t \in DOMAIN holder :
    \/ t \in sessions[u] => t \in sessions'[u]
    \/ ttl'[t] = 0
    \/ t \in overlooked'

-----------------------------------------------------------------------------
LEMMA FitsKept ==
  ASSUME NEW m, Fits(m, holder, ttl, sessions, overlooked), Lasting,
         \A u \in Users, t \in m.tokens :
           m.op = "added" /\ m.user = {u} /\ t \in sessions[u]
             => ttl'[t] = 0 \/ t \in overlooked' \/ t \in sessions'[u]
  PROVE  Fits(m, holder', ttl', sessions', overlooked')
  BY DEF Fits, Lasting

(* Other handlers still fit, and so does p where it goes next.             *)
LEMMA HandlersStep ==
  ASSUME SessionInv, Lasting, Staying, NEW p \in Procs, NEW m \in Memory,
         mem' = [mem EXCEPT ![p] = m],
         Fits(m, holder', ttl', sessions', overlooked')
  PROVE  mem' \in [Procs -> Memory] /\ HandlersFit'
<1>1. mem' \in [Procs -> Memory] /\ \A q \in Procs : mem'[q] = IF q = p THEN m ELSE mem[q]
  BY DEF SessionInv, TypeOK
<1>2. ASSUME NEW q \in Procs
      PROVE  Fits(mem[q], holder', ttl', sessions', overlooked')
  <2>1. Fits(mem[q], holder, ttl, sessions, overlooked) /\ mem[q].tokens \subseteq DOMAIN holder
    BY DEF SessionInv, HandlersFit, Fits
  <2>2. \A u \in Users, t \in mem[q].tokens :
          mem[q].op = "added" /\ mem[q].user = {u} /\ t \in sessions[u]
            => ttl'[t] = 0 \/ t \in overlooked' \/ t \in sessions'[u]
    BY <2>1 DEF Staying
  <2>. QED
    BY <2>1, <2>2, FitsKept
<1>3. \A q \in Procs : Fits(mem'[q], holder', ttl', sessions', overlooked')
  BY <1>1, <1>2
<1>. QED
  BY <1>1, <1>3 DEF HandlersFit

LEMMA IdleFits ==
  /\ Idle \in Memory
  /\ Fits(Idle, holder', ttl', sessions', overlooked')
  BY DEF Idle, Memory, Fits

(* Steps that only move a handler.                                         *)
LEMMA OnlyMem ==
  ASSUME SessionInv, NEW p \in Procs, NEW m \in Memory, mem' = [mem EXCEPT ![p] = m],
         Fits(m, holder, ttl, sessions, overlooked),
         UNCHANGED <<redisVars, given, historyVars>>,
         users' \subseteq Users, access' \subseteq Users
  PROVE  SessionInv'
<1>1. Lasting /\ Staying
  BY DEF Lasting, Staying, redisVars, historyVars
<1>2. Fits(m, holder', ttl', sessions', overlooked')
  BY DEF redisVars, historyVars
<1>3. mem' \in [Procs -> Memory] /\ HandlersFit'
  BY <1>1, <1>2, HandlersStep
<1>. QED
  BY <1>3 DEF SessionInv, TypeOK, SetsOutlive, RevokedDead, Drawn, Of, Never, redisVars, historyVars

(* Steps that move no handler and touch no token.                          *)
LEMMA OnlyAccounts ==
  ASSUME SessionInv, users' \subseteq Users, access' \subseteq Users,
         UNCHANGED <<redisVars, given, mem, historyVars>>
  PROVE  SessionInv'
<1>1. HandlersFit'
  BY DEF SessionInv, HandlersFit, redisVars, historyVars
<1>. QED
  BY <1>1 DEF SessionInv, TypeOK, SetsOutlive, RevokedDead, Drawn, Of, Never, redisVars, historyVars

-----------------------------------------------------------------------------
LEMMA SessionInit == Init => SessionInv
<1>. SUFFICES ASSUME Init PROVE SessionInv
  OBVIOUS
<1>1. TypeOK
  BY LifeAssumption DEF Init, TypeOK, Drawn, Of, Never, Idle, Memory
<1>2. HandlersFit
  BY DEF Init, HandlersFit, Fits, Idle
<1>. QED
  BY <1>1, <1>2 DEF Init, SessionInv, SetsOutlive, RevokedDead

LEMMA InvLoginReads ==
  ASSUME SessionInv, NEW p \in Procs, NEW u \in Users, LoginReads(p, u)
  PROVE  SessionInv'
<1>. DEFINE m == [op |-> "login", user |-> {u}, tokens |-> {}, known |-> {},
               lost |-> mem[p].lost]
<1>1. m \in Memory /\ Fits(m, holder, ttl, sessions, overlooked)
  BY DEF Memory, Fits, SessionInv, TypeOK
<1>2. mem' = [mem EXCEPT ![p] = m] /\ UNCHANGED <<redisVars, given, historyVars>>
      /\ users' \subseteq Users /\ access' \subseteq Users
  BY DEF LoginReads, Goes, SessionInv, TypeOK
<1>. HIDE DEF m
<1>. QED
  BY <1>1, <1>2, OnlyMem

LEMMA InvLoginSets ==
  ASSUME SessionInv, NEW p \in Procs, NEW u \in Users, NEW t \in Tokens, LoginSets(p, u, t)
  PROVE  SessionInv'
<1>. DEFINE m == [op |-> "set", user |-> {u}, tokens |-> {t}, known |-> {},
               lost |-> mem[p].lost]
<1>1. /\ Drawn' = Drawn \cup {t} /\ t \notin Drawn /\ holder'[t] = u
      /\ \A x \in Drawn : holder'[x] = holder[x]
      /\ ttl' \in [Tokens -> 0 .. TokenLife]
      /\ \A x \in Drawn : ttl'[x] = ttl[x]
  BY LifeAssumption DEF LoginSets, Drawn, SessionInv, TypeOK
<1>2. Lasting /\ Staying
  BY <1>1 DEF LoginSets, Lasting, Staying, historyVars, Drawn
<1>3. m \in Memory /\ Fits(m, holder', ttl', sessions', overlooked')
  BY <1>1 DEF Memory, Fits, SessionInv, TypeOK, Drawn
<1>4. mem' = [mem EXCEPT ![p] = m]
  BY DEF LoginSets, Goes
<1>. HIDE DEF m
<1>5. mem' \in [Procs -> Memory] /\ HandlersFit'
  BY <1>2, <1>3, <1>4, HandlersStep
<1>6. UNCHANGED <<users, sessions, setTtl, given, access, revoked, overlooked>>
  BY DEF LoginSets, historyVars
<1>7. TypeOK'
  BY <1>1, <1>5, <1>6 DEF SessionInv, TypeOK, Of, Drawn, Never
<1>. QED
  BY <1>1, <1>5, <1>6, <1>7 DEF SessionInv, TypeOK, SetsOutlive, RevokedDead

LEMMA InvLoginAdds ==
  ASSUME SessionInv, NEW p \in Procs, NEW u \in Users, LoginAdds(p, u)
  PROVE  SessionInv'
<1>. DEFINE m == [op |-> "added", user |-> {u}, tokens |-> mem[p].tokens, known |-> {},
               lost |-> mem[p].lost]
<1>1. /\ mem[p].tokens \subseteq DOMAIN holder /\ \A t \in mem[p].tokens : holder[t] = u
      /\ mem[p] \in Memory /\ mem[p].tokens # {}
  BY DEF LoginAdds, At, SessionInv, HandlersFit, Fits, TypeOK
<1>2. /\ sessions' = [sessions EXCEPT ![u] = @ \cup mem[p].tokens]
      /\ setTtl' = [setTtl EXCEPT ![u] = IF sessions[u] = {} THEN Never ELSE @]
      /\ UNCHANGED <<users, holder, ttl, given, access, revoked, overlooked>>
  BY DEF LoginAdds, historyVars
<1>3. Lasting /\ Staying
  BY <1>2 DEF Lasting, Staying, SessionInv, TypeOK
<1>4. m \in Memory /\ Fits(m, holder', ttl', sessions', overlooked')
  BY <1>1, <1>2 DEF Memory, Fits, SessionInv, TypeOK
<1>5. mem' = [mem EXCEPT ![p] = m]
  BY DEF LoginAdds, Goes
<1>. HIDE DEF m
<1>6. mem' \in [Procs -> Memory] /\ HandlersFit'
  BY <1>3, <1>4, <1>5, HandlersStep
<1>7. TypeOK'
  <2>1. sessions' \in [Users -> SUBSET Tokens] /\ setTtl' \in [Users -> 0 .. Never]
    BY <1>1, <1>2, LifeAssumption DEF SessionInv, TypeOK, Never, Memory
  <2>2. ASSUME NEW v \in Users
        PROVE  sessions'[v] \subseteq Of(v) /\ (setTtl'[v] = 0 <=> sessions'[v] = {})
    <3>1. CASE v = u
      <4>1. /\ sessions'[u] = sessions[u] \cup mem[p].tokens
            /\ setTtl'[u] = (IF sessions[u] = {} THEN Never ELSE setTtl[u])
        BY <1>2 DEF SessionInv, TypeOK
      <4>2. Never # 0
        BY LifeAssumption DEF Never
      <4>. QED
        BY <1>1, <3>1, <4>1, <4>2 DEF SessionInv, TypeOK, Of, Drawn
    <3>2. CASE v # u
      BY <1>2, <3>2 DEF SessionInv, TypeOK
    <3>. QED
      BY <3>1, <3>2
  <2>. QED
    BY <1>2, <1>6, <2>1, <2>2 DEF SessionInv, TypeOK, Of, Drawn
<1>8. SetsOutlive'
  <2>1. \A v \in Users : \A t \in sessions[v] :
          t \in sessions'[v] /\ setTtl'[v] = setTtl[v]
    BY <1>2 DEF SessionInv, TypeOK
  <2>2. \A t \in given : holder[t] \in Users
    BY DEF SessionInv, TypeOK
  <2>. QED
    BY <1>2, <2>1, <2>2 DEF SessionInv, SetsOutlive
<1>. QED
  BY <1>2, <1>6, <1>7, <1>8 DEF SessionInv, RevokedDead

LEMMA InvLoginExpires ==
  ASSUME SessionInv, NEW p \in Procs, NEW u \in Users, LoginExpires(p, u)
  PROVE  SessionInv'
<1>1. /\ mem[p].tokens \subseteq Drawn /\ \A t \in mem[p].tokens : holder[t] = u
      /\ \A t \in mem[p].tokens : ttl[t] = 0 \/ t \in overlooked \/ t \in sessions[u]
  BY DEF LoginExpires, LoginEnds, At, SessionInv, HandlersFit, Fits, Drawn
<1>2. /\ setTtl' = [setTtl EXCEPT ![u] = IF sessions[u] = {} THEN 0 ELSE TokenLife]
      /\ given' = given \cup mem[p].tokens /\ access' = access \cup {u}
      /\ UNCHANGED <<users, holder, ttl, sessions, revoked, overlooked>>
      /\ mem' = [mem EXCEPT ![p] = Idle]
  BY DEF LoginExpires, LoginEnds, Ends, historyVars
<1>3. Lasting /\ Staying
  BY <1>2 DEF Lasting, Staying
<1>4. mem' \in [Procs -> Memory] /\ HandlersFit'
  BY <1>2, <1>3, IdleFits, HandlersStep
<1>5. TypeOK'
  BY <1>1, <1>2, <1>4, LifeAssumption DEF SessionInv, TypeOK, Of, Drawn, Never
<1>6. SetsOutlive'
  <2>1. \A v \in Users : \A t \in sessions[v] :
          setTtl'[v] = (IF v = u THEN TokenLife ELSE setTtl[v])
    BY <1>2 DEF SessionInv, TypeOK
  <2>2. \A t \in given' : /\ holder[t] \in Users /\ ttl[t] \in 0 .. TokenLife
                          /\ ttl[t] <= TokenLife
    BY <1>1, <1>2, LifeAssumption DEF SessionInv, TypeOK, Drawn
  <2>3. ASSUME NEW t \in given, ttl[t] # 0, t \notin overlooked
        PROVE  t \in sessions[holder[t]] /\ ttl[t] <= setTtl'[holder[t]]
    BY <1>2, <2>1, <2>2, <2>3 DEF SessionInv, SetsOutlive
  <2>4. ASSUME NEW t \in mem[p].tokens, ttl[t] # 0, t \notin overlooked
        PROVE  t \in sessions[holder[t]] /\ ttl[t] <= setTtl'[holder[t]]
    BY <1>1, <1>2, <2>1, <2>2, <2>4
  <2>. QED
    BY <1>2, <2>3, <2>4 DEF SetsOutlive
<1>. QED
  BY <1>2, <1>4, <1>5, <1>6 DEF SessionInv, RevokedDead

LEMMA InvRefresh ==
  ASSUME SessionInv, NEW p \in Procs,
         \/ \E t \in Tokens : RefreshReads(p, t)
         \/ \E u \in Users : RefreshFinds(p, u) \/ RefreshSigns(p, u)
  PROVE  SessionInv'
<1>1. ASSUME NEW t \in Tokens, RefreshReads(p, t)
      PROVE  SessionInv'
  <2>. DEFINE m == [op |-> "refresh", user |-> {holder[t]}, tokens |-> {t},
                    known |-> {}, lost |-> mem[p].lost]
  <2>1. m \in Memory /\ Fits(m, holder, ttl, sessions, overlooked)
    BY <1>1 DEF RefreshReads, Memory, Fits, SessionInv, TypeOK, Drawn
  <2>2. mem' = [mem EXCEPT ![p] = m] /\ UNCHANGED <<redisVars, given, historyVars>>
        /\ users' \subseteq Users /\ access' \subseteq Users
    BY <1>1 DEF RefreshReads, Goes, SessionInv, TypeOK
  <2>. HIDE DEF m
  <2>. QED
    BY <2>1, <2>2, OnlyMem
<1>2. ASSUME NEW u \in Users, RefreshFinds(p, u)
      PROVE  SessionInv'
  <2>. DEFINE m == [op |-> "found", user |-> {u}, tokens |-> {}, known |-> {},
                    lost |-> mem[p].lost]
  <2>1. m \in Memory /\ Fits(m, holder, ttl, sessions, overlooked)
    BY DEF Memory, Fits, SessionInv, TypeOK
  <2>2. mem' = [mem EXCEPT ![p] = m] /\ UNCHANGED <<redisVars, given, historyVars>>
        /\ users' \subseteq Users /\ access' \subseteq Users
    BY <1>2 DEF RefreshFinds, FindsAmong, Goes, SessionInv, TypeOK
  <2>. HIDE DEF m
  <2>. QED
    BY <2>1, <2>2, OnlyMem
<1>3. ASSUME NEW u \in Users, RefreshSigns(p, u)
      PROVE  SessionInv'
  <2>1. Idle \in Memory /\ Fits(Idle, holder, ttl, sessions, overlooked)
    BY IdleFits DEF Fits, Idle
  <2>2. mem' = [mem EXCEPT ![p] = Idle] /\ UNCHANGED <<redisVars, given, historyVars>>
        /\ users' \subseteq Users /\ access' \subseteq Users
    BY <1>3 DEF RefreshSigns, Ends, SessionInv, TypeOK
  <2>. QED
    BY <2>1, <2>2, OnlyMem
<1>. QED
  BY <1>1, <1>2, <1>3

LEMMA InvPassword ==
  ASSUME SessionInv, NEW p \in Procs, NEW u \in Users,
         PasswordLoads(p, u) \/ PasswordSaves(p, u)
  PROVE  SessionInv'
<1>1. CASE PasswordLoads(p, u)
  <2>. DEFINE m == [op |-> "password", user |-> {u}, tokens |-> {}, known |-> {},
                    lost |-> mem[p].lost]
  <2>1. m \in Memory /\ Fits(m, holder, ttl, sessions, overlooked)
    BY DEF Memory, Fits, SessionInv, TypeOK
  <2>2. mem' = [mem EXCEPT ![p] = m] /\ UNCHANGED <<redisVars, given, historyVars>>
        /\ users' \subseteq Users /\ access' \subseteq Users
    BY <1>1 DEF PasswordLoads, Goes, SessionInv, TypeOK
  <2>. HIDE DEF m
  <2>. QED
    BY <2>1, <2>2, OnlyMem
<1>2. CASE PasswordSaves(p, u)
  <2>1. Idle \in Memory /\ Fits(Idle, holder, ttl, sessions, overlooked)
    BY IdleFits DEF Fits, Idle
  <2>2. mem' = [mem EXCEPT ![p] = Idle] /\ UNCHANGED <<redisVars, given, historyVars>>
        /\ users' \subseteq Users /\ access' \subseteq Users
    BY <1>2 DEF PasswordSaves, Ends, SessionInv, TypeOK
  <2>. QED
    BY <2>1, <2>2, OnlyMem
<1>. QED
  BY <1>1, <1>2

LEMMA InvLogoutDeletes ==
  ASSUME SessionInv, NEW p \in Procs, NEW u \in Users, NEW t \in Tokens,
         LogoutDeletes(p, u, t)
  PROVE  SessionInv'
<1>. DEFINE m == [op |-> "logout", user |-> {u}, tokens |-> {t}, known |-> {},
               lost |-> mem[p].lost]
<1>1. /\ ttl' = [ttl EXCEPT ![t] = 0] /\ t \in given
      /\ UNCHANGED <<users, holder, sessions, setTtl, given, access, revoked, overlooked>>
      /\ mem' = [mem EXCEPT ![p] = m]
  BY DEF LogoutDeletes, Goes, historyVars
<1>2. /\ ttl' \in [Tokens -> 0 .. TokenLife]
      /\ \A x \in Tokens : ttl'[x] = (IF x = t THEN 0 ELSE ttl[x])
  BY <1>1, LifeAssumption DEF SessionInv, TypeOK
<1>3. Lasting /\ Staying
  BY <1>1, <1>2 DEF Lasting, Staying, SessionInv, TypeOK, Drawn
<1>4. m \in Memory /\ Fits(m, holder', ttl', sessions', overlooked')
  BY <1>1, <1>2 DEF Memory, Fits, SessionInv, TypeOK, Drawn
<1>. HIDE DEF m
<1>5. mem' \in [Procs -> Memory] /\ HandlersFit'
  BY <1>1, <1>3, <1>4, HandlersStep
<1>6. TypeOK'
  BY <1>1, <1>2, <1>5 DEF SessionInv, TypeOK, Of, Drawn, Never
<1>7. SetsOutlive' /\ RevokedDead'
  BY <1>1, <1>2 DEF SessionInv, TypeOK, Drawn, SetsOutlive, RevokedDead
<1>. QED
  BY <1>5, <1>6, <1>7 DEF SessionInv

(* SREM takes only tokens that are dead.                                   *)
LEMMA InvLogoutRemoves ==
  ASSUME SessionInv, NEW p \in Procs, NEW u \in Users, LogoutRemoves(p, u)
  PROVE  SessionInv'
<1>1. /\ sessions' = [sessions EXCEPT ![u] = @ \ mem[p].tokens]
      /\ setTtl' = [setTtl EXCEPT ![u] = IF sessions[u] \subseteq mem[p].tokens
                                         THEN 0 ELSE @]
      /\ revoked' = revoked \cup mem[p].tokens
      /\ UNCHANGED <<users, holder, ttl, given, access, overlooked>>
      /\ mem' = [mem EXCEPT ![p] = Idle]
  BY DEF LogoutRemoves, Ends
<1>2. /\ mem[p].tokens \subseteq Drawn
      /\ \A t \in mem[p].tokens : ttl[t] = 0
  BY DEF LogoutRemoves, At, SessionInv, HandlersFit, Fits, Drawn
<1>3. \A v \in Users : /\ sessions'[v] = (IF v = u THEN sessions[u] \ mem[p].tokens
                                                 ELSE sessions[v])
                       /\ setTtl'[v] = (IF v = u /\ sessions[u] \subseteq mem[p].tokens
                                        THEN 0 ELSE setTtl[v])
  BY <1>1 DEF SessionInv, TypeOK
<1>4. Lasting /\ Staying
  BY <1>1, <1>2, <1>3 DEF Lasting, Staying
<1>5. mem' \in [Procs -> Memory] /\ HandlersFit'
  BY <1>1, <1>4, IdleFits, HandlersStep
<1>6. TypeOK'
  <2>1. sessions' \in [Users -> SUBSET Tokens] /\ setTtl' \in [Users -> 0 .. Never]
    BY <1>1, LifeAssumption DEF SessionInv, TypeOK, Never
  <2>2. ASSUME NEW v \in Users
        PROVE  sessions'[v] \subseteq Of(v) /\ (setTtl'[v] = 0 <=> sessions'[v] = {})
    BY <1>3 DEF SessionInv, TypeOK
  <2>. QED
    BY <1>1, <1>2, <1>5, <2>1, <2>2 DEF SessionInv, TypeOK, Of, Drawn
<1>7. SetsOutlive'
  <2>1. \A t \in given : holder[t] \in Users
    BY DEF SessionInv, TypeOK
  <2>2. ASSUME NEW t \in given, ttl[t] # 0, t \notin overlooked
        PROVE  t \in sessions'[holder[t]] /\ ttl[t] <= setTtl'[holder[t]]
    BY <1>2, <1>3, <2>1, <2>2 DEF SessionInv, SetsOutlive
  <2>. QED
    BY <1>1, <2>2 DEF SetsOutlive
<1>8. RevokedDead'
  BY <1>1, <1>2 DEF SessionInv, RevokedDead
<1>. QED
  BY <1>5, <1>6, <1>7, <1>8 DEF SessionInv

(* The tokens clients know are dead, overlooked or among those read.       *)
LEMMA InvLogoutAllReads ==
  ASSUME SessionInv, NEW p \in Procs, NEW u \in Users, LogoutAllReads(p, u)
  PROVE  SessionInv'
<1>. DEFINE m == [op |-> "members", user |-> {u}, tokens |-> sessions[u],
                  known |-> given \cap Of(u), lost |-> mem[p].lost]
<1>1. /\ sessions[u] \subseteq Of(u) /\ Of(u) \subseteq Tokens
      /\ \A t \in Of(u) : t \in DOMAIN holder /\ holder[t] = u
      /\ \A t \in given \cap Of(u) : ttl[t] = 0 \/ t \in overlooked \/ t \in sessions[u]
  BY DEF SessionInv, TypeOK, SetsOutlive, Of, Drawn
<1>2. m \in Memory
  BY <1>1 DEF Memory, SessionInv, TypeOK
<1>3. Fits(m, holder, ttl, sessions, overlooked)
  BY <1>1 DEF Fits
<1>4. mem' = [mem EXCEPT ![p] = m] /\ UNCHANGED <<redisVars, given, historyVars>>
      /\ users' \subseteq Users /\ access' \subseteq Users
  BY DEF LogoutAllReads, Goes, SessionInv, TypeOK
<1>. HIDE DEF m
<1>. QED
  BY <1>2, <1>3, <1>4, OnlyMem

LEMMA InvLogoutAllDeletes ==
  ASSUME SessionInv, NEW p \in Procs, NEW u \in Users, LogoutAllDeletes(p, u)
  PROVE  SessionInv'
<1>. DEFINE m == [op |-> "emptied", user |-> {u}, tokens |-> mem[p].tokens,
                  known |-> mem[p].known, lost |-> mem[p].lost]
<1>1. /\ ttl' = [t \in Tokens |-> IF t \in mem[p].tokens THEN 0 ELSE ttl[t]]
      /\ UNCHANGED <<users, holder, sessions, setTtl, given, access, revoked, overlooked>>
      /\ mem' = [mem EXCEPT ![p] = m]
  BY DEF LogoutAllDeletes, EmptiesSessions, Goes, historyVars
<1>2. /\ ttl' \in [Tokens -> 0 .. TokenLife]
      /\ \A x \in Tokens : ttl'[x] = (IF x \in mem[p].tokens THEN 0 ELSE ttl[x])
  BY <1>1, LifeAssumption DEF SessionInv, TypeOK
<1>3. Lasting /\ Staying
  BY <1>1, <1>2 DEF Lasting, Staying, SessionInv, TypeOK, Drawn
<1>4. mem[p] \in Memory /\ Fits(mem[p], holder, ttl, sessions, overlooked)
      /\ mem[p].op = "members" /\ mem[p].user = {u}
  BY DEF LogoutAllDeletes, EmptiesSessions, At, SessionInv, HandlersFit, TypeOK
<1>5. m \in Memory
  BY <1>4 DEF Memory
<1>6. mem[p].tokens \cup mem[p].known \subseteq Tokens
  BY <1>4 DEF Memory
<1>7. Fits(m, holder', ttl', sessions', overlooked')
  BY <1>1, <1>2, <1>4, <1>6 DEF Fits
<1>. HIDE DEF m
<1>8. mem' \in [Procs -> Memory] /\ HandlersFit'
  BY <1>1, <1>3, <1>5, <1>7, HandlersStep
<1>9. TypeOK'
  BY <1>1, <1>2, <1>8 DEF SessionInv, TypeOK, Of, Drawn, Never
<1>10. SetsOutlive' /\ RevokedDead'
  BY <1>1, <1>2 DEF SessionInv, TypeOK, Drawn, SetsOutlive, RevokedDead
<1>. QED
  BY <1>8, <1>9, <1>10 DEF SessionInv

(* Whatever the set still holds is dead, or overlooked from here on.       *)
LEMMA InvLogoutAllEnds ==
  ASSUME SessionInv, NEW p \in Procs, NEW u \in Users, LogoutAllEnds(p, u)
  PROVE  SessionInv'
<1>1. /\ sessions' = [sessions EXCEPT ![u] = {}]
      /\ setTtl' = [setTtl EXCEPT ![u] = 0]
      /\ overlooked' = overlooked \cup (sessions[u] \ mem[p].tokens)
      /\ revoked' = revoked \cup (mem[p].known \ overlooked)
      /\ UNCHANGED <<users, holder, ttl, given, access>>
      /\ mem' = [mem EXCEPT ![p] = Idle]
  BY DEF LogoutAllEnds, Ends
<1>2. /\ mem[p].known \subseteq Drawn
      /\ \A t \in mem[p].tokens : ttl[t] = 0
      /\ \A t \in mem[p].known : ttl[t] = 0 \/ t \in overlooked
  BY DEF LogoutAllEnds, At, SessionInv, HandlersFit, Fits, Drawn
<1>3. \A v \in Users : /\ sessions'[v] = (IF v = u THEN {} ELSE sessions[v])
                       /\ setTtl'[v] = (IF v = u THEN 0 ELSE setTtl[v])
  BY <1>1 DEF SessionInv, TypeOK
<1>4. Lasting /\ Staying
  BY <1>1, <1>2, <1>3 DEF Lasting, Staying
<1>5. mem' \in [Procs -> Memory] /\ HandlersFit'
  BY <1>1, <1>4, IdleFits, HandlersStep
<1>6. TypeOK'
  <2>1. sessions' \in [Users -> SUBSET Tokens] /\ setTtl' \in [Users -> 0 .. Never]
    BY <1>1, LifeAssumption DEF SessionInv, TypeOK, Never
  <2>2. ASSUME NEW v \in Users
        PROVE  sessions'[v] \subseteq Of(v) /\ (setTtl'[v] = 0 <=> sessions'[v] = {})
    BY <1>3 DEF SessionInv, TypeOK
  <2>3. overlooked' \subseteq Drawn /\ revoked' \subseteq Drawn
    BY <1>1, <1>2 DEF SessionInv, TypeOK, Of
  <2>. QED
    BY <1>1, <1>5, <2>1, <2>2, <2>3 DEF SessionInv, TypeOK, Of, Drawn
<1>7. SetsOutlive'
  <2>1. \A t \in given : holder[t] \in Users
    BY DEF SessionInv, TypeOK
  <2>2. ASSUME NEW t \in given, ttl[t] # 0, t \notin overlooked'
        PROVE  t \in sessions'[holder[t]] /\ ttl[t] <= setTtl'[holder[t]]
    BY <1>1, <1>2, <1>3, <2>1, <2>2 DEF SessionInv, SetsOutlive
  <2>. QED
    BY <1>1, <2>2 DEF SetsOutlive
<1>8. RevokedDead'
  BY <1>1, <1>2 DEF SessionInv, RevokedDead
<1>. QED
  BY <1>5, <1>6, <1>7, <1>8 DEF SessionInv

(* A set that runs out held no live token that a client has, except those  *)
(* of logins under way, which are overlooked.                              *)
LEMMA InvTick ==
  ASSUME SessionInv, Tick
  PROVE  SessionInv'
<1>. DEFINE ended == {u \in Users : setTtl[u] = 1}
            adding == {q \in Procs : \E u \in ended : At(q, "added", u)}
<1>1. /\ ttl' = [t \in Tokens |-> Day(ttl[t])]
      /\ setTtl' = [u \in Users |-> Day(setTtl[u])]
      /\ sessions' = [u \in Users |-> IF u \in ended THEN {} ELSE sessions[u]]
      /\ overlooked' = overlooked \cup UNION {mem[p].tokens : p \in adding}
      /\ UNCHANGED <<users, holder, given, access, mem, revoked>>
  BY DEF Tick
<1>2. ttl \in [Tokens -> 0 .. TokenLife] /\ setTtl \in [Users -> 0 .. Never]
      /\ Never = TokenLife + 1 /\ TokenLife \in Nat /\ DOMAIN holder \subseteq Tokens
  BY LifeAssumption DEF SessionInv, TypeOK, Never, Drawn
<1>3. \A t \in Tokens : /\ ttl'[t] = Day(ttl[t]) /\ Day(ttl[t]) \in 0 .. TokenLife
                        /\ ttl[t] <= 1 => Day(ttl[t]) = 0
                        /\ ttl[t] # 0 => Day(ttl[t]) = ttl[t] - 1
  BY <1>1, <1>2 DEF Day
<1>4. \A u \in Users : /\ setTtl'[u] = Day(setTtl[u]) /\ Day(setTtl[u]) \in 0 .. Never
                       /\ setTtl'[u] = 0 <=> setTtl[u] \in {0, 1}
                       /\ setTtl'[u] >= setTtl[u] - 1
                       /\ sessions'[u] = (IF setTtl[u] = 1 THEN {} ELSE sessions[u])
  <2>. SUFFICES ASSUME NEW u \in Users
                PROVE  /\ setTtl'[u] = Day(setTtl[u]) /\ Day(setTtl[u]) \in 0 .. Never
                       /\ setTtl'[u] = 0 <=> setTtl[u] \in {0, 1}
                       /\ setTtl'[u] >= setTtl[u] - 1
                       /\ sessions'[u] = (IF setTtl[u] = 1 THEN {} ELSE sessions[u])
    OBVIOUS
  <2>1. setTtl'[u] = Day(setTtl[u]) /\ setTtl[u] \in 0 .. Never
    BY <1>1, <1>2
  <2>2. Never \in Nat /\ Never # 0 /\ Never # 1
    BY <1>2, LifeAssumption
  <2>3. /\ Day(setTtl[u]) \in 0 .. Never
        /\ Day(setTtl[u]) = 0 <=> setTtl[u] \in {0, 1}
        /\ Day(setTtl[u]) >= setTtl[u] - 1
    BY <2>1, <2>2 DEF Day
  <2>. QED
    BY <1>1, <2>1, <2>3
<1>5. Lasting
  BY <1>1, <1>2, <1>3 DEF Lasting
<1>6. ASSUME NEW p \in Procs
      PROVE  /\ Fits(mem[p], holder', ttl', sessions', overlooked')
             /\ p \in adding => mem[p].tokens \subseteq Drawn
  <2>1. Fits(mem[p], holder, ttl, sessions, overlooked)
    BY DEF SessionInv, HandlersFit
  <2>2. ASSUME NEW u \in Users, NEW t \in mem[p].tokens,
               mem[p].op = "added", mem[p].user = {u}, t \in sessions[u]
        PROVE  t \in overlooked' \/ t \in sessions'[u]
    <3>1. CASE setTtl[u] = 1
      BY <1>1, <2>2, <3>1 DEF At
    <3>2. CASE setTtl[u] # 1
      BY <1>4, <2>2, <3>2
    <3>. QED
      BY <3>1, <3>2
  <2>. QED
    BY <1>5, <2>1, <2>2, FitsKept DEF Fits, Drawn
<1>7. HandlersFit'
  BY <1>1, <1>6 DEF HandlersFit
<1>8. TypeOK'
  <2>1. /\ ttl' \in [Tokens -> 0 .. TokenLife]
        /\ sessions' \in [Users -> SUBSET Tokens]
        /\ setTtl' \in [Users -> 0 .. Never]
    BY <1>1, <1>3, <1>4 DEF SessionInv, TypeOK
  <2>2. ASSUME NEW u \in Users
        PROVE  sessions'[u] \subseteq Of(u) /\ (setTtl'[u] = 0 <=> sessions'[u] = {})
    BY <1>4 DEF SessionInv, TypeOK
  <2>3. overlooked' \subseteq Drawn
    <3>1. overlooked \subseteq Drawn /\ \A p \in adding : p \in Procs
      BY DEF SessionInv, TypeOK
    <3>. HIDE DEF adding
    <3>. QED
      BY <1>1, <1>6, <3>1
  <2>. QED
    BY <1>1, <2>1, <2>2, <2>3 DEF SessionInv, TypeOK, Of, Drawn, Never
<1>9. SetsOutlive'
  <2>1. ASSUME NEW t \in given, ttl'[t] # 0, t \notin overlooked'
        PROVE  t \in sessions'[holder[t]] /\ ttl'[t] <= setTtl'[holder[t]]
    <3>1. t \in Tokens /\ holder[t] \in Users /\ ttl[t] > 1
      BY <1>2, <1>3, <2>1 DEF SessionInv, TypeOK, Drawn
    <3>2. t \in sessions[holder[t]] /\ ttl[t] <= setTtl[holder[t]]
      BY <1>1, <2>1, <3>1 DEF SessionInv, SetsOutlive
    <3>. QED
      BY <1>2, <1>3, <1>4, <3>1, <3>2
  <2>. QED
    BY <1>1, <2>1 DEF SetsOutlive
<1>10. RevokedDead'
  BY <1>1, <1>3, <1>5 DEF SessionInv, TypeOK, RevokedDead, Lasting, Drawn
<1>. QED
  BY <1>7, <1>8, <1>9, <1>10 DEF SessionInv

(* Losing the account changes nothing else of what a handler holds.        *)
LEMMA LosingKeeps ==
  ASSUME NEW m \in Memory, NEW u \in Users, NEW n, n = [m EXCEPT !.lost = {u}]
  PROVE  /\ n \in Memory /\ n.lost = {u} /\ n.op = m.op /\ n.user = m.user
         /\ n.tokens = m.tokens /\ n.known = m.known
  BY DEF Memory

LEMMA InvOthers ==
  ASSUME SessionInv,
         \/ \E p \in Procs : Abort(p)
         \/ \E u \in Users : DeleteAccount(u) \/ AccessExpires(u)
  PROVE  SessionInv'
<1>1. ASSUME NEW p \in Procs, Abort(p)
      PROVE  SessionInv'
  <2>1. Idle \in Memory /\ Fits(Idle, holder, ttl, sessions, overlooked)
    BY IdleFits DEF Fits, Idle
  <2>2. mem' = [mem EXCEPT ![p] = Idle] /\ UNCHANGED <<redisVars, given, historyVars>>
        /\ users' \subseteq Users /\ access' \subseteq Users
    BY <1>1 DEF Abort, Ends, SessionInv, TypeOK
  <2>. QED
    BY <2>1, <2>2, OnlyMem
<1>2. ASSUME NEW u \in Users, AccessExpires(u)
      PROVE  SessionInv'
  BY <1>2, OnlyAccounts DEF AccessExpires, SessionInv, TypeOK
<1>3. ASSUME NEW u \in Users, DeleteAccount(u)
      PROVE  SessionInv'
  <2>1. /\ users' \subseteq Users
        /\ UNCHANGED <<holder, ttl, sessions, setTtl, given, access, revoked, overlooked>>
    BY <1>3 DEF DeleteAccount, redisVars, historyVars, SessionInv, TypeOK
  <2>2. \A p \in Procs :
          /\ mem[p] \in Memory
          /\ mem'[p] = mem[p] \/ mem'[p] = [mem[p] EXCEPT !.lost = {u}]
    BY <1>3 DEF DeleteAccount, SessionInv, TypeOK
  <2>3. \A p \in Procs : /\ mem'[p] \in Memory /\ mem'[p].op = mem[p].op
                         /\ mem'[p].user = mem[p].user /\ mem'[p].tokens = mem[p].tokens
                         /\ mem'[p].known = mem[p].known
    <3>. SUFFICES ASSUME NEW p \in Procs
                  PROVE  /\ mem'[p] \in Memory /\ mem'[p].op = mem[p].op
                         /\ mem'[p].user = mem[p].user /\ mem'[p].tokens = mem[p].tokens
                         /\ mem'[p].known = mem[p].known
      OBVIOUS
    <3>1. CASE mem'[p] = mem[p]
      BY <2>2, <3>1
    <3>2. CASE mem'[p] = [mem[p] EXCEPT !.lost = {u}]
      <4>1. mem[p] \in Memory
        BY <2>2
      <4>. QED
        BY <3>2, <4>1, LosingKeeps
    <3>. QED
      BY <2>2, <3>1, <3>2
  <2>4. mem' \in [Procs -> Memory]
    BY <1>3, <2>3 DEF DeleteAccount
  <2>5. \A p \in Procs : Fits(mem'[p], holder, ttl, sessions, overlooked)
    BY <2>3 DEF SessionInv, HandlersFit, Fits
  <2>6. HandlersFit'
    BY <2>1, <2>5 DEF HandlersFit
  <2>. QED
    BY <2>1, <2>4, <2>6
    DEF SessionInv, TypeOK, SetsOutlive, RevokedDead, Drawn, Of, Never
<1>. QED
  BY <1>1, <1>2, <1>3

LEMMA SessionNext == SessionInv /\ [Next]_vars => SessionInv'
<1>. SUFFICES ASSUME SessionInv, [Next]_vars PROVE SessionInv'
  OBVIOUS
<1>1. ASSUME NEW p \in Procs, NEW u \in Users,
             \/ LoginReads(p, u) \/ \E t \in Tokens : LoginSets(p, u, t)
             \/ LoginAdds(p, u) \/ LoginExpires(p, u)
      PROVE  SessionInv'
  BY <1>1, InvLoginReads, InvLoginSets, InvLoginAdds, InvLoginExpires
<1>2. ASSUME NEW p \in Procs, NEW u \in Users,
             \/ \E t \in Tokens : LogoutDeletes(p, u, t)
             \/ LogoutRemoves(p, u) \/ LogoutAllReads(p, u)
             \/ LogoutAllDeletes(p, u) \/ LogoutAllEnds(p, u)
      PROVE  SessionInv'
  BY <1>2, InvLogoutDeletes, InvLogoutRemoves, InvLogoutAllReads, InvLogoutAllDeletes,
     InvLogoutAllEnds
<1>3. CASE UNCHANGED vars
  BY <1>3, OnlyAccounts DEF vars, SessionInv, TypeOK
<1>. QED
  BY <1>1, <1>2, <1>3, InvRefresh, InvPassword, InvOthers, InvTick
  DEF Next, LoginRequests, RefreshRequests, LogoutRequests, LogoutAllRequests,
      PasswordRequests

(* What the theorems rest on.                                              *)
LEMMA SessionInvHolds == Spec => []SessionInv
  BY SessionInit, SessionNext, PTL DEF Spec

-----------------------------------------------------------------------------
(* Every reachable state is well typed: the set of an account holds tokens *)
(* of that account only, and exists exactly while it has a time to live.   *)
THEOREM SessionsTyped == Spec => []TypeOK
<1>1. SessionInv => TypeOK
  BY DEF SessionInv
<1>. QED
  BY <1>1, SessionInvHolds, PTL

(* Every accepted token a client holds can be found by logout-all, unless  *)
(* its login was overlooked.                                               *)
THEOREM AcceptedTokensTracked == Spec => []SessionsTracked
<1>1. SessionInv => SessionsTracked
  BY DEF SessionInv, SetsOutlive, SessionsTracked, Live
<1>. QED
  BY <1>1, SessionInvHolds, PTL

(* A token ended by a logout is never accepted again.                      *)
THEOREM LogoutIsFinal == Spec => []RevokedStaysRevoked
<1>1. SessionInv => RevokedStaysRevoked
  BY DEF SessionInv, RevokedDead, RevokedStaysRevoked, Live
<1>. QED
  BY <1>1, SessionInvHolds, PTL

(* A handler that holds an account which is deleted has lost it: it had    *)
(* loaded the account before the deletion.                                 *)
LostWhenDeleted ==
  \A p \in Procs, u \in Users \ users :
    mem[p].op \in Holding /\ mem[p].user = {u} => u \in mem[p].lost

(* Where a handler goes, it holds an account that exists or that it held.  *)
LEMMA LostKept ==
  ASSUME TypeOK, LostWhenDeleted, users \subseteq users', NEW p \in Procs, NEW m,
         mem' = [mem EXCEPT ![p] = m],
         \A u \in Users \ users :
           m.op \in Holding /\ m.user = {u} => u \in m.lost
  PROVE  LostWhenDeleted'
<1>1. \A q \in Procs : mem'[q] = IF q = p THEN m ELSE mem[q]
  BY DEF TypeOK
<1>. QED
  BY <1>1 DEF LostWhenDeleted

LEMMA LostRefresh ==
  ASSUME TypeOK, LostWhenDeleted, NEW p \in Procs,
         \/ \E t \in Tokens : RefreshReads(p, t)
         \/ \E u \in Users : RefreshFinds(p, u)
  PROVE  LostWhenDeleted'
<1>1. ASSUME NEW t \in Tokens, RefreshReads(p, t)
      PROVE  LostWhenDeleted'
  <2>. DEFINE m == [op |-> "refresh", user |-> {holder[t]}, tokens |-> {t},
                    known |-> {}, lost |-> mem[p].lost]
  <2>1. m.op \notin Holding
    BY DEF Holding
  <2>2. mem' = [mem EXCEPT ![p] = m] /\ users' = users
    BY <1>1 DEF RefreshReads, Goes
  <2>. HIDE DEF m
  <2>. QED
    BY <2>1, <2>2, LostKept
<1>2. ASSUME NEW u \in Users, RefreshFinds(p, u)
      PROVE  LostWhenDeleted'
  <2>. DEFINE m == [op |-> "found", user |-> {u}, tokens |-> {}, known |-> {},
                    lost |-> mem[p].lost]
  <2>1. \A v \in Users \ users : m.user # {v}
    BY <1>2 DEF RefreshFinds, FindsAmong
  <2>2. mem' = [mem EXCEPT ![p] = m] /\ users' = users
    BY <1>2 DEF RefreshFinds, FindsAmong, Goes
  <2>. HIDE DEF m
  <2>. QED
    BY <2>1, <2>2, LostKept
<1>. QED
  BY <1>1, <1>2

(* A login and a password save load an account that exists, and hold it    *)
(* from then on.                                                           *)
LEMMA LostLogin ==
  ASSUME TypeOK, LostWhenDeleted, NEW p \in Procs, NEW u \in Users,
         \/ LoginReads(p, u) \/ PasswordLoads(p, u)
         \/ LoginAdds(p, u) \/ \E t \in Tokens : LoginSets(p, u, t)
  PROVE  LostWhenDeleted'
<1>1. PICK m : /\ mem' = [mem EXCEPT ![p] = m] /\ users' = users
               /\ m.user = {u} /\ m.lost = mem[p].lost
  <2>1. ASSUME NEW op, NEW tokens, Goes(p, op, u, tokens, {}), users' = users
        PROVE  \E m : /\ mem' = [mem EXCEPT ![p] = m] /\ users' = users
                      /\ m.user = {u} /\ m.lost = mem[p].lost
    <3>. DEFINE m == [op |-> op, user |-> {u}, tokens |-> tokens, known |-> {},
                      lost |-> mem[p].lost]
    <3>1. mem' = [mem EXCEPT ![p] = m] /\ m.user = {u} /\ m.lost = mem[p].lost
      BY <2>1 DEF Goes
    <3>. HIDE DEF m
    <3>. QED
      BY <2>1, <3>1
  <2>. QED
    BY <2>1 DEF LoginReads, PasswordLoads, LoginAdds, LoginSets
<1>2. u \in users \/ (mem[p].op \in Holding /\ mem[p].user = {u})
  BY DEF LoginReads, PasswordLoads, LoginAdds, LoginSets, At, Holding
<1>3. \A v \in Users \ users : m.user = {v} => v \in m.lost
  BY <1>1, <1>2 DEF LostWhenDeleted
<1>. QED
  BY <1>1, <1>3, LostKept

LEMMA LostLogout ==
  ASSUME TypeOK, LostWhenDeleted, NEW p \in Procs, NEW u \in Users,
         \/ \E t \in Tokens : LogoutDeletes(p, u, t)
         \/ LogoutAllReads(p, u) \/ LogoutAllDeletes(p, u)
  PROVE  LostWhenDeleted'
<1>1. PICK m : /\ mem' = [mem EXCEPT ![p] = m] /\ users' = users
               /\ m.op \in {"logout", "members", "emptied"}
  <2>1. ASSUME NEW op \in {"logout", "members", "emptied"}, NEW tokens, NEW known,
               Goes(p, op, u, tokens, known), users' = users
        PROVE  \E m : /\ mem' = [mem EXCEPT ![p] = m] /\ users' = users
                      /\ m.op \in {"logout", "members", "emptied"}
    <3>. DEFINE m == [op |-> op, user |-> {u}, tokens |-> tokens, known |-> known,
                      lost |-> mem[p].lost]
    <3>1. mem' = [mem EXCEPT ![p] = m] /\ m.op = op
      BY <2>1 DEF Goes
    <3>. HIDE DEF m
    <3>. QED
      BY <2>1, <3>1
  <2>. QED
    BY <2>1 DEF LogoutDeletes, LogoutAllReads, LogoutAllDeletes, EmptiesSessions
<1>2. m.op \notin Holding
  BY <1>1 DEF Holding
<1>. QED
  BY <1>1, <1>2, LostKept

LEMMA LostEnds ==
  ASSUME TypeOK, LostWhenDeleted, NEW p \in Procs,
         \/ Abort(p)
         \/ \E u \in Users : \/ LoginExpires(p, u) \/ RefreshSigns(p, u)
                             \/ PasswordSaves(p, u) \/ LogoutRemoves(p, u)
                             \/ LogoutAllEnds(p, u)
  PROVE  LostWhenDeleted'
<1>1. mem' = [mem EXCEPT ![p] = Idle] /\ users \subseteq users'
  BY DEF Abort, LoginExpires, LoginEnds, RefreshSigns, PasswordSaves, LogoutRemoves,
         LogoutAllEnds, Ends
<1>2. Idle.op \notin Holding
  BY DEF Idle, Holding
<1>. QED
  BY <1>1, <1>2, LostKept

LEMMA LostDeletion ==
  ASSUME TypeOK, LostWhenDeleted, NEW u \in Users, DeleteAccount(u)
  PROVE  LostWhenDeleted'
<1>. SUFFICES ASSUME NEW p \in Procs, NEW v \in Users \ users',
                     mem'[p].op \in Holding, mem'[p].user = {v}
              PROVE  v \in mem'[p].lost
  BY DEF LostWhenDeleted
<1>1. /\ mem[p] \in Memory /\ users' = users \ {u}
      /\ mem'[p] = IF mem[p].op \in Holding /\ mem[p].user = {u}
                   THEN [mem[p] EXCEPT !.lost = {u}] ELSE mem[p]
  BY DEF DeleteAccount, TypeOK
<1>2. CASE mem[p].op \in Holding /\ mem[p].user = {u}
  <2>1. mem'[p].lost = {u} /\ mem'[p].user = mem[p].user
    BY <1>1, <1>2, LosingKeeps
  <2>. QED
    BY <1>2, <2>1
<1>3. CASE ~ (mem[p].op \in Holding /\ mem[p].user = {u})
  <2>1. mem'[p] = mem[p] /\ v \in Users \ users
    BY <1>1, <1>3
  <2>. QED
    BY <2>1 DEF LostWhenDeleted
<1>. QED
  BY <1>2, <1>3

LEMMA LostNext == TypeOK /\ LostWhenDeleted /\ [Next]_vars => LostWhenDeleted'
<1>. SUFFICES ASSUME TypeOK, LostWhenDeleted, [Next]_vars PROVE LostWhenDeleted'
  OBVIOUS
<1>1. CASE Tick \/ (\E u \in Users : AccessExpires(u)) \/ UNCHANGED vars
  <2>1. UNCHANGED <<users, mem>>
    BY <1>1 DEF Tick, AccessExpires, vars
  <2>. QED
    BY <2>1 DEF LostWhenDeleted
<1>. QED
  BY <1>1, LostRefresh, LostLogin, LostLogout, LostEnds, LostDeletion
  DEF Next, LoginRequests, RefreshRequests, LogoutRequests, LogoutAllRequests,
      PasswordRequests

(* A refresh token gains nobody access to a deleted account, and no save   *)
(* brings the account back, but through a request that had loaded it       *)
(* before it was deleted.                                                  *)
THEOREM DeletedAccountsStayClosed == Spec => NoAccessAfterDeletion
<1>. DEFINE Closed == \A u \in Users \ users :
       u \in (access' \ access) \cup users' =>
         \E p \in Procs : mem'[p] = Idle /\ u \in mem[p].lost
<1>1. TypeOK /\ LostWhenDeleted /\ [Next]_vars => [Closed]_vars
  <2>. SUFFICES ASSUME TypeOK, LostWhenDeleted, Next, NEW u \in Users \ users,
                       u \in (access' \ access) \cup users'
                PROVE  \E p \in Procs : mem'[p] = Idle /\ u \in mem[p].lost
    BY DEF vars
  <2>1. ASSUME NEW p \in Procs, NEW v \in Users,
               LoginExpires(p, v) \/ RefreshSigns(p, v) \/ PasswordSaves(p, v)
        PROVE  mem'[p] = Idle /\ u \in mem[p].lost
    <3>1. u = v /\ mem' = [mem EXCEPT ![p] = Idle]
      BY <2>1 DEF LoginExpires, LoginEnds, RefreshSigns, PasswordSaves, Ends
    <3>2. mem[p].op \in Holding /\ mem[p].user = {v}
      BY <2>1 DEF LoginExpires, LoginEnds, RefreshSigns, PasswordSaves, At, Holding
    <3>. QED
      BY <3>1, <3>2 DEF LostWhenDeleted, TypeOK
  <2>2. ASSUME NEW p \in Procs, NEW v \in Users,
               \/ LoginReads(p, v) \/ LoginAdds(p, v) \/ RefreshFinds(p, v)
               \/ PasswordLoads(p, v)
               \/ \E t \in Tokens : LoginSets(p, v, t) \/ LogoutDeletes(p, v, t)
        PROVE  FALSE
    BY <2>2 DEF LoginReads, LoginSets, LoginAdds, RefreshFinds, FindsAmong, PasswordLoads,
                LogoutDeletes
  <2>3. ASSUME NEW p \in Procs, NEW v \in Users,
               \/ LogoutRemoves(p, v) \/ LogoutAllReads(p, v)
               \/ LogoutAllDeletes(p, v) \/ LogoutAllEnds(p, v)
        PROVE  FALSE
    BY <2>3 DEF LogoutRemoves, LogoutAllReads, LogoutAllDeletes, EmptiesSessions,
                LogoutAllEnds
  <2>4. ASSUME \/ \E p \in Procs, t \in Tokens : RefreshReads(p, t)
               \/ \E p \in Procs : Abort(p)
               \/ \E v \in Users : DeleteAccount(v) \/ AccessExpires(v)
               \/ Tick
        PROVE  FALSE
    BY <2>4 DEF RefreshReads, Abort, DeleteAccount, AccessExpires, Tick
  <2>. QED
    BY <2>1, <2>2, <2>3, <2>4
    DEF Next, LoginRequests, RefreshRequests, LogoutRequests, LogoutAllRequests,
        PasswordRequests
<1>2. Init => LostWhenDeleted
  BY DEF Init, LostWhenDeleted
<1>. QED
  BY <1>1, <1>2, LostNext, SessionsTyped, PTL DEF Spec, NoAccessAfterDeletion
=============================================================================
