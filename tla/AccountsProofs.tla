--------------------------- MODULE AccountsProofs ---------------------------
(* Theorems about Accounts for all ids, mails, passwords, reset tokens and *)
(* handlers.                                                               *)
EXTENDS Accounts, TLAPS

Saving == {"vouch", "verify", "reset", "edit"}

(* What a handler that is at m will save: a mail of the account's own, a   *)
(* password only if it was chosen, and verified only with a proven mail    *)
(* and a phone, unless the phone got lost or the link was another's.       *)
Fits(m, mails, pr, ex) ==
  /\ m.token = None <=> m.op \notin {"set", "hash", "reset", "done"}
  /\ m.op = "insert" => /\ m.user \in Row /\ m.user.password # None
                        /\ ~ m.user.verified
  /\ m.op \in Saving \cup {"set", "hash"} => m.id \in DOMAIN mails
  /\ m.op \in Saving =>
       /\ m.user \in Row /\ m.user.mail = mails[m.id] /\ m.user.password = m.chosen
       /\ m.user.verified => m.user.mail \in pr
       /\ \/ ~ m.user.verified \/ m.user.phone \/ m.id \in ex
          \/ m.op = "verify" /\ m.by \notin {None, m.id}

HandlersFit == \A p \in Procs : Fits(mem[p], mailOf, proven, excused)

(* Who was mailed a link had a phone, and has it until it is lost.         *)
LinksHold ==
  /\ \A m \in jobs \cup inbox : m.token = None =>
       /\ m.by \in Ever
       /\ m.by \in Rows => row[m.by].phone \/ m.by \in excused
  /\ \A m \in inbox : m.token = None => m.mail \in proven

RowsHold ==
  OneAccountPerMail /\ VerifiedHavePhone /\ VerifiedVouched /\ PasswordsNeverRevert

Holds(m, t) == m.token = t /\ m.op \in {"hash", "reset", "done"}

(* A token two handlers hold is shaky; one that set a password and is not  *)
(* shaky is held by nobody but the handler about to delete it.             *)
TokensHold ==
  /\ \A t \in Tokens : \A p, q \in Procs :
       p # q /\ Holds(mem[p], t) /\ Holds(mem[q], t) => t \in shaky
  /\ \A t \in used \ shaky :
       /\ \A p \in Procs : Holds(mem[p], t) => mem[p].op = "done"
       /\ reset[t] # None => \E p \in Procs : Holds(mem[p], t)
  /\ TokensWorkOnce

AccountInv == TypeOK /\ RowsHold /\ HandlersFit /\ LinksHold /\ TokensHold

-----------------------------------------------------------------------------
LEMMA IdleFits ==
  ASSUME NEW mails, NEW pr, NEW ex
  PROVE  Idle \in Memory /\ Fits(Idle, mails, pr, ex) /\ \A t \in Tokens : ~ Holds(Idle, t)
  BY DEF Idle, Memory, Fits, Saving, Holds, NoUser

LEMMA EntityLoaded ==
  ASSUME TypeOK, NEW i \in Rows
  PROVE  /\ Loaded(i) \in Row /\ Loaded(i).password = None
         /\ Loaded(i).mail = row[i].mail /\ Loaded(i).phone = row[i].phone
         /\ Loaded(i).verified = row[i].verified
         /\ row[i].mail = mailOf[i] /\ i \in Ever
  BY DEF TypeOK, Loaded, Row

(* A handler's step: it fits where it goes, the others are not disturbed   *)
(* by accounts, proofs and excuses being added.                            *)
LEMMA HandlersStep ==
  ASSUME TypeOK, HandlersFit, NEW p \in Procs, NEW m \in Memory,
         mem' = [mem EXCEPT ![p] = m],
         Fits(m, mailOf', proven', excused'),
         \A i \in Ever : i \in DOMAIN mailOf' /\ mailOf'[i] = mailOf[i],
         proven \subseteq proven', excused \subseteq excused'
  PROVE  mem' \in [Procs -> Memory] /\ HandlersFit'
<1>1. mem' \in [Procs -> Memory] BY DEF TypeOK
<1>2. \A q \in Procs : mem'[q] = IF q = p THEN m ELSE mem[q] BY DEF TypeOK
<1>3. \A q \in Procs : Fits(mem[q], mailOf', proven', excused')
  BY DEF HandlersFit, Fits, Saving, Ever
<1>4. \A q \in Procs : Fits(mem'[q], mailOf', proven', excused') BY <1>2, <1>3
<1> QED BY <1>1, <1>4 DEF HandlersFit

(* A step that lets no further handler hold a token, and lets one that set *)
(* a password go only when it is deleted or shaky.                         *)
LEMMA TokensStep ==
  ASSUME TypeOK, TokensHold, NEW p \in Procs, NEW m \in Memory,
         mem' = [mem EXCEPT ![p] = m],
         \A t \in Tokens : Holds(m, t) =>
           Holds(mem[p], t) /\ (mem[p].op = "done" => m.op = "done"),
         \A t \in used \ shaky' : Holds(mem[p], t) => Holds(m, t) \/ reset'[t] = None,
         \A t \in used : reset'[t] \in {None, reset[t]},
         shaky \subseteq shaky', UNCHANGED <<used, reused>>
  PROVE  TokensHold'
<1>1. \A q \in Procs : mem'[q] = IF q = p THEN m ELSE mem[q] BY DEF TypeOK
<1>2. \A q \in Procs, t \in Tokens : Holds(mem'[q], t) =>
        Holds(mem[q], t) /\ (mem[q].op = "done" => mem'[q].op = "done")
  BY <1>1
<1>3. \A t \in Tokens : \A q, r \in Procs :
        q # r /\ Holds(mem'[q], t) /\ Holds(mem'[r], t) => t \in shaky'
  BY <1>2 DEF TokensHold
<1>4. used \subseteq Tokens BY DEF TypeOK
<1>5. \A t \in used \ shaky', q \in Procs : Holds(mem'[q], t) => mem'[q].op = "done"
  BY <1>2, <1>4 DEF TokensHold
<1>6. ASSUME NEW t \in used \ shaky', reset'[t] # None
      PROVE  \E q \in Procs : Holds(mem'[q], t)
  <2>1. reset[t] # None BY <1>6
  <2>2. PICK q \in Procs : Holds(mem[q], t) BY <2>1 DEF TokensHold
  <2>3. Holds(mem'[q], t) BY <1>1, <1>6, <2>2
  <2> QED BY <2>3
<1>7. TokensWorkOnce' BY DEF TokensHold, TokensWorkOnce
<1> QED BY <1>3, <1>5, <1>6, <1>7 DEF TokensHold

(* A step that only moves a handler, or proves a mail.                     *)
LEMMA MovesOnly ==
  ASSUME AccountInv, NEW p \in Procs, NEW m \in Memory,
         mem' = [mem EXCEPT ![p] = m],
         Fits(m, mailOf, proven', excused),
         \A t \in Tokens : Holds(m, t) <=> Holds(mem[p], t), mem[p].op # "done",
         proven \subseteq proven', proven' \subseteq Mails,
         UNCHANGED <<row, mailOf, redisVars, latest, excused, tokenVars>>
  PROVE  AccountInv'
<1>0. UNCHANGED <<row, mailOf, reset, jobs, inbox, latest, excused, used, reused, shaky>>
  BY DEF redisVars, tokenVars
<1>1. TypeOK /\ TokensHold /\ HandlersFit BY DEF AccountInv
<1>2. mem' \in [Procs -> Memory] /\ HandlersFit'
  BY <1>0, <1>1, HandlersStep DEF Ever
<1>3. used \subseteq Tokens BY <1>1 DEF TypeOK
<1>4. TokensHold' BY <1>0, <1>1, <1>3, TokensStep
<1>5. TypeOK' BY <1>0, <1>1, <1>2 DEF TypeOK, Rows, Ever, Mail
<1>6. RowsHold' /\ LinksHold'
  BY <1>0 DEF AccountInv, RowsHold, LinksHold, OneAccountPerMail, VerifiedHavePhone,
              VerifiedVouched, PasswordsNeverRevert, Rows, Ever
<1> QED BY <1>2, <1>4, <1>5, <1>6 DEF AccountInv

-----------------------------------------------------------------------------
(* Steps that read.                                                        *)

(* A handler without a token holds none.                                   *)
LEMMA NoToken ==
  ASSUME NEW m, m.token = None
  PROVE  \A t \in Tokens : ~ Holds(m, t)
  BY NoneAssumption DEF Holds

LEMMA RegisterLooksUpStep ==
  ASSUME AccountInv, NEW p \in Procs, NEW e \in Mails, NEW phone \in BOOLEAN,
         NEW w \in Passwords, RegisterLooksUp(p, e, phone, w)
  PROVE  AccountInv'
<1> DEFINE u == [mail |-> e, phone |-> phone, verified |-> FALSE, password |-> w]
<1> DEFINE m == [Idle EXCEPT !.op = "insert", !.user = u]
<1>1. u \in Row /\ u.password = w /\ u.verified = FALSE BY DEF Row
<1>2. w # None BY NoneAssumption
<1> HIDE DEF u
<1>3. m \in Memory /\ m.op = "insert" /\ m.user = u /\ m.token = None BY <1>1 DEF Idle, Memory
<1>4. mem[p] = Idle /\ mem' = [mem EXCEPT ![p] = m] BY DEF RegisterLooksUp, Goes, u
<1>5. UNCHANGED <<row, mailOf, redisVars, historyVars>> BY DEF RegisterLooksUp, Reading
<1>6. proven \subseteq Mails BY DEF AccountInv, TypeOK
<1> HIDE DEF m
<1>7. Fits(m, mailOf, proven, excused) BY <1>1, <1>2, <1>3 DEF Fits, Saving
<1>8. \A t \in Tokens : Holds(m, t) <=> Holds(mem[p], t) BY <1>3, <1>4, IdleFits, NoToken
<1>9. mem[p].op # "done" BY <1>4 DEF Idle
<1> QED BY <1>3, <1>4, <1>5, <1>6, <1>7, <1>8, <1>9, MovesOnly DEF historyVars

(* A handler that loads an account to verify or to edit it.                *)
LEMMA LoadsStep ==
  ASSUME AccountInv, NEW p \in Procs, NEW m \in Memory, mem[p] = Idle,
         mem' = [mem EXCEPT ![p] = m], m.op \in {"vouch", "verify", "edit"},
         Fits(m, mailOf, proven', excused),
         proven \subseteq proven', proven' \subseteq Mails,
         UNCHANGED <<row, mailOf, redisVars, latest, excused, tokenVars>>
  PROVE  AccountInv'
<1>1. m.token = None BY DEF Fits
<1>2. \A t \in Tokens : Holds(m, t) <=> Holds(mem[p], t) BY <1>1, IdleFits, NoToken
<1>3. mem[p].op # "done" BY DEF Idle
<1> QED BY <1>2, <1>3, MovesOnly

LEMMA GoogleFindsStep ==
  ASSUME AccountInv, NEW p \in Procs, NEW i \in Rows, GoogleFinds(p, i)
  PROVE  AccountInv'
<1> DEFINE u == [Loaded(i) EXCEPT !.verified = TRUE]
<1> DEFINE m == [Idle EXCEPT !.op = "vouch", !.id = i, !.user = u]
<1>1. TypeOK /\ i \in Ids BY DEF AccountInv, TypeOK
<1>2. /\ u \in Row /\ u.password = None /\ u.mail = row[i].mail /\ u.phone = row[i].phone
      /\ row[i].mail = mailOf[i] /\ i \in Ever /\ u.mail \in Mails
  BY <1>1, EntityLoaded DEF Row
<1>3. /\ mem[p] = Idle /\ row[i].phone /\ mem' = [mem EXCEPT ![p] = m]
      /\ proven' = proven \cup {row[i].mail}
      /\ UNCHANGED <<row, mailOf, redisVars, latest, excused, tokenVars>>
  BY DEF GoogleFinds, Goes
<1> HIDE DEF u
<1>4. /\ m \in Memory /\ m.op = "vouch" /\ m.id = i /\ m.user = u /\ m.token = None
      /\ m.chosen = None
  BY <1>1, <1>2 DEF Idle, Memory
<1> HIDE DEF m
<1>5. Fits(m, mailOf, proven', excused) BY <1>2, <1>3, <1>4 DEF Fits, Saving, Ever
<1>6. proven \subseteq proven' /\ proven' \subseteq Mails BY <1>1, <1>2, <1>3 DEF TypeOK
<1> QED BY <1>3, <1>4, <1>5, <1>6, LoadsStep

LEMMA VerifyReadsStep ==
  ASSUME AccountInv, NEW p \in Procs, NEW i \in Rows, VerifyReads(p, i)
  PROVE  AccountInv'
<1>0. PICK n \in inbox : n.token = None /\ VerifiesFrom(p, i, n) BY DEF VerifyReads
<1> DEFINE u == [Loaded(i) EXCEPT !.verified = TRUE]
<1> DEFINE m == [Idle EXCEPT !.op = "verify", !.id = i, !.by = n.by, !.user = u]
<1>1. TypeOK /\ i \in Ids /\ n \in Mail BY DEF AccountInv, TypeOK
<1>2. /\ u \in Row /\ u.password = None /\ u.mail = row[i].mail /\ u.phone = row[i].phone
      /\ row[i].mail = mailOf[i] /\ i \in Ever
  BY <1>1, EntityLoaded DEF Row
<1>3. /\ mem[p] = Idle /\ n.mail = row[i].mail /\ mem' = [mem EXCEPT ![p] = m]
      /\ UNCHANGED <<row, mailOf, redisVars, historyVars>>
  BY <1>0 DEF VerifiesFrom, Goes, Reading
<1>4. /\ n.by \in Ever /\ n.mail \in proven
      /\ n.by = i => row[i].phone \/ i \in excused
  BY <1>0 DEF AccountInv, LinksHold
<1>5. n.by # None BY <1>1, <1>4, NoneAssumption DEF TypeOK
<1> HIDE DEF u
<1>6. /\ m \in Memory /\ m.op = "verify" /\ m.id = i /\ m.user = u /\ m.token = None
      /\ m.chosen = None /\ m.by = n.by
  BY <1>1, <1>2 DEF Idle, Memory, Mail
<1> HIDE DEF m
<1>7. Fits(m, mailOf, proven, excused)
  BY <1>2, <1>3, <1>4, <1>5, <1>6 DEF Fits, Saving, Ever
<1>8. proven \subseteq Mails BY <1>1 DEF TypeOK
<1>9. UNCHANGED <<row, mailOf, redisVars, proven, latest, excused, tokenVars>>
  BY <1>3 DEF historyVars
<1> QED BY <1>3, <1>6, <1>7, <1>8, <1>9, LoadsStep

LEMMA EditReadsStep ==
  ASSUME AccountInv, NEW p \in Procs, NEW i \in Rows, NEW phone \in BOOLEAN,
         NEW w \in Passwords \cup {None}, EditReads(p, i, phone, w)
  PROVE  AccountInv'
<1> DEFINE u == [Loaded(i) EXCEPT !.phone = @ \/ phone,
                                  !.password = IF w = None THEN @ ELSE w]
<1> DEFINE m == [Idle EXCEPT !.op = "edit", !.id = i, !.chosen = w, !.user = u]
<1>1. TypeOK /\ i \in Ids BY DEF AccountInv, TypeOK
<1>2. /\ u \in Row /\ u.password = w /\ u.mail = row[i].mail
      /\ row[i].phone => u.phone
      /\ u.verified = row[i].verified
      /\ row[i].mail = mailOf[i] /\ i \in Ever
  BY <1>1, EntityLoaded DEF Row
<1>3. /\ mem[p] = Idle /\ mem' = [mem EXCEPT ![p] = m]
      /\ UNCHANGED <<row, mailOf, redisVars, historyVars>>
  BY DEF EditReads, Goes, Reading
<1> HIDE DEF u
<1>4. /\ m \in Memory /\ m.op = "edit" /\ m.id = i /\ m.user = u /\ m.token = None
      /\ m.chosen = w
  BY <1>1, <1>2 DEF Idle, Memory
<1>5. /\ row[i].verified => row[i].mail \in proven
      /\ row[i].verified => row[i].phone \/ i \in excused
  BY DEF AccountInv, RowsHold, VerifiedVouched, VerifiedHavePhone
<1> HIDE DEF m
<1>6. Fits(m, mailOf, proven, excused) BY <1>2, <1>4, <1>5 DEF Fits, Saving, Ever
<1>7. proven \subseteq Mails BY <1>1 DEF TypeOK
<1>8. UNCHANGED <<row, mailOf, redisVars, proven, latest, excused, tokenVars>>
  BY <1>3 DEF historyVars
<1> QED BY <1>3, <1>4, <1>6, <1>7, <1>8, LoadsStep

LEMMA ResetLoadsStep ==
  ASSUME AccountInv, NEW p \in Procs, NEW w \in Passwords, ResetLoads(p, w)
  PROVE  AccountInv'
<1> DEFINE i == mem[p].id
<1> DEFINE u == [Loaded(i) EXCEPT !.password = w]
<1> DEFINE m == [mem[p] EXCEPT !.op = "reset", !.chosen = w, !.user = u]
<1>1. TypeOK /\ i \in Rows /\ mem[p] \in Memory /\ mem[p].op = "hash"
      /\ Fits(mem[p], mailOf, proven, excused)
  BY DEF ResetLoads, At, AccountInv, TypeOK, HandlersFit
<1>2. /\ u \in Row /\ u.password = w /\ u.mail = row[i].mail
      /\ u.phone = row[i].phone /\ u.verified = row[i].verified
      /\ row[i].mail = mailOf[i] /\ i \in Ever
  BY <1>1, EntityLoaded DEF Row
<1>3. mem' = [mem EXCEPT ![p] = m] /\ UNCHANGED <<row, mailOf, redisVars, historyVars>>
  BY DEF ResetLoads, Goes, Reading
<1> HIDE DEF u
<1>4. /\ m \in Memory /\ m.op = "reset" /\ m.id = i /\ m.user = u
      /\ m.token = mem[p].token /\ m.chosen = w
  BY <1>1, <1>2 DEF Memory
<1>5. /\ row[i].verified => row[i].mail \in proven
      /\ row[i].verified => row[i].phone \/ i \in excused
  BY <1>1 DEF AccountInv, RowsHold, VerifiedVouched, VerifiedHavePhone
<1> HIDE DEF m
<1>6. Fits(m, mailOf, proven, excused) BY <1>1, <1>2, <1>4, <1>5 DEF Fits, Saving, Ever
<1>7. \A t \in Tokens : Holds(m, t) <=> Holds(mem[p], t) BY <1>1, <1>4 DEF Holds
<1>8. proven \subseteq Mails BY <1>1 DEF TypeOK
<1>9. UNCHANGED <<row, mailOf, redisVars, proven, latest, excused, tokenVars>>
  BY <1>3 DEF historyVars
<1> QED BY <1>1, <1>3, <1>4, <1>6, <1>7, <1>8, <1>9, MovesOnly

-----------------------------------------------------------------------------
(* Reset tokens.                                                           *)

LEMMA RowsUntouched ==
  ASSUME AccountInv, UNCHANGED <<row, mailOf, proven, latest, excused>>
  PROVE  /\ RowsHold' /\ Rows' = Rows /\ Ever' = Ever
         /\ \A i \in Ever : i \in DOMAIN mailOf' /\ mailOf'[i] = mailOf[i]
  BY DEF AccountInv, RowsHold, OneAccountPerMail, VerifiedHavePhone, VerifiedVouched,
         PasswordsNeverRevert, Rows, Ever

LEMMA ForgotSetsStep ==
  ASSUME AccountInv, NEW p \in Procs, NEW i \in Rows, NEW t \in Tokens, ForgotSets(p, i, t)
  PROVE  AccountInv'
<1> DEFINE m == [Idle EXCEPT !.op = "set", !.id = i, !.token = t]
<1>1. TypeOK /\ TokensHold /\ HandlersFit /\ i \in Ids /\ i \in Ever
  BY DEF AccountInv, TypeOK
<1>2. /\ mem[p] = Idle /\ mem' = [mem EXCEPT ![p] = m] /\ t \notin used
      /\ reset' = [reset EXCEPT ![t] = i]
      /\ UNCHANGED <<row, mailOf, jobs, inbox, proven, latest, excused, used, reused, shaky>>
  BY DEF ForgotSets, Goes, historyVars, tokenVars
<1>3. m \in Memory /\ m.op = "set" /\ m.id = i /\ m.token = t BY <1>1 DEF Idle, Memory
<1> HIDE DEF m
<1>4. Fits(m, mailOf, proven, excused) BY <1>1, <1>3, NoneAssumption DEF Fits, Saving, Ever
<1>5. mem' \in [Procs -> Memory] /\ HandlersFit'
  BY <1>1, <1>2, <1>3, <1>4, HandlersStep DEF Ever
<1>6. \A s \in Tokens : ~ Holds(m, s) /\ ~ Holds(mem[p], s)
  BY <1>2, <1>3, IdleFits DEF Holds
<1>7. reset \in [Tokens -> Ever \cup {None}] /\ used \subseteq Tokens BY <1>1 DEF TypeOK
<1>8. \A s \in used : reset'[s] = reset[s] BY <1>2, <1>7
<1>9. TokensHold' BY <1>1, <1>2, <1>3, <1>6, <1>7, <1>8, TokensStep
<1>10. reset' \in [Tokens -> Ever \cup {None}] BY <1>1, <1>2, <1>7
<1>11. TypeOK' BY <1>1, <1>2, <1>5, <1>10 DEF TypeOK, Rows, Ever
<1>12. RowsHold' /\ LinksHold'
  BY <1>2, RowsUntouched DEF AccountInv, LinksHold
<1> QED BY <1>5, <1>9, <1>11, <1>12 DEF AccountInv

LEMMA ForgotQueuesStep ==
  ASSUME AccountInv, NEW p \in Procs, ForgotQueues(p)
  PROVE  AccountInv'
<1> DEFINE n == [mail |-> mailOf[mem[p].id], by |-> None, token |-> mem[p].token]
<1>1. /\ TypeOK /\ TokensHold /\ HandlersFit /\ mem[p] \in Memory /\ mem[p].op = "set"
      /\ Fits(mem[p], mailOf, proven, excused)
  BY DEF AccountInv, TypeOK, ForgotQueues, At, HandlersFit
<1>2. /\ mem' = [mem EXCEPT ![p] = Idle] /\ jobs' = jobs \cup {n}
      /\ UNCHANGED <<row, mailOf, reset, inbox, proven, latest, excused, used, reused, shaky>>
  BY DEF ForgotQueues, Goes, historyVars, tokenVars
<1>3. mem[p].token # None /\ mem[p].id \in Ever BY <1>1 DEF Fits, Ever
<1>4. n \in Mail /\ n.token # None BY <1>1, <1>3 DEF Mail, Memory, TypeOK
<1> HIDE DEF n
<1>5. mem' \in [Procs -> Memory] /\ HandlersFit'
  BY <1>1, <1>2, IdleFits, HandlersStep DEF Ever
<1>6. \A s \in Tokens : ~ Holds(Idle, s) /\ ~ Holds(mem[p], s)
  BY <1>1, IdleFits DEF Holds
<1>7. used \subseteq Tokens BY <1>1 DEF TypeOK
<1>8. TokensHold' BY <1>1, <1>2, <1>6, <1>7, IdleFits, TokensStep
<1>9. TypeOK' BY <1>1, <1>2, <1>4, <1>5 DEF TypeOK, Rows, Ever
<1>10. RowsHold' /\ LinksHold'
  BY <1>2, <1>4, RowsUntouched DEF AccountInv, LinksHold
<1> QED BY <1>5, <1>8, <1>9, <1>10 DEF AccountInv

LEMMA ResetReadsStep ==
  ASSUME AccountInv, NEW p \in Procs, NEW t \in Tokens, ResetReads(p, t)
  PROVE  AccountInv'
<1> DEFINE m == [Idle EXCEPT !.op = "hash", !.id = reset[t], !.token = t]
<1>1. TypeOK /\ TokensHold /\ HandlersFit BY DEF AccountInv
<1>2. /\ mem[p] = Idle /\ mem' = [mem EXCEPT ![p] = m] /\ reset[t] # None
      /\ shaky' = IF Holding(t, p) # {} THEN shaky \cup {t} ELSE shaky
      /\ UNCHANGED <<row, mailOf, reset, jobs, inbox, proven, latest, excused, used, reused>>
  BY DEF ResetReads, Goes, redisVars
<1>3. reset[t] \in Ever /\ reset[t] \in Ids BY <1>1, <1>2 DEF TypeOK
<1>4. m \in Memory /\ m.op = "hash" /\ m.id = reset[t] /\ m.token = t
  BY <1>3 DEF Idle, Memory
<1> HIDE DEF m
<1>5. Fits(m, mailOf, proven, excused) BY <1>3, <1>4, NoneAssumption DEF Fits, Saving, Ever
<1>6. mem' \in [Procs -> Memory] /\ HandlersFit'
  BY <1>1, <1>2, <1>4, <1>5, HandlersStep DEF Ever
<1>7. \A q \in Procs : mem'[q] = IF q = p THEN m ELSE mem[q] BY <1>1, <1>2 DEF TypeOK
<1>8. shaky \subseteq shaky' /\ shaky' \subseteq Tokens /\ used \subseteq Tokens
  BY <1>1, <1>2 DEF TypeOK
<1>9. ASSUME NEW q \in Procs, q # p, Holds(mem[q], t) PROVE t \in shaky'
  <2>1. q \in Holding(t, p) BY <1>9 DEF Holding, Holds
  <2> QED BY <1>2, <2>1
<1>10. TokensHold'
  <2>1. \A s \in Tokens : \A q, r \in Procs :
          q # r /\ Holds(mem'[q], s) /\ Holds(mem'[r], s) => s \in shaky'
    BY <1>1, <1>4, <1>7, <1>8, <1>9 DEF TokensHold, Holds
  <2>2. t \notin used \ shaky'
    <3> SUFFICES ASSUME t \in used, t \notin shaky PROVE t \in shaky'
      BY <1>8
    <3>1. PICK q \in Procs : Holds(mem[q], t) BY <1>1, <1>2 DEF TokensHold
    <3>2. q # p BY <1>2, <3>1, IdleFits
    <3> QED BY <1>9, <3>1, <3>2
  <2>3. ASSUME NEW s \in used \ shaky'
        PROVE  /\ \A q \in Procs : Holds(mem'[q], s) => mem'[q].op = "done"
               /\ reset'[s] # None => \E q \in Procs : Holds(mem'[q], s)
    <3>1. s \in used \ shaky /\ s # t /\ s \in Tokens BY <1>8, <2>2, <2>3
    <3>2. \A q \in Procs : Holds(mem'[q], s) <=> Holds(mem[q], s)
      BY <1>2, <1>4, <1>7, <3>1, IdleFits DEF Holds
    <3>3. ~ Holds(mem'[p], s) BY <1>4, <1>7, <3>1 DEF Holds
    <3> QED BY <1>1, <1>2, <1>7, <3>1, <3>2, <3>3 DEF TokensHold
  <2>4. TokensWorkOnce' BY <1>1, <1>2, <1>8 DEF TokensHold, TokensWorkOnce
  <2> QED BY <1>2, <2>1, <2>3, <2>4 DEF TokensHold
<1>11. TypeOK' BY <1>1, <1>2, <1>6, <1>8 DEF TypeOK, Rows, Ever
<1>12. RowsHold' /\ LinksHold'
  BY <1>2, RowsUntouched DEF AccountInv, LinksHold
<1> QED BY <1>6, <1>10, <1>11, <1>12 DEF AccountInv

LEMMA ResetDeletesStep ==
  ASSUME AccountInv, NEW p \in Procs, ResetDeletes(p)
  PROVE  AccountInv'
<1> DEFINE t == mem[p].token
<1>1. /\ TypeOK /\ TokensHold /\ HandlersFit /\ mem[p] \in Memory /\ mem[p].op = "done"
      /\ Fits(mem[p], mailOf, proven, excused)
  BY DEF AccountInv, TypeOK, ResetDeletes, EndsWith, At, HandlersFit
<1>2. /\ mem' = [mem EXCEPT ![p] = Idle] /\ reset' = [reset EXCEPT ![t] = None]
      /\ UNCHANGED <<row, mailOf, jobs, inbox, proven, latest, excused, used, reused, shaky>>
  BY DEF ResetDeletes, EndsWith, Goes, historyVars, tokenVars
<1>3. t \in Tokens BY <1>1 DEF Fits, Memory
<1>4. mem' \in [Procs -> Memory] /\ HandlersFit'
  BY <1>1, <1>2, IdleFits, HandlersStep DEF Ever
<1>5. reset \in [Tokens -> Ever \cup {None}] /\ used \subseteq Tokens BY <1>1 DEF TypeOK
<1>6. \A s \in Tokens : reset'[s] = IF s = t THEN None ELSE reset[s] BY <1>2, <1>5
<1>7. \A s \in Tokens : Holds(mem[p], s) => reset'[s] = None BY <1>6 DEF Holds
<1>8. TokensHold' BY <1>1, <1>2, <1>5, <1>6, <1>7, IdleFits, TokensStep
<1>9. reset' \in [Tokens -> Ever \cup {None}] BY <1>2, <1>5
<1>10. TypeOK' BY <1>1, <1>2, <1>4, <1>9 DEF TypeOK, Rows, Ever
<1>11. RowsHold' /\ LinksHold'
  BY <1>2, RowsUntouched DEF AccountInv, LinksHold
<1> QED BY <1>4, <1>8, <1>10, <1>11 DEF AccountInv

LEMMA TokenExpiresStep ==
  ASSUME AccountInv, NEW t \in Tokens, TokenExpires(t)
  PROVE  AccountInv'
<1>1. TypeOK /\ TokensHold BY DEF AccountInv
<1>2. /\ reset' = [reset EXCEPT ![t] = None]
      /\ UNCHANGED <<row, mailOf, jobs, inbox, mem, proven, latest, excused,
                     used, reused, shaky>>
  BY DEF TokenExpires, historyVars, tokenVars
<1>3. reset \in [Tokens -> Ever \cup {None}] /\ used \subseteq Tokens BY <1>1 DEF TypeOK
<1>4. \A s \in Tokens : reset'[s] \in {None, reset[s]} BY <1>2, <1>3
<1>5. TokensHold' BY <1>1, <1>2, <1>3, <1>4 DEF TokensHold, TokensWorkOnce
<1>6. reset' \in [Tokens -> Ever \cup {None}] BY <1>2, <1>3
<1>7. TypeOK' BY <1>1, <1>2, <1>6 DEF TypeOK, Rows, Ever
<1>8. RowsHold' /\ LinksHold' /\ HandlersFit'
  BY <1>2, RowsUntouched DEF AccountInv, LinksHold, HandlersFit
<1> QED BY <1>5, <1>7, <1>8 DEF AccountInv

LEMMA AbortStep ==
  ASSUME AccountInv, NEW p \in Procs, Abort(p)
  PROVE  AccountInv'
<1>1. /\ TypeOK /\ TokensHold /\ HandlersFit /\ mem[p] \in Memory
      /\ Fits(mem[p], mailOf, proven, excused)
  BY DEF AccountInv, TypeOK, HandlersFit
<1>2. /\ mem' = [mem EXCEPT ![p] = Idle]
      /\ shaky' = IF At(p, "done") THEN shaky \cup {mem[p].token} ELSE shaky
      /\ UNCHANGED <<row, mailOf, reset, jobs, inbox, proven, latest, excused, used, reused>>
  BY DEF Abort, Goes, redisVars
<1>3. shaky \subseteq shaky' /\ shaky' \subseteq Tokens /\ used \subseteq Tokens
  BY <1>1, <1>2 DEF TypeOK, Fits, Memory, At
<1>4. \A s \in used \ shaky' : ~ Holds(mem[p], s)
  BY <1>1, <1>2 DEF TokensHold, Holds, At
<1>5. mem' \in [Procs -> Memory] /\ HandlersFit'
  BY <1>1, <1>2, IdleFits, HandlersStep DEF Ever
<1>6. TokensHold' BY <1>1, <1>2, <1>3, <1>4, IdleFits, TokensStep
<1>7. TypeOK' BY <1>1, <1>2, <1>3, <1>5 DEF TypeOK, Rows, Ever
<1>8. RowsHold' /\ LinksHold'
  BY <1>2, RowsUntouched DEF AccountInv, LinksHold
<1> QED BY <1>5, <1>6, <1>7, <1>8 DEF AccountInv

-----------------------------------------------------------------------------
(* Steps that write rows.                                                  *)

LEMMA SavesRow ==
  ASSUME AccountInv, NEW p \in Procs, mem[p].op \in Saving,
         SaveUser(mem[p].id, mem[p].user, mem[p].chosen),
         NEW X, X \subseteq {mem[p].id},
         mem[p].op = "verify" /\ mem[p].by \notin {None, mem[p].id} => mem[p].id \in X,
         excused' = excused \cup LosesPhone(mem[p].id, mem[p].user) \cup X,
         UNCHANGED <<mailOf, jobs, inbox, proven>>
  PROVE  /\ Rows' \subseteq Ever
         /\ \A j \in Rows' : /\ row'[j] \in Row /\ row'[j].password # None
                             /\ row'[j].mail = mailOf[j]
         /\ latest' \in [Rows' -> Passwords]
         /\ excused \subseteq excused' /\ excused' \subseteq Ever
         /\ RowsHold' /\ LinksHold'
<1> DEFINE i == mem[p].id
<1> DEFINE u == mem[p].user
<1> DEFINE w == mem[p].chosen
<1> DEFINE new == [u EXCEPT !.password = IF u.password = None /\ i \in Rows
                                           THEN row[i].password ELSE u.password]
<1> DEFINE last == IF w # None THEN w ELSE IF i \in Rows THEN latest[i] ELSE u.password
<1>1. TypeOK /\ RowsHold /\ LinksHold /\ Fits(mem[p], mailOf, proven, excused)
  BY DEF AccountInv, HandlersFit
<1>2. /\ i \in Ever /\ u \in Row /\ u.mail = mailOf[i] /\ u.password = w
      /\ u.verified => u.mail \in proven
      /\ \/ ~ u.verified \/ u.phone \/ i \in excused
         \/ mem[p].op = "verify" /\ mem[p].by \notin {None, i}
  BY <1>1 DEF Fits, Ever
<1>3. /\ i \notin Rows => u.password # None
      /\ Free(u.mail, i)
      /\ row' = [x \in Rows \cup {i} |-> IF x # i THEN row[x] ELSE new]
      /\ latest' = [x \in Rows \cup {i} |-> IF x # i THEN latest[x] ELSE last]
  BY DEF SaveUser, Written
<1>4. /\ Rows \subseteq Ever /\ latest \in [Rows -> Passwords]
      /\ \A j \in Rows : /\ row[j] \in Row /\ row[j].password # None
                         /\ row[j].mail = mailOf[j] /\ row[j].password = latest[j]
  BY <1>1 DEF TypeOK, RowsHold, PasswordsNeverRevert
<1>5. new \in Row /\ new.mail = u.mail /\ new.phone = u.phone /\ new.verified = u.verified
      /\ new.password = IF u.password = None /\ i \in Rows THEN row[i].password
                        ELSE u.password
  <2>1. CASE u.password = None /\ i \in Rows
    <3>1. row[i].password \in Passwords \cup {None} BY <1>4, <2>1 DEF Row
    <3> QED BY <1>2, <2>1, <3>1 DEF Row
  <2>2. CASE ~ (u.password = None /\ i \in Rows) BY <1>2, <2>2 DEF Row
  <2> QED BY <2>1, <2>2
<1> HIDE DEF new
<1>6. new.password = last /\ new.password # None
  BY <1>2, <1>3, <1>4, <1>5
<1>7. last \in Passwords BY <1>5, <1>6 DEF Row
<1> HIDE DEF last
<1>8. /\ Rows' = Rows \cup {i} /\ DOMAIN latest' = Rows \cup {i}
      /\ \A j \in Rows : j # i => row'[j] = row[j] /\ latest'[j] = latest[j]
      /\ row'[i] = new /\ latest'[i] = last
  BY <1>3 DEF Rows
<1>9. latest' \in [Rows' -> Passwords] BY <1>3, <1>4, <1>7, <1>8
<1>10. \A j \in Rows' : /\ row'[j] \in Row /\ row'[j].password # None
                        /\ row'[j].mail = mailOf[j] /\ row'[j].password = latest'[j]
  <2>1. ASSUME NEW j \in Rows', j # i
        PROVE  /\ row'[j] \in Row /\ row'[j].password # None
               /\ row'[j].mail = mailOf[j] /\ row'[j].password = latest'[j]
    BY <1>4, <1>8, <2>1
  <2> QED BY <1>2, <1>5, <1>6, <1>8, <2>1
<1>11. excused \subseteq excused' /\ excused' \subseteq Ever
  <2>1. excused \subseteq Ever BY <1>1 DEF TypeOK
  <2> QED BY <1>2, <2>1 DEF LosesPhone
<1>12. ~ u.phone => i \in excused' \/ (i \in Rows /\ ~ row[i].phone) BY DEF LosesPhone
<1>13. u.verified => u.phone \/ i \in excused' BY <1>2, <1>11
<1>14. RowsHold'
  <2>1. OneAccountPerMail'
    <3>1. OneAccountPerMail BY <1>1 DEF RowsHold
    <3>2. \A j \in Rows : row[j].mail = u.mail => j = i BY <1>3 DEF Free
    <3> QED BY <1>5, <1>8, <3>1, <3>2 DEF OneAccountPerMail
  <2>2. VerifiedHavePhone'
    <3>1. VerifiedHavePhone BY <1>1 DEF RowsHold
    <3> QED BY <1>5, <1>8, <1>11, <1>13, <3>1 DEF VerifiedHavePhone
  <2>3. VerifiedVouched'
    <3>1. VerifiedVouched BY <1>1 DEF RowsHold
    <3> QED BY <1>2, <1>5, <1>8, <3>1 DEF VerifiedVouched
  <2>4. PasswordsNeverRevert' BY <1>10 DEF PasswordsNeverRevert
  <2> QED BY <2>1, <2>2, <2>3, <2>4 DEF RowsHold
<1>15. LinksHold'
  <2>1. ASSUME NEW m \in jobs \cup inbox, m.token = None, m.by \in Rows'
        PROVE  row'[m.by].phone \/ m.by \in excused'
    <3>1. CASE m.by # i BY <1>1, <1>8, <1>11, <2>1, <3>1 DEF LinksHold
    <3>2. CASE m.by = i
      <4>1. i \in Rows => row[i].phone \/ i \in excused BY <1>1, <2>1, <3>2 DEF LinksHold
      <4> QED BY <1>5, <1>8, <1>11, <1>12, <3>2, <4>1
    <3> QED BY <3>1, <3>2
  <2>2. Ever' = Ever BY DEF Ever
  <2> QED BY <1>1, <2>1, <2>2 DEF LinksHold
<1> QED BY <1>2, <1>4, <1>8, <1>9, <1>10, <1>11, <1>14, <1>15

LEMMA VerifySavesStep ==
  ASSUME AccountInv, NEW p \in Procs, VerifySaves(p)
  PROVE  AccountInv'
<1> DEFINE X == IF mem[p].by \in {None, mem[p].id} THEN {} ELSE {mem[p].id}
<1>1. /\ TypeOK /\ TokensHold /\ HandlersFit /\ mem[p] \in Memory
      /\ mem[p].op \in {"verify", "vouch"} /\ mem[p].op \in Saving
  BY DEF AccountInv, TypeOK, VerifySaves, Saving
<1>2. /\ mem' = [mem EXCEPT ![p] = Idle]
      /\ SaveUser(mem[p].id, mem[p].user, mem[p].chosen)
      /\ excused' = excused \cup LosesPhone(mem[p].id, mem[p].user) \cup X
      /\ UNCHANGED <<mailOf, reset, jobs, inbox, proven, used, reused, shaky>>
  BY DEF VerifySaves, Goes, redisVars, tokenVars
<1>3. X \subseteq {mem[p].id} OBVIOUS
<1>4. mem[p].op = "verify" /\ mem[p].by \notin {None, mem[p].id} => mem[p].id \in X
  OBVIOUS
<1> HIDE DEF X
<1>5. /\ Rows' \subseteq Ever
      /\ \A j \in Rows' : /\ row'[j] \in Row /\ row'[j].password # None
                          /\ row'[j].mail = mailOf[j]
      /\ latest' \in [Rows' -> Passwords]
      /\ excused \subseteq excused' /\ excused' \subseteq Ever
      /\ RowsHold' /\ LinksHold'
  BY <1>1, <1>2, <1>3, <1>4, SavesRow
<1>6. mem' \in [Procs -> Memory] /\ HandlersFit'
  BY <1>1, <1>2, <1>5, IdleFits, HandlersStep DEF Ever
<1>7. \A t \in Tokens : ~ Holds(mem[p], t) BY <1>1 DEF Holds
<1>8. used \subseteq Tokens BY <1>1 DEF TypeOK
<1>9. TokensHold' BY <1>1, <1>2, <1>7, <1>8, IdleFits, TokensStep
<1>10. TypeOK' BY <1>1, <1>2, <1>5, <1>6 DEF TypeOK, Ever
<1> QED BY <1>5, <1>6, <1>9, <1>10 DEF AccountInv

LEMMA EditSavesStep ==
  ASSUME AccountInv, NEW p \in Procs, EditSaves(p)
  PROVE  AccountInv'
<1> DEFINE X == {}
<1>1. /\ TypeOK /\ TokensHold /\ HandlersFit /\ mem[p] \in Memory
      /\ mem[p].op = "edit" /\ mem[p].op \in Saving
  BY DEF AccountInv, TypeOK, EditSaves, At, Saving
<1>2. /\ mem' = [mem EXCEPT ![p] = Idle]
      /\ SaveUser(mem[p].id, mem[p].user, mem[p].chosen)
      /\ excused' = excused \cup LosesPhone(mem[p].id, mem[p].user) \cup X
      /\ UNCHANGED <<mailOf, reset, jobs, inbox, proven, used, reused, shaky>>
  BY DEF EditSaves, Goes, redisVars, tokenVars
<1>3. X \subseteq {mem[p].id} OBVIOUS
<1> HIDE DEF X
<1>4. /\ Rows' \subseteq Ever
      /\ \A j \in Rows' : /\ row'[j] \in Row /\ row'[j].password # None
                          /\ row'[j].mail = mailOf[j]
      /\ latest' \in [Rows' -> Passwords]
      /\ excused \subseteq excused' /\ excused' \subseteq Ever
      /\ RowsHold' /\ LinksHold'
  BY <1>1, <1>2, <1>3, SavesRow
<1>5. mem' \in [Procs -> Memory] /\ HandlersFit'
  BY <1>1, <1>2, <1>4, IdleFits, HandlersStep DEF Ever
<1>6. \A t \in Tokens : ~ Holds(mem[p], t) BY <1>1 DEF Holds
<1>7. used \subseteq Tokens BY <1>1 DEF TypeOK
<1>8. TokensHold' BY <1>1, <1>2, <1>6, <1>7, IdleFits, TokensStep
<1>9. TypeOK' BY <1>1, <1>2, <1>4, <1>5 DEF TypeOK, Ever
<1> QED BY <1>4, <1>5, <1>8, <1>9 DEF AccountInv

LEMMA ResetSavesStep ==
  ASSUME AccountInv, NEW p \in Procs, ResetSaves(p)
  PROVE  AccountInv'
<1> DEFINE X == {}
<1> DEFINE t == mem[p].token
<1> DEFINE m == [Idle EXCEPT !.op = "done", !.token = t]
<1>1. /\ TypeOK /\ TokensHold /\ HandlersFit /\ mem[p] \in Memory
      /\ mem[p].op = "reset" /\ mem[p].op \in Saving
      /\ Fits(mem[p], mailOf, proven, excused)
  BY DEF AccountInv, TypeOK, ResetSaves, At, Saving, HandlersFit
<1>2. /\ mem' = [mem EXCEPT ![p] = m]
      /\ SaveUser(mem[p].id, mem[p].user, mem[p].chosen)
      /\ excused' = excused \cup LosesPhone(mem[p].id, mem[p].user) \cup X
      /\ used' = used \cup {t}
      /\ reused' = IF t \in used THEN reused \cup {t} ELSE reused
      /\ UNCHANGED <<mailOf, reset, jobs, inbox, proven, shaky>>
  BY DEF ResetSaves, Goes, redisVars
<1>3. t \in Tokens BY <1>1 DEF Fits, Memory
<1>4. m \in Memory /\ m.op = "done" /\ m.token = t BY <1>3 DEF Idle, Memory
<1>5. X \subseteq {mem[p].id} OBVIOUS
<1> HIDE DEF m, X
<1>6. /\ Rows' \subseteq Ever
      /\ \A j \in Rows' : /\ row'[j] \in Row /\ row'[j].password # None
                          /\ row'[j].mail = mailOf[j]
      /\ latest' \in [Rows' -> Passwords]
      /\ excused \subseteq excused' /\ excused' \subseteq Ever
      /\ RowsHold' /\ LinksHold'
  BY <1>1, <1>2, <1>5, SavesRow
<1>7. Fits(m, mailOf', proven', excused') BY <1>3, <1>4, NoneAssumption DEF Fits, Saving
<1>8. mem' \in [Procs -> Memory] /\ HandlersFit'
  BY <1>1, <1>2, <1>4, <1>6, <1>7, HandlersStep DEF Ever
<1>9. used \subseteq Tokens /\ \A q \in Procs : mem'[q] = IF q = p THEN m ELSE mem[q]
  BY <1>1, <1>2 DEF TypeOK
<1>10. \A s \in Tokens, q \in Procs : Holds(mem'[q], s) <=> Holds(mem[q], s)
  BY <1>1, <1>4, <1>9 DEF Holds
<1>11. TokensHold'
  <2>1. t \in used => t \in shaky BY <1>1 DEF TokensHold, Holds
  <2>2. TokensWorkOnce' BY <1>1, <1>2, <2>1 DEF TokensHold, TokensWorkOnce
  <2>3. \A s \in Tokens : \A q, r \in Procs :
          q # r /\ Holds(mem'[q], s) /\ Holds(mem'[r], s) => s \in shaky'
    BY <1>1, <1>2, <1>10 DEF TokensHold
  <2>4. ASSUME NEW s \in used' \ shaky'
        PROVE  /\ \A q \in Procs : Holds(mem'[q], s) => mem'[q].op = "done"
               /\ reset'[s] # None => \E q \in Procs : Holds(mem'[q], s)
    <3>1. CASE s = t
      <4>1. Holds(mem[p], t) BY <1>1 DEF Holds
      <4>2. \A q \in Procs : Holds(mem[q], t) => q = p
        BY <1>1, <1>2, <1>3, <2>4, <3>1, <4>1 DEF TokensHold
      <4> QED BY <1>3, <1>4, <1>9, <1>10, <3>1, <4>1, <4>2
    <3>2. CASE s # t
      <4>1. s \in used \ shaky /\ s \in Tokens BY <1>2, <1>9, <2>4, <3>2
      <4>2. ~ Holds(mem'[p], s) BY <1>4, <1>9, <3>2 DEF Holds
      <4> QED BY <1>1, <1>2, <1>9, <1>10, <4>1, <4>2 DEF TokensHold
    <3> QED BY <3>1, <3>2
  <2> QED BY <2>2, <2>3, <2>4 DEF TokensHold
<1>12. reused' \subseteq Tokens /\ used' \subseteq Tokens BY <1>1, <1>2, <1>3 DEF TypeOK
<1>13. TypeOK' BY <1>1, <1>2, <1>6, <1>8, <1>12 DEF TypeOK, Ever
<1> QED BY <1>6, <1>8, <1>11, <1>13 DEF AccountInv

LEMMA RegisterInsertsStep ==
  ASSUME AccountInv, NEW p \in Procs, NEW i \in Ids, RegisterInserts(p, i)
  PROVE  AccountInv'
<1> DEFINE u == mem[p].user
<1>1. /\ TypeOK /\ TokensHold /\ HandlersFit /\ RowsHold /\ LinksHold
      /\ mem[p] \in Memory /\ mem[p].op = "insert" /\ Fits(mem[p], mailOf, proven, excused)
  BY DEF AccountInv, TypeOK, RegisterInserts, InsertsWhen, At, HandlersFit
<1>2. /\ i \notin Ever /\ Free(u.mail, i) /\ mem' = [mem EXCEPT ![p] = Idle]
      /\ row' = [x \in Rows \cup {i} |-> IF x = i THEN u ELSE row[x]]
      /\ mailOf' = [x \in Ever \cup {i} |-> IF x = i THEN u.mail ELSE mailOf[x]]
      /\ latest' = [x \in Rows \cup {i} |-> IF x = i THEN u.password ELSE latest[x]]
      /\ UNCHANGED <<reset, jobs, inbox, proven, excused, used, reused, shaky>>
  BY DEF RegisterInserts, InsertsWhen, Goes, redisVars, tokenVars
<1>3. u \in Row /\ u.password # None /\ ~ u.verified BY <1>1 DEF Fits
<1>4. u.mail \in Mails /\ u.password \in Passwords BY <1>3 DEF Row
<1>5. /\ Rows' = Rows \cup {i} /\ Ever' = Ever \cup {i} /\ i \notin Rows
      /\ row'[i] = u /\ mailOf'[i] = u.mail /\ latest'[i] = u.password
      /\ \A j \in Rows : row'[j] = row[j] /\ latest'[j] = latest[j]
      /\ \A j \in Ever : mailOf'[j] = mailOf[j]
  BY <1>1, <1>2 DEF Rows, Ever, TypeOK
<1>6. mem' \in [Procs -> Memory] /\ HandlersFit'
  BY <1>1, <1>2, <1>5, IdleFits, HandlersStep DEF Ever
<1>7. \A t \in Tokens : ~ Holds(mem[p], t) BY <1>1 DEF Holds
<1>8. used \subseteq Tokens BY <1>1 DEF TypeOK
<1>9. TokensHold' BY <1>1, <1>2, <1>7, <1>8, IdleFits, TokensStep
<1>10. TypeOK'
  <2>1. \A j \in Rows' : /\ row'[j] \in Row /\ row'[j].password # None
                         /\ row'[j].mail = mailOf'[j]
    BY <1>1, <1>3, <1>5 DEF TypeOK
  <2>2. latest' \in [Rows' -> Passwords] BY <1>1, <1>2, <1>4, <1>5 DEF TypeOK
  <2>3. reset' \in [Tokens -> Ever' \cup {None}] BY <1>1, <1>2, <1>5 DEF TypeOK
  <2>4. Ever' \subseteq Ids /\ \A j \in Ever' : mailOf'[j] \in Mails
    BY <1>1, <1>4, <1>5 DEF TypeOK
  <2> QED BY <1>1, <1>2, <1>5, <1>6, <2>1, <2>2, <2>3, <2>4 DEF TypeOK
<1>11. RowsHold'
  <2>1. \A j \in Rows : row[j].mail = u.mail => j = i BY <1>2 DEF Free
  <2>2. OneAccountPerMail'
    BY <1>1, <1>5, <2>1 DEF RowsHold, OneAccountPerMail
  <2>3. VerifiedHavePhone' /\ VerifiedVouched'
    BY <1>1, <1>2, <1>3, <1>5 DEF RowsHold, VerifiedHavePhone, VerifiedVouched
  <2>4. PasswordsNeverRevert' BY <1>1, <1>5 DEF RowsHold, PasswordsNeverRevert
  <2> QED BY <2>2, <2>3, <2>4 DEF RowsHold
<1>12. LinksHold' BY <1>1, <1>2, <1>5 DEF LinksHold
<1> QED BY <1>6, <1>9, <1>10, <1>11, <1>12 DEF AccountInv

LEMMA DeleteUserStep ==
  ASSUME AccountInv, NEW i \in Rows, DeleteUser(i)
  PROVE  AccountInv'
<1>1. TypeOK /\ RowsHold /\ LinksHold BY DEF AccountInv
<1>2. /\ row' = [x \in Rows \ {i} |-> row[x]] /\ latest' = [x \in Rows \ {i} |-> latest[x]]
      /\ UNCHANGED <<mailOf, reset, jobs, inbox, mem, proven, excused, used, reused, shaky>>
  BY DEF DeleteUser, redisVars, tokenVars
<1>3. /\ Rows' = Rows \ {i} /\ Ever' = Ever
      /\ \A j \in Rows' : row'[j] = row[j] /\ latest'[j] = latest[j]
  BY <1>2 DEF Rows, Ever
<1>4. latest' \in [Rows' -> Passwords] BY <1>1, <1>2, <1>3 DEF TypeOK
<1>5. TypeOK' BY <1>1, <1>2, <1>3, <1>4 DEF TypeOK
<1>6. RowsHold'
  BY <1>1, <1>2, <1>3 DEF RowsHold, OneAccountPerMail, VerifiedHavePhone, VerifiedVouched,
                          PasswordsNeverRevert
<1>7. LinksHold' BY <1>1, <1>2, <1>3 DEF LinksHold
<1>8. HandlersFit' /\ TokensHold'
  BY <1>2 DEF AccountInv, HandlersFit, TokensHold, TokensWorkOnce
<1> QED BY <1>5, <1>6, <1>7, <1>8 DEF AccountInv

(* Mails are queued, sent, lost, and their links expire.                   *)
LEMMA MailsMove ==
  ASSUME AccountInv, jobs' \subseteq Mail, inbox' \subseteq Mail,
         \A m \in jobs' \cup inbox' : m.token = None =>
           m \in jobs \cup inbox
             \/ (m.by \in Rows /\ (row[m.by].phone \/ m.by \in excused)),
         \A m \in inbox' : m.token = None => m.mail \in proven',
         proven \subseteq proven', proven' \subseteq Mails,
         UNCHANGED <<row, mailOf, reset, mem, latest, excused, tokenVars>>
  PROVE  AccountInv'
<1>0. UNCHANGED <<used, reused, shaky>> BY DEF tokenVars
<1>1. TypeOK' BY <1>0 DEF AccountInv, TypeOK, Rows, Ever
<1>2. RowsHold'
  BY DEF AccountInv, RowsHold, OneAccountPerMail, VerifiedHavePhone, VerifiedVouched,
         PasswordsNeverRevert, Rows
<1>3. LinksHold' BY DEF AccountInv, LinksHold, TypeOK, Rows, Ever
<1>4. HandlersFit' BY DEF AccountInv, HandlersFit, Fits
<1>5. TokensHold' BY <1>0 DEF AccountInv, TokensHold, TokensWorkOnce
<1> QED BY <1>1, <1>2, <1>3, <1>4, <1>5 DEF AccountInv

LEMMA SendLinkStep ==
  ASSUME AccountInv, NEW p \in Procs, NEW i \in Rows, SendLink(p, i)
  PROVE  AccountInv'
<1> DEFINE n == [mail |-> row[i].mail, by |-> i, token |-> None]
<1>1. /\ row[i].phone /\ jobs' = jobs \cup {n}
      /\ UNCHANGED <<row, mailOf, reset, inbox, mem, historyVars>>
  BY DEF SendLink, LinkFor
<1>2. n \in Mail /\ n.by = i BY DEF AccountInv, TypeOK, Mail, Row
<1> HIDE DEF n
<1>3. jobs \subseteq Mail /\ inbox \subseteq Mail /\ proven \subseteq Mails
  BY DEF AccountInv, TypeOK
<1>4. \A m \in inbox : m.token = None => m.mail \in proven BY DEF AccountInv, LinksHold
<1> QED BY <1>1, <1>2, <1>3, <1>4, MailsMove DEF historyVars

LEMMA WorkersStep ==
  ASSUME AccountInv, NEW m \in Mail,
         \/ m \in jobs /\ (MailSent(m) \/ MailFails(m))
         \/ m \in inbox /\ LinkExpires(m)
  PROVE  AccountInv'
<1>1. jobs \subseteq Mail /\ inbox \subseteq Mail /\ proven \subseteq Mails /\ m.mail \in Mails
  BY DEF AccountInv, TypeOK, Mail
<1>2. \A n \in inbox : n.token = None => n.mail \in proven BY DEF AccountInv, LinksHold
<1>3. CASE m \in jobs /\ MailSent(m)
  <2>1. /\ jobs' = jobs \ {m} /\ inbox' = inbox \cup {m}
        /\ proven' = IF m.token = None THEN proven \cup {m.mail} ELSE proven
        /\ UNCHANGED <<row, mailOf, reset, mem, latest, excused, tokenVars>>
    BY <1>3 DEF MailSent
  <2> QED BY <1>1, <1>2, <1>3, <2>1, MailsMove
<1>4. CASE m \in jobs /\ MailFails(m)
  BY <1>1, <1>2, <1>4, MailsMove DEF MailFails, historyVars
<1>5. CASE m \in inbox /\ LinkExpires(m)
  BY <1>1, <1>2, <1>5, MailsMove DEF LinkExpires, historyVars
<1> QED BY <1>3, <1>4, <1>5

-----------------------------------------------------------------------------
LEMMA AccountInit == Init => AccountInv
<1> SUFFICES ASSUME Init PROVE AccountInv OBVIOUS
<1>1. /\ Rows = {} /\ Ever = {} /\ jobs = {} /\ inbox = {}
      /\ used = {} /\ reused = {} /\ shaky = {} /\ proven = {} /\ excused = {}
  BY DEF Init, Rows, Ever
<1>2. mem \in [Procs -> Memory] /\ HandlersFit
  BY IdleFits DEF Init, HandlersFit
<1>3. latest \in [Rows -> Passwords] /\ reset \in [Tokens -> Ever \cup {None}]
  BY <1>1 DEF Init
<1>4. TypeOK BY <1>1, <1>2, <1>3 DEF TypeOK
<1>5. RowsHold /\ LinksHold
  BY <1>1 DEF RowsHold, LinksHold, OneAccountPerMail, VerifiedHavePhone, VerifiedVouched,
              PasswordsNeverRevert
<1>6. TokensHold BY <1>1, IdleFits DEF Init, TokensHold, TokensWorkOnce
<1> QED BY <1>2, <1>4, <1>5, <1>6 DEF AccountInv

LEMMA AccountStep ==
  ASSUME AccountInv, [Next]_vars
  PROVE  AccountInv'
<1>1. ASSUME NEW p \in Procs, SignUpRequests(p) PROVE AccountInv'
  BY <1>1, RegisterLooksUpStep, GoogleFindsStep DEF SignUpRequests
<1>2. ASSUME NEW p \in Procs, MailRequests(p) PROVE AccountInv'
  BY <1>2, SendLinkStep, VerifyReadsStep, ForgotSetsStep, ResetReadsStep DEF MailRequests
<1>3. ASSUME NEW p \in Procs, AccountRequests(p) PROVE AccountInv'
  BY <1>3, EditReadsStep, DeleteUserStep DEF AccountRequests
<1>4. ASSUME NEW p \in Procs, NEW i \in Ids, RegisterInserts(p, i) PROVE AccountInv'
  BY <1>4, RegisterInsertsStep
<1>5. ASSUME NEW p \in Procs, NEW w \in Passwords, ResetLoads(p, w) PROVE AccountInv'
  BY <1>5, ResetLoadsStep
<1>6. ASSUME NEW p \in Procs, VerifySaves(p) \/ EditSaves(p) \/ ResetSaves(p)
      PROVE  AccountInv'
  BY <1>6, VerifySavesStep, EditSavesStep, ResetSavesStep
<1>7. ASSUME NEW p \in Procs, ForgotQueues(p) \/ ResetDeletes(p) \/ Abort(p)
      PROVE  AccountInv'
  BY <1>7, ForgotQueuesStep, ResetDeletesStep, AbortStep
<1>8. jobs \subseteq Mail /\ inbox \subseteq Mail BY DEF AccountInv, TypeOK
<1>9. ASSUME NEW m \in jobs, MailSent(m) \/ MailFails(m) PROVE AccountInv'
  BY <1>8, <1>9, WorkersStep
<1>10. ASSUME NEW m \in inbox, LinkExpires(m) PROVE AccountInv'
  BY <1>8, <1>10, WorkersStep
<1>11. ASSUME NEW t \in Tokens, TokenExpires(t) PROVE AccountInv'
  BY <1>11, TokenExpiresStep
<1>12. CASE UNCHANGED vars
  <2>1. UNCHANGED <<row, mailOf, reset, jobs, inbox, mem, proven, latest, excused, used,
                    reused, shaky>>
    BY <1>12 DEF vars, redisVars, historyVars, tokenVars
  <2>2. TypeOK' BY <2>1 DEF AccountInv, TypeOK, Rows, Ever
  <2>3. RowsHold' /\ LinksHold' BY <2>1, RowsUntouched DEF AccountInv, LinksHold
  <2>4. HandlersFit' /\ TokensHold'
    BY <2>1 DEF AccountInv, HandlersFit, TokensHold, TokensWorkOnce
  <2> QED BY <2>2, <2>3, <2>4 DEF AccountInv
<1>13. CASE Next
  <2>1. ASSUME NEW p \in Procs,
               \/ SignUpRequests(p) \/ MailRequests(p) \/ AccountRequests(p)
               \/ \E i \in Ids : RegisterInserts(p, i)
               \/ VerifySaves(p) \/ ForgotQueues(p)
               \/ \E w \in Passwords : ResetLoads(p, w)
               \/ ResetSaves(p) \/ ResetDeletes(p) \/ EditSaves(p)
               \/ Abort(p)
        PROVE  AccountInv'
    BY <1>1, <1>2, <1>3, <1>4, <1>5, <1>6, <1>7, <2>1
  <2> QED BY <1>9, <1>10, <1>11, <1>13, <2>1 DEF Next
<1> QED BY <1>12, <1>13

LEMMA AccountInvariant == Spec => []AccountInv
<1>1. AccountInv /\ [Next]_vars => AccountInv' BY AccountStep
<1> QED BY AccountInit, <1>1, PTL DEF Spec

-----------------------------------------------------------------------------
(* Every variable keeps its type; an account never changes its mail and    *)
(* always has a password, even one that a stale save brought back.         *)
THEOREM AccountsTyped == Spec => []TypeOK
<1>1. AccountInv => TypeOK BY DEF AccountInv
<1> QED BY AccountInvariant, <1>1, PTL

(* Two registrations that missed each other, or a deleted account coming   *)
(* back, never make two accounts of one mail.                              *)
THEOREM MailsAreUnique == Spec => []OneAccountPerMail
<1>1. AccountInv => OneAccountPerMail BY DEF AccountInv, RowsHold
<1> QED BY AccountInvariant, <1>1, PTL

(* A verified account has a phone, unless a stale save lost it or an       *)
(* earlier account's link verified it.                                     *)
THEOREM VerifiedAccountsHavePhone == Spec => []VerifiedHavePhone
<1>1. AccountInv => VerifiedHavePhone BY DEF AccountInv, RowsHold
<1> QED BY AccountInvariant, <1>1, PTL

(* Nobody is verified under a mail that no link reached and Google did not *)
(* vouch for.                                                              *)
THEOREM VerifiedMailsAreProven == Spec => []VerifiedVouched
<1>1. AccountInv => VerifiedVouched BY DEF AccountInv, RowsHold
<1> QED BY AccountInvariant, <1>1, PTL

(* Saves of entities loaded earlier never bring an old password back.      *)
THEOREM LatestPasswordsStay == Spec => []PasswordsNeverRevert
<1>1. AccountInv => PasswordsNeverRevert BY DEF AccountInv, RowsHold
<1> QED BY AccountInvariant, <1>1, PTL

(* A reset token sets one password, unless requests that held it overlap   *)
(* or one broke off before its DEL.                                        *)
THEOREM ResetTokensWorkOnce == Spec => []TokensWorkOnce
<1>1. AccountInv => TokensWorkOnce BY DEF AccountInv, TokensHold
<1> QED BY AccountInvariant, <1>1, PTL
=============================================================================
