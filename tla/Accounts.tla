------------------------------- MODULE Accounts -------------------------------
(***************************************************************************)
(* Rows of table user: registration by form or by Google, edits, deletion, *)
(* verification of the e-mail by a mailed link, reset of the password by a *)
(* mailed token.  A handler loads a user, waits (for a hash, a token, the  *)
(* next query) and saves all it has loaded, while others do the same.      *)
(*                                                                         *)
(* A phone is only told to be there or not: a form needs one, Google gives *)
(* none, and an edit can add but not remove it.  A password is told apart  *)
(* from others.                                                            *)
(***************************************************************************)
EXTENDS Naturals

CONSTANTS
  Ids, Mails, Passwords,
  Tokens,     \* reset tokens
  Procs,      \* request handlers that may overlap
  None

ASSUME NoneAssumption == None \notin Ids \cup Mails \cup Passwords \cup Tokens

VARIABLES
  row,       \* row[i]: mail, phone, verified, password of each account
  mailOf,    \* mailOf[i]: the mail of each id ever given out
  reset,     \* reset[t]: the account in Redis key reset-token:<t>, or None
  jobs,      \* mail jobs: [mail, by, token], token None for a verification
  inbox,     \* mails delivered, their links still good
  mem,       \* mem[p]: where handler p is, with the entity it holds
  proven,    \* history: mails a link was delivered to or Google vouched for
  latest,    \* history: the password last chosen for each account
  excused,   \* history: accounts whose phone a stale save took away, and
             \* those verified by a link mailed for an earlier account
  used, reused, shaky   \* history: tokens that set a password; again;
             \* used by overlapping requests or one that broke off

redisVars   == <<reset, jobs, inbox>>
tokenVars   == <<used, reused, shaky>>
historyVars == <<proven, latest, excused, tokenVars>>
vars == <<row, mailOf, redisVars, mem, historyVars>>

Rows == DOMAIN row
Ever == DOMAIN mailOf

Row    == [mail : Mails, phone : BOOLEAN, verified : BOOLEAN,
           password : Passwords \cup {None}]
Mail   == [mail : Mails, by : Ids \cup {None}, token : Tokens \cup {None}]
NoUser == [mail |-> None, phone |-> FALSE, verified |-> FALSE, password |-> None]

Memory == [op : {"idle", "insert", "vouch", "verify", "set", "hash",
                 "reset", "done", "edit"},
           id : Ids \cup {None}, user : Row \cup {NoUser},
           token : Tokens \cup {None}, by : Ids \cup {None},
           chosen : Passwords \cup {None}]

Idle == [op |-> "idle", id |-> None, user |-> NoUser, token |-> None, by |-> None,
         chosen |-> None]

TypeOK ==
  /\ Ever \subseteq Ids /\ \A i \in Ever : mailOf[i] \in Mails
  /\ Rows \subseteq Ever
  /\ \A i \in Rows : /\ row[i] \in Row /\ row[i].password # None
                     /\ row[i].mail = mailOf[i]
  /\ reset \in [Tokens -> Ever \cup {None}]
  /\ jobs \subseteq Mail /\ inbox \subseteq Mail
  /\ mem \in [Procs -> Memory]
  /\ proven \subseteq Mails
  /\ latest \in [Rows -> Passwords]
  /\ excused \subseteq Ever
  /\ used \subseteq Tokens /\ reused \subseteq Tokens /\ shaky \subseteq Tokens

Init ==
  /\ row = [i \in {} |-> {}] /\ mailOf = [i \in {} |-> {}]
  /\ reset = [t \in Tokens |-> None]
  /\ jobs = {} /\ inbox = {}
  /\ mem = [p \in Procs |-> Idle]
  /\ proven = {} /\ latest = [i \in {} |-> {}]
  /\ excused = {}
  /\ used = {} /\ reused = {} /\ shaky = {}

At(p, op)  == mem[p].op = op
Goes(p, m) == mem' = [mem EXCEPT ![p] = m]

Reading == UNCHANGED <<row, mailOf, redisVars, historyVars>>

-----------------------------------------------------------------------------
(* The database and TypeORM.                                               *)

(* Bug: queries select the password too. *)
LoadedWhole(i) == row[i]

(* An entity as every query but the one of the login loads it.             *)
Loaded(i) == [row[i] EXCEPT !.password = None]

Free(e, i) == \A j \in Rows : row[j].mail = e => j = i

(* The phone is in the row, or the row is gone and comes back without.     *)
LosesPhone(i, u) ==
  IF ~ u.phone /\ (i \in Rows => row[i].phone) THEN {i} ELSE {}

Written(i, u, w) ==
  /\ Free(u.mail, i)
  /\ row' = [x \in Rows \cup {i} |->
       IF x # i THEN row[x]
       ELSE [u EXCEPT !.password = IF @ = None /\ i \in Rows THEN row[i].password
                                   ELSE @]]
  /\ latest' = [x \in Rows \cup {i} |->
       IF x # i THEN latest[x]
       ELSE IF w # None THEN w ELSE IF i \in Rows THEN latest[i] ELSE u.password]

(* Bug: the password may be null. *)
SaveUserAnyhow(i, u, w) == Written(i, u, w)

(* save(): all loaded columns are written; a row that is gone is inserted  *)
(* again, which needs a password and a mail nobody else has.  w is the     *)
(* password the request chose, if any.                                     *)
SaveUser(i, u, w) == (i \notin Rows => u.password # None) /\ Written(i, u, w)

-----------------------------------------------------------------------------
(* Register, from the form or from Google.                                 *)

RegisterLooksUp(p, e, phone, w) ==
  /\ mem[p] = Idle /\ \A i \in Rows : row[i].mail # e
  /\ Goes(p, [Idle EXCEPT !.op = "insert",
       !.user = [mail |-> e, phone |-> phone, verified |-> FALSE, password |-> w]])
  /\ Reading

InsertsWhen(p, i, allowed) ==
  /\ At(p, "insert") /\ i \notin Ever /\ allowed
  /\ row' = [x \in Rows \cup {i} |-> IF x = i THEN mem[p].user ELSE row[x]]
  /\ mailOf' = [x \in Ever \cup {i} |-> IF x = i THEN mem[p].user.mail ELSE mailOf[x]]
  /\ latest' = [x \in Rows \cup {i} |-> IF x = i THEN mem[p].user.password ELSE latest[x]]
  /\ Goes(p, Idle)
  /\ UNCHANGED <<redisVars, proven, excused, tokenVars>>

(* Bug: the mail is not unique. *)
RegisterInsertsTwice(p, i) == InsertsWhen(p, i, TRUE)

RegisterInserts(p, i) == InsertsWhen(p, i, Free(mem[p].user.mail, i))

(* Google vouches for the mail of an account that has a phone.             *)
GoogleFinds(p, i) ==
  /\ mem[p] = Idle /\ i \in Rows /\ row[i].phone /\ ~ row[i].verified
  /\ Goes(p, [Idle EXCEPT !.op = "vouch", !.id = i,
                          !.user = [Loaded(i) EXCEPT !.verified = TRUE]])
  /\ proven' = proven \cup {row[i].mail}
  /\ UNCHANGED <<row, mailOf, redisVars, latest, excused, tokenVars>>

-----------------------------------------------------------------------------
(* getVerificationToken and verifyEmail.  The link carries the mail only;  *)
(* by is history.                                                          *)

LinkFor(p, i) ==
  /\ mem[p] = Idle /\ i \in Rows /\ ~ row[i].verified
  /\ jobs' = jobs \cup {[mail |-> row[i].mail, by |-> i, token |-> None]}
  /\ UNCHANGED <<row, mailOf, reset, inbox, mem, historyVars>>

(* Bug: the phone is not asked for. *)
SendLinkToAny(p, i) == LinkFor(p, i)

SendLink(p, i) == row[i].phone /\ LinkFor(p, i)

VerifiesFrom(p, i, m) ==
  /\ mem[p] = Idle /\ i \in Rows /\ m.mail = row[i].mail /\ ~ row[i].verified
  /\ Goes(p, [Idle EXCEPT !.op = "verify", !.id = i, !.by = m.by,
                          !.user = [Loaded(i) EXCEPT !.verified = TRUE]])
  /\ Reading

(* Bug: the signature of the token is not checked. *)
VerifyReadsForged(p, i) ==
  row[i].phone /\ VerifiesFrom(p, i, [mail |-> row[i].mail, by |-> i])

VerifyReads(p, i) == \E m \in inbox : m.token = None /\ VerifiesFrom(p, i, m)

(* Saves the verified entity of a link or of Google.                       *)
VerifySaves(p) ==
  /\ mem[p].op \in {"verify", "vouch"}
  /\ SaveUser(mem[p].id, mem[p].user, mem[p].chosen)
  /\ excused' = excused \cup LosesPhone(mem[p].id, mem[p].user)
       \cup (IF mem[p].by \in {None, mem[p].id} THEN {} ELSE {mem[p].id})
  /\ Goes(p, Idle)
  /\ UNCHANGED <<mailOf, redisVars, proven, tokenVars>>

-----------------------------------------------------------------------------
(* forgotPassword: look up and SET, then queue the mail.                   *)

ForgotSets(p, i, t) ==
  /\ mem[p] = Idle /\ i \in Rows
  /\ reset[t] = None /\ t \notin used
  /\ \A q \in Procs : mem[q].token # t
  /\ \A m \in jobs \cup inbox : m.token # t
  /\ reset' = [reset EXCEPT ![t] = i]
  /\ Goes(p, [Idle EXCEPT !.op = "set", !.id = i, !.token = t])
  /\ UNCHANGED <<row, mailOf, jobs, inbox, historyVars>>

ForgotQueues(p) ==
  /\ At(p, "set")
  /\ jobs' = jobs \cup {[mail |-> mailOf[mem[p].id], by |-> None,
                         token |-> mem[p].token]}
  /\ Goes(p, Idle)
  /\ UNCHANGED <<row, mailOf, reset, inbox, historyVars>>

(* resetPassword: GET, hash, load, save, DEL.                              *)

Holding(t, p) == {q \in Procs \ {p} : mem[q].token = t /\ mem[q].op # "set"}

ResetReads(p, t) ==
  /\ mem[p] = Idle /\ reset[t] # None
  /\ \E m \in inbox : m.token = t
  /\ Goes(p, [Idle EXCEPT !.op = "hash", !.id = reset[t], !.token = t])
  /\ shaky' = IF Holding(t, p) # {} THEN shaky \cup {t} ELSE shaky
  /\ UNCHANGED <<row, mailOf, redisVars, proven, latest, excused, used, reused>>

ResetLoads(p, w) ==
  /\ At(p, "hash") /\ mem[p].id \in Rows
  /\ Goes(p, [mem[p] EXCEPT !.op = "reset", !.chosen = w,
                            !.user = [Loaded(mem[p].id) EXCEPT !.password = w]])
  /\ Reading

ResetSaves(p) ==
  LET t == mem[p].token
  IN /\ At(p, "reset")
     /\ SaveUser(mem[p].id, mem[p].user, mem[p].chosen)
     /\ excused' = excused \cup LosesPhone(mem[p].id, mem[p].user)
     /\ used' = used \cup {t}
     /\ reused' = IF t \in used THEN reused \cup {t} ELSE reused
     /\ Goes(p, [Idle EXCEPT !.op = "done", !.token = t])
     /\ UNCHANGED <<mailOf, redisVars, proven, shaky>>

EndsWith(p, keys) ==
  /\ At(p, "done")
  /\ reset' = keys
  /\ Goes(p, Idle)
  /\ UNCHANGED <<row, mailOf, jobs, inbox, historyVars>>

(* Bug: the key of the hash is not the one deleted. *)
ResetKeepsToken(p) == EndsWith(p, reset)

ResetDeletes(p) == EndsWith(p, [reset EXCEPT ![mem[p].token] = None])

-----------------------------------------------------------------------------
(* editUserBy, by the owner or an admin: adds a phone, changes the         *)
(* password, both, or neither (the names).                                 *)

EditReads(p, i, phone, w) ==
  /\ mem[p] = Idle /\ i \in Rows
  /\ Goes(p, [Idle EXCEPT !.op = "edit", !.id = i,
       !.chosen = w,
       !.user = [Loaded(i) EXCEPT !.phone = @ \/ phone,
                                  !.password = IF w = None THEN @ ELSE w]])
  /\ Reading

EditSaves(p) ==
  /\ At(p, "edit")
  /\ SaveUser(mem[p].id, mem[p].user, mem[p].chosen)
  /\ excused' = excused \cup LosesPhone(mem[p].id, mem[p].user)
  /\ Goes(p, Idle)
  /\ UNCHANGED <<mailOf, redisVars, proven, tokenVars>>

DeleteUser(i) ==
  /\ i \in Rows
  /\ row' = [x \in Rows \ {i} |-> row[x]]
  /\ latest' = [x \in Rows \ {i} |-> latest[x]]
  /\ UNCHANGED <<mailOf, redisVars, mem, proven, excused, tokenVars>>

-----------------------------------------------------------------------------
(* The mail workers try a job once.                                        *)
MailSent(m) ==
  /\ m \in jobs
  /\ jobs' = jobs \ {m} /\ inbox' = inbox \cup {m}
  /\ proven' = IF m.token = None THEN proven \cup {m.mail} ELSE proven
  /\ UNCHANGED <<row, mailOf, reset, mem, latest, excused, tokenVars>>

MailFails(m) ==
  /\ m \in jobs
  /\ jobs' = jobs \ {m}
  /\ UNCHANGED <<row, mailOf, reset, inbox, mem, historyVars>>

LinkExpires(m) ==
  /\ m \in inbox /\ m.token = None
  /\ inbox' = inbox \ {m}
  /\ UNCHANGED <<row, mailOf, reset, jobs, mem, historyVars>>

TokenExpires(t) ==
  /\ reset[t] # None
  /\ reset' = [reset EXCEPT ![t] = None]
  /\ UNCHANGED <<row, mailOf, jobs, inbox, mem, historyVars>>

(* The request fails or the process stops between two steps.               *)
Abort(p) ==
  /\ mem[p] # Idle
  /\ shaky' = IF At(p, "done") THEN shaky \cup {mem[p].token} ELSE shaky
  /\ Goes(p, Idle)
  /\ UNCHANGED <<row, mailOf, redisVars, proven, latest, excused, used, reused>>

(* The endpoints.  Reading an account (all, me, by id) changes nothing.      *)
SignUpRequests(p) ==
  \/ \E e \in Mails, phone \in BOOLEAN, w \in Passwords : RegisterLooksUp(p, e, phone, w)
  \/ \E i \in Rows : GoogleFinds(p, i)

MailRequests(p) ==
  \/ \E i \in Rows : SendLink(p, i) \/ VerifyReads(p, i)
  \/ \E i \in Rows, t \in Tokens : ForgotSets(p, i, t)
  \/ \E t \in Tokens : ResetReads(p, t)

(* For oneself, or by an admin for anyone.                                 *)
AccountRequests(p) ==
  \E i \in Rows :
    \/ \E phone \in BOOLEAN, w \in Passwords \cup {None} : EditReads(p, i, phone, w)
    \/ DeleteUser(i)

Next ==
  \/ \E p \in Procs :
       \/ SignUpRequests(p) \/ MailRequests(p) \/ AccountRequests(p)
       \/ \E i \in Ids : RegisterInserts(p, i)
       \/ VerifySaves(p) \/ ForgotQueues(p)
       \/ \E w \in Passwords : ResetLoads(p, w)
       \/ ResetSaves(p) \/ ResetDeletes(p) \/ EditSaves(p)
       \/ Abort(p)
  \/ \E m \in jobs : MailSent(m) \/ MailFails(m)
  \/ \E m \in inbox : LinkExpires(m)
  \/ \E t \in Tokens : TokenExpires(t)

Spec == Init /\ [][Next]_vars

-----------------------------------------------------------------------------
(* One account per mail, although two registrations can both miss the      *)
(* other and a stale save can bring a deleted account back.                *)
OneAccountPerMail ==
  \A i, j \in Rows : row[i].mail = row[j].mail => i = j

(* A verified account has a phone, whatever edits, deletions and new       *)
(* registrations overlap with the mail, except for one whose phone a stale *)
(* save took away and one that an earlier account's link verified.         *)
VerifiedHavePhone ==
  \A i \in Rows : row[i].verified => row[i].phone \/ i \in excused

(* A verified account's mail got a link, or Google vouched for it: neither  *)
(* a stale save nor a new account under the mail is verified otherwise.    *)
VerifiedVouched == \A i \in Rows : row[i].verified => row[i].mail \in proven

(* The password of an account is the last one chosen for it: saves of      *)
(* entities loaded before never bring an older one back.                   *)
PasswordsNeverRevert == \A i \in Rows : row[i].password = latest[i]

(* A token sets one password, unless two requests held it at once or one   *)
(* broke off between its save and its DEL.                                 *)
TokensWorkOnce == reused \subseteq shaky
=============================================================================
