---------------------------- MODULE ChatsProofs ----------------------------
(* Theorems about Chats for all users, adverts, chats, messages and        *)
(* handlers.                                                               *)
EXTENDS Chats, TLAPS

(* What a handler at m may rely on: an advert keeps its seller until it is *)
(* gone, a chat its two users, a message its chat.                         *)
Fits(m, ow, me, ms) ==
  /\ m.op \in {"start", "missed", "checked"} =>
       /\ m.user \in Users /\ m.advert \in Adverts /\ m.other \in Users
       /\ m.user # m.other
       /\ ow[m.advert] \in {None, m.other}
  /\ m.op \in {"join", "send", "saved", "list"} =>
       /\ m.chat \in DOMAIN me
       /\ m.user \in me[m.chat]
  /\ m.op \in {"send", "saved"} => m.other \in me[m.chat] /\ m.other # m.user
  /\ m.op = "saved" => m.msg \in DOMAIN ms /\ ms[m.msg].chat = m.chat

HandlersFit == \A p \in Procs : Fits(mem[p], owner, members, msg)

(* The columns of a chat hold the users it was made for, each in a place   *)
(* of its own, until the account is gone.                                  *)
Pair(row, pair, us) ==
  /\ \E b, s \in Users : b # s /\ pair = {b, s}
  /\ {row.buyer, row.seller} \subseteq pair \cup {None}
  /\ row.buyer = row.seller => row.buyer = None
  /\ pair \cap us \subseteq {row.buyer, row.seller}

PairsHold == \A c \in Rows : Pair(chat[c], members[c], users)

(* Who is told of a message is still in its chat or gone.                  *)
Within(m, row, pair) ==
  /\ {m.sender, m.receiver} \subseteq pair \cup {None}
  /\ m.sender = m.receiver => m.sender = None
  /\ m.receiver \in {None, row.buyer, row.seller}

MessagesHold == \A m \in Stored : Within(msg[m], chat[msg[m].chat], members[msg[m].chat])

RoomsHold == \A c \in Chats : \A u \in room[c] : c \in Rows /\ u \in members[c]

RowsHold == PairsHold /\ MessagesHold /\ ChatsMatchAdverts

ChatInv == TypeOK /\ RowsHold /\ RoomsHold /\ HandlersFit /\ OnlyMembersHear

-----------------------------------------------------------------------------
LEMMA IdleFits ==
  ASSUME NEW ow, NEW me, NEW ms
  PROVE  Idle \in Memory /\ Fits(Idle, ow, me, ms)
  BY DEF Idle, Memory, Fits

(* A handler's step: it fits where it goes, the others are not disturbed.  *)
LEMMA HandlersStep ==
  ASSUME TypeOK, HandlersFit, NEW p \in Procs, NEW m \in Memory,
         mem' = [mem EXCEPT ![p] = m],
         Fits(m, owner', members', msg'),
         \A q \in Procs : Fits(mem[q], owner', members', msg')
  PROVE  mem' \in [Procs -> Memory] /\ HandlersFit'
<1>1. mem' \in [Procs -> Memory] BY DEF TypeOK
<1>2. \A q \in Procs : mem'[q] = IF q = p THEN m ELSE mem[q] BY DEF TypeOK
<1>3. \A q \in Procs : Fits(mem'[q], owner', members', msg') BY <1>2
<1> QED BY <1>1, <1>3 DEF HandlersFit

(* A step that only moves a handler.                                       *)
LEMMA MovesOnly ==
  ASSUME ChatInv, NEW p \in Procs, NEW m \in Memory,
         mem' = [mem EXCEPT ![p] = m], Fits(m, owner, members, msg),
         UNCHANGED <<rowVars, online, room, heard>>
  PROVE  ChatInv'
<1>0. UNCHANGED <<users, owner, chat, msg, members>> BY DEF rowVars
<1>1. mem' \in [Procs -> Memory] /\ HandlersFit'
  BY <1>0, HandlersStep DEF ChatInv, HandlersFit
<1>2. TypeOK' BY <1>0, <1>1 DEF ChatInv, TypeOK, Rows, Stored
<1>3. RowsHold' /\ RoomsHold' /\ OnlyMembersHear'
  BY <1>0 DEF ChatInv, RowsHold, PairsHold, MessagesHold, ChatsMatchAdverts, RoomsHold,
              OnlyMembersHear, Rows, Stored
<1> QED BY <1>1, <1>2, <1>3 DEF ChatInv

LEMMA AbortStep ==
  ASSUME ChatInv, NEW p \in Procs, Abort(p)
  PROVE  ChatInv'
  BY IdleFits, MovesOnly DEF Abort, Goes

LEMMA StartReadsStep ==
  ASSUME ChatInv, NEW p \in Procs, NEW u \in Users, NEW a \in Adverts, StartReads(p, u, a)
  PROVE  ChatInv'
<1> DEFINE m == [Idle EXCEPT !.op = "start", !.user = u, !.advert = a, !.other = owner[a]]
<1>1. owner[a] \in Users /\ owner[a] # u BY DEF StartReads, ChatInv, TypeOK
<1>2. m \in Memory BY <1>1 DEF Idle, Memory
<1>3. Fits(m, owner, members, msg) BY <1>1 DEF Idle, Fits
<1> QED BY <1>2, <1>3, MovesOnly DEF StartReads, Goes

LEMMA StartFindsStep ==
  ASSUME ChatInv, NEW p \in Procs, StartFinds(p)
  PROVE  ChatInv'
<1> DEFINE m == [mem[p] EXCEPT !.op = "missed"]
<1>1. mem[p] \in Memory /\ mem[p].op = "start" /\ Fits(mem[p], owner, members, msg)
  BY DEF StartFinds, At, ChatInv, TypeOK, HandlersFit
<1>2. m \in Memory /\ Fits(m, owner, members, msg) BY <1>1 DEF Memory, Fits
<1>3. mem' = [mem EXCEPT ![p] = m] \/ mem' = [mem EXCEPT ![p] = Idle]
  BY DEF StartFinds, Goes
<1> QED BY <1>2, <1>3, IdleFits, MovesOnly DEF StartFinds

LEMMA StartChecksStep ==
  ASSUME ChatInv, NEW p \in Procs, StartChecks(p)
  PROVE  ChatInv'
<1> DEFINE m == [mem[p] EXCEPT !.op = "checked"]
<1>1. mem[p] \in Memory /\ mem[p].op = "missed" /\ Fits(mem[p], owner, members, msg)
  BY DEF StartChecks, At, ChatInv, TypeOK, HandlersFit
<1>2. m \in Memory /\ Fits(m, owner, members, msg) BY <1>1 DEF Memory, Fits
<1> QED BY <1>2, MovesOnly DEF StartChecks, Goes

(* Who may enter a chat is one of the two users it was made for.           *)
LEMMA EnterMembers ==
  ASSUME ChatInv, NEW u \in Users, NEW c \in Rows, MayEnter(u, c)
  PROVE  /\ c \in Chats /\ c \in DOMAIN members /\ u \in members[c]
         /\ Other(u, c) # None => Other(u, c) \in members[c] /\ Other(u, c) # u
         /\ Other(u, c) \in Users \cup {None}
<1>1. u # None BY IdsAssumption
<1>2. Pair(chat[c], members[c], users) /\ c \in Chats /\ c \in DOMAIN members
  BY DEF ChatInv, RowsHold, PairsHold, TypeOK
<1>3. {chat[c].buyer, chat[c].seller} \subseteq Users \cup {None}
  BY DEF ChatInv, TypeOK
<1> QED BY <1>1, <1>2, <1>3 DEF MayEnter, Other, Pair

LEMMA JoinReadsStep ==
  ASSUME ChatInv, NEW p \in Procs, NEW u \in Users, NEW c \in Rows, JoinReads(p, u, c)
  PROVE  ChatInv'
<1> DEFINE m == [Idle EXCEPT !.op = "join", !.user = u, !.chat = c]
<1>1. c \in Chats /\ c \in DOMAIN members /\ u \in members[c]
  BY EnterMembers DEF JoinReads
<1>2. m \in Memory /\ Fits(m, owner, members, msg) BY <1>1 DEF Idle, Memory, Fits
<1> QED BY <1>2, MovesOnly DEF JoinReads, Goes

LEMMA ListReadsStep ==
  ASSUME ChatInv, NEW p \in Procs, NEW u \in Users, NEW c \in Rows, ListReads(p, u, c)
  PROVE  ChatInv'
<1> DEFINE m == [Idle EXCEPT !.op = "list", !.user = u, !.chat = c]
<1>1. c \in Chats /\ c \in DOMAIN members /\ u \in members[c]
  BY EnterMembers DEF ListReads
<1>2. m \in Memory /\ Fits(m, owner, members, msg) BY <1>1 DEF Idle, Memory, Fits
<1> QED BY <1>2, MovesOnly DEF ListReads, Goes

LEMMA SendReadsStep ==
  ASSUME ChatInv, NEW p \in Procs, NEW u \in Users, NEW c \in Rows, SendReads(p, u, c)
  PROVE  ChatInv'
<1> DEFINE m == [Idle EXCEPT !.op = "send", !.user = u, !.chat = c, !.other = Other(u, c)]
<1>1. /\ c \in Chats /\ c \in DOMAIN members /\ u \in members[c]
      /\ Other(u, c) \in members[c] /\ Other(u, c) # u /\ Other(u, c) \in Users \cup {None}
  BY EnterMembers DEF SendReads, SendsTo
<1>2. m \in Memory BY <1>1 DEF Idle, Memory
<1>3. Fits(m, owner, members, msg) BY <1>1 DEF Idle, Fits
<1> QED BY <1>2, <1>3, MovesOnly DEF SendReads, SendsTo, Goes

-----------------------------------------------------------------------------
(* Steps that leave the tables alone.                                      *)

LEMMA JoinsStep ==
  ASSUME ChatInv, NEW p \in Procs, Joins(p)
  PROVE  ChatInv'
<1> DEFINE c == mem[p].chat
<1> DEFINE u == mem[p].user
<1>0. UNCHANGED <<users, owner, chat, msg, members, online, heard>> BY DEF Joins, rowVars
<1>1. mem[p] \in Memory /\ mem[p].op = "join" /\ Fits(mem[p], owner, members, msg)
  BY DEF Joins, At, ChatInv, TypeOK, HandlersFit
<1>2. c \in Rows /\ u \in members[c] BY <1>1 DEF Fits, ChatInv, TypeOK
<1>3. room' = [room EXCEPT ![c] = @ \cup {u}] /\ u \in online BY DEF Joins
<1>4. room \in [Chats -> SUBSET online] /\ c \in Chats BY <1>2 DEF ChatInv, TypeOK
<1>5. room' \in [Chats -> SUBSET online]
      /\ \A d \in Chats : room'[d] = IF d = c THEN room[c] \cup {u} ELSE room[d]
  BY <1>3, <1>4
<1>6. RoomsHold' BY <1>0, <1>2, <1>5 DEF ChatInv, RoomsHold, Rows
<1>7. mem' \in [Procs -> Memory] /\ HandlersFit'
  <2>1. mem' = [mem EXCEPT ![p] = Idle] BY DEF Joins, Goes
  <2> QED BY <1>0, <2>1, IdleFits, HandlersStep DEF ChatInv, HandlersFit
<1>8. TypeOK' BY <1>0, <1>5, <1>7 DEF ChatInv, TypeOK, Rows, Stored
<1>9. RowsHold' /\ OnlyMembersHear'
  BY <1>0 DEF ChatInv, RowsHold, PairsHold, MessagesHold, ChatsMatchAdverts,
              OnlyMembersHear, Rows, Stored
<1> QED BY <1>6, <1>7, <1>8, <1>9 DEF ChatInv

(* A handler that has sent or shown messages to members is done.           *)
LEMMA HeardStep ==
  ASSUME ChatInv, NEW p \in Procs, NEW S, S \subseteq Messages \X Users,
         \A h \in S : h[1] \in Stored /\ h[2] \in members[msg[h[1]].chat],
         heard' = heard \cup S, mem' = [mem EXCEPT ![p] = Idle],
         UNCHANGED <<rowVars, online, room>>
  PROVE  ChatInv'
<1>0. UNCHANGED <<users, owner, chat, msg, members, online, room>> BY DEF rowVars
<1>1. mem' \in [Procs -> Memory] /\ HandlersFit'
  BY <1>0, IdleFits, HandlersStep DEF ChatInv, HandlersFit
<1>2. TypeOK' BY <1>0, <1>1 DEF ChatInv, TypeOK, Rows, Stored
<1>3. RowsHold' /\ RoomsHold'
  BY <1>0 DEF ChatInv, RowsHold, PairsHold, MessagesHold, ChatsMatchAdverts, RoomsHold,
              Rows, Stored
<1>4. OnlyMembersHear' BY <1>0 DEF ChatInv, OnlyMembersHear, Stored
<1> QED BY <1>1, <1>2, <1>3, <1>4 DEF ChatInv

LEMMA SendEmitsStep ==
  ASSUME ChatInv, NEW p \in Procs, SendEmits(p)
  PROVE  ChatInv'
<1> DEFINE told == room[mem[p].chat] \cup (online \cap {mem[p].other})
<1> DEFINE S == {mem[p].msg} \X told
<1>1. mem[p] \in Memory /\ mem[p].op = "saved" /\ Fits(mem[p], owner, members, msg)
  BY DEF SendEmits, At, ChatInv, TypeOK, HandlersFit
<1>2. /\ mem[p].chat \in Chats /\ mem[p].msg \in Stored /\ mem[p].other \in members[mem[p].chat]
      /\ msg[mem[p].msg].chat = mem[p].chat
  BY <1>1 DEF Fits, ChatInv, TypeOK, Stored, Rows
<1>3. told \subseteq members[mem[p].chat] /\ told \subseteq Users
  BY <1>2 DEF ChatInv, TypeOK, RoomsHold
<1>4. S \subseteq Messages \X Users BY <1>2, <1>3 DEF ChatInv, TypeOK
<1>5. \A h \in S : h[1] \in Stored /\ h[2] \in members[msg[h[1]].chat] BY <1>2, <1>3
<1>6. /\ heard' = heard \cup S /\ mem' = [mem EXCEPT ![p] = Idle]
      /\ UNCHANGED <<rowVars, online, room>>
  BY DEF SendEmits, Goes
<1> HIDE DEF S
<1> QED BY <1>4, <1>5, <1>6, HeardStep

LEMMA ListsStep ==
  ASSUME ChatInv, NEW p \in Procs, Lists(p)
  PROVE  ChatInv'
<1> DEFINE S == In(mem[p].chat) \X {mem[p].user}
<1>1. mem[p] \in Memory /\ mem[p].op = "list" /\ Fits(mem[p], owner, members, msg)
  BY DEF Lists, At, ChatInv, TypeOK, HandlersFit
<1>2. mem[p].chat \in Rows /\ mem[p].user \in members[mem[p].chat]
  BY <1>1 DEF Fits, ChatInv, TypeOK
<1>3. mem[p].user \in Users BY <1>2 DEF ChatInv, TypeOK
<1>4. S \subseteq Messages \X Users BY <1>3 DEF ChatInv, TypeOK, In
<1>5. \A h \in S : h[1] \in Stored /\ h[2] \in members[msg[h[1]].chat] BY <1>2 DEF In
<1>6. /\ heard' = heard \cup S /\ mem' = [mem EXCEPT ![p] = Idle]
      /\ UNCHANGED <<rowVars, online, room>>
  BY DEF Lists, Goes
<1> HIDE DEF S
<1> QED BY <1>4, <1>5, <1>6, HeardStep

(* Sockets come and go.                                                    *)
LEMMA SocketsStep ==
  ASSUME ChatInv, NEW u \in Users, Connect(u) \/ Disconnect(u)
  PROVE  ChatInv'
<1>0. UNCHANGED <<users, owner, chat, msg, members, mem, heard>>
  BY DEF Connect, Disconnect, rowVars
<1>1. /\ online' \subseteq Users /\ room' \in [Chats -> SUBSET online']
      /\ \A c \in Chats : room'[c] \subseteq room[c]
  <2>1. CASE Connect(u) BY <2>1 DEF Connect, ChatInv, TypeOK
  <2>2. CASE Disconnect(u)
    <3>1. online \subseteq Users /\ room \in [Chats -> SUBSET online] BY DEF ChatInv, TypeOK
    <3>2. online' = online \ {u} /\ room' = [c \in Chats |-> room[c] \ {u}]
      BY <2>2 DEF Disconnect
    <3>3. \A c \in Chats : room[c] \subseteq online BY <3>1
    <3>4. \A c \in Chats : room[c] \ {u} \in SUBSET (online \ {u}) BY <3>3
    <3> QED BY <3>1, <3>2, <3>4
  <2> QED BY <2>1, <2>2
<1>2. RoomsHold' BY <1>0, <1>1 DEF ChatInv, RoomsHold, Rows
<1>3. TypeOK' BY <1>0, <1>1 DEF ChatInv, TypeOK, Rows, Stored
<1>4. RowsHold' /\ HandlersFit' /\ OnlyMembersHear'
  BY <1>0 DEF ChatInv, RowsHold, PairsHold, MessagesHold, ChatsMatchAdverts, HandlersFit,
              OnlyMembersHear, Rows, Stored
<1> QED BY <1>2, <1>3, <1>4 DEF ChatInv

-----------------------------------------------------------------------------
(* Steps that write the tables.                                            *)

(* What no step undoes: adverts keep their seller until they are gone,     *)
(* chats their two users, messages their chat.                             *)
Lasting ==
  /\ \A a \in Adverts : owner'[a] \in {None, owner[a]}
  /\ \A c \in DOMAIN members : c \in DOMAIN members' /\ members'[c] = members[c]
  /\ \A m \in Stored : m \in DOMAIN msg' /\ msg'[m].chat = msg[m].chat

LEMMA OthersFit ==
  ASSUME ChatInv, Lasting
  PROVE  \A q \in Procs : Fits(mem[q], owner', members', msg')
  BY DEF ChatInv, HandlersFit, Lasting, Fits, Stored

LEMMA WrittenStep ==
  ASSUME ChatInv, Lasting, TypeOK', RowsHold', HandlersFit', UNCHANGED <<room, heard>>
  PROVE  ChatInv'
<1>1. Rows \subseteq Rows' /\ \A c \in Rows : members'[c] = members[c]
  BY DEF Lasting, ChatInv, TypeOK
<1>2. RoomsHold' BY <1>1 DEF ChatInv, RoomsHold, TypeOK
<1>3. OnlyMembersHear'
  <2> SUFFICES ASSUME NEW h \in heard
               PROVE  h[1] \in Stored' /\ h[2] \in members'[msg'[h[1]].chat]
    BY DEF OnlyMembersHear
  <2>1. h[1] \in Stored /\ h[2] \in members[msg[h[1]].chat] BY DEF ChatInv, OnlyMembersHear
  <2>2. msg[h[1]].chat \in Rows BY <2>1 DEF ChatInv, TypeOK
  <2> QED BY <1>1, <2>1, <2>2 DEF Lasting, Stored
<1> QED BY <1>2, <1>3 DEF ChatInv

LEMMA StartSavesStep ==
  ASSUME ChatInv, NEW p \in Procs, NEW c \in Chats, StartSaves(p, c)
  PROVE  ChatInv'
<1> DEFINE a == mem[p].advert
<1> DEFINE u == mem[p].user
<1> DEFINE s == mem[p].other
<1> DEFINE new == [advert |-> a, buyer |-> u, seller |-> s]
<1>0. UNCHANGED <<users, owner, msg, online, room, heard>> /\ c \notin Rows
  BY DEF StartSaves
<1>1. mem[p] \in Memory /\ mem[p].op = "checked" /\ Fits(mem[p], owner, members, msg)
  BY DEF StartSaves, At, ChatInv, TypeOK, HandlersFit
<1>2. /\ owner[a] # None /\ u \in users /\ s \in users /\ u # s /\ ~ Taken(a, u)
      /\ chat' = [x \in Rows \cup {c} |-> IF x = c THEN new ELSE chat[x]]
      /\ members' = [x \in Rows \cup {c} |-> IF x = c THEN {u, s} ELSE members[x]]
  BY DEF StartSaves, InsertChat, InsertIf
<1>3. a \in Adverts /\ owner[a] = s BY <1>1, <1>2 DEF Fits
<1>4. /\ Rows' = Rows \cup {c} /\ DOMAIN members' = Rows \cup {c}
      /\ chat'[c] = new /\ members'[c] = {u, s}
      /\ \A d \in Rows : chat'[d] = chat[d] /\ members'[d] = members[d]
  BY <1>0, <1>2 DEF Rows
<1>5. users \subseteq Users BY DEF ChatInv, TypeOK
<1>6. Lasting BY <1>0, <1>4 DEF Lasting, ChatInv, TypeOK, Stored
<1>7. mem' \in [Procs -> Memory] /\ HandlersFit'
  <2>1. mem' = [mem EXCEPT ![p] = Idle] BY DEF StartSaves, Goes
  <2> QED BY <1>6, <2>1, OthersFit, IdleFits, HandlersStep DEF ChatInv
<1>8. TypeOK'
  <2>1. TypeOK BY DEF ChatInv
  <2>2. new \in [advert : Adverts \cup {None}, buyer : users \cup {None},
                 seller : users \cup {None}]
    BY <1>2, <1>3
  <2>3. \A d \in Rows' : chat'[d] \in [advert : Adverts \cup {None},
                buyer : users' \cup {None}, seller : users' \cup {None}]
    BY <1>0, <1>4, <2>1, <2>2 DEF TypeOK
  <2>4. \A d \in Rows' : members'[d] \subseteq Users
    BY <1>2, <1>4, <1>5, <2>1 DEF TypeOK
  <2>5. \A m \in Stored' : msg'[m] \in [chat : Rows', sender : users' \cup {None},
                              receiver : users' \cup {None}, read : BOOLEAN]
    BY <1>0, <1>4, <2>1 DEF TypeOK, Stored
  <2> QED BY <1>0, <1>4, <1>7, <2>1, <2>3, <2>4, <2>5 DEF TypeOK, Stored
<1>9. RowsHold'
  <2>1. PairsHold'
    <3>1. Pair(new, {u, s}, users) BY <1>2, <1>5 DEF Pair
    <3> QED BY <1>0, <1>4, <3>1 DEF ChatInv, RowsHold, PairsHold
  <2>2. MessagesHold' BY <1>0, <1>4 DEF ChatInv, RowsHold, MessagesHold, TypeOK, Stored
  <2>3. ChatsMatchAdverts'
    <3>1. \A d \in Rows : chat[d].advert = a => chat[d].buyer # u BY <1>2 DEF Taken
    <3>2. ChatsMatchAdverts BY DEF ChatInv, RowsHold
    <3> QED BY <1>0, <1>3, <1>4, <3>1, <3>2 DEF ChatsMatchAdverts
  <2> QED BY <2>1, <2>2, <2>3 DEF RowsHold
<1> QED BY <1>0, <1>6, <1>7, <1>8, <1>9, WrittenStep

LEMMA SendSavesStep ==
  ASSUME ChatInv, NEW p \in Procs, NEW m \in Messages, SendSaves(p, m)
  PROVE  /\ ChatInv'
         /\ \A x \in Stored' \ Stored : members'[msg'[x].chat] \subseteq users
<1> DEFINE c == mem[p].chat
<1> DEFINE u == mem[p].user
<1> DEFINE o == mem[p].other
<1> DEFINE new == [chat |-> c, sender |-> u, receiver |-> o, read |-> FALSE]
<1> DEFINE next == [mem[p] EXCEPT !.op = "saved", !.msg = m]
<1>0. UNCHANGED <<users, owner, chat, members, online, room, heard>> /\ m \notin Stored
  BY DEF SendSaves
<1>1. mem[p] \in Memory /\ mem[p].op = "send" /\ Fits(mem[p], owner, members, msg)
  BY DEF SendSaves, At, ChatInv, TypeOK, HandlersFit
<1>2. c \in Rows /\ u \in members[c] /\ o \in members[c] /\ o # u
  BY <1>1 DEF Fits, ChatInv, TypeOK
<1>3. u \in users /\ o \in users
  <2>1. o # None BY <1>2, IdsAssumption DEF ChatInv, TypeOK
  <2> QED BY <2>1 DEF SendSaves, Receiver
<1>4. /\ msg' = [x \in Stored \cup {m} |-> IF x = m THEN new ELSE msg[x]]
      /\ mem' = [mem EXCEPT ![p] = next]
  BY DEF SendSaves, Receiver, Goes
<1>5. /\ Stored' = Stored \cup {m} /\ msg'[m] = new
      /\ \A x \in Stored : msg'[x] = msg[x]
  BY <1>0, <1>4 DEF Stored
<1>6. Pair(chat[c], members[c], users) BY <1>2 DEF ChatInv, RowsHold, PairsHold
<1>7. Lasting BY <1>0, <1>5 DEF Lasting, Stored
<1>8. mem' \in [Procs -> Memory] /\ HandlersFit'
  <2>1. next \in Memory BY <1>1 DEF Memory
  <2>2. Fits(next, owner', members', msg')
    BY <1>0, <1>1, <1>5 DEF Fits, Memory, Stored
  <2> QED BY <1>4, <1>7, <2>1, <2>2, OthersFit, HandlersStep DEF ChatInv
<1>9. TypeOK'
  <2>1. TypeOK BY DEF ChatInv
  <2>2. new \in [chat : Rows, sender : users \cup {None}, receiver : users \cup {None},
                 read : BOOLEAN]
    BY <1>2, <1>3
  <2>3. \A x \in Stored' : msg'[x] \in [chat : Rows', sender : users' \cup {None},
                              receiver : users' \cup {None}, read : BOOLEAN]
    BY <1>0, <1>5, <2>1, <2>2 DEF TypeOK, Rows
  <2> QED BY <1>0, <1>5, <1>8, <2>1, <2>3 DEF TypeOK, Rows
<1>10. RowsHold'
  <2>1. PairsHold' /\ ChatsMatchAdverts'
    BY <1>0 DEF ChatInv, RowsHold, PairsHold, ChatsMatchAdverts, Rows
  <2>2. Within(new, chat[c], members[c]) BY <1>2, <1>3, <1>6 DEF Within, Pair
  <2>3. MessagesHold' BY <1>0, <1>5, <2>2 DEF ChatInv, RowsHold, MessagesHold
  <2> QED BY <2>1, <2>3 DEF RowsHold
<1>11. ChatInv' BY <1>0, <1>7, <1>8, <1>9, <1>10, WrittenStep
<1>12. members[c] \subseteq users
  <2>1. members[c] = {u, o} BY <1>2, <1>6 DEF Pair
  <2> QED BY <1>3, <2>1
<1> QED BY <1>0, <1>5, <1>11, <1>12

LEMMA MarkReadStep ==
  ASSUME ChatInv, NEW u \in Users, NEW c \in Rows, MarkRead(u, c)
  PROVE  ChatInv'
<1>0. UNCHANGED <<users, owner, chat, members, online, room, mem, heard>> BY DEF MarkRead
<1>1. msg' = [m \in Stored |-> IF m \in Unread(u, c)
                                THEN [msg[m] EXCEPT !.read = TRUE] ELSE msg[m]]
  BY DEF MarkRead
<1>2. TypeOK BY DEF ChatInv
<1>3. Stored' = Stored /\ \A m \in Stored :
        /\ msg'[m].chat = msg[m].chat /\ msg'[m].sender = msg[m].sender
        /\ msg'[m].receiver = msg[m].receiver
        /\ msg'[m] \in [chat : Rows, sender : users \cup {None},
                        receiver : users \cup {None}, read : BOOLEAN]
  <2>1. Stored' = Stored BY <1>1 DEF Stored
  <2> SUFFICES ASSUME NEW m \in Stored
               PROVE  /\ msg'[m].chat = msg[m].chat /\ msg'[m].sender = msg[m].sender
                      /\ msg'[m].receiver = msg[m].receiver
                      /\ msg'[m] \in [chat : Rows, sender : users \cup {None},
                                      receiver : users \cup {None}, read : BOOLEAN]
    BY <2>1
  <2>2. msg[m] \in [chat : Rows, sender : users \cup {None},
                    receiver : users \cup {None}, read : BOOLEAN]
    BY <1>2 DEF TypeOK
  <2>3. msg'[m] = msg[m] \/ msg'[m] = [msg[m] EXCEPT !.read = TRUE] BY <1>1
  <2> QED BY <2>2, <2>3
<1>4. Lasting BY <1>0, <1>2, <1>3 DEF Lasting, Stored
<1>5. HandlersFit' BY <1>0, <1>4, OthersFit DEF HandlersFit
<1>6. TypeOK' BY <1>0, <1>2, <1>3 DEF TypeOK, Rows
<1>7. RowsHold'
  <2>1. PairsHold' /\ ChatsMatchAdverts'
    BY <1>0 DEF ChatInv, RowsHold, PairsHold, ChatsMatchAdverts, Rows
  <2>2. MessagesHold' BY <1>0, <1>3 DEF ChatInv, RowsHold, MessagesHold, Within
  <2> QED BY <2>1, <2>2 DEF RowsHold
<1> QED BY <1>0, <1>4, <1>5, <1>6, <1>7, WrittenStep

-----------------------------------------------------------------------------
(* What goes away leaves no trace but the history.                         *)

LEMMA GoneStep ==
  ASSUME ChatInv, NEW gone, gone \subseteq Users \cup Adverts,
         users' = users \ gone,
         owner' \in [Adverts -> users' \cup {None}],
         \A a \in Adverts : /\ owner'[a] \in {None, owner[a]}
                            /\ a \notin gone => owner'[a] = owner[a],
         ForgetInChats(gone),
         Stored' = Stored,
         \A m \in Stored : /\ msg'[m] = [chat |-> msg[m].chat,
                                         sender |-> Unless(msg[m].sender, gone),
                                         receiver |-> Unless(msg[m].receiver, gone),
                                         read |-> msg[m].read],
         UNCHANGED <<members, online, room, mem, heard>>
  PROVE  ChatInv'
<1>1. TypeOK BY DEF ChatInv
<1>2. None \notin gone BY IdsAssumption
<1>3. Rows' = Rows /\ \A c \in Rows :
        /\ chat'[c] = [advert |-> Unless(chat[c].advert, gone),
                       buyer |-> Unless(chat[c].buyer, gone),
                       seller |-> Unless(chat[c].seller, gone)]
        /\ chat'[c].advert = Unless(chat[c].advert, gone)
        /\ chat'[c].buyer = Unless(chat[c].buyer, gone)
        /\ chat'[c].seller = Unless(chat[c].seller, gone)
  BY DEF ForgetInChats, Rows
<1>4. \A x \in users \cup {None} : Unless(x, gone) \in users' \cup {None}
  BY DEF Unless
<1>5. \A x \in Adverts \cup {None} : Unless(x, gone) \in Adverts \cup {None}
  BY DEF Unless
<1>6. Lasting BY DEF Lasting, Stored
<1>7. HandlersFit' BY <1>6, OthersFit DEF HandlersFit
<1>8. TypeOK'
  <2>1. \A c \in Rows : chat'[c] \in [advert : Adverts \cup {None},
                  buyer : users' \cup {None}, seller : users' \cup {None}]
    <3> SUFFICES ASSUME NEW c \in Rows
                 PROVE  chat'[c] \in [advert : Adverts \cup {None},
                             buyer : users' \cup {None}, seller : users' \cup {None}]
      OBVIOUS
    <3>1. chat[c] \in [advert : Adverts \cup {None}, buyer : users \cup {None},
                       seller : users \cup {None}]
      BY <1>1 DEF TypeOK
    <3>2. chat'[c] = [advert |-> Unless(chat[c].advert, gone),
                      buyer |-> Unless(chat[c].buyer, gone),
                      seller |-> Unless(chat[c].seller, gone)]
      BY <1>3
    <3> QED BY <1>4, <1>5, <3>1, <3>2
  <2>2. \A m \in Stored : msg'[m] \in [chat : Rows, sender : users' \cup {None},
                              receiver : users' \cup {None}, read : BOOLEAN]
    <3> SUFFICES ASSUME NEW m \in Stored
                 PROVE  msg'[m] \in [chat : Rows, sender : users' \cup {None},
                             receiver : users' \cup {None}, read : BOOLEAN]
      OBVIOUS
    <3>1. msg[m] \in [chat : Rows, sender : users \cup {None},
                      receiver : users \cup {None}, read : BOOLEAN]
      BY <1>1 DEF TypeOK
    <3>2. msg'[m] = [chat |-> msg[m].chat, sender |-> Unless(msg[m].sender, gone),
                     receiver |-> Unless(msg[m].receiver, gone), read |-> msg[m].read]
      OBVIOUS
    <3> QED BY <1>4, <3>1, <3>2
  <2>3. users' \subseteq Users BY <1>1 DEF TypeOK
  <2> QED BY <1>1, <1>3, <2>1, <2>2, <2>3 DEF TypeOK
<1>9. RowsHold'
  <2>1. PairsHold'
    <3> SUFFICES ASSUME NEW c \in Rows PROVE Pair(chat'[c], members[c], users')
      BY <1>3 DEF PairsHold
    <3>1. Pair(chat[c], members[c], users) BY DEF ChatInv, RowsHold, PairsHold
    <3>2. /\ chat'[c].buyer = Unless(chat[c].buyer, gone)
          /\ chat'[c].seller = Unless(chat[c].seller, gone)
      BY <1>3
    <3> QED BY <3>1, <3>2 DEF Pair, Unless
  <2>2. MessagesHold'
    <3>0. ASSUME NEW m \in Stored PROVE msg'[m].chat = msg[m].chat
      <4>1. msg'[m] = [chat |-> msg[m].chat, sender |-> Unless(msg[m].sender, gone),
                       receiver |-> Unless(msg[m].receiver, gone), read |-> msg[m].read]
        OBVIOUS
      <4> QED BY <4>1
    <3> SUFFICES ASSUME NEW m \in Stored
                 PROVE  Within(msg'[m], chat'[msg[m].chat], members[msg[m].chat])
      BY <3>0 DEF MessagesHold
    <3>1. Within(msg[m], chat[msg[m].chat], members[msg[m].chat]) /\ msg[m].chat \in Rows
      BY <1>1 DEF ChatInv, RowsHold, MessagesHold, TypeOK
    <3>2. /\ chat'[msg[m].chat].buyer = Unless(chat[msg[m].chat].buyer, gone)
          /\ chat'[msg[m].chat].seller = Unless(chat[msg[m].chat].seller, gone)
      BY <1>3, <3>1
    <3>3. msg'[m] = [chat |-> msg[m].chat, sender |-> Unless(msg[m].sender, gone),
                     receiver |-> Unless(msg[m].receiver, gone), read |-> msg[m].read]
      OBVIOUS
    <3>4. /\ msg'[m].sender = Unless(msg[m].sender, gone)
          /\ msg'[m].receiver = Unless(msg[m].receiver, gone)
      BY <3>3
    <3> QED BY <3>1, <3>2, <3>4 DEF Within, Unless
  <2>3. ChatsMatchAdverts'
    <3>0. ChatsMatchAdverts BY DEF ChatInv, RowsHold
    <3> SUFFICES ASSUME NEW c \in Rows, chat'[c].advert # None
                 PROVE  /\ chat'[c].seller = owner'[chat'[c].advert]
                        /\ \A d \in Rows : /\ chat'[d].advert = chat'[c].advert
                                           /\ chat'[d].buyer = chat'[c].buyer
                             => c = d \/ chat'[c].buyer = None
      BY <1>3 DEF ChatsMatchAdverts
    <3>1. /\ chat'[c].advert = chat[c].advert /\ chat[c].advert \notin gone
          /\ chat[c].advert # None
      BY <1>3 DEF Unless
    <3>2. chat[c].advert \in Adverts BY <1>1, <3>1 DEF TypeOK
    <3>3. chat'[c].seller = owner'[chat'[c].advert]
      <4>1. chat[c].seller = owner[chat[c].advert] BY <3>0, <3>1 DEF ChatsMatchAdverts
      <4>2. owner'[chat[c].advert] = owner[chat[c].advert]
            /\ owner'[chat[c].advert] \notin gone
        BY <1>2, <3>1, <3>2
      <4> QED BY <1>3, <3>1, <4>1, <4>2 DEF Unless
    <3>4. ASSUME NEW d \in Rows, chat'[d].advert = chat'[c].advert,
                 chat'[d].buyer = chat'[c].buyer, chat'[c].buyer # None
          PROVE  c = d
      <4>1. chat[d].advert = chat[c].advert /\ chat[d].buyer = chat[c].buyer
            /\ chat[c].buyer # None
        BY <1>3, <3>1, <3>4 DEF Unless
      <4> QED BY <3>0, <3>1, <4>1 DEF ChatsMatchAdverts
    <3> QED BY <3>3, <3>4
  <2> QED BY <2>1, <2>2, <2>3 DEF RowsHold
<1> QED BY <1>6, <1>7, <1>8, <1>9, WrittenStep

LEMMA RemoveAdvertStep ==
  ASSUME ChatInv, NEW a \in Adverts, RemoveAdvert(a)
  PROVE  ChatInv'
<1>1. TypeOK BY DEF ChatInv
<1>2. /\ owner' = [owner EXCEPT ![a] = None] /\ ForgetInChats({a})
      /\ UNCHANGED <<users, msg, members, online, room, mem, heard>>
  BY DEF RemoveAdvert
<1>3. a \notin Users /\ a # None BY IdsAssumption
<1>4. users' = users \ {a} BY <1>1, <1>2, <1>3 DEF TypeOK
<1>5. /\ owner' \in [Adverts -> users' \cup {None}]
      /\ \A b \in Adverts : /\ owner'[b] \in {None, owner[b]}
                            /\ b \notin {a} => owner'[b] = owner[b]
  BY <1>1, <1>2 DEF TypeOK
<1>6. ASSUME NEW m \in Stored
      PROVE  msg'[m] = [chat |-> msg[m].chat, sender |-> Unless(msg[m].sender, {a}),
                        receiver |-> Unless(msg[m].receiver, {a}), read |-> msg[m].read]
  <2>1. msg[m] \in [chat : Rows, sender : users \cup {None},
                    receiver : users \cup {None}, read : BOOLEAN]
    BY <1>1 DEF TypeOK
  <2>2. \A x \in users \cup {None} : Unless(x, {a}) = x
    BY <1>1, <1>3 DEF Unless, TypeOK
  <2> QED BY <1>2, <2>1, <2>2
<1>7. Stored' = Stored BY <1>2 DEF Stored
<1> QED BY <1>2, <1>4, <1>5, <1>6, <1>7, GoneStep

LEMMA DeleteUserStep ==
  ASSUME ChatInv, NEW u \in Users, DeleteUser(u)
  PROVE  ChatInv'
<1> DEFINE adverts == {a \in Adverts : owner[a] = u}
<1> DEFINE gone == {u} \cup adverts
<1>1. TypeOK BY DEF ChatInv
<1>2. /\ users' = users \ {u} /\ owner' = [a \in Adverts |-> Unless(owner[a], {u})]
      /\ ForgetInChats(gone) /\ ForgetInMessages({u})
      /\ UNCHANGED <<members, online, room, mem, heard>>
  BY DEF DeleteUser
<1>3. adverts \cap Users = {} /\ None \notin adverts BY IdsAssumption
<1>4. users' = users \ gone BY <1>1, <1>2, <1>3 DEF TypeOK
<1>5. owner' \in [Adverts -> users' \cup {None}]
  <2>1. \A a \in Adverts : Unless(owner[a], {u}) \in users' \cup {None}
    BY <1>1, <1>2 DEF TypeOK, Unless
  <2> QED BY <1>2, <2>1
<1>6. \A a \in Adverts : /\ owner'[a] \in {None, owner[a]}
                         /\ a \notin gone => owner'[a] = owner[a]
  BY <1>2 DEF Unless
<1>7. Stored' = Stored BY <1>2 DEF ForgetInMessages, Stored
<1>8. ASSUME NEW m \in Stored
      PROVE  msg'[m] = [chat |-> msg[m].chat, sender |-> Unless(msg[m].sender, gone),
                        receiver |-> Unless(msg[m].receiver, gone), read |-> msg[m].read]
  <2>1. msg[m] \in [chat : Rows, sender : users \cup {None},
                    receiver : users \cup {None}, read : BOOLEAN]
    BY <1>1 DEF TypeOK
  <2>2. \A x \in users \cup {None} : Unless(x, {u}) = Unless(x, gone)
    BY <1>1, <1>3 DEF Unless, TypeOK
  <2>3. msg'[m] = [msg[m] EXCEPT !.sender = Unless(@, {u}), !.receiver = Unless(@, {u})]
    BY <1>2 DEF ForgetInMessages
  <2> QED BY <2>1, <2>2, <2>3
<1>9. gone \subseteq Users \cup Adverts OBVIOUS
<1> HIDE DEF gone
<1> QED BY <1>2, <1>4, <1>5, <1>6, <1>7, <1>8, <1>9, GoneStep

-----------------------------------------------------------------------------
LEMMA ChatInit == Init => ChatInv
<1> SUFFICES ASSUME Init PROVE ChatInv OBVIOUS
<1>1. TypeOK
  <2>1. mem \in [Procs -> Memory] BY IdleFits DEF Init
  <2> QED BY <2>1 DEF Init, TypeOK, Rows, Stored
<1>2. RowsHold
  BY DEF Init, RowsHold, PairsHold, MessagesHold, ChatsMatchAdverts, Rows, Stored
<1>3. HandlersFit BY IdleFits DEF Init, HandlersFit
<1>4. RoomsHold /\ OnlyMembersHear BY DEF Init, RoomsHold, OnlyMembersHear
<1> QED BY <1>1, <1>2, <1>3, <1>4 DEF ChatInv

LEMMA ChatStep ==
  ASSUME ChatInv, [Next]_vars
  PROVE  ChatInv'
<1>1. ASSUME NEW p \in Procs, NEW u \in Users, Requests(p, u) PROVE ChatInv'
  BY <1>1, StartReadsStep, ListReadsStep, MarkReadStep DEF Requests
<1>2. ASSUME NEW p \in Procs, NEW u \in Users, Events(p, u) PROVE ChatInv'
  BY <1>2, JoinReadsStep, SendReadsStep DEF Events
<1>3. ASSUME NEW p \in Procs, NEW c \in Chats,
             StartFinds(p) \/ StartChecks(p) \/ StartSaves(p, c)
      PROVE  ChatInv'
  BY <1>3, StartFindsStep, StartChecksStep, StartSavesStep
<1>4. ASSUME NEW p \in Procs, Joins(p) \/ SendEmits(p) \/ Lists(p) \/ Abort(p)
      PROVE  ChatInv'
  BY <1>4, JoinsStep, SendEmitsStep, ListsStep, AbortStep
<1>5. ASSUME NEW p \in Procs, NEW m \in Messages, SendSaves(p, m) PROVE ChatInv'
  BY <1>5, SendSavesStep
<1>6. ASSUME NEW u \in Users, Connect(u) \/ Disconnect(u) \/ DeleteUser(u) PROVE ChatInv'
  BY <1>6, SocketsStep, DeleteUserStep
<1>7. ASSUME NEW a \in Adverts, RemoveAdvert(a) PROVE ChatInv'
  BY <1>7, RemoveAdvertStep
<1>8. ASSUME NEW p \in Procs, StartFinds(p) \/ StartChecks(p) PROVE ChatInv'
  BY <1>8, StartFindsStep, StartChecksStep
<1>9. CASE UNCHANGED vars
  BY <1>9 DEF vars, rowVars, ChatInv, TypeOK, RowsHold, PairsHold, MessagesHold,
              ChatsMatchAdverts, RoomsHold, HandlersFit, OnlyMembersHear, Rows, Stored
<1> QED BY <1>1, <1>2, <1>3, <1>4, <1>5, <1>6, <1>7, <1>8, <1>9 DEF Next

LEMMA ChatInvariant == Spec => []ChatInv
<1>1. ChatInv /\ [Next]_vars => ChatInv' BY ChatStep
<1> QED BY ChatInit, <1>1, PTL DEF Spec

-----------------------------------------------------------------------------
(* Every variable keeps its type: chats and messages refer to accounts and *)
(* adverts that exist, whoever is deleted while a handler holds the row.   *)
THEOREM ChatsTyped == Spec => []TypeOK
<1>1. ChatInv => TypeOK BY DEF ChatInv
<1> QED BY ChatInvariant, <1>1, PTL

(* Only the two users a chat was made for are sent or shown its messages,  *)
(* through the room, the receiver's sockets or the list.                   *)
THEOREM MessagesStayPrivate == Spec => []OnlyMembersHear
<1>1. ChatInv => OnlyMembersHear BY DEF ChatInv
<1> QED BY ChatInvariant, <1>1, PTL

(* A message goes from one member of its chat to the other.                *)
THEOREM MessagesGoBetweenMembers == Spec => []BetweenMembers
<1>1. ChatInv => BetweenMembers
  BY DEF ChatInv, RowsHold, MessagesHold, Within, BetweenMembers
<1> QED BY ChatInvariant, <1>1, PTL

(* A message not read is in a chat that its receiver's inbox shows.        *)
THEOREM UnreadIsInInbox == Spec => []UnreadInInbox
<1>1. ASSUME ChatInv PROVE UnreadInInbox
  <2> SUFFICES ASSUME NEW u \in users, NEW c \in Rows, NEW m \in Unread(u, c)
               PROVE  c \in Inbox(u)
    BY DEF UnreadInInbox
  <2>1. m \in Stored /\ msg[m].chat = c /\ msg[m].receiver = u BY DEF Unread, In
  <2>2. u # None BY <1>1, IdsAssumption DEF ChatInv, TypeOK
  <2>3. u \in {None, chat[c].buyer, chat[c].seller}
    BY <1>1, <2>1 DEF ChatInv, RowsHold, MessagesHold, Within
  <2> QED BY <2>2, <2>3 DEF Inbox
<1> QED BY ChatInvariant, <1>1, PTL

(* A buyer has one chat about an advert, with the advert's seller, whoever *)
(* starts one twice at once.                                               *)
THEOREM OneChatPerAdvert == Spec => []ChatsMatchAdverts
<1>1. ChatInv => ChatsMatchAdverts BY DEF ChatInv, RowsHold
<1> QED BY ChatInvariant, <1>1, PTL

(* Nothing is written in a chat one of whose members is deleted.           *)
THEOREM DepartedGetNothing == Spec => NothingToTheDeparted
<1> DEFINE Silent == \A m \in DOMAIN msg' \ Stored : members[msg'[m].chat] \subseteq users
<1>1. ASSUME ChatInv, [Next]_vars PROVE [Silent]_vars
  <2>1. ASSUME NEW p \in Procs, NEW m \in Messages, SendSaves(p, m) PROVE Silent
    <3>1. members' = members BY <2>1 DEF SendSaves
    <3> QED BY <1>1, <2>1, <3>1, SendSavesStep DEF Stored
  <2>2. ASSUME DOMAIN msg' = Stored PROVE Silent BY <2>2
  <2>3. ASSUME NEW p \in Procs, NEW u \in Users, Requests(p, u) PROVE Silent
    BY <2>2, <2>3 DEF Requests, StartReads, ListReads, MarkRead, rowVars, Stored
  <2>4. ASSUME NEW p \in Procs, NEW u \in Users, Events(p, u) PROVE Silent
    BY <2>2, <2>4 DEF Events, JoinReads, SendReads, SendsTo, rowVars, Stored
  <2>5. ASSUME NEW p \in Procs, NEW c \in Chats, StartSaves(p, c) PROVE Silent
    BY <2>2, <2>5 DEF StartSaves, Stored
  <2>6. ASSUME NEW p \in Procs,
               \/ StartFinds(p) \/ StartChecks(p) \/ Joins(p)
               \/ SendEmits(p) \/ Lists(p) \/ Abort(p)
        PROVE  Silent
    BY <2>2, <2>6 DEF StartFinds, StartChecks, Joins, SendEmits, Lists, Abort, rowVars, Stored
  <2>7. ASSUME NEW u \in Users, Connect(u) \/ Disconnect(u) \/ DeleteUser(u) PROVE Silent
    BY <2>2, <2>7 DEF Connect, Disconnect, DeleteUser, ForgetInMessages, rowVars, Stored
  <2>8. ASSUME NEW a \in Adverts, RemoveAdvert(a) PROVE Silent
    BY <2>2, <2>8 DEF RemoveAdvert, Stored
  <2> QED BY <1>1, <2>1, <2>3, <2>4, <2>5, <2>6, <2>7, <2>8 DEF Next
<1>2. Spec => [][Silent]_vars BY ChatInvariant, <1>1, PTL DEF Spec
<1> QED BY <1>2 DEF NothingToTheDeparted
=============================================================================
