-------------------------------- MODULE Chats --------------------------------
(***************************************************************************)
(* Conversations about adverts: chats and messages in the database, rooms  *)
(* of the socket server, and the handlers that read the one and write the  *)
(* other, while accounts and adverts go away under them.                   *)
(*                                                                         *)
(* Every user starts with an account.  A deleted user may hold a valid     *)
(* access token for a while, so a request can come from any user.          *)
(***************************************************************************)
EXTENDS Naturals

CONSTANTS
  Users, Adverts, Chats, Messages,   \* ids
  Verified,                          \* the users whose e-mail is verified
  Procs,                             \* handlers that may overlap
  None                               \* NULL

ASSUME IdsAssumption == /\ None \notin Users \cup Adverts \cup Chats \cup Messages
                        /\ Users \cap Adverts = {}

VARIABLES
  users,      \* accounts that exist
  owner,      \* owner[a]: seller of advert a, None without it
  chat,       \* chat[c]: advert, buyer and seller of each chat
  msg,        \* msg[m]: chat, sender, receiver and read mark of each message
  online,     \* users with a socket
  room,       \* room[c]: users with a socket in the room of chat c
  mem,        \* mem[p]: where handler p is and what it has read
  members,    \* history: the two users a chat was made for
  heard       \* history: who was sent or shown which message

rowVars == <<users, owner, chat, msg, members>>
vars == <<rowVars, online, room, mem, heard>>

Rows   == DOMAIN chat
Stored == DOMAIN msg

Memory == [op : {"idle", "start", "missed", "checked", "join", "send", "saved", "list"},
           user : Users \cup {None}, advert : Adverts \cup {None},
           chat : Chats \cup {None}, other : Users \cup {None},
           msg : Messages \cup {None}]

Idle == [op |-> "idle", user |-> None, advert |-> None, chat |-> None,
         other |-> None, msg |-> None]

TypeOK ==
  /\ users \subseteq Users /\ online \subseteq Users
  /\ owner \in [Adverts -> users \cup {None}]
  /\ Rows \subseteq Chats
  /\ \A c \in Rows : chat[c] \in [advert : Adverts \cup {None},
                                  buyer : users \cup {None}, seller : users \cup {None}]
  /\ Stored \subseteq Messages
  /\ \A m \in Stored : msg[m] \in [chat : Rows, sender : users \cup {None},
                                   receiver : users \cup {None}, read : BOOLEAN]
  /\ room \in [Chats -> SUBSET online]
  /\ mem \in [Procs -> Memory]
  /\ DOMAIN members = Rows /\ \A c \in Rows : members[c] \subseteq Users
  /\ heard \subseteq Messages \X Users

Init ==
  /\ users = Users /\ online = {}
  /\ owner \in [Adverts -> Users]
  /\ chat = [c \in {} |-> {}] /\ msg = [m \in {} |-> {}]
  /\ room = [c \in Chats |-> {}]
  /\ mem = [p \in Procs |-> Idle]
  /\ members = [c \in {} |-> {}]
  /\ heard = {}

At(p, op) == mem[p].op = op
Goes(p, m) == mem' = [mem EXCEPT ![p] = m]

-----------------------------------------------------------------------------
(* startConversation: the advert with its seller, the chat, the buyer, and *)
(* the insert.                                                             *)

StartReads(p, u, a) ==
  /\ mem[p] = Idle /\ owner[a] \notin {None, u}
  /\ Goes(p, [Idle EXCEPT !.op = "start", !.user = u, !.advert = a, !.other = owner[a]])
  /\ UNCHANGED <<rowVars, online, room, heard>>

Taken(a, u) == \E c \in Rows : chat[c].advert = a /\ chat[c].buyer = u

StartFinds(p) ==
  /\ At(p, "start")
  /\ Goes(p, IF Taken(mem[p].advert, mem[p].user)
               THEN Idle ELSE [mem[p] EXCEPT !.op = "missed"])
  /\ UNCHANGED <<rowVars, online, room, heard>>

StartChecks(p) ==
  /\ At(p, "missed") /\ mem[p].user \in users \cap Verified
  /\ Goes(p, [mem[p] EXCEPT !.op = "checked"])
  /\ UNCHANGED <<rowVars, online, room, heard>>

InsertIf(c, a, u, s, allowed) ==
  /\ allowed /\ owner[a] # None /\ {u, s} \subseteq users /\ u # s
  /\ chat' = [x \in Rows \cup {c} |->
       IF x = c THEN [advert |-> a, buyer |-> u, seller |-> s] ELSE chat[x]]
  /\ members' = [x \in Rows \cup {c} |-> IF x = c THEN {u, s} ELSE members[x]]

(* Bug: no unique constraint. *)
InsertChatTwice(c, a, u, s) == InsertIf(c, a, u, s, TRUE)

(* The insert obeys the foreign keys, the check that buyer and seller      *)
(* differ, and the unique pair of advert and buyer.                        *)
InsertChat(c, a, u, s) == InsertIf(c, a, u, s, ~ Taken(a, u))

StartSaves(p, c) ==
  /\ At(p, "checked") /\ c \notin Rows
  /\ InsertChat(c, mem[p].advert, mem[p].user, mem[p].other)
  /\ Goes(p, Idle)
  /\ UNCHANGED <<users, owner, msg, online, room, heard>>

-----------------------------------------------------------------------------
(* Sockets.  The handshake, and every event after it, needs a valid token; *)
(* when the token expires the socket can only listen, which it may do      *)
(* before.  It leaves its rooms when it closes.                            *)

Connect(u) ==
  /\ u \notin online
  /\ online' = online \cup {u}
  /\ UNCHANGED <<rowVars, room, mem, heard>>

Disconnect(u) ==
  /\ u \in online
  /\ online' = online \ {u}
  /\ room' = [c \in Chats |-> room[c] \ {u}]
  /\ UNCHANGED <<rowVars, mem, heard>>

(* Bug: the error of a missing member is taken for consent. *)
MayEnterAsAnyone(u, c) ==
  c \in Rows /\ (u \in {chat[c].buyer, chat[c].seller} \/ chat[c].buyer = None)

(* A missing buyer, whose id cannot be read, shuts everybody out.          *)
MayEnter(u, c) ==
  c \in Rows /\ chat[c].buyer # None /\ u \in {chat[c].buyer, chat[c].seller}

JoinReads(p, u, c) ==
  /\ mem[p] = Idle /\ u \in online /\ MayEnter(u, c)
  /\ Goes(p, [Idle EXCEPT !.op = "join", !.user = u, !.chat = c])
  /\ UNCHANGED <<rowVars, online, room, heard>>

Joins(p) ==
  /\ At(p, "join") /\ mem[p].user \in online
  /\ room' = [room EXCEPT ![mem[p].chat] = @ \cup {mem[p].user}]
  /\ Goes(p, Idle)
  /\ UNCHANGED <<rowVars, online, heard>>

-----------------------------------------------------------------------------
(* handleSendMessage: the chat and its other member, the transaction, the  *)
(* two emits.                                                              *)

Other(u, c) == IF chat[c].buyer = u THEN chat[c].seller ELSE chat[c].buyer

SendsTo(p, u, c) ==
  /\ mem[p] = Idle /\ u \in online /\ MayEnter(u, c)
  /\ Goes(p, [Idle EXCEPT !.op = "send", !.user = u, !.chat = c, !.other = Other(u, c)])
  /\ UNCHANGED <<rowVars, online, room, heard>>

(* Bug: the other member may be missing. *)
SendReadsNobody(p, u, c) == SendsTo(p, u, c)

SendReads(p, u, c) == Other(u, c) # None /\ SendsTo(p, u, c)

(* Bug: the seller is taken for the receiver. *)
ReceiverIsSeller(p) == chat[mem[p].chat].seller

Receiver(p) == mem[p].other

SendSaves(p, m) ==
  /\ At(p, "send") /\ m \notin Stored
  /\ mem[p].user \in users /\ Receiver(p) \in users \cup {None}
  /\ msg' = [x \in Stored \cup {m} |->
       IF x = m THEN [chat |-> mem[p].chat, sender |-> mem[p].user,
                      receiver |-> Receiver(p), read |-> FALSE] ELSE msg[x]]
  /\ Goes(p, [mem[p] EXCEPT !.op = "saved", !.msg = m])
  /\ UNCHANGED <<users, owner, chat, members, online, room, heard>>

(* Everyone in the room, and every socket of the receiver.                 *)
SendEmits(p) ==
  /\ At(p, "saved")
  /\ LET notified == online \cap {mem[p].other}
     IN heard' = heard \cup ({mem[p].msg} \X (room[mem[p].chat] \cup notified))
  /\ Goes(p, Idle)
  /\ UNCHANGED <<rowVars, online, room>>

-----------------------------------------------------------------------------
(* getChatMessages, and markMessagesAsRead in one statement.               *)

ListReads(p, u, c) ==
  /\ mem[p] = Idle /\ MayEnter(u, c)
  /\ Goes(p, [Idle EXCEPT !.op = "list", !.user = u, !.chat = c])
  /\ UNCHANGED <<rowVars, online, room, heard>>

(* Bug: only the buyer's side. *)
InboxOfBuyer(u) == {c \in Rows : chat[c].buyer = u}

(* getUserInbox: the chats of a user, each with the number of unread ones. *)
Inbox(u) == {c \in Rows : u \in {chat[c].buyer, chat[c].seller}}

In(c) == {m \in Stored : msg[m].chat = c}

Lists(p) ==
  /\ At(p, "list")
  /\ heard' = heard \cup (In(mem[p].chat) \X {mem[p].user})
  /\ Goes(p, Idle)
  /\ UNCHANGED <<rowVars, online, room>>

Unread(u, c) == {m \in In(c) : msg[m].receiver = u /\ ~ msg[m].read}

MarkRead(u, c) ==
  /\ Unread(u, c) # {}
  /\ msg' = [m \in Stored |-> IF m \in Unread(u, c)
                                THEN [msg[m] EXCEPT !.read = TRUE] ELSE msg[m]]
  /\ UNCHANGED <<users, owner, chat, members, online, room, mem, heard>>

-----------------------------------------------------------------------------
Unless(x, gone) == IF x \in gone THEN None ELSE x

(* ON DELETE SET NULL of the advert, the buyer and the seller of a chat,   *)
(* and of the sender and the receiver of a message.                        *)
ForgetInChats(gone) ==
  chat' = [c \in Rows |-> [advert |-> Unless(chat[c].advert, gone),
                           buyer |-> Unless(chat[c].buyer, gone),
                           seller |-> Unless(chat[c].seller, gone)]]

(* Bug: the receiver is not declared SET NULL. *)
ForgetSenders(gone) ==
  msg' = [m \in Stored |-> [msg[m] EXCEPT !.sender = Unless(@, gone)]]

ForgetInMessages(gone) ==
  msg' = [m \in Stored |-> [msg[m] EXCEPT !.sender = Unless(@, gone),
                                          !.receiver = Unless(@, gone)]]

RemoveAdvert(a) ==
  /\ owner[a] # None
  /\ owner' = [owner EXCEPT ![a] = None]
  /\ ForgetInChats({a})
  /\ UNCHANGED <<users, msg, members, online, room, mem, heard>>

(* The adverts go with their owner; sockets and tokens stay.               *)
DeleteUser(u) ==
  LET adverts == {a \in Adverts : owner[a] = u}
  IN /\ u \in users
     /\ users' = users \ {u}
     /\ owner' = [a \in Adverts |-> Unless(owner[a], {u})]
     /\ ForgetInChats({u} \cup adverts) /\ ForgetInMessages({u})
     /\ UNCHANGED <<members, online, room, mem, heard>>

(* The request fails or the process stops between two steps.               *)
Abort(p) ==
  /\ mem[p] # Idle
  /\ Goes(p, Idle)
  /\ UNCHANGED <<rowVars, online, room, heard>>

(* The endpoints, for the user of the access token.  The inbox is only     *)
(* read.                                                                   *)
Requests(p, u) ==
  \/ \E a \in Adverts : StartReads(p, u, a)
  \/ \E c \in Rows : ListReads(p, u, c) \/ MarkRead(u, c)

(* The two events of a socket.                                             *)
Events(p, u) == \E c \in Rows : JoinReads(p, u, c) \/ SendReads(p, u, c)

Next ==
  \/ \E p \in Procs :
       \/ \E u \in Users : Requests(p, u) \/ Events(p, u)
       \/ StartFinds(p) \/ StartChecks(p)
       \/ \E c \in Chats : StartSaves(p, c)
       \/ Joins(p)
       \/ \E m \in Messages : SendSaves(p, m)
       \/ SendEmits(p) \/ Lists(p)
       \/ Abort(p)
  \/ \E u \in Users : Connect(u) \/ Disconnect(u) \/ DeleteUser(u)
  \/ \E a \in Adverts : RemoveAdvert(a)

Spec == Init /\ [][Next]_vars

-----------------------------------------------------------------------------
(* Nobody but the two users a chat was made for is ever sent or shown a    *)
(* message of it: rooms outlive tokens and accounts, and the checks are    *)
(* made before the room is joined and before the messages are read.        *)
OnlyMembersHear ==
  \A h \in heard : h[1] \in Stored /\ h[2] \in members[msg[h[1]].chat]

(* A message goes from one member to the other, whichever of them writes   *)
(* and whoever left since.                                                 *)
BetweenMembers ==
  \A m \in Stored :
    /\ {msg[m].sender, msg[m].receiver} \subseteq members[msg[m].chat] \cup {None}
    /\ msg[m].sender = msg[m].receiver => msg[m].sender = None

(* What a user has not read is counted in the inbox, whoever left.         *)
UnreadInInbox ==
  \A u \in users, c \in Rows : Unread(u, c) # {} => c \in Inbox(u)

(* A buyer has one chat about an advert, and its seller is the advert's.   *)
ChatsMatchAdverts ==
  \A c \in Rows : chat[c].advert # None =>
    /\ chat[c].seller = owner[chat[c].advert]
    /\ \A d \in Rows : chat[d].advert = chat[c].advert /\ chat[d].buyer = chat[c].buyer
         => c = d \/ chat[c].buyer = None

(* Once a member's account is deleted nothing more is written in the chat, *)
(* not even by a handler that had read both members before.                *)
NothingToTheDeparted ==
  [][\A m \in DOMAIN msg' \ Stored : members[msg'[m].chat] \subseteq users]_vars
=============================================================================
