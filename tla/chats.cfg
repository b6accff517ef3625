SPECIFICATION Spec
CONSTANTS
  Users = {u, v, w}
  Adverts = {a}
  Chats = {c, d}
  Messages = {m}
  Verified = {v, w}
  Procs = {p, q}
  None = None
SYMMETRY Symmetry
INVARIANTS TypeOK OnlyMembersHear BetweenMembers UnreadInInbox ChatsMatchAdverts
PROPERTIES NothingToTheDeparted
