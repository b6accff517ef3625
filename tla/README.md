# A TLA+ model of list-nest-api

list-nest-api is the backend of a classified-adverts site: NestJS over
Postgres (TypeORM), Redis (sessions, cache, BullMQ) and Cloudinary (images).
This directory holds TLA+ modules translated from its source, the TLC
configurations that check them, and proofs checked by TLAPS. Paths below are
relative to the repository root.

## Inventory

| component | state it keeps | operations | what is hard |
|---|---|---|---|
| **Items** `src/items/items.service.ts` | rows `item`, `image_item`; the entity a request has read | `create`, `update`, `remove`, `addImagesToItem`, `findOne` | read, several awaits, then a `save` of everything that was read |
| **Items cron** `src/items/items-cron.service.ts` | none of its own | `expireOldItems` (00:00), `deleteDrafts` (01:00), `deleteUnusedCloudinaryImages` (02:00) | lists that are stale when used; one failure ends the loop |
| **Cloudinary service, queues** `src/cloudinary` | files, `deleteImage-queue`, `deleteFolder-queue` | signatures, existence checks, deletions through jobs | clients upload past the server; jobs fail without retry or run twice; wipes by string prefix |
| **Sessions** `src/users/auth/RefreshToken.provider.ts`, `auth.provider.ts` | Redis: `refresh:<hash>`, `user_sessions:<id>` | login, refresh, logout, logout-all | three commands to store, three to delete all, nothing atomic; expiry of tokens and of the set |
| **Accounts** `src/users` | `user` rows, e-mail and reset tokens in Redis | register, OAuth, verify, forgot/reset, edit, delete | every save writes the whole row that was read before a hash or a query; one-time tokens used twice; links that outlive accounts |
| **Mail queues** `src/users/auth/queues` | BullMQ jobs | send | one attempt: late or lost mails |
| **Categories** `src/categories` | `category` rows, the tree cached in Redis | create, update, remove, findAll | two levels and distinct titles kept only by checks that are read before the write; cache-aside |
| **Chats** `src/chats` | `chat`, `message` rows, socket rooms | start, inbox, messages, mark; join, send | store then emit; rooms that outlive tokens and accounts; members that become NULL |
| **Wishlist** `src/wishlist` | `wishlist` rows | add, remove | the other side goes between lookup and insert |
| **Locations** `items.service.ts:525-591` | country, region, city rows | find or create | two creators at once, no unique constraint |
| **Search** `items.service.ts:120-290` | none | one query for the count, one for the page | pages shift while a visitor turns them |
| Guards, roles, throttling; Redis configuration; filter and interceptor; bootstrap; migrations | none, or counters of a library | | decisions on a token and table constraints appear in the models above, the rest is not modelled |

How they interact: requests and cron jobs run on one Node event loop and
interleave at every `await`. Items calls Cloudinary directly (existence,
search, mass deletion) and through two BullMQ queues whose workers run in the
same process against jobs kept in Redis. The draft purge calls
`ItemsService.remove`. Deleting an account (`users.provider.ts:76`) queues a
folder wipe and lets Postgres cascade to items, image rows, chats and wishes.
Categories and Accounts are read by Items before it writes.

What makes each correct: *Items* - rows, files and jobs agree (no row without
its item, no file lost while an advert uses it, no file kept for ever), an
advert lives its life span and ends; *Sessions* - a revoked token stays
revoked, every live token can be revoked; *Accounts* - one account per mail, a
verified account has a vouched mail and a phone, a chosen password stays, a
reset token works once; *Categories* - two levels, distinct titles, a cached tree
that is the stored one; *Chats* - only the two members hear a message, unread
ones are found in the inbox, nobody writes to a deleted account; *Locations*,
*Search* - one row for a place, a filter finds all and only the adverts there,
turning pages misses none; *Wishlist* - wishes are of users for adverts that exist.

## Modules

| module | what it is |
|---|---|
| `Items` | adverts, image rows, files, deletion jobs, account deletion, the three cron jobs, the clock |
| `ServedImages` | the abstract image store: a file in an advert's keeping is served until released |
| `MCItems` | instances of `Items` for TLC and what the documentation claims |
| `Sessions` | refresh tokens and session sets in Redis, their expiry, login, refresh, logout, logout-all; accounts deleted and inserted again |
| `MCSessions` | its instances and what the documentation claims |
| `SessionsProofs` | its invariants |
| `Categories`, `MCCategories` | category rows, the adverts placed in them, the cached tree; its instance |
| `Chats`, `MCChats` | chats, messages, rooms, the adverts and accounts they name; its instance |
| `Accounts`, `MCAccounts` | `user` rows, reset tokens, mail jobs and mails; its instance |
| `Listings`, `MCListings` | places, the paged search, wishlists; its instance |
| `ItemsProofs` | type correctness and foreign keys |
| `ItemsImageProofs` | files: served while kept, swept when abandoned, refinement of `ServedImages` |
| `ItemsCalendarProofs` | expiry and purge |
| `AccountsProofs` | all properties of `Accounts` |
| `ChatsProofs` | all properties of `Chats` |
| `CategoriesProofs` | all properties of `Categories` |
| `ListingsProofs` | all properties of `Listings` |

### How `Items` corresponds to the code

*State.* `status`, `owner`, `age` are the columns of `item`; `link` maps every
image-row id ever handed out to its link, `rows` are the rows bound to an
item, `loose` those whose `itemId` became NULL. `stored` is what Cloudinary
holds, `uploaded` what it ever held (its random names are not given out
again), `signed[i]` the remaining life of the last upload signature. The two
job sets are the BullMQ queues. `mem[p]` is the entity a request handler holds
across its awaits; `purge` and `sweep` are the local variables of the two cron
loops. `condemned`, `prompt` and `attached` are history variables: no
guard reads them.

*Actions.* One per stretch of code between two awaits that other code can see:

- `create` -> `Create`. Its earlier reads can only refuse. Verification, category and
  place are data here.
- `update` -> `UpdateReads`, then per deleted image `UpdateFindsImage`,
  `UpdateQueuesImage`, `UpdateRemovesImage`, then `UpdateSaves`.
- `addImagesToItem` -> `AddImagesReads`, per image `AddImagesChecks`, then
  `AddImagesSaves`. The duplicate check looks at the links read at the start,
  not at those added by the same request, as in the code.
- `remove` -> `RemoveReads` (reads, checks, queues the wipe), `RemoveDeletes`.
  The wipe is queued without `await`, so it may fail silently (`delivered`).
- `deleteUserBy` -> `DeleteUserQueues`, `DeleteUserRemoves` / `DeleteUserFails`.
- jobs -> `ImageJobRuns`, `FolderJobRuns` and their `Fails`; BullMQ makes one
  attempt, and a job whose worker stalled is handed out again (`stalled`).
- cron -> `ExpireOldItems`; `PurgeLists`, `PurgeReads`, `PurgeDeletes`,
  `PurgeMisses` (`remove` throws when the item is gone), `PurgeFails`;
  `SweepLists`, `SweepQueries`, `SweepDeletes`, `SweepFails`.
- `Abort(p)`: the request throws or the process dies. Rows, jobs and files
  survive a restart, so a restart is the abort of everything in flight.
- `Tick`: an hour passes.

*External code, modelled from its use.* TypeORM's `save` (`SaveItem`): it
reads the row by id, writes back every column that differs from the entity,
inserts the row again when it is missing (Postgres refuses when the owner is
gone), detaches image rows the entity does not hold, inserts image rows it
holds that no longer exist (`cascade: ['insert']`,
`src/items/entities/item.entity.ts:83`), and leaves detached rows alone.
Postgres cascades deletes from user to item to image row. Cloudinary deletes
by string prefix (`DigitPrefix`: ids are decimal, so `user_1` begins
`user_10`); ids of up to four digits are told apart.

*Abstractions.* A file name is a model value, a link a record of user, item
and name. Time is in hours and ages stop growing one past the largest bound
any guard compares with. The 10-minute upload signature is `signed`, two
hour boundaries. The three calls of a sweep end or fail within the hour it is
due. Which of several cron jobs is due is left free, except for the sweep,
whose period matters to a property. The id of a row that a `save` would
insert is drawn when the row is put in the entity; ids are only compared.

### How `Sessions` corresponds to the code

*State.* `ttl[t]` is the life left of `refresh:<hash of t>` and `holder[t]`
the user id in its value; `sessions[u]` and `setTtl[u]` are `user_sessions:<u>`
(`Never`: a set without EXPIRE). `given` are the tokens clients have in a
cookie (a login that died before its answer gave none), `access` the accounts
someone has a valid access token of, `mem[p]` the handler between two
commands. `revoked` and `overlooked` are history variables, and so are two
fields of `mem[p]`: `known` of a logout-all, and `lost`, the account when it was
deleted after the request had loaded it. No guard reads them.

*Actions.* One per `await`, since any other request may run in between.

- login: `LoginReads` (account and password), `LoginSets` (SET),
  `LoginAdds` (SADD), `LoginExpires` (EXPIRE, then the answer). Registration and
  OAuth end in the same login.
- refresh: `RefreshReads` (GET), `RefreshFinds` (`findOne`), `RefreshSigns` (when
  the row has come back: the handler signs for the user it was handed, who may be
  deleted by then).
- a save that sets a password (an edit, or a reset by mail): `PasswordLoads`,
  `PasswordSaves`. The hash or the save is awaited in between, and `save` inserts a row that
  is gone. Saves without a password cannot, as the column is NOT NULL (`Accounts`): here
  they change nothing. An insert that fails on its mail is an `Abort`.
- logout: `LogoutDeletes` (DEL), `LogoutRemoves` (SREM). The account comes from
  the access token, the token from the cookie, and the code does not compare them;
  neither does the model. Without a cookie it changes nothing.
- logout-all: `LogoutAllReads` (SMEMBERS), `LogoutAllDeletes` (DEL of the keys,
  if any), `LogoutAllEnds` (DEL of the set).
- `DeleteAccount` removes the row and no token; a password save can bring the same
  id back, and what is left of its tokens works again. `Abort` is a request that throws or
  a stopped process: Redis keeps what was written.
- `Tick` is a day in Redis. Keys that reach 0 are gone, a set without members too.

*Abstraction.* A token and its hash are one value, drawn once. Life times are in
days, so keys written within a day of each other expire together; a set that
is renewed after its token was stored never expires before it, in the code and in the
model.

### How `Categories` corresponds to the code

*State.* `row[c]` is the title and parent of a category, `place[a]` the category
of an advert. Of the cached tree only `fresh` or `old` is kept, since it holds
every column: any write of a row makes it old. `ttl` is its EX.

*Actions.* `create`: `CreateStarts`, `LookUpTitle`, `CanCategoryBeParent` (if a parent is
named), `Save`, `Clear`. `update`: `UpdateReads` (`findOne`, and the check that
a category with children gets no parent, made on what was read), then the same.
`remove`: `RemoveReads`, `RemoveCounts` (`findAllForAdmins` counts the adverts of
the category or, for a root, of its children), `RemoveDeletes`, `Clear`.
`findAll` without a copy: `FindMisses`, `FindReads`, `FindStores`. Adverts
take a category as `ItemsService.create` and `update` do: `PlaceReads`,
`PlaceSaves`.

*External code.* `SaveCategory` is TypeORM's `save` of an entity that was loaded with
its children: all columns are written; a row that is gone is inserted again; the
children it was loaded with become its own again, and children it was not loaded
with lose their parent. Postgres refuses a parent that is gone. `Doomed` is
what ON DELETE CASCADE takes, however long the chain; the delete is refused while an
advert is in any of it (`Cascade`).

### How `Chats` corresponds to the code

*State.* Columns of `chat` and `message`; NULL is `None`. `online` are the users with a
socket (one per user), `room[c]` those in the room of the chat; everyone online is in the
room of one's own notifications. `members` and `heard` are history variables.

*Actions.* `startConversation`: `StartReads` (advert and seller), `StartFinds`,
`StartChecks` (verified?), `StartSaves`, whose insert obeys the unique pair, the
check that buyer and seller differ and the foreign keys. `join_conversation`:
`JoinReads`, `Joins`. `send_message`: `SendReads`, `SendSaves` (one transaction),
`SendEmits` (both emits). `getChatMessages`: `ListReads`, `Lists`.
`markMessagesAsRead`: `MarkRead`. `MayEnter` is the access check: it reads
`chat.buyer.id`, which throws once the buyer's account is deleted, for the seller
too. `DeleteUser` takes the account's adverts along and sets the columns that name it
NULL, as the second migration says. A deleted user's access token still
passes the guards, so requests come from any user; sockets stay open.

### How `Accounts` corresponds to the code

*State.* `row[i]`: mail, whether there is a phone, verified, password. `reset` are
the Redis keys, `jobs` the two mail queues, `inbox` the mails delivered. `mem[p]` is
the entity a handler will save. A verification link is a signed mail address
and nothing else; that it was mailed for account `by` is history.

*Actions.* `Register`: `RegisterLooksUp`, `RegisterInserts`, for a form and for
Google (no phone). Google's login of a known account: `GoogleFinds`,
`VerifySaves`. `getVerificationToken`: `SendLink`; `verifyEmail`: `VerifyReads`,
`VerifySaves`. `forgotPassword`: `ForgotSets`, `ForgotQueues`; `resetPassword`: `ResetReads`
(GET, then hash), `ResetLoads`, `ResetSaves`, `ResetDeletes` (DEL). `editUserBy`:
`EditReads`, `EditSaves`. Mail workers try once: `MailSent`, `MailFails`.

*External code.* `SaveUser` is TypeORM's `save`: every loaded column is written. The
password is `select: false`, so it is not loaded (`Loaded`) and not written unless the
request chose one; a row that is gone is inserted again only if one was chosen, as
the column is NOT NULL. The e-mail is unique (`Free`).

### How `Listings` corresponds to the code

*State.* `country`, `region`, `city` are tables that only grow; `row[a]` is what a search tells
apart of an advert (point, city, `active`), `createdAt[a]` the rank of its creation among all
adverts ever created (times are only compared; a removed advert that a stale save inserts again
keeps its own); `wish` the wishlist. `visitor` is somebody who turns the pages of one filtered search until
`totalItems` is reached. `split` is a history variable.

*Actions.* `getLocation` for the geocoder's answer (`Where`, a constant function of the
point): `LooksUp` (its three queries; as rows are only added and each query
names its parent, they find what one query would find at the last of them), `CitySaves`,
the cascading insert. It is called by `create` (`CreateLooksUp`, `AdvertSaves`) and by `update`
(`UpdateReads`, `UpdateLooksUp`, `AdvertSaves`), where a zero coordinate counts as absent
(`OnAxis`). `findItems`: `VisitStarts`, `VisitCounts` (`getCount`), `VisitReads`
(`getMany` with skip and take: `Page` is the difference of two `FirstOf`, the latest so many
by `createdAt`). `RemoveAdvert` and `Expires` are the other ways an
advert leaves a search. `wishlist.service.ts`: `WishReads`, `WishSaves`, `WishRemoved`.

*Abstractions.* Who may change an advert, and which status may follow which, is in
`Items`; here any update is allowed. `getMany` is one step, though TypeORM selects
the page's ids first and then their rows.

## Runs

| run | what it checks | states | bounds |
|---|---|---|---|
| `items_whole` | `TypeOK`, `RelationsHold`, `AbandonedUploadsSwept` on `Spec` | 2.0 M | one user, item, file name, row, handler; sweep window (1, 3], one failed sweep |
| `items_overlap` | `PromptRowsServed`, `KeepsPromise` on `ImagesSpec` | 0.4 M | two handlers, two rows, symmetric handlers, window (1, 2] |
| `items_calendar` | `ExpiredIsOld`, `PurgeSparesYoung`, `EveryAdvertEnds` on `FairSpec` | 0.1 M | two handlers, no images, draft age 1, life span 2 |
| `sweep_orphans` | violated: `SweepRemovesOnlyOrphans` | | as `items_whole` |
| `wipe_prefix` | violated: `WipeSparesOthers` | | users and items 1 and 10 |
| `purge_drafts` | violated: `PurgeRemovesOnlyDrafts` | | no images |
| `sessions` | `TypeOK`, `RevokedStaysRevoked`, `SessionsTracked`, `NoAccessAfterDeletion` | 5.1 M | two accounts, three tokens, two handlers, tokens live two days; symmetric |
| `logout_all` | violated: `LogoutAllRevokesAll` | | one account, two tokens, two handlers |
| `categories` | `TypeOK`, `RelationsHold`, `TwoLevels`, `TitlesDiffer`, `OldOnlyIfRaced` | 1.0 M | three categories, three titles, one advert, two handlers, the copy lives one hour; no new save once saves have overlapped |
| `chats` | `TypeOK`, `OnlyMembersHear`, `BetweenMembers`, `UnreadInInbox`, `ChatsMatchAdverts`, `NothingToTheDeparted` | 2.3 M | three users, two of them verified, one advert, two chats, one message, two handlers |
| `accounts` | `TypeOK`, `OneAccountPerMail`, `VerifiedHavePhone`, `VerifiedVouched`, `PasswordsNeverRevert`, `TokensWorkOnce` | 1.7 M | two ids, one mail, two passwords, one reset token, two handlers |
| `listings` | `TypeOK`, `OneRowPerPlace`, `SearchIsWhole`, `PagesMissNone`, `WishesHold` | 0.3 M | two adverts, one user, three points (one on an axis), two cities, pages of one advert, two handlers; `Bounds` of `MCListings` |

Why the bounds suffice. One item and one file are enough for the hazards of
rows and files, which are all about one file, its row and who holds a stale
copy; two handlers give every pairwise overlap (update/update, add/add,
add/remove, update/remove ...), and each handler also meets the cron jobs, the
workers and the account deletion. The overlap of both handlers with all
images and all account deletions at once does not fit, so `items_overlap` keeps
two handlers and the image operations, `items_whole` keeps everything and one
handler. Times are scaled: 1, 72, 24, 24 and 720 hours become small numbers with
the same order (`TimeAssumption`); the theorems hold for the real ones.

What they show. `RelationsHold`: although a stale `save` re-inserts removed
items and images, the database's keys hold and a detached row is never also
bound. `PromptRowsServed`: an image attached within the hour after its upload
cannot be swept, because the search of the sweep excludes files of the last
hour; this is what that hour is for. `KeepsPromise`: the same as a refinement,
which also says that files are only discarded after a release.
`AbandonedUploadsSwept`: the three-day window is wide enough for a nightly
sweep that fails once in a row. `ExpiredIsOld`, `PurgeSparesYoung`: stale
status writes never expire a young advert and the purge, working from a list,
removes nothing younger than a day. `EveryAdvertEnds`: an `update` that read
the advert before midnight can revive an expired one, but it is expired again.

For `Sessions`, two handlers give every overlap of two of its operations, two
accounts the logout with another account's cookie, and three tokens a login
before, during and after a logout-all; two days let a set be older than its newest
token. `SessionsTracked`: every accepted token a client holds stays in the set
logout-all reads, which needs every login to renew the set; the exceptions
(`overlooked`) are the logins that a logout-all, or the end of an old
set, cuts between SADD and EXPIRE. `RevokedStaysRevoked`: what a finished
logout ended, or a finished logout-all could see, is not accepted again.
`NoAccessAfterDeletion`: tokens survive the deletion of their account, and
so do the entities that requests hold between two awaits. While the account is
deleted, only a request that had loaded it before the deletion gains access to it
(a refresh or a login that signs late) or brings it back (a stale password save);
whatever begins afterwards does neither, nor does a refresh whose token was read before
the deletion and its account after it. Nothing is promised of an account that was
brought back: its old tokens are accepted.

For `Categories`, three categories make a chain of three levels or a root with two
children, two handlers every overlap of two operations; a copy that lives one
hour can run out at any moment. `RelationsHold` needs no exception: whatever
saves overlap, parents and placed adverts exist. `TwoLevels` and `TitlesDiffer`
can only be broken by two saves of which one read before the other
(`torn`): removals, adverts and readers overlap with anything and break neither. Once
broken, everything else goes on, only no further save is begun (the bound of the run).
`OldOnlyIfRaced`: an old tree is served only between a save and its DEL, after a
reader stored what it had read before the save, or after a writer that stopped
before its DEL; nothing else ends in an old copy, and the next DEL or the end of
its time mends it.

For `Chats`, the third user is the one who must hear nothing, the unverified one can only
sell; two chats about one advert are those of its two possible buyers. `OnlyMembersHear`
is about rooms, notifications and lists together: a socket that joined stays in the room
after its token expired or its account is gone, but it is a member's. `UnreadInInbox`
holds although a message may be stored and never emitted, and although the other
account is gone. `ChatsMatchAdverts`: two overlapping starts never make two chats, and an
advert never changes hands under one. `NothingToTheDeparted`: the foreign keys stop
a message that was on its way when either account was deleted.

For `Accounts`, two ids of one mail are an account and the one registered
after its deletion; two passwords tell a choice from what was there before.
`VerifiedHavePhone` has two exceptions the code allows (see *Divergences*), kept in
`excused`. `PasswordsNeverRevert`: stale saves write back names, phones and
verification, never a password, which rests on `select: false`. `TokensWorkOnce`:
a token can set two passwords only if two requests held it at once or one stopped before its DEL.

For `Listings`, two points of one region, one of them without a place ('other'), and a city of the
same name in another region are the cases `getLocation` tells apart; pages of one
advert make two adverts two pages. `Bounds` keeps apart what does not interact:
wishes and account deletions from places, and the visitor from lookups (which change
no row he sees); handlers overlap when both create, or when both have to do with the
only advert; a wish or a deleted account meets at most one other handler.
`OneRowPerPlace`: only two lookups that both missed split a place. `SearchIsWhole`:
filters show nothing from elsewhere and, for a place not split, all that is there.
`PagesMissNone`: rows shift backwards when an advert he has passed goes away, and only
then, or when one comes up between a count and its page, can a visitor miss one;
new adverts come first and only repeat what was seen. `WishesHold`: the keys end the races.

The four have no liveness property and assume no fairness: nothing there must happen by itself
except expiry.

*Fairness* (`FairSpec`): the clock does not stop; the cron jobs run every night
and their calls are eventually answered; an advert that can be expired
infinitely often, or a draft that can be purged infinitely often, is met at
such a moment. The last is strong fairness because a stale save or a failing
call may take the chance away between two nights. Nothing is assumed of
clients, of handlers in flight or of deletion jobs.

## Findings

- `wipe_prefix`: `deleteFolder.processor.ts:17` deletes by prefix and the folder
  paths do not end in a slash, so wiping account 1 or item 1 also wipes the files of
  account 10 or of item 10 (README.md:37 speaks of *associated* assets).
- `purge_drafts`: an item published after `deleteDrafts` listed it is removed
  (README.md:40 speaks of *draft* items).
- `sweep_orphans`: a file attached between the sweep's query and its deletion
  is lost (README.md:41 speaks of *orphaned* images).

- `logout_all`: a login that adds its token after the SMEMBERS of a logout-all
  loses its entry to the last DEL (`RefreshToken.provider.ts:93`), the next
  logout-all does not find the token and it stays accepted
  (`users.controller.ts:184` speaks of *all active refresh tokens*).

## Divergences without a run

Met while modelling; the models do what the code does.

- `categories.service.ts:136`: a root without children may be made its own parent; it then
  is in no tree `findAll` returns, and `TwoLevels` allows for it.
- `verifyEmail.provider.ts:42-44` asks for a phone before the link is mailed, and
  `oAuth.strategy.ts:52` counts on it. A link names the mail only, so one mailed for a
  deleted account verifies its successor, and an edit that read the account before the phone
  was added writes the old one back (`excused`).
- An edit or a reset that chose a password and lost its account to a deletion inserts it again
  (`users.provider.ts:65`, `forgotPassword.provider.ts:91`). Its refresh tokens, which the
  deletion left in Redis, then pass `auth.provider.ts:98` again.
- `auth.provider.ts:100` signs for a user read before an `await`: an account deleted meanwhile still
  gets an access token.
- `chats.service.ts:224`: when the buyer's account is gone the seller cannot open the chat, while a buyer
  whose seller is gone can; the inbox still shows both.
- `items.controller.ts:108`, `:114` and `items.service.ts:295` speak of ACTIVE or SOLD adverts;
  `items.service.ts:140` selects only `active`.
- `wishlist.service.ts:19` speaks of a verified user; `create` does not look.
- Zero counts as absent: a coordinate in `items.service.ts:384`, a position in `:168`, a price in
  `:185` and `:189`.
- `items.controller.ts:43` sets a limit for a throttler named `default`; `app.module.ts:43-58` configures
  `short`, `medium` and `long`.

## Proofs

For all sets of users, items, names, rows, tokens and handlers and all life
spans that satisfy the named assumptions of the modules (`IdsAssumption`, `TimeAssumption`,
`LifeAssumption`, `NoneAssumption`, `CacheAssumption`, `PageAssumption`, `WhereAssumption`):

| theorem | states |
|---|---|
| `TypeCorrect`, `RelationsCorrect` | `Spec => []TypeOK`, `Spec => []RelationsHold` |
| `PromptRowsAreServed` | `Spec => []PromptRowsServed` |
| `AbandonedUploadsAreSwept` | `Spec => []AbandonedUploadsSwept` |
| `PromiseKept` | `Spec => KeepsPromise`, the refinement of `ServedImages` |
| `ExpiredItemsAreOld` | `Spec => []ExpiredIsOld` |
| `PurgeSparesYoungItems` | `Spec => PurgeSparesYoung` |
| `SessionsTyped` | `Spec => []TypeOK` of `Sessions` |
| `AcceptedTokensTracked` | `Spec => []SessionsTracked` |
| `LogoutIsFinal` | `Spec => []RevokedStaysRevoked` |
| `DeletedAccountsStayClosed` | `Spec => NoAccessAfterDeletion` |
| `AccountsTyped` | `Spec => []TypeOK` of `Accounts` |
| `MailsAreUnique` | `Spec => []OneAccountPerMail` |
| `VerifiedAccountsHavePhone`, `VerifiedMailsAreProven` | `Spec => []VerifiedHavePhone`, `Spec => []VerifiedVouched` |
| `LatestPasswordsStay`, `ResetTokensWorkOnce` | `Spec => []PasswordsNeverRevert`, `Spec => []TokensWorkOnce` |
| `ChatsTyped` | `Spec => []TypeOK` of `Chats` |
| `MessagesStayPrivate`, `MessagesGoBetweenMembers` | `Spec => []OnlyMembersHear`, `Spec => []BetweenMembers` |
| `UnreadIsInInbox`, `OneChatPerAdvert` | `Spec => []UnreadInInbox`, `Spec => []ChatsMatchAdverts` |
| `DepartedGetNothing` | `Spec => NothingToTheDeparted` |
| `CategoriesTyped`, `RelationsAlwaysHold` | `Spec => []TypeOK`, `Spec => []RelationsHold` of `Categories` |
| `TwoLevelsUnlessTorn`, `TitlesDifferUnlessTorn` | `Spec => []TwoLevels`, `Spec => []TitlesDiffer` |
| `CopyOldOnlyIfRaced` | `Spec => []OldOnlyIfRaced` |
| `ApartSavesKeepTheTree` | `Spec /\ []SavesApart =>` two levels and distinct titles, with no exception |
| `ListingsTyped` | `Spec => []TypeOK` of `Listings` |
| `OneRowUnlessSplit`, `SearchWholeUnlessSplit` | `Spec => []OneRowPerPlace`, `Spec => []SearchIsWhole` |
| `ApartLookupsKeepPlacesWhole` | `Spec /\ []LookupsApart => []PlacesWhole`: one row for a place, exact filters |
| `PagesNeverMiss` | `Spec => []PagesMissNone` |
| `WishesAlwaysHold` | `Spec => []WishesHold` |

*Arguments.* `StateInv` is `TypeOK`, the foreign keys and `MemOK`: what a
handler remembers is about the item it loaded and has rows of that item only,
which is what makes a re-insert harmless. `ServedInv` adds that a file can be missing
only if condemned or older than `SweepMin`; that the sweep's list holds only
older files; and that after its query it holds no file of a prompt row (a row
inserted later for such a file is not prompt). `SweptInv` bounds the age of a
file without a row by `SweepMin + failed * SweepPeriod + sinceSweep` between
sweeps and, during one, says that it is on the list or too young for it.
`CalendarInv` says that every EXPIRED a handler remembers, and every item the
purge has listed, is old enough; ages only grow, so it stays so. The
refinement maps `kept` to the files of prompt rows not condemned and sends
uploads to `Receive`, saves to `Keep`, removals and queued deletions to
`Release`, worker and sweep deletions to `Discard`.

`SessionInv` strengthens `SessionsTracked` by time: the set of an account lives
at least as long as every tracked token (`SetsOutlive`), without which `Tick`
would break it. `HandlersFit` says what a handler may rely on
between its commands: the token a login added is in the set, dead or
overlooked; what a logout has deleted stays deleted; each token known when a
logout-all began is on its list, dead or overlooked. A step keeps it for the
other handlers when tokens keep their account, dead tokens stay dead and a live
token leaves a set only by being overlooked (`Lasting`, `Staying`).
`DeletedAccountsStayClosed` has an invariant of its own, `LostWhenDeleted`: every
handler that holds an account which does not exist had loaded it before a
deletion. It holds since a handler comes to hold an account only while the
account exists, goes on with the same one, and a deletion marks all that hold it; the
steps that open or restore an account are steps of handlers that hold it.

`AccountInv` says what a handler holds while it waits (`Fits`): an entity with the account's
own mail, a password only if the request chose one, `verified` only with a proven mail and with
a phone, unless the phone was lost or the link belonged to another account. `LinksHold` carries
the phone from the mailing of a link to its use. `TokensHold`: two handlers that hold a token
make it shaky; a token that set a password and is not shaky is held only by the
handler about to delete it.

`ChatInv` says that the columns of a chat hold its two users, each in one place, until the
account is gone (`Pair`); the receiver of a message is still in its chat or gone (`Within`); rooms
and handlers hold members only. Removals keep it because they blank the same name in
every table (`GoneStep`); `IdsAssumption` of `Chats` keeps ids of users and adverts apart, as the
keys of two tables are.

`CatInv` adds to the five properties what a waiting handler has read and may still believe.
While no save was outdated (`~ torn`), a handler that will save and is not `stale` is `Sound`:
its children are still all those of its category, the parent it has checked is still a root, the
title it has looked up is still nobody else's. Without `Sound` the properties are not inductive: the save
itself looks at nothing. A save makes every other waiting save `stale`, so `Sound` has to
survive only removals and placements; a removal keeps it because it takes whole subtrees. An advert
about to be placed reads a category that has a parent (`Placed`), and no sure
save of that category, not even one that inserts it again, leaves it without (`Apart`). `RelationsHold` rests on `Doomed`
being closed under children, which follows from its being the intersection of the closed sets that contain the
removed category; no induction over chains of parents is needed.

`ListInv` has four blocks that share few variables, so that a step need only be looked at in the
block it disturbs. Rows of places are compared level by level: `Is(n, i, w)` says that row `i` of
table `n` (1 countries, 2 regions, 3 cities) is on the path `w`, `Torn` that `split` holds a
beginning of `w`. `RowsOnce` says that two rows on one path mean a torn path. It is not inductive
alone: `InsertsOnce` says the same of a row there is and one a handler has missed and will
insert, `InsertsApart` of two handlers that will insert; the lookup that makes the second of them is
the one that records the split. `FoundOn` says that what a lookup has found is, and stays, on its
path, as tables only grow. `OneRowPerPlace` and `SearchIsWhole` then follow from
`RowsOnce` and `RowsPlaced` (an advert's city is on the path of its point).
The page argument is a counting one: `Turning` says that what is `owed` matches and is
not among the first pages, and that the count is no less than what matches unless one came `late`.
If a match is not among the first `k`, at least `k` are, all of them later (`FirstAreLater`,
from the latest of those left, which a finite set with distinct times has); as long as these stay
in the list, it cannot slip into the pages passed (`PassedStay`), and new adverts only push it
further back. The last page ends at or after the total, so it shows all that is left (`AllFirst`).

What an exception is worth is proved for these two. `torn` and `split` excuse the properties
of `Categories` and `Listings` after an overlap of two requests; `ApartSavesKeepTheTree` and
`ApartLookupsKeepPlacesWhole` say that nothing else sets them: if creations and updates of categories
(`SavesApart`), or lookups that missed and their inserts (`LookupsApart`), never overlap each other, the
properties hold outright, however all other requests and failures overlap. The code has no such lock;
the theorems say where one would be enough.

*Only model-checked*: `EveryAdvertEnds` of `Items` (liveness under fairness is beyond the
prover). Every other property of a passing run is a theorem. `CatInv` and `ListInv` were checked
by TLC before they were proved: `CatInv` on all states of the `categories` run, `ListInv` to a depth of 14
steps of `listings`. Worth proving next: what the exceptions of `Sessions` (`overlooked`) and
`Accounts` (`excused`, shaky tokens) are worth, in the same way.

## Not modelled

Titles, prices and texts of adverts and messages, mail templates, exception formatting and
configuration: data, or wiring without state. Full-text ranking, distance, price and the other
orders of the search: conditions of one query that Postgres evaluates. The pages of messages and chats. Throttling:
counters of a library. Running the migrations; the constraints they make are guards of the models.
The geocoder's failures are the `Abort` of the request. Two sockets of one user share their rooms
in `Chats`. An account that a stale save inserts again comes back in `Accounts` and `Sessions`
only: in the other modules a deletion is final. A file is deleted whole or not at all; a mass deletion that fails half-way is
not split. Files left behind by lost or failed deletion jobs do occur in the model; no property
forbids them, because the code does nothing about them after three days.
