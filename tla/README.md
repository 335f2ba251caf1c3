# Verification of barambook-api

TLA+ models of this repository, the TLC runs that check them on small instances,
and TLAPS proofs of what matters most for every size.

The program is one NestJS server (possibly several instances of it) in front of
MongoDB. It serves a fan site of an online game: a trade board, a live "channel"
in which visitors walk, fight and chat, a feed of the shouts of the game with
market quotes parsed from them, alerts on those quotes, member accounts, pictures
of characters, and catalogues filled by import scripts. Node runs one callback at
a time, so **the unit of interleaving is the stretch of code between two awaits**:
a handler that loads a document, awaits a query and saves works on a snapshot that
may be stale. Much of what is hard in this code comes from that, from processes
that stop between two awaits, and from a few timers. The rest are algorithms with
many cases: the parser of shouts, the search for routes, the calendar of the maze,
pages and figures over limits, and the layers of a picture.

All paths below are relative to `src/src/` unless they begin with `src/`.

## 1. Inventory

| Component (code) | State | Operations | Hard behaviour | What makes it correct |
|---|---|---|---|---|
| Trade listings and requests (`trade/trade.service.ts`) | `trade_listings`: status, array of requests, owner, completion mark, mongoose `__v` | create, request, withdraw/reject, complete/cancel; credits points on completion | snapshots saved after awaits; only array writes are versioned; limits counted before the save; a crash between status, claim and credits | no request lost or revived; one credit per completion; status agrees with requests; limits exceeded only by overlap |
| Trade messages (same file) | `trade_messages`, `trade_threads` (unread counts, read and push marks) | write, read, summaries | message and summary are two writes; the push throttle is read before it is written; reading marks what was not shown | the summary is backed by messages; pushes are throttled but for overlap; only late messages are hidden |
| Trade queries (same file) | none of their own | figures of an item on five pages, pages of the market | five queries with five cuts; an order computed after a cut | figures come from the same deals; every listing is shown once |
| Channel presence (`channel/channel.gateway.ts`, `channel.service.ts`) | maps in memory: participants, by account, by address; timers; what clients show | connect (guest, member), disconnect, activity, sweep | a connection is suspended in the session lookup while its socket or its rival's changes | maps agree, no ghosts, clients see the roster, screens are not displaced |
| Channel world and chat (same files, `map-collision.ts`, `campfire-store.ts`) | positions, messages, pins, campfires and their file, training dummies, monsters, points under way | move, say, place, spawn, damage, rounds of the monsters | timers against messages; a file behind memory; answers of the database out of order; bounded tables | clients show what the server has; a fire lasts and has no neighbour |
| Chat feed, market ingestion (`chat-feed/`, `game-market/`, `src/scripts/backfill-game-market-json.ts`) | `chat_messages`, `game_market_quotes`, `game_market_ingestions` | post, ingest, backfill, poll, page | retries, duplicates, a bulk write half applied, new parser rules; shouts stored after later ones | what is recorded is counted; offers reach the alerts once; nothing is skipped by a poll but what came late |
| Market parser and queries (`game-market/`) | none of their own | parse; table, list and curve of an item | prices, counts and sides share a shout by their place alone; stretches at a period's edges | a shout is read as written; the three views agree |
| Market alerts and rules (`market-alert/`) | `market_alert_rules`, `market_alert_notices` | rules; process quotes | several instances; cooldown read before the notice is stored; push after the notice | one push per rule and quote; best offer sent; nobody suppressed by another seller |
| Member account (`member/`) | `sso_members`: verification, nickname, points, days, look, session; a recheck cache; drawn pictures | verify in two steps, recheck, revoke; credit; attend; rename; log in and out; draw | an external platform between two awaits; check, then store; days computed before queries; overlapping logins | a verified profile was proved; credits bounded per day; a picture shows its look |
| Notification (`notification/`) | open event streams, `push_subscriptions` | open, subscribe, notify, drop what is gone | removal of a subscription that was renewed | no live subscription is removed |
| Ranking (`ranking/`) | the class rows of `user_v3` | upload, query | two uploads overlap, characters change class | names that all uploads hold are kept |
| Name search and guards (`hopae/`, `common/`) | rate buckets, records of refusals; stateless tokens | search, consume, evict | eviction under load, clock edges | the rate is bounded but for forced evictions |
| Route search (`map/navi/`) | none | search | many maps of one name, one-way portals, groups | a shortest route |
| Catalogues and imports (`old-baram-*`, `gu-baram-*`, `maze/`, `gacha/`, `src/scripts/import-*.ts`) | imported collections | import, refill, list, look up | one fact in two collections; a script that stops; calendar edges | lists agree with the tables and with each other |
| Pictures (`lib/`, `renderer/`) | caches of pictures and windows, the load of a pack, a file of exceptions | draw | two sources of sprites with different orders, palettes that move, caches | every part drawn once in order; loops close; caches never stale |
| Likes, login redirects, guide, stored render catalogues, scripts that ran once | none that a step changes | reads, redirects | - | - |

How they interact: the trade board asks the member account for the state of the
verification and credits points to it; both it and the market alerts call the
notification service without awaiting it. The chat feed calls the market
ingestion, which hands new quotes to the market alerts without awaiting them.
The channel gateway looks sessions up in the member account and likes in the
user service, and credits points on a timer and for messages. The member
controller has pictures drawn by the renderer. `PROJECT.json` lists every
component with its status, and under `hazards` the lines at which the code can
go wrong in ways that a test would hardly reach, each with the properties that
would catch it.

## 2. Modules

| Module | Models | Run |
|---|---|---|
| `RequestBook` | the promise of the trade board about requests, atomically: the abstract specification | `trade_listing` |
| `TradeListing` | `createListing`, `requestTrade`, `releaseRequest`, `updateStatus`; implements `RequestBook` | `trade_listing`, `trade_ended` |
| `TradeListing_proofs`, `ChannelPresence_proofs`, `MarketFeed_proofs`, `MarketAlerts_proofs`, `ProfileVerification_proofs`, `Services_proofs`, `Live_proofs`, `WorldQueries_proofs` | theorems (section 4) | - |
| `TradeThread` | `createMessage`, the first memo of a request, `findMessages`, summaries | `services` |
| `TradeFigures`, `TradePages` | the figures of an item; `findListings` | `world_queries` |
| `ChannelPresence` | connections, replacement, disconnect, activity, the presence sweep | `presence`, `presence_replaced` |
| `ChannelWorld`, `ChannelChat`, `Campfires` | the map, its monsters and dummies; the chat, pins and grades; the fires and their file | `world_queries` |
| `MarketFeed` | `create`, `ingestChats`, the backfill script | `market_feed` |
| `ChatFeed` | `findNewer` and `findOlder` by cursor, and a client that follows them | `world_queries` |
| `MarketParser`, `MarketSearch` | `parseGameMarketMessage`; `getOverview`, `getQuotes`, `getHistory` | `world_queries` |
| `MarketAlerts` | `processNewQuotes`, `sendAlert`; takes what `MarketFeed` hands over | `market_alerts`, `market_cooldown` |
| `AlertRules` | `createRule`, `updateRule`, `deleteRule` | `services` |
| `ProfileVerification` | the two steps of the verification, its recheck and revocation | `verification` and two more |
| `MemberNaming`, `DailyCredit`, `Accounts`, `CharacterImages` | sign in and nickname; attendance and trade credits; sessions; the pictures of members | `services` |
| `RateLimiter`, `RankingUpload`, `Notification` | the buckets; the uploads; streams and subscriptions | `services` |
| `RouteSearch` | `findShortestRoute` | `world_queries` |
| `CatalogImport` | what all imports share: documents one after the other, a stop between two, pages | by the next |
| `OldBaramWorld`, `GuBaramWorld`, `OldBaramItems` | the three import scripts and the services that list what they wrote | `world_queries` |
| `Refill` | what both scripts share that empty a collection and fill it | by the next |
| `MazeCalendar`, `GachaGroups` | the week and maze of a moment; the boxes, folded and looked up | `world_queries` |
| `OldBaramPictures` | `lib/old-baram`: poses and draw orders; requests, layers, windows, caches | `world_queries` |
| `CharMsFrames`, `CharacterPictures` | `lib/char-ms`; palettes that move, files of many pictures, the merger of the pack and the classic sheets, and the shared load of the pack | `world_queries` |
| `SpritePixels` | `lib/epfDecoder.ts`, `lib/weaponDyeExceptions.ts` | `world_queries` |
| `MCServices` | composes the services | `services` |
| `MCLive` | composes what clients follow: `ChannelWorld`, `ChannelChat`, `Campfires`, `ChatFeed`, and what they ask: the pages of both markets (`TradeFigures`, `TradePages`, `MarketSearch`) and routes (`RouteSearch`) | by the next |
| `MCWorldQueries` | extends `MCLive` by catalogues, readers and pictures, with a small pack and small sheets for `CharacterPictures` | `world_queries` |

Constants get their values in the `.cfg` of a run; those that are functions, sequences or
sets of tuples are definitions `Small...` of the run's module. The runs of single modules
take these as they are, each with its symmetry set. Operators introduced by the comment "A
bug: ..." are never part of a specification; each is what a plausible bug in the code
would make of the operator that follows it, and every property of a passing run is known
to fail when its operator is put in.

**One run, many parts.** The modules of `services` share no state, nor do those of
`world_queries`. Each of these two runs starts in any of its parts, and a behaviour
stays in the part it began in while the variables of the others rest (`In(p)`); interleaving
parts that neither read nor write each other's state would only multiply the states.
A property of such a run is the conjunction, over the parts it is about, of the
properties that their modules state, and holds trivially in the other parts.

### State and actions

**TradeListing.** `db` is the collection, `calls` the handlers in flight with
their local variables, `paid` counts the credits for each completion (the points
themselves are the member account's). An action is the code from one await to
the next: `RequestLoad` runs from the start of `requestTrade` through its checks
to the count, `RequestCount` is the answer of the count, `RequestSave` the save.
A save follows mongoose: only changed paths are written; a save that writes the
array `requests` matches the loaded `__v` and raises it, and one that writes
scalars does neither. So `RequestSave` and `ReleaseSave` may fail with a
VersionError while `ResolveSave` cannot, and `AskedRow`, `ReleasedRow` and
`ResolvedRow` overwrite only what differs from the snapshot. `Claim` is the
conditional `updateOne` on `completionPointAwardedAt`, `Pay` one of the parallel
credits. `Abort` is a rejected query or a stopped process, at any await.
Not in the model: names, prices and items, and the notification, which is not
awaited and whose failure is swallowed.

**TradeThread.** The threads of one listing, one for each requester. `messages` are
in the order in which they were stored, each with the time it took *before* that;
`threads` the summaries with unread counts, read and push marks. `Write` and
`Request` (its first memo) run up to the save of the message, `Save` stores it,
`Look` reads the summary for the throttle, `Upsert` writes it and pushes. `Read` is
`findMessages`: `Find` the query, `Mark` the write of the read mark. `Abort` stops a
handler at any await, `Release` and `End` change the listing under it.

**TradeFigures, TradePages.** Deals and listings are added one at a time, which reaches
every board within the bounds; the operators are the five queries (`PriceStats`, history,
summaries, ...) and the sort, cut, regrouping and slice of `findListings`. Nothing is
removed: the order of `createdAt` is all that matters. What a query lists is a set of
places in that order; a limit keeps those that fewer than so many others come before
(`Latest`, `Oldest`, `Before`), and a page those of a stretch of ranks. The curve of an
item (`PriceHistory`) is of a window of time, `closedAt: { $gte: since }`, 90 days unless
the client asks for others; whatever the time is, the window is what follows some place in
the order of `closedAt`, so the claims are made for every such place.

**ChannelPresence.** `sock` holds each socket and whether its connection handler
waits for the session or the likes; `world` the maps of `ChannelService`;
`timers` the point timers; `view` what each client shows after the bootstrap and
the events it was sent. `LetIn` is the tail of `handleConnection`: it replaces
the old socket of the account or address, then looks whether the newcomer is
still connected, and either announces it or removes it. `Sweep` removes ghosts
and marks the idle as away. Events arrive in order and are taken to be shown at
once: the model is about which events the server sends, not about the network.

**ChannelWorld.** Players walk tile by tile on a small map with a wall, the loop of
the monsters moves them one monster at a step (the code's loop handles all in one
callback, each by itself, and a client sees one event for each), anybody sets up a
training dummy, which replaces the one before, and beats others' dummies and the
wild ones; `cool` is the time since a player's last move and blow. `screens` is what
the clients make of bootstrap and events. Those of the lobby, who chat only and have
no place on the map, are left out.

**ChannelChat.** `Say` trims the history and unpins, and begins `addPoints`; its
answer (`awards`) may come in any order, after the sender left or returned, and
changes the grade that all are shown.

**Campfires.** `CHANNEL_CAMPFIRE_DIR` is taken to be set, and there is one
file of one world. A write may fail, a process may stop around it, and a new one
takes what still burns.

**MarketFeed.** `Post` stores a shout under its unique source id and begins an
ingestion; `Backfill` begins one for stored shouts, without alerts; `FindPending`
leaves out what is recorded for the current rules; `WriteQuotes` is the bulk
write, `Record` the ingestion records and the hand-over to the alerts. A bulk
write is one step of the model because its operations commute (`$min`, `$max`,
`$inc`); where it stops half-way, `Abort` applies any subset. `Deploy` installs
new parser rules, which begin new fingerprints and forget all records.

**ChatFeed.** A request takes the time of its shout in one step and stores it in
another; the database drops the oldest; the client loads, polls and pages back. A
poll that finds more than a page starts the list afresh, as the client of this API
must. `late` remembers, for the property only, what was stored behind a cursor.

**MarketParser.** A shout is a sequence of tokens - names, numbers with their unit,
counts, marks of a side, separators, brackets, ways to pay, dyes - which grows by
one at a step; the quotes are a function of it, as in the code. `ReadAsWritten`
compares them with a reference reading. Left out are how a text is cut into tokens
(tables of aliases, `normalizeMarketText`), the upper bound on prices, the word for
a ratio, items whose own name holds the word for a changed form, durability and the
figure of confidence.

**MarketSearch.** Quotes are added in the order of `lastSeenAt`, time passes, and the
three views are operators over sets of their places; `PriceAt` is the price of a rank
(`sortedPrices`), from which medians and percentiles are taken.

**MarketAlerts.** A call is the fresh offers of one shout. `ReadRules` takes the
limits of the rules as they are at that moment: owners change, disable and
delete rules at will, so the limits are inputs. `ReadNotices` leaves out what
was noticed and keeps the best offer of each seller; then for each candidate
`HeedCooldown`, `Claim` (the insert that the unique index guards) and `Push`.
Rules and quotes differ only in the price; offers to buy are the mirror image.
`Date.now()` is taken when the call begins, as in the code, and so is the time of
the notices it stores later.

**AlertRules.** `Create` begins `createRule`; `FindSame`, `Count` and `Insert` are its
three awaits; `Load`, `Save` and `Delete` those of the others.

**ProfileVerification.** `world` is the external platform: the name and the
background of each profile, and, which nobody is told, how often the background
changed. `members` is the part of `sso_members` that the verification uses,
`passed` the in-memory cache of rechecks, which `Restart` empties. A challenge
remembers (for the property only) how often the background had changed when it
was prepared. Names that `isSameMverseProfileName` takes for the same are one
name. The two requests of `fetchMverseProfileByCode` are taken to see the profile
at one moment.

**MemberNaming, DailyCredit, Accounts.** Handlers await by await: `Login` finds, then
saves; `Rename` reads the member, looks for a namesake, then stores; `Attend` and
`CreditTrade` name a day that was computed when they were asked; a session is the
hash that the last login saved, and the guard lets a call in before it acts.

**CharacterImages.** `looks` has every look ever saved with its millisecond; `cache` is
the `Map` with its order of insertion; `Drawn` and `DrawFails` are the ends of a
drawing that other calls did not wait for.

**Notification.** `streams` is memory, `subscriptions` the collection; `Send` learns
from the push service that an endpoint is gone, `Drop` deletes it later; `Request`s
of clients are carried out in any order.

**RankingUpload.** One step for each row, one for the deletion of the stale rows.

**RateLimiter.** `buckets` is the table; `fair` (of no use to the program) the tokens
of a bucket that is never dropped, `forgotten` how often a key's bucket was dropped
before it had rested.

**RouteSearch.** `Init` is any graph within the bounds; one step looks at one
connection of the map in hand, in any order, as the stored lists may have any.

**CatalogImport and its three users.** An import makes all documents of an extract and
writes them one by one; it may stop anywhere, and a document whose row is gone
stays. Claims are made for collections that one import wrote from beginning to end
(`whole`), except that of pages, which holds always. The maps that lead to a map are
listed up to a limit (60 in the code) by a query without an order, so any so many of them
may be the answer (`Incoming` is the set of the answers): a map that has a portal to
another is listed there unless more maps than the limit lead to it.

**Refill, MazeCalendar, GachaGroups.** A script refuses a bad extract before it empties
its collection; readers may see it empty or half full, and what is claimed of lookups is
claimed of a whole refill. Chances are percentages to six decimals, each rounded by itself
(`toFixed(6)`, half up; that a double may miss a half by its last bit is left out), so a
box adds up to certainty only within half a unit an item. Time goes in steps of three
hours, around the turns of three years, and does not pass during a refill.

**OldBaramPictures.** The tables of actions and draw orders in full, and
the renderer over a small pack: completion and refusal of requests, `Plan` (layers
and shadows), the window of an outfit, both caches with their order, sheets and lists
of dyes. A picture is the record of what makes it; a sprite is its bounds. Bodies'
resources start at 0 as in the packs. Pixels and the watermark are left out.

**CharMsFrames, CharacterPictures.** `CharMsFrames` is the way from a number
of a frame to a pose, the atlas and the frame of a part, and the order of layers;
`CharacterPictures` has the palettes that turn, their common period and the chunks of an
APNG, draws the classic parts, merges both, and shares the load of the
pack among all who ask while it runs. `Ask` runs up to the await, `Loaded` is
the end of the load and everything that waited for it, `Sent` clears the answers,
which go out before the next step. The sort is a stable insertion: the order the code
sorts by has no cycle among the layers of the pack's 120 poses. The poses and layers
of `MCWorldQueries` are those that the real pack begins with.

**SpritePixels.** A mask is a row of bytes, each a run; a pixel its palette and colour.
`Write` and `Unlink` are others who change the file of exceptions. The file does not
change while one sprite is decoded, every write has another time, and no range lies
wholly below row 0 (the code would make row 0 of it).

## 3. Runs

Every run with `expect: pass` is exhaustive within its bounds.

| Run | Instance | States | Shows |
|---|---|---|---|
| `trade_listing` | 3 members, 2 listings, 2 handlers, limits 2/1/1, 2 versions | 822,960 | `TypeOK`, `PaidOnce`, `StatusMatchesRequests`, the two overlap limits, refinement of `RequestBook` |
| `trade_ended` | 2 members, 1 listing, 2 handlers | - | **violates** `EndedStaysEnded` (finding 1) |
| `presence` | 3 sockets, 1 account, 1 address, away after 2 ticks | 22,329 | `MapsAgree`, `NoGhosts`, `ViewsAgree`, `ScreenKept`, `IdleGoesAway` |
| `presence_replaced` | 2 sockets | - | **violates** `ReplacedByAnother` (finding 2) |
| `market_feed` | 2 shouts, 2 offers, 2 calls, 2 instants, 2 rule versions | 1.79 M | `RecordedIsCounted`, `QuoteTimesReal`, `HandedOnce` |
| `market_alerts` | 2 sellers, 1 rule, 2 prices, 2 calls, 3 instants | 886,769 | `PushedOnce`, `CooldownWithinOverlap`, `BestOfferFirst`, `NobodyLeftOut` |
| `market_cooldown` | the same | - | **violates** `CooldownHeld` (finding 3) |
| `verification` | 2 accounts, 1 profile, 2 names, 2 backgrounds, 2 handlers | 2.30 M | `ChallengeAnswered` |
| `verification_taken` | the same | - | **violates** `OneHolder` (finding 4) |
| `verification_revoked` | 1 account, 1 profile | - | **violates** `RevokedForRename` (finding 5) |
| `services` | nine services, two overlapping handlers each | 485,585 | below |
| `world_queries` | seventeen parts | 208,551 | below |

What `services` shows, service by service:

- *Thread*: `UnreadBacked` - a badge never counts more than the stored messages of the
  other side, whichever handlers stopped half-way;
  `ThrottledUnlessOverlap` - two pushes within the throttle only by overlapping
  messages; `ReadHidesOnlyLate` - reading marks a message as read unshown only if it
  was stored late or is past the first page.
- *Names*: `HoldersWithinOverlap` - a nickname is chosen by no more members than handlers
  can look for it at once.
- *Credits*: `CreditsWithinOverlap` - a day is credited past its limit only by updates
  in flight over midnight. *Rules*: `RulesWithinOverlap`, likewise for the limit of rules.
- *Buckets*: `RateHeld` - a key has the tokens of a bucket that is never dropped, and a
  burst more at most for each time it was dropped before it had rested.
- *Ranking*: `CommonNamesKept` - a name that all uploads of a class hold and no other
  class claims is never lost to overlapping uploads.
- *Notification*: `LiveKept` - a device that the push service still knows loses its
  subscription by a request of the account that holds it and by nothing else.
- *Accounts*: `SessionsHold` - a token opens one account and never again once its session
  ended, and a session ends by a login or by a logout that was sent with its token.
- *Images*: `ImagesFresh` - a picture that is answered shows a look saved at its time.

What `world_queries` shows: `WorldAgrees` (clients show players, monsters, dummies,
messages and grades as the server has them; a fire that was announced lasts and has no
neighbour), `NothingSkipped`, `ShortestRoute` (against all routes), `FiguresAgree`,
`PagesHold`, `CataloguesAgree` (what a whole import wrote is listed as its tables say
and the same from each of its ends), `MarketPagesAgree`, `ReadAsWritten` (a shout is read
as written; the open maze and every box of a whole script are found, and weeks follow each
other), and `PicturesHold`:

- of the old game, that a picture fits its canvas, that poses have what they draw and
  steps alternate, and that a cache never answers with anything but what would be
  drawn anew;
- of characters, that a part is drawn once, by the pack or by the sheets (`DrawnOnce`,
  `Complete`), in the one order of both (`InOrder`), that a moving picture ends where it
  began (`LoopsClose`) and its file holds all of its frames (`FileWhole`), that who asks
  after a failed load has it tried anew (`LoadsShared`), and which numbers of sprites a
  sheet must hold (`SpritesHeld`);
- of sprites, that a mask paints its runs and no more (`PaintedAsMasked`), that a
  weapon is dyed as the file of exceptions says now (`DyedAsTold`, `RangesApart`), and that
  a dye that moves has no jump (`DyeLoops`).

### Bounds

- *Two calls in flight.* Each race of this code is between one handler's snapshot
  and another's write, so two show every pair; that nothing new comes with more
  is proved of the properties that section 4 states as theorems.
- *trade_listing.* Two versions let a listing be requested and released, or
  requested twice, and saved late by a handler that loaded any earlier version.
  With three members a listing never reaches its limit of two requests from two
  strangers *and* refuses a third, so the limit of `RequestBook` rests on the
  theorem. Limits of 1 are reached and exceeded by overlap.
- *presence.* Three sockets are a seat, its replacement and one more connection
  that ends its lookup late. Guests and members compete for one account and one
  address; several accounts only add independent copies.
- *market_feed.* `MaxSeen` stops new calls once a quote was seen twice; the clock
  has two instants, fresh and too old; documents that expire after 90 or 120 days
  (TTL indexes) stay within the bound on the clock.
- *market_alerts.* Three instants with a cooldown of two: within it, on its edge
  and after it. Notices expire after 7 days, which is beyond the clock.
- *verification.* Two instants with a challenge that lasts for one: in time and
  late. Two changes of the background let the owner change it and change it back.
- *services.* Three messages of the requester and none of the owner: each side has its
  own counters and marks, and one and two messages of both sides (823,000 states)
  hold as well. Limits of one or two are reached and passed; three days have two
  midnights; three uploads are two of a class around one of the other; four ticks fill
  a bucket of two more than once; three logins are one after, and one during, another's
  logout.
- *world_queries.* Every limit (pages, scans, histories, stretches, hops, tables) is
  reached and passed by the amounts of data allowed: four shouts and pages of one, five
  deals and a sample of two, three listings and a scan of two, five quotes and two
  stretches. All graphs of six portals among five maps of three names. The calendar
  covers eight days around the turns to 2024, 2026 and 2027, a leap year, and years of
  52 and of 53 weeks. The parser reads every shout that says no token of its alphabet twice,
  for eight alphabets of five or six tokens that meet. The cap on
  colours is 6 and a dye has 4 steps (both 32 in the code): periods of 2, 3 and 4 and
  two that exceed the cap together are among the palettes. Three writes of the file
  of exceptions let it change twice after it was first read.

Larger instances that held and are not kept: `MarketSearch` with six quotes (734,104
states), `ChannelChat` with three sockets and four ticks (1.57 million), both sides
writing in `TradeThread` (823,000).

### Fairness and stopping

Only `ChannelPresence` states fairness: weak fairness of `Tick` (time passes) and
of `Sweep` (`setInterval` calls it every 30 seconds), which `IdleGoesAway`
needs. Nothing is assumed of clients or of queries: an activity may come forever,
and a lookup may never be answered. All else is safety, since no code retries a
request that failed.

Three runs have `CHECK_DEADLOCK FALSE`. In `market_feed`, once the clock, the
rule versions and the counts have reached their bounds and nobody posts, the
server is idle. In `services` and `world_queries` messages, rules, uploads, deals,
listings, quotes and refills are bounded, and a search for a route ends.

## 4. Proofs

TLAPS checks every theorem below for all values of the constants that meet the named
assumptions of the modules. These say that a value which stands for none is not among the
real ones, that limits and times are natural numbers (positive where the code divides by
them or would not start without), and that the handlers that overlap at one time are
finitely many, which counting needs; in `services` there is at least one of them.

The invariants are not inductive as they stand, nearly always for one reason: a handler
goes on with what it read some steps ago. So the strengthening says what a *suspended*
handler may still rely on, and the work of each proof is to show that the steps of the
others leave that alone. `Quiet...`, `...Kept` and `...Keeps` are lemmas that dispose of
all steps that do not touch what an invariant is about, so that the rest of a proof is
about the few that do. Where a specification is an instance (`MCServices`, `MCLive`), the
invariant is stated of rigid values that equal the variables
(`\E m, th : m = messages /\ th = threads /\ ...OK(m, th)`), since an instance's operator
applied to a primed argument is opaque to the provers.

### `TradeListing_proofs`

`TypeCorrect`, `StatusCorrect` (`StatusMatchesRequests`), `PaidOnceCorrect`,
`ImplementsBookCorrect` (the refinement of `RequestBook`), `OutgoingCorrect` and
`ListingsCorrect` (the two limits), for any number of members, listings, handlers.

A handler writes back an array it read some steps ago, so the invariant says what the
snapshot still means (`Snapshots`): the owner is the same, the row exists and is no older
than the snapshot, and *as long as the version is the one that was loaded, the requests are
those that were loaded*. Together with what each handler had checked before it was
suspended (`Checks`), this makes the array that a matching save writes equal to the
current one plus or minus one member, which is the step of `RequestBook`; it also
gives the status its agreement with the array. `IInv` is `TypeOK`,
`StatusMatchesRequests`, `Snapshots` and `Checks`.

`PaidOnce` needs more (`Credits`): whoever was credited belongs to a listing that
carries the completion mark, the members a handler has yet to credit have nothing
so far, and no two handlers credit the same listing, for only one `Claim` can find
the mark unset. `CInv` adds this to `IInv`.

The limits count: with `n` handlers, a member's open requests and the handlers that have
counted them and not yet saved are together at most the limit and `n - 1`
(`OutgoingBounded`, by `Bounded`): the handler that counts sees fewer than the limit, and
of the others at most `n - 1` are ahead of it. `LiveBounded` says the same of listings; a
listing whose late save is under way counts as live. `OInv` is `IInv` with both.

### `ChannelPresence_proofs`

`TypeCorrect`, `MapsAgreeCorrect`, `NoGhostsCorrect`, `ViewsAgreeCorrect`, and of the
action property `ScreenKeptCorrect`, for any number of sockets, accounts and addresses.

`IInv` is the type invariant, the three properties together and `Handlers`: only a socket
that names an account waits for its session, and a seat has the mode its socket asked for.
None of the properties is inductive alone: the maps stay each other's inverse because a
place is taken only after whoever held the account or the address was removed, and a
handler that is suspended has no place yet. The two-step replacement is
one lemma about the maps before, between and after (`Placed`).

### `MarketFeed_proofs`

`TypeCorrect`, `RecordedIsCountedCorrect`, `QuoteTimesRealCorrect` and
`HandedOnceCorrect`, for any number of shouts, offers and calls, any of which may stop.

`DueCounted` is the strengthening: a quote counts not only the shouts that are recorded
but also those that some call is *about to record*, because the quotes are written first.
`StoredOnly` has calls take in stored shouts only, and `HandsOnce` says that a shout that
was just stored is in one batch that notifies and was not handed over yet.

### `MarketAlerts_proofs`

`TypeCorrect`, `PushedOnceCorrect`, `CooldownCorrect`, and of the action properties
`BestOfferFirstCorrect` and `NobodyLeftOutCorrect`, for any number of sellers, rules and
calls, any prices and any cooldown.

`PushedOnce` says nothing of a call between its claim and its push, so the invariant does:
such a call holds a notice of an alert that was never pushed (`Held`), and no two of them
hold the same one (`Alone`), because only the first claim finds no notice and notices are
never removed within the clock. `BestOfferFirst` needs that whatever a call matched
and is better than what it has yet to send was notified of (`Beaten`). `IInv` is these,
`TypeOK` and that a call has an alert in hand just while it sends it (`Fitting`). `JInv`
adds `Cooled`, which counts notices within a cooldown together with the calls that have
looked and not yet stored, and `Attending`: each offer that a call matched has been
answered or is no better than one that the call has yet to send. That there is a best offer
to send at all is a fact about finite sets, proved by well-founded descent.

### `ProfileVerification_proofs`

`TypeCorrect` and, of the action property, `ChallengeAnsweredCorrect`, for any number of
accounts, profiles and handlers. A challenge asks for a background that the profile did not
show when it was fetched, and the number of changes of a profile only grows; so wherever a
challenge is kept, in a row (`RowFits`) or in the snapshot of a handler (`JobFits`), the
profile shows the background asked for only if it was changed since (`Held`).

### `Services_proofs`

One theorem for each property of the run `services`, of its specification `ServicesSpec`.
`StepsApart` says that each step is one of a service or leaves its variables alone.

- *Thread*: `UnreadBackedCorrect`, `ThrottledCorrect`, and of the action property
  `ReadHidesCorrect`. `ConversationOK` relates the stored messages and the
  summary: an unread number is at most that of the messages of the other side that were
  *counted*, and a push mark is that of a push or later, unless an older message set it
  back. `HandlerOK` says what a suspended handler may rely on: its message is stored and not
  counted yet, and what it knew when it decided to push was counted by then.
- *Names*: `HoldersCorrect`. Those that hold a name and those about to store it were let
  through by different handlers: one set, no larger than that of the handlers, contains
  both (`NamingInv`). *Rules*: `RulesCorrect`, likewise for rules and for each thing.
- *Credits*: `CreditsCorrect`. `Ledger` keeps account of one day: while it lasts, each
  handler that is behind it can set the count back once, which costs a limit's worth of
  credits; once it is over, each handler still on it can pass the count once. With `n`
  handlers that is `L n` and `n - 1` more.
- *Buckets*: `TypeCorrect` (with the bound on the table) and `RateHeldCorrect`. A tick adds
  the same to a kept bucket and to the one that is never dropped (`TickGains`); a
  bucket that was dropped after it rested was full (`RestedIsFull`), and any other gains a
  burst at most, which `forgotten` counts. `Table` has buckets touched in the past.
- *Ranking*: `CommonNamesKeptCorrect`. An upload in flight holds every name that all
  uploads of its class hold.
- *Notification*: `LiveKeptCorrect`. *Accounts*: `SessionsHoldCorrect`: a token is of one
  session, of one that ended, or of one login that has yet to save it.
- *Images*: `ImagesFreshCorrect`. Every picture, kept, drawn or answered, is of a look
  that was stored under its number (`ImagesOK`), and the cache has one for a member.

### `Live_proofs`, `WorldQueries_proofs`

`Live_proofs` is about `LiveSpec`: what clients follow, the pages of the markets and the
search for a route. The steps of the other parts leave their variables alone, so the run's
`Spec` implements it (`LiveRefined`), and what is proved of it holds of `Spec`:
`NothingSkippedCorrect`, `WorldAgreesCorrect`, `FiguresAgreeCorrect`, `PagesHoldCorrect`,
`MarketPagesAgreeCorrect` and `ShortestRouteCorrect`. `WorldQueries_proofs` proves
`CataloguesAgreeCorrect` of `Spec` itself. So seven of the ten invariants of the run hold
for every value of the constants.

What both modules share comes first in `Live_proofs`. In a finite set with a strict order
the ranks, how many come before, grow with the order (`RankLess`), are each taken
(`RankTaken`) and leave so many below each number (`RankCut`), for there is a first
(`Foremost`). A cut keeps all of the set or as many as its limit, and they come before the
others (`CutKeeps`). A page is a stretch of ranks, so each place is on one page
(`PagesCut`). A sum or another fold stands for some function that fits its recursive
equation, as routes do below. And of an import (`ImportOK`, which its steps keep,
`ImportKeeps`): whatever is stored under an id was made of some extract, what an import of
all collections has written so far is there, and what a whole one wrote still is, since
`Start`, which begins to write over it, takes `whole` away.

- *Feed*: numbers of shouts are unique (`Numbered`), so cursors order them strictly, and
  what is stored between the two ends of a client's list is on it or was late (`Followed`).
  A page is the first so many of a finite set (`PageEnds`); that such a set has a first and
  a last comes from the well-foundedness of strict subsets.
- *Map*: `WorldInv` is `Placed` (players on open ground), `Stocked` (so are wild monsters),
  `OwnedOnce` (one dummy for each, whose owner is here) and `Shows`: each screen is the
  state. What a client is told is the part that changed (`ToldShows`). The search for a free
  tile next to another, `Nearby`, takes the tile of a rank, and ranks are a bijection onto
  the open tiles; it finds one because there are at least as many as players.
- *Fires*: what burns of the announced fires is in memory *and* in the file, and what burns
  in either keeps its distance. That is what a crash between the two cannot take away.
- *Chat*: the history is the last messages in the order of their numbers, everybody present
  shows all of it and nobody disagrees about a message; nobody spoke twice within a wait
  (`TalkInv`). A grade is one that the client's points earned: the points of an award under
  way, like the grade itself, lie between those it arrived with and those that are stored
  (`GradesInv`).
- *Figures of the trade market*: deals are places in the order of `closedAt`, and each of
  the five queries first cuts and then chooses, or the other way round; what is chosen of an
  end of all places is an end of what is chosen of all of them (`EndKept`), so any two of
  the queries show ends of one set and differ only by their limits. The curve is a beginning
  of the same set from its window on, and all of that if it is not cut (`FiguresHold`).
- *Its pages* (listings have the fields of `ListingShape`, `ShapeAssumption`): the keys by
  which `findListings` sorts are a strict order because the last of them is the time
  (`LowerOrders`), so ranks are unique and pages share nothing. The scan is cut by group
  first, so it loses no open listing while it shows an ended one.
- *In-game market*: the invariant `SeenOK` has quotes seen no later than now. A quote within
  the period falls into one stretch, its last instant into the last stretch, so stretches
  share out the quotes and their counts add up; medians and percentiles are prices of a rank
  that exists, and a range encloses the median.
- *Routes* (for finitely many maps, `RouteAssumption`): what was visited is a tree of walks
  from the starts (`Tree`); the maps that wait are ordered by the lengths of their walks,
  which differ by one at most, and a map that does not wait any more has had all of its
  connections followed (`Settled`). So whatever is nearer than the first that waits was
  visited (`NearVisited`), the walk that enters the first finish is a shortest one
  (`FoundShortest`), and if nothing waits any more no finish can be reached (`NoneReached`).
  The reference definition, `Within`, and `Restored` are recursive functions: each stands
  for some function that fits its equation, so one that does is shown to exist
  (`LayersExist`: the maps at the ends of walks) or carried along in the invariant, and what
  follows for all lengths has no least exception (`LeastOf`).
- *Catalogues* (`ExtractAssumption`): the invariants `OldInv`, `GuInv` and `ItemInv` are
  the invariant of imports with what an extract makes of each row. That both ends of a
  fact agree after a whole import is then about one extract, since all collections hold
  what it made. Of the old world, references to the size of another map end within as many
  steps as the script follows, because the assumption has some rank descend along them, so
  both ends of a reference arrive at one size (`EndsMeet`), and a list of the maps that
  lead to one which lacks a map is full (`ListedIncoming`); the tables are not in the
  repository, and the script takes them to be so where it stops after 20 hops. Of the
  former world, the tiers share out the monsters because their floors ascend from 0, and a
  total is the sum of the prices of the items. Of the items, numbers are compared as the
  script reads them, a blank column being none.

### Only model-checked

- `ReadAsWritten`: a shout is cut into sections by folds over its tokens, and that each of
  them reads alone as it does within the shout says that two folds over different
  sequences agree; the weeks and mazes of a year come from recursive functions inside
  `LET` and from sorted sequences, the boxes of a table from `FoldLeft` and `SelectSeq`.
  What these compute for every input takes inductions over data, which cannot be stated
  to the provers.
- `PicturesHold`, for the same reason; moreover its claims about poses are about tables that
  are written in the program, for which evaluating them is a proof.
- `PartsTypeOK`, the types of all parts of `world_queries`: the proofs carry those types
  that they need.
- `IdleGoesAway`, liveness under fairness, and ENABLED are out of the prover's reach.

## 5. Findings

1. **An ended trade comes back** (`trade_ended`). `requestTrade` and
   `releaseRequest` refuse an ended listing, but on a snapshot; `updateStatus`
   saves only scalars and so leaves `__v` alone. A request that was loaded before
   the owner completed or cancelled is saved after it and sets the status back to
   `requested`, with `closedAt` set. `PaidOnce` still holds, thanks to the
   conditional claim.
2. **A connection that is already gone ends a live one** (`presence_replaced`).
   `handleConnection` closes the account's other socket before it looks whether
   the newcomer is still there. The account ends up nowhere, although its client
   was told that another session took over.
3. **The alert cooldown is passed by overlapping calls** (`market_cooldown`): the
   recent notice is looked up before the own one is stored, and uniqueness covers
   rule and fingerprint only. `CooldownWithinOverlap` bounds by how much.
4. **One profile, two verified accounts** (`verification_taken`): the profile is
   looked up before it is stored and has no unique index.
5. **A recheck revokes a renewed verification** (`verification_revoked`): the
   revoking update filters by account only, whatever name it compared.

Seen while modelling: `seenCount` of a quote counts a shout twice when a backfill
overlaps or repeats an ingestion (the record comes after the `$inc`); a notice is
stored before its push, so a push that fails is not repeated; a shout whose user
upsert failed is answered with `exists` on its retry and taken in only by the backfill
script. The comment above `createRule` (`market-alert/market-alert.service.ts:92`) does
not hold for overlapping creates (`RulesWithinOverlap` says by how much). A shield beside
a spear is drawn from the sheets again although the pack covers it
(`lib/renderer.ts:346`), which `DrawnOnce` allows for; frame 12 of the first
fan asks for a sprite that is not there (`lib/renderer.ts:305`), and its answer fails.
The curve of a window with more deals than
its sixty points shows the oldest of them (`trade/trade.service.ts:930`) and then may share
none with the other figures, which show the latest (`FiguresAgree` claims no more than that
it has no gap). The chances of a box may add up to more than 100 percent by rounding.
A dye's loop closes only below the cap on periods, and only the palettes of the classic
sheets are counted (`resolveCharMsColorPeriod` is never called), so `LoopsClose` claims
no more.

## 6. Not modelled, and why

- *Data*: tables of names, aliases, frames and tiles (`assets/object`, item names, the
  longest of them 4,869 lines), which have no behaviour; DTOs, schemas and controllers
  that only pass on, other than what handlers read of them.
- *Bytes*: the readers of packs and sheets (`lib/assets.ts`, the decoding halves of
  `lib/char-ms/format.ts` and `lib/old-baram/format.ts`), blending, PNG and GIF writers,
  the watermark. A picture is the record of its layers.
- *Text*: `normalizeMarketText`, the aliases, labels and tooltips, serialization, search
  by a part of a name.
- *External services*: passport's redirects, the game's profile site beyond what the
  verification reads, web push beyond gone or not.
- *Likes* are switched off (410 Gone); the *guide* and the stored render catalogues are
  one query each; the *backfills and the migration* ran once over collections that
  nobody else wrote.
- *Of the modelled components*: the looks and the game names of members, the points of
  a stay (one `$inc` of a timer), chat users, the overview's choice of items and the
  change rate, the search of rankings and the estimate of a rank, filters that only
  choose what the modelled queries work on.

## 7. Plan

Left to prove of the parts that answer queries are `ReadAsWritten` and `PicturesHold`, as
far as they do not rest on inductions over data. Left to model are the composition of
`TradeListing` and `DailyCredit` over completions that cross midnight, and the text half of
the parser.
