------------------------------ MODULE MarketFeed -------------------------------
(***************************************************************************)
(* From the shouts of the game's chat to quotes (chat-feed.service.ts,     *)
(* game-market.service.ts).  The scanner posts a shout, which is stored    *)
(* under its source id; the offers parsed from it are counted in the       *)
(* quotes, the shout is recorded as taken in, and its offers are handed    *)
(* to the alerts (MarketAlerts).  The backfill script takes in stored      *)
(* shouts that are not recorded for the current rules of the parser: after *)
(* a crash, or a deployment of new rules.  Every await is a step.          *)
(*                                                                         *)
(* Who shouts is part of a quote; the chat users are not modelled.         *)
(***************************************************************************)
EXTENDS Integers, FiniteSets, TLC

CONSTANTS
    Shout, Offer,     \* shouts by their source ids, and the fingerprints of offers
    Call,             \* overlapping calls of the scanner and the backfill script
    AlertMaxAge,      \* ALERT_MAX_AGE_MS, in ticks
    MaxTime,          \* the bound on the clock, below the retention of the chat
    MaxVersion,       \* the bound on GAME_MARKET_RULE_VERSION
    MaxSeen           \* the bound on seenCount, for calls that begin

ASSUME BoundAssumption == {AlertMaxAge, MaxTime, MaxVersion, MaxSeen} \subseteq Nat
ASSUME CallAssumption == IsFiniteSet(Call)

VARIABLES
    now,
    version,    \* the rules of the parser that is deployed
    chat,       \* chat_messages
    recorded,   \* game_market_ingestions: shouts that were taken in, by version
    quotes,     \* game_market_quotes, by version, which the fingerprint contains
    handed,     \* how often the offers of a shout were handed to the alerts
    job         \* the calls, and the await at which each is suspended

vars == <<now, version, chat, recorded, quotes, handed, job>>

-----------------------------------------------------------------------------
\* Documents

Time == 0 .. MaxTime
Version == 0 .. MaxVersion

\* The offers of a shout stand for its text; the parser may find none, and what the
\* rules of another version would find makes no difference here.
Message == [stored : BOOLEAN, offers : SUBSET Offer, at : Time]
Unsaid == [stored |-> FALSE, offers |-> {}, at |-> 0]

Quote == [seen : Nat, first : Time, last : Time]
NoQuote == [seen |-> 0, first |-> 0, last |-> 0]

Earliest(times) == CHOOSE t \in times : \A u \in times : t <= u
Latest(times) == CHOOSE t \in times : \A u \in times : u <= t

\* A bug: a quote is dated by the time at which it is counted.
CountedNow(q, said) ==
    [seen |-> q.seen + Cardinality(said),
     first |-> IF q.seen = 0 THEN now ELSE q.first, last |-> now]

\* The upserts of a quote by the shouts that say it: $inc, $min and $max.
Counted(q, said) ==
    LET times == {chat[m].at : m \in said} \union (IF q.seen = 0 THEN {} ELSE {q.first, q.last})
    IN  [seen |-> q.seen + Cardinality(said), first |-> Earliest(times), last |-> Latest(times)]

\* Those of the bulk write that were applied.
QuotesAfter(applied) ==
    [v \in Version |-> [o \in Offer |->
        LET said == {m \in Shout : [shout |-> m, offer |-> o] \in applied}
        IN  IF v # version \/ said = {} THEN quotes[v][o] ELSE Counted(quotes[v][o], said)]]

Operations(batch) == {u \in [shout : batch, offer : Offer] : u.offer \in chat[u.shout].offers}

-----------------------------------------------------------------------------
\* Calls

Job == [pc : {"idle", "find", "write", "record"}, batch : SUBSET Shout, notify : BOOLEAN]
Idle == [pc |-> "idle", batch |-> {}, notify |-> FALSE]

\* ChatFeedService.create.  The source id is unique: a repeated post ends at once.
Post(c, m, offers) ==
    /\ job[c] = Idle /\ ~chat[m].stored
    /\ chat' = [chat EXCEPT ![m] = [stored |-> TRUE, offers |-> offers, at |-> now]]
    /\ job' = [job EXCEPT ![c] = [pc |-> "find", batch |-> {m}, notify |-> TRUE]]
    /\ UNCHANGED <<now, version, recorded, quotes, handed>>

\* A bug: the backfill does not turn the alerts off.
BackfillAlerting(c, some) ==
    /\ job[c] = Idle /\ some # {}
    /\ \A m \in some : chat[m].stored /\ \A o \in chat[m].offers : quotes[version][o].seen < MaxSeen
    /\ job' = [job EXCEPT ![c] = [pc |-> "find", batch |-> some, notify |-> TRUE]]
    /\ UNCHANGED <<now, version, chat, recorded, quotes, handed>>

\* The backfill script, with a batch of exported shouts.
Backfill(c, some) ==
    /\ job[c] = Idle /\ some # {}
    /\ \A m \in some : chat[m].stored /\ \A o \in chat[m].offers : quotes[version][o].seen < MaxSeen
    /\ job' = [job EXCEPT ![c] = [pc |-> "find", batch |-> some, notify |-> FALSE]]
    /\ UNCHANGED <<now, version, chat, recorded, quotes, handed>>

\* A bug: the shouts are recorded before their quotes are written.
FindPendingRecording(c) ==
    LET pending == {m \in job[c].batch : [shout |-> m, version |-> version] \notin recorded}
    IN  /\ job[c].pc = "find"
        /\ job' = [job EXCEPT ![c] = IF pending = {} THEN Idle
                                     ELSE [@ EXCEPT !.pc = "write", !.batch = pending]]
        /\ recorded' = recorded \union [shout : pending, version : {version}]
        /\ UNCHANGED <<now, version, chat, quotes, handed>>

\* ingestChats leaves out what is recorded, and goes on if anything is left.
FindPending(c) ==
    LET pending == {m \in job[c].batch : [shout |-> m, version |-> version] \notin recorded}
    IN  /\ job[c].pc = "find"
        /\ job' = [job EXCEPT ![c] = IF pending = {} THEN Idle
                                     ELSE [@ EXCEPT !.pc = "write", !.batch = pending]]
        /\ UNCHANGED <<now, version, chat, recorded, quotes, handed>>

WriteQuotes(c) ==
    /\ job[c].pc = "write"
    /\ quotes' = QuotesAfter(Operations(job[c].batch))
    /\ job' = [job EXCEPT ![c].pc = "record"]
    /\ UNCHANGED <<now, version, chat, recorded, handed>>

\* The ingestion records; a duplicate one does no harm.  Then processNewQuotes
\* begins with the offers that are not too old.
Record(c) ==
    LET fresh == {m \in job[c].batch :
                    job[c].notify /\ chat[m].offers # {} /\ now - chat[m].at <= AlertMaxAge}
    IN  /\ job[c].pc = "record"
        /\ recorded' = recorded \union [shout : job[c].batch, version : {version}]
        /\ handed' = [m \in Shout |-> handed[m] + (IF m \in fresh THEN 1 ELSE 0)]
        /\ job' = [job EXCEPT ![c] = Idle]
        /\ UNCHANGED <<now, version, chat, quotes>>

\* A query is rejected, or the process stops: the operations of a bulk write that
\* were applied stay applied.
Abort(c) ==
    /\ job[c] # Idle
    /\ job' = [job EXCEPT ![c] = Idle]
    /\ \/ /\ job[c].pc = "find"
          /\ UNCHANGED <<recorded, quotes>>
       \/ /\ job[c].pc = "write"
          /\ \E applied \in SUBSET Operations(job[c].batch) : quotes' = QuotesAfter(applied)
          /\ UNCHANGED recorded
       \/ /\ job[c].pc = "record"
          /\ \E some \in SUBSET job[c].batch :
                recorded' = recorded \union [shout : some, version : {version}]
          /\ UNCHANGED quotes
    /\ UNCHANGED <<now, version, chat, handed>>

\* The server restarts with new rules for the parser.
Deploy ==
    /\ version < MaxVersion
    /\ version' = version + 1
    /\ job' = [c \in Call |-> Idle]
    /\ UNCHANGED <<now, chat, recorded, quotes, handed>>

Tick ==
    /\ now < MaxTime
    /\ now' = now + 1
    /\ UNCHANGED <<version, chat, recorded, quotes, handed, job>>

Init ==
    /\ now = 0
    /\ version = 0
    /\ chat = [m \in Shout |-> Unsaid]
    /\ recorded = {}
    /\ quotes = [v \in Version |-> [o \in Offer |-> NoQuote]]
    /\ handed = [m \in Shout |-> 0]
    /\ job = [c \in Call |-> Idle]

Next ==
    \/ \E c \in Call :
          \/ \E m \in Shout, offers \in SUBSET Offer : Post(c, m, offers)
          \/ \E some \in SUBSET Shout : Backfill(c, some)
          \/ FindPending(c) \/ WriteQuotes(c) \/ Record(c) \/ Abort(c)
    \/ Deploy
    \/ Tick

Spec == Init /\ [][Next]_vars

\* Shouts, offers and calls are alike: no code compares them but for equality.
Symmetry == Permutations(Shout) \union Permutations(Offer) \union Permutations(Call)

-----------------------------------------------------------------------------
\* Properties

\* Every document has its type, and a call that is suspended has shouts to take in.
TypeOK ==
    /\ now \in Time /\ version \in Version
    /\ chat \in [Shout -> Message]
    /\ recorded \subseteq [shout : Shout, version : Version]
    /\ quotes \in [Version -> [Offer -> Quote]]
    /\ handed \in [Shout -> Nat]
    /\ job \in [Call -> Job]
    /\ \A c \in Call : job[c].pc = "idle" <=> job[c].batch = {}

\* What is recorded is in the quotes of that version: nothing takes a recorded shout in
\* again, so it must have been counted in each of its offers, with its time between
\* first and last seen, whichever calls overlapped and wherever one stopped.
RecordedIsCounted ==
    \A v \in Version, o \in Offer :
        LET q == quotes[v][o]
            said == {m \in Shout : [shout |-> m, version |-> v] \in recorded
                                     /\ o \in chat[m].offers}
        IN  /\ Cardinality(said) <= q.seen
            /\ \A m \in said : q.first <= chat[m].at /\ chat[m].at <= q.last

\* The times of a quote are those of shouts that say it: a backfill of old shouts
\* dates no quote to the day on which it runs.
QuoteTimesReal ==
    \A v \in Version, o \in Offer :
        quotes[v][o].seen > 0 =>
            /\ \E m \in Shout : o \in chat[m].offers /\ chat[m].at = quotes[v][o].first
            /\ \E m \in Shout : o \in chat[m].offers /\ chat[m].at = quotes[v][o].last

\* The alerts get the offers of a shout once at most, and only when they are counted:
\* a retry of the scanner, an overlapping backfill, or one after new rules were
\* deployed does not hand them over again.
HandedOnce ==
    \A m \in Shout :
        handed[m] > 0 => /\ handed[m] = 1
                         /\ \E v \in Version : [shout |-> m, version |-> v] \in recorded
=============================================================================
