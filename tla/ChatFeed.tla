------------------------------- MODULE ChatFeed -------------------------------
(***************************************************************************)
(* How a client follows the shouts (chat-feed.service.ts): it loads the    *)
(* newest page, polls for what is newer than the newest it has seen, and   *)
(* pages backwards.  Shouts are stored by overlapping requests, each with  *)
(* the time at which its own began, and the oldest ones are dropped by the *)
(* database.  A query may find more than a page: then a page backwards     *)
(* goes on from its last shout, and a poll starts the list afresh.         *)
(* The client follows one filter; the shouts are those it lets through.    *)
(***************************************************************************)
EXTENDS Integers, FiniteSets

CONSTANTS
    Collector,   \* overlapping requests of the collectors
    PageSize,    \* DEFAULT_PAGE_SIZE
    LivePage,    \* LIVE_PAGE_SIZE
    MaxTime, MaxShouts

VARIABLES
    clock,
    nextId,      \* of the object ids, which grow
    adding,      \* the shout that a request is about to store
    shouts,      \* chat_messages
    list,        \* what the client shows
    since,       \* latestCursor
    older,       \* nextCursor
    late         \* the shouts stored when the client had already polled past them

feedVars == <<clock, nextId, adding, shouts, list, since, older, late>>

-----------------------------------------------------------------------------
\* A cursor is the place of a shout in the order: its time, and among those of an
\* instant its id.
Cursor == [at : 0 .. MaxTime, id : 0 .. MaxShouts]
None == [at |-> -1, id |-> 0]       \* no cursor: null
NoShout == [at |-> -1, id |-> -1]   \* a request that is not under way

After(a, b) == a.at > b.at \/ (a.at = b.at /\ a.id > b.id)

\* run: the n newest of s
Newest(s, n) == {m \in s : Cardinality({k \in s : After(k, m)}) < n}

First(s) == CHOOSE m \in s : \A k \in s : k = m \/ After(m, k)
Last(s) == CHOOSE m \in s : \A k \in s : k = m \/ After(k, m)

Begun == {c \in Collector : adding[c] # NoShout}

-----------------------------------------------------------------------------
\* create: the time and the id of a shout are taken before it is stored

Begin(c) ==
    /\ c \notin Begun /\ nextId < MaxShouts
    /\ nextId' = nextId + 1
    /\ adding' = [adding EXCEPT ![c] = [at |-> clock, id |-> nextId']]
    /\ UNCHANGED <<clock, shouts, list, since, older, late>>

Store(c) ==
    /\ c \in Begun
    /\ shouts' = shouts \union {adding[c]}
    /\ late' = IF After(since, adding[c]) THEN late \union {adding[c]} ELSE late
    /\ adding' = [adding EXCEPT ![c] = NoShout]
    /\ UNCHANGED <<clock, nextId, list, since, older>>

\* It is stored already, or the database fails.
StoreFails(c) ==
    /\ c \in Begun
    /\ adding' = [adding EXCEPT ![c] = NoShout]
    /\ UNCHANGED <<clock, nextId, shouts, list, since, older, late>>

\* The index that keeps the shouts for ninety days, as early as it may
Forget ==
    /\ shouts # {} /\ Last(shouts).at < clock
    /\ shouts' = shouts \ {Last(shouts)}
    /\ UNCHANGED <<clock, nextId, adding, list, since, older, late>>

Tick ==
    /\ clock < MaxTime
    /\ clock' = clock + 1
    /\ UNCHANGED <<nextId, adding, shouts, list, since, older, late>>

-----------------------------------------------------------------------------
\* findPage, and what the client is told to do with the answer

\* findOlder without a cursor: the first page; if there is none, the client waits for
\* what comes from now on.
Load ==
    LET page == Newest(shouts, PageSize)
    IN  /\ list' = page
        /\ since' = IF page = {} THEN [at |-> clock, id |-> 0] ELSE First(page)
        /\ older' = IF page = shouts THEN None ELSE Last(page)
        /\ late' = {}
        /\ UNCHANGED <<clock, nextId, adding, shouts>>

\* findOlder with a cursor: the next page backwards, which leaves `since` alone
Older ==
    LET past == {m \in shouts : After(older, m)}
        page == Newest(past, PageSize)
    IN  /\ older # None
        /\ list' = list \union page
        /\ older' = IF page = past THEN None ELSE Last(page)
        /\ UNCHANGED <<clock, nextId, adding, shouts, since, late>>

\* A bug: a shout of the same instant as the cursor is not newer.
PollLaterInstants ==
    LET new == {m \in shouts : m.at > since.at}
        page == Newest(new, LivePage)
        gap == page # new
    IN  /\ since # None
        /\ list' = IF gap THEN page ELSE list \union page
        /\ since' = IF page = {} THEN since ELSE First(page)
        /\ older' = IF gap THEN Last(page) ELSE older
        /\ UNCHANGED <<clock, nextId, adding, shouts, late>>

\* findNewer: what is new goes on top of the list, unless it does not fit into a page:
\* then there is a gap below it, and the page takes the place of the list.
Poll ==
    LET new == {m \in shouts : After(m, since)}
        page == Newest(new, LivePage)
        gap == page # new
    IN  /\ since # None
        /\ list' = IF gap THEN page ELSE list \union page
        /\ since' = IF page = {} THEN since ELSE First(page)
        /\ older' = IF gap THEN Last(page) ELSE older
        /\ UNCHANGED <<clock, nextId, adding, shouts, late>>

Init ==
    /\ clock = 0 /\ nextId = 0
    /\ adding = [c \in Collector |-> NoShout]
    /\ shouts = {}
    /\ list = {} /\ since = None /\ older = None
    /\ late = {}

Next ==
    \/ \E c \in Collector : Begin(c) \/ Store(c) \/ StoreFails(c)
    \/ Forget
    \/ Tick
    \/ Load
    \/ Older
    \/ Poll

Spec == Init /\ [][Next]_feedVars
-----------------------------------------------------------------------------
\* Properties

TypeOK ==
    /\ clock \in 0 .. MaxTime /\ nextId \in 0 .. MaxShouts
    /\ adding \in [Collector -> Cursor \union {NoShout}]
    /\ shouts \subseteq Cursor /\ list \subseteq Cursor
    /\ since \in Cursor \union {None} /\ older \in Cursor \union {None}
    /\ late \subseteq shouts \union Cursor

\* Between the newest shout the client has seen and the oldest it has paged back to, it
\* misses no shout, wherever a page ended and whatever was stored in the same instant:
\* none but those that were stored after it had polled past their time.
NothingSkipped ==
    \A m \in shouts :
        /\ ~After(m, since)
        /\ older = None \/ ~After(older, m)
        => m \in list \union late
=============================================================================
