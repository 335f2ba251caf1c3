----------------------------- MODULE TradeThread -----------------------------
(***************************************************************************)
(* The conversations of one trade listing (trade.service.ts): its owner    *)
(* and each requester share a thread.  A message is stored first, then the *)
(* summary of its thread (trade_threads) is brought up to date, and the    *)
(* recipient is pushed unless he was pushed a short while ago.  Reading a  *)
(* thread is a query of its messages, then a write of its summary.         *)
(***************************************************************************)
EXTENDS Integers, FiniteSets, Sequences

CONSTANTS
    Requester,          \* the accounts that may ask for the listing
    Writer,             \* overlapping handlers that write or read
    MessageLimit,       \* TRADE_MESSAGE_LIMIT
    PushThrottle,       \* MESSAGE_PUSH_THROTTLE_MS, in ticks
    MaxFromOwner, MaxFromRequester,   \* the bounds on the messages of a thread
    MaxTime

VARIABLES
    now,
    listing,    \* the part of the listing that threads depend on
    messages,   \* trade_messages of each thread, in the order they were stored
    threads,    \* trade_threads
    writing     \* the handlers, and the await at which each is suspended

threadVars == <<listing, messages, threads, writing>>

-----------------------------------------------------------------------------
\* Messages, summaries, handlers

Party == {"owner", "requester"}
Other(p) == CHOOSE q \in Party : q # p
Time == 0 .. MaxTime
Never == -1

\* Not stored, for the properties: the summary knows of it (counted), and, when a web
\* push is sent, the messages that the summary knew of at the time (knew).
MessageRow == [by : Party, at : Time, counted : BOOLEAN, pushed : BOOLEAN,
               knew : SUBSET Nat]

\* Of a summary, what a later step depends on: the preview, and the times of the last
\* message and of the last reading, are only shown.
Thread == [unread : [Party -> Nat], pushedAt : [Party -> Time \union {Never}]]
NoThread == [unread |-> [p \in Party |-> 0]]

\* A message on its way: at is taken before it is stored (index 0 until then).  The
\* first memo of a request is not announced, but counts as a push.
Writing == [pc : {"save", "look", "upsert"}, thread : Requester, by : Party, at : Time,
            memo : BOOLEAN, index : Nat, push : BOOLEAN, knew : SUBSET Nat]

\* present and shown: the messages that the query found, and those it returned.
Reading == [pc : {"find", "mark"}, thread : Requester, by : Party,
            present : SUBSET Nat, shown : SUBSET Nat]

Resting == [pc |-> "rest"]
Rest(c) == writing' = [writing EXCEPT ![c] = Resting]
Seeing(c, j) == writing' = [writing EXCEPT ![c] = j]

Stored(r) == DOMAIN messages[r]
Room(r, p) ==
    Cardinality({i \in Stored(r) : messages[r][i].by = p})
      + Cardinality({c \in Writer : writing[c].pc = "save" /\ writing[c].thread = r
                                                          /\ writing[c].by = p})
    < (IF p = "owner" THEN MaxFromOwner ELSE MaxFromRequester)

\* The summaries that a member has to read: getUnreadSummary and the unread part of
\* getActivitySummary ask for the owner's threads, or for the requester's own.
UnreadThreads(p, r) ==
    {q \in Requester : /\ threads[q] # NoThread
                       /\ threads[q].unread[p] > 0
                       /\ p = "requester" => q = r}

-----------------------------------------------------------------------------
\* createMessage and appendThreadMessage

\* resolveMessageThread: the requester speaks in his own thread, the owner in that of
\* a requester he names; both only while the request stands.
MayOpen(r) == r \in listing.requests

Prepared(r, p, memo) ==
    [pc |-> "save", thread |-> r, by |-> p, at |-> now, memo |-> memo, index |-> 0,
     push |-> FALSE, knew |-> {}]

\* The listing is loaded; an ended trade takes no messages.
Write(c, r, p) ==
    /\ writing[c] = Resting
    /\ Room(r, p)
    /\ MayOpen(r)
    /\ ~listing.ended
    /\ Seeing(c, Prepared(r, p, FALSE))
    /\ UNCHANGED <<now, listing, messages, threads>>

\* requestTrade, once its request is stored: the first memo.
Request(c, r) ==
    /\ writing[c] = Resting
    /\ Room(r, "requester")
    /\ ~listing.ended /\ r \notin listing.requests
    /\ listing' = [listing EXCEPT !.requests = @ \union {r}]
    /\ Seeing(c, Prepared(r, "requester", TRUE))
    /\ UNCHANGED <<now, messages, threads>>

\* A bug: the handler does not wait for the save, which may fail.
SaveUnawaited(c) ==
    LET j == writing[c]
    IN  /\ j.pc = "save"
        /\ Seeing(c, [j EXCEPT !.pc = "look"])
        /\ UNCHANGED <<now, listing, messages, threads>>

Save(c) ==
    LET j == writing[c]
    IN  /\ j.pc = "save"
        /\ messages' = [messages EXCEPT ![j.thread] =
              Append(@, [by |-> j.by, at |-> j.at, counted |-> FALSE, pushed |-> FALSE,
                        knew |-> {}])]
        /\ Seeing(c, [j EXCEPT !.pc = "look", !.index = Len(messages[j.thread]) + 1])
        /\ UNCHANGED <<now, listing, threads>>

Due(last, at) == last = Never \/ at - last >= PushThrottle

Looked(j, push) ==
    [j EXCEPT !.pc = "upsert", !.push = push,
              !.knew = IF push THEN {i \in Stored(j.thread) : messages[j.thread][i].counted} ELSE {}]

\* A bug: the push mark of the author is looked at, not that of the recipient.
LookAtAuthor(c) ==
    LET j == writing[c]
        thread == threads[j.thread]
        last == IF thread = NoThread THEN Never ELSE thread.pushedAt[j.by]
    IN  /\ j.pc = "look"
        /\ Seeing(c, Looked(j, ~j.memo /\ Due(last, j.at)))
        /\ UNCHANGED <<now, listing, messages, threads>>

\* The summary is read for the time of the recipient's last push.
Look(c) ==
    LET j == writing[c]
        thread == threads[j.thread]
        last == IF thread = NoThread THEN Never ELSE thread.pushedAt[Other(j.by)]
    IN  /\ j.pc = "look"
        /\ Seeing(c, Looked(j, ~j.memo /\ Due(last, j.at)))
        /\ UNCHANGED <<now, listing, messages, threads>>

\* What the upsert makes of a summary: the author has read, the recipient has one more.
Updated(thread, j) ==
    LET to == Other(j.by)
        old == IF thread # NoThread THEN thread
               ELSE [unread |-> [p \in Party |-> 0], pushedAt |-> [p \in Party |-> Never]]
    IN  [old EXCEPT !.unread[j.by] = 0, !.unread[to] = @ + 1,
                    !.pushedAt[to] = IF j.push \/ j.memo THEN j.at ELSE @]

\* The notification is not awaited.
Upsert(c) ==
    LET j == writing[c]
    IN  /\ j.pc = "upsert"
        /\ threads' = [threads EXCEPT ![j.thread] = Updated(@, j)]
        /\ messages' = [messages EXCEPT ![j.thread] =
              [i \in DOMAIN @ |-> IF i = j.index
                                  THEN [@[i] EXCEPT !.counted = TRUE, !.pushed = j.push,
                                                        !.knew = j.knew]
                                  ELSE @[i]]]
        /\ Rest(c)
        /\ UNCHANGED <<now, listing>>

-----------------------------------------------------------------------------
\* findMessages: load the listing, query, mark as read; a last query, whether the other
\* party has read it a moment ago, is only shown

Read(c, r, p) ==
    /\ writing[c] = Resting
    /\ MayOpen(r)
    /\ Seeing(c, [pc |-> "find", thread |-> r, by |-> p,
                  present |-> {}, shown |-> {}])
    /\ UNCHANGED <<now, listing, messages, threads>>

\* The first messages by time; of those of one instant, any.
Oldest(S, at, n) ==
    {T \in SUBSET S : /\ Cardinality(T) = IF Cardinality(S) < n THEN Cardinality(S) ELSE n
                      /\ \A i \in T, k \in S \ T : at[i] <= at[k]}

\* A bug: the query returns the last messages by time.
FindLast(c) ==
    LET j == writing[c]
        at == [i \in Stored(j.thread) |-> -messages[j.thread][i].at]
    IN  /\ j.pc = "find"
        /\ \E shown \in Oldest(Stored(j.thread), at, MessageLimit) :
              Seeing(c, [j EXCEPT !.pc = "mark",
                                  !.present = Stored(j.thread), !.shown = shown])
        /\ UNCHANGED <<now, listing, messages, threads>>

Find(c) ==
    LET j == writing[c]
        at == [i \in Stored(j.thread) |-> messages[j.thread][i].at]
    IN  /\ j.pc = "find"
        /\ \E shown \in Oldest(Stored(j.thread), at, MessageLimit) :
              Seeing(c, [j EXCEPT !.pc = "mark",
                                  !.present = Stored(j.thread), !.shown = shown])
        /\ UNCHANGED <<now, listing, messages, threads>>

\* markThreadRead updates a summary that exists; its failure is swallowed.
Mark(c) ==
    LET j == writing[c]
    IN  /\ j.pc = "mark"
        /\ \/ /\ threads[j.thread] # NoThread
              /\ threads' = [threads EXCEPT ![j.thread].unread[j.by] = 0]
           \/ UNCHANGED threads
        /\ Rest(c)
        /\ UNCHANGED <<now, listing, messages>>

-----------------------------------------------------------------------------
\* The listing changes beside its threads (TradeListing): a request is taken back or
\* refused, the trade ends.  The threads stay as they are.

Release(r) ==
    /\ ~listing.ended /\ r \in listing.requests
    /\ listing' = [listing EXCEPT !.requests = @ \ {r}]
    /\ UNCHANGED <<now, messages, threads, writing>>

End ==
    /\ ~listing.ended
    /\ listing' = [listing EXCEPT !.ended = TRUE]
    /\ UNCHANGED <<now, messages, threads, writing>>

\* A query is rejected, or the process stops.
Abort(c) ==
    /\ writing[c] # Resting
    /\ Rest(c)
    /\ UNCHANGED <<now, listing, messages, threads>>

Tick ==
    /\ now < MaxTime
    /\ now' = now + 1
    /\ UNCHANGED threadVars

Init ==
    /\ now = 0
    /\ listing = [requests |-> {}, ended |-> FALSE]
    /\ messages = [r \in Requester |-> <<>>]
    /\ threads = [r \in Requester |-> NoThread]
    /\ writing = [c \in Writer |-> Resting]

Next ==
    \/ \E c \in Writer :
          \/ \E r \in Requester : Request(c, r) \/ \E p \in Party : Write(c, r, p) \/ Read(c, r, p)
          \/ Save(c) \/ Look(c) \/ Upsert(c)
          \/ Find(c) \/ Mark(c)
          \/ Abort(c)
    \/ \E r \in Requester : Release(r)
    \/ End
    \/ Tick

Spec == Init /\ [][Next]_<<now, threadVars>>
-----------------------------------------------------------------------------
\* Properties

TypeOK ==
    /\ now \in Time
    /\ listing \in [requests : SUBSET Requester, ended : BOOLEAN]
    /\ \A r \in Requester : \A i \in Stored(r) : messages[r][i] \in MessageRow
    /\ threads \in [Requester -> Thread \union {NoThread}]
    /\ writing \in [Writer -> Writing \union Reading \union {Resting}]

\* What a badge counts is there to be read: the unread number of a party is at most
\* the number of stored messages of the other, whichever handlers stopped half-way.
UnreadBacked ==
    \A r \in Requester : threads[r] # NoThread =>
        \A p \in Party :
            threads[r].unread[p]
                <= Cardinality({i \in Stored(r) : messages[r][i].by = Other(p)})

\* A recipient is pushed twice within the throttle only by an overlap: the second
\* handler looked before the summary knew of the first, or the mark of the first was
\* set back by the late summary of a message that is older.
ThrottledUnlessOverlap ==
    \A r \in Requester : LET rows == messages[r] IN
        \A i, k \in Stored(r) :
            /\ rows[i].pushed /\ rows[k].pushed /\ rows[i].by = rows[k].by
            /\ rows[k].at - rows[i].at \in 0 .. PushThrottle - 1
            /\ i \in rows[k].knew
            => \E m \in rows[k].knew : rows[m].by = rows[i].by /\ rows[m].at < rows[i].at

\* Marking a thread as read hides nothing that a reader could have been shown: a
\* counted message to him that the query did not return was stored after the query,
\* or is later than a full page.
ReadHidesOnlyLate ==
    [][\A c \in Writer :
         LET j == writing[c]
             stored == messages[j.thread]
         IN  j.pc = "mark" /\ writing'[c] = Resting /\ threads' # threads =>
               \A i \in DOMAIN stored :
                   stored[i].by = Other(j.by) /\ stored[i].counted =>
                       \/ i \in j.shown
                       \/ i \notin j.present
                       \/ /\ Cardinality(j.shown) = MessageLimit
                          /\ \A k \in j.shown : stored[k].at <= stored[i].at]_<<now, threadVars>>
=============================================================================
