----------------------------- MODULE TradeListing -----------------------------
(***************************************************************************)
(* The life of a trade listing (trade.service.ts): members post listings,  *)
(* ask for a trade, withdraw or reject a request, and the owner completes  *)
(* or cancels.  Every handler is an async function of the API: it loads    *)
(* the document, checks its snapshot, may await further queries, and saves.*)
(* Handlers of any number of members, on any number of API instances,      *)
(* interleave at each await, and each may die between two of them.         *)
(*                                                                         *)
(* A save goes through mongoose, which writes only the paths whose value   *)
(* differs from the loaded one.  When the array `requests` is among them   *)
(* the write is conditional on the version the document was loaded with,   *)
(* and bumps it; a save of scalars alone neither checks nor bumps it.      *)
(***************************************************************************)
EXTENDS Naturals, FiniteSets, TLC

CONSTANTS
    Member,               \* accounts
    Listing,              \* document ids
    Call,                 \* handler invocations that may be in flight at once
    NoMember, NoListing,  \* the undefined account and document
    ListingRequestLimit,  \* LISTING_REQUEST_LIMIT (20 in the code)
    ActiveRequestLimit,   \* ACTIVE_REQUEST_LIMIT (5)
    ActiveListingLimit,   \* ACTIVE_LISTING_LIMIT (5)
    MaxVersion            \* bound of the model: versions a document goes through

ASSUME SentinelAssumption == NoMember \notin Member /\ NoListing \notin Listing
ASSUME LimitAssumption ==
    /\ ListingRequestLimit \in Nat
    /\ ActiveRequestLimit \in Nat
    /\ ActiveListingLimit \in Nat
ASSUME VersionAssumption == MaxVersion \in Nat
ASSUME CallAssumption == IsFiniteSet(Call) /\ Call # {}

VARIABLES
    db,     \* the collection: one row for each listing
    calls,  \* the state of each handler in flight
    paid    \* paid[l][m]: how often m was credited for the completion of l

vars == <<db, calls, paid>>

-----------------------------------------------------------------------------
\* Rows and handlers

Ended == {"completed", "canceled"}
Status == {"absent", "open", "requested"} \union Ended
MemberOrNone == Member \union {NoMember}

Row == [owner : MemberOrNone, status : Status, requests : SUBSET Member,
        requester : MemberOrNone, closed : BOOLEAN, awarded : BOOLEAN,
        v : 0 .. MaxVersion]

\* No document yet under this id.
NoRow == [owner |-> NoMember, status |-> "absent", requests |-> {},
          requester |-> NoMember, closed |-> FALSE, awarded |-> FALSE, v |-> 0]

\* What `new this.tradeListingModel({...})` saves.
NewRow(m) == [NoRow EXCEPT !.owner = m, !.status = "open"]

Handler == [pc : {"idle", "create", "count", "ask", "release", "resolve", "claim", "pay"},
            caller : MemberOrNone, listing : Listing \union {NoListing}, snap : Row,
            target : MemberOrNone, to : Ended \union {"none"}, due : SUBSET Member]

Idle == [pc |-> "idle", caller |-> NoMember, listing |-> NoListing, snap |-> NoRow,
         target |-> NoMember, to |-> "none", due |-> {}]

\* The handler's local variables after findListingById.
Loaded(pc, m, l, t, to) ==
    [pc |-> pc, caller |-> m, listing |-> l, snap |-> db[l],
     target |-> t, to |-> to, due |-> {}]

Finish(c) == calls' = [calls EXCEPT ![c] = Idle]

\* The requests of a document; before requests became an array, a document
\* held its only requester in scalar fields.
Pending(row) ==
    IF row.requests # {} THEN row.requests
    ELSE IF row.status = "requested" THEN {row.requester} \ {NoMember} ELSE {}

ActiveListings(m) ==
    {l \in Listing : db[l].owner = m /\ db[l].status \in {"open", "requested"}}

OutgoingRequests(m) ==
    {l \in Listing : db[l].status = "requested" /\ m \in db[l].requests}

\* A save that writes `requests` only matches the version it was loaded with.
SameVersion(c) == db[calls[c].listing].v = calls[c].snap.v

-----------------------------------------------------------------------------
\* createListing: count the active listings, look the item up, save

CreateCountOffByOne(c, m) ==
    /\ calls[c].pc = "idle"
    /\ Cardinality(ActiveListings(m)) <= ActiveListingLimit
    /\ calls' = [calls EXCEPT ![c] = [Idle EXCEPT !.pc = "create", !.caller = m]]
    /\ UNCHANGED <<db, paid>>

CreateCount(c, m) ==
    /\ calls[c].pc = "idle"
    /\ Cardinality(ActiveListings(m)) < ActiveListingLimit
    /\ calls' = [calls EXCEPT ![c] = [Idle EXCEPT !.pc = "create", !.caller = m]]
    /\ UNCHANGED <<db, paid>>

CreateSave(c) ==
    /\ calls[c].pc = "create"
    /\ \E l \in Listing :
          /\ db[l].status = "absent"
          /\ db' = [db EXCEPT ![l] = NewRow(calls[c].caller)]
    /\ Finish(c)
    /\ UNCHANGED paid

-----------------------------------------------------------------------------
\* requestTrade: load and check, count the outgoing requests, save

RequestLoad(c, m, l) ==
    /\ calls[c].pc = "idle"
    /\ db[l].status \in {"open", "requested"}
    /\ db[l].owner # m
    /\ m \notin Pending(db[l])
    /\ Cardinality(Pending(db[l])) < ListingRequestLimit
    /\ db[l].v < MaxVersion
    /\ calls' = [calls EXCEPT ![c] = Loaded("count", m, l, NoMember, "none")]
    /\ UNCHANGED <<db, paid>>

RequestCountOffByOne(c) ==
    /\ calls[c].pc = "count"
    /\ IF Cardinality(OutgoingRequests(calls[c].caller)) <= ActiveRequestLimit
       THEN calls' = [calls EXCEPT ![c].pc = "ask"]
       ELSE Finish(c)
    /\ UNCHANGED <<db, paid>>

RequestCount(c) ==
    /\ calls[c].pc = "count"
    /\ IF Cardinality(OutgoingRequests(calls[c].caller)) < ActiveRequestLimit
       THEN calls' = [calls EXCEPT ![c].pc = "ask"]
       ELSE Finish(c)
    /\ UNCHANGED <<db, paid>>

\* listing.requests = [...requests, entry]; listing.status = 'requested'.  The
\* status is written only when the loaded one was another.
AskedRow(row, snap, m) ==
    [row EXCEPT !.requests = Pending(snap) \union {m},
                !.status = IF snap.status = "requested" THEN @ ELSE "requested",
                !.v = @ + 1]

\* A bug that only a concurrent request shows: the save is not versioned.
RequestSaveUnversioned(c) ==
    /\ calls[c].pc = "ask"
    /\ db[calls[c].listing].v < MaxVersion
    /\ db' = [db EXCEPT ![calls[c].listing] = AskedRow(@, calls[c].snap, calls[c].caller)]
    /\ Finish(c)
    /\ UNCHANGED paid

RequestSave(c) ==
    /\ calls[c].pc = "ask"
    /\ \/ /\ SameVersion(c)
          /\ db' = [db EXCEPT ![calls[c].listing] = AskedRow(@, calls[c].snap, calls[c].caller)]
       \/ /\ ~SameVersion(c)  \* VersionError
          /\ UNCHANGED db
    /\ Finish(c)
    /\ UNCHANGED paid

-----------------------------------------------------------------------------
\* releaseRequest: the requester withdraws, or the owner rejects one

ReleaseLoad(c, m, l, t) ==
    /\ calls[c].pc = "idle"
    /\ db[l].status = "requested"
    /\ t \in Pending(db[l])
    /\ m \in {db[l].owner, t}
    /\ db[l].v < MaxVersion
    /\ calls' = [calls EXCEPT ![c] = Loaded("release", m, l, t, "none")]
    /\ UNCHANGED <<db, paid>>

\* A bug: a listing whose last request went stays 'requested'.
ReleasedRowKept(row, snap, t) ==
    [row EXCEPT !.requests = Pending(snap) \ {t},
                !.requester = IF snap.requester = t THEN NoMember ELSE @,
                !.v = @ + 1]

\* requests.filter(...); the scalar requester goes if it is the target; with no
\* request left the listing is open again.
ReleasedRow(row, snap, t) ==
    [row EXCEPT !.requests = Pending(snap) \ {t},
                !.requester = IF snap.requester = t THEN NoMember ELSE @,
                !.status = IF Pending(snap) \ {t} = {} THEN "open" ELSE @,
                !.v = @ + 1]

ReleaseSave(c) ==
    /\ calls[c].pc = "release"
    /\ \/ /\ SameVersion(c)
          /\ db' = [db EXCEPT ![calls[c].listing] = ReleasedRow(@, calls[c].snap, calls[c].target)]
       \/ /\ ~SameVersion(c)  \* VersionError
          /\ UNCHANGED db
    /\ Finish(c)
    /\ UNCHANGED paid

-----------------------------------------------------------------------------
\* updateStatus: the owner completes the trade with one requester, or cancels

ResolveLoad(c, m, l, to, t) ==
    /\ calls[c].pc = "idle"
    /\ db[l].owner = m
    /\ db[l].status \in {"open", "requested"}
    /\ \/ to = "canceled" /\ t = NoMember
       \/ to = "completed" /\ t \in Pending(db[l])
    /\ calls' = [calls EXCEPT ![c] = Loaded("resolve", m, l, t, to)]
    /\ UNCHANGED <<db, paid>>

\* Only scalars are written, so the version is neither compared nor raised.
ResolvedRow(row, snap, to, t) ==
    [row EXCEPT !.requester = IF to = "completed" /\ snap.requester # t THEN t ELSE @,
                !.status = to,
                !.closed = TRUE]

ResolveSave(c) ==
    /\ calls[c].pc = "resolve"
    /\ db' = [db EXCEPT ![calls[c].listing] =
                 ResolvedRow(@, calls[c].snap, calls[c].to, calls[c].target)]
    /\ IF calls[c].to = "completed" /\ ~calls[c].snap.awarded
       THEN calls' = [calls EXCEPT ![c].pc = "claim"]
       ELSE Finish(c)
    /\ UNCHANGED paid

\* A bug: the claim trusts the snapshot instead of the filter of its update.
ClaimFromSnapshot(c) ==
    /\ calls[c].pc = "claim"
    /\ db' = [db EXCEPT ![calls[c].listing].awarded = TRUE]
    /\ calls' = [calls EXCEPT ![c].pc = "pay", ![c].due = {calls[c].snap.owner, calls[c].target}]
    /\ UNCHANGED paid

\* updateOne with the filter completionPointAwardedAt: {$exists: false}.
Claim(c) ==
    /\ calls[c].pc = "claim"
    /\ \/ /\ ~db[calls[c].listing].awarded
          /\ db' = [db EXCEPT ![calls[c].listing].awarded = TRUE]
          /\ calls' = [calls EXCEPT ![c].pc = "pay",
                                    ![c].due = {calls[c].snap.owner, calls[c].target}]
       \/ /\ db[calls[c].listing].awarded
          /\ Finish(c)
          /\ UNCHANGED db
    /\ UNCHANGED paid

\* A bug: the handler that has credited everyone does not end.
PayForever(c, m) ==
    /\ calls[c].pc = "pay"
    /\ m \in calls[c].due
    /\ paid' = [paid EXCEPT ![calls[c].listing][m] = @ + 1]
    /\ calls' = [calls EXCEPT ![c].due = @ \ {m}]
    /\ UNCHANGED db

\* Promise.all over the accounts: the credits are applied in either order.
Pay(c, m) ==
    /\ calls[c].pc = "pay"
    /\ m \in calls[c].due
    /\ paid' = [paid EXCEPT ![calls[c].listing][m] = @ + 1]
    /\ IF calls[c].due = {m} THEN Finish(c) ELSE calls' = [calls EXCEPT ![c].due = @ \ {m}]
    /\ UNCHANGED db

-----------------------------------------------------------------------------
\* The process dies, or a query fails, while the handler is suspended.
Abort(c) ==
    /\ calls[c].pc # "idle"
    /\ Finish(c)
    /\ UNCHANGED <<db, paid>>

Init ==
    /\ db = [l \in Listing |-> NoRow]
    /\ calls = [c \in Call |-> Idle]
    /\ paid = [l \in Listing |-> [m \in Member |-> 0]]

Create(c) == CreateSave(c) \/ \E m \in Member : CreateCount(c, m)

Request(c) ==
    \/ \E m \in Member, l \in Listing : RequestLoad(c, m, l)
    \/ RequestCount(c)
    \/ RequestSave(c)

Release(c) ==
    \/ \E m, t \in Member, l \in Listing : ReleaseLoad(c, m, l, t)
    \/ ReleaseSave(c)

Resolve(c) ==
    \/ \E m \in Member, l \in Listing, to \in Ended, t \in MemberOrNone :
          ResolveLoad(c, m, l, to, t)
    \/ ResolveSave(c)
    \/ Claim(c)
    \/ \E m \in Member : Pay(c, m)

Next == \E c \in Call : Create(c) \/ Request(c) \/ Release(c) \/ Resolve(c) \/ Abort(c)

Spec == Init /\ [][Next]_vars

\* Members, listings and handlers are alike: no code compares them but for equality.
Symmetry == Permutations(Member) \union Permutations(Listing) \union Permutations(Call)

-----------------------------------------------------------------------------
\* Properties

\* Rows and handlers hold what their schemas say: an id without a document is
\* blank, a document has an owner, and a handler that credits members has some
\* left to credit.
TypeOK ==
    /\ db \in [Listing -> Row]
    /\ calls \in [Call -> Handler]
    /\ paid \in [Listing -> [Member -> Nat]]
    /\ \A l \in Listing : IF db[l].status = "absent" THEN db[l] = NoRow ELSE db[l].owner \in Member
    /\ \A c \in Call : calls[c].pc = "pay" => calls[c].due # {}

\* The completion of a listing is credited once (completionPointAwardedAt): to
\* its owner and to a single partner, neither of them twice, whatever several
\* complete and cancel calls do to the same listing at the same time.
PaidOnce ==
    \A l \in Listing :
        /\ \A m \in Member : paid[l][m] <= 1
        /\ \A m, n \in Member \ {db[l].owner} : paid[l][m] > 0 /\ paid[l][n] > 0 => m = n

\* The status the listing pages filter on agrees with the array of requests: an
\* open listing has none, a requested one has some.  So the fallback of
\* getPendingRequests to the scalar requester serves only documents that were
\* written before requests became an array.
StatusMatchesRequests ==
    \A l \in Listing :
        /\ db[l].status = "open" => db[l].requests = {}
        /\ db[l].status = "requested" => db[l].requests # {}

\* requestTrade counts a member's requests and saves later, so calls in flight
\* together pass the limit: together with the requests about to be saved, by no
\* more than the other calls of that moment.
OutgoingWithinOverlap ==
    \A m \in Member :
        Cardinality(OutgoingRequests(m))
          + Cardinality({c \in Call : calls[c].pc = "ask" /\ calls[c].caller = m})
            <= ActiveRequestLimit + Cardinality(Call) - 1

\* The same for createListing: overlapping calls, among them the late saves that
\* bring an ended listing back, exceed the limit by less than their number.
ListingsWithinOverlap ==
    \A m \in Member :
        Cardinality(ActiveListings(m))
          + Cardinality({c \in Call : calls[c].pc = "create" /\ calls[c].caller = m})
            <= ActiveListingLimit + Cardinality(Call) - 1

\* The requests behave as an atomic book: no request is lost or revived by a
\* handler that writes back an array it read earlier, no book overflows.
Book == INSTANCE RequestBook
            WITH poster <- [l \in Listing |-> db[l].owner],
                 book <- [l \in Listing |-> db[l].requests]

ImplementsBook == Book!Spec

\* An ended trade stays ended: requestTrade and updateStatus refuse one
\* with '이미 종료된 거래입니다.'.
EndedStaysEnded == \A l \in Listing : db[l].closed => db[l].status \in Ended
=============================================================================
