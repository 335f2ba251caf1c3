------------------------- MODULE TradeListing_proofs -------------------------
(***************************************************************************)
(* Theorems about TradeListing, for every number of members, listings,     *)
(* handlers in flight and every limit.  The inductive invariant says what  *)
(* the snapshot of a suspended handler still tells about the row it came   *)
(* from: the owner is the same, the row is no older, and as long as the    *)
(* version has not moved the requests are the same.                        *)
(***************************************************************************)
EXTENDS TradeListing, FiniteSetTheorems, TLAPS

Suspended == {"count", "ask", "release", "resolve", "claim", "pay"}

\* What a suspended handler knows of its row.
SnapshotOf(k) ==
    /\ k.listing \in Listing
    /\ k.snap.owner \in Member
    /\ k.snap.status \in {"open", "requested"}
    /\ k.snap.status = "open" => k.snap.requests = {}
    /\ k.snap.status = "requested" => k.snap.requests # {}
    /\ db[k.listing].owner = k.snap.owner
    /\ db[k.listing].status # "absent"
    /\ k.snap.v <= db[k.listing].v
    /\ k.snap.v = db[k.listing].v => k.snap.requests = db[k.listing].requests

\* What its checks established before it was suspended.
ChecksOf(k) ==
    /\ k.pc # "idle" => k.caller \in Member
    /\ k.pc \in {"count", "ask", "release"} => k.snap.v < MaxVersion
    /\ k.pc \in {"count", "ask"} =>
          /\ k.caller # k.snap.owner
          /\ k.caller \notin k.snap.requests
          /\ Cardinality(k.snap.requests) < ListingRequestLimit
    /\ k.pc = "release" => k.snap.status = "requested" /\ k.target \in k.snap.requests
    /\ k.pc = "resolve" => k.to \in Ended
    /\ k.pc = "resolve" /\ k.to = "completed" => k.target \in Member
    /\ k.pc \in {"claim", "pay"} => k.target \in Member

\* What a crediting handler knows: the mark is set, those it has yet to credit
\* have nothing so far, and only the owner and its partner get anything.
CreditOf(k) ==
    /\ db[k.listing].awarded
    /\ \A m \in k.due : paid[k.listing][m] = 0
    /\ \A m \in Member :
          m \in k.due \/ paid[k.listing][m] > 0 => m \in {k.snap.owner, k.target}

\* No two handlers credit the same listing.
OneCreditor ==
    \A c, d \in Call :
        calls[c].pc = "pay" /\ calls[d].pc = "pay" /\ calls[c].listing = calls[d].listing
            => c = d

Credits ==
    /\ \A l \in Listing, m \in Member : paid[l][m] > 0 => db[l].awarded
    /\ \A c \in Call : calls[c].pc = "pay" => CreditOf(calls[c])
    /\ OneCreditor

Snapshots == \A c \in Call : calls[c].pc \in Suspended => SnapshotOf(calls[c])
Checks == \A c \in Call : ChecksOf(calls[c])

IInv == TypeOK /\ StatusMatchesRequests /\ Snapshots /\ Checks

-----------------------------------------------------------------------------
\* Rows

\* A document with the status its requests call for needs no fallback to the
\* scalar requester.
LEMMA PendingIsRequests ==
    ASSUME NEW row \in Row,
           row.status = "open" => row.requests = {},
           row.status = "requested" => row.requests # {}
    PROVE  Pending(row) = row.requests
BY DEF Pending, Row, Status, Ended

\* The initial row, a new document and an idle handler have their types.
LEMMA RowTypes ==
    /\ NoRow \in Row
    /\ \A m \in Member : NewRow(m) \in Row
    /\ Idle \in Handler
<1>1. 0 \in 0 .. MaxVersion
  BY VersionAssumption
<1>2. NoRow \in Row
  BY <1>1 DEF NoRow, Row, Status, MemberOrNone
<1>3. \A m \in Member : NewRow(m) \in Row
  BY <1>2 DEF NewRow, Row, Status, MemberOrNone
<1>4. Idle \in Handler
  BY <1>2 DEF Idle, Handler, MemberOrNone
<1> QED
  BY <1>2, <1>3, <1>4

\* What requestTrade's save does to a row.
LEMMA AskedRowFacts ==
    ASSUME NEW row \in Row, NEW snap \in Row, NEW m \in Member,
           row.v < MaxVersion, Pending(snap) = snap.requests
    PROVE  /\ AskedRow(row, snap, m) \in Row
           /\ AskedRow(row, snap, m).owner = row.owner
           /\ AskedRow(row, snap, m).awarded = row.awarded
           /\ AskedRow(row, snap, m).v = row.v + 1
           /\ AskedRow(row, snap, m).requests = snap.requests \union {m}
           /\ AskedRow(row, snap, m).status = IF snap.status = "requested" THEN row.status
                                              ELSE "requested"
<1>1. row.v + 1 \in 0 .. MaxVersion
  BY VersionAssumption DEF Row
<1> QED
  BY <1>1 DEF AskedRow, Row, Status

\* What releaseRequest's save does to a row.
LEMMA ReleasedRowFacts ==
    ASSUME NEW row \in Row, NEW snap \in Row, NEW t \in Member,
           row.v < MaxVersion, Pending(snap) = snap.requests
    PROVE  /\ ReleasedRow(row, snap, t) \in Row
           /\ ReleasedRow(row, snap, t).owner = row.owner
           /\ ReleasedRow(row, snap, t).awarded = row.awarded
           /\ ReleasedRow(row, snap, t).v = row.v + 1
           /\ ReleasedRow(row, snap, t).requests = snap.requests \ {t}
           /\ ReleasedRow(row, snap, t).status = IF snap.requests \ {t} = {} THEN "open"
                                                 ELSE row.status
<1>1. row.v + 1 \in 0 .. MaxVersion
  BY VersionAssumption DEF Row
<1> QED
  BY <1>1 DEF ReleasedRow, Row, Status, MemberOrNone

\* What updateStatus's save does to a row.
LEMMA ResolvedRowFacts ==
    ASSUME NEW row \in Row, NEW snap \in Row, NEW to \in Ended, NEW t \in MemberOrNone
    PROVE  /\ ResolvedRow(row, snap, to, t) \in Row
           /\ ResolvedRow(row, snap, to, t).owner = row.owner
           /\ ResolvedRow(row, snap, to, t).awarded = row.awarded
           /\ ResolvedRow(row, snap, to, t).v = row.v
           /\ ResolvedRow(row, snap, to, t).requests = row.requests
           /\ ResolvedRow(row, snap, to, t).status = to
BY DEF ResolvedRow, Row, Status, Ended, MemberOrNone

\* What the claim of the completion credit does to a row.
LEMMA AwardedRowFacts ==
    ASSUME NEW row \in Row
    PROVE  LET r == [row EXCEPT !.awarded = TRUE]
           IN  /\ r \in Row /\ r.owner = row.owner /\ r.v = row.v
               /\ r.status = row.status /\ r.requests = row.requests /\ r.awarded = TRUE
BY DEF Row

-----------------------------------------------------------------------------
\* The two shapes of a step of one handler

\* A step that writes no document: the handler moves on or ends.
LEMMA ReadStep ==
    ASSUME IInv, NEW c \in Call, NEW k \in Handler,
           k.pc \in Suspended => SnapshotOf(k), ChecksOf(k), k.pc = "pay" => k.due # {},
           UNCHANGED db, calls' = [calls EXCEPT ![c] = k],
           paid' \in [Listing -> [Member -> Nat]]
    PROVE  IInv'
<1>1. \A d \in Call : calls'[d] = IF d = c THEN k ELSE calls[d]
  BY DEF IInv, TypeOK
<1>2. TypeOK'
  BY <1>1 DEF IInv, TypeOK
<1>3. StatusMatchesRequests'
  BY DEF IInv, StatusMatchesRequests
<1>4. Snapshots'
  BY <1>1 DEF IInv, Snapshots, SnapshotOf
<1>5. Checks'
  BY <1>1 DEF IInv, Checks, ChecksOf
<1> QED
  BY <1>2, <1>3, <1>4, <1>5 DEF IInv

\* A step that writes one document: a new one, or one that keeps its owner, whose
\* version does not fall, and rises when its requests change.
LEMMA WriteStep ==
    ASSUME IInv, NEW c \in Call, NEW k \in Handler, NEW l \in Listing, NEW r \in Row,
           UNCHANGED paid, calls' = [calls EXCEPT ![c] = k], db' = [db EXCEPT ![l] = r],
           k.pc \in Suspended => SnapshotOf(k)', ChecksOf(k), k.pc = "pay" => k.due # {},
           r.status # "absent", r.owner \in Member,
           r.status = "open" => r.requests = {},
           r.status = "requested" => r.requests # {},
           db[l].status # "absent" =>
              /\ r.owner = db[l].owner
              /\ r.v >= db[l].v
              /\ r.v = db[l].v => r.requests = db[l].requests
    PROVE  IInv'
<1>1. \A d \in Call : calls'[d] = IF d = c THEN k ELSE calls[d]
  BY DEF IInv, TypeOK
<1>2. \A x \in Listing : db'[x] = IF x = l THEN r ELSE db[x]
  BY DEF IInv, TypeOK
<1>3. TypeOK'
  BY <1>1, <1>2 DEF IInv, TypeOK
<1>4. StatusMatchesRequests'
  BY <1>2 DEF IInv, StatusMatchesRequests
<1>5. Snapshots'
  <2> SUFFICES ASSUME NEW d \in Call, calls'[d].pc \in Suspended
               PROVE  SnapshotOf(calls[d])'
    BY DEF Snapshots
  <2>1. CASE d = c
    BY <2>1, <1>1
  <2>2. CASE d # c
    <3>1. calls'[d] = calls[d] /\ SnapshotOf(calls[d])
      BY <2>2, <1>1 DEF IInv, Snapshots
    <3>2. CASE calls[d].listing # l
      BY <3>1, <3>2, <1>2 DEF SnapshotOf
    <3>3. CASE calls[d].listing = l
      <4>1. calls[d].snap.v \in Nat /\ db[l].v \in Nat /\ r.v \in Nat
        BY VersionAssumption DEF IInv, TypeOK, Handler, Row
      <4>2. db'[l] = r
        BY <1>2
      <4> QED
        BY <3>1, <3>3, <4>1, <4>2 DEF SnapshotOf
    <3> QED
      BY <3>2, <3>3
  <2> QED
    BY <2>1, <2>2
<1>6. Checks'
  BY <1>1 DEF IInv, Checks, ChecksOf
<1> QED
  BY <1>3, <1>4, <1>5, <1>6 DEF IInv

\* A handler that ends, whatever the outcome.
LEMMA FinishStep ==
    ASSUME IInv, NEW c \in Call, UNCHANGED db, Finish(c),
           paid' \in [Listing -> [Member -> Nat]]
    PROVE  IInv'
<1>1. Idle \in Handler /\ Idle.pc = "idle"
  BY RowTypes DEF Idle
<1>2. ChecksOf(Idle)
  BY <1>1 DEF ChecksOf
<1> QED
  BY <1>1, <1>2, ReadStep DEF Finish, Suspended

-----------------------------------------------------------------------------
\* The steps

\* A document that exists: what a handler that has just loaded it knows.
LEMMA FreshSnapshot ==
    ASSUME IInv, NEW l \in Listing, db[l].status \in {"open", "requested"},
           NEW m \in Member, NEW pc \in {"count", "release", "resolve"},
           NEW t \in MemberOrNone, NEW to \in Ended \union {"none"}
    PROVE  LET k == Loaded(pc, m, l, t, to)
           IN  /\ k \in Handler
               /\ k.pc = pc /\ k.caller = m /\ k.listing = l /\ k.snap = db[l]
               /\ k.target = t /\ k.to = to /\ k.due = {}
               /\ SnapshotOf(k)
               /\ Pending(db[l]) = db[l].requests
<1> DEFINE k == Loaded(pc, m, l, t, to)
<1>1. db[l] \in Row /\ db[l].owner \in Member /\ db[l].v \in Nat
  BY VersionAssumption DEF IInv, TypeOK, Row
<1>2. k = [pc |-> pc, caller |-> m, listing |-> l, snap |-> db[l],
           target |-> t, to |-> to, due |-> {}]
  BY DEF Loaded
<1>3. k \in Handler
  BY <1>1, <1>2 DEF Handler, MemberOrNone
<1>4. /\ db[l].status = "open" => db[l].requests = {}
      /\ db[l].status = "requested" => db[l].requests # {}
  BY DEF IInv, StatusMatchesRequests
<1>5. SnapshotOf(k)
  BY <1>1, <1>2, <1>4 DEF SnapshotOf
<1>6. Pending(db[l]) = db[l].requests
  BY <1>1, <1>4, PendingIsRequests
<1> QED
  BY <1>2, <1>3, <1>5, <1>6

\* A suspended handler and its row.
LEMMA SuspendedFacts ==
    ASSUME IInv, NEW c \in Call, calls[c].pc \in Suspended
    PROVE  /\ calls[c] \in Handler /\ calls[c].snap \in Row
           /\ calls[c].listing \in Listing /\ calls[c].caller \in Member
           /\ db[calls[c].listing] \in Row
           /\ db[calls[c].listing].v \in Nat
           /\ db[calls[c].listing].owner \in Member
           /\ db[calls[c].listing].status # "absent"
           /\ SnapshotOf(calls[c]) /\ ChecksOf(calls[c])
           /\ Pending(calls[c].snap) = calls[c].snap.requests
<1>1. calls[c] \in Handler /\ calls[c].snap \in Row
  BY DEF IInv, TypeOK, Handler
<1>2. SnapshotOf(calls[c]) /\ ChecksOf(calls[c])
  BY DEF IInv, Snapshots, Checks
<1>3. calls[c].listing \in Listing /\ calls[c].caller \in Member
  BY <1>2 DEF SnapshotOf, ChecksOf, Suspended
<1>4. db[calls[c].listing] \in Row /\ db[calls[c].listing].v \in Nat
  BY <1>3, VersionAssumption DEF IInv, TypeOK, Row
<1>5. Pending(calls[c].snap) = calls[c].snap.requests
  BY <1>1, <1>2, PendingIsRequests DEF SnapshotOf
<1> QED
  BY <1>1, <1>2, <1>3, <1>4, <1>5 DEF SnapshotOf

\* createListing passing its count keeps the invariant.
LEMMA CreateCountStep ==
    ASSUME IInv, NEW c \in Call, NEW m \in Member, CreateCount(c, m)
    PROVE  IInv'
<1> DEFINE k == [Idle EXCEPT !.pc = "create", !.caller = m]
<1>1. k \in Handler /\ k.pc = "create" /\ k.caller = m
  BY RowTypes DEF Idle, Handler, MemberOrNone
<1>2. ChecksOf(k) /\ k.pc \notin Suspended
  BY <1>1 DEF ChecksOf, Suspended
<1>3. calls' = [calls EXCEPT ![c] = k] /\ UNCHANGED <<db, paid>>
  BY DEF CreateCount
<1>4. paid' \in [Listing -> [Member -> Nat]]
  BY <1>3 DEF IInv, TypeOK
<1> HIDE DEF k
<1> QED
  BY <1>1, <1>2, <1>3, <1>4, ReadStep

\* createListing saving a new document keeps the invariant.
LEMMA CreateSaveStep ==
    ASSUME IInv, NEW c \in Call, CreateSave(c)
    PROVE  IInv'
<1>1. calls[c].caller \in Member
  BY DEF CreateSave, IInv, Checks, ChecksOf
<1>2. PICK l \in Listing : db[l].status = "absent" /\ db' = [db EXCEPT ![l] = NewRow(calls[c].caller)]
  BY DEF CreateSave
<1> DEFINE r == NewRow(calls[c].caller)
<1>3. r \in Row /\ r.owner \in Member /\ r.status = "open" /\ r.requests = {}
  BY <1>1, RowTypes DEF NewRow, NoRow
<1>4. Idle \in Handler /\ Idle.pc = "idle" /\ ChecksOf(Idle)
  BY RowTypes DEF Idle, ChecksOf
<1>5. calls' = [calls EXCEPT ![c] = Idle] /\ UNCHANGED paid
  BY DEF CreateSave, Finish
<1> HIDE DEF r
<1>6. db' = [db EXCEPT ![l] = r] /\ db[l].status = "absent"
  BY <1>2 DEF r
<1> QED
  BY <1>3, <1>4, <1>5, <1>6, WriteStep DEF Suspended

\* requestTrade loading a listing establishes what its checks promise.
LEMMA RequestLoadStep ==
    ASSUME IInv, NEW c \in Call, NEW m \in Member, NEW l \in Listing, RequestLoad(c, m, l)
    PROVE  IInv'
<1> DEFINE k == Loaded("count", m, l, NoMember, "none")
<1>1. /\ k \in Handler /\ SnapshotOf(k)
      /\ k.pc = "count" /\ k.caller = m /\ k.listing = l /\ k.snap = db[l]
      /\ Pending(db[l]) = db[l].requests
  BY FreshSnapshot DEF RequestLoad, MemberOrNone
<1>3. ChecksOf(k)
  BY <1>1 DEF ChecksOf, RequestLoad
<1>4. calls' = [calls EXCEPT ![c] = k] /\ UNCHANGED <<db, paid>>
  BY DEF RequestLoad
<1>5. paid' \in [Listing -> [Member -> Nat]]
  BY <1>4 DEF IInv, TypeOK
<1> HIDE DEF k
<1> QED
  BY <1>1, <1>3, <1>4, <1>5, ReadStep

\* requestTrade keeps what its load established while it counts.
LEMMA RequestCountStep ==
    ASSUME IInv, NEW c \in Call, RequestCount(c)
    PROVE  IInv'
<1>1. calls[c].pc = "count" /\ UNCHANGED <<db, paid>> /\ paid' \in [Listing -> [Member -> Nat]]
  BY DEF RequestCount, IInv, TypeOK
<1>2. CASE Finish(c)
  BY <1>1, <1>2, FinishStep
<1>3. CASE calls' = [calls EXCEPT ![c].pc = "ask"]
  <2> DEFINE k == [calls[c] EXCEPT !.pc = "ask"]
  <2>1. /\ calls[c] \in Handler /\ SnapshotOf(calls[c]) /\ ChecksOf(calls[c])
    BY <1>1, SuspendedFacts DEF Suspended
  <2>2. /\ k \in Handler /\ k.pc = "ask" /\ k.caller = calls[c].caller
        /\ k.listing = calls[c].listing /\ k.snap = calls[c].snap /\ k.target = calls[c].target
        /\ k.to = calls[c].to
    BY <2>1 DEF Handler
  <2>3. SnapshotOf(k) /\ ChecksOf(k)
    BY <1>1, <2>1, <2>2 DEF SnapshotOf, ChecksOf
  <2>4. calls' = [calls EXCEPT ![c] = k]
    BY <1>3 DEF IInv, TypeOK
  <2> HIDE DEF k
  <2> QED
    BY <1>1, <2>2, <2>3, <2>4, ReadStep
<1> QED
  BY <1>2, <1>3 DEF RequestCount

\* requestTrade's save keeps the invariant: a stale one is refused.
LEMMA RequestSaveStep ==
    ASSUME IInv, NEW c \in Call, RequestSave(c)
    PROVE  IInv'
<1> DEFINE l == calls[c].listing
           r == AskedRow(db[l], calls[c].snap, calls[c].caller)
<1>1. calls[c].pc = "ask" /\ Finish(c) /\ UNCHANGED paid
  BY DEF RequestSave
<1>2. paid' \in [Listing -> [Member -> Nat]]
  BY <1>1 DEF IInv, TypeOK
<1>3. CASE UNCHANGED db
  BY <1>1, <1>2, <1>3, FinishStep
<1>4. CASE SameVersion(c) /\ db' = [db EXCEPT ![l] = r]
  <2>1. /\ calls[c].snap \in Row /\ l \in Listing /\ calls[c].caller \in Member
        /\ db[l] \in Row /\ db[l].v \in Nat /\ db[l].owner \in Member /\ db[l].status # "absent"
        /\ SnapshotOf(calls[c]) /\ ChecksOf(calls[c])
        /\ Pending(calls[c].snap) = calls[c].snap.requests
    BY <1>1, SuspendedFacts DEF Suspended
  <2>2. db[l].v < MaxVersion /\ calls[c].snap.requests = db[l].requests
    BY <1>1, <1>4, <2>1 DEF SameVersion, ChecksOf, SnapshotOf
  <2>3. /\ r \in Row /\ r.owner = db[l].owner /\ r.v = db[l].v + 1
        /\ r.requests = db[l].requests \union {calls[c].caller}
        /\ r.status = IF calls[c].snap.status = "requested" THEN db[l].status ELSE "requested"
    BY <2>1, <2>2, AskedRowFacts
  <2>4. r.status # "absent" /\ r.requests # {} /\ (r.status = "open" => r.requests = {})
    BY <2>1, <2>2, <2>3 DEF SnapshotOf, IInv, StatusMatchesRequests
  <2>5. Idle \in Handler /\ Idle.pc = "idle" /\ ChecksOf(Idle)
    BY RowTypes DEF Idle, ChecksOf
  <2>6. calls' = [calls EXCEPT ![c] = Idle]
    BY <1>1 DEF Finish
  <2>7. db' = [db EXCEPT ![l] = r]
    BY <1>4
  <2>8. r.v >= db[l].v /\ r.v # db[l].v
    BY <2>1, <2>3
  <2> HIDE DEF r, l
  <2> QED
    BY <1>1, <2>1, <2>3, <2>4, <2>5, <2>6, <2>7, <2>8, WriteStep DEF Suspended
<1> QED
  BY <1>3, <1>4 DEF RequestSave

\* releaseRequest loading a listing establishes what its checks promise.
LEMMA ReleaseLoadStep ==
    ASSUME IInv, NEW c \in Call, NEW m \in Member, NEW t \in Member, NEW l \in Listing,
           ReleaseLoad(c, m, l, t)
    PROVE  IInv'
<1> DEFINE k == Loaded("release", m, l, t, "none")
<1>1. /\ k \in Handler /\ SnapshotOf(k)
      /\ k.pc = "release" /\ k.caller = m /\ k.listing = l /\ k.snap = db[l] /\ k.target = t
      /\ Pending(db[l]) = db[l].requests
  BY FreshSnapshot DEF ReleaseLoad, MemberOrNone
<1>3. ChecksOf(k)
  BY <1>1 DEF ChecksOf, ReleaseLoad
<1>4. calls' = [calls EXCEPT ![c] = k] /\ UNCHANGED <<db, paid>>
  BY DEF ReleaseLoad
<1>5. paid' \in [Listing -> [Member -> Nat]]
  BY <1>4 DEF IInv, TypeOK
<1> HIDE DEF k
<1> QED
  BY <1>1, <1>3, <1>4, <1>5, ReadStep

\* releaseRequest's save keeps status and requests in agreement.
LEMMA ReleaseSaveStep ==
    ASSUME IInv, NEW c \in Call, ReleaseSave(c)
    PROVE  IInv'
<1> DEFINE l == calls[c].listing
           r == ReleasedRow(db[l], calls[c].snap, calls[c].target)
<1>1. calls[c].pc = "release" /\ Finish(c) /\ UNCHANGED paid
  BY DEF ReleaseSave
<1>2. paid' \in [Listing -> [Member -> Nat]]
  BY <1>1 DEF IInv, TypeOK
<1>3. CASE UNCHANGED db
  BY <1>1, <1>2, <1>3, FinishStep
<1>4. CASE SameVersion(c) /\ db' = [db EXCEPT ![l] = r]
  <2>1. /\ calls[c].snap \in Row /\ l \in Listing
        /\ db[l] \in Row /\ db[l].v \in Nat /\ db[l].owner \in Member /\ db[l].status # "absent"
        /\ SnapshotOf(calls[c]) /\ ChecksOf(calls[c])
        /\ Pending(calls[c].snap) = calls[c].snap.requests
    BY <1>1, SuspendedFacts DEF Suspended
  <2>2. /\ db[l].v < MaxVersion /\ calls[c].snap.requests = db[l].requests
        /\ calls[c].target \in db[l].requests
    BY <1>1, <1>4, <2>1 DEF SameVersion, ChecksOf, SnapshotOf
  <2>3. calls[c].target \in Member
    BY <2>1, <2>2 DEF Row
  <2>4. /\ r \in Row /\ r.owner = db[l].owner /\ r.v = db[l].v + 1
        /\ r.requests = db[l].requests \ {calls[c].target}
        /\ r.status = IF r.requests = {} THEN "open" ELSE db[l].status
    BY <2>1, <2>2, <2>3, ReleasedRowFacts
  <2>5. /\ r.status # "absent"
        /\ r.status = "open" => r.requests = {}
        /\ r.status = "requested" => r.requests # {}
    BY <2>1, <2>2, <2>4 DEF IInv, StatusMatchesRequests
  <2>6. Idle \in Handler /\ Idle.pc = "idle" /\ ChecksOf(Idle)
    BY RowTypes DEF Idle, ChecksOf
  <2>7. calls' = [calls EXCEPT ![c] = Idle] /\ db' = [db EXCEPT ![l] = r]
    BY <1>1, <1>4 DEF Finish
  <2>8. r.v >= db[l].v /\ r.v # db[l].v
    BY <2>1, <2>4
  <2> HIDE DEF r, l
  <2> QED
    BY <1>1, <2>1, <2>4, <2>5, <2>6, <2>7, <2>8, WriteStep DEF Suspended
<1> QED
  BY <1>3, <1>4 DEF ReleaseSave

\* updateStatus loading a listing establishes what its checks promise.
LEMMA ResolveLoadStep ==
    ASSUME IInv, NEW c \in Call, NEW m \in Member, NEW l \in Listing, NEW to \in Ended,
           NEW t \in MemberOrNone, ResolveLoad(c, m, l, to, t)
    PROVE  IInv'
<1> DEFINE k == Loaded("resolve", m, l, t, to)
<1>1. /\ k \in Handler /\ SnapshotOf(k)
      /\ k.pc = "resolve" /\ k.caller = m /\ k.listing = l /\ k.snap = db[l]
      /\ k.target = t /\ k.to = to
      /\ Pending(db[l]) = db[l].requests
  BY FreshSnapshot DEF ResolveLoad
<1>2. db[l] \in Row
  BY DEF IInv, TypeOK
<1>3. to = "completed" => t \in Member
  BY <1>1, <1>2 DEF ResolveLoad, Row
<1>4. ChecksOf(k)
  BY <1>1, <1>3 DEF ChecksOf
<1>5. calls' = [calls EXCEPT ![c] = k] /\ UNCHANGED <<db, paid>>
  BY DEF ResolveLoad
<1>6. paid' \in [Listing -> [Member -> Nat]]
  BY <1>5 DEF IInv, TypeOK
<1> HIDE DEF k
<1> QED
  BY <1>1, <1>4, <1>5, <1>6, ReadStep

\* The handler that has saved a completion and goes on to claim the credit.
LEMMA ToClaim ==
    ASSUME IInv, NEW c \in Call, calls[c].pc = "resolve", calls[c].to = "completed"
    PROVE  LET k == [calls[c] EXCEPT !.pc = "claim"]
           IN  /\ k \in Handler /\ k.pc = "claim" /\ k.listing = calls[c].listing
               /\ k.snap = calls[c].snap /\ ChecksOf(k)
<1> DEFINE k == [calls[c] EXCEPT !.pc = "claim"]
<1>1. calls[c] \in Handler /\ ChecksOf(calls[c])
  BY DEF IInv, TypeOK, Checks
<1>2. /\ k \in Handler /\ k.pc = "claim" /\ k.listing = calls[c].listing
      /\ k.snap = calls[c].snap /\ k.caller = calls[c].caller /\ k.target = calls[c].target
  BY <1>1 DEF Handler
<1>3. ChecksOf(k)
  BY <1>1, <1>2 DEF ChecksOf
<1> QED
  BY <1>2, <1>3

\* The handler that has claimed the credit of its listing.
LEMMA ToPay ==
    ASSUME IInv, NEW c \in Call, calls[c].pc = "claim"
    PROVE  LET k == [calls[c] EXCEPT !.pc = "pay",
                                     !.due = {calls[c].snap.owner, calls[c].target}]
           IN  /\ k \in Handler /\ k.pc = "pay" /\ k.listing = calls[c].listing
               /\ k.snap = calls[c].snap /\ k.target = calls[c].target
               /\ k.due = {calls[c].snap.owner, calls[c].target} /\ ChecksOf(k)
<1> DEFINE k == [calls[c] EXCEPT !.pc = "pay",
                                 !.due = {calls[c].snap.owner, calls[c].target}]
<1>1. /\ calls[c] \in Handler /\ ChecksOf(calls[c])
      /\ calls[c].snap.owner \in Member /\ calls[c].target \in Member
  BY SuspendedFacts DEF Suspended, SnapshotOf, ChecksOf
<1>2. /\ k \in Handler /\ k.pc = "pay" /\ k.listing = calls[c].listing
      /\ k.snap = calls[c].snap /\ k.caller = calls[c].caller /\ k.target = calls[c].target
      /\ k.due = {calls[c].snap.owner, calls[c].target}
  BY <1>1 DEF Handler
<1>3. ChecksOf(k)
  BY <1>1, <1>2 DEF ChecksOf
<1> QED
  BY <1>2, <1>3

\* updateStatus's save ends the listing and leaves its requests.
LEMMA ResolveSaveStep ==
    ASSUME IInv, NEW c \in Call, ResolveSave(c)
    PROVE  IInv'
<1> DEFINE l == calls[c].listing
           r == ResolvedRow(db[l], calls[c].snap, calls[c].to, calls[c].target)
<1>1. /\ calls[c].pc = "resolve" /\ UNCHANGED paid
      /\ db' = [db EXCEPT ![l] = r]
  BY DEF ResolveSave
<1>2. /\ calls[c] \in Handler /\ calls[c].snap \in Row /\ l \in Listing
      /\ db[l] \in Row /\ db[l].v \in Nat /\ db[l].owner \in Member /\ db[l].status # "absent"
      /\ SnapshotOf(calls[c]) /\ ChecksOf(calls[c])
  BY <1>1, SuspendedFacts DEF Suspended
<1>3. calls[c].to \in Ended /\ calls[c].target \in MemberOrNone
  BY <1>1, <1>2 DEF ChecksOf, Handler
<1>4. /\ r \in Row /\ r.owner = db[l].owner /\ r.v = db[l].v
      /\ r.requests = db[l].requests /\ r.status = calls[c].to
  BY <1>2, <1>3, ResolvedRowFacts, SMTT(30)
<1>5. r.status \notin {"absent", "open", "requested"} /\ r.v >= db[l].v
  BY <1>2, <1>3, <1>4 DEF Ended
<1>6. CASE Finish(c)
  <2>1. Idle \in Handler /\ Idle.pc = "idle" /\ ChecksOf(Idle)
    BY RowTypes DEF Idle, ChecksOf
  <2>2. calls' = [calls EXCEPT ![c] = Idle]
    BY <1>6 DEF Finish
  <2> HIDE DEF r, l
  <2> QED
    BY <1>1, <1>2, <1>4, <1>5, <2>1, <2>2, WriteStep DEF Suspended
<1>7. CASE calls[c].to = "completed" /\ calls' = [calls EXCEPT ![c].pc = "claim"]
  <2>1. PICK k \in Handler :
              /\ k = [calls[c] EXCEPT !.pc = "claim"]
              /\ k.pc = "claim" /\ k.listing = l /\ k.snap = calls[c].snap /\ ChecksOf(k)
    BY <1>1, <1>7, ToClaim
  <2>2. calls' = [calls EXCEPT ![c] = k]
    BY <1>7, <2>1 DEF IInv, TypeOK
  <2>3. db'[l] = r
    BY <1>1, <1>2 DEF IInv, TypeOK
  <2> HIDE DEF r
  <2>4. SnapshotOf(k)'
    BY <1>2, <1>4, <1>5, <2>1, <2>3 DEF SnapshotOf
  <2> HIDE DEF l
  <2> QED
    BY <1>1, <1>2, <1>4, <1>5, <2>1, <2>2, <2>4, WriteStep DEF Suspended
<1> QED
  BY <1>6, <1>7 DEF ResolveSave

\* Claiming the completion credit keeps the invariant.
LEMMA ClaimStep ==
    ASSUME IInv, NEW c \in Call, Claim(c)
    PROVE  IInv'
<1> DEFINE l == calls[c].listing
           r == [db[l] EXCEPT !.awarded = TRUE]
<1>1. calls[c].pc = "claim" /\ UNCHANGED paid
  BY DEF Claim
<1>2. paid' \in [Listing -> [Member -> Nat]]
  BY <1>1 DEF IInv, TypeOK
<1>3. CASE Finish(c) /\ UNCHANGED db
  BY <1>1, <1>2, <1>3, FinishStep
<1>4. CASE /\ db' = [db EXCEPT ![l].awarded = TRUE]
           /\ calls' = [calls EXCEPT ![c].pc = "pay",
                                     ![c].due = {calls[c].snap.owner, calls[c].target}]
  <2>1. /\ calls[c] \in Handler /\ calls[c].snap \in Row /\ l \in Listing
        /\ db[l] \in Row /\ db[l].v \in Nat /\ db[l].owner \in Member /\ db[l].status # "absent"
        /\ SnapshotOf(calls[c]) /\ ChecksOf(calls[c])
    BY <1>1, SuspendedFacts DEF Suspended
  <2>2. /\ r \in Row /\ r.owner = db[l].owner /\ r.v = db[l].v /\ r.status = db[l].status
        /\ r.requests = db[l].requests
    BY <2>1, AwardedRowFacts
  <2>3. r.v >= db[l].v
    BY <2>1, <2>2
  <2>4. PICK k \in Handler :
              /\ k = [calls[c] EXCEPT !.pc = "pay",
                                      !.due = {calls[c].snap.owner, calls[c].target}]
              /\ k.pc = "pay" /\ k.listing = l /\ k.snap = calls[c].snap
              /\ k.due # {} /\ ChecksOf(k)
    BY <1>1, ToPay
  <2>5. db' = [db EXCEPT ![l] = r] /\ calls' = [calls EXCEPT ![c] = k] /\ db'[l] = r
    BY <1>4, <2>1, <2>4 DEF IInv, TypeOK
  <2>6. /\ r.status = "open" => r.requests = {}
        /\ r.status = "requested" => r.requests # {}
    BY <2>1, <2>2 DEF IInv, StatusMatchesRequests
  <2> HIDE DEF r
  <2>7. SnapshotOf(k)'
    BY <2>1, <2>2, <2>4, <2>5 DEF SnapshotOf
  <2> HIDE DEF l
  <2> QED
    BY <1>1, <2>1, <2>2, <2>3, <2>4, <2>5, <2>6, <2>7, WriteStep
<1> QED
  BY <1>3, <1>4 DEF Claim

\* Crediting one account keeps the invariant.
LEMMA PayStep ==
    ASSUME IInv, NEW c \in Call, NEW m \in Member, Pay(c, m)
    PROVE  IInv'
<1>1. calls[c].pc = "pay" /\ m \in calls[c].due /\ UNCHANGED db
  BY DEF Pay
<1>2. paid' \in [Listing -> [Member -> Nat]]
  BY <1>1, SuspendedFacts DEF Pay, IInv, TypeOK, Suspended
<1>3. CASE Finish(c)
  BY <1>1, <1>2, <1>3, FinishStep
<1>4. CASE calls[c].due # {m} /\ calls' = [calls EXCEPT ![c].due = @ \ {m}]
  <2> DEFINE k == [calls[c] EXCEPT !.due = @ \ {m}]
  <2>1. calls[c] \in Handler /\ SnapshotOf(calls[c]) /\ ChecksOf(calls[c])
    BY <1>1, SuspendedFacts DEF Suspended
  <2>2. /\ k \in Handler /\ k.pc = "pay" /\ k.listing = calls[c].listing
        /\ k.snap = calls[c].snap /\ k.caller = calls[c].caller /\ k.target = calls[c].target
        /\ k.due = calls[c].due \ {m}
    BY <1>1, <2>1 DEF Handler
  <2>3. k.due # {}
    BY <1>1, <1>4, <2>2
  <2>4. calls' = [calls EXCEPT ![c] = k]
    BY <1>4 DEF IInv, TypeOK
  <2> HIDE DEF k
  <2>5. SnapshotOf(k) /\ ChecksOf(k)
    BY <1>1, <2>1, <2>2 DEF SnapshotOf, ChecksOf
  <2> QED
    BY <1>1, <1>2, <2>2, <2>3, <2>4, <2>5, ReadStep
<1> QED
  BY <1>3, <1>4 DEF Pay

-----------------------------------------------------------------------------
\* The inductive invariant

\* The empty collection satisfies the invariant.
LEMMA InitIInv == Init => IInv
<1> SUFFICES ASSUME Init PROVE IInv
  OBVIOUS
<1>1. /\ \A l \in Listing : db[l] = NoRow
      /\ \A c \in Call : calls[c] = Idle
  BY DEF Init
<1>2. NoRow.status = "absent" /\ Idle.pc = "idle"
  BY DEF NoRow, Idle
<1>3. TypeOK
  BY <1>1, <1>2, RowTypes DEF Init, TypeOK
<1> QED
  BY <1>1, <1>2, <1>3 DEF IInv, StatusMatchesRequests, Snapshots, Checks, ChecksOf, Suspended

\* Every step of every handler keeps the invariant.
LEMMA NextIInv == IInv /\ [Next]_vars => IInv'
<1> SUFFICES ASSUME IInv, [Next]_vars PROVE IInv'
  OBVIOUS
<1>1. CASE UNCHANGED vars
  BY <1>1 DEF vars, IInv, TypeOK, StatusMatchesRequests, Snapshots, SnapshotOf, Checks, ChecksOf
<1>2. ASSUME NEW c \in Call, Create(c) PROVE IInv'
  BY <1>2, CreateCountStep, CreateSaveStep DEF Create
<1>3. ASSUME NEW c \in Call, Request(c) PROVE IInv'
  BY <1>3, RequestLoadStep, RequestCountStep, RequestSaveStep DEF Request
<1>4. ASSUME NEW c \in Call, Release(c) PROVE IInv'
  BY <1>4, ReleaseLoadStep, ReleaseSaveStep DEF Release
<1>5. ASSUME NEW c \in Call, Resolve(c) PROVE IInv'
  BY <1>5, ResolveLoadStep, ResolveSaveStep, ClaimStep, PayStep DEF Resolve
<1>6. ASSUME NEW c \in Call, Abort(c) PROVE IInv'
  BY <1>6, FinishStep DEF Abort, IInv, TypeOK
<1> QED
  BY <1>1, <1>2, <1>3, <1>4, <1>5, <1>6 DEF Next

\* The inductive invariant holds in every reachable state.
LEMMA Invariance == Spec => []IInv
BY InitIInv, NextIInv, PTL DEF Spec

\* Rows and handlers keep their types, documents their owner.
THEOREM TypeCorrect == Spec => []TypeOK
<1>1. IInv => TypeOK
  BY DEF IInv
<1> QED
  BY <1>1, Invariance, PTL

\* The status of a listing agrees with its array of requests, although a save
\* may write the one without the other.
THEOREM StatusCorrect == Spec => []StatusMatchesRequests
<1>1. IInv => StatusMatchesRequests
  BY DEF IInv
<1> QED
  BY <1>1, Invariance, PTL

-----------------------------------------------------------------------------
\* The completion credit

CInv == IInv /\ Credits /\ PaidOnce

\* A step that credits nobody, starts no crediting handler, and takes neither the
\* mark nor the owner from a listing whose credit is claimed.
LEMMA QuietStep ==
    ASSUME CInv, UNCHANGED paid,
           \A d \in Call : calls'[d].pc = "pay" => calls'[d] = calls[d],
           \A l \in Listing : db[l].awarded => db'[l].awarded /\ db'[l].owner = db[l].owner
    PROVE  Credits' /\ PaidOnce'
<1>1. \A d \in Call : calls[d].pc = "pay" => calls[d].listing \in Listing
  BY DEF CInv, IInv, Snapshots, SnapshotOf, Suspended
<1>2. Credits'
  BY <1>1 DEF CInv, Credits, CreditOf, OneCreditor
<1>3. PaidOnce'
  BY DEF CInv, Credits, PaidOnce
<1> QED
  BY <1>2, <1>3

\* A handler that writes a row with the owner and the mark of the old one.
LEMMA QuietWrite ==
    ASSUME CInv, UNCHANGED paid, NEW c \in Call, NEW k \in Handler, k.pc # "pay",
           calls' = [calls EXCEPT ![c] = k],
           NEW l \in Listing, NEW r, db' = [db EXCEPT ![l] = r],
           db[l].awarded => r.awarded /\ r.owner = db[l].owner
    PROVE  Credits' /\ PaidOnce'
<1>1. \A d \in Call : calls'[d] = IF d = c THEN k ELSE calls[d]
  BY DEF CInv, IInv, TypeOK
<1>2. \A x \in Listing : db'[x] = IF x = l THEN r ELSE db[x]
  BY DEF CInv, IInv, TypeOK
<1> QED
  BY <1>1, <1>2, QuietStep

\* A handler that writes nothing and does not go on to credit anyone.
LEMMA QuietRead ==
    ASSUME CInv, UNCHANGED <<db, paid>>, NEW c \in Call, NEW k, k.pc # "pay",
           calls' = [calls EXCEPT ![c] = k]
    PROVE  Credits' /\ PaidOnce'
<1>1. \A d \in Call : calls'[d] = IF d = c THEN k ELSE calls[d]
  BY DEF CInv, IInv, TypeOK
<1> QED
  BY <1>1, QuietStep

\* A handler that ends without writing.
LEMMA QuietFinish ==
    ASSUME CInv, UNCHANGED <<db, paid>>, NEW c \in Call, Finish(c)
    PROVE  Credits' /\ PaidOnce'
<1>1. Idle.pc # "pay"
  BY DEF Idle
<1> QED
  BY <1>1, QuietRead DEF Finish

\* Creating a listing credits nobody.
LEMMA CreateCredits ==
    ASSUME CInv, NEW c \in Call, Create(c)
    PROVE  Credits' /\ PaidOnce'
<1>1. ASSUME NEW m \in Member, CreateCount(c, m) PROVE Credits' /\ PaidOnce'
  <2>1. [Idle EXCEPT !.pc = "create", !.caller = m].pc # "pay"
    BY DEF Idle
  <2> QED
    BY <1>1, <2>1, QuietRead DEF CreateCount
<1>2. CASE CreateSave(c)
  <2>1. PICK l \in Listing : /\ db[l].status = "absent"
                             /\ db' = [db EXCEPT ![l] = NewRow(calls[c].caller)]
    BY <1>2 DEF CreateSave
  <2>2. ~db[l].awarded
    BY <2>1 DEF CInv, IInv, TypeOK, NoRow
  <2>3. Idle \in Handler /\ Idle.pc # "pay"
    BY RowTypes DEF Idle
  <2> QED
    BY <1>2, <2>1, <2>2, <2>3, QuietWrite DEF CreateSave, Finish
<1> QED
  BY <1>1, <1>2 DEF Create

\* Asking for a trade credits nobody, and keeps the mark of the listing.
LEMMA RequestCredits ==
    ASSUME CInv, NEW c \in Call, Request(c)
    PROVE  Credits' /\ PaidOnce'
<1>1. ASSUME NEW m \in Member, NEW l \in Listing, RequestLoad(c, m, l)
      PROVE  Credits' /\ PaidOnce'
  <2>1. Loaded("count", m, l, NoMember, "none").pc # "pay"
    BY DEF Loaded
  <2> QED
    BY <1>1, <2>1, QuietRead DEF RequestLoad
<1>2. CASE RequestCount(c)
  <2>1. \A d \in Call : calls'[d].pc = "pay" => calls'[d] = calls[d]
    BY <1>2 DEF RequestCount, Finish, Idle, CInv, IInv, TypeOK, Handler
  <2> QED
    BY <1>2, <2>1, QuietStep DEF RequestCount
<1>3. CASE RequestSave(c)
  <2>1. calls[c].pc = "ask" /\ Finish(c) /\ UNCHANGED paid
    BY <1>3 DEF RequestSave
  <2>2. CASE UNCHANGED db
    BY <2>1, <2>2, QuietFinish
  <2>3. ASSUME SameVersion(c), db' = [db EXCEPT ![calls[c].listing] =
                                         AskedRow(@, calls[c].snap, calls[c].caller)]
        PROVE  Credits' /\ PaidOnce'
    <3> DEFINE l == calls[c].listing
               r == AskedRow(db[l], calls[c].snap, calls[c].caller)
    <3>1. l \in Listing /\ r.owner = db[l].owner /\ r.awarded = db[l].awarded
      BY <2>1, SuspendedFacts DEF Suspended, CInv, AskedRow, Row
    <3>2. Idle \in Handler /\ Idle.pc # "pay"
      BY RowTypes DEF Idle
    <3>3. calls' = [calls EXCEPT ![c] = Idle] /\ db' = [db EXCEPT ![l] = r]
      BY <2>1, <2>3 DEF Finish
    <3> HIDE DEF l, r
    <3> QED
      BY <2>1, <3>1, <3>2, <3>3, QuietWrite
  <2> QED
    BY <1>3, <2>2, <2>3 DEF RequestSave
<1> QED
  BY <1>1, <1>2, <1>3 DEF Request

\* Releasing a request credits nobody, and keeps the mark of the listing.
LEMMA ReleaseCredits ==
    ASSUME CInv, NEW c \in Call, Release(c)
    PROVE  Credits' /\ PaidOnce'
<1>1. ASSUME NEW m \in Member, NEW t \in Member, NEW l \in Listing, ReleaseLoad(c, m, l, t)
      PROVE  Credits' /\ PaidOnce'
  <2>1. Loaded("release", m, l, t, "none").pc # "pay"
    BY DEF Loaded
  <2> QED
    BY <1>1, <2>1, QuietRead DEF ReleaseLoad
<1>2. CASE ReleaseSave(c)
  <2>1. calls[c].pc = "release" /\ Finish(c) /\ UNCHANGED paid
    BY <1>2 DEF ReleaseSave
  <2>2. CASE UNCHANGED db
    BY <2>1, <2>2, QuietFinish
  <2>3. ASSUME SameVersion(c), db' = [db EXCEPT ![calls[c].listing] =
                                         ReleasedRow(@, calls[c].snap, calls[c].target)]
        PROVE  Credits' /\ PaidOnce'
    <3> DEFINE l == calls[c].listing
               r == ReleasedRow(db[l], calls[c].snap, calls[c].target)
    <3>1. l \in Listing /\ r.owner = db[l].owner /\ r.awarded = db[l].awarded
      BY <2>1, SuspendedFacts DEF Suspended, CInv, ReleasedRow, Row
    <3>2. Idle \in Handler /\ Idle.pc # "pay"
      BY RowTypes DEF Idle
    <3>3. calls' = [calls EXCEPT ![c] = Idle] /\ db' = [db EXCEPT ![l] = r]
      BY <2>1, <2>3 DEF Finish
    <3> HIDE DEF l, r
    <3> QED
      BY <2>1, <3>1, <3>2, <3>3, QuietWrite
  <2> QED
    BY <1>2, <2>2, <2>3 DEF ReleaseSave
<1> QED
  BY <1>1, <1>2 DEF Release

\* Ending a listing credits nobody yet, and keeps its mark.
LEMMA ResolveSaveCredits ==
    ASSUME CInv, NEW c \in Call, ResolveSave(c)
    PROVE  Credits' /\ PaidOnce'
<1> DEFINE l == calls[c].listing
           r == ResolvedRow(db[l], calls[c].snap, calls[c].to, calls[c].target)
<1>1. calls[c].pc = "resolve" /\ UNCHANGED paid /\ db' = [db EXCEPT ![l] = r]
  BY DEF ResolveSave
<1>2. l \in Listing /\ r.owner = db[l].owner /\ r.awarded = db[l].awarded
  BY <1>1, SuspendedFacts DEF Suspended, CInv, ResolvedRow, Row
<1>3. CASE Finish(c)
  <2>1. Idle \in Handler /\ Idle.pc # "pay"
    BY RowTypes DEF Idle
  <2> HIDE DEF l, r
  <2> QED
    BY <1>1, <1>2, <1>3, <2>1, QuietWrite DEF Finish
<1>4. CASE calls[c].to = "completed" /\ calls' = [calls EXCEPT ![c].pc = "claim"]
  <2>1. PICK k \in Handler : k = [calls[c] EXCEPT !.pc = "claim"] /\ k.pc = "claim"
    BY <1>1, <1>4, ToClaim DEF CInv
  <2>2. calls' = [calls EXCEPT ![c] = k]
    BY <1>4, <2>1 DEF CInv, IInv, TypeOK
  <2> HIDE DEF l, r
  <2> QED
    BY <1>1, <1>2, <2>1, <2>2, QuietWrite
<1> QED
  BY <1>3, <1>4 DEF ResolveSave

\* The claim succeeds once: the mark it sets was absent, so nobody has been
\* credited for the listing and no other handler is crediting it.
LEMMA ClaimCredits ==
    ASSUME CInv, NEW c \in Call, Claim(c)
    PROVE  Credits' /\ PaidOnce'
<1> DEFINE l == calls[c].listing
<1>1. calls[c].pc = "claim" /\ UNCHANGED paid
  BY DEF Claim
<1>2. CASE Finish(c) /\ UNCHANGED db
  BY <1>1, <1>2, QuietFinish
<1>3. CASE /\ ~db[l].awarded
           /\ db' = [db EXCEPT ![l].awarded = TRUE]
           /\ calls' = [calls EXCEPT ![c].pc = "pay",
                                     ![c].due = {calls[c].snap.owner, calls[c].target}]
  <2>1. l \in Listing /\ db[l] \in Row
    BY <1>1, SuspendedFacts DEF CInv, Suspended
  <2>2. PICK k \in Handler :
              /\ k = [calls[c] EXCEPT !.pc = "pay",
                                      !.due = {calls[c].snap.owner, calls[c].target}]
              /\ k.pc = "pay" /\ k.listing = l /\ k.snap = calls[c].snap
              /\ k.target = calls[c].target /\ k.due = {calls[c].snap.owner, calls[c].target}
    BY <1>1, ToPay DEF CInv
  <2>3. \A d \in Call : calls'[d] = IF d = c THEN k ELSE calls[d]
    BY <1>3, <2>2 DEF CInv, IInv, TypeOK
  <2>4. /\ db'[l].awarded
        /\ \A x \in Listing : /\ db'[x].owner = db[x].owner
                              /\ db[x].awarded => db'[x].awarded
    BY <1>3, <2>1 DEF CInv, IInv, TypeOK, Row
  <2>5. \A m \in Member : paid[l][m] = 0
    BY <1>3, <2>1 DEF CInv, Credits, IInv, TypeOK
  <2>6. \A d \in Call : calls[d].pc = "pay" => calls[d].listing \in Listing \ {l}
    BY <1>3 DEF CInv, Credits, CreditOf, IInv, Snapshots, SnapshotOf, Suspended
  <2>7. k.due \subseteq Member
    BY DEF Handler
  <2> HIDE DEF l
  <2>8. CreditOf(k)'
    BY <1>1, <2>2, <2>4, <2>5, <2>7 DEF CreditOf
  <2>9. Credits'
    <3>1. \A x \in Listing, m \in Member : paid'[x][m] > 0 => db'[x].awarded
      BY <1>1, <2>4 DEF CInv, Credits
    <3>2. ASSUME NEW d \in Call, calls'[d].pc = "pay" PROVE CreditOf(calls[d])'
      <4>1. CASE d = c
        BY <4>1, <2>3, <2>8
      <4>2. CASE d # c
        <5>1. calls'[d] = calls[d] /\ CreditOf(calls[d]) /\ calls[d].listing \in Listing
          BY <3>2, <4>2, <2>3, <2>6 DEF CInv, Credits
        <5> QED
          BY <5>1, <1>1, <2>4 DEF CreditOf
      <4> QED
        BY <4>1, <4>2
    <3>3. OneCreditor'
      <4> SUFFICES ASSUME NEW d \in Call, NEW e \in Call,
                          calls'[d].pc = "pay", calls'[e].pc = "pay",
                          calls'[d].listing = calls'[e].listing
                   PROVE  d = e
        BY DEF OneCreditor
      <4>1. k.listing = l /\ calls'[c] = k
        BY <2>2, <2>3
      <4>2. ASSUME NEW x \in Call, x # c, calls'[x].pc = "pay"
            PROVE  calls'[x] = calls[x] /\ calls[x].pc = "pay" /\ calls'[x].listing # l
        BY <4>2, <2>3, <2>6
      <4>3. CASE d # c /\ e # c
        <5>1. OneCreditor
          BY DEF CInv, Credits
        <5> QED
          BY <4>2, <4>3, <5>1 DEF OneCreditor
      <4> QED
        BY <4>1, <4>2, <4>3
    <3> QED
      BY <3>1, <3>2, <3>3 DEF Credits
  <2>10. PaidOnce'
    BY <1>1, <2>4 DEF CInv, PaidOnce
  <2> QED
    BY <2>9, <2>10
<1> QED
  BY <1>2, <1>3 DEF Claim

\* A credit is given by the one handler that claimed the listing, to somebody it
\* has not credited yet, and to no third party.
LEMMA PayCredits ==
    ASSUME CInv, NEW c \in Call, NEW m \in Member, Pay(c, m)
    PROVE  Credits' /\ PaidOnce'
<1> DEFINE l == calls[c].listing
<1>1. calls[c].pc = "pay" /\ m \in calls[c].due /\ UNCHANGED db
  BY DEF Pay
<1>2. /\ l \in Listing /\ calls[c] \in Handler /\ db[l].owner = calls[c].snap.owner
  BY <1>1, SuspendedFacts DEF CInv, Suspended, SnapshotOf
<1>3. paid' = [paid EXCEPT ![l][m] = @ + 1]
  BY DEF Pay
<1>4. /\ db[l].awarded /\ paid[l][m] = 0
      /\ \A n \in Member : paid[l][n] > 0 => n \in {calls[c].snap.owner, calls[c].target}
      /\ m \in {calls[c].snap.owner, calls[c].target}
  BY <1>1 DEF CInv, Credits, CreditOf
<1>5. \A x \in Listing, n \in Member :
         paid'[x][n] = IF x = l /\ n = m THEN 1 ELSE paid[x][n]
  BY <1>2, <1>3, <1>4 DEF CInv, IInv, TypeOK
<1>6. \A d \in Call : calls'[d].pc = "pay" =>
         /\ calls[d].pc = "pay" /\ calls'[d].listing = calls[d].listing
         /\ calls'[d].snap = calls[d].snap /\ calls'[d].target = calls[d].target
         /\ calls'[d].due = IF d = c THEN calls[d].due \ {m} ELSE calls[d].due
  <2>1. CASE Finish(c)
    BY <2>1 DEF Finish, Idle, CInv, IInv, TypeOK
  <2>2. CASE calls' = [calls EXCEPT ![c].due = @ \ {m}]
    BY <1>2, <2>2 DEF CInv, IInv, TypeOK, Handler
  <2> QED
    BY <2>1, <2>2 DEF Pay
<1>7. \A d \in Call : calls[d].pc = "pay" =>
         /\ calls[d].listing \in Listing /\ calls[d].due \subseteq Member
         /\ d # c => calls[d].listing # l
  BY <1>1 DEF CInv, Credits, CreditOf, OneCreditor, IInv, TypeOK, Handler, Snapshots, SnapshotOf, Suspended
<1> HIDE DEF l
<1>8. Credits'
  <2>1. \A x \in Listing, n \in Member : paid'[x][n] > 0 => db'[x].awarded
    BY <1>1, <1>4, <1>5 DEF CInv, Credits
  <2>2. ASSUME NEW d \in Call, calls'[d].pc = "pay" PROVE CreditOf(calls[d])'
    <3>1. CreditOf(calls[d])
      BY <2>2, <1>6 DEF CInv, Credits
    <3>2. CASE d = c
      <4>1. /\ calls'[c].listing = l /\ l \in Listing /\ calls'[c].due = calls[c].due \ {m}
            /\ calls'[c].snap = calls[c].snap /\ calls'[c].target = calls[c].target
            /\ calls[c].due \subseteq Member
        BY <3>2, <2>2, <1>1, <1>2, <1>6, <1>7 DEF l
      <4>2. /\ \A n \in calls[c].due : paid[l][n] = 0
            /\ \A n \in Member :
                  n \in calls[c].due \/ paid[l][n] > 0 => n \in {calls[c].snap.owner, calls[c].target}
        BY <3>1, <3>2 DEF CreditOf, l
      <4>3. db'[calls'[c].listing].awarded
        BY <4>1, <1>1, <1>4
      <4>4. \A n \in calls'[c].due : paid'[calls'[c].listing][n] = 0
        BY <4>1, <4>2, <1>5
      <4>5. \A n \in Member :
               n \in calls'[c].due \/ paid'[calls'[c].listing][n] > 0
                  => n \in {calls'[c].snap.owner, calls'[c].target}
        BY <4>1, <4>2, <1>4, <1>5
      <4> QED
        BY <3>2, <4>3, <4>4, <4>5 DEF CreditOf
    <3>3. CASE d # c
      <4>1. /\ calls'[d].listing = calls[d].listing /\ calls[d].listing \in Listing \ {l}
            /\ calls'[d].snap = calls[d].snap /\ calls'[d].target = calls[d].target
            /\ calls'[d].due = calls[d].due /\ calls[d].due \subseteq Member
        BY <3>3, <2>2, <1>6, <1>7
      <4>2. /\ db[calls[d].listing].awarded
            /\ \A n \in calls[d].due : paid[calls[d].listing][n] = 0
            /\ \A n \in Member :
                  n \in calls[d].due \/ paid[calls[d].listing][n] > 0
                     => n \in {calls[d].snap.owner, calls[d].target}
        BY <3>1 DEF CreditOf
      <4>3. \A n \in Member : paid'[calls[d].listing][n] = paid[calls[d].listing][n]
        BY <4>1, <1>5
      <4>4. db'[calls'[d].listing].awarded
        BY <4>1, <4>2, <1>1
      <4>5. \A n \in calls'[d].due : paid'[calls'[d].listing][n] = 0
        BY <4>1, <4>2, <4>3
      <4>6. \A n \in Member :
               n \in calls'[d].due \/ paid'[calls'[d].listing][n] > 0
                  => n \in {calls'[d].snap.owner, calls'[d].target}
        BY <4>1, <4>2, <4>3
      <4> QED
        BY <4>4, <4>5, <4>6 DEF CreditOf
    <3> QED
      BY <3>2, <3>3
  <2>3. OneCreditor'
    <3>1. OneCreditor
      BY DEF CInv, Credits
    <3> SUFFICES ASSUME NEW d \in Call, NEW e \in Call,
                        calls'[d].pc = "pay", calls'[e].pc = "pay",
                        calls'[d].listing = calls'[e].listing
                 PROVE  d = e
      BY DEF OneCreditor
    <3> QED
      BY <3>1, <1>6 DEF OneCreditor
  <2> QED
    BY <2>1, <2>2, <2>3 DEF Credits
<1>9. PaidOnce'
  BY <1>1, <1>2, <1>4, <1>5 DEF CInv, PaidOnce
<1> QED
  BY <1>8, <1>9

\* Nothing is credited at first.
LEMMA InitCInv == Init => CInv
<1> SUFFICES ASSUME Init PROVE CInv
  OBVIOUS
<1>1. IInv
  BY InitIInv
<1>2. /\ \A c \in Call : calls[c].pc = "idle"
      /\ \A l \in Listing, m \in Member : paid[l][m] = 0
  BY DEF Init, Idle
<1> QED
  BY <1>1, <1>2 DEF CInv, Credits, CreditOf, OneCreditor, PaidOnce

\* Every step of every handler keeps the credits of each listing in bounds.
LEMMA NextCInv == CInv /\ [Next]_vars => CInv'
<1> SUFFICES ASSUME CInv, [Next]_vars PROVE CInv'
  OBVIOUS
<1>1. IInv'
  BY NextIInv DEF CInv
<1>2. ASSUME UNCHANGED vars PROVE Credits' /\ PaidOnce'
  BY <1>2 DEF vars, CInv, Credits, CreditOf, OneCreditor, PaidOnce
<1>3. ASSUME NEW c \in Call, Create(c) PROVE Credits' /\ PaidOnce'
  BY <1>3, CreateCredits
<1>4. ASSUME NEW c \in Call, Request(c) PROVE Credits' /\ PaidOnce'
  BY <1>4, RequestCredits
<1>5. ASSUME NEW c \in Call, Release(c) PROVE Credits' /\ PaidOnce'
  BY <1>5, ReleaseCredits
<1>6. ASSUME NEW c \in Call, Resolve(c) PROVE Credits' /\ PaidOnce'
  <2>1. ASSUME NEW m \in Member, NEW l \in Listing, NEW to \in Ended, NEW t \in MemberOrNone,
               ResolveLoad(c, m, l, to, t)
        PROVE  Credits' /\ PaidOnce'
    <3>1. Loaded("resolve", m, l, t, to).pc # "pay"
      BY DEF Loaded
    <3> QED
      BY <2>1, <3>1, QuietRead DEF ResolveLoad
  <2> QED
    BY <1>6, <2>1, ResolveSaveCredits, ClaimCredits, PayCredits DEF Resolve
<1>7. ASSUME NEW c \in Call, Abort(c) PROVE Credits' /\ PaidOnce'
  BY <1>7, QuietFinish DEF Abort
<1>8. Credits' /\ PaidOnce'
  BY <1>2, <1>3, <1>4, <1>5, <1>6, <1>7 DEF Next
<1> QED
  BY <1>1, <1>8 DEF CInv

\* A listing credits its owner and one partner, once each, whatever complete and
\* cancel calls interleave on it.
THEOREM PaidOnceCorrect == Spec => []PaidOnce
<1>1. CInv => PaidOnce
  BY DEF CInv
<1>2. Spec => []CInv
  BY InitCInv, NextCInv, PTL DEF Spec
<1> QED
  BY <1>1, <1>2, PTL

-----------------------------------------------------------------------------
\* TradeListing implements RequestBook

\* RequestBook counts with its own instance of FiniteSets.
LEMMA SameCardinality == \A S : Book!Cardinality(S) = Cardinality(S)
BY DEF Book!Cardinality, Cardinality

\* A document saved by createListing is a posting.
LEMMA CreateBook ==
    ASSUME IInv, NEW c \in Call, Create(c)
    PROVE  [Book!Next]_(Book!vars)
<1>1. ASSUME NEW m \in Member, CreateCount(c, m) PROVE UNCHANGED Book!vars
  BY <1>1 DEF CreateCount, Book!vars
<1>2. CASE CreateSave(c)
  <2>1. PICK m \in Member, l \in Listing :
              /\ db[l].status = "absent"
              /\ db' = [db EXCEPT ![l] = NewRow(m)]
    BY <1>2 DEF CreateSave, IInv, Checks, ChecksOf
  <2>2. db[l].owner = NoMember /\ db[l].requests = {}
    BY <2>1 DEF IInv, TypeOK, NoRow
  <2>3. NewRow(m).owner = m /\ NewRow(m).requests = {}
    BY DEF NewRow, NoRow
  <2>4. \A x \in Listing : /\ db'[x].owner = IF x = l THEN m ELSE db[x].owner
                           /\ db'[x].requests = db[x].requests
    BY <2>1, <2>2, <2>3 DEF IInv, TypeOK
  <2>5. Book!Post(l, m)
    BY <2>2, <2>4 DEF Book!Post
  <2> QED
    BY <2>5 DEF Book!Next
<1> QED
  BY <1>1, <1>2 DEF Create

\* A save of requestTrade adds the caller, and the checks of its load still hold
\* when the version has not moved.
LEMMA RequestBookStep ==
    ASSUME IInv, NEW c \in Call, Request(c)
    PROVE  [Book!Next]_(Book!vars)
<1>1. ASSUME NEW m \in Member, NEW l \in Listing, RequestLoad(c, m, l)
      PROVE  UNCHANGED Book!vars
  BY <1>1 DEF RequestLoad, Book!vars
<1>2. CASE RequestCount(c)
  BY <1>2 DEF RequestCount, Book!vars
<1>3. CASE RequestSave(c)
  <2>1. calls[c].pc = "ask"
    BY <1>3 DEF RequestSave
  <2>2. CASE UNCHANGED db
    BY <2>2 DEF Book!vars
  <2>3. ASSUME SameVersion(c), db' = [db EXCEPT ![calls[c].listing] =
                                         AskedRow(@, calls[c].snap, calls[c].caller)]
        PROVE  Book!Next
    <3>1. PICK k : k = calls[c]
      OBVIOUS
    <3>2. PICK l \in Listing, m \in Member, snap \in Row :
                /\ l = k.listing /\ m = k.caller /\ snap = k.snap
                /\ db[l] \in Row /\ db[l].owner \in Member
                /\ Pending(snap) = snap.requests
                /\ SnapshotOf(k) /\ ChecksOf(k)
      BY <2>1, <3>1, SuspendedFacts DEF Suspended
    <3>3. /\ snap.v = db[l].v /\ snap.requests = db[l].requests /\ snap.owner = db[l].owner
          /\ snap.v < MaxVersion
          /\ m # snap.owner /\ m \notin snap.requests
          /\ Cardinality(snap.requests) < ListingRequestLimit
      BY <2>1, <2>3, <3>1, <3>2 DEF SameVersion, SnapshotOf, ChecksOf
    <3>4. PICK r : /\ r = AskedRow(db[l], snap, m)
                   /\ r.owner = db[l].owner /\ r.requests = db[l].requests \union {m}
      BY <3>2, <3>3, AskedRowFacts
    <3>5. db' = [db EXCEPT ![l] = r]
      BY <2>3, <3>1, <3>2, <3>4
    <3>6. \A x \in Listing :
             /\ db'[x].owner = db[x].owner
             /\ db'[x].requests = IF x = l THEN db[l].requests \union {m} ELSE db[x].requests
      BY <3>4, <3>5 DEF IInv, TypeOK
    <3>7. db[l].owner \notin {NoMember, m}
      BY <3>2, <3>3, SentinelAssumption
    <3>8. Book!Cardinality(db[l].requests) < ListingRequestLimit
      BY <3>3, SameCardinality
    <3>9. Book!Ask(l, m)
      BY <3>3, <3>6, <3>7, <3>8 DEF Book!Ask
    <3> QED
      BY <3>9 DEF Book!Next
  <2> QED
    BY <1>3, <2>2, <2>3 DEF RequestSave
<1> QED
  BY <1>1, <1>2, <1>3 DEF Request

\* A save of releaseRequest removes its target and nobody else.
LEMMA ReleaseBook ==
    ASSUME IInv, NEW c \in Call, Release(c)
    PROVE  [Book!Next]_(Book!vars)
<1>1. ASSUME NEW m \in Member, NEW t \in Member, NEW l \in Listing, ReleaseLoad(c, m, l, t)
      PROVE  UNCHANGED Book!vars
  BY <1>1 DEF ReleaseLoad, Book!vars
<1>2. CASE ReleaseSave(c)
  <2>1. calls[c].pc = "release"
    BY <1>2 DEF ReleaseSave
  <2>2. CASE UNCHANGED db
    BY <2>2 DEF Book!vars
  <2>3. ASSUME SameVersion(c), db' = [db EXCEPT ![calls[c].listing] =
                                         ReleasedRow(@, calls[c].snap, calls[c].target)]
        PROVE  Book!Next
    <3>1. PICK k : k = calls[c]
      OBVIOUS
    <3>2. PICK l \in Listing, t \in MemberOrNone, snap \in Row :
                /\ l = k.listing /\ t = k.target /\ snap = k.snap
                /\ db[l] \in Row
                /\ Pending(snap) = snap.requests
                /\ SnapshotOf(k) /\ ChecksOf(k)
      BY <2>1, <3>1, SuspendedFacts DEF Suspended, Handler
    <3>3. /\ snap.v = db[l].v /\ snap.requests = db[l].requests
          /\ snap.v < MaxVersion /\ t \in snap.requests
      BY <2>1, <2>3, <3>1, <3>2 DEF SameVersion, SnapshotOf, ChecksOf
    <3>4. t \in Member
      BY <3>2, <3>3 DEF Row
    <3>5. PICK r : /\ r = ReleasedRow(db[l], snap, t)
                   /\ r.owner = db[l].owner /\ r.requests = db[l].requests \ {t}
      BY <3>2, <3>3, <3>4, ReleasedRowFacts
    <3>6. db' = [db EXCEPT ![l] = r]
      BY <2>3, <3>1, <3>2, <3>5
    <3>7. \A x \in Listing :
             /\ db'[x].owner = db[x].owner
             /\ db'[x].requests = IF x = l THEN db[l].requests \ {t} ELSE db[x].requests
      BY <3>5, <3>6 DEF IInv, TypeOK
    <3>8. Book!Drop(l, t)
      BY <3>3, <3>7 DEF Book!Drop
    <3> QED
      BY <3>4, <3>8 DEF Book!Next
  <2> QED
    BY <1>2, <2>2, <2>3 DEF ReleaseSave
<1> QED
  BY <1>1, <1>2 DEF Release

\* Completing, cancelling and crediting leave the owners and the requests alone.
LEMMA ResolveBook ==
    ASSUME IInv, NEW c \in Call, Resolve(c)
    PROVE  UNCHANGED Book!vars
<1>1. ASSUME NEW l \in Listing, NEW r, db' = [db EXCEPT ![l] = r],
             r.owner = db[l].owner, r.requests = db[l].requests
      PROVE  UNCHANGED Book!vars
  <2>1. \A x \in Listing : db'[x].owner = db[x].owner /\ db'[x].requests = db[x].requests
    BY <1>1 DEF IInv, TypeOK
  <2> QED
    BY <2>1 DEF Book!vars
<1>2. ASSUME NEW m \in Member, NEW l \in Listing, NEW to \in Ended, NEW t \in MemberOrNone,
             ResolveLoad(c, m, l, to, t)
      PROVE  UNCHANGED Book!vars
  BY <1>2 DEF ResolveLoad, Book!vars
<1>3. CASE ResolveSave(c)
  <2> DEFINE l == calls[c].listing
             r == ResolvedRow(db[l], calls[c].snap, calls[c].to, calls[c].target)
  <2>1. calls[c].pc = "resolve" /\ db' = [db EXCEPT ![l] = r]
    BY <1>3 DEF ResolveSave
  <2>2. l \in Listing /\ db[l] \in Row
    BY <2>1, SuspendedFacts DEF Suspended
  <2>3. r.owner = db[l].owner /\ r.requests = db[l].requests
    BY <2>2 DEF ResolvedRow, Row
  <2> HIDE DEF l, r
  <2> QED
    BY <1>1, <2>1, <2>2, <2>3
<1>4. CASE Claim(c)
  <2>1. CASE UNCHANGED db
    BY <2>1 DEF Book!vars
  <2>2. CASE db' = [db EXCEPT ![calls[c].listing].awarded = TRUE]
    <3> DEFINE l == calls[c].listing
               r == [db[l] EXCEPT !.awarded = TRUE]
    <3>1. l \in Listing /\ db[l] \in Row
      BY <1>4, SuspendedFacts DEF Claim, Suspended
    <3>2. r.owner = db[l].owner /\ r.requests = db[l].requests
      BY <3>1, AwardedRowFacts
    <3>3. db' = [db EXCEPT ![l] = r]
      BY <2>2
    <3> HIDE DEF l, r
    <3> QED
      BY <1>1, <3>1, <3>2, <3>3
  <2> QED
    BY <1>4, <2>1, <2>2 DEF Claim
<1>5. ASSUME NEW m \in Member, Pay(c, m) PROVE UNCHANGED Book!vars
  BY <1>5 DEF Pay, Book!vars
<1> QED
  BY <1>2, <1>3, <1>4, <1>5 DEF Resolve

\* Whatever the handlers interleave to, the requests of the listings change as if
\* each request, withdrawal and rejection were one atomic step.
THEOREM ImplementsBookCorrect == Spec => ImplementsBook
<1>1. Init => Book!Init
  BY DEF Init, Book!Init, NoRow
<1>2. IInv /\ [Next]_vars => [Book!Next]_(Book!vars)
  <2> SUFFICES ASSUME IInv, [Next]_vars PROVE [Book!Next]_(Book!vars)
    OBVIOUS
  <2>1. CASE UNCHANGED vars
    BY <2>1 DEF vars, Book!vars
  <2>2. ASSUME NEW c \in Call, Abort(c) PROVE UNCHANGED Book!vars
    BY <2>2 DEF Abort, Book!vars
  <2> QED
    BY <2>1, <2>2, CreateBook, RequestBookStep, ReleaseBook, ResolveBook DEF Next
<1> QED
  BY <1>1, <1>2, Invariance, PTL DEF Spec, ImplementsBook, Book!Spec

-----------------------------------------------------------------------------
\* The limits that handlers count before they save

\* What a member has asked for, and its handlers that have counted that.
Outgoing(d, m) == {l \in Listing : d[l].status = "requested" /\ m \in d[l].requests}
Asking(js, m) == {c \in Call : js[c].pc = "ask" /\ js[c].caller = m}

\* The listings of a member that are active, or that a handler may yet make active, and its
\* handlers that have counted the active ones.
Active == {"open", "requested"}
Writing == {"count", "ask", "release"}
Live(d, js, m) ==
    {l \in Listing :
        /\ d[l].owner = m
        /\ d[l].status \in Active \/ \E c \in Call : js[c].pc \in Writing /\ js[c].listing = l}
Creating(js, m) == {c \in Call : js[c].pc = "create" /\ js[c].caller = m}

\* Both grow only as a handler that was counted saves.
Bounded(S, T, limit) ==
    IsFiniteSet(S) /\ Cardinality(S) + Cardinality(T) <= limit + Cardinality(Call) - 1

OutgoingBounded == \A m \in Member : Bounded(Outgoing(db, m), Asking(calls, m), ActiveRequestLimit)
LiveBounded == \A m \in Member : Bounded(Live(db, calls, m), Creating(calls, m), ActiveListingLimit)

OInv == IInv /\ OutgoingBounded /\ LiveBounded

\* Neither set grows.
LEMMA BoundedLess ==
    ASSUME NEW S, NEW T \in SUBSET Call, NEW limit \in Nat, Bounded(S, T, limit),
           NEW P \in SUBSET S, NEW Q \in SUBSET T
    PROVE  Bounded(P, Q, limit)
<1>1. IsFiniteSet(S) /\ IsFiniteSet(T) /\ IsFiniteSet(P) /\ IsFiniteSet(Q) /\ IsFiniteSet(Call)
  BY FS_Subset, CallAssumption DEF Bounded
<1>2. /\ Cardinality(P) <= Cardinality(S) /\ Cardinality(Q) <= Cardinality(T)
      /\ Cardinality(P) \in Nat /\ Cardinality(S) \in Nat /\ Cardinality(Q) \in Nat
      /\ Cardinality(T) \in Nat /\ Cardinality(Call) \in Nat
  BY <1>1, FS_Subset, FS_CardinalityType
<1> QED
  BY <1>1, <1>2 DEF Bounded

\* A handler that was counted saves, and what it counted grows by one.
LEMMA BoundedMoves ==
    ASSUME NEW S, NEW T \in SUBSET Call, NEW limit \in Nat, Bounded(S, T, limit),
           NEW x, NEW c \in T, NEW P \in SUBSET (S \union {x}), NEW Q \in SUBSET (T \ {c})
    PROVE  Bounded(P, Q, limit)
<1>1. IsFiniteSet(S) /\ IsFiniteSet(T) /\ IsFiniteSet(Call)
  BY FS_Subset, CallAssumption DEF Bounded
<1>2. IsFiniteSet(S \union {x}) /\ IsFiniteSet(T \ {c})
  BY <1>1, FS_AddElement, FS_RemoveElement
<1>3. /\ Cardinality(S) \in Nat /\ Cardinality(T) \in Nat /\ Cardinality(Call) \in Nat
      /\ Cardinality(S \union {x}) \in Nat /\ Cardinality(T \ {c}) \in Nat
  BY <1>1, <1>2, FS_CardinalityType
<1>4. Cardinality(S \union {x}) = IF x \in S THEN Cardinality(S) ELSE Cardinality(S) + 1
  BY <1>1, FS_AddElement
<1>5. Cardinality(T \ {c}) = Cardinality(T) - 1
  BY <1>1, FS_RemoveElement
<1>6. Bounded(S \union {x}, T \ {c}, limit)
  BY <1>2, <1>3, <1>4, <1>5 DEF Bounded
<1> QED
  BY <1>6, BoundedLess

\* A count that was below its limit: however many handlers have passed it by now.
LEMMA BoundedAnew ==
    ASSUME NEW S, IsFiniteSet(S), NEW T \in SUBSET Call, NEW limit \in Nat,
           Cardinality(S) < limit
    PROVE  Bounded(S, T, limit)
<1>1. /\ Cardinality(T) <= Cardinality(Call) /\ Cardinality(T) \in Nat
      /\ Cardinality(Call) \in Nat /\ Cardinality(S) \in Nat
  BY FS_Subset, FS_CardinalityType, CallAssumption
<1> QED
  BY <1>1 DEF Bounded

\* One handler changes, all others stay as they were.
LEMMA OneHandler ==
    ASSUME IInv, NEW c \in Call, NEW k, calls' = [calls EXCEPT ![c] = k]
    PROVE  \A d \in Call : calls'[d] = IF d = c THEN k ELSE calls[d]
  BY DEF IInv, TypeOK

\* A step that lets no handler pass the count of requests, and adds no request
LEMMA OutgoingKept ==
    ASSUME IInv, OutgoingBounded, NEW c \in Call, NEW k, calls' = [calls EXCEPT ![c] = k],
           k.pc # "ask",
           \A l \in Listing, m \in Member :
              db'[l].status = "requested" /\ m \in db'[l].requests
                 => db[l].status = "requested" /\ m \in db[l].requests
    PROVE  OutgoingBounded'
<1> SUFFICES ASSUME NEW m \in Member
             PROVE  Bounded(Outgoing(db', m), Asking(calls', m), ActiveRequestLimit)
  BY DEF OutgoingBounded
<1>1. Bounded(Outgoing(db, m), Asking(calls, m), ActiveRequestLimit)
  BY DEF OutgoingBounded
<1>2. Outgoing(db', m) \subseteq Outgoing(db, m)
  BY DEF Outgoing
<1>3. Asking(calls', m) \subseteq Asking(calls, m) /\ Asking(calls, m) \subseteq Call
  BY OneHandler DEF Asking
<1> QED
  BY <1>1, <1>2, <1>3, BoundedLess, LimitAssumption

\* A step that lets no handler pass the count of listings, and makes a listing active
\* only if a handler was about to
LEMMA LiveKept ==
    ASSUME IInv, LiveBounded, NEW c \in Call, NEW k, calls' = [calls EXCEPT ![c] = k],
           k.pc # "create",
           k.pc \in Writing => /\ k.listing \in Listing
                               /\ \/ db[k.listing].status \in Active
                                  \/ calls[c].pc \in Writing /\ calls[c].listing = k.listing,
           \A l \in Listing :
              /\ db'[l].owner = db[l].owner
              /\ db'[l].status \in Active =>
                    \/ db[l].status \in Active
                    \/ \E d \in Call : calls[d].pc \in Writing /\ calls[d].listing = l
    PROVE  LiveBounded'
<1> SUFFICES ASSUME NEW m \in Member
             PROVE  Bounded(Live(db', calls', m), Creating(calls', m), ActiveListingLimit)
  BY DEF LiveBounded
<1>1. Bounded(Live(db, calls, m), Creating(calls, m), ActiveListingLimit)
  BY DEF LiveBounded
<1>2. Live(db', calls', m) \subseteq Live(db, calls, m)
  <2> SUFFICES ASSUME NEW l \in Live(db', calls', m) PROVE l \in Live(db, calls, m)
    OBVIOUS
  <2>1. l \in Listing /\ db[l].owner = m
    BY DEF Live
  <2>2. CASE db'[l].status \in Active
    BY <2>1, <2>2 DEF Live
  <2>3. CASE db'[l].status \notin Active
    <3>1. PICK d \in Call : calls'[d].pc \in Writing /\ calls'[d].listing = l
      BY <2>3 DEF Live
    <3>2. CASE d = c
      BY <2>1, <3>1, <3>2, OneHandler DEF Live
    <3>3. CASE d # c
      BY <2>1, <3>1, <3>3, OneHandler DEF Live
    <3> QED
      BY <3>2, <3>3
  <2> QED
    BY <2>2, <2>3
<1>3. Creating(calls', m) \subseteq Creating(calls, m) /\ Creating(calls, m) \subseteq Call
  BY OneHandler DEF Creating
<1> QED
  BY <1>1, <1>2, <1>3, BoundedLess, LimitAssumption

\* A step of one handler that leaves what is listed and asked for.
LEMMA BothKept ==
    ASSUME OInv, NEW c \in Call, NEW k, calls' = [calls EXCEPT ![c] = k],
           k.pc \notin {"create", "ask"},
           k.pc \in Writing => k.listing \in Listing /\ db[k.listing].status \in Active,
           \A l \in Listing : /\ db'[l].owner = db[l].owner
                              /\ db'[l].status = db[l].status
                              /\ db'[l].requests = db[l].requests
    PROVE  OutgoingBounded' /\ LiveBounded'
<1>1. IInv /\ OutgoingBounded /\ LiveBounded /\ k.pc # "ask" /\ k.pc # "create"
  BY DEF OInv
<1>2. OutgoingBounded'
  BY <1>1, OutgoingKept
<1>3. LiveBounded'
  BY <1>1, LiveKept
<1> QED
  BY <1>2, <1>3

\* Handlers that end.
LEMMA EndKeeps ==
    ASSUME OInv, NEW c \in Call, Finish(c), UNCHANGED db
    PROVE  OutgoingBounded' /\ LiveBounded'
<1>1. Idle.pc = "idle"
  BY DEF Idle
<1> QED
  BY <1>1, BothKept DEF Finish, Writing

-----------------------------------------------------------------------------
\* The steps

\* Handlers that are to write the listings of a member are as many as these at least.
LEMMA LiveByHandlers ==
    ASSUME IInv, NEW js, NEW m \in Member, IsFiniteSet({l \in Listing : db[l].owner = m /\ db[l].status \in Active})
    PROVE  LET active == {l \in Listing : db[l].owner = m /\ db[l].status \in Active}
               writing == {c \in Call : js[c].pc \in Writing}
           IN  /\ IsFiniteSet(Live(db, js, m))
               /\ Cardinality(Live(db, js, m)) <= Cardinality(active) + Cardinality(writing)
<1> DEFINE active == {l \in Listing : db[l].owner = m /\ db[l].status \in Active}
           writing == {c \in Call : js[c].pc \in Writing}
           late == Live(db, js, m) \ active
           f == [l \in late |-> CHOOSE c \in writing : js[c].listing = l]
<1>1. IsFiniteSet(writing)
  <2>1. writing \in SUBSET Call
    OBVIOUS
  <2> HIDE DEF writing
  <2> QED
    BY <2>1, FS_Subset, CallAssumption
<1>2. \A l \in late : \E c \in writing : js[c].listing = l
  BY DEF Live
<1>3. \A l \in late : f[l] \in writing /\ js[f[l]].listing = l
  <2> HIDE DEF late, writing
  <2> QED
    BY <1>2
<1>4. f \in Injection(late, writing)
  <2>1. f \in [late -> writing]
    <3> HIDE DEF late, writing
    <3> QED
      BY <1>3
  <2>2. \A a, b \in late : f[a] = f[b] => a = b
    <3> HIDE DEF late, writing, f
    <3> QED
      BY <1>3
  <2> HIDE DEF f, late, writing
  <2> QED
    BY <2>1, <2>2 DEF Injection, IsInjective
<1>5. IsFiniteSet(late) /\ Cardinality(late) <= Cardinality(writing)
  <2> HIDE DEF f, late, writing
  <2> QED
    BY <1>1, <1>4, FS_Injection
<1>6. Live(db, js, m) = active \union late
  BY DEF Live
<1>7. IsFiniteSet(active)
  OBVIOUS
<1> HIDE DEF active, late, writing, f
<1>8. /\ IsFiniteSet(active \union late) /\ IsFiniteSet(active \intersect late)
      /\ Cardinality(active \union late)
           = Cardinality(active) + Cardinality(late) - Cardinality(active \intersect late)
  BY <1>5, <1>7, FS_Union, FS_Intersection
<1>9. /\ Cardinality(active) \in Nat /\ Cardinality(late) \in Nat /\ Cardinality(writing) \in Nat
      /\ Cardinality(active \intersect late) \in Nat
  BY <1>1, <1>5, <1>7, <1>8, FS_CardinalityType
<1>10. Cardinality(active \union late) <= Cardinality(active) + Cardinality(writing)
  BY <1>5, <1>8, <1>9
<1> QED
  BY <1>6, <1>8, <1>10 DEF active, writing

\* Disjoint sets of handlers have no more members together than there are handlers.
LEMMA DisjointHandlers ==
    ASSUME NEW S \in SUBSET Call, NEW T \in SUBSET Call, S \intersect T = {}
    PROVE  /\ Cardinality(S) + Cardinality(T) <= Cardinality(Call)
           /\ Cardinality(S) \in Nat /\ Cardinality(T) \in Nat /\ Cardinality(Call) \in Nat
<1>1. IsFiniteSet(S) /\ IsFiniteSet(T) /\ IsFiniteSet(Call)
  BY FS_Subset, CallAssumption
<1>2. /\ IsFiniteSet(S \union T)
      /\ Cardinality(S \union T) = Cardinality(S) + Cardinality(T) - Cardinality(S \intersect T)
  BY <1>1, FS_Union
<1>3. Cardinality(S \intersect T) = 0
  BY FS_EmptySet
<1>4. Cardinality(S \union T) <= Cardinality(Call)
  <2>1. S \union T \in SUBSET Call
    OBVIOUS
  <2> QED
    BY <1>1, <2>1, FS_Subset
<1>5. /\ Cardinality(S) \in Nat /\ Cardinality(T) \in Nat /\ Cardinality(Call) \in Nat
      /\ Cardinality(S \union T) \in Nat
  BY <1>1, <1>2, FS_CardinalityType
<1> QED
  BY <1>2, <1>3, <1>4, <1>5

LEMMA CreateCountBounded ==
    ASSUME OInv, NEW c \in Call, NEW n \in Member, CreateCount(c, n)
    PROVE  OutgoingBounded' /\ LiveBounded'
<1> DEFINE k == [Idle EXCEPT !.pc = "create", !.caller = n]
<1>1. k.pc = "create" /\ k.caller = n /\ calls' = [calls EXCEPT ![c] = k] /\ db' = db
  BY DEF CreateCount, Idle
<1>2. IInv /\ OutgoingBounded /\ LiveBounded
  BY DEF OInv
<1> HIDE DEF k
<1>3. OutgoingBounded'
  BY <1>1, <1>2, OutgoingKept
<1>4. LiveBounded'
  <2> SUFFICES ASSUME NEW m \in Member
               PROVE  Bounded(Live(db', calls', m), Creating(calls', m), ActiveListingLimit)
    BY DEF LiveBounded
  <2>1. Bounded(Live(db, calls, m), Creating(calls, m), ActiveListingLimit)
    BY <1>2 DEF LiveBounded
  <2>2. \A d \in Call : calls'[d] = IF d = c THEN k ELSE calls[d]
    BY <1>1, <1>2, OneHandler
  <2>3. CASE m # n
    <3>1. /\ Live(db', calls', m) \subseteq Live(db, calls, m)
          /\ Creating(calls', m) \subseteq Creating(calls, m) /\ Creating(calls, m) \subseteq Call
      BY <1>1, <2>2, <2>3 DEF Live, Creating, Writing
    <3> QED
      BY <2>1, <3>1, BoundedLess, LimitAssumption
  <2>4. CASE m = n
    <3> DEFINE active == {l \in Listing : db[l].owner = m /\ db[l].status \in Active}
               writing == {d \in Call : calls'[d].pc \in Writing}
               live == Live(db, calls', m)
               creating == Creating(calls', m)
    <3>1. active = ActiveListings(n)
      BY <2>4 DEF ActiveListings, Active
    <3>2. IsFiniteSet(active)
      <4>1. active \in SUBSET Live(db, calls, m)
        BY DEF Live
      <4> HIDE DEF active
      <4> QED
        BY <2>1, <4>1, FS_Subset DEF Bounded
    <3>3. IsFiniteSet(live) /\ Cardinality(live) <= Cardinality(active) + Cardinality(writing)
      BY <1>2, <3>2, LiveByHandlers
    <3>4. writing \in SUBSET Call /\ creating \in SUBSET Call /\ writing \intersect creating = {}
      BY DEF Creating, Writing
    <3>5. Cardinality(active) < ActiveListingLimit
      BY <3>1 DEF CreateCount
    <3>6. live = Live(db', calls', m)
      BY <1>1
    <3> HIDE DEF active, writing, live, creating
    <3>7. /\ Cardinality(writing) + Cardinality(creating) <= Cardinality(Call)
          /\ Cardinality(writing) \in Nat /\ Cardinality(creating) \in Nat /\ Cardinality(Call) \in Nat
      BY <3>4, DisjointHandlers
    <3>8. Cardinality(active) \in Nat /\ Cardinality(live) \in Nat
      BY <3>2, <3>3, FS_CardinalityType
    <3>9. Bounded(live, creating, ActiveListingLimit)
      BY <3>3, <3>5, <3>7, <3>8, LimitAssumption DEF Bounded
    <3> QED
      BY <3>6, <3>9 DEF creating
  <2> QED
    BY <2>3, <2>4
<1> QED
  BY <1>3, <1>4

LEMMA CreateSaveBounded ==
    ASSUME OInv, NEW c \in Call, CreateSave(c)
    PROVE  OutgoingBounded' /\ LiveBounded'
<1>1. IInv /\ OutgoingBounded /\ LiveBounded /\ calls[c].pc = "create" /\ calls[c].caller \in Member
  BY DEF OInv, CreateSave, IInv, Checks, ChecksOf
<1>2. PICK n \in Member, x \in Listing :
         n = calls[c].caller /\ db[x].status = "absent" /\ db' = [db EXCEPT ![x] = NewRow(n)]
  BY <1>1 DEF CreateSave
<1>3. NewRow(n).owner = n /\ NewRow(n).status = "open" /\ NewRow(n).requests = {}
  BY DEF NewRow, NoRow
<1>4. \A l \in Listing : db'[l] = IF l = x THEN NewRow(n) ELSE db[l]
  BY <1>1, <1>2 DEF IInv, TypeOK
<1>5. calls' = [calls EXCEPT ![c] = Idle] /\ Idle.pc = "idle"
  BY DEF CreateSave, Finish, Idle
<1>6. OutgoingBounded'
  BY <1>1, <1>3, <1>4, <1>5, OutgoingKept
<1>7. LiveBounded'
  <2> SUFFICES ASSUME NEW m \in Member
               PROVE  Bounded(Live(db', calls', m), Creating(calls', m), ActiveListingLimit)
    BY DEF LiveBounded
  <2>1. Bounded(Live(db, calls, m), Creating(calls, m), ActiveListingLimit)
    BY <1>1 DEF LiveBounded
  <2>2. \A d \in Call : calls'[d] = IF d = c THEN Idle ELSE calls[d]
    BY <1>1, <1>5, OneHandler
  <2>3. Creating(calls, m) \subseteq Call
    BY DEF Creating
  <2>4. CASE m # n
    <3>1. /\ Live(db', calls', m) \subseteq Live(db, calls, m)
          /\ Creating(calls', m) \subseteq Creating(calls, m)
      BY <1>3, <1>4, <1>5, <2>2, <2>4 DEF Live, Creating, Writing
    <3> QED
      BY <2>1, <2>3, <3>1, BoundedLess, LimitAssumption
  <2>5. CASE m = n
    <3>1. Live(db', calls', m) \subseteq Live(db, calls, m) \union {x}
      BY <1>3, <1>4, <1>5, <2>2 DEF Live, Writing
    <3>2. Creating(calls', m) \subseteq Creating(calls, m) \ {c} /\ c \in Creating(calls, m)
      BY <1>1, <1>2, <1>5, <2>2, <2>5 DEF Creating
    <3> QED
      BY <2>1, <2>3, <3>1, <3>2, BoundedMoves, LimitAssumption
  <2> QED
    BY <2>4, <2>5
<1> QED
  BY <1>6, <1>7

LEMMA LoadBounded ==
    ASSUME OInv, NEW c \in Call, NEW m \in Member, NEW l \in Listing, NEW t, NEW to,
           NEW pc \in {"count", "release", "resolve"}, db[l].status \in Active,
           calls' = [calls EXCEPT ![c] = Loaded(pc, m, l, t, to)], UNCHANGED db
    PROVE  OutgoingBounded' /\ LiveBounded'
<1> DEFINE k == Loaded(pc, m, l, t, to)
<1>1. k.pc = pc /\ k.listing = l
  BY DEF Loaded
<1> HIDE DEF k
<1>2. k.pc \in Writing => k.listing \in Listing /\ db[k.listing].status \in Active
  BY <1>1
<1>3. calls' = [calls EXCEPT ![c] = k] /\ k.pc \notin {"create", "ask"}
  BY <1>1 DEF k
<1>4. \A x \in Listing : /\ db'[x].owner = db[x].owner
                         /\ db'[x].status = db[x].status
                         /\ db'[x].requests = db[x].requests
  OBVIOUS
<1> QED
  BY <1>2, <1>3, <1>4, BothKept

LEMMA RequestCountBounded ==
    ASSUME OInv, NEW c \in Call, RequestCount(c)
    PROVE  OutgoingBounded' /\ LiveBounded'
<1>1. IInv /\ OutgoingBounded /\ LiveBounded /\ calls[c].pc = "count" /\ db' = db
  BY DEF OInv, RequestCount
<1>2. CASE Finish(c)
  BY <1>1, <1>2, EndKeeps
<1>3. CASE /\ Cardinality(OutgoingRequests(calls[c].caller)) < ActiveRequestLimit
           /\ calls' = [calls EXCEPT ![c].pc = "ask"]
  <2> DEFINE k == [calls[c] EXCEPT !.pc = "ask"]
  <2>1. calls[c] \in Handler /\ calls[c].listing \in Listing
    BY <1>1, SuspendedFacts DEF Suspended
  <2>2. /\ k.pc = "ask" /\ k.caller = calls[c].caller /\ k.listing = calls[c].listing
    BY <2>1 DEF Handler
  <2>3. calls' = [calls EXCEPT ![c] = k]
    BY <1>1, <1>3 DEF IInv, TypeOK
  <2> HIDE DEF k
  <2>4. LiveBounded'
    <3>1. /\ k.pc # "create" /\ k.listing \in Listing
          /\ calls[c].pc \in Writing /\ calls[c].listing = k.listing
      BY <1>1, <2>1, <2>2 DEF Writing
    <3> QED
      BY <1>1, <2>3, <3>1, LiveKept
  <2>5. OutgoingBounded'
    <3> SUFFICES ASSUME NEW m \in Member
                 PROVE  Bounded(Outgoing(db', m), Asking(calls', m), ActiveRequestLimit)
      BY DEF OutgoingBounded
    <3>1. Bounded(Outgoing(db, m), Asking(calls, m), ActiveRequestLimit)
      BY <1>1 DEF OutgoingBounded
    <3>2. \A d \in Call : calls'[d] = IF d = c THEN k ELSE calls[d]
      BY <1>1, <2>3, OneHandler
    <3>3. Outgoing(db', m) = Outgoing(db, m) /\ Asking(calls', m) \subseteq Call
      BY <1>1 DEF Outgoing, Asking
    <3>4. CASE m # calls[c].caller
      <4>1. Asking(calls', m) \subseteq Asking(calls, m) /\ Asking(calls, m) \subseteq Call
        BY <2>2, <3>2, <3>4 DEF Asking
      <4> QED
        BY <3>1, <3>3, <4>1, BoundedLess, LimitAssumption
    <3>5. CASE m = calls[c].caller
      <4>1. Outgoing(db, m) = OutgoingRequests(calls[c].caller)
        BY <3>5 DEF Outgoing, OutgoingRequests
      <4>2. IsFiniteSet(Outgoing(db, m)) /\ Cardinality(Outgoing(db, m)) < ActiveRequestLimit
        BY <1>3, <3>1, <4>1 DEF Bounded
      <4> QED
        BY <3>3, <4>2, BoundedAnew, LimitAssumption
    <3> QED
      BY <3>4, <3>5
  <2> QED
    BY <2>4, <2>5
<1> QED
  BY <1>2, <1>3 DEF RequestCount

\* requestTrade's save adds the caller's own request, and no other: a listing that it makes
\* active again had none.
LEMMA RequestSaveBounded ==
    ASSUME OInv, NEW c \in Call, RequestSave(c)
    PROVE  OutgoingBounded' /\ LiveBounded'
<1>1. IInv /\ OutgoingBounded /\ LiveBounded /\ calls[c].pc = "ask" /\ Finish(c)
  BY DEF OInv, RequestSave
<1>2. CASE UNCHANGED db
  BY <1>1, <1>2, EndKeeps
<1>3. CASE /\ SameVersion(c)
           /\ db' = [db EXCEPT ![calls[c].listing] = AskedRow(@, calls[c].snap, calls[c].caller)]
  <2>1. PICK x \in Listing, n \in Member, snap \in Row :
           /\ x = calls[c].listing /\ n = calls[c].caller /\ snap = calls[c].snap
           /\ db[x] \in Row /\ Pending(snap) = snap.requests
           /\ snap.v = db[x].v /\ snap.requests = db[x].requests /\ snap.v < MaxVersion
           /\ snap.status = "open" => snap.requests = {}
           /\ snap.status \in {"open", "requested"}
    BY <1>1, <1>3, SuspendedFacts DEF Suspended, SameVersion, SnapshotOf, ChecksOf
  <2>2. PICK r : /\ db' = [db EXCEPT ![x] = r] /\ r.owner = db[x].owner
                 /\ r.requests = snap.requests \union {n}
                 /\ r.status = IF snap.status = "requested" THEN db[x].status ELSE "requested"
    <3>1. PICK r : /\ r = AskedRow(db[x], snap, n) /\ r.owner = db[x].owner
                   /\ r.requests = snap.requests \union {n}
                   /\ r.status = IF snap.status = "requested" THEN db[x].status ELSE "requested"
      BY <2>1, AskedRowFacts
    <3>2. db' = [db EXCEPT ![x] = r]
      BY <1>3, <2>1, <3>1
    <3> QED
      BY <3>1, <3>2
  <2>3. \A l \in Listing : db'[l] = IF l = x THEN r ELSE db[l]
    BY <1>1, <2>2 DEF IInv, TypeOK
  <2>4. calls' = [calls EXCEPT ![c] = Idle] /\ Idle.pc = "idle"
    BY <1>1 DEF Finish, Idle
  <2>5. LiveBounded'
    <3>1. calls[c].pc \in Writing /\ calls[c].listing = x /\ Idle.pc \notin Writing
      BY <1>1, <2>1, <2>4 DEF Writing
    <3>2. \A l \in Listing :
             /\ db'[l].owner = db[l].owner
             /\ db'[l].status \in Active =>
                   \/ db[l].status \in Active
                   \/ \E d \in Call : calls[d].pc \in Writing /\ calls[d].listing = l
      BY <2>2, <2>3, <3>1
    <3> QED
      BY <1>1, <2>4, <3>1, <3>2, LiveKept
  <2>6. OutgoingBounded'
    <3> SUFFICES ASSUME NEW m \in Member
                 PROVE  Bounded(Outgoing(db', m), Asking(calls', m), ActiveRequestLimit)
      BY DEF OutgoingBounded
    <3>1. Bounded(Outgoing(db, m), Asking(calls, m), ActiveRequestLimit)
      BY <1>1 DEF OutgoingBounded
    <3>2. \A d \in Call : calls'[d] = IF d = c THEN Idle ELSE calls[d]
      BY <1>1, <2>4, OneHandler
    <3>3. Asking(calls, m) \subseteq Call
      BY DEF Asking
    <3>4. CASE m # n
      <4>1. Outgoing(db', m) \subseteq Outgoing(db, m)
        BY <2>1, <2>2, <2>3, <3>4 DEF Outgoing
      <4>2. Asking(calls', m) \subseteq Asking(calls, m)
        BY <2>4, <3>2 DEF Asking
      <4> QED
        BY <3>1, <3>3, <4>1, <4>2, BoundedLess, LimitAssumption
    <3>5. CASE m = n
      <4>1. Outgoing(db', m) \subseteq Outgoing(db, m) \union {x}
        BY <2>3 DEF Outgoing
      <4>2. Asking(calls', m) \subseteq Asking(calls, m) \ {c} /\ c \in Asking(calls, m)
        BY <1>1, <2>1, <2>4, <3>2, <3>5 DEF Asking
      <4> QED
        BY <3>1, <3>3, <4>1, <4>2, BoundedMoves, LimitAssumption
    <3> QED
      BY <3>4, <3>5
  <2> QED
    BY <2>5, <2>6
<1> QED
  BY <1>2, <1>3 DEF RequestSave

LEMMA ReleaseSaveBounded ==
    ASSUME OInv, NEW c \in Call, ReleaseSave(c)
    PROVE  OutgoingBounded' /\ LiveBounded'
<1>1. IInv /\ OutgoingBounded /\ LiveBounded /\ calls[c].pc = "release" /\ Finish(c)
  BY DEF OInv, ReleaseSave
<1>2. CASE UNCHANGED db
  BY <1>1, <1>2, EndKeeps
<1>3. CASE /\ SameVersion(c)
           /\ db' = [db EXCEPT ![calls[c].listing] = ReleasedRow(@, calls[c].snap, calls[c].target)]
  <2>1. PICK x \in Listing, t \in Member, snap \in Row :
           /\ x = calls[c].listing /\ t = calls[c].target /\ snap = calls[c].snap
           /\ db[x] \in Row /\ Pending(snap) = snap.requests
           /\ snap.v = db[x].v /\ snap.requests = db[x].requests /\ snap.v < MaxVersion
    <3>1. /\ calls[c].listing \in Listing /\ calls[c].snap \in Row /\ db[calls[c].listing] \in Row
          /\ Pending(calls[c].snap) = calls[c].snap.requests
          /\ SnapshotOf(calls[c]) /\ ChecksOf(calls[c])
      BY <1>1, SuspendedFacts DEF Suspended
    <3>2. calls[c].target \in Member
      BY <1>1, <3>1 DEF ChecksOf, Row
    <3> QED
      BY <1>1, <1>3, <3>1, <3>2 DEF SameVersion, SnapshotOf, ChecksOf
  <2>2. PICK r : /\ db' = [db EXCEPT ![x] = r] /\ r.owner = db[x].owner
                 /\ r.requests = snap.requests \ {t}
                 /\ r.status = IF snap.requests \ {t} = {} THEN "open" ELSE db[x].status
    <3>1. PICK r : /\ r = ReleasedRow(db[x], snap, t) /\ r.owner = db[x].owner
                   /\ r.requests = snap.requests \ {t}
                   /\ r.status = IF snap.requests \ {t} = {} THEN "open" ELSE db[x].status
      BY <2>1, ReleasedRowFacts
    <3>2. db' = [db EXCEPT ![x] = r]
      BY <1>3, <2>1, <3>1
    <3> QED
      BY <3>1, <3>2
  <2>3. \A l \in Listing : db'[l] = IF l = x THEN r ELSE db[l]
    BY <1>1, <2>2 DEF IInv, TypeOK
  <2>4. calls' = [calls EXCEPT ![c] = Idle] /\ Idle.pc = "idle"
    BY <1>1 DEF Finish, Idle
  <2>5. LiveBounded'
    <3>1. calls[c].pc \in Writing /\ calls[c].listing = x /\ Idle.pc \notin Writing
      BY <1>1, <2>1, <2>4 DEF Writing
    <3>2. \A l \in Listing :
             /\ db'[l].owner = db[l].owner
             /\ db'[l].status \in Active =>
                   \/ db[l].status \in Active
                   \/ \E d \in Call : calls[d].pc \in Writing /\ calls[d].listing = l
      BY <2>2, <2>3, <3>1
    <3> QED
      BY <1>1, <2>4, <3>1, <3>2, LiveKept
  <2>6. OutgoingBounded'
    <3>1. \A l \in Listing, m \in Member :
             db'[l].status = "requested" /\ m \in db'[l].requests
                => db[l].status = "requested" /\ m \in db[l].requests
      BY <2>1, <2>2, <2>3
    <3> QED
      BY <1>1, <2>4, <3>1, OutgoingKept
  <2> QED
    BY <2>5, <2>6
<1> QED
  BY <1>2, <1>3 DEF ReleaseSave

\* The end of a trade makes a listing less active, and asks for nothing.
LEMMA ResolveBounded ==
    ASSUME OInv, NEW c \in Call, Resolve(c)
    PROVE  OutgoingBounded' /\ LiveBounded'
<1>1. IInv /\ OutgoingBounded /\ LiveBounded
  BY DEF OInv
<1>2. ASSUME NEW m \in Member, NEW l \in Listing, NEW to \in Ended, NEW t \in MemberOrNone,
             ResolveLoad(c, m, l, to, t)
      PROVE  OutgoingBounded' /\ LiveBounded'
  BY <1>2, LoadBounded DEF ResolveLoad, Active
<1>3. CASE ResolveSave(c)
  <2>1. calls[c].pc = "resolve" /\ calls[c] \in Handler
    BY <1>1, <1>3 DEF ResolveSave, IInv, TypeOK
  <2>2. PICK x \in Listing, snap \in Row, to \in Ended, t \in MemberOrNone :
           /\ x = calls[c].listing /\ snap = calls[c].snap /\ to = calls[c].to
           /\ t = calls[c].target /\ db[x] \in Row
    <3>1. /\ calls[c].listing \in Listing /\ calls[c].snap \in Row /\ db[calls[c].listing] \in Row
          /\ ChecksOf(calls[c])
      BY <1>1, <2>1, SuspendedFacts DEF Suspended
    <3>2. calls[c].to \in Ended /\ calls[c].target \in MemberOrNone
      BY <2>1, <3>1 DEF ChecksOf, Handler
    <3> QED
      BY <3>1, <3>2
  <2>3. PICK r : /\ db' = [db EXCEPT ![x] = r] /\ r.owner = db[x].owner
                 /\ r.status = to
    <3>1. PICK r : /\ r = ResolvedRow(db[x], snap, to, t) /\ r.owner = db[x].owner
                   /\ r.status = to
      <4>1. /\ ResolvedRow(db[x], snap, to, t).owner = db[x].owner
            /\ ResolvedRow(db[x], snap, to, t).status = to
        <5>1. db[x] \in Row
          BY <2>2
        <5> QED
          BY <5>1, ResolvedRowFacts
      <4> QED
        BY <4>1
    <3>2. db' = [db EXCEPT ![x] = r]
      BY <1>3, <2>2, <3>1 DEF ResolveSave
    <3> QED
      BY <3>1, <3>2
  <2>4. \A l \in Listing : db'[l] = IF l = x THEN r ELSE db[l]
    BY <1>1, <2>3 DEF IInv, TypeOK
  <2>5. PICK k : calls' = [calls EXCEPT ![c] = k] /\ k.pc \in {"idle", "claim"}
    <3>1. CASE Finish(c)
      <4>1. calls' = [calls EXCEPT ![c] = Idle] /\ Idle.pc = "idle"
        BY <3>1 DEF Finish, Idle
      <4> QED
        BY <4>1
    <3>2. CASE calls' = [calls EXCEPT ![c].pc = "claim"]
      <4> DEFINE k == [calls[c] EXCEPT !.pc = "claim"]
      <4>1. k.pc = "claim"
        BY <2>1 DEF Handler
      <4>2. calls' = [calls EXCEPT ![c] = k]
        BY <1>1, <3>2 DEF IInv, TypeOK
      <4> HIDE DEF k
      <4> QED
        BY <4>1, <4>2
    <3> QED
      BY <1>3, <3>1, <3>2 DEF ResolveSave
  <2>6. k.pc \notin Writing /\ k.pc # "ask" /\ k.pc # "create"
    BY <2>5 DEF Writing
  <2>7. \A l \in Listing :
           /\ db'[l].owner = db[l].owner
           /\ db'[l].status \in Active => db[l].status \in Active
    BY <2>3, <2>4 DEF Ended, Active
  <2>8. \A l \in Listing, m \in Member :
           db'[l].status = "requested" /\ m \in db'[l].requests
              => db[l].status = "requested" /\ m \in db[l].requests
    BY <2>3, <2>4 DEF Ended
  <2>9. LiveBounded'
    BY <1>1, <2>5, <2>6, <2>7, LiveKept
  <2>10. OutgoingBounded'
    BY <1>1, <2>5, <2>6, <2>8, OutgoingKept
  <2> QED
    BY <2>9, <2>10
<1>4. CASE Claim(c)
  <2>1. calls[c].pc = "claim" /\ calls[c] \in Handler
    BY <1>1, <1>4 DEF Claim, IInv, TypeOK
  <2>2. CASE Finish(c) /\ UNCHANGED db
    BY <2>2, EndKeeps
  <2>3. CASE /\ db' = [db EXCEPT ![calls[c].listing].awarded = TRUE]
             /\ calls' = [calls EXCEPT ![c].pc = "pay",
                                       ![c].due = {calls[c].snap.owner, calls[c].target}]
    <3> DEFINE k == [calls[c] EXCEPT !.pc = "pay", !.due = {calls[c].snap.owner, calls[c].target}]
    <3>1. k.pc = "pay"
      BY <2>1 DEF Handler
    <3>2. calls' = [calls EXCEPT ![c] = k]
      BY <1>1, <2>3 DEF IInv, TypeOK
    <3> HIDE DEF k
    <3>3. PICK x \in Listing : x = calls[c].listing /\ db[x] \in Row
      BY <1>1, <2>1, SuspendedFacts DEF Suspended
    <3>4. PICK r : /\ db' = [db EXCEPT ![x] = r] /\ r.owner = db[x].owner
                   /\ r.status = db[x].status /\ r.requests = db[x].requests
      <4> DEFINE r == [db[x] EXCEPT !.awarded = TRUE]
      <4>1. r.owner = db[x].owner /\ r.status = db[x].status /\ r.requests = db[x].requests
        BY <3>3 DEF Row
      <4>2. db' = [db EXCEPT ![x] = r]
        BY <2>3, <3>3
      <4> HIDE DEF r
      <4> QED
        BY <4>1, <4>2
    <3>5. \A l \in Listing : db'[l] = IF l = x THEN r ELSE db[l]
      BY <1>1, <3>4 DEF IInv, TypeOK
    <3>6. \A l \in Listing : /\ db'[l].owner = db[l].owner
                             /\ db'[l].status = db[l].status
                             /\ db'[l].requests = db[l].requests
      BY <3>4, <3>5
    <3>7. k.pc \notin {"create", "ask"} /\ k.pc \notin Writing
      BY <3>1 DEF Writing
    <3> QED
      BY <3>2, <3>6, <3>7, BothKept
  <2> QED
    BY <1>4, <2>2, <2>3 DEF Claim
<1>5. ASSUME NEW m \in Member, Pay(c, m) PROVE OutgoingBounded' /\ LiveBounded'
  <2>1. calls[c].pc = "pay" /\ calls[c] \in Handler /\ UNCHANGED db
    BY <1>1, <1>5 DEF Pay, IInv, TypeOK
  <2>2. CASE Finish(c)
    BY <2>1, <2>2, EndKeeps
  <2>3. CASE calls' = [calls EXCEPT ![c].due = @ \ {m}]
    <3> DEFINE k == [calls[c] EXCEPT !.due = @ \ {m}]
    <3>1. k.pc = "pay"
      BY <2>1 DEF Handler
    <3>2. calls' = [calls EXCEPT ![c] = k]
      BY <1>1, <2>3 DEF IInv, TypeOK
    <3> HIDE DEF k
    <3>3. k.pc \notin {"create", "ask"} /\ k.pc \notin Writing
      BY <3>1 DEF Writing
    <3>4. \A l \in Listing : /\ db'[l].owner = db[l].owner
                             /\ db'[l].status = db[l].status
                             /\ db'[l].requests = db[l].requests
      BY <2>1
    <3> QED
      BY <3>2, <3>3, <3>4, BothKept
  <2> QED
    BY <1>5, <2>2, <2>3 DEF Pay
<1> QED
  BY <1>2, <1>3, <1>4, <1>5 DEF Resolve

\* There are no listings and no handlers at first.
LEMMA InitOInv == Init => OInv
<1> SUFFICES ASSUME Init PROVE OInv
  OBVIOUS
<1>1. /\ \A c \in Call : calls[c].pc = "idle"
      /\ \A l \in Listing : db[l].status = "absent"
  BY DEF Init, Idle, NoRow
<1>2. \A m \in Member : /\ Outgoing(db, m) = {} /\ Asking(calls, m) = {}
                        /\ Live(db, calls, m) = {} /\ Creating(calls, m) = {}
  BY <1>1 DEF Outgoing, Asking, Live, Creating, Active, Writing
<1>3. \A limit \in Nat : Bounded({}, {}, limit)
  <2>1. Cardinality(Call) \in Nat /\ Cardinality(Call) # 0
    BY CallAssumption, FS_CardinalityType, FS_EmptySet
  <2> QED
    BY <2>1, FS_EmptySet DEF Bounded
<1> QED
  BY <1>2, <1>3, InitIInv, LimitAssumption DEF OInv, OutgoingBounded, LiveBounded

LEMMA NextOInv == OInv /\ [Next]_vars => OInv'
<1> SUFFICES ASSUME OInv, [Next]_vars PROVE OInv'
  OBVIOUS
<1>1. IInv'
  BY NextIInv DEF OInv
<1>2. CASE UNCHANGED vars
  BY <1>1, <1>2 DEF vars, OInv, OutgoingBounded, LiveBounded
<1>3. ASSUME NEW c \in Call, Create(c) PROVE OutgoingBounded' /\ LiveBounded'
  BY <1>3, CreateCountBounded, CreateSaveBounded DEF Create
<1>4. ASSUME NEW c \in Call, Request(c) PROVE OutgoingBounded' /\ LiveBounded'
  <2>1. ASSUME NEW m \in Member, NEW l \in Listing, RequestLoad(c, m, l)
        PROVE  OutgoingBounded' /\ LiveBounded'
    BY <2>1, LoadBounded DEF RequestLoad, Active
  <2> QED
    BY <1>4, <2>1, RequestCountBounded, RequestSaveBounded DEF Request
<1>5. ASSUME NEW c \in Call, Release(c) PROVE OutgoingBounded' /\ LiveBounded'
  <2>1. ASSUME NEW m \in Member, NEW t \in Member, NEW l \in Listing, ReleaseLoad(c, m, l, t)
        PROVE  OutgoingBounded' /\ LiveBounded'
    BY <2>1, LoadBounded DEF ReleaseLoad, Active
  <2> QED
    BY <1>5, <2>1, ReleaseSaveBounded DEF Release
<1>6. ASSUME NEW c \in Call, Resolve(c) PROVE OutgoingBounded' /\ LiveBounded'
  BY <1>6, ResolveBounded
<1>7. ASSUME NEW c \in Call, Abort(c) PROVE OutgoingBounded' /\ LiveBounded'
  BY <1>7, EndKeeps DEF Abort
<1> QED
  BY <1>1, <1>2, <1>3, <1>4, <1>5, <1>6, <1>7 DEF Next, OInv

LEMMA InductiveO == Spec => []OInv
  BY InitOInv, NextOInv, PTL DEF Spec

\* However many handlers overlap, a member has no more requests open than the limit that
\* requestTrade counts and one for each other handler.
THEOREM OutgoingCorrect == Spec => []OutgoingWithinOverlap
<1>1. OInv => OutgoingWithinOverlap
  BY DEF OInv, OutgoingBounded, Bounded, Outgoing, Asking, OutgoingWithinOverlap, OutgoingRequests
<1> QED
  BY <1>1, InductiveO, PTL

\* However many handlers overlap, a member has no more listings active than the limit that
\* createListing counts and one for each other handler, counting those that a late save of
\* requestTrade or releaseRequest brought back.
THEOREM ListingsCorrect == Spec => []ListingsWithinOverlap
<1>1. ASSUME OInv, NEW m \in Member
      PROVE  Cardinality(ActiveListings(m)) + Cardinality(Creating(calls, m))
                <= ActiveListingLimit + Cardinality(Call) - 1
  <2>1. ActiveListings(m) \subseteq Live(db, calls, m) /\ Creating(calls, m) \subseteq Creating(calls, m)
    BY DEF ActiveListings, Live, Active
  <2>2. Bounded(Live(db, calls, m), Creating(calls, m), ActiveListingLimit)
    BY <1>1 DEF OInv, LiveBounded
  <2>3. Creating(calls, m) \subseteq Call
    BY DEF Creating
  <2>4. Bounded(ActiveListings(m), Creating(calls, m), ActiveListingLimit)
    BY <2>1, <2>2, <2>3, BoundedLess, LimitAssumption
  <2> QED
    BY <2>4 DEF Bounded
<1>2. OInv => ListingsWithinOverlap
  BY <1>1 DEF ListingsWithinOverlap, Creating
<1> QED
  BY <1>2, InductiveO, PTL
=============================================================================
