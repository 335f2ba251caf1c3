---------------------------- MODULE RankingUpload ----------------------------
(***************************************************************************)
(* Uploads of the ranking of a class (ranking.service.ts): each row is     *)
(* written under the name of its character, one after the other, and then  *)
(* the rows of the class that are not in the upload are deleted.  Uploads  *)
(* overlap, and a character may change its class between two of them.      *)
(***************************************************************************)
EXTENDS Integers, FiniteSets

CONSTANTS
    Class, Name,
    Upload,        \* overlapping uploads
    NoClass,
    MaxUploads     \* the bound on the uploads

VARIABLES
    rows,          \* user_v3: the class of each name, NoClass if it has no row
    uploads,       \* the uploads under way
    common,        \* the names that every upload of a class held since its first
                   \* and that no other class claimed, which nobody stores
    started

rankingVars == <<rows, uploads, common, started>>

-----------------------------------------------------------------------------
Waiting == [pc |-> "waiting"]
Job == [pc : {"write", "delete"}, class : Class, names : SUBSET Name, left : SUBSET Name,
        replace : BOOLEAN]

Becomes(u, j) == uploads' = [uploads EXCEPT ![u] = j]

\* upsertRankings, after normalizeRows: an upload without rows ends at once.
Begin(u, c, names, replace) ==
    /\ uploads[u] = Waiting
    /\ started < MaxUploads
    /\ names # {}
    /\ Becomes(u, [pc |-> "write", class |-> c, names |-> names, left |-> names,
                   replace |-> replace])
    /\ started' = started + 1
    /\ common' = [d \in Class |->
                    IF d = c THEN common[d] \intersect names ELSE common[d] \ names]
    /\ UNCHANGED rows

\* One operation of the bulk write; the last one leads on.
WriteRow(u) ==
    LET j == uploads[u]
    IN  /\ j.pc = "write"
        /\ \E n \in j.left :
              /\ rows' = [rows EXCEPT ![n] = j.class]
              /\ IF j.left # {n} THEN Becomes(u, [j EXCEPT !.left = @ \ {n}])
                 ELSE IF j.replace
                      THEN Becomes(u, [j EXCEPT !.pc = "delete", !.left = {}])
                      ELSE Becomes(u, Waiting)
        /\ UNCHANGED <<common, started>>

\* A bug: the rows of other classes are deleted, too.
RemoveStaleRows(u) ==
    LET j == uploads[u]
    IN  /\ j.pc = "delete"
        /\ rows' = [n \in Name |-> IF n \notin j.names THEN NoClass ELSE rows[n]]
        /\ Becomes(u, Waiting)
        /\ UNCHANGED <<common, started>>

\* removeStaleClassRows.  Each deletion looks at its row as it is then, and deletions of
\* different rows do not depend on each other, so one step stands for all of them.
RemoveStale(u) ==
    LET j == uploads[u]
    IN  /\ j.pc = "delete"
        /\ rows' = [n \in Name |->
                      IF rows[n] = j.class /\ n \notin j.names THEN NoClass ELSE rows[n]]
        /\ Becomes(u, Waiting)
        /\ UNCHANGED <<common, started>>

\* A write fails, or the process stops: what is written stays.
Abort(u) ==
    /\ uploads[u] # Waiting
    /\ Becomes(u, Waiting)
    /\ UNCHANGED <<rows, common, started>>

\* The collection as earlier uploads left it.
Init ==
    /\ rows \in [Name -> Class \union {NoClass}]
    /\ uploads = [u \in Upload |-> Waiting]
    /\ common = [c \in Class |-> {n \in Name : rows[n] = c}]
    /\ started = 0

Next ==
    \E u \in Upload :
        \/ \E c \in Class, names \in SUBSET Name, replace \in BOOLEAN :
              Begin(u, c, names, replace)
        \/ WriteRow(u) \/ RemoveStale(u)
        \/ Abort(u)

Spec == Init /\ [][Next]_rankingVars
-----------------------------------------------------------------------------
\* Properties

TypeOK ==
    /\ rows \in [Name -> Class \union {NoClass}]
    /\ uploads \in [Upload -> Job \union {Waiting}]
    /\ common \in [Class -> SUBSET Name]
    /\ started \in 0 .. MaxUploads

\* A character that all uploads of its class name, and none of another class, is in the
\* ranking throughout, however the writes and the deletions of the uploads interleave
\* and wherever one stops.
CommonNamesKept ==
    \A c \in Class : \A n \in common[c] : rows[n] = c
=============================================================================
