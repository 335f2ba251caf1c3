-------------------------------- MODULE Refill --------------------------------
(***************************************************************************)
(* How scripts/import-maze.ts and scripts/import-gacha.ts fill their       *)
(* collection: all documents are made first, an extract with a bad row     *)
(* being refused there, then the collection is emptied, then the documents *)
(* go in, in their order.  Readers see what is there in between, and a     *)
(* script that stops leaves it so.                                         *)
(***************************************************************************)
EXTENDS Integers, Sequences

CONSTANTS
    Docs(_),      \* the documents that are made of an extract
    Extract,      \* the extracts that a script may be given
    Bad(_),       \* those with a row that is refused
    Cut(_),       \* how many of so many documents are in when a reader or a failure comes
    MaxRefills

VARIABLES
    rows,         \* the collection, in the order of insertion
    filling,      \* the extract of the script under way, or none
    whole,        \* the extract the collection holds the documents of, or none
    refills

refillVars == <<rows, filling, whole, refills>>

None == [none |-> TRUE]

-----------------------------------------------------------------------------
\* deleteMany
Clear(x) ==
    /\ filling = None /\ refills < MaxRefills /\ ~ Bad(x)
    /\ refills' = refills + 1
    /\ filling' = x
    /\ rows' = << >> /\ whole' = None

\* insertMany, ordered
Insert(n) ==
    /\ filling # None /\ n > Len(rows) /\ n <= Len(Docs(filling))
    /\ rows' = SubSeq(Docs(filling), 1, n)
    /\ UNCHANGED <<filling, whole, refills>>

\* The script ends; or it fails and closes its connection.
Finish ==
    /\ filling # None
    /\ whole' = IF Len(rows) = Len(Docs(filling)) THEN filling ELSE None
    /\ filling' = None
    /\ UNCHANGED <<rows, refills>>

Init == rows = << >> /\ filling = None /\ whole = None /\ refills = 0

Next ==
    \/ \E x \in Extract : Clear(x)
    \/ filling # None /\ \E n \in Cut(Len(Docs(filling))) : Insert(n)
    \/ Finish

TypeOK ==
    /\ filling \in Extract \union {None} /\ whole \in Extract \union {None}
    /\ whole # None => rows = Docs(whole)
    /\ refills \in 0 .. MaxRefills
=============================================================================
