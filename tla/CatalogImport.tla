---------------------------- MODULE CatalogImport ----------------------------
(***************************************************************************)
(* How the scripts fill the catalogues (scripts/import-old-baram-world.ts, *)
(* import-gu-baram-world.ts): documents are made from the tables of an     *)
(* extract, and each replaces the one with its id or is added, collection  *)
(* after collection.  A document whose row is gone from the tables is not  *)
(* removed, and the script may stop between any two documents.  What the   *)
(* services list is cut into pages by a sort that ends at the id.          *)
(***************************************************************************)
EXTENDS Integers, Sequences, FiniteSets, Functions

CONSTANTS
    Order,        \* the names of the collections, in the order of main
    Docs(_, _),   \* the documents that are made of an extract for a collection, by id
    Extract,      \* the extracts that a script may be given
    Only,         \* the sets of collections that a call may name (--only)
    MaxImports

VARIABLES
    store,        \* the collections: documents by id
    import,       \* the import under way: [from, left], the documents it has yet to write
    whole,        \* the extract that all collections were last written from, or none
    imports

importVars == <<store, import, whole, imports>>

None == [none |-> TRUE]
Names == Range(Order)

-----------------------------------------------------------------------------
Start(x, only) ==
    /\ import = None /\ imports < MaxImports
    /\ imports' = imports + 1
    /\ import' = [from |-> x, only |-> only,
                  left |-> [n \in Names |-> IF n \in only THEN DOMAIN Docs(x, n) ELSE {}]]
    /\ whole' = None
    /\ UNCHANGED store

\* The collections before this one are written.
Reached(n) == \A k \in DOMAIN Order : Order[k] = n => \A j \in 1 .. k - 1 : import.left[Order[j]] = {}

\* load: the documents of a batch in any order
Write(n, id) ==
    /\ import # None /\ Reached(n) /\ id \in import.left[n]
    /\ store' = [store EXCEPT ![n] = [i \in DOMAIN @ \union {id} |->
                     IF i = id THEN Docs(import.from, n)[id] ELSE @[i]]]
    /\ import' = [import EXCEPT !.left[n] = @ \ {id}]
    /\ UNCHANGED <<whole, imports>>

Finish ==
    /\ import # None /\ \A n \in Names : import.left[n] = {}
    /\ whole' = IF import.only = Names THEN import.from ELSE None
    /\ import' = None
    /\ UNCHANGED <<store, imports>>

\* The script stops, or the database fails.
Stop ==
    /\ import # None
    /\ import' = None
    /\ UNCHANGED <<store, whole, imports>>

Init ==
    /\ store = [n \in Names |-> << >>]
    /\ import = None /\ whole = None /\ imports = 0

Next ==
    \/ \E x \in Extract, only \in Only : Start(x, only)
    \/ \E n \in Names : import # None /\ \E id \in import.left[n] : Write(n, id)
    \/ Finish \/ Stop

TypeOK ==
    /\ DOMAIN store = Names
    /\ import = None \/ (import.from \in Extract /\ import.only \in Only)
    /\ whole \in Extract \union {None}
    /\ imports \in 0 .. MaxImports

-----------------------------------------------------------------------------
\* Pages.  key is what a list is sorted by; where it is equal, the database may answer in
\* any order, and in another one for the next page.

\* The rows that come before row r: those with a lower key, then those with a lower id.
Ahead(key, r) == {q \in DOMAIN key : key[q] < key[r] \/ (key[q] = key[r] /\ q < r)}

\* The pages on which r may be found
PagesOf(key, r, limit) ==
    LET behind == {q \in DOMAIN key : r \in Ahead(key, q)}
        places == Cardinality(Ahead(key, r)) .. Cardinality(DOMAIN key \ {r}) - Cardinality(behind)
    IN  {(n \div limit) + 1 : n \in places}

TotalPages(key, limit) ==
    IF DOMAIN key = {} THEN 1 ELSE (Cardinality(DOMAIN key) + limit - 1) \div limit

\* Whoever turns all pages while no import runs comes to every row exactly once.
ShownOnce(key) ==
    \A limit \in 1 .. Cardinality(DOMAIN key) : \A r \in DOMAIN key :
        \E p \in 1 .. TotalPages(key, limit) : PagesOf(key, r, limit) = {p}
=============================================================================
