----------------------------- MODULE OldBaramItems -----------------------------
(***************************************************************************)
(* The items of the old world: their import from a table and a directory   *)
(* of icons (scripts/import-old-baram-items.ts), and their list            *)
(* (old-baram-item.service.ts).  A number that is missing or is none is    *)
(* written as -1, which sorts first as the database sorts an absent field; *)
(* fields that are only passed on are left out.                            *)
(***************************************************************************)
EXTENDS Integers, FiniteSetsExt, Functions

CONSTANTS
    Item,
    Extract,    \* [rows, icons]: the rows by id, and the items that have an icon
    MaxImports

VARIABLES
    store, import, whole, imports   \* as in CatalogImport

-----------------------------------------------------------------------------
\* Rows: what is written in the columns, a number, "" or something else
Missing == -1
Column == {"", "0", "1", "x"}
Columns == [named : BOOLEAN, type : Column, level : Column, job : Column]

\* optionalNumber: only what is a number counts.
OptionalNumber(v) == CASE v = "0" -> 0 [] v = "1" -> 1 [] OTHER -> Missing

\* toDocument: a row without a name ends the script before it writes anything.
Refused(x) == \E id \in DOMAIN x.rows : ~ x.rows[id].named
ToDocument(x, id) ==
    [type |-> IF OptionalNumber(x.rows[id].type) = Missing THEN 0
              ELSE OptionalNumber(x.rows[id].type),
     requiredLevel |-> OptionalNumber(x.rows[id].level),
     requiredJob |-> OptionalNumber(x.rows[id].job),
     hasIcon |-> id \in x.icons]
Docs(x, name) == [id \in DOMAIN x.rows |-> ToDocument(x, id)]

Import == INSTANCE CatalogImport WITH Order <- <<"items">>, Only <- {{"items"}},
                                      Extract <- {x \in Extract : ~ Refused(x)}

items == store["items"]
Init == Import!Init
Next == Import!Next
Spec == Init /\ [][Next]_<<store, import, whole, imports>>

-----------------------------------------------------------------------------
\* findAll: a filter is a number, or Missing where none is asked for.
Found(type, job) ==
    {i \in DOMAIN items : /\ type = Missing \/ items[i].type = type
                          /\ job = Missing \/ items[i].requiredJob = job}
ByLevel(S) == [i \in S |-> items[i].requiredLevel]

\* getMetadata
Total == Cardinality(DOMAIN items)

-----------------------------------------------------------------------------
\* Properties

TypeOK ==
    /\ \A x \in Extract : DOMAIN x.rows \subseteq Item /\ Range(x.rows) \subseteq Columns
    /\ Import!TypeOK
    /\ DOMAIN items \subseteq Item
    /\ \A i \in DOMAIN items : items[i].type \in {0, 1}

\* After an import that ran to its end each item of its table has the icon that this
\* directory gives it, whatever an earlier one gave, and is found for a job just if the
\* table asks for that job in so many words.  At any time the types share out the list,
\* what no number is written for is found under none, and no page repeats or skips a row.
ItemsAsWritten ==
    /\ whole # Import!None =>
          \A id \in DOMAIN whole.rows :
              /\ items[id].hasIcon <=> id \in whole.icons
              /\ id \in Found(Missing, 0) <=> whole.rows[id].job = "0"
              /\ id \in Found(Missing, 1) <=> whole.rows[id].job = "1"
              /\ whole.rows[id].type = "1" <=> id \in Found(1, Missing)
    /\ Total = Cardinality(Found(0, Missing)) + Cardinality(Found(1, Missing))
    /\ \A i \in Found(Missing, Missing) : \A j \in Found(Missing, Missing) :
          items[i].requiredLevel = Missing /\ items[j].requiredLevel # Missing =>
              i \in Import!Ahead(ByLevel(DOMAIN items), j)
    /\ Import!ShownOnce(ByLevel(DOMAIN items))
=============================================================================
