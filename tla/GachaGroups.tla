------------------------------ MODULE GachaGroups ------------------------------
(***************************************************************************)
(* The boxes of chance: how they are folded from the tables of the game    *)
(* (scripts/import-gacha.ts) and looked up (gacha.service.ts).  A group    *)
(* whose memo is that of another one with "bonus" behind it becomes that   *)
(* one's bonus; a pool numbered 102xxx becomes the pickup of 101xxx.  The  *)
(* exceptions for two events, which give a box another name, are left out. *)
(***************************************************************************)
EXTENDS Integers, FiniteSetsExt, SequencesExt

CONSTANTS
    Extract,      \* [table]: rows [id, group, item, rate, memo], a memo being [text, bonus]
    Ranked, Monthly,   \* the texts that name a ranking or a month
    Cut(_), MaxRefills

VARIABLES
    rows, filling, whole, refills   \* as in Refill

-----------------------------------------------------------------------------
\* readGroups: the groups in the order of their first row
GroupIds(x) == {x[n].group : n \in DOMAIN x}
FirstRow(x, g) == Min({n \in DOMAIN x : x[n].group = g})
Entries(x, g) == SelectSeq(x, LAMBDA r : r.group = g)
FirstId(x, g) == Min({x[n].id : n \in {k \in DOMAIN x : x[k].group = g}})
NoMemo == [text |-> "", bonus |-> FALSE]
MemoOf(x, g) ==
    LET written == SelectSeq(Entries(x, g), LAMBDA r : r.memo # NoMemo)
    IN  IF written = << >> THEN NoMemo ELSE written[1].memo

\* The first group of the table that bears the memo a bonus belongs to
Parents(x, g) ==
    LET of == {p \in GroupIds(x) : /\ MemoOf(x, g).bonus
                                   /\ MemoOf(x, p) = [text |-> MemoOf(x, g).text, bonus |-> FALSE]}
    IN  {p \in of : \A q \in of : FirstRow(x, p) <= FirstRow(x, q)}

IsPool(g) == g >= 102000 /\ g < 103000
Mains(x) == {g \in GroupIds(x) : Parents(x, g) = {} /\ ~ IsPool(g)}

\* Of several bonus groups of one box, the last stays.
BonusOf(x, g) ==
    LET all == {b \in GroupIds(x) : g \in Parents(x, b)}
    IN  {b \in all : \A c \in all : FirstRow(x, c) <= FirstRow(x, b)}
\* A pool without parents belongs to the box a thousand below it.
PickupOf(x, g) == {p \in GroupIds(x) : IsPool(p) /\ Parents(x, p) = {} /\ p = g + 1000}

\* toItems: the chance of an entry in millionths of a percent, rounded as toFixed(6) does
Certainty == 100 * 1000000
ToFixed(n, d) == (2 * n + d) \div (2 * d)
Items(x, g) ==
    LET entries == Entries(x, g)
        total == FoldLeft(LAMBDA sum, r : sum + r.rate, 0, entries)
    IN  [n \in DOMAIN entries |->
            [name |-> entries[n].item,
             chance |-> IF total = 0 THEN 0 ELSE ToFixed(entries[n].rate * Certainty, total)]]
AllItems(x, groups) == FlattenSeq(SetToSeq({Items(x, g) : g \in groups}))

Categories == <<"monthly", "event", "pickup", "cash", "ranking">>
CategoryOf(x, g) ==
    CASE g >= 100000 /\ g < 101000 -> "cash"
      [] g >= 101000 /\ g < 103000 -> "pickup"
      [] MemoOf(x, g).text \in Ranked -> "ranking"
      [] MemoOf(x, g).text \in Monthly /\ MemoOf(x, g).text \notin Ranked -> "monthly"
      [] OTHER -> "event"

\* build
Documents(x) ==
    LET mains == SetToSeq(Mains(x))
    IN  [n \in DOMAIN mains |->
            LET g == mains[n]
            IN  [groupId |-> g, firstId |-> FirstId(x, g), category |-> CategoryOf(x, g),
                 items |-> Items(x, g), bonusItems |-> AllItems(x, BonusOf(x, g)),
                 pickupItems |-> AllItems(x, PickupOf(x, g))]]

Boxes == INSTANCE Refill WITH Docs <- LAMBDA x : Documents(x.table), Bad <- LAMBDA x : FALSE

-----------------------------------------------------------------------------
\* findAll: by category, then the newest first
Rank(c) == CHOOSE n \in DOMAIN Categories : Categories[n] = c
FindAll ==
    SortSeq(rows, LAMBDA a, b : \/ Rank(a.category) < Rank(b.category)
                                \/ a.category = b.category /\ a.firstId > b.firstId)

\* lookupItem
Named(items, name) == {n \in DOMAIN items : items[n].name = name}
Via(box, name) ==
    IF Named(box.items, name) # {}
    THEN [via |-> "item", chance |-> box.items[Min(Named(box.items, name))].chance]
    ELSE IF Named(box.pickupItems, name) # {}
    THEN [via |-> "pickup", chance |-> box.pickupItems[Min(Named(box.pickupItems, name))].chance]
    ELSE [via |-> "bonus", chance |-> -1]
LookupItem(name) ==
    [g \in {rows[n].groupId : n \in {k \in DOMAIN rows :
                \/ Named(rows[k].items, name) # {} \/ Named(rows[k].pickupItems, name) # {}
                \/ Named(rows[k].bonusItems, name) # {}}} |->
        Via(rows[CHOOSE n \in DOMAIN rows : rows[n].groupId = g], name)]

\* getMetadata
Counts == [c \in ToSet(Categories) |-> Cardinality({n \in DOMAIN rows : rows[n].category = c})]

-----------------------------------------------------------------------------
Init == Boxes!Init
Next == Boxes!Next
Spec == Init /\ [][Next]_<<rows, filling, whole, refills>>

-----------------------------------------------------------------------------
\* Properties

TypeOK == Boxes!TypeOK

\* The box that gives what a group has, if one does: a bonus that a later one replaces, or
\* whose box is folded itself, and a pool without its box are lost.
Givers(x, g) ==
    Mains(x) \intersect
        IF Parents(x, g) # {}
        THEN IF \E b \in GroupIds(x) : MemoOf(x, b) = MemoOf(x, g) /\ FirstRow(x, b) > FirstRow(x, g)
             THEN {} ELSE Parents(x, g)
        ELSE IF IsPool(g) THEN {g - 1000} ELSE {g}

\* Once the tables are folded, a name is looked up in exactly the boxes that give it; what a
\* box gives by chance adds up to certainty but for half a unit of rounding an item, which may
\* be too much as well as too little, unless it gives nothing; the list has every box once,
\* in the order of the categories, the newest first, and its counts add up.
BoxesFound ==
    whole # Boxes!None => LET table == whole.table IN
        /\ \A name \in {table[n].item : n \in DOMAIN table} :
              DOMAIN LookupItem(name) =
                  UNION {Givers(table, table[n].group) :
                            n \in {k \in DOMAIN table : table[k].item = name}}
        /\ \A n \in DOMAIN rows :
              LET items == rows[n].items
                  sum == FoldLeft(LAMBDA s, i : s + i.chance, 0, items)
              IN  sum # 0 => 2 * (sum - Certainty) \in - Len(items) .. Len(items)
        /\ Len(FindAll) = Cardinality(Mains(table))
        /\ \A n, k \in DOMAIN FindAll : n < k =>
              /\ FindAll[n].groupId # FindAll[k].groupId
              /\ Rank(FindAll[n].category) <= Rank(FindAll[k].category)
              /\ FindAll[n].category = FindAll[k].category => FindAll[n].firstId > FindAll[k].firstId
        /\ MapThenSumSet(LAMBDA c : Counts[c], ToSet(Categories)) = Len(rows)
=============================================================================
