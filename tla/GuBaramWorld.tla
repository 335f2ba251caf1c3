----------------------------- MODULE GuBaramWorld -----------------------------
(***************************************************************************)
(* The catalogue of the former world: monsters, items, skills and shops,   *)
(* made from the tables of the game (scripts/import-gu-baram-world.ts),    *)
(* and the services that list them.  An item carries in how many places it *)
(* is sold, and a shop the price of what it sells, so that no list needs a *)
(* join.  Tooltips, labels and pictures are left out.                      *)
(***************************************************************************)
EXTENDS Integers, Sequences, FiniteSetsExt, Functions

CONSTANTS
    Mob, Item, Skill, Shop,
    Extract,         \* the extracts that an import may be given
    TierFloors,      \* the min of each of GU_BARAM_MOB_TIERS; the max is the next one's
    MaxImports

VARIABLES
    store, import, whole, imports   \* as in CatalogImport

-----------------------------------------------------------------------------
\* Tables: job is the one an item is for, or 0; cooldown what skills share, or 0; a shop
\* sells items, one of which may be unknown, at a percentage of their price.
WellFormed(x) ==
    /\ DOMAIN x.mobs \subseteq Mob /\ \A m \in DOMAIN x.mobs : x.mobs[m] \in [hp : Nat, body : Nat]
    /\ DOMAIN x.items \subseteq Item
    /\ \A i \in DOMAIN x.items : x.items[i] \in [job : Nat, price : Nat]
    /\ DOMAIN x.skills \subseteq Skill
    /\ \A s \in DOMAIN x.skills : x.skills[s] \in [input : Nat, cooldown : Nat]
    /\ DOMAIN x.shops \subseteq Shop
    /\ \A s \in DOMAIN x.shops : x.shops[s] \in Seq([item : Item, percent : Nat])

\* buildMobs
MobDocs(x) == x.mobs

\* shopCounts: how many entries of the shops are for this item
ShopCount(x, i) ==
    Cardinality(UNION {{<<s, n>> : n \in {k \in DOMAIN x.shops[s] : x.shops[s][k].item = i}} :
                          s \in DOMAIN x.shops})

\* buildItems
ItemDocs(x) == [i \in DOMAIN x.items |->
                   [job |-> x.items[i].job, price |-> x.items[i].price,
                    shopCount |-> ShopCount(x, i)]]

\* buildSkills: three of the inputs are for the dead.
SkillDocs(x) == [s \in DOMAIN x.skills |->
                    [cooldown |-> x.skills[s].cooldown,
                     afterDeath |-> x.skills[s].input \in {8, 9, 12}]]

\* buildShops: the price is rounded, and that of an unknown item is 0.
Sum(numbers) == FoldFunction(+, 0, numbers)
Percent(price, percent) == (price * percent + 50) \div 100
ShopDocs(x) ==
    [s \in DOMAIN x.shops |->
        LET sells == x.shops[s]
            known == {n \in DOMAIN sells : sells[n].item \in DOMAIN x.items}
            prices == [n \in DOMAIN sells |->
                          IF n \in known
                          THEN Percent(x.items[sells[n].item].price, sells[n].percent) ELSE 0]
        IN  [items |-> [n \in DOMAIN sells |-> [item |-> sells[n].item, known |-> n \in known,
                                                percent |-> sells[n].percent,
                                                price |-> prices[n]]],
             itemCount |-> Len(sells),
             missingCount |-> Len(sells) - Cardinality(known),
             totalPrice |-> Sum(prices)]]

Docs(x, name) ==
    CASE name = "mob" -> MobDocs(x) [] name = "item" -> ItemDocs(x)
      [] name = "skill" -> SkillDocs(x) [] name = "shop" -> ShopDocs(x)

Import == INSTANCE CatalogImport WITH
              Order <- <<"mob", "item", "skill", "shop">>,
              Only <- {{"mob", "item", "skill", "shop"}, {"item"}}

Init == Import!Init
Next == Import!Next

mobs == store["mob"]
items == store["item"]
skills == store["skill"]
shops == store["shop"]

-----------------------------------------------------------------------------
\* The services: what they show under a filter

Tier(t) == {m \in DOMAIN mobs : /\ mobs[m].hp >= TierFloors[t]
                                /\ t < Len(TierFloors) => mobs[m].hp < TierFloors[t + 1]}
ForJob(job) == {i \in DOMAIN items : items[i].job \in {0, job}}
Sold == {i \in DOMAIN items : items[i].shopCount > 0}
Selling(i) == {s \in DOMAIN shops : \E n \in DOMAIN shops[s].items : shops[s].items[n].item = i}
Marked == {s \in DOMAIN shops : \E n \in DOMAIN shops[s].items : shops[s].items[n].percent # 100}
SameBody(m) == {k \in DOMAIN mobs \ {m} : mobs[k].body = mobs[m].body}
SharesCooldown(s) ==
    {k \in DOMAIN skills \ {s} : skills[s].cooldown # 0 /\ skills[k].cooldown = skills[s].cooldown}

ByHp == [m \in DOMAIN mobs |-> - mobs[m].hp]
ByPrice == [i \in DOMAIN items |-> - items[i].price]
ByCount == [s \in DOMAIN shops |-> - shops[s].itemCount]

-----------------------------------------------------------------------------
\* Properties

TypeOK ==
    /\ \A x \in Extract : WellFormed(x)
    /\ Import!TypeOK
    /\ DOMAIN mobs \subseteq Mob /\ DOMAIN items \subseteq Item
    /\ DOMAIN skills \subseteq Skill /\ DOMAIN shops \subseteq Shop
    /\ \A s \in DOMAIN shops : shops[s].missingCount \in 0 .. shops[s].itemCount

\* After an import that ran to its end, as far as its tables go: an item is among those
\* sold just if a shop can be found that sells it, and a shop asks what the item costs, with
\* its percentage.  A shop that asks another sum than the plain prices has a percentage.
\* At any time the tiers share out the monsters, and no page repeats or skips a row.
CatalogueAgrees ==
    /\ whole # Import!None =>
          /\ \A i \in DOMAIN whole.items :
                i \in Sold <=> Selling(i) \intersect DOMAIN whole.shops # {}
          /\ \A s \in DOMAIN whole.shops : \A n \in DOMAIN shops[s].items :
                LET entry == shops[s].items[n]
                IN  IF entry.known
                    THEN entry.price = Percent(items[entry.item].price, entry.percent)
                    ELSE entry.item \notin DOMAIN whole.items
          /\ \A s \in DOMAIN whole.shops \ Marked :
                shops[s].missingCount = 0 =>
                    shops[s].totalPrice =
                        Sum([n \in DOMAIN shops[s].items |->
                                items[shops[s].items[n].item].price])
    /\ \A m \in DOMAIN mobs : \E t \in DOMAIN TierFloors :
          \A u \in DOMAIN TierFloors : m \in Tier(u) <=> u = t
    /\ Import!ShownOnce(ByHp) /\ Import!ShownOnce(ByPrice) /\ Import!ShownOnce(ByCount)
=============================================================================
