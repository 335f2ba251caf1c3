---------------------------- MODULE OldBaramWorld ----------------------------
(***************************************************************************)
(* The catalogue of the old world: monsters, spells and maps, made from    *)
(* the tables of the game (scripts/import-old-baram-world.ts), and the     *)
(* services that list them.  One fact is stored twice: a spawn with its    *)
(* monster and with its map, a spell that a monster casts with both, a     *)
(* portal with one map while the other is told to show it.                 *)
(***************************************************************************)
EXTENDS Integers, FiniteSetsExt

CONSTANTS
    Mob, Spell, Place,   \* ids of MobData, SpellInfo and MapInfo
    Extract,             \* the extracts that an import may be given
    Hops,                \* how many references readMapSizes follows after the first
    IncomingLimit,       \* how many maps are listed that lead to one
    MaxImports

VARIABLES
    store, import, whole, imports   \* as in CatalogImport

-----------------------------------------------------------------------------
\* Tables.  spawns: FixedPosMobSpawn and DimensionMobSpawn; casts: MobSpell; learns: the
\* columns of the jobs, with a level; refs: MapDataIndexMap.  Portals to the world map and those of
\* scripts, which lead to no map of the table, are left out.
ExtractShape ==
    [mobs : SUBSET Mob, spells : SUBSET Spell, maps : SUBSET Place,
     unnamed : SUBSET Spell, internal : SUBSET Spell, learns : SUBSET (Spell \X {1, 2} \X Nat),
     casts : SUBSET (Mob \X Spell), spawns : SUBSET (Mob \X Place),
     disabled : SUBSET Place, portals : SUBSET (Place \X Place),
     refs : SUBSET (Place \X Place), minimaps : SUBSET Place]

\* buildMobs
MobDocs(x) ==
    [m \in x.mobs |-> [spells |-> {s \in Spell : <<m, s>> \in x.casts},
                       spawns |-> {p \in Place : <<m, p>> \in x.spawns}]]

\* buildSpells: spells without a name are left out.
SpellDocs(x) ==
    [s \in x.spells \ x.unnamed |->
        LET learn == {l \in x.learns : l[1] = s}
            casters == {m \in Mob : <<m, s>> \in x.casts}
        IN  [jobs |-> {l[2] : l \in learn},
             minLevel |-> IF learn = {} THEN 0 ELSE Min({l[3] : l \in learn}),
             mobs |-> casters, mobOnly |-> learn = {} /\ casters # {},
             internal |-> s \in x.internal]]

\* readMapSizes: whose data a map has, following references a number of times; none if
\* that ends at a reference.
SizeOf(x, p) ==
    LET refs == [q \in {r[1] : r \in x.refs} |-> (CHOOSE r \in x.refs : r[1] = q)[2]]
        hop[h \in Nat] ==
            IF h = 0 THEN refs[p]
            ELSE IF hop[h - 1] \in DOMAIN refs THEN refs[hop[h - 1]] ELSE hop[h - 1]
    IN  IF p \notin DOMAIN refs THEN {p} ELSE {hop[Hops]} \ DOMAIN refs

Live(x) == x.maps \ x.disabled

\* A bug: a portal is kept though the map it leads to is disabled.
MapDocsAnyPortal(x) ==
    [p \in x.maps |-> [disabled |-> p \in x.disabled,
                       size |-> SizeOf(x, p),
                       portals |-> {q \in x.maps : p \in Live(x) /\ <<p, q>> \in x.portals},
                       mobs |-> {m \in Mob : <<m, p>> \in x.spawns},
                       hasMinimap |-> p \in x.minimaps]]

\* buildMaps: a portal counts only between maps that are not disabled.
MapDocs(x) ==
    [p \in x.maps |-> [disabled |-> p \in x.disabled,
                       size |-> SizeOf(x, p),
                       portals |-> {q \in Live(x) : p \in Live(x) /\ <<p, q>> \in x.portals},
                       mobs |-> {m \in Mob : <<m, p>> \in x.spawns},
                       hasMinimap |-> p \in x.minimaps]]

\* What an import of some of the collections writes, each in its turn
Docs(x, name) == IF name = "mob" THEN MobDocs(x)
                 ELSE IF name = "spell" THEN SpellDocs(x) ELSE MapDocs(x)

Import == INSTANCE CatalogImport WITH
              Order <- <<"mob", "spell", "map">>,
              Only <- {{"mob", "spell", "map"}, {"spell"}, {"map"}}

Init == Import!Init
Next == Import!Next
Spec == Init /\ [][Next]_(Import!importVars)

mobs == store["mob"]
spells == store["spell"]
maps == store["map"]

-----------------------------------------------------------------------------
\* The services: what lists show under a filter, what the metadata count, and what lists
\* are sorted by; a spell that nobody learns has no level and comes first.
Category(name) ==
    {s \in DOMAIN spells :
        /\ ~ spells[s].internal
        /\ \/ name = "learnable" /\ spells[s].jobs # {}
           \/ name = "mob" /\ spells[s].mobOnly
           \/ name = "other" /\ spells[s].jobs = {} /\ ~ spells[s].mobOnly}
SpellTotal == Quantify(DOMAIN spells, LAMBDA s : ~ spells[s].internal)
Spawned == {m \in DOMAIN mobs : mobs[m].spawns # {}}
HasMob == {p \in DOMAIN maps : ~ maps[p].disabled /\ maps[p].mobs # {}}
ByMobs == [p \in DOMAIN maps |-> - Cardinality(maps[p].mobs)]
ByLevel == [s \in DOMAIN spells |-> spells[s].minLevel]

\* findOne: of the open maps that lead to a map it lists up to a limit, in no order of its
\* own; so the answer is one of these.
LeadTo(p) == {q \in DOMAIN maps : ~ maps[q].disabled /\ p \in maps[q].portals}
Incoming(p) == kSubset(Min({Cardinality(LeadTo(p)), IncomingLimit}), LeadTo(p))

-----------------------------------------------------------------------------
\* Properties

TypeOK ==
    /\ Extract \subseteq ExtractShape
    /\ Import!TypeOK
    /\ DOMAIN mobs \subseteq Mob /\ DOMAIN spells \subseteq Spell /\ DOMAIN maps \subseteq Place
    /\ \A m \in DOMAIN mobs : mobs[m].spells \subseteq Spell /\ mobs[m].spawns \subseteq Place
    /\ \A s \in DOMAIN spells : spells[s].mobs \subseteq Mob
    /\ \A p \in DOMAIN maps : maps[p].mobs \subseteq Mob /\ maps[p].portals \subseteq Place

\* After an import that ran to its end the two places that store one fact agree, as far as
\* the tables of that import go, whatever earlier imports left behind: monsters and maps on
\* spawns, monsters and spells on casts; a portal leads to a map that can be opened and
\* lists it among those that lead there, unless more do than it may list; maps that share
\* their data have one size; and the categories of the spells share out the list among them.
\* No page repeats or skips a row.
CatalogueAgrees ==
    whole # Import!None =>
        /\ \A m \in whole.mobs, p \in whole.maps : p \in mobs[m].spawns <=> m \in maps[p].mobs
        /\ \A m \in whole.mobs, s \in whole.spells \ whole.unnamed :
              s \in mobs[m].spells <=> m \in spells[s].mobs
        /\ \A p \in whole.maps : \A q \in maps[p].portals :
              /\ q \in DOMAIN maps /\ ~ maps[q].disabled
              /\ \A listed \in Incoming(q) :
                    p \in listed \/ Cardinality(LeadTo(q)) > IncomingLimit
        /\ \A r \in whole.refs :
              r \in whole.maps \X whole.maps => maps[r[1]].size = maps[r[2]].size
        /\ \A p \in HasMob \intersect whole.maps :
              maps[p].mobs \intersect whole.mobs \subseteq Spawned
        /\ SpellTotal = Cardinality(Category("learnable")) + Cardinality(Category("mob"))
                        + Cardinality(Category("other"))
        /\ Import!ShownOnce(ByMobs) /\ Import!ShownOnce(ByLevel)
=============================================================================
