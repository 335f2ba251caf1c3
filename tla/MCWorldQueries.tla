--------------------------- MODULE MCWorldQueries ---------------------------
(***************************************************************************)
(* What clients follow and ask (MCLive), the catalogues and how they are   *)
(* filled, the reader of market shouts, and the pictures: parts that share *)
(* no state, checked in one run.  A behaviour takes place in the one that  *)
(* `part` names, and the others rest as they began.                        *)
(***************************************************************************)
EXTENDS MCLive, SequencesExt

CONSTANTS
    OldMob, OldSpell, OldPlace, OldExtract, Hops,
    GuMob, GuItem, GuSkill, GuShop, GuExtract, TierFloors,
    IncomingLimit, OldItem, ItemExtract, MaxImports, MaxRefills,
    PictureLimit, WindowLimit, ColorCap, DyeTicks, MaxWrites

VARIABLES
    oldStore, oldImport, oldWhole, oldImports,
    guStore, guImport, guWhole, guImports,
    message, words,
    itemStore, itemImport, itemWhole, itemImports,
    mazeNow, mazeRows, mazeFilling, mazeWhole, mazeRefills,
    boxes, boxFilling, boxWhole, boxRefills,
    pictures, windows, answer, pack, asked, answers,
    exceptions, kept, decoded

\* Three extracts of the old world: one with a disabled map, one with fewer rows; spells
\* without a name or only for the server, references to the size of another map.
Tables(spawns, casts, disabled, learns) ==
    [mobs |-> {1, 2}, spells |-> {1, 2, 3}, maps |-> {1, 2, 3},
     unnamed |-> {3}, internal |-> {}, learns |-> learns, casts |-> casts, spawns |-> spawns,
     disabled |-> disabled, portals |-> {<<1, 2>>, <<2, 3>>, <<3, 1>>, <<1, 3>>},
     refs |-> {<<3, 2>>, <<2, 1>>}, minimaps |-> {1}]
SmallOldExtracts ==
    {Tables({<<1, 1>>, <<2, 1>>}, {<<1, 1>>, <<1, 2>>, <<2, 3>>}, {}, {<<1, 1, 7>>}),
     Tables({<<1, 2>>, <<2, 1>>}, {<<2, 2>>}, {2}, {<<1, 1, 3>>, <<2, 2, 3>>}),
     [Tables({<<1, 3>>, <<2, 3>>}, {<<2, 1>>}, {1}, {})
         EXCEPT !.mobs = {1}, !.maps = {1, 3}, !.refs = {<<3, 1>>}, !.internal = {2}]}
OldWorld == INSTANCE OldBaramWorld WITH
                Mob <- OldMob, Spell <- OldSpell, Place <- OldPlace, Extract <- OldExtract,
                store <- oldStore, import <- oldImport, whole <- oldWhole,
                imports <- oldImports

\* Two extracts of the other game: equal bodies, an item sold twice, one that is unknown.
SmallGuExtracts ==
    {[mobs |-> <<[hp |-> 9, body |-> 1], [hp |-> 10, body |-> 1]>>,
      items |-> <<[job |-> 0, price |-> 15], [job |-> 1, price |-> 7]>>,
      skills |-> <<[input |-> 8, cooldown |-> 1]>>,
      shops |-> << <<[item |-> 1, percent |-> 100], [item |-> 3, percent |-> 50]>>,
                   <<[item |-> 2, percent |-> 100]>> >>],
     [mobs |-> <<[hp |-> 20, body |-> 1]>>,
      items |-> <<[job |-> 2, price |-> 15], [job |-> 1, price |-> 9], [job |-> 1, price |-> 9]>>,
      skills |-> <<[input |-> 1, cooldown |-> 0]>>,
      shops |-> << <<[item |-> 2, percent |-> 50], [item |-> 2, percent |-> 100]>> >>]}
SmallFloors == <<0, 10, 20>>
GuWorld == INSTANCE GuBaramWorld WITH
               Mob <- GuMob, Item <- GuItem, Skill <- GuSkill, Shop <- GuShop,
               Extract <- GuExtract,
               store <- guStore, import <- guImport, whole <- guWhole, imports <- guImports

\* Weapons that wear a dye, one of them a base of transformations, a costume, a stack and
\* one sold for cash.
Known(wears, base, costume, branch, implicit) ==
    [wears |-> wears, base |-> base, costume |-> costume, branch |-> branch,
     implicit |-> implicit]
Parser == INSTANCE MarketParser WITH
              Catalog <- [scythe |-> Known(TRUE, TRUE, FALSE, FALSE, 10000),
                          sickle |-> Known(TRUE, TRUE, FALSE, FALSE, 10000),
                          robe |-> Known(TRUE, FALSE, TRUE, FALSE, 10000),
                          pumpkin |-> Known(FALSE, FALSE, FALSE, FALSE, 1),
                          branch |-> Known(FALSE, FALSE, FALSE, TRUE, 10000)],
              Prices <- [x \in {"3man", "5", "1.5"} |->
                            CASE x = "3man" -> [tenths |-> 30, unit |-> 10000]
                              [] x = "5" -> [tenths |-> 50, unit |-> 0]
                              [] x = "1.5" -> [tenths |-> 15, unit |-> 0]],
              Count <- [x3 |-> 3],
              Dye <- [rose |-> [length |-> 2, premium |-> TRUE, order |-> 2],
                      silver |-> [length |-> 2, premium |-> TRUE, order |-> 1],
                      black |-> [length |-> 1, premium |-> FALSE, order |-> 3]],
              Short <- {"3man", "5", "(", "rose", "silver", "black"},
              Alphabets <- {{"scythe", "3man", "/", "pumpkin", "sell", "buy"},
                            {"scythe", "robe", "5", "(", ")", "sell"},
                            {"scythe", "rose", "black", "3man", "x3", "sell"},
                            {"scythe", "sickle", "rose", "3man", "5", "sell"},
                            {"scythe", "rose", "silver", "5", "sell"},
                            {"scythe", "transform", "robe", "3man", "[buy]", "[wanted]"},
                            {"branch", "1.5", "5", "cash", "x3", "[sell]"},
                            {"pumpkin", "x3", "5", "each", "gold", "buy"}}

\* Tables of items: columns that are blank or hold no number, a row without a name.
Row(named, type, level, job) == [named |-> named, type |-> type, level |-> level, job |-> job]
SmallItemExtracts ==
    {[rows |-> <<Row(TRUE, "1", "", "0"), Row(TRUE, "", "0", ""), Row(TRUE, "x", "1", "x")>>,
      icons |-> {1, 2}],
     [rows |-> <<Row(TRUE, "0", "x", ""), Row(TRUE, "1", "1", "1")>>, icons |-> {2, 3}],
     [rows |-> <<Row(TRUE, "0", "x", ""), Row(FALSE, "1", "1", "1")>>, icons |-> {}]}
Items == INSTANCE OldBaramItems WITH
             Item <- OldItem, Extract <- ItemExtract,
             store <- itemStore, import <- itemImport, whole <- itemWhole,
             imports <- itemImports

\* Ids are numbers, and there are finitely many; limits are numbers; extracts have what theirs have.  A map
\* refers to one other for its size, and as many as the script follows lead to the end.
\* Every strength of a monster is in a tier, the tiers being written from the lowest on.
ASSUME ExtractAssumption ==
    /\ \A ids \in {OldMob, OldSpell, OldPlace, GuMob, GuItem, GuSkill, GuShop, OldItem} :
          ids \subseteq Nat /\ IsFiniteSet(ids)
    /\ Hops \in Nat /\ IncomingLimit \in Nat
    /\ OldExtract \subseteq OldWorld!ExtractShape
    /\ \A x \in OldExtract :
          /\ \A r, s \in x.refs : r[1] = s[1] => r = s
          /\ \E left \in [OldPlace -> 0 .. Hops + 1] : \A r \in x.refs : left[r[2]] < left[r[1]]
    /\ \A x \in GuExtract : GuWorld!WellFormed(x)
    /\ TierFloors \in Seq(Nat) /\ TierFloors # << >> /\ TierFloors[1] = 0
    /\ \A t, u \in DOMAIN TierFloors : t < u => TierFloors[t] < TierFloors[u]
    /\ \A x \in ItemExtract : \A id \in DOMAIN x.rows :
          id \in OldItem /\ x.rows[id] \in Items!Columns

\* Two maps of each of 53 mazes, the second one first; the turns of a year with 53 weeks and
\* of two that end otherwise.
Manifest(floors, doors, bad) ==
    [maps |-> [i \in 1 .. 2 * floors |-> <<(i + 1) \div 2, 500 + (i % 2)>>],
     links |-> doors, bad |-> bad]
Maze == INSTANCE MazeCalendar WITH
            FirstYear <- 2023, FirstDay <- 0, Years <- {2024, 2026, 2027}, Around <- 8,
            Bases <- {500, 501},
            Extract <- {Manifest(53, {<<500, 1, 501>>, <<501, 1, 500>>, <<501, 2, 501>>,
                                      <<501, 2, 509>>, <<500, 3, 330>>}, FALSE),
                        Manifest(1, {}, TRUE)},
            Cut <- LAMBDA n : {n \div 2, n},
            now <- mazeNow, rows <- mazeRows, filling <- mazeFilling, whole <- mazeWhole,
            refills <- mazeRefills

\* The rows of a table of boxes, of which up to three are missing, in their order or in the
\* reverse: two boxes of one memo, two bonuses, a pool, a box without a memo.
BoxRow(id, group, item, rate, text, bonus) ==
    [id |-> id, group |-> group, item |-> item, rate |-> rate,
     memo |-> [text |-> text, bonus |-> bonus]]
BoxRows ==
    <<BoxRow(1, 1001, "a", 1, "x", FALSE), BoxRow(2, 1002, "b", 2, "x", TRUE),
      BoxRow(3, 1003, "a", 0, "x", FALSE), BoxRow(4, 1004, "c", 1, "x", TRUE),
      BoxRow(5, 101001, "a", 1, "", FALSE), BoxRow(6, 102001, "b", 3, "", FALSE),
      BoxRow(7, 102001, "c", 1, "x", TRUE), BoxRow(8, 100001, "c", 1, "rank", FALSE),
      BoxRow(9, 1001, "d", 4, "month", FALSE), BoxRow(10, 1001, "e", 1, "x", FALSE)>>
Gacha == INSTANCE GachaGroups WITH
             Extract <- {[table |-> SelectSeq(rows, LAMBDA r : r.id \notin missing)] :
                            rows \in {BoxRows, Reverse(BoxRows)},
                            missing \in {S \in SUBSET (1 .. 10) : Cardinality(S) <= 3}},
             Ranked <- {"rank"}, Monthly <- {"month"},
             Cut <- LAMBDA n : {1, n},
             MaxRefills <- 1,
             rows <- boxes, filling <- boxFilling, whole <- boxWhole, refills <- boxRefills

\* A head that borrows a pose, a body with a sprite of its own for a dye, a sword that
\* glitters, a fan and a shield.
Rect(l, t, r, b) == [left |-> l, top |-> t, right |-> r, bottom |-> b]
Plain(f) == [perDye |-> FALSE, draws |-> [dye \in {0} |-> [frame |-> f, palette |-> 0]]]
InDyes(f, g) == [perDye |-> TRUE,
                 draws |-> [dye \in {0, 1} |-> [frame |-> IF dye = 0 THEN f ELSE g,
                                               palette |-> dye]]]
Pictures == INSTANCE OldBaramPictures WITH
                Wardrobe <- [head |-> <<[id |-> 0, dyes |-> {0, 1}]>>,
                          body |-> <<[id |-> 0, dyes |-> {0, 1}]>>,
                          sword |-> <<[id |-> 0, dyes |-> {0}]>>, spear |-> << >>,
                          fan |-> <<[id |-> 0, dyes |-> {0}]>>,
                          shield |-> <<[id |-> 0, dyes |-> {0}]>>],
                Table <- [head |-> 0 :> (0 :> Plain(0) @@ 6 :> Plain(1) @@ 93 :> Plain(1)),
                          body |-> 0 :> (0 :> InDyes(0, 1) @@ 6 :> Plain(2) @@ 18 :> Plain(2)
                                         @@ 8 :> Plain(2) @@ 154 :> Plain(3)),
                          sword |-> 0 :> (18 :> Plain(0)), spear |-> << >>,
                          fan |-> 0 :> (18 :> Plain(0)),
                          shield |-> 0 :> (6 :> Plain(0) @@ 8 :> Plain(1))],
                Animations <-
                    <<"sword", 0, 18, 0>> :>
                        [frames |-> TRUE, steps |-> << [frame |-> 1, palette |-> 1] >>]
                    @@ <<"head", 0, 6, 0>> :> [frames |-> FALSE, steps |-> << 1, 2 >>],
                Bounds <- [head |-> 0 :> Rect(0, 0, 2, 2) @@ 1 :> Rect(1, 0, 3, 2),
                           body |-> 0 :> Rect(0, 2, 2, 5) @@ 1 :> Rect(-1, 2, 2, 6)
                                    @@ 2 :> Rect(0, 3, 3, 5) @@ 3 :> Rect(0, 0, 0, 0),
                           sword |-> 0 :> Rect(-3, 1, 0, 2) @@ 1 :> Rect(-4, 0, 0, 2),
                           fan |-> 0 :> Rect(3, 2, 5, 3),
                           shield |-> 0 :> Rect(3, 3, 4, 5),
                           shadow |-> 0 :> Rect(-2, 5, 4, 7) @@ 1 :> Rect(-1, 5, 2, 6)],
                Shadows <- <<6 :> 0 @@ 8 :> 1, 0 :> 1 @@ 6 :> 1>>,
                Second <- {1},
                Requests <- { << >>, [direction |-> 2], [state |-> "move", frame |-> 2],
                              [state |-> "emote", emote |-> 13, direction |-> 2, shadow |-> FALSE],
                              [weapon |-> 30000], [weapon |-> 0, colorFrame |-> 1],
                              [weapon |-> 20000], [shadow |-> FALSE], [bodyDye |-> 1],
                              [shield |-> 0, zoom |-> 1], [shield |-> 0, colorFrame |-> 2],
                              [state |-> "die", bodyDye |-> 1, direction |-> 8] },
                Sheets <- { [request |-> << >>, slot |-> "body"],
                            [request |-> [weapon |-> 0], slot |-> "weapon"],
                            [request |-> [body |-> 1], slot |-> "head"],
                            [request |-> [direction |-> 2, headDye |-> 1], slot |-> "shield"] }

\* A small pack and small classic sheets for CharacterPictures: poses, frames and layers are
\* those that the real ones begin with.
Action(doing, weapon, flat) ==
    [state |-> <<doing, weapon>>, direction |-> 1,
     frames |-> [i \in 1 .. Len(flat) \div 2 |->
                    [frame |-> flat[2 * i - 1], layer |-> flat[2 * i]]]]
Atlas(label, logical, sequence, items, actions) ==
    [label |-> label, part |-> logical, sequence |-> sequence, items |-> items,
     actions |-> actions, cycles |-> << >>]

\* An armor whose frames two atlases share, one without the stance of a sword, heads and
\* faces, a sword, a shield that has but one frame, and a horse.
ArmorActions ==
    << Action("walk", "", <<1, 2, 2, 2, 1, 2, 3, 3>>), Action("stand", "", <<1, 2>>),
       Action("stand", "sword", <<13, 2>>), Action("walk", "sword", <<13, 2, 14, 2, 13, 2, 15, 3>>),
       Action("stand", "fan", <<13, 2>>),
       Action("stand", "spear", <<33, 2>>), Action("walk", "spear", <<33, 2, 34, 2, 33, 2, 35, 3>>),
       Action("attack", "spear", <<45, 2, 46, 2>>), Action("stand", "riding", <<81, 2>>) >>
HeadActions(fight, ride) ==
    << Action("stand", "", <<1, 3>>), Action("walk", "", <<1, 3, 2, 3, 1, 3, 3, 4>>),
       Action("attack", "spear", <<fight, 3, fight + 1, 3>>),
       Action("stand", "riding", <<ride, 3>>) >>
HeldActions(a, b) ==
    << Action("stand", "", <<1, a>>), Action("walk", "", <<1, a, 2, a, 1, a, 3, b>>),
       Action("attack", "", <<13, b, 14, a>>) >>
SmallPack ==
    << Atlas("armor", "armor", 0,
             1 :> {1, 2, 3, 13, 14, 15} @@ 2 :> {1, 2, 3, 33, 34, 35, 45, 46, 81},
             ArmorActions),
       Atlas("armor2", "armor", 1, 1 :> {33, 34, 35, 45, 46, 81}, ArmorActions),
       Atlas("head", "head", 0, 1 :> {1, 2, 3, 45, 46, 81}, HeadActions(45, 81)),
       Atlas("face", "face", 0, 1 :> {1, 2, 3, 21, 22, 37},
             << Action("stand", "", <<1, 4>>), Action("walk", "", <<1, 4, 2, 4, 1, 4, 3, 5>>),
                Action("attack", "spear", <<21, 4, 22, 4>>),
                Action("stand", "riding", <<37, 4>>) >>),
       [Atlas("hair", "hair", 0, 1 :> {1, 2, 3, 21, 22, 37}, HeadActions(21, 37))
           EXCEPT !.cycles = <<1, 0>> :> 2],
       Atlas("weapon", "weapon", 0, 0 :> {1, 2, 3, 13, 14}, HeldActions(1, 1)),
       Atlas("shield", "shield", 0, 1 :> {1, 2, 3, 13, 14} @@ 2 :> {1}, HeldActions(5, 2)),
       Atlas("riding", "riding", 0, 0 :> {1}, << Action("stand", "riding", <<1, 0>>) >>) >>
SmallOrders == << <<"weapon", "body", "head", "shield">>, <<"shield", "body", "head", "weapon">>,
                  <<"body", "head", "shield", "weapon">> >>

\* The classic sheets: three bodies and heads, the blocks of fans one sprite early
Block(item, size, palette) == [palette |-> palette, first |-> item * size]
SmallRows ==
    [head |-> 1 :> Block(0, 100, 0) @@ 2 :> Block(1, 100, 0),
     body |-> 1 :> Block(0, 104, 0) @@ 2 :> Block(1, 104, 1) @@ 3 :> Block(2, 104, 2),
     sword |-> 0 :> Block(0, 20, 0), spear |-> 0 :> Block(0, 20, 1),
     fan |-> 0 :> Block(0, 20, 0) @@ 1 :> Block(1, 20, 0),
     shield |-> 1 :> Block(0, 20, 0) @@ 2 :> Block(1, 20, 1) @@ 3 :> Block(2, 20, 0)]
SmallSheets == [head |-> 204, emotion |-> 60, body |-> 312, sword |-> 20, spear |-> 20,
                fan |-> 39, shield |-> 60]
\* Ranges of two, three and four colours, written from either end, and two that overlap
SmallPalettes ==
    [head |-> 0 :> << >>,
     body |-> 0 :> << >> @@ 1 :> <<256 * 2 + 1>> @@ 2 :> <<256 + 3, 256 * 4 + 2>>
              @@ 3 :> <<256 * 4 + 1, 256 * 4 + 4>>,
     sword |-> 0 :> << >>, spear |-> 0 :> << >> @@ 1 :> <<256 * 5 + 8>>, fan |-> 0 :> << >>,
     shield |-> 0 :> << >> @@ 1 :> <<256 * 9 + 8>>]

Dressed ==
    [mode |-> "head", head |-> 1, headc |-> 0, face |-> -1, hair |-> -1, body |-> 1, bodyc |-> 0,
     bodyDye |-> 0, weapon |-> -1, weaponc |-> 0, weaponDye |-> 0, shield |-> -1, shieldc |-> 0,
     riding |-> 0, frame |-> 0, isAction |-> FALSE]
FaceAndHair == [mode |-> "face-hair", face |-> 1, hair |-> 1] @@ Dressed
SmallWishes ==
    [first |->
        { Dressed, [frame |-> 80, weapon |-> 0, shield |-> 1] @@ Dressed,
          [frame |-> 94, shield |-> 1] @@ FaceAndHair, [frame |-> 80] @@ FaceAndHair,
          [isAction |-> TRUE, shield |-> 2] @@ FaceAndHair,
          [isAction |-> TRUE, frame |-> 45, weapon |-> 10000, shield |-> 1] @@ FaceAndHair,
          [isAction |-> TRUE, frame |-> 32, weapon |-> 10000, shield |-> 1, body |-> 3] @@ Dressed,
          [frame |-> 32, weapon |-> 10000, shield |-> 3, body |-> 2] @@ Dressed,
          [frame |-> 34, weapon |-> 0, shield |-> 2, bodyc |-> 255] @@ Dressed,
          [frame |-> 12, weapon |-> 0, shield |-> 1, body |-> 2] @@ Dressed,
          [frame |-> 12, weapon |-> 0, weaponc |-> 255, isAction |-> TRUE] @@ Dressed,
          [frame |-> 45, weapon |-> 10000, weaponc |-> 510, isAction |-> TRUE] @@ Dressed,
          [frame |-> 13, weapon |-> 0, weaponc |-> 1020] @@ Dressed,
          [frame |-> 12, weapon |-> 30000] @@ Dressed, [frame |-> 12, weapon |-> 30001] @@ Dressed,
          [frame |-> 117, isAction |-> TRUE, headc |-> 255, head |-> 2] @@ Dressed,
          [frame |-> 115, weaponc |-> 765, weapon |-> 0, isAction |-> TRUE] @@ Dressed,
          [frame |-> 31, weapon |-> 0] @@ Dressed, [frame |-> 31, weapon |-> 30001] @@ Dressed,
          [bodyc |-> 300] @@ Dressed, [head |-> 9, body |-> 9, shield |-> 3] @@ Dressed },
     second |-> { [shield |-> 1, frame |-> 12] @@ FaceAndHair }]

Characters == INSTANCE CharacterPictures WITH
                  Atlases <- SmallPack, Orders <- SmallOrders, Rows <- SmallRows,
                  Palettes <- SmallPalettes, DyedBody <- 2, Cap <- ColorCap,
                  Sheets <- SmallSheets, EpfOrders <- SmallOrders, WeaponDyes <- {255, 510, 765},
                  Viewer <- {"first", "second"}, Wishes <- SmallWishes

\* Swords of two rows of palettes and a fan in a dye, bodies and a head; files with ranges
\* that touch, overlap and are written the wrong way round, and one that is broken.
Line(mask, colors) == [mask |-> mask, colors |-> colors]
Sprite(kind, number, row, vc, avc, lines) ==
    [kind |-> kind, number |-> number, row |-> row, width |-> 3, vc |-> vc, rc |-> 1,
     avc |-> avc, lines |-> lines]
Exception(keep, force, ranges, rows) ==
    [keep |-> keep, force |-> force, ranges |-> ranges, rows |-> rows]
Sprites == INSTANCE SpritePixels WITH
               Sprites <-
                   { Sprite("head", 0, 0, 3, -1,
                            <<Line(<<129, 1, 130, 129>>, <<47, 48, 255>>), Line(<<131>>, <<0, 50, 48>>),
                              Line(<<0, 131>>, <<1, 2, 3>>), Line(<<255>>, <<1, 2, 3>>)>>),
                     Sprite("body", 17, 0, 255, -1, <<Line(<<131>>, <<16, 40, 250>>), Line(<< >>, << >>)>>),
                     Sprite("body", 70, 0, 7, -1, <<Line(<<1, 130>>, <<0, 81, 90>>)>>),
                     Sprite("sword", 62, 0, 255, -1,
                            [y \in 1 .. 6 |-> Line(<<131>>, <<60, 21, 43>>)]),
                     Sprite("sword", 62, 0, 0, -1, <<Line(<<131>>, <<60, 21, 43>>)>>),
                     Sprite("sword", 131, 16, 510, 31, [y \in 1 .. 3 |-> Line(<<2, 130>>, <<0, 0, 116>>)]),
                     Sprite("fan", 0, 0, 765, 7, <<Line(<<130>>, <<33, 200, 0>>)>>),
                     Sprite("spear", 4, 1, 255, -1, <<Line(<<131>>, <<140, 33, 60>>)>>) },
               Contents <-
                   { [readable |-> FALSE, entries |-> << >>], [readable |-> TRUE, entries |-> << >>],
                     [readable |-> TRUE,
                      entries |-> <<"sword", 62>> :> Exception({60}, {43}, << <<4, 3>>, <<0, 1>> >>, {})
                                  @@ <<"fan", 0>> :> Exception({}, {33}, << >>, {1})],
                     [readable |-> TRUE,
                      entries |-> <<"sword", 62>> :> Exception({60}, {21, 60},
                                                       << <<3, 3>>, <<2, -1>>, <<1, 1>> >>, {0})
                                  @@ <<"sword", 131>> :> Exception({}, {116}, << <<1, 1>> >>, {16, 3})] },
               file <- exceptions, cache <- kept, shown <- decoded

oldVars == <<oldStore, oldImport, oldWhole, oldImports>>
guVars == <<guStore, guImport, guWhole, guImports>>
parserVars == <<message, words>>
itemVars == <<itemStore, itemImport, itemWhole, itemImports>>
mazeVars == <<mazeNow, mazeRows, mazeFilling, mazeWhole, mazeRefills>>
boxVars == <<boxes, boxFilling, boxWhole, boxRefills>>
pictureVars == <<pictures, windows, answer>>
characterVars == <<pack, asked, answers>>
spriteVars == <<exceptions, kept, decoded>>
queryVars == <<oldStore, oldImport, oldWhole, oldImports,
               guStore, guImport, guWhole, guImports,
               message, words, itemStore, itemImport, itemWhole, itemImports,
               mazeNow, mazeRows, mazeFilling, mazeWhole, mazeRefills,
               boxes, boxFilling, boxWhole, boxRefills,
               pictures, windows, answer, pack, asked, answers,
               exceptions, kept, decoded>>

\* A step in part p, which is none of MCLive
In(p) ==
    /\ part = p
    /\ UNCHANGED liveVars
    /\ p # "old" => UNCHANGED oldVars
    /\ p # "gu" => UNCHANGED guVars
    /\ p # "parser" => UNCHANGED parserVars
    /\ p # "items" => UNCHANGED itemVars
    /\ p # "maze" => UNCHANGED mazeVars
    /\ p # "boxes" => UNCHANGED boxVars
    /\ p # "pictures" => UNCHANGED pictureVars
    /\ p # "characters" => UNCHANGED characterVars
    /\ p # "sprites" => UNCHANGED spriteVars

Init ==
    /\ part \in LiveParts \union
          {"old", "gu", "parser", "items", "maze",
           "boxes", "pictures", "characters", "sprites"}
    /\ LiveInit
    /\ OldWorld!Init /\ GuWorld!Init /\ Items!Init /\ Gacha!Init
    /\ Maze!Init /\ Pictures!Init /\ Characters!Init /\ Sprites!Init
    /\ part # "maze" => mazeNow = Maze!NewYear(2024) - 8 * Maze!Day
    /\ \/ part = "parser" /\ Parser!Init
       \/ part # "parser" /\ message = << >> /\ words = {}

Next ==
    \/ LiveNext /\ UNCHANGED queryVars
    \/ In("old") /\ OldWorld!Next
    \/ In("gu") /\ GuWorld!Next
    \/ In("parser") /\ Parser!Next
    \/ In("items") /\ Items!Next
    \/ In("maze") /\ Maze!Next
    \/ In("boxes") /\ Gacha!Next
    \/ In("pictures") /\ Pictures!Next
    \/ In("characters") /\ Characters!Next
    \/ In("sprites") /\ Sprites!Next

vars == <<liveVars, queryVars>>

Spec == Init /\ [][Next]_vars

-----------------------------------------------------------------------------
\* Properties, each with its comment in the module of its part, and asked where it moves

\* Every part keeps its state within its types and its limits.
PartsTypeOK ==
    /\ LiveTypeOK
    /\ part = "old" => OldWorld!TypeOK
    /\ part = "gu" => GuWorld!TypeOK
    /\ part = "parser" => Parser!TypeOK
    /\ part = "items" => Items!TypeOK
    /\ part = "maze" => Maze!TypeOK
    /\ part = "boxes" => Gacha!TypeOK
    /\ part = "pictures" => Pictures!TypeOK
    /\ part = "characters" => Characters!TypeOK
    /\ part = "sprites" => Sprites!TypeOK

\* What an import that ran to its end has written is listed as its tables say, once, and the
\* same from each of its ends (the import scripts, and the services of the catalogues).
CataloguesAgree ==
    /\ part = "old" => OldWorld!CatalogueAgrees
    /\ part = "gu" => GuWorld!CatalogueAgrees
    /\ part = "items" => Items!ItemsAsWritten

\* A shout is read as a person would read it, and what a script read from its tables is
\* found as they have it: the open maze at every moment, and every box with its items
\* (parseGameMarketMessage, MazeService, GachaService).
ReadAsWritten ==
    /\ part = "parser" => Parser!ReadAsWritten
    /\ part = "maze" => Maze!MazeHolds
    /\ part = "boxes" => Gacha!BoxesFound

\* A picture shows all that is drawn on it, the same from a cache as anew, and poses follow
\* each other as they should (the renderers).
PicturesHold ==
    /\ part = "pictures" => Pictures!PicturesFit /\ Pictures!AnswersFresh
    /\ part = "pictures" /\ answer.asked = << >> =>
          Pictures!PosesDrawn /\ Pictures!StepsAlternate
    /\ part = "characters" =>
          /\ Characters!DrawnOnce /\ Characters!Complete /\ Characters!InOrder
          /\ Characters!LoopsClose /\ Characters!FileWhole
          /\ Characters!LoadsShared /\ Characters!SpritesHeld
    /\ part = "sprites" =>
          /\ Sprites!PaintedAsMasked /\ Sprites!DyedAsTold /\ Sprites!RangesApart
          /\ Sprites!DyeLoops
=============================================================================
