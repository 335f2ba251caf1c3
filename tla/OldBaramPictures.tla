---------------------------- MODULE OldBaramPictures ----------------------------
(***************************************************************************)
(* Pictures of characters of the old game (lib/old-baram/actions.ts and    *)
(* renderer.ts): poses and draw orders come from tables, a request is      *)
(* completed and checked, its parts are laid over each other on a canvas,  *)
(* and the picture and the canvas are kept for the next request.           *)
(* A picture is what makes it: its canvas, its zoom and its layers, each a *)
(* frame of a part with a palette and a dye; sprites are their bounds.  No *)
(* value is not an integer, and the pixels and the mark over them are left *)
(* out.                                                                    *)
(***************************************************************************)
EXTENDS Integers, Sequences, FiniteSetsExt, SequencesExt, TLC

CONSTANTS
    Wardrobe,   \* per part, the items of the pack in its order, each with its dyes
    Table,      \* per part and item, the actions: [perDye, draws], a draw by dye
    Animations, \* by <<part, item, action, dye>>: [frames, steps]
    Bounds,     \* per part, the bounds of a frame
    Shadows,    \* two lists of shadows by action
    Second,     \* the resources of bodies that take the second list
    Requests, Sheets,
    PictureLimit, WindowLimit

VARIABLES
    pictures, windows,  \* pngCache and windowCache, the oldest first
    answer              \* the last answer and what was asked

pictureVars == <<pictures, windows, answer>>

-----------------------------------------------------------------------------
\* The poses of a character: which action shows a state, a direction and a frame, in which
\* order an action draws the parts, and which action a part that lacks one borrows.

\* North, east, south and west
Directions == <<2, 8, 1, 4>>
IndexOf(d) == CHOOSE i \in 1 .. 4 : Directions[i] = d
ByDirection(north, east, south, west) ==
    [d \in {2, 8, 1, 4} |-> <<north, east, south, west>>[IndexOf(d)]]

\* Four directions, a step of so many actions between two of them
From(first, step) == ByDirection(first, first + step, first + 2 * step, first + 3 * step)

WeaponTypes == 0 .. 4
Standing == <<0, 12, 32, 52, 80>>    \* STAND_ACTIONS of a type, towards north
Striking == <<24, 24, 44, 64>>       \* ATTACK_ACTIONS of a type, towards north
StandAction(type) == From(Standing[type + 1], 3)

\* MOVE_ACTIONS: a foot, both feet together, the other foot
MoveAction(type, pose) ==
    From(Standing[type + 1] + (CASE pose = 0 -> 1 [] pose = 1 -> 0 [] pose = 2 -> 2), 3)
AttackAction(type, frame) ==
    IF type = 4 THEN StandAction(4) ELSE From(Striking[type + 1] + frame, 2)

MovePoses == <<0, 1, 2, 1>>
SpecialPoses == <<1, 0, 1, 2>>

\* EMOTE_ACTIONS: four actions of an emote, except where all directions share them.
EmoteAction(emote, frame) ==
    CASE emote \in 0 .. 8 -> From(105 + 4 * emote, 1)
      [] emote = 9 -> From(141, 0)
      [] emote = 10 -> From(142, 1)
      [] emote = 11 -> From(146 + (frame % 4), 0)
      [] emote \in 12 .. 15 -> From(150 + 4 * (emote - 12), 1)

States == {"stand", "move", "attack", "bow", "riding", "cast", "pickup", "eat", "die", "emote"}
Emotes == 0 .. 15

FrameCountFor(state, emote) ==
    CASE state \in {"move", "bow", "riding"} -> 4
      [] state = "attack" -> 2
      [] state = "emote" /\ emote = 11 -> 4
      [] OTHER -> 1

\* No weapon, a sword, a spear, a fan; the third kind has an action and no part.
WeaponTypeOf(id) ==
    CASE id = -1 -> 0
      [] id < 10000 -> 1
      [] id < 20000 -> 2
      [] id < 30000 -> 3
      [] id < 40000 -> 1
      [] OTHER -> 0
NoPart == "no part"
WeaponPartOf(id) ==
    CASE id = -1 -> NoPart
      [] id < 10000 -> "sword"
      [] id < 20000 -> "spear"
      [] id < 30000 -> NoPart
      [] id < 40000 -> "fan"
      [] OTHER -> NoPart

ResolveActionId(state, type, direction, frame, emote) ==
    (CASE state = "stand" -> StandAction(type)
       [] state = "move" -> MoveAction(type, MovePoses[(frame % 4) + 1])
       [] state = "attack" -> AttackAction(type, frame % 2)
       [] state = "bow" -> MoveAction(3, SpecialPoses[(frame % 4) + 1])
       [] state = "riding" -> MoveAction(4, SpecialPoses[(frame % 4) + 1])
       [] state = "cast" -> From(72, 1)
       [] state = "pickup" -> From(76, 1)
       [] state = "eat" -> From(92, 0)
       [] state = "die" -> From(104, 0)
       [] state = "emote" -> EmoteAction(emote, frame))[direction]

\* ACTION_ALIASES: the pose that the last emotes share
Aliases ==
    [a \in 150 .. 165 |-> CASE a < 154 -> a - 54
                            [] a < 158 -> 93
                            [] a < 162 -> 3 * (a - 158)
                            [] OTHER -> a - 66]

\* ORDER0, the parts of an action from the one at the back to the one in front
Order0(a) ==
    CASE a \in {0, 1, 25, 28, 30} \union (8 .. 13) \union (21 .. 23) ->
                <<"weapon", "body", "head", "shield">>
      [] a \in {2, 3, 4, 5, 7, 15, 16, 17, 19, 24, 26, 29} ->
                <<"shield", "body", "head", "weapon">>
      [] a \in {6, 18, 20} -> <<"body", "head", "shield", "weapon">>
      [] a = 14 -> <<"shield", "weapon", "body", "head">>
      [] a = 27 -> <<"weapon", "shield", "body", "head">>
      [] a = 31 -> <<"shield", "body", "weapon", "head">>
      [] a \in (32 .. 34) \union (41 .. 45) \union {50, 51} \union (55 .. 58)
               \union {70, 71, 72, 74, 76, 77, 84, 85, 90, 91} -> <<"weapon", "body", "head">>
      [] a \in (35 .. 40) \union (46 .. 49) \union (52 .. 54) \union (59 .. 69)
               \union (78 .. 83) \union (86 .. 89) -> <<"body", "head", "weapon">>
      [] a \in {73, 75} -> <<"weapon", "head", "body">>
      [] a \in 92 .. 103 -> <<"body", "head">>
      [] a = 104 -> <<"head">>

\* DRAW_ORDERS: emotes are drawn as action 103 is, or as those that they stand for.
DrawOrders ==
    [a \in 0 .. 165 |->
        IF a <= 104 THEN Order0(a)
        ELSE IF a \in 150 .. 153 THEN Order0(96 + (a - 150))
        ELSE IF a \in 162 .. 165 THEN Order0(96 + (a - 162))
        ELSE Order0(103)]

-----------------------------------------------------------------------------
Slots == {"head", "body", "weapon", "shield"}
DyeOf == [head |-> "headDye", body |-> "bodyDye", weapon |-> "weaponDye", shield |-> "shieldDye"]
None == [none |-> TRUE]

-----------------------------------------------------------------------------
\* normalize: what a request leaves out has a default.
Defaults ==
    [head |-> Wardrobe["head"][1].id, headDye |-> 0, body |-> Wardrobe["body"][1].id, bodyDye |-> 0,
     weapon |-> -1, weaponDye |-> 0, shield |-> -1, shieldDye |-> 0,
     state |-> "stand", direction |-> 1, frame |-> 0, emote |-> 0, colorFrame |-> 0,
     shadow |-> TRUE, zoom |-> 4, canvas |-> None]
Normalize(r) == r @@ Defaults

\* assertItem
Has(part, id, dye) == \E i \in DOMAIN Wardrobe[part] : /\ Wardrobe[part][i].id = id
                                                    /\ dye \in Wardrobe[part][i].dyes

WeaponOffset == [sword |-> 0, spear |-> 10000, fan |-> 30000]
PartOf(slot, id) == IF slot = "weapon" THEN WeaponPartOf(id) ELSE slot
ItemOf(slot, id) == IF slot = "weapon" THEN id - WeaponOffset[WeaponPartOf(id)] ELSE id

Accepted(p) ==
    /\ p.state \in States
    /\ p.direction \in Range(Directions)
    /\ p.frame >= 0 /\ p.emote \in 0 .. 15 /\ p.colorFrame \in 0 .. 7 /\ p.zoom \in 1 .. 4
    /\ Has("head", p.head, p.headDye)
    /\ Has("body", p.body, p.bodyDye)
    /\ p.shield # -1 => Has("shield", p.shield, p.shieldDye)
    /\ p.weapon # -1 => /\ WeaponPartOf(p.weapon) # NoPart
                        /\ Has(WeaponPartOf(p.weapon), ItemOf("weapon", p.weapon), p.weaponDye)

\* getOptions: the items that can be asked for, weapons under the id of their kind
Offered ==
    [head |-> {<<i.id, i.dyes>> : i \in Range(Wardrobe["head"])},
     body |-> {<<i.id, i.dyes>> : i \in Range(Wardrobe["body"])},
     shield |-> {<<i.id, i.dyes>> : i \in Range(Wardrobe["shield"])},
     weapon |-> UNION {{<<i.id + WeaponOffset[k], i.dyes>> : i \in Range(Wardrobe[k])} :
                          k \in {"sword", "spear", "fan"}}]

-----------------------------------------------------------------------------
\* plan: the parts a character wears, and what is drawn of each
Worn(p) ==
    {slot \in Slots : /\ p[slot] # -1
                      /\ ItemOf(slot, p[slot]) \in DOMAIN Table[PartOf(slot, p[slot])]}
Resource(p, slot) ==
    [part |-> PartOf(slot, p[slot]), item |-> ItemOf(slot, p[slot]), dye |-> p[DyeOf[slot]]]
Actions(res) == Table[res.part][res.item]

\* The action itself, or the one that has the same pose
ActionFor(res, a) ==
    IF a \in DOMAIN Actions(res) \/ a \notin DOMAIN Aliases THEN a ELSE Aliases[a]

\* resolveDraw: a frame of its own for a dye needs no dye, and a step of an animation shows
\* another frame or other colours of the palette.
Entry(entry, dye) == entry.draws[IF dye \in DOMAIN entry.draws THEN dye ELSE 0]
Base(entry, draw, dye) ==
    [frame |-> draw.frame, palette |-> draw.palette, colors |-> 0,
     dye |-> IF entry.perDye THEN 0 ELSE dye]
Stepped(base, animation, step) ==
    CASE step = 0 -> base
      [] step > 0 /\ animation.frames ->
            [base EXCEPT !.frame = animation.steps[step].frame,
                         !.palette = animation.steps[step].palette, !.dye = 0]
      [] OTHER -> [base EXCEPT !.colors = step]
ResolveDraw(entry, dye, key, colorFrame) ==
    IF key \notin DOMAIN Animations THEN Base(entry, Entry(entry, dye), dye)
    ELSE Stepped(Base(entry, Entry(entry, dye), dye), Animations[key],
                 colorFrame % (Len(Animations[key].steps) + 1))

Layer(res, a, colorFrame) ==
    [part |-> res.part,
     drawn |-> ResolveDraw(Actions(res)[a], res.dye, <<res.part, res.item, a, res.dye>>,
                           colorFrame)]

ActionId(p) ==
    ResolveActionId(p.state, WeaponTypeOf(p.weapon), p.direction,
                    p.frame % FrameCountFor(p.state, p.emote), p.emote)
LayersFor(p, a) ==
    LET drawn == SelectSeq(DrawOrders[a],
                           LAMBDA slot : /\ slot \in Worn(p)
                                         /\ ActionFor(Resource(p, slot), a)
                                                \in DOMAIN Actions(Resource(p, slot)))
    IN  [i \in DOMAIN drawn |->
            Layer(Resource(p, drawn[i]), ActionFor(Resource(p, drawn[i]), a), p.colorFrame)]
Layers(p) == LayersFor(p, ActionId(p))

\* resourceIdOf a body, the list of shadows that it takes, and the one of an action
ShadowsOf(p) == Shadows[IF p.body * 100 + p.bodyDye \in Second THEN 2 ELSE 1]
ShadowLayer(p) ==
    IF p.shadow /\ ActionId(p) \in DOMAIN ShadowsOf(p)
    THEN << [part |-> "shadow",
             drawn |-> [frame |-> ShadowsOf(p)[ActionId(p)], palette |-> 0, colors |-> 0,
                        dye |-> 0]] >>
    ELSE << >>

\* What is drawn, from the back to the front
Plan(p) == ShadowLayer(p) \o Layers(p)

-----------------------------------------------------------------------------
\* Canvases
Empty(b) == b.right <= b.left \/ b.bottom <= b.top
Around(S) ==
    [left |-> Min({b.left : b \in S}), top |-> Min({b.top : b \in S}),
     right |-> Max({b.right : b \in S}), bottom |-> Max({b.bottom : b \in S})]
BoundsOf(drawn) == {Bounds[d[1]][d[2]] : d \in {e \in drawn : e[2] \in DOMAIN Bounds[e[1]]}}
Filled(S) == {b \in S : ~ Empty(b)}

\* measureFrameWindow, over all sprites
FrameWindow ==
    Around(Filled(UNION {{Bounds[part][f] : f \in DOMAIN Bounds[part]} :
                            part \in DOMAIN Bounds}))
Covering(S) == IF Filled(S) = {} THEN FrameWindow ELSE Around(Filled(S))
Frames(plan) == {<<plan[i].part, plan[i].drawn.frame>> : i \in DOMAIN plan}

\* frameWindowFor: every frame that what a character wears can show
FramesOf(res) ==
    {<<res.part, Entry(Actions(res)[a], res.dye).frame>> : a \in DOMAIN Actions(res)}
    \union UNION {{<<res.part, Animations[<<res.part, res.item, a, res.dye>>].steps[i].frame>> :
                      i \in IF Animations[<<res.part, res.item, a, res.dye>>].frames
                            THEN DOMAIN Animations[<<res.part, res.item, a, res.dye>>].steps
                            ELSE {}} :
                   a \in {b \in DOMAIN Actions(res) :
                             <<res.part, res.item, b, res.dye>> \in DOMAIN Animations}}
WindowFrames(p) ==
    UNION {FramesOf(Resource(p, slot)) : slot \in Worn(p)}
    \union IF p.shadow THEN {<<"shadow", f>> : f \in Range(ShadowsOf(p))} ELSE {}
Measure(p) == Covering(BoundsOf(WindowFrames(p)))

\* The key of windowCache, and one that a shadow makes no difference to
OutfitAlone(p) == <<p.head, p.headDye, p.body, p.bodyDye, p.weapon, p.weaponDye, p.shield,
                    p.shieldDye>>
Outfit(p) == <<p.head, p.headDye, p.body, p.bodyDye, p.weapon, p.weaponDye, p.shield,
               p.shieldDye, p.shadow>>

-----------------------------------------------------------------------------
\* The caches forget what they took first.
Find(cache, key) == SelectSeq(cache, LAMBDA e : e.key = key)
Keep(cache, key, value, limit) ==
    LET grown == Append(cache, [key |-> key, value |-> value])
    IN  IF Len(grown) > limit THEN Tail(grown) ELSE grown

Picture(p, plan, window) == [zoom |-> p.zoom, layers |-> plan, window |-> window]
Refused == [refused |-> TRUE]
Seen(plan) == BoundsOf(Frames(plan)) # {}

\* render: what it makes of the caches and answers; c is [pictures, windows, images].
Drawn(c, p, plan, window, kept) ==
    [pictures |-> Keep(c.pictures, p, Picture(p, plan, window), PictureLimit),
     windows |-> kept,
     images |-> Append(c.images, Picture(p, plan, window))]
WithWindow(c, p, plan, hit) ==
    IF p.canvas # None THEN Drawn(c, p, plan, p.canvas, c.windows)
    ELSE IF hit # << >> THEN Drawn(c, p, plan, hit[1].value, c.windows)
    ELSE Drawn(c, p, plan, Measure(p), Keep(c.windows, Outfit(p), Measure(p), WindowLimit))
Shows(c, p, hit) ==
    IF hit # << >> THEN [c EXCEPT !.images = Append(@, hit[1].value)]
    ELSE IF Seen(Plan(p)) THEN WithWindow(c, p, Plan(p), Find(c.windows, Outfit(p)))
    ELSE [c EXCEPT !.images = Append(@, Refused)]
Rendered(c, p) ==
    IF Refused \in Range(c.images) THEN c    \* an earlier picture threw
    ELSE IF Accepted(p) THEN Shows(c, p, Find(c.pictures, p))
    ELSE [c EXCEPT !.images = Append(@, Refused)]

Answer(c, asked) ==
    /\ pictures' = c.pictures /\ windows' = c.windows
    /\ answer' = [asked |-> asked,
                  images |-> IF Refused \in Range(c.images) THEN << Refused >> ELSE c.images]

Now == [pictures |-> pictures, windows |-> windows, images |-> << >>]
Render(r) == Answer(Rendered(Now, Normalize(r)), <<r>>)

\* renderDyeSheet: all dyes of the item that a slot holds, on a canvas for all of them
DyeThumbnailZoom == 2
DyesOf(slot, id) ==
    IF id = -1 \/ PartOf(slot, id) = NoPart THEN {}
    ELSE UNION {i.dyes : i \in {j \in Range(Wardrobe[PartOf(slot, id)]) : j.id = ItemOf(slot, id)}}
Still == [state |-> "stand", frame |-> 0, colorFrame |-> 0, shadow |-> FALSE]
InDye(r, slot, dye) == (DyeOf[slot] :> dye) @@ Still @@ r
\* measureCanvas
Canvas(rs) == Covering(BoundsOf(UNION {Frames(Plan(Normalize(r))) : r \in Range(rs)}))
OnSheet(rs) ==
    IF \A r \in Range(rs) : Accepted(Normalize(r))
    THEN FoldLeft(LAMBDA c, r : Rendered(c, [Normalize(r) EXCEPT !.canvas = Canvas(rs)]), Now, rs)
    ELSE [Now EXCEPT !.images = << Refused >>]
DyeSheet(asked, slot) ==
    LET r == ("zoom" :> DyeThumbnailZoom) @@ asked
        p == Normalize(r)
        dyes == SetToSortSeq(DyesOf(slot, p[slot]), <)
        rs == [i \in DOMAIN dyes |-> InDye(r, slot, dyes[i])]
    IN  IF ~ Accepted(p) THEN Answer([Now EXCEPT !.images = << Refused >>], <<r, slot>>)
        ELSE Answer(OnSheet(rs), <<r, slot>>)

Init == pictures = << >> /\ windows = << >> /\ answer = [asked |-> << >>, images |-> << >>]
Next ==
    \/ \E r \in Requests : Render(r)
    \/ \E s \in Sheets : DyeSheet(s.request, s.slot)
Spec == Init /\ [][Next]_pictureVars

-----------------------------------------------------------------------------
\* Properties

Poses == [state : States, type : WeaponTypes, direction : {2, 8, 1, 4}, frame : 0 .. 3,
          emote : Emotes]
Shown(p) ==
    ResolveActionId(p.state, p.type, p.direction, p.frame % FrameCountFor(p.state, p.emote),
                    p.emote)

\* Every pose that can be asked for has an action, the action has an order in which no part
\* is drawn twice and the head is drawn, and a head that has the actions up to 149 has it
\* or the one it borrows, which turns the same way (resolveActionId, ACTION_ALIASES).
PosesDrawn ==
    \A p \in [state : States \ {"emote"}, type : WeaponTypes, direction : {2, 8, 1, 4},
              frame : 0 .. 3, emote : {0}]
             \union [state : {"emote"}, type : {0}, direction : {2, 8, 1, 4}, frame : 0 .. 3,
                     emote : Emotes] :
        LET a == Shown(p)
            order == DrawOrders[a]
        IN  /\ Cardinality({order[i] : i \in DOMAIN order}) = Len(order)
            /\ \E i \in DOMAIN order : order[i] = "head"
            /\ a \in 0 .. 149 \/ (a \in DOMAIN Aliases /\ Aliases[a] \in 0 .. 149)
            /\ a \notin DOMAIN Aliases => Len(order) >= 2 \/ p.state = "die"

\* Two directions never look alike, but where nobody turns; a walk shows a stand between
\* any two steps, and ends as it began (MOVE_POSES, SPECIAL_POSES).
StepsAlternate ==
    \A type \in WeaponTypes : \A d \in {2, 8, 1, 4} :
        LET walk == [i \in 0 .. 3 |-> ResolveActionId("move", type, d, i, 0)]
            ride == [i \in 0 .. 3 |-> ResolveActionId("riding", type, d, i, 0)]
        IN  /\ \A e \in {2, 8, 1, 4} \ {d} : \A s \in {"stand", "move", "attack", "cast"} :
                  \A i \in 0 .. 3 : \A j \in 0 .. 3 :
                      ResolveActionId(s, type, d, i, 0) # ResolveActionId(s, type, e, j, 0)
            /\ \A i \in 0 .. 3 :
                  \/ walk[i] = StandAction(type)[d]
                  \/ walk[(i + 1) % 4] = StandAction(type)[d] /\ walk[(i + 2) % 4] # walk[i]
            /\ ride[0] = StandAction(4)[d] /\ ride[2] = ride[0] /\ ride[1] # ride[3]

TypeOK ==
    /\ Len(pictures) <= PictureLimit /\ Len(windows) <= WindowLimit
    /\ \A i \in DOMAIN pictures : \A j \in DOMAIN pictures :
          pictures[i].key = pictures[j].key => i = j
    /\ \A i \in DOMAIN windows : \A j \in DOMAIN windows :
          windows[i].key = windows[j].key => i = j

Inside(b, w) == w.left <= b.left /\ w.top <= b.top /\ b.right <= w.right /\ b.bottom <= w.bottom

\* Whatever came before, no picture cuts off what is drawn on it; a character that wears
\* the same stands on the same canvas in every pose, and the pictures of a sheet are all of
\* one size and differ only in the dye that they show (frameWindowFor, measureCanvas,
\* renderSheet and both caches).
PicturesFit ==
    /\ \A e \in Range(pictures) : \A b \in Filled(BoundsOf(Frames(e.value.layers))) :
          Inside(b, e.value.window)
    /\ \A e \in Range(pictures) : \A f \in Range(pictures) :
          (Outfit(e.key) = Outfit(f.key) /\ e.key.canvas = None /\ f.key.canvas = None) =>
              e.value.window = f.value.window
    /\ Len(answer.asked) = 2 /\ answer.images # << Refused >> =>
          \A i \in DOMAIN answer.images : \A j \in DOMAIN answer.images :
              /\ answer.images[i].window = answer.images[j].window
              /\ answer.images[i].zoom = answer.images[j].zoom
              /\ \A k \in DOMAIN answer.images[i].layers :
                    answer.images[i].layers[k].part = answer.images[j].layers[k].part

\* An answer from a cache is the one that drawing it anew would give, and what is offered
\* is never refused for its parts (pngCache; getOptions and normalize).
AnswersFresh ==
    /\ Len(answer.asked) = 1 /\ answer.images # << Refused >> =>
          LET p == Normalize(answer.asked[1])
          IN  answer.images = << Picture(p, Plan(p), Measure(p)) >>
    /\ \A slot \in Slots : \A offer \in Offered[slot] : \A dye \in offer[2] :
          Accepted(Normalize((slot :> offer[1]) @@ (DyeOf[slot] :> dye)))
=============================================================================
