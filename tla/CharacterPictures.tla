-------------------------- MODULE CharacterPictures --------------------------
(***************************************************************************)
(* Pictures of characters (renderer.service.ts, lib/renderer.ts and        *)
(* lib/char-ms/assets.ts): all the pictures of an answer wait for one and  *)
(* the same load of the pack; what the pack draws or hides is not drawn    *)
(* from the classic sheets, and the layers of both are put in one order.   *)
(* Without the pack the classic sheets draw everything.  A sprite of a     *)
(* sheet is its number; no number outside the sheet is a sprite, and a     *)
(* picture that asks for one fails, with all of its answer.                *)
(* Such a picture moves (lib/paletteAnimation.ts, lib/apngEncoder.ts): the *)
(* colours of its palettes turn within ranges until all of them are where  *)
(* they began, and one file holds the frames.  A palette is the sequence   *)
(* of its offsets, 16 bits each.                                           *)
(***************************************************************************)
EXTENDS CharMsFrames

CONSTANTS
    Rows,       \* TBL: per part and item, [palette, first]
    Palettes,   \* PAL: per part, palettes from 0
    DyedBody,   \* the palette of a body after which those of the dyes follow
    Cap,        \* no more steps of colours
    DyeTicks,   \* the steps of a dye that moves
    Sheets,     \* how many sprites a classic sheet holds
    EpfOrders,  \* TBL.order: by frame, the parts from the back to the front
    WeaponDyes, \* the palettes of weapons that a dye can name
    Viewer,
    Wishes      \* by viewer, the looks that may be asked for

VARIABLES
    pack,    \* the promise of the pack: none, under way or kept
    asked,   \* the look that a viewer waits for
    answers  \* what the last step answered

characterVars == <<pack, asked, answers>>

NoLook == [none |-> TRUE]

-----------------------------------------------------------------------------
\* Ranges of colours

\* decodeOffset: the two bytes of an offset are the ends of a range, in either order.
RangeOf(offset) ==
    LET ends == {(offset \div 256) % 256, offset % 256}
    IN  [start |-> Min(ends), end |-> Max(ends), length |-> Max(ends) - Min(ends) + 1]
RangesOf(palette) ==
    SelectSeq([i \in DOMAIN palette |-> RangeOf(palette[i])], LAMBDA r : r.length > 1)

Lcm(a, b) == Min({m \in 1 .. a * b : m % a = 0 /\ m % b = 0})
LcmUpTo(a, b) == IF a >= Cap \/ Lcm(a, b) >= Cap THEN Cap ELSE Lcm(a, b)
\* colorAnimationPeriod
PalettePeriod(palette) ==
    FoldLeft(LAMBDA p, r : LcmUpTo(p, r.length), 1, RangesOf(palette))

\* cyclePalette: the colours that have moved, each with the place it came from; a range
\* that follows covers one before it.
Turned(r, rot) ==
    [i \in r.start .. r.end |-> r.start + ((i - r.start + rot) % r.length)]
TurnOf(r, tick, reverse) ==
    IF reverse THEN (r.length - (tick % r.length)) % r.length ELSE tick % r.length
Cycled(palette, tick, reverse) ==
    FoldLeft(LAMBDA moved, r :
                 IF TurnOf(r, tick, reverse) = 0 THEN moved
                 ELSE Turned(r, TurnOf(r, tick, reverse)) @@ moved,
             << >>, RangesOf(palette))

-----------------------------------------------------------------------------
\* Palettes of a character

WeaponKind(weapon) ==
    CASE weapon \in 0 .. 9999 -> "sword" [] weapon \in 10000 .. 19999 -> "spear"
      [] weapon \in 30000 .. 39999 -> "fan" [] OTHER -> ""
WeaponItem(weapon) == weapon % 10000

NoRow(part) == [palette |-> 0, first |-> IF part = "shield" THEN -1 ELSE 0]
RowOf(part, item) == IF item \in DOMAIN Rows[part] THEN Rows[part][item] ELSE NoRow(part)
PaletteOf(part, item) ==
    IF RowOf(part, item).palette \in DOMAIN Palettes[part]
    THEN Palettes[part][RowOf(part, item).palette] ELSE Palettes[part][0]

NoPalette == << -1 >>
BodyPalette(look) ==
    IF look.bodyc < 255 THEN PaletteOf("body", look.body)
    ELSE IF look.bodyc % 255 = 0 /\ DyedBody + (look.bodyc \div 255) \in DOMAIN Palettes.body
         THEN Palettes.body[DyedBody + (look.bodyc \div 255)]
         ELSE NoPalette

\* getRenderColorPeriod: an item without a row has no period.
PeriodOf(part, item) ==
    IF item \in DOMAIN Rows[part] THEN PalettePeriod(PaletteOf(part, item)) ELSE 1
BodyPeriod(look) ==
    IF look.body \notin DOMAIN Rows.body \/ BodyPalette(look) = NoPalette THEN 1
    ELSE PalettePeriod(BodyPalette(look))
WeaponPeriod(look) ==
    IF WeaponKind(look.weapon) = "" THEN 1
    ELSE PeriodOf(WeaponKind(look.weapon), WeaponItem(look.weapon))
ColorPeriod(look) ==
    FoldLeft(LcmUpTo, 1,
             << BodyPeriod(look), PeriodOf("head", look.head),
                IF look.shield >= 0 THEN PeriodOf("shield", look.shield) ELSE 1,
                WeaponPeriod(look) >>)

-----------------------------------------------------------------------------
\* The pictures of an answer: which frame each shows, its step of the colours, and its step
\* of the dye of a weapon or -1.

ActionFrames3 == {0, 3, 6, 9, 12, 15, 18, 21, 32, 35, 38, 41, 52, 55, 58, 61, 80, 83, 86, 89}
ActionFrames2 == {25, 27, 29, 31, 45, 47, 49, 51}
KiteFrames == 115 .. 118
ColorTickHold == 3

\* The loop of an action: how many pictures it takes, and the frame of each
LoopOf(look) ==
    CASE look.isAction /\ look.frame \in ActionFrames3 -> "three"
      [] look.isAction /\ look.frame \in ActionFrames2 -> "two"
      [] look.isAction /\ look.frame \in KiteFrames -> "kite"
      [] OTHER -> "still"
LoopLength(loop) == CASE loop \in {"three", "kite"} -> 4 [] loop = "two" -> 2 [] OTHER -> 1
LoopFrame(loop, frame, i) ==
    CASE loop = "three" /\ i % 4 = 1 -> frame + 1
      [] loop = "three" /\ i % 4 = 3 -> frame + 2
      [] loop = "two" /\ i % 2 = 1 -> frame - 1
      [] loop = "kite" -> 115 + (i % 4)
      [] OTHER -> frame

\* A dye that moves is shown from its last step to its first.
MovingDye(look) == look.weaponc \in {255, 510, 765}
DyedFrame(loop, frame, x) ==
    CASE loop = "three" /\ x % 2 = 1 -> frame + (IF x % 4 = 1 THEN 1 ELSE 2)
      [] loop = "two" /\ x % 2 = 1 -> frame - 1
      [] loop = "kite" -> 118 - (x % 4)
      [] OTHER -> frame
DyedSteps(look, length) ==
    [i \in 1 .. length |->
        [frame |-> DyedFrame(LoopOf(look), look.frame, length - i),
         tick |-> (length - i) \div ColorTickHold, dye |-> (length - i) \div ColorTickHold]]

Total(look, period) ==
    IF period = 1 THEN LoopLength(LoopOf(look))
    ELSE Lcm(LoopLength(LoopOf(look)), period * ColorTickHold)
PlainSteps(look) ==
    [i \in 1 .. Total(look, ColorPeriod(look)) |->
        [frame |-> LoopFrame(LoopOf(look), look.frame, i - 1),
         tick |-> (i - 1) \div ColorTickHold, dye |-> -1]]

\* pngRender
Steps(look) ==
    IF MovingDye(look) THEN DyedSteps(look, DyeTicks * ColorTickHold) ELSE PlainSteps(look)

-----------------------------------------------------------------------------
\* makeAPNGBase64: the chunks of the file; its first picture stands where a reader that
\* knows no motion looks for one.

FrameChunks(i) ==
    IF i = 1 THEN << [type |-> "fcTL", number |-> 0], [type |-> "IDAT"] >>
    ELSE << [type |-> "fcTL", number |-> 2 * i - 3], [type |-> "fdAT", number |-> 2 * i - 2] >>
Apng(count) ==
    << [type |-> "IHDR"], [type |-> "acTL", frames |-> count] >>
    \o FlattenSeq([i \in 1 .. count |-> FrameChunks(i)]) \o << [type |-> "IEND"] >>
\* render: one picture is answered as it is.
FileOf(count) == IF count = 1 THEN << >> ELSE Apng(count)

-----------------------------------------------------------------------------
\* The classic sheets

\* resolveLegacySkip
SkipFor(look, packed) ==
    IF packed = NoPack THEN {}
    ELSE packed.covered \union packed.hidden
         \union {part \in {"head", "weapon", "shield"} :
                    CASE part = "head" -> look.mode = "face-hair"
                      [] OTHER -> look[part] < 0}

\* What frame of its sheet a part shows, and of which sheet
BodyFrame(frame) ==
    CASE frame <= 103 -> frame
      [] frame = 113 -> 95
      [] frame \in 115 .. 118 -> frame - 15
      [] frame \in 120 .. 123 -> frame - 24
      [] OTHER -> 6
HeadSprite(look, frame) ==
    LET first == RowOf("head", look.head).first
    IN  IF frame \in 0 .. 103 THEN <<"head", first + frame>>
        ELSE <<"emotion", (first \div 5) + (frame % 104)>>
BodySprite(look, frame) == <<"body", RowOf("body", look.body).first + BodyFrame(frame)>>
WeaponSprite(kind, item, frame) ==
    <<kind, RowOf(kind, item).first
            + CASE kind = "sword" -> frame - 12 [] kind = "spear" -> frame - 32
                [] kind = "fan" -> frame - 13>>
ShieldSprite(look, offset) == <<"shield", RowOf("shield", look.shield).first + offset>>

\* A layer of a classic part: no sprite, one, and with which colours
Part(part, sprite, colors) ==
    << [part |-> part, source |-> "epf", sprite |-> sprite, colors |-> colors] >>
Colors(part, item, tick, dye) == <<Cycled(PaletteOf(part, item), tick, TRUE), dye>>

HeadLayer(look, frame, tick) ==
    Part("head", HeadSprite(look, frame), Colors("head", look.head, tick, look.headc))
BodyLayer(look, frame, tick) ==
    Part("body", BodySprite(look, frame),
         <<Cycled(BodyPalette(look), tick, look.bodyc < 255), look.bodyc>>)
WeaponLayer(look, kind, frame, step) ==
    IF frame \in (IF kind = "spear" THEN 32 .. 51 ELSE 12 .. 31) /\ kind # ""
    THEN Part("weapon", WeaponSprite(kind, WeaponItem(look.weapon), frame),
              <<Colors(kind, WeaponItem(look.weapon), step.tick, look.weaponc), step.dye>>)
    ELSE << >>
ShieldLayer(look, offset, tick) ==
    Part("shield", ShieldSprite(look, offset), Colors("shield", look.shield, tick, look.shieldc))

\* A shield beside a spear is drawn under everything in some frames, and in the others
\* anew after each part.
UnderFrames == {34, 35, 36, 37, 44, 46, 47, 50, 51}
BesideFrames == {32, 33, 38, 39, 40, 41, 42, 43, 45, 48, 49}
UnderLayer(look, frame, tick, skip) ==
    IF "shield" \notin skip /\ look.shield >= 0 /\ frame \in UnderFrames
    THEN ShieldLayer(look, frame - 32, tick) ELSE << >>
BesideLayer(look, frame, tick) ==
    IF look.shield >= 0 /\ frame \in BesideFrames
    THEN ShieldLayer(look, frame - 32, tick) ELSE << >>
ClassicLayer(look, step, part) ==
    CASE part = "head" -> HeadLayer(look, step.frame, step.tick)
      [] part = "body" -> BodyLayer(look, step.frame, step.tick)
      [] part = "weapon" -> WeaponLayer(look, WeaponKind(look.weapon), step.frame, step)
      [] part = "shield" /\ look.shield >= 0 /\ step.frame \in 0 .. 31 ->
            ShieldLayer(look, IF step.frame < 12 THEN step.frame ELSE step.frame - 12,
                        step.tick)
      [] OTHER -> << >>

OrderFor(frame) == EpfOrders[(frame % Len(EpfOrders)) + 1]
ClassicLayers(look, step, skip) ==
    LET parts == SelectSeq(OrderFor(step.frame), LAMBDA part : part \notin skip)
    IN  UnderLayer(look, step.frame, step.tick, skip)
        \o FlattenSeq([i \in DOMAIN parts |->
               ClassicLayer(look, step, parts[i]) \o BesideLayer(look, step.frame, step.tick)])

-----------------------------------------------------------------------------
\* One picture

\* mergeCharMsAndLegacy: a classic layer takes the place that its part has in the pose.
LogicalPart(part) == IF part = "body" THEN "armor" ELSE part
ClassicSlot(part, packed) ==
    IF \E s \in packed.slots : s[1] = part
    THEN (CHOOSE s \in packed.slots : s[1] = part)[2]
    ELSE IF part \in Range(packed.order)
    THEN CHOOSE i \in DOMAIN packed.order : packed.order[i] = part
    ELSE OrderOf(LogicalPart(part)) - 1
Placed(l, packed) ==
    [part |-> LogicalPart(l.part), layer |-> ClassicSlot(l.part, packed),
     order |-> OrderOf(LogicalPart(l.part)), source |-> l.source, sprite |-> l.sprite,
     colors |-> l.colors]
Merged(packed, classic) ==
    Sorted(packed.layers \o [i \in DOMAIN classic |-> Placed(classic[i], packed)], packed.order)
Seen(layers) ==
    [i \in DOMAIN layers |-> [part |-> layers[i].part, source |-> layers[i].source,
                              sprite |-> layers[i].sprite, colors |-> layers[i].colors]]

\* A sprite that the sheet lacks, or a dye of a weapon that no palette is for
Failed == << [failed |-> TRUE] >>
Fails(look, l) ==
    \/ l.sprite[2] \notin 0 .. Sheets[l.sprite[1]] - 1
    \/ l.part = "weapon" /\ look.weaponc >= 255 /\ look.weaponc \notin WeaponDyes
Checked(look, classic, layers) ==
    IF \E l \in Range(classic) : Fails(look, l) THEN Failed ELSE Seen(layers)
Composed(look, step, packed, classic) ==
    Checked(look, classic, IF packed = NoPack THEN classic ELSE Merged(packed, classic))
FromPack(look, step, packed) ==
    Composed(look, step, packed, ClassicLayers(look, step, SkipFor(look, packed)))
\* renderToPng
Picture(look, step, loaded) ==
    FromPack(look, step,
             IF loaded THEN RenderPack(look, step.frame, step.tick) ELSE NoPack)

-----------------------------------------------------------------------------
\* Answers

Refused == << >>
Drawn(look, loaded) ==
    LET steps == Steps(look) IN [i \in DOMAIN steps |-> Picture(look, steps[i], loaded)]
Finished(pictures) == IF Failed \in Range(pictures) THEN Refused ELSE pictures
AnswerTo(look, loaded) ==
    [look |-> look, loaded |-> loaded, pictures |-> Finished(Drawn(look, loaded)),
     file |-> FileOf(Len(Steps(look)))]

\* A body in a dye that there is no palette for fails before the pack is asked for.
Ask(v, look) ==
    /\ asked[v] = NoLook /\ answers = {}
    /\ \/ /\ BodyPalette(look) = NoPalette
          /\ answers' = {[look |-> look, loaded |-> FALSE, pictures |-> Refused,
                          file |-> << >>]}
          /\ UNCHANGED <<pack, asked>>
       \/ /\ BodyPalette(look) # NoPalette /\ pack = "kept"
          /\ answers' = {AnswerTo(look, TRUE)}
          /\ UNCHANGED <<pack, asked>>
       \/ /\ BodyPalette(look) # NoPalette /\ pack # "kept"
          /\ pack' = "loading" /\ asked' = [asked EXCEPT ![v] = look] /\ answers' = {}

\* The load ends, and all who waited are answered: a load that failed is forgotten.
Loaded(loaded) ==
    /\ pack = "loading" /\ answers = {}
    /\ pack' = IF loaded THEN "kept" ELSE "none"
    /\ answers' = {AnswerTo(look, loaded) : look \in Range(asked) \ {NoLook}}
    /\ asked' = [v \in Viewer |-> NoLook]

\* Answers go out before the next step.
Sent == answers # {} /\ answers' = {} /\ UNCHANGED <<pack, asked>>

Init == pack = "none" /\ asked = [v \in Viewer |-> NoLook] /\ answers = {}
Next ==
    \/ \E v \in Viewer : \E look \in Wishes[v] : Ask(v, look)
    \/ \E loaded \in BOOLEAN : Loaded(loaded)
    \/ Sent
Spec == Init /\ [][Next]_characterVars

-----------------------------------------------------------------------------
\* Properties

TypeOK ==
    /\ pack \in {"none", "loading", "kept"}
    /\ asked \in [Viewer -> UNION {Wishes[v] : v \in Viewer} \union {NoLook}]
    /\ \A a \in answers : a.loaded \in BOOLEAN

Given == {a \in answers : a.pictures # Refused}
Positions(picture, part) == {i \in DOMAIN picture : picture[i].part = part}

\* No part is drawn both by the pack and from the classic sheets, whatever mixture of parts
\* the pack holds; the exception is a shield beside a spear, which the code draws again
\* after each part that is left to the sheets (resolveLegacySkip, and the block of
\* two-handed weapons in renderToPng).
DrawnOnce ==
    \A a \in Given : \A k \in DOMAIN a.pictures :
        \A part \in {l.part : l \in Range(a.pictures[k])} :
            \/ Cardinality(Positions(a.pictures[k], part)) = 1
            \/ part = "shield" /\ Steps(a.look)[k].frame \in BesideFrames

\* A worn part is missing only from poses that hide it or that no sheet has it in, never
\* because the pack and the sheets each leave it to the other, and nothing is shown that
\* is not worn (covered, hidden and the ranges of renderToPng).
Complete ==
    \A a \in Given : \A k \in DOMAIN a.pictures :
        LET parts == {l.part : l \in Range(a.pictures[k])}
            frame == Steps(a.look)[k].frame
        IN  /\ "armor" \in parts \/ "body" \in parts
            /\ "head" \in parts <=> (a.look.mode = "head" \/ ~ a.loaded \/ PoseOf(frame) = NoPose)
            /\ (a.look.shield >= 0 /\ frame \in 0 .. 51) => "shield" \in parts
            /\ "shield" \in parts => a.look.shield >= 0
            /\ (WeaponKind(a.look.weapon) = "sword" /\ frame \in 12 .. 31) => "weapon" \in parts
            /\ "weapon" \in parts => a.look.weapon >= 0

\* Hair lies over the face, and every other part where its pose has it, no matter whether the
\* pack or a sheet shows it (compareCharMsCompositeLayersBackToFront, mergeCharMsAndLegacy).
PoseLayer(part, pose) == SlotOf([part |-> part], << >>, pose)
InOrder ==
    \A a \in {x \in Given : x.loaded} : \A k \in DOMAIN a.pictures :
        LET picture == a.pictures[k]
            pose == PoseOf(Steps(a.look)[k].frame)
        IN  pose # NoPose =>
            /\ \A i \in Positions(picture, "hair") : \A j \in Positions(picture, "face") : j < i
            /\ \A i \in DOMAIN picture : \A j \in i + 1 .. Len(picture) :
                  \/ {picture[i].part, picture[j].part} \intersect {"hair", "face"} # {}
                  \/ PoseLayer(picture[i].part, pose) <= PoseLayer(picture[j].part, pose)
                  \/ NoSlot \in {PoseLayer(picture[i].part, pose), PoseLayer(picture[j].part, pose)}

\* The pictures of an answer are a loop: when the number of steps was not cut short, the
\* picture after the last would be the first again, the colours of the classic sheets
\* included; a dyed action plays its frames in the same circle as an undyed one
\* (runAction, getRenderColorPeriod and the reversed branch of pngRender).
Colored(look, step) == ClassicLayers(look, step, {})
Follows(s, t) == \E i \in DOMAIN s : s[i] = t[1] /\ s[(i % Len(s)) + 1] = t[2]
FramesIn(steps) == [i \in DOMAIN steps |-> steps[i].frame]
LoopsClose ==
    \A a \in Given :
        LET steps == Steps(a.look)
            after == Len(steps)
            next == [frame |-> LoopFrame(LoopOf(a.look), a.look.frame, after),
                     tick |-> after \div ColorTickHold, dye |-> -1]
        IN  /\ (~ MovingDye(a.look) /\ ColorPeriod(a.look) < Cap) =>
                  /\ after > 1 => Colored(a.look, next) = Colored(a.look, steps[1])
                  /\ after = 1 => Colored(a.look, [steps[1] EXCEPT !.tick = 1])
                                      = Colored(a.look, steps[1])
            /\ MovingDye(a.look) =>
                  LET plain == FramesIn([i \in 1 .. 4 |->
                                   [frame |-> LoopFrame(LoopOf(a.look), a.look.frame, i - 1)]])
                  IN  \A i \in 1 .. after :
                         Follows(plain, << steps[i].frame, steps[(i % after) + 1].frame >>)

\* The file of an answer declares as many pictures as it holds, in chunks whose numbers
\* follow each other (makeAPNGBase64).
FileWhole ==
    \A a \in Given :
        LET numbered == SelectSeq(a.file, LAMBDA c : c.type \in {"fcTL", "fdAT"})
        IN  /\ a.file # << >> =>
                  /\ a.file[2].frames = Len(a.pictures)
                  /\ Len(SelectSeq(a.file, LAMBDA c : c.type = "fcTL")) = Len(a.pictures)
            /\ \A i \in DOMAIN numbered : numbered[i].number = i - 1

\* Whoever waits, waits for a load that is under way, so a load that failed is not the end
\* of the pack; with the pack at hand no answer does without it (loadCharMsAssets).
LoadsShared ==
    /\ (\E v \in Viewer : asked[v] # NoLook) <=> pack = "loading"
    /\ pack = "kept" => \A a \in Given : a.loaded

\* Only a fan's first item at the first frame of its stance has no sprite: no other picture
\* fails (the ranges and offsets of renderToPng).
SpritesHeld ==
    \A a \in answers :
        a.pictures = Refused =>
            \/ BodyPalette(a.look) = NoPalette
            \/ a.look.weaponc >= 255 /\ a.look.weaponc \notin WeaponDyes
            \/ /\ WeaponKind(a.look.weapon) = "fan"
               /\ RowOf("fan", WeaponItem(a.look.weapon)).first = 0
               /\ \E s \in Range(Steps(a.look)) : s.frame = 12
=============================================================================
