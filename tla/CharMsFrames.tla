---------------------------- MODULE CharMsFrames ----------------------------
(***************************************************************************)
(* The pictures that the pack of sprites char-ms holds (lib/char-ms): how  *)
(* a number of a frame becomes a pose, what a character wears, which frame *)
(* of which atlas shows a part in that pose, and in what order the parts   *)
(* are laid over each other.  A state is a pair of what is done and with   *)
(* which weapon; a token is a frame of the world and a layer; what an item *)
(* has of an atlas is the set of its frames.                               *)
(***************************************************************************)
EXTENDS Integers, Sequences, FiniteSets, FiniteSetsExt, SequencesExt

CONSTANTS
    Atlases,  \* [label, part, sequence, items, actions, cycles], in the order of the pack
    Orders    \* by frame of the world, the classic parts from the back to the front

-----------------------------------------------------------------------------
\* Poses

StatePriority ==
    << <<"stand", "">>, <<"stand", "sword">>, <<"stand", "spear">>, <<"stand", "fan">>,
       <<"stand", "bow">>, <<"stand", "riding">>, <<"walk", "">>, <<"walk", "sword">>,
       <<"walk", "spear">>, <<"walk", "fan">>, <<"walk", "bow">>, <<"walk", "riding">>,
       <<"attack", "">>, <<"attack", "spear">>, <<"attack", "bow">>, <<"throw", "">>,
       <<"cast", "">>, <<"get", "">>, <<"eat", "">> >>

\* The frames that an atlas claims, in the order of its claims
Ranked(actions) ==
    FlattenSeq([i \in DOMAIN StatePriority |->
                   SelectSeq(actions, LAMBDA a : a.state = StatePriority[i])])
    \o SelectSeq(actions, LAMBDA a : a.state \notin Range(StatePriority))
ClaimsOf(atlas) ==
    LET turned == SelectSeq(Ranked(atlas.actions), LAMBDA a : a.direction >= 1)
    IN  FlattenSeq([i \in DOMAIN turned |->
            [t \in DOMAIN turned[i].frames |->
                [frame |-> turned[i].frames[t].frame - 1,
                 pose |-> [state |-> turned[i].state, direction |-> turned[i].direction,
                           tick |-> t - 1]]]])
PoseSources == <<"armor", "head", "hair", "face">>
Claims ==
    FlattenSeq([i \in DOMAIN PoseSources |->
        FlattenSeq([j \in DOMAIN Atlases |->
            IF Atlases[j].label = PoseSources[i] THEN ClaimsOf(Atlases[j]) ELSE << >>])])

\* resolveCharMsPose: the first claim to a frame has it.
NoPose == [none |-> TRUE]
PoseOf(frame) ==
    IF \E c \in Range(Claims) : c.frame = frame
    THEN SelectSeq(Claims, LAMBDA c : c.frame = frame)[1].pose
    ELSE NoPose

-----------------------------------------------------------------------------
\* Actions

\* getAction: no action and an action without frames are the same to all callers.
FramesOf(atlas, state, direction) ==
    LET found == SelectSeq(atlas.actions,
                           LAMBDA a : a.state = state /\ a.direction = direction)
    IN  IF found = << >> THEN << >> ELSE Last(found).frames

\* A pose with a weapon that another atlas keeps under the pose alone
Stances == {"stand", "walk", "attack"} \X {"sword", "spear", "bow", "fan"}
Reuses(part, state) ==
    /\ state \in Stances
    /\ \/ part \in {"head", "hair", "face", "weapon"}
       \/ part = "shield" /\ state[2] \in {"sword", "fan"}
       \/ part = "armor" /\ state \in {<<"attack", "sword">>, <<"attack", "fan">>}
ResolveAction(atlas, state, direction) ==
    IF atlas.part = "weapon" /\ state \in {<<"stand", "">>, <<"walk", "">>} THEN << >>
    ELSE IF FramesOf(atlas, state, direction) # << >> THEN FramesOf(atlas, state, direction)
    ELSE IF Reuses(atlas.part, state) THEN FramesOf(atlas, <<state[1], "">>, direction)
    ELSE << >>

\* resolveActionForPart: a shield beside a spear is held as with a sword.
ActionForPart(atlas, state, direction) ==
    IF /\ ResolveAction(atlas, state, direction) = << >>
       /\ atlas.part = "shield" /\ state \in Stances /\ state[2] = "spear"
    THEN FramesOf(atlas, <<state[1], "">>, direction)
    ELSE ResolveAction(atlas, state, direction)

\* peerStatesFor: the poses that may stand in for one that an armor lacks
PeerStates(state) ==
    CASE state \in {"stand", "walk"} \X {"sword", "fan", "spear"} ->
            SelectSeq([i \in 1 .. 3 |-> <<state[1], <<"sword", "fan", "spear">>[i]>>],
                      LAMBDA peer : peer # state)
      [] state \in {<<"attack", "">>, <<"throw", "">>} -> << <<"attack", "spear">> >>
      [] state = <<"attack", "spear">> -> << <<"attack", "">>, <<"throw", "">> >>
      [] OTHER -> << >>

-----------------------------------------------------------------------------
\* Items

TokenAt(frames, tick) == frames[(tick % Len(frames)) + 1]
NoFrame == [none |-> TRUE]

\* resolveCharMsItemFrame, and resolveDirectFrame for the action that a shield borrows:
\* the token is that of the pose, and a peer lends the frame only.
Shown(atlas, item, tokens) ==
    LET held == SelectSeq(tokens, LAMBDA t : t.frame \in atlas.items[item])
    IN  IF held = << >> THEN NoFrame
        ELSE [atlas |-> atlas.label, frame |-> held[1].frame, layer |-> tokens[1].layer,
              world |-> tokens[1].frame]
TokensOf(lists, tick) ==
    LET index == tick % Len(lists[1]) IN [i \in DOMAIN lists |-> TokenAt(lists[i], index)]
FoundIn(atlas, item, lists, tick) ==
    IF lists = << >> THEN NoFrame ELSE Shown(atlas, item, TokensOf(lists, tick))
ItemFrame(atlas, item, pose) ==
    LET peers == IF atlas.part = "armor" THEN PeerStates(pose.state) ELSE << >>
        lists == << ActionForPart(atlas, pose.state, pose.direction) >>
                 \o [i \in DOMAIN peers |-> FramesOf(atlas, peers[i], pose.direction)]
    IN  FoundIn(atlas, item, SelectSeq(lists, LAMBDA l : l # << >>), pose.tick)

\* atlasesByLogicalPart and atlasesForItem
AtlasesOf(part) ==
    SortSeq(SelectSeq(Atlases, LAMBDA a : a.part = part),
            LAMBDA a, b : a.sequence < b.sequence)
AtlasesFor(part, item) == SelectSeq(AtlasesOf(part), LAMBDA a : item \in DOMAIN a.items)

-----------------------------------------------------------------------------
\* What is worn

PartOrder == <<"riding", "weapon", "armor", "head", "face", "hair", "shield">>
Worn(look, part) ==
    CASE part \in {"riding", "weapon", "shield"} -> look[part] >= 0
      [] part \in {"face", "hair"} -> look.mode = "face-hair" /\ look[part] >= 0
      [] part = "head" -> look.mode = "head"
      [] OTHER -> TRUE
\* The classic part, its colour, and the dye
PlanFor(look, part) ==
    CASE part = "weapon" -> [part |-> part, legacy |-> "weapon", item |-> look.weapon,
                             color |-> look.weaponc, dye |-> look.weaponDye]
      [] part = "armor" -> [part |-> part, legacy |-> "body", item |-> look.body,
                            color |-> look.bodyc, dye |-> look.bodyDye]
      [] part = "head" -> [part |-> part, legacy |-> "head", item |-> look.head,
                           color |-> look.headc, dye |-> 0]
      [] part = "shield" -> [part |-> part, legacy |-> "shield", item |-> look.shield,
                             color |-> look.shieldc, dye |-> 0]
      [] OTHER -> [part |-> part, legacy |-> "", item |-> look[part], color |-> 0, dye |-> 0]
Plans(look) ==
    LET worn == SelectSeq(<<"riding", "weapon", "armor", "face", "hair", "head", "shield">>,
                          LAMBDA part : Worn(look, part))
    IN  [i \in DOMAIN worn |-> PlanFor(look, worn[i])]
Supported(plan) == plan.legacy = "" \/ plan.color < 255

-----------------------------------------------------------------------------
\* renderCharMsLayers

NoSlot == -1
SlotOf(plan, group, pose) ==
    LET all == group \o AtlasesOf(plan.part)
        frames == IF all = << >> THEN << >>
                  ELSE ActionForPart(all[1], pose.state, pose.direction)
    IN  IF frames = << >> THEN NoSlot ELSE TokenAt(frames, pose.tick).layer
Cycle(atlas, plan, tick) ==
    IF <<plan.item, plan.dye>> \in DOMAIN atlas.cycles
    THEN tick % atlas.cycles[<<plan.item, plan.dye>>] ELSE 0

\* What became of a part: drawn, hidden by its pose or left to the classic sheets
Left(plan, slot) == [plan |-> plan, fate |-> "left", slot |-> slot]
Outcome(plan, group, pose, tick) ==
    LET able == SelectSeq(group, LAMBDA a : ActionForPart(a, pose.state, pose.direction) # << >>)
        hits == SelectSeq(able, LAMBDA a : ItemFrame(a, plan.item, pose) # NoFrame)
    IN  CASE group = << >> \/ ~ Supported(plan) -> Left(plan, SlotOf(plan, group, pose))
          [] OTHER ->
              CASE able = << >> ->
                      [plan |-> plan, fate |-> "hidden", slot |-> SlotOf(plan, group, pose)]
                [] hits # << >> ->
                      LET shown == ItemFrame(hits[1], plan.item, pose)
                      IN  [plan |-> plan, fate |-> "drawn", slot |-> shown.layer,
                           shown |-> shown, cycle |-> Cycle(hits[1], plan, tick)]
                [] OTHER -> Left(plan, SlotOf(plan, group, pose))
Outcomes(look, pose, tick) ==
    LET plans == Plans(look)
    IN  [i \in DOMAIN plans |->
            Outcome(plans[i], AtlasesFor(plans[i].part, plans[i].item), pose, tick)]

OrderOf(part) == CHOOSE i \in DOMAIN PartOrder : PartOrder[i] = part
DrawnOf(outcomes) == SelectSeq(outcomes, LAMBDA o : o.fate = "drawn")
PackLayers(drawn) ==
    [i \in DOMAIN drawn |->
        [part |-> drawn[i].plan.part, layer |-> drawn[i].shown.layer,
         order |-> OrderOf(drawn[i].plan.part), source |-> "char-ms",
         sprite |-> <<drawn[i].shown.atlas, drawn[i].shown.frame>>,
         colors |-> <<drawn[i].plan.color, drawn[i].plan.dye, drawn[i].cycle>>]]
LegacyWith(outcomes, fate) ==
    {o.plan.legacy : o \in {x \in Range(outcomes) : x.fate = fate}} \ {""}

\* The order of the classic parts is that of the frame of the armor, the head or the first.
WorldFrame(drawn, frame) ==
    LET first == SelectSeq(drawn, LAMBDA o : o.plan.part = "armor")
                 \o SelectSeq(drawn, LAMBDA o : o.plan.part = "head") \o drawn
    IN  IF first = << >> THEN frame + 1 ELSE first[1].shown.world
ClassicOrder(drawn, frame) == Orders[((WorldFrame(drawn, frame) - 1) % Len(Orders)) + 1]

NoPack == [none |-> TRUE]
OfPack(outcomes, frame) ==
    [layers |-> PackLayers(DrawnOf(outcomes)),
     covered |-> LegacyWith(outcomes, "drawn"), hidden |-> LegacyWith(outcomes, "hidden"),
     slots |-> {<<o.plan.legacy, o.slot>> : o \in {x \in Range(outcomes) : x.slot # NoSlot}},
     order |-> ClassicOrder(DrawnOf(outcomes), frame)]
RenderPack(look, frame, tick) ==
    IF PoseOf(frame) = NoPose THEN NoPack
    ELSE OfPack(Outcomes(look, PoseOf(frame), tick), frame)

-----------------------------------------------------------------------------
\* compareCharMsCompositeLayersBackToFront, and the stable sort by it

ClassicPart(part) ==
    CASE part = "armor" -> "body" [] part \in {"head", "hair", "face"} -> "head"
      [] OTHER -> part
Rank(a, order) ==
    IF ClassicPart(a.part) \in Range(order)
    THEN CHOOSE i \in DOMAIN order : order[i] = ClassicPart(a.part)
    ELSE 100 + a.order
Before(a, b, order) ==
    IF {a.part, b.part} = {"hair", "face"} THEN a.part = "face"
    ELSE \/ a.layer < b.layer
         \/ /\ a.layer = b.layer
            /\ \/ Rank(a, order) < Rank(b, order)
               \/ Rank(a, order) = Rank(b, order) /\ a.order < b.order
Inserted(layers, a, order) ==
    InsertAt(layers,
             Min({i \in DOMAIN layers : Before(a, layers[i], order)} \union {Len(layers) + 1}),
             a)
Sorted(layers, order) == FoldLeft(LAMBDA acc, a : Inserted(acc, a, order), << >>, layers)
=============================================================================
