----------------------------- MODULE ChannelWorld -----------------------------
(***************************************************************************)
(* What happens on the map of one channel (channel.service.ts,             *)
(* map-collision.ts, and the handlers of channel.gateway.ts): its          *)
(* participants walk, wild monsters roam and are struck down, everybody    *)
(* may set up one training dummy and beat those of others.  A handler or   *)
(* a round of the monster loop is one step, and tells the room of what it  *)
(* changed; `screens` is what the clients make of this.                    *)
(* Positions are tiles: clients ask for steps of a whole tile.  Those who  *)
(* only chat (the lobby, which has no place on the map) are left out.      *)
(***************************************************************************)
EXTENDS Integers, FiniteSets, FiniteSetsExt

CONSTANTS
    Socket,
    Wild, Dummy,           \* ids of wild monsters (as many as the presets want) and dummies
    NoSocket, Nothing,     \* the owner of a wild monster; nobody and no monster
    Width, Height,         \* the map, in tiles
    Blocked,               \* noMove: the tiles nobody can stand on
    Walls,                 \* edgeMask: pairs of a tile and the side of it that is walled
    Center,                \* where newcomers appear
    Steps,                 \* the moves that clients ask for
    MoveTicks, RideTicks,  \* MOVE_COOLDOWN_MS and RIDE_MOVE_COOLDOWN_MS, in ticks
    MaxMonsters,
    SpellRange,            \* TRAINING_DUMMY_SPELL_RANGE_TILES
    FullHp                 \* the points of a new dummy

VARIABLES
    seats,     \* participants: where each stands
    cool,      \* lastMovedAt and lastDummyDamagedAtBySocketId, as the time since
    monsters,
    screens    \* screens[s]: the participants and monsters that the client of s shows

worldVars == <<seats, cool, monsters, screens>>

-----------------------------------------------------------------------------
\* The map

Direction == {"up", "down", "left", "right"}
Tile == (0 .. Width - 1) \X (0 .. Height - 1)
Ground == Tile \ Blocked

Delta == [up |-> <<0, -1>>, down |-> <<0, 1>>, left |-> <<-1, 0>>, right |-> <<1, 0>>]
Opposite == [up |-> "down", down |-> "up", left |-> "right", right |-> "left"]

Plus(t, d) == <<t[1] + d[1], t[2] + d[2]>>

Within(n, size) == IF n < 0 THEN 0 ELSE IF n >= size THEN size - 1 ELSE n
Clamped(t) == <<Within(t[1], Width), Within(t[2], Height)>>

Apart(n, m) == IF n < m THEN m - n ELSE n - m
Distance(t, u) == LET x == Apart(t[1], u[1])
                      y == Apart(t[2], u[2])
                  IN  IF x < y THEN y ELSE x

CanCross(t, d) ==
    LET u == Plus(t, Delta[d])
    IN  u \in Ground /\ <<t, d>> \notin Walls /\ <<u, Opposite[d]>> \notin Walls

\* A step along one axis heeds the walls between two tiles, any other only the tile.
CanTraverse(t, step) ==
    IF \E d \in Direction : Delta[d] = step
    THEN CanCross(t, CHOOSE d \in Direction : Delta[d] = step)
    ELSE Clamped(Plus(t, step)) \in Ground

\* findNearbyWalkableTile: ring by ring, row by row
Nearer(t, u, v) ==
    \/ Distance(t, u) < Distance(t, v)
    \/ /\ Distance(t, u) = Distance(t, v)
       /\ u[2] < v[2] \/ (u[2] = v[2] /\ u[1] < v[1])
Rank(t, u) == Cardinality({v \in Ground : Nearer(t, v, u)})
Nearby(t, index) ==
    IF index < Cardinality(Ground) THEN CHOOSE u \in Ground : Rank(t, u) = index ELSE t

-----------------------------------------------------------------------------
\* Participants, monsters and screens

Walker == [at : Tile, dir : Direction, jump : BOOLEAN]
Cooldown == [rest : 0 .. MoveTicks, struck : BOOLEAN]
Rested == [rest |-> MoveTicks, struck |-> FALSE]
Monster == [owner : Socket \union {NoSocket}, at : Tile, dir : Direction, hp : 0 .. FullHp]
Id == Wild \union Dummy

Here == {s \in Socket : seats[s] # Nothing}
Alive(ms) == {m \in Id : ms[m] # Nothing}
OwnedBy(s) == {m \in Dummy : monsters[m] # Nothing /\ monsters[m].owner = s}

Blank == [seats |-> [s \in Socket |-> Nothing], monsters |-> [m \in Id |-> Nothing]]

\* The room hears of the participants in P and the monsters in M; who left shows nothing.
Tells(P, M) ==
    screens' = [v \in Socket |->
        IF seats'[v] = Nothing THEN Blank
        ELSE [seats |-> [s \in Socket |-> IF s \in P THEN seats'[s] ELSE screens[v].seats[s]],
              monsters |-> [m \in Id |-> IF m \in M THEN monsters'[m]
                                         ELSE screens[v].monsters[m]]]]

\* addMember- or addGuestParticipant, the bootstrap, and 'participant-joined'
Join(s) ==
    /\ s \notin Here
    /\ seats' = [seats EXCEPT ![s] = [at |-> Nearby(Center, Cardinality(Here)),
                                      dir |-> "down", jump |-> FALSE]]
    /\ screens' = [v \in Socket |->
          IF v = s THEN [seats |-> seats', monsters |-> monsters]
          ELSE IF v \in Here THEN [screens[v] EXCEPT !.seats[s] = seats'[s]]
          ELSE screens[v]]
    /\ UNCHANGED <<cool, monsters>>

\* A bug: the dummies of who leaves are taken away and nobody is told.
LeaveSilently(s) ==
    /\ s \in Here
    /\ seats' = [seats EXCEPT ![s] = Nothing]
    /\ cool' = [cool EXCEPT ![s] = Rested]
    /\ monsters' = [m \in Id |-> IF m \in OwnedBy(s) THEN Nothing ELSE monsters[m]]
    /\ Tells({s}, {})

\* handleDisconnect: removeParticipant and removeTrainingDummiesOwnedBy
Leave(s) ==
    /\ s \in Here
    /\ seats' = [seats EXCEPT ![s] = Nothing]
    /\ cool' = [cool EXCEPT ![s] = Rested]
    /\ monsters' = [m \in Id |-> IF m \in OwnedBy(s) THEN Nothing ELSE monsters[m]]
    /\ Tells({s}, OwnedBy(s))

-----------------------------------------------------------------------------
\* moveParticipant

\* Whoever turns waits for the whole cooldown, and riders otherwise for the shorter one.
Cooling(s, m) ==
    \/ m.dir # seats[s].dir /\ cool[s].rest < MoveTicks
    \/ cool[s].rest < IF m.riding THEN RideTicks ELSE MoveTicks

\* Where this leads to is refused, or there is no step at all.
Stays(s, m) == m.step = <<0, 0>> \/ ~CanTraverse(seats[s].at, m.step)

\* Only the jump is heeded.
Hop(s, m) ==
    /\ s \in Here
    /\ Cooling(s, m) /\ m.jump # seats[s].jump
    /\ seats' = [seats EXCEPT ![s].jump = m.jump]
    /\ UNCHANGED <<cool, monsters>>
    /\ Tells({s}, {})

Turn(s, m) ==
    /\ s \in Here
    /\ ~Cooling(s, m) /\ Stays(s, m)
    /\ m.dir # seats[s].dir \/ m.jump # seats[s].jump
    /\ seats' = [seats EXCEPT ![s].dir = m.dir, ![s].jump = m.jump]
    /\ UNCHANGED <<cool, monsters>>
    /\ Tells({s}, {})

Walk(s, m) ==
    /\ s \in Here
    /\ ~Cooling(s, m) /\ ~Stays(s, m)
    /\ seats' = [seats EXCEPT ![s] = [at |-> Clamped(Plus(@.at, m.step)),
                                      dir |-> m.dir, jump |-> m.jump]]
    /\ cool' = [cool EXCEPT ![s].rest = 0]
    /\ UNCHANGED monsters
    /\ Tells({s}, {})

\* Time passes: a tick is 120 ms, longer than the cooldown of a blow.
Tick ==
    /\ cool' = [s \in Socket |-> [rest |-> Within(cool[s].rest + 1, MoveTicks + 1),
                                  struck |-> FALSE]]
    /\ UNCHANGED <<seats, monsters, screens>>

-----------------------------------------------------------------------------
\* Wild monsters

\* updateParticipantRender with a new attack: of the wild monsters in front, the first
\* falls; 'participant-updated' tells of looks that are left out here.
Strike(s, m) ==
    /\ s \in Here /\ m \in Wild
    /\ monsters[m] # Nothing
    /\ monsters[m].at = Plus(seats[s].at, Delta[seats[s].dir])
    /\ monsters' = [monsters EXCEPT ![m] = Nothing]
    /\ UNCHANGED <<seats, cool>>
    /\ Tells({}, {m})

\* A bug: the limit of the map is not heeded.
RefilledFull(ms) ==
    {ms} \union
    {[ms EXCEPT ![m] = [owner |-> NoSocket, at |-> t, dir |-> "down", hp |-> 0]] :
        m \in {x \in Wild : ms[x] = Nothing}, t \in Ground}

\* maintainMonsterPopulation: missing monsters appear, unless the map is full.
Refilled(ms) ==
    {ms} \union
    {[ms EXCEPT ![m] = [owner |-> NoSocket, at |-> t, dir |-> "down", hp |-> 0]] :
        m \in {x \in Wild : ms[x] = Nothing /\ Cardinality(Alive(ms)) < MaxMonsters},
        t \in Ground}

\* getNextMonsterPosition: through any open side, and if there is none it may turn.
Wanders(w) ==
    LET ways == {d \in Direction : CanCross(w.at, d)}
    IN  IF ways = {} THEN {[w EXCEPT !.dir = d] : d \in Direction}
        ELSE {[w EXCEPT !.at = Plus(w.at, Delta[d]), !.dir = d] : d \in ways}

\* The rounds of the monster loop, monster by monster: a missing one appears, or one
\* that is due moves.
MonsterLoop ==
    /\ \/ monsters' \in Refilled(monsters) \ {monsters}
       \/ \E m \in Wild \intersect Alive(monsters) : \E w \in Wanders(monsters[m]) :
             monsters' = [monsters EXCEPT ![m] = w]
    /\ UNCHANGED <<seats, cool>>
    /\ Tells({}, {m \in Id : monsters'[m] # monsters[m]})

-----------------------------------------------------------------------------
\* Training dummies

Occupied(ms, t) == \/ \E m \in Alive(ms) : ms[m].at = t
                   \/ \E s \in Here : seats[s].at = t

\* findTrainingDummyPosition: the tile in front, else the nearest free one.
DummyTile(ms, w) ==
    LET front == Clamped(Plus(w.at, Delta[w.dir]))
        free == {i \in 0 .. 23 : /\ Nearby(front, i) # w.at
                                 /\ ~Occupied(ms, Nearby(front, i))}
    IN  IF front \in Ground /\ ~Occupied(ms, front) THEN front
        ELSE IF free = {} THEN front
        ELSE Nearby(front, Min(free))

\* spawnTrainingDummy: it replaces the one that the player has, whose removal is told first.
SpawnDummy(s, m) ==
    LET rest == [x \in Id |-> IF x \in OwnedBy(s) THEN Nothing ELSE monsters[x]]
    IN  /\ s \in Here /\ m \in Dummy
        /\ monsters[m] = Nothing
        /\ Cardinality(Alive(rest)) < MaxMonsters
        /\ monsters' = [rest EXCEPT ![m] = [owner |-> s, at |-> DummyTile(rest, seats[s]),
                                            dir |-> Opposite[seats[s].dir], hp |-> FullHp]]
        /\ UNCHANGED <<seats, cool>>
        /\ Tells({}, OwnedBy(s) \union {m})

Beats(s, m, reach) ==
    /\ s \in Here /\ m \in Dummy
    /\ monsters[m] # Nothing
    /\ ~cool[s].struck
    /\ Distance(monsters[m].at, seats[s].at) <= reach
    /\ cool' = [cool EXCEPT ![s].struck = TRUE]

\* damageTrainingDummy with a blow (reach 1) or a spell; a miss does no damage.
Damage(s, m, reach, damage) ==
    /\ Beats(s, m, reach)
    /\ damage < monsters[m].hp
    /\ monsters' = [monsters EXCEPT ![m].hp = @ - damage]
    /\ UNCHANGED seats
    /\ Tells({}, {m})

Kill(s, m, reach, damage) ==
    /\ Beats(s, m, reach)
    /\ damage >= monsters[m].hp
    /\ monsters' = [monsters EXCEPT ![m] = Nothing]
    /\ UNCHANGED seats
    /\ Tells({}, {m})

-----------------------------------------------------------------------------
Init ==
    /\ seats = [s \in Socket |-> Nothing]
    /\ cool = [s \in Socket |-> Rested]
    /\ monsters = [m \in Id |-> Nothing]
    /\ screens = [s \in Socket |-> Blank]

Next ==
    \/ \E s \in Socket :
          \/ Join(s) \/ Leave(s)
          \/ \E m \in Steps : Hop(s, m) \/ Turn(s, m) \/ Walk(s, m)
          \/ \E m \in Id :
                \/ Strike(s, m) \/ SpawnDummy(s, m)
                \/ \E reach \in {1, SpellRange}, damage \in {0, 1, FullHp} :
                      Damage(s, m, reach, damage) \/ Kill(s, m, reach, damage)
    \/ MonsterLoop
    \/ Tick

Spec == Init /\ [][Next]_worldVars
-----------------------------------------------------------------------------
\* Properties

TypeOK ==
    /\ seats \in [Socket -> Walker \union {Nothing}]
    /\ cool \in [Socket -> Cooldown]
    /\ monsters \in [Id -> Monster \union {Nothing}]
    /\ Cardinality(Alive(monsters)) <= MaxMonsters

\* Whatever is walked, hit, replaced, killed or left behind, every client shows the
\* participants and monsters that the server has; a dummy belongs to somebody who is
\* here, who has no other; and whoever moves by himself stands on open ground.
WorldAgrees ==
    /\ \A s \in Here : screens[s] = [seats |-> seats, monsters |-> monsters]
    /\ \A s \in Socket : Cardinality(OwnedBy(s)) <= IF s \in Here THEN 1 ELSE 0
    /\ \A s \in Here : seats[s].at \in Ground
    /\ \A m \in Wild \intersect Alive(monsters) : monsters[m].at \in Ground
=============================================================================
