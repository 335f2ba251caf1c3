------------------------------ MODULE Campfires ------------------------------
(***************************************************************************)
(* The campfires of a channel (channel/campfire-store.ts, and its callers  *)
(* in channel.service.ts and channel.gateway.ts).  They burn in memory for *)
(* half an hour and are written to a file, from which a new process takes  *)
(* those that still burn.  Writing may fail; the process may stop at any   *)
(* time.                                                                   *)
(***************************************************************************)
EXTENDS Integers, FiniteSets

CONSTANTS
    Open,        \* the walkable tiles, pairs of coordinates
    Clearance,   \* CAMPFIRE_CLEARANCE, in tiles
    Lifetime,    \* CAMPFIRE_LIFETIME_MS, in ticks
    MaxFires,    \* the limit of 200
    MaxTime

VARIABLES
    clock,
    fires,       \* CampfireStore.fires
    file,        \* what the file holds
    announced    \* the fires that 'campfire-placed' told the players of

campfireVars == <<clock, fires, file, announced>>

-----------------------------------------------------------------------------
Fire == [at : Open, ends : 0 .. MaxTime + Lifetime]

Apart(n, m) == IF n < m THEN m - n ELSE n - m

Near(p, q) == Apart(p[1], q[1]) <= Clearance /\ Apart(p[2], q[2]) <= Clearance

\* list, and the filters of the constructor and of expire
Burning(s) == {f \in s : f.ends > clock}

\* What place does once the expired fires are gone: the new fire, or an error.
Allowed(p) ==
    /\ \A f \in Burning(fires) : ~Near(f.at, p)
    /\ Cardinality(Burning(fires)) < MaxFires

New(p) == [at |-> p, ends |-> clock + Lifetime]

\* A bug: the new fire is not written.
PlaceUnsaved(p) ==
    /\ Allowed(p)
    /\ fires' = Burning(fires) \union {New(p)}
    /\ file' = IF Burning(fires) # fires THEN Burning(fires) ELSE file
    /\ announced' = announced \union {New(p)}
    /\ UNCHANGED clock

\* handleCampfire and placeCampfire, for a player who faces tile p: the file is written
\* before the players are told.
Place(p) ==
    /\ Allowed(p)
    /\ fires' = Burning(fires) \union {New(p)}
    /\ file' = fires'
    /\ announced' = announced \union {New(p)}
    /\ UNCHANGED clock

\* The save that expire makes is done, and the place itself is refused.
Refuse(p) ==
    /\ ~Allowed(p)
    /\ fires' = Burning(fires)
    /\ file' = IF fires' # fires THEN fires' ELSE file
    /\ UNCHANGED <<clock, announced>>

\* A save fails, that of expire or that of the new fire: the list in memory has changed by
\* then, and the player is told of an error only.
PlaceFails(p) ==
    /\ \/ /\ Burning(fires) # fires
          /\ fires' = Burning(fires)
          /\ file' = file
       \/ /\ Allowed(p)
          /\ fires' = Burning(fires) \union {New(p)}
          /\ file' = IF Burning(fires) # fires THEN Burning(fires) ELSE file
    /\ UNCHANGED <<clock, announced>>

\* removeExpiredCampfires, from the presence sweep
Sweep ==
    /\ Burning(fires) # fires
    /\ fires' = Burning(fires)
    /\ file' = fires'
    /\ UNCHANGED <<clock, announced>>

\* The constructor
Load(saved) == fires' = Burning(saved)

\* The process stops, whatever it was doing; a failed save in the sweep, which nobody
\* catches, stops it as well.
Restart ==
    /\ Load(file)
    /\ UNCHANGED <<clock, file, announced>>

\* It stops after the file was renamed and before anybody was told.
PlaceUntold(p) ==
    /\ Allowed(p)
    /\ file' = Burning(fires) \union {New(p)}
    /\ Load(file')
    /\ UNCHANGED <<clock, announced>>

Tick ==
    /\ clock < MaxTime
    /\ clock' = clock + 1
    /\ UNCHANGED <<fires, file, announced>>

Init ==
    /\ clock = 0
    /\ fires = {}
    /\ file = {}
    /\ announced = {}

Next ==
    \/ \E p \in Open : Place(p) \/ Refuse(p) \/ PlaceFails(p) \/ PlaceUntold(p)
    \/ Sweep
    \/ Restart
    \/ Tick

Spec == Init /\ [][Next]_campfireVars
-----------------------------------------------------------------------------
\* Properties

TypeOK ==
    /\ clock \in 0 .. MaxTime
    /\ fires \subseteq Fire /\ Cardinality(fires) <= MaxFires
    /\ file \subseteq Fire
    /\ announced \subseteq Fire

\* A fire the players were told of burns for its whole life, through failed writes of
\* others and through restarts, in memory and in the file; and meanwhile no other fire
\* burns near it.
FiresLast ==
    /\ Burning(announced) \subseteq fires \intersect file
    /\ \A f, g \in Burning(fires) : f # g => ~Near(f.at, g.at)
=============================================================================
