----------------------------- MODULE RouteSearch -----------------------------
(***************************************************************************)
(* The shortest way from one map to another (map/navi/navi.service.ts).    *)
(* Maps are joined by portals, and the maps of a world map group by the    *)
(* world map; several maps may bear one name, and a search starts at all   *)
(* maps of its name at once.  One step looks at one connection, in any     *)
(* order that the stored lists may have.                                   *)
(***************************************************************************)
EXTENDS Integers, Sequences, FiniteSets, Functions

CONSTANTS
    Map,        \* map codes
    Name,
    NameOf,     \* codeToName
    Portals,    \* the portals that may exist: pairs of maps
    Groups,     \* the world map groups that may exist: sets of names
    NoRoute

VARIABLES
    links,      \* graph: the pairs of maps that are joined
    starts, finishes,
    queue,      \* maps whose connections are still to be looked at, the first one in hand
    seen,       \* the connections of that map that were looked at
    previous,   \* from which map a visited one was reached; a start from itself
    route       \* the answer, << >> until there is one

routeVars == <<links, starts, finishes, queue, seen, previous, route>>

-----------------------------------------------------------------------------
Codes(name) == {m \in Map : NameOf[m] = name}   \* nameToCodes

\* buildGraph: portals lead one way, a group joins all maps of its names both ways.
Graph(portals, group) ==
    portals \union {l \in Map \X Map : /\ l[1] # l[2]
                                       /\ NameOf[l[1]] \in group
                                       /\ NameOf[l[2]] \in group}

Visited == DOMAIN previous
From(m) == {n \in Map : <<m, n>> \in links}

\* restoreRoute: back to a start
Restored(m) ==
    LET back[n \in Visited] == IF n \in starts THEN <<n>> ELSE Append(back[previous[n]], n)
    IN  back[m]

-----------------------------------------------------------------------------
\* The search begins; it has ended at once if a start is a finish.
Init ==
    \E portals \in SUBSET Portals, group \in Groups, from, to \in Name :
        /\ links = Graph(portals, group)
        /\ starts = Codes(from) /\ finishes = Codes(to)
        /\ queue \in Bijection(1 .. Cardinality(starts), starts)
        /\ seen = {}
        /\ previous = [m \in starts |-> m]
        /\ IF starts \intersect finishes = {} THEN route = << >>
           ELSE \E m \in starts \intersect finishes : route = <<m>>

Searching == route = << >> /\ queue # << >>
Unseen == From(Head(queue)) \ seen

\* A bug: new maps are looked at before those that wait, as with a stack.
LookDeep(n) ==
    /\ Searching /\ n \in Unseen
    /\ n \notin Visited
    /\ previous' = [m \in Visited \union {n} |-> IF m = n THEN Head(queue) ELSE previous[m]]
    /\ seen' = seen \union {n}
    /\ IF n \in finishes
       THEN route' = Append(Restored(Head(queue)), n) /\ queue' = queue
       ELSE route' = route /\ queue' = <<Head(queue), n>> \o Tail(queue)
    /\ UNCHANGED <<links, starts, finishes>>

\* A new map is entered from the one in hand; if it is a finish, the route is restored.
Look(n) ==
    /\ Searching /\ n \in Unseen
    /\ n \notin Visited
    /\ previous' = [m \in Visited \union {n} |-> IF m = n THEN Head(queue) ELSE previous[m]]
    /\ seen' = seen \union {n}
    /\ IF n \in finishes
       THEN route' = Append(Restored(Head(queue)), n) /\ queue' = queue
       ELSE route' = route /\ queue' = Append(queue, n)
    /\ UNCHANGED <<links, starts, finishes>>

\* It was visited already.
Skip(n) ==
    /\ Searching /\ n \in Unseen
    /\ n \in Visited
    /\ seen' = seen \union {n}
    /\ UNCHANGED <<links, starts, finishes, queue, previous, route>>

\* All connections of the map in hand were looked at; after the last map there is no route.
Advance ==
    /\ Searching /\ Unseen = {}
    /\ queue' = Tail(queue)
    /\ seen' = {}
    /\ route' = IF Len(queue) = 1 THEN NoRoute ELSE route
    /\ UNCHANGED <<links, starts, finishes, previous>>

Next ==
    \/ \E n \in Map : Look(n) \/ Skip(n)
    \/ Advance

Spec == Init /\ [][Next]_routeVars
-----------------------------------------------------------------------------
\* Properties

TypeOK ==
    /\ links \subseteq Map \X Map
    /\ starts \subseteq Map /\ finishes \subseteq Map
    /\ queue \in Seq(Map)
    /\ seen \subseteq Map
    /\ Visited \subseteq Map /\ \A m \in Visited : previous[m] \in Map
    /\ route \in Seq(Map) \union {NoRoute}

\* Reference: the maps within n steps of the starts
Within[n \in Nat] ==
    IF n = 0 THEN starts
    ELSE Within[n - 1] \union {m \in Map : \E k \in Within[n - 1] : <<k, m>> \in links}

\* A route leads from a start to a finish over connections that exist, and none is
\* shorter, in whatever order the connections are stored; there is an answer that there
\* is none only if no finish can be reached.
ShortestRoute ==
    /\ route = NoRoute => Within[Cardinality(Map)] \intersect finishes = {}
    /\ route \notin {NoRoute, << >>} =>
          /\ route[1] \in starts /\ route[Len(route)] \in finishes
          /\ \A n \in 1 .. Len(route) - 1 : <<route[n], route[n + 1]>> \in links
          /\ Len(route) = 1 \/ Within[Len(route) - 2] \intersect finishes = {}
=============================================================================
