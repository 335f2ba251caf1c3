----------------------------- MODULE MazeCalendar -----------------------------
(***************************************************************************)
(* Which maze is open (maze.rule.ts), and the page that shows its maps     *)
(* (maze.service.ts) from a collection a script refills                    *)
(* (scripts/import-maze.ts).  A week runs from Thursday to Thursday at six *)
(* in the morning in Korea; what precedes the first Thursday of a year     *)
(* belongs to the last week of the year before.  Time goes in steps of     *)
(* three hours since the first of January of FirstYear in UTC.             *)
(***************************************************************************)
EXTENDS Integers, FiniteSetsExt, SequencesExt

CONSTANTS
    FirstYear, FirstDay,   \* a year, and the weekday of its first of January; Sunday is 0
    Years,                 \* the years around whose turn the clock runs
    Around,                \* for how many days
    Bases,                 \* the kinds of map of a maze
    Extract,               \* manifests with the portals that belong to them
    Cut(_), MaxRefills

VARIABLES
    now,
    rows, filling, whole, refills   \* as in Refill

Floors == 53
Day == 8
Week == 7 * Day
Morning == 2     \* 06:00
Offset == 3      \* KST_OFFSET_MS
Thursday == 4

-----------------------------------------------------------------------------
\* The calendar

Leap(y) == y % 4 = 0 /\ (y % 100 # 0 \/ y % 400 = 0)
DaysBefore(y) == 365 * (y - FirstYear) + Cardinality({z \in FirstYear .. y - 1 : Leap(z)})
NewYear(y) == DaysBefore(y) * Day
WeekdayOf(y) == (FirstDay + DaysBefore(y)) % 7
YearOf(clock) == CHOOSE y \in FirstYear .. Max(Years) + 1 :
                     NewYear(y) <= clock /\ clock < NewYear(y + 1)

FirstThursdayOfYear(y) == NewYear(y) + ((Thursday - WeekdayOf(y) + 7) % 7) * Day + Morning

\* The last hours of the thirty-first of December decide.
WeeksInYear(y) == (NewYear(y + 1) - 1 - FirstThursdayOfYear(y)) \div Week + 1

\* seed * 1664525 + 1013904223 modulo 2^32, in halves of 16 bits
Rand(seed) ==
    LET low == seed[2] * 26125 + 62303
    IN  <<(seed[1] * 26125 + seed[2] * 25 + 15470 + low \div 65536) % 65536, low % 65536>>
Remainder(seed, n) == ((seed[1] % n) * (65536 % n) + seed[2]) % n

\* From the last place down, each is swapped with one that is drawn.
IndicesByWeek(y) ==
    LET seed[n \in 1 .. Floors] == IF n = Floors THEN Rand(<<0, y>>) ELSE Rand(seed[n + 1])
        weeks[n \in 2 .. Floors + 1] ==
            IF n = Floors + 1 THEN [i \in 1 .. Floors |-> i]
            ELSE LET before == weeks[n + 1]
                     j == Remainder(seed[n], n) + 1
                 IN  [before EXCEPT ![j] = before[n], ![n] = before[j]]
    IN  weeks[2]

\* A week without the index of its maze, and the index
Week0(y, number) ==
    LET starts == FirstThursdayOfYear(y) + (number - 1) * Week - Offset
    IN  [year |-> y, weekNumber |-> number, weeksInYear |-> WeeksInYear(y),
         startsAt |-> starts, endsAt |-> starts + Week]
IndexOf(week) ==
    IF week.weekNumber <= Floors THEN IndicesByWeek(week.year)[week.weekNumber] ELSE 1

MazeWeekAt(t) ==
    LET clock == t + Offset
        y == YearOf(clock)
        first == FirstThursdayOfYear(y)
    IN  IF clock >= first THEN Week0(y, (clock - first) \div Week + 1)
        ELSE Week0(y - 1, WeeksInYear(y - 1))

-----------------------------------------------------------------------------
\* The maps.  An extract is [maps, links, bad]: the maps <<index, base>> of a manifest, the
\* portals <<base, place, target>>, and whether an image is missing.

\* Portals at one place are one; it opens a map of the maze if it leads there alone.
Portals(x, base) ==
    LET here == {l \in x.links : l[1] = base}
        targets(place) == {l[3] : l \in {k \in here : k[2] = place}}
    IN  {[place |-> p, targets |-> targets(p),
          jumpBase |-> IF Cardinality(targets(p)) = 1 THEN targets(p) \intersect Bases ELSE {}] :
             p \in {l[2] : l \in here}}

Documents(x) ==
    [i \in DOMAIN x.maps |-> [index |-> x.maps[i][1], base |-> x.maps[i][2],
                              portals |-> Portals(x, x.maps[i][2])]]

Maps == INSTANCE Refill WITH Docs <- Documents, Bad <- LAMBDA x : x.bad

\* getCurrent
Current ==
    LET index == IndexOf(MazeWeekAt(now))
    IN  SortSeq(SelectSeq(rows, LAMBDA m : m.index = index), LAMBDA m, k : m.base < k.base)

-----------------------------------------------------------------------------
\* Three hours pass; not while a script runs, which takes a moment.
Tick ==
    /\ filling = Maps!None
    /\ \E y \in Years : now + 1 \in NewYear(y) - Around * Day .. NewYear(y) + Around * Day
    /\ now' = now + 1
    /\ UNCHANGED <<rows, filling, whole, refills>>

Init == Maps!Init /\ now \in {NewYear(y) - Around * Day : y \in Years}
Next == Tick \/ (Maps!Next /\ UNCHANGED now)
Spec == Init /\ [][Next]_<<now, rows, filling, whole, refills>>

-----------------------------------------------------------------------------
\* Properties

TypeOK == now \in Nat /\ Maps!TypeOK

\* The week holds this instant and its own first and last one; the weeks of its year have
\* different mazes.
WeekHolds(week) ==
    /\ week.startsAt <= now /\ now < week.endsAt
    /\ \A t \in {week.startsAt, week.endsAt - 1} : MazeWeekAt(t) = week
    /\ week.weekNumber \in 1 .. week.weeksInYear /\ week.weeksInYear \in 52 .. Floors
    /\ Range(IndicesByWeek(week.year)) = 1 .. Floors

Follows(week, next) ==
    /\ next.startsAt = week.endsAt
    /\ \/ next.year = week.year /\ next.weekNumber = week.weekNumber + 1
       \/ /\ next.year = week.year + 1 /\ next.weekNumber = 1
          /\ week.weekNumber = week.weeksInYear

PageHolds(page) ==
    /\ {page[n].base : n \in DOMAIN page} = Bases
    /\ \A n, k \in DOMAIN page : n < k => page[n].base < page[k].base
    /\ \A n \in DOMAIN page : \A p \in page[n].portals :
          p.jumpBase \subseteq {page[k].base : k \in DOMAIN page}

\* Every instant is in the week that is said to be open; the week after it begins where it
\* ends, also over the turn of a year; the weeks of a year have different mazes.  Once the
\* collection is refilled whole, the page shows one map of each kind, in their order, and a
\* portal that opens a map of the maze leads to one on the page.
MazeHolds ==
    /\ WeekHolds(MazeWeekAt(now))
    /\ Follows(MazeWeekAt(now), MazeWeekAt(MazeWeekAt(now).endsAt))
    /\ whole # Maps!None => PageHolds(Current)
=============================================================================
