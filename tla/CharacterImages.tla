---------------------------- MODULE CharacterImages ----------------------------
(***************************************************************************)
(* The pictures of members' characters (getCharacterImage of               *)
(* member.controller.ts, updateRenderCharacter of member.service.ts): a    *)
(* look is stored with the millisecond it was saved at, and the picture    *)
(* drawn from it is kept in memory under that time.  A call reads the look *)
(* and may have to wait for its picture; calls overlap.                    *)
(***************************************************************************)
EXTENDS Integers, Sequences, SequencesExt

CONSTANTS
    Member, Call,
    Limit,           \* CHARACTER_CACHE_LIMIT
    MaxMillis, MaxLooks

VARIABLES
    millis,
    looks,           \* of each member, every look ever saved: [number, at], the latest last
    cache,           \* the pictures, in the order of a Map: [member, version, number]
    calls,           \* of each call under way: [member, version, number]
    answers          \* what was answered last: [member, version, number], or none

imageVars == <<millis, looks, cache, calls, answers>>

None == [member |-> 0]

-----------------------------------------------------------------------------
\* updateRenderCharacter
Save(m) ==
    /\ Len(looks[m]) < MaxLooks
    /\ looks' = [looks EXCEPT ![m] = Append(@, [number |-> Len(@) + 1, at |-> millis])]
    /\ UNCHANGED <<millis, cache, calls, answers>>

Cached(m) == {n \in DOMAIN cache : cache[n].member = m}

\* findRenderCharacter; a picture of the same version is answered at once.
Get(c, m) ==
    /\ calls[c] = None /\ looks[m] # << >>
    /\ LET look == Last(looks[m])
           hits == {n \in Cached(m) : cache[n].version = look.at}
       IN  IF hits # {}
           THEN /\ \E n \in hits : answers' = cache[n]
                /\ UNCHANGED calls
           ELSE /\ calls' = [calls EXCEPT ![c] = [member |-> m, version |-> look.at,
                                                  number |-> look.number]]
                /\ UNCHANGED answers
    /\ UNCHANGED <<millis, looks, cache>>

\* A bug: the limit is looked at before the member's own picture is put in the back.
RoomKept(m) == IF Len(cache) > Limit THEN Tail(cache) ELSE cache

\* The oldest goes when the cache is full, and what the member had.
Room(m) == IF Len(cache) >= Limit THEN Tail(cache) ELSE cache

\* delete of a Map, which has an entry of a key at most once.
Without(s, m) ==
    IF \E n \in DOMAIN s : s[n].member = m
    THEN RemoveAt(s, CHOOSE n \in DOMAIN s : s[n].member = m)
    ELSE s

\* The picture is drawn; it is kept, whatever is kept by now, and answered.
Drawn(c) ==
    /\ calls[c] # None
    /\ cache' = Append(Without(Room(calls[c].member), calls[c].member), calls[c])
    /\ answers' = calls[c]
    /\ calls' = [calls EXCEPT ![c] = None]
    /\ UNCHANGED <<millis, looks>>

DrawFails(c) ==
    /\ calls[c] # None
    /\ calls' = [calls EXCEPT ![c] = None]
    /\ UNCHANGED <<millis, looks, cache, answers>>

Tick ==
    /\ millis < MaxMillis
    /\ millis' = millis + 1
    /\ UNCHANGED <<looks, cache, calls, answers>>

\* The process starts again.
Restart ==
    /\ cache' = << >> /\ calls' = [c \in Call |-> None] /\ answers' = None
    /\ UNCHANGED <<millis, looks>>

Init ==
    /\ millis = 0 /\ looks = [m \in Member |-> << >>]
    /\ cache = << >> /\ calls = [c \in Call |-> None] /\ answers = None

Next ==
    \/ Tick \/ Restart
    \/ \E m \in Member : Save(m)
    \/ \E c \in Call : Drawn(c) \/ DrawFails(c) \/ \E m \in Member : Get(c, m)

Spec == Init /\ [][Next]_imageVars

-----------------------------------------------------------------------------
\* Properties

TypeOK ==
    /\ \A n \in DOMAIN cache : cache[n].member \in Member
    /\ \A c \in Call : calls[c] = None \/ calls[c].member \in Member

\* A picture kept for a time shows a look that was saved at that time, so an answer shows
\* the look it read, or one of the same millisecond; the cache has one picture of a member
\* and holds no more than its limit, however calls overlap.
ImagesFresh ==
    /\ \A n \in DOMAIN cache :
          looks[cache[n].member][cache[n].number].at = cache[n].version
    /\ answers # None => looks[answers.member][answers.number].at = answers.version
    /\ \A n, k \in DOMAIN cache : n # k => cache[n].member # cache[k].member
    /\ Len(cache) <= Limit
=============================================================================
