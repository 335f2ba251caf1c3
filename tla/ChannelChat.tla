------------------------------ MODULE ChannelChat ------------------------------
(***************************************************************************)
(* The chat of a channel and the grades beside the names                   *)
(* (channel.service.ts, channel.gateway.ts): the server keeps the last     *)
(* messages, a newcomer gets them with the map, and those who are there    *)
(* get each message and each message that is no longer pinned.  A message  *)
(* earns its member points, and the answer of the database may change the  *)
(* grade that all see.  Who may come in is the matter of ChannelPresence.  *)
(***************************************************************************)
EXTENDS Integers, Sequences, FiniteSetsExt

CONSTANTS
    Socket,
    AccountOf,        \* the account of a socket, or NoAccount for a guest
    NoAccount,
    GradePoints,      \* the points of GRADES, the first of which is 0
    MaxHistory,       \* MAX_MESSAGE_HISTORY
    MemberWait, GuestWait,   \* AUTH_ and GUEST_CHAT_COOLDOWN_MS
    MaxTime, MaxSaid

VARIABLES
    time,
    phase,            \* of each socket: "away", "joining", "here" or "gone"
    saidAt,           \* lastChattedAt, MaxTime being none
    messages,         \* [id, sender, pinned, at], the oldest first
    said,             \* how many were ever said
    shown,            \* what the client of each socket shows: the messages by id
    points,           \* of each account, as the database has them
    awards,           \* addPoints under way: [id, socket, point], -1 before it is done
    grade,            \* the grade of each socket's participant
    badges,           \* the grades that the client of each socket shows
    arrivedWith       \* the points a member was read with before it was let in

chatVars == <<time, phase, saidAt, messages, said, shown, points, awards, grade, badges,
              arrivedWith>>

Account == {AccountOf[s] : s \in Socket} \ {NoAccount}
Here == {s \in Socket : phase[s] = "here"}

\* resolveGrade
GradeOf(point) == Max({n \in DOMAIN GradePoints : GradePoints[n] <= point})

-----------------------------------------------------------------------------
\* A client connects and its member is read; another of the account is there no more.
Arrive(s) ==
    /\ phase[s] = "away"
    /\ AccountOf[s] # NoAccount =>
          \A t \in Socket : AccountOf[t] = AccountOf[s] => phase[t] \in {"away", "gone"}
    /\ phase' = [phase EXCEPT ![s] = "joining"]
    /\ arrivedWith' = [arrivedWith EXCEPT ![s] =
                          IF AccountOf[s] = NoAccount THEN 0 ELSE points[AccountOf[s]]]
    /\ UNCHANGED <<time, saidAt, messages, said, shown, points, awards, grade, badges>>

\* It comes in with the messages and the grades of all; those who are there see it.
Join(s) ==
    /\ phase[s] = "joining"
    /\ phase' = [phase EXCEPT ![s] = "here"]
    /\ grade' = [grade EXCEPT ![s] = GradeOf(arrivedWith[s])]
    /\ badges' = [t \in Socket |->
                     IF t = s THEN [u \in Here \union {s} |-> grade'[u]]
                     ELSE IF t \in Here
                     THEN [u \in DOMAIN badges[t] \union {s} |-> IF u = s THEN grade'[s]
                                                                ELSE badges[t][u]]
                     ELSE badges[t]]
    /\ shown' = [shown EXCEPT ![s] =
                    [id \in {messages[n].id : n \in DOMAIN messages} |->
                        messages[CHOOSE n \in DOMAIN messages : messages[n].id = id]]]
    /\ UNCHANGED <<time, saidAt, messages, said, points, awards, arrivedWith>>

\* handleDisconnect
Leave(s) ==
    /\ phase[s] \in {"joining", "here"}
    /\ phase' = [phase EXCEPT ![s] = "gone"]
    /\ saidAt' = [saidAt EXCEPT ![s] = MaxTime]
    /\ shown' = [shown EXCEPT ![s] = << >>]
    /\ badges' = [t \in Socket |-> IF t = s THEN << >>
                                   ELSE [u \in DOMAIN badges[t] \ {s} |-> badges[t][u]]]
    /\ UNCHANGED <<time, messages, said, points, awards, grade, arrivedWith>>

Wait(s) == IF AccountOf[s] = NoAccount THEN GuestWait ELSE MemberWait
Newest(seq) == SubSeq(seq, Max({1, Len(seq) - MaxHistory + 1}), Len(seq))

\* Those who are there show a message, new or changed.
Told(message) ==
    shown' = [t \in Socket |->
                 IF t \in Here
                 THEN [id \in DOMAIN shown[t] \union {message.id} |->
                          IF id = message.id THEN message ELSE shown[t][id]]
                 ELSE shown[t]]

\* handleChat: a message that comes too soon is refused.
Say(s, pinned) ==
    /\ s \in Here /\ said < MaxSaid
    /\ saidAt[s] = MaxTime \/ time - saidAt[s] >= Wait(s)
    /\ LET message == [id |-> said + 1, sender |-> s, pinned |-> pinned, at |-> time]
       IN  /\ messages' = Newest(Append(messages, message))
           /\ Told(message)
    /\ said' = said + 1
    /\ saidAt' = [saidAt EXCEPT ![s] = time]
    /\ awards' = IF AccountOf[s] = NoAccount THEN awards
                 ELSE awards \union {[id |-> said + 1, socket |-> s, point |-> -1]}
    /\ UNCHANGED <<time, phase, points, grade, badges, arrivedWith>>

Pinned(s) == {n \in DOMAIN messages : messages[n].sender = s /\ messages[n].pinned}

\* handleClearPinnedChat: the newest of one's own pinned messages
ClearPinned(s) ==
    /\ s \in Here /\ Pinned(s) # {}
    /\ LET n == Max(Pinned(s))
       IN  /\ messages' = [messages EXCEPT ![n].pinned = FALSE]
           /\ Told([messages[n] EXCEPT !.pinned = FALSE])
    /\ UNCHANGED <<time, phase, saidAt, said, points, awards, grade, badges, arrivedWith>>

\* addPoints in the database
Credit(a) ==
    /\ a.point = -1
    /\ points' = [points EXCEPT ![AccountOf[a.socket]] = @ + 1]
    /\ awards' = (awards \ {a}) \union {[a EXCEPT !.point = points'[AccountOf[a.socket]]]}
    /\ UNCHANGED <<time, phase, saidAt, messages, said, shown, grade, badges, arrivedWith>>

\* Its answer, in any order; a socket that is gone keeps no grade.
Answer(a) ==
    /\ a.point # -1
    /\ awards' = awards \ {a}
    /\ IF a.socket \in Here
       THEN /\ grade' = [grade EXCEPT ![a.socket] = GradeOf(a.point)]
            /\ badges' = [t \in Socket |-> IF t \in Here
                                           THEN [badges[t] EXCEPT ![a.socket] = GradeOf(a.point)]
                                           ELSE badges[t]]
       ELSE UNCHANGED <<grade, badges>>
    /\ UNCHANGED <<time, phase, saidAt, messages, said, shown, points, arrivedWith>>

\* The database fails, before or after it added the points: no grade changes.
AnswerFails(a) ==
    /\ awards' = awards \ {a}
    /\ UNCHANGED <<time, phase, saidAt, messages, said, shown, points, grade, badges,
                   arrivedWith>>

Tick ==
    /\ time < MaxTime - 1
    /\ time' = time + 1
    /\ UNCHANGED <<phase, saidAt, messages, said, shown, points, awards, grade, badges,
                   arrivedWith>>

Init ==
    /\ time = 0
    /\ phase = [s \in Socket |-> "away"] /\ saidAt = [s \in Socket |-> MaxTime]
    /\ messages = << >> /\ said = 0 /\ shown = [s \in Socket |-> << >>]
    /\ points = [a \in Account |-> 0] /\ awards = {}
    /\ grade = [s \in Socket |-> 1] /\ badges = [s \in Socket |-> << >>]
    /\ arrivedWith = [s \in Socket |-> 0]

Next ==
    \/ Tick
    \/ \E s \in Socket : Arrive(s) \/ Join(s) \/ Leave(s) \/ ClearPinned(s)
    \/ \E s \in Socket, pinned \in BOOLEAN : Say(s, pinned)
    \/ \E a \in awards : Credit(a) \/ Answer(a) \/ AnswerFails(a)

Spec == Init /\ [][Next]_chatVars

-----------------------------------------------------------------------------
\* Properties

TypeOK ==
    /\ phase \in [Socket -> {"away", "joining", "here", "gone"}]
    /\ saidAt \in [Socket -> 0 .. MaxTime]
    /\ Len(messages) <= MaxHistory
    /\ \A a \in Account : points[a] \in 0 .. MaxSaid
    /\ \A s \in Socket : DOMAIN badges[s] \subseteq Here

\* Whoever is in the channel shows every message that a newcomer is given, and shows it
\* pinned just if the newcomer will; two who show a message agree on its pin, also after
\* the server forgot it.  The history holds the last messages, and a connection's own are
\* its wait apart.  All show the grade that the server has of a participant: never above the
\* points that are stored, and, in whatever order the answers come, never below those the
\* participant came with.
ChatAgrees ==
    /\ \A s \in Here : \A n \in DOMAIN messages :
          /\ messages[n].id \in DOMAIN shown[s]
          /\ shown[s][messages[n].id] = messages[n]
    /\ \A s, t \in Here : \A id \in DOMAIN shown[s] \intersect DOMAIN shown[t] :
          shown[s][id] = shown[t][id]
    /\ Len(messages) = Min({said, MaxHistory})
    /\ \A n, k \in DOMAIN messages : n < k =>
          /\ messages[n].id < messages[k].id
          /\ messages[n].sender = messages[k].sender =>
                messages[k].at - messages[n].at >= Wait(messages[n].sender)
    /\ \A s, t \in Here : t \in DOMAIN badges[s] /\ badges[s][t] = grade[t]
    /\ \A s \in Here : AccountOf[s] # NoAccount =>
          /\ grade[s] <= GradeOf(points[AccountOf[s]])
          /\ grade[s] >= GradeOf(arrivedWith[s])
=============================================================================
