---------------------------- MODULE ChannelPresence ----------------------------
(***************************************************************************)
(* Who is in one channel world (channel.gateway.ts, channel.service.ts).   *)
(* A socket connects as a guest at once, or as a member after its session  *)
(* and likes were looked up: the connection handler is suspended           *)
(* meanwhile, and the socket may drop, or another one of the account get   *)
(* in first.  Whatever runs between two awaits is one step, for the server *)
(* is a single thread.  `view` is what the clients show, from the          *)
(* bootstrap and the events they were sent.                                *)
(***************************************************************************)
EXTENDS Naturals

CONSTANTS
    Socket,                      \* socket ids
    Account, Ip,
    NoSocket, NoAccount, NoIp,   \* the absent socket, account and address
    AfkTicks                     \* AFK_THRESHOLD_MS, in ticks

ASSUME NoneAssumption ==
    NoSocket \notin Socket /\ NoAccount \notin Account /\ NoIp \notin Ip
ASSUME AfkAssumption == AfkTicks \in Nat \ {0}

VARIABLES
    sock,    \* the sockets, and whether their connection handlers are suspended
    world,   \* the maps of ChannelService
    timers,  \* channelPointTimers: the sockets whose timer runs
    view     \* view[s]: the participants that the client of s shows

vars == <<sock, world, timers, view>>

-----------------------------------------------------------------------------
\* Sockets, participants, and the maps of the service

\* waits: the handler is in findAuthenticatedMember or getLikeCountForName.
SocketState == [up : BOOLEAN, waits : BOOLEAN, account : Account \union {NoAccount},
                ip : Ip \union {NoIp}, lobby : BOOLEAN]

Closed == [up |-> FALSE, waits |-> FALSE, account |-> NoAccount, ip |-> NoIp, lobby |-> FALSE]

\* A guest has no account; a lobby participant only has the chat widget open.
Seat == [here : {TRUE}, account : Account \union {NoAccount}, lobby : BOOLEAN, afk : BOOLEAN]
NoSeat == [here |-> FALSE]

World == [participants : [Socket -> Seat \union {NoSeat}],
          byAccount : [Account -> Socket \union {NoSocket}],
          guestByIp : [Ip -> Socket \union {NoSocket}],
          guestIp : [Socket -> Ip \union {NoIp}],
          idle : [Socket -> 0 .. AfkTicks]]  \* time since lastActiveAt

Seated(s) == world.participants[s].here

AddMember(w, s, k) ==
    [w EXCEPT !.participants[s] = [here |-> TRUE, account |-> k.account,
                                   lobby |-> k.lobby, afk |-> FALSE],
              !.byAccount[k.account] = s,
              !.idle[s] = 0]

AddGuest(w, s, k) ==
    [w EXCEPT !.participants[s] = [here |-> TRUE, account |-> NoAccount,
                                   lobby |-> k.lobby, afk |-> FALSE],
              !.guestByIp[k.ip] = s,
              !.guestIp[s] = k.ip,
              !.idle[s] = 0]

\* A bug: the maps from account and address still lead to the sockets.
RemoveSeatOnly(w, gone) ==
    LET out == {s \in Socket \intersect gone : w.participants[s].here}
    IN  [w EXCEPT !.participants = [s \in Socket |-> IF s \in out THEN NoSeat ELSE @[s]],
                  !.guestIp = [s \in Socket |-> IF s \in out THEN NoIp ELSE @[s]],
                  !.idle = [s \in Socket |-> IF s \in out THEN 0 ELSE @[s]]]

\* removeParticipant, for each socket of `gone`: a map from account or address
\* loses its entry only while it leads to that socket.
Remove(w, gone) ==
    LET out == {s \in Socket \intersect gone : w.participants[s].here}
    IN  [w EXCEPT
          !.participants = [s \in Socket |-> IF s \in out THEN NoSeat ELSE @[s]],
          !.byAccount = [a \in Account |->
              IF @[a] \in out /\ w.participants[@[a]].account = a THEN NoSocket ELSE @[a]],
          !.guestByIp = [i \in Ip |->
              IF @[i] \in out /\ w.guestIp[@[i]] = i THEN NoSocket ELSE @[i]],
          !.guestIp = [s \in Socket |-> IF s \in out THEN NoIp ELSE @[s]],
          !.idle = [s \in Socket |-> IF s \in out THEN 0 ELSE @[s]]]

\* What the clients in the room show after 'participant-left' for those in `left`
\* and 'participant-joined' or '-updated' for those in `told`.
Nobody == [p \in Socket |-> NoSeat]

Hears(w, left, told) ==
    [v \in Socket |->
        IF ~w.participants[v].here THEN Nobody
        ELSE [p \in Socket |-> IF p \in told THEN w.participants[p]
                               ELSE IF p \in left THEN NoSeat ELSE view[v][p]]]

-----------------------------------------------------------------------------
\* handleConnection

\* A bug: nobody looks whether the newcomer is still connected.
LetInUnchecked(s, k, old, w, isMember) ==
    /\ world' = w
    /\ sock' = [x \in Socket |-> IF x = s THEN [k EXCEPT !.waits = FALSE]
                                 ELSE IF x = old THEN Closed ELSE sock[x]]
    /\ timers' = (timers \ {old}) \union (IF isMember THEN {s} ELSE {})
    /\ view' = [Hears(w, {old}, {s}) EXCEPT ![s] = w.participants]

\* The newcomer was added to w, and the socket that held its place is gone, with
\* its timer.  If the newcomer dropped while its handler was suspended, it is
\* removed again; otherwise it gets the bootstrap and the room hears of it.
LetIn(s, k, old, w, isMember) ==
    \/ /\ k.up
       /\ world' = w
       /\ sock' = [x \in Socket |-> IF x = s THEN [k EXCEPT !.waits = FALSE]
                                    ELSE IF x = old THEN Closed ELSE sock[x]]
       /\ timers' = (timers \ {old}) \union (IF isMember THEN {s} ELSE {})
       /\ view' = [Hears(w, {old}, {s}) EXCEPT ![s] = w.participants]
    \/ /\ ~k.up
       /\ world' = Remove(w, {s})
       /\ sock' = [x \in Socket |-> IF x \in {s, old} THEN Closed ELSE sock[x]]
       /\ timers' = timers \ {old}
       /\ view' = Hears(world', {s, old}, {})

TurnAway(s) ==
    /\ sock' = [sock EXCEPT ![s] = Closed]
    /\ UNCHANGED <<world, timers, view>>

\* A bug: the modes of the two sockets are mixed up.
MemberBlockedMixedUp(k, old) == old # NoSocket /\ ~k.lobby /\ sock[old].lobby

\* The chat widget does not take the place of the game screen.
MemberBlocked(k, old) == old # NoSocket /\ k.lobby /\ ~sock[old].lobby

\* A guest only takes the place of a chat widget.
GuestBlocked(old) == old # NoSocket /\ ~sock[old].lobby

\* connectGuestParticipant
GuestIn(s, k) ==
    LET old == IF k.ip = NoIp THEN NoSocket ELSE world.guestByIp[k.ip]
    IN  IF k.ip = NoIp \/ GuestBlocked(old) THEN TurnAway(s)
        ELSE LetIn(s, k, old, AddGuest(Remove(world, {old}), s, k), FALSE)

Connect(s, k) ==
    /\ sock[s] = Closed
    /\ k.up /\ k.waits = (k.account # NoAccount)
    /\ \/ k.waits /\ sock' = [sock EXCEPT ![s] = k] /\ UNCHANGED <<world, timers, view>>
       \/ ~k.waits /\ GuestIn(s, k)

\* The session and the likes were found.
MemberIn(s) ==
    LET k == sock[s]
        old == world.byAccount[k.account]
    IN  /\ k.waits
        /\ IF MemberBlocked(k, old) THEN TurnAway(s)
           ELSE LetIn(s, k, old, AddMember(Remove(world, {old}), s, k), TRUE)

\* The session is unknown or a query failed: the socket goes on as a guest.
FallBack(s) == sock[s].waits /\ GuestIn(s, sock[s])

-----------------------------------------------------------------------------
\* handleDisconnect, markClientActive, the sweep

Drop(s) ==
    /\ sock[s].up
    /\ sock' = [sock EXCEPT ![s] = IF @.waits THEN [@ EXCEPT !.up = FALSE] ELSE Closed]
    /\ world' = Remove(world, {s})
    /\ timers' = timers \ {s}
    /\ view' = Hears(world', {s}, {})

\* A message of the client: it moves, chats or is seen using the site.
Activity(s) ==
    /\ sock[s].up /\ Seated(s)
    /\ world' = [world EXCEPT !.idle[s] = 0, !.participants[s].afk = FALSE]
    /\ view' = IF world.participants[s].afk THEN Hears(world', {}, {s}) ELSE view
    /\ UNCHANGED <<sock, timers>>

\* Time passes.
Tick ==
    /\ \E s \in Socket : Seated(s) /\ world.idle[s] < AfkTicks
    /\ world' = [world EXCEPT !.idle =
                   [s \in Socket |-> IF Seated(s) /\ @[s] < AfkTicks THEN @[s] + 1 ELSE @[s]]]
    /\ UNCHANGED <<sock, timers, view>>

\* A bug: nobody is told of the participants that went away.
SweepSilently ==
    /\ world' = [world EXCEPT !.participants =
                   [s \in Socket |-> IF Seated(s) /\ world.idle[s] = AfkTicks
                                     THEN [@[s] EXCEPT !.afk = TRUE] ELSE @[s]]]
    /\ UNCHANGED <<sock, timers, view>>

\* A bug: the threshold must be exceeded, which a saturated clock never does.
SweepLate == UNCHANGED vars

\* The presence sweep: participants whose socket is gone, then those idle too long.
Sweep ==
    LET ghosts == {s \in Socket : Seated(s) /\ ~sock[s].up}
        away == {s \in Socket \ ghosts :
                   Seated(s) /\ ~world.participants[s].afk /\ world.idle[s] = AfkTicks}
        rest == Remove(world, ghosts)
    IN  /\ world' = [rest EXCEPT !.participants =
                       [s \in Socket |-> IF s \in away THEN [@[s] EXCEPT !.afk = TRUE] ELSE @[s]]]
        /\ view' = Hears(world', ghosts, away)
        /\ UNCHANGED <<sock, timers>>

Init ==
    /\ sock = [s \in Socket |-> Closed]
    /\ world = [participants |-> Nobody,
                byAccount |-> [a \in Account |-> NoSocket],
                guestByIp |-> [i \in Ip |-> NoSocket],
                guestIp |-> [s \in Socket |-> NoIp],
                idle |-> [s \in Socket |-> 0]]
    /\ timers = {}
    /\ view = [s \in Socket |-> Nobody]

Next ==
    \/ \E s \in Socket :
          \/ \E k \in SocketState : Connect(s, k)
          \/ MemberIn(s) \/ FallBack(s) \/ Drop(s) \/ Activity(s)
    \/ Tick
    \/ Sweep

\* Time passes and setInterval keeps calling the sweep; nothing is assumed of the
\* clients and of the queries.
Spec == Init /\ [][Next]_vars /\ WF_vars(Tick) /\ WF_vars(Sweep)
-----------------------------------------------------------------------------
\* Properties

\* Every map has its type; a socket that is gone leaves nothing behind but the
\* handler that still waits for its session.
TypeOK ==
    /\ sock \in [Socket -> SocketState]
    /\ world \in World
    /\ timers \subseteq Socket
    /\ view \in [Socket -> [Socket -> Seat \union {NoSeat}]]
    /\ \A s \in Socket : sock[s].up \/ sock[s].waits \/ sock[s] = Closed

\* The maps of the service agree, so an account holds one seat at most, and so do
\* the guests of an address: `byAccount` leads from an account to its seat and to
\* no other, `guestByIp` and `guestIp` are inverse and cover the guests.
MapsAgree ==
    LET seat == world.participants
    IN  /\ \A a \in Account, s \in Socket :
              world.byAccount[a] = s <=> seat[s].here /\ seat[s].account = a
        /\ \A i \in Ip, s \in Socket : world.guestByIp[i] = s <=> world.guestIp[s] = i
        /\ \A s \in Socket :
              world.guestIp[s] # NoIp <=> seat[s].here /\ seat[s].account = NoAccount

\* No ghosts: between two steps every participant has a connected socket whose
\* handler has ended, and point timers run for exactly the seated members, although
\* a socket may drop while its handler waits, after its disconnect was handled.
NoGhosts ==
    /\ \A s \in Socket : Seated(s) => sock[s].up /\ ~sock[s].waits
    /\ timers = {s \in Socket : Seated(s) /\ world.participants[s].account # NoAccount}

\* Every seated client shows the participants as they are: each change of the
\* roster is announced, in every branch, or part of the bootstrap.
ViewsAgree == \A s \in Socket : Seated(s) => view[s] = world.participants

\* Whoever is in the world with the game screen open loses the place only by
\* disconnecting, or to a connection of the same account with the screen open: no
\* chat widget, and no guest, takes it.
ScreenKept ==
    [][\A s \in Socket :
         Seated(s) /\ ~world.participants[s].lobby /\ ~world'.participants[s].here =>
            \/ Drop(s)
            \/ \E t \in Socket \ {s} :
                  /\ sock[t].waits /\ ~sock'[t].waits /\ ~sock[t].lobby
                  /\ sock[t].account = world.participants[s].account]_vars

\* Whoever does nothing any more is shown as away, or leaves.
IdleGoesAway ==
    \A s \in Socket :
        \/ []<><<Activity(s)>>_vars
        \/ Seated(s) ~> (~Seated(s) \/ world.participants[s].afk)

\* A member is told 'This account was connected from another session.' when its
\* socket is closed: the account then has that other session.
ReplacedByAnother ==
    [][\A a \in Account :
         world.byAccount[a] # NoSocket /\ world'.byAccount[a] = NoSocket
            => Drop(world.byAccount[a])]_vars
=============================================================================
