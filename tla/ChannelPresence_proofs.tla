------------------------- MODULE ChannelPresence_proofs -------------------------
(***************************************************************************)
(* What ChannelPresence promises, for every number of sockets, accounts    *)
(* and addresses.  The maps of the service stay each other's inverse       *)
(* because a seat is taken only after whoever held its account or address  *)
(* was removed, and because a handler that is suspended has no seat.       *)
(***************************************************************************)
EXTENDS ChannelPresence, TLAPS

\* MapsAgree, of any state w of the maps.
Agree(w) ==
    /\ \A a \in Account, s \in Socket :
          w.byAccount[a] = s <=> w.participants[s].here /\ w.participants[s].account = a
    /\ \A i \in Ip, s \in Socket : w.guestByIp[i] = s <=> w.guestIp[s] = i
    /\ \A s \in Socket :
          w.guestIp[s] # NoIp
             <=> w.participants[s].here /\ w.participants[s].account = NoAccount

\* A handler waits for a session only if its socket names an account; a seat has the mode
\* that its socket asked for.
Handlers ==
    /\ \A s \in Socket : sock[s].waits => sock[s].account \in Account
    /\ \A s \in Socket : Seated(s) => sock[s].lobby = world.participants[s].lobby

\* The inductive invariant.
IInv == TypeOK /\ MapsAgree /\ NoGhosts /\ ViewsAgree /\ Handlers

-----------------------------------------------------------------------------
\* The maps of the service

\* The two kinds of places.
LEMMA SeatOrNone ==
    ASSUME NEW p \in Seat \union {NoSeat}
    PROVE  /\ p.here \in BOOLEAN
           /\ p.here => p \in Seat
           /\ ~p.here => p = NoSeat
<1>1. CASE p \in Seat
  BY <1>1 DEF Seat
<1>2. CASE p = NoSeat
  BY <1>2 DEF NoSeat
<1> QED
  BY <1>1, <1>2

\* Nobody is at the empty place.
LEMMA NoSeatIsFree == NoSeat.here = FALSE
  BY DEF NoSeat

\* removeParticipant keeps the maps in agreement, empties the seats of those who go, and
\* leaves everybody else where he is.
LEMMA RemoveAgrees ==
    ASSUME NEW w \in World, Agree(w), NEW gone
    PROVE  /\ Remove(w, gone) \in World
           /\ Agree(Remove(w, gone))
           /\ \A s \in Socket : Remove(w, gone).participants[s] =
                                   IF s \in gone THEN NoSeat ELSE w.participants[s]
           /\ \A a \in Account : Remove(w, gone).byAccount[a] =
                                   IF w.byAccount[a] \in gone THEN NoSocket ELSE w.byAccount[a]
           /\ \A i \in Ip : Remove(w, gone).guestByIp[i] =
                                   IF w.guestByIp[i] \in gone THEN NoSocket ELSE w.guestByIp[i]
<1> DEFINE out == {s \in Socket \intersect gone : w.participants[s].here}
           p == [s \in Socket |-> IF s \in out THEN NoSeat ELSE w.participants[s]]
           b == [a \in Account |->
                    IF w.byAccount[a] \in out /\ w.participants[w.byAccount[a]].account = a
                    THEN NoSocket ELSE w.byAccount[a]]
           g == [i \in Ip |->
                    IF w.guestByIp[i] \in out /\ w.guestIp[w.guestByIp[i]] = i
                    THEN NoSocket ELSE w.guestByIp[i]]
           i == [s \in Socket |-> IF s \in out THEN NoIp ELSE w.guestIp[s]]
           d == [s \in Socket |-> IF s \in out THEN 0 ELSE w.idle[s]]
           r == Remove(w, gone)
<1>1. /\ w.participants \in [Socket -> Seat \union {NoSeat}]
      /\ w.byAccount \in [Account -> Socket \union {NoSocket}]
      /\ w.guestByIp \in [Ip -> Socket \union {NoSocket}]
      /\ w.guestIp \in [Socket -> Ip \union {NoIp}]
      /\ w.idle \in [Socket -> 0 .. AfkTicks]
  BY DEF World
<1>2. /\ p \in [Socket -> Seat \union {NoSeat}]
      /\ b \in [Account -> Socket \union {NoSocket}]
      /\ g \in [Ip -> Socket \union {NoSocket}]
      /\ i \in [Socket -> Ip \union {NoIp}]
      /\ d \in [Socket -> 0 .. AfkTicks]
  <2>1. 0 \in 0 .. AfkTicks
    BY AfkAssumption
  <2> QED
    BY <1>1, <2>1
<1>3. r = [w EXCEPT !.participants = p, !.byAccount = b, !.guestByIp = g, !.guestIp = i,
                    !.idle = d]
  BY DEF Remove
<1>4. \A s \in Socket : p[s] = IF s \in gone THEN NoSeat ELSE w.participants[s]
  BY <1>1, SeatOrNone
<1>5. \A a \in Account : b[a] = IF w.byAccount[a] \in gone THEN NoSocket ELSE w.byAccount[a]
  <2> SUFFICES ASSUME NEW a \in Account
               PROVE  b[a] = IF w.byAccount[a] \in gone THEN NoSocket ELSE w.byAccount[a]
    OBVIOUS
  <2>1. w.byAccount[a] \in Socket =>
           w.participants[w.byAccount[a]].here /\ w.participants[w.byAccount[a]].account = a
    BY DEF Agree
  <2> QED
    BY <1>1, <2>1, NoneAssumption
<1>6. \A x \in Ip : g[x] = IF w.guestByIp[x] \in gone THEN NoSocket ELSE w.guestByIp[x]
  <2> SUFFICES ASSUME NEW x \in Ip
               PROVE  g[x] = IF w.guestByIp[x] \in gone THEN NoSocket ELSE w.guestByIp[x]
    OBVIOUS
  <2>1. w.guestByIp[x] \in Socket =>
           w.guestIp[w.guestByIp[x]] = x /\ w.participants[w.guestByIp[x]].here
    BY NoneAssumption DEF Agree
  <2> QED
    BY <1>1, <2>1, NoneAssumption
<1>7. \A s \in Socket : i[s] = IF s \in gone THEN NoIp ELSE w.guestIp[s]
  <2> SUFFICES ASSUME NEW s \in Socket
               PROVE  i[s] = IF s \in gone THEN NoIp ELSE w.guestIp[s]
    OBVIOUS
  <2>1. ~w.participants[s].here => w.guestIp[s] = NoIp
    BY DEF Agree
  <2> QED
    BY <1>1, <2>1
<1> HIDE DEF p, b, g, i, d, r
<1>8. /\ r \in World /\ r.participants = p /\ r.byAccount = b /\ r.guestByIp = g
      /\ r.guestIp = i
  BY <1>2, <1>3 DEF World
<1>9. Agree(r)
  <2>1. \A a \in Account, s \in Socket :
           r.byAccount[a] = s <=> r.participants[s].here /\ r.participants[s].account = a
    <3> SUFFICES ASSUME NEW a \in Account, NEW s \in Socket
                 PROVE  b[a] = s <=> p[s].here /\ p[s].account = a
      BY <1>8
    <3>1. w.byAccount[a] = s <=> w.participants[s].here /\ w.participants[s].account = a
      BY DEF Agree
    <3>2. CASE s \in gone
      BY <1>4, <1>5, <3>2, NoneAssumption, NoSeatIsFree
    <3>3. CASE s \notin gone
      BY <1>4, <1>5, <3>1, <3>3, NoneAssumption
    <3> QED
      BY <3>2, <3>3
  <2>2. \A x \in Ip, s \in Socket : r.guestByIp[x] = s <=> r.guestIp[s] = x
    <3> SUFFICES ASSUME NEW x \in Ip, NEW s \in Socket PROVE g[x] = s <=> i[s] = x
      BY <1>8
    <3>1. w.guestByIp[x] = s <=> w.guestIp[s] = x
      BY DEF Agree
    <3>2. CASE s \in gone
      BY <1>6, <1>7, <3>2, NoneAssumption
    <3>3. CASE s \notin gone
      BY <1>6, <1>7, <3>1, <3>3, NoneAssumption
    <3> QED
      BY <3>2, <3>3
  <2>3. \A s \in Socket :
          r.guestIp[s] # NoIp
             <=> r.participants[s].here /\ r.participants[s].account = NoAccount
    BY <1>1, <1>4, <1>7, <1>8, NoSeatIsFree DEF Agree
  <2> QED
    BY <2>1, <2>2, <2>3 DEF Agree
<1> QED
  BY <1>4, <1>5, <1>6, <1>8, <1>9 DEF r

\* A member takes a seat that is free, and that his account does not hold elsewhere.
LEMMA AddMemberAgrees ==
    ASSUME NEW w \in World, Agree(w), NEW s \in Socket, NEW k \in SocketState,
           k.account \in Account, w.participants[s] = NoSeat,
           w.byAccount[k.account] = NoSocket
    PROVE  /\ AddMember(w, s, k) \in World
           /\ Agree(AddMember(w, s, k))
           /\ AddMember(w, s, k).participants =
                 [w.participants EXCEPT ![s] = [here |-> TRUE, account |-> k.account,
                                                lobby |-> k.lobby, afk |-> FALSE]]
<1> DEFINE r == AddMember(w, s, k)
           seat == [here |-> TRUE, account |-> k.account, lobby |-> k.lobby, afk |-> FALSE]
           p == [w.participants EXCEPT ![s] = seat]
           b == [w.byAccount EXCEPT ![k.account] = s]
           g == w.guestByIp
           i == w.guestIp
           d == [w.idle EXCEPT ![s] = 0]
<1>1. /\ w.participants \in [Socket -> Seat \union {NoSeat}]
      /\ w.byAccount \in [Account -> Socket \union {NoSocket}]
      /\ w.guestByIp \in [Ip -> Socket \union {NoSocket}]
      /\ w.guestIp \in [Socket -> Ip \union {NoIp}]
      /\ w.idle \in [Socket -> 0 .. AfkTicks]
  BY DEF World
<1>2. r = [w EXCEPT !.participants = p, !.byAccount = b, !.guestByIp = g, !.guestIp = i,
                    !.idle = d]
  BY DEF AddMember, World
<1>3. seat \in Seat /\ seat.here /\ seat.account = k.account
  BY DEF Seat, SocketState
<1>4. /\ p \in [Socket -> Seat \union {NoSeat}]
      /\ b \in [Account -> Socket \union {NoSocket}]
      /\ g \in [Ip -> Socket \union {NoSocket}]
      /\ i \in [Socket -> Ip \union {NoIp}]
      /\ d \in [Socket -> 0 .. AfkTicks]
  <2>1. 0 \in 0 .. AfkTicks
    BY AfkAssumption
  <2> HIDE DEF seat
  <2> QED
    BY <1>1, <1>3, <2>1
<1>5. /\ r \in World /\ r.participants = p /\ r.byAccount = b /\ r.guestByIp = g
      /\ r.guestIp = i
  <2> HIDE DEF p, b, g, i, d, r
  <2> QED
    BY <1>2, <1>4 DEF World
<1> HIDE DEF r, seat
<1>6. Agree(r)
  <2>1. \A a \in Account, x \in Socket :
           r.byAccount[a] = x <=> r.participants[x].here /\ r.participants[x].account = a
    BY <1>1, <1>5, <1>3, NoneAssumption, NoSeatIsFree DEF Agree
  <2>2. \A y \in Ip, x \in Socket : r.guestByIp[y] = x <=> r.guestIp[x] = y
    BY <1>5 DEF Agree
  <2>3. \A x \in Socket :
          r.guestIp[x] # NoIp
             <=> r.participants[x].here /\ r.participants[x].account = NoAccount
    BY <1>1, <1>5, <1>3, NoneAssumption, NoSeatIsFree DEF Agree
  <2> QED
    BY <2>1, <2>2, <2>3 DEF Agree
<1> QED
  BY <1>5, <1>6 DEF r, seat

\* A guest takes a seat that is free, at an address from which no other guest came.
LEMMA AddGuestAgrees ==
    ASSUME NEW w \in World, Agree(w), NEW s \in Socket, NEW k \in SocketState,
           k.ip \in Ip, w.participants[s] = NoSeat, w.guestByIp[k.ip] = NoSocket
    PROVE  /\ AddGuest(w, s, k) \in World
           /\ Agree(AddGuest(w, s, k))
           /\ AddGuest(w, s, k).participants =
                 [w.participants EXCEPT ![s] = [here |-> TRUE, account |-> NoAccount,
                                                lobby |-> k.lobby, afk |-> FALSE]]
<1> DEFINE r == AddGuest(w, s, k)
           seat == [here |-> TRUE, account |-> NoAccount, lobby |-> k.lobby, afk |-> FALSE]
           p == [w.participants EXCEPT ![s] = seat]
           b == w.byAccount
           g == [w.guestByIp EXCEPT ![k.ip] = s]
           i == [w.guestIp EXCEPT ![s] = k.ip]
           d == [w.idle EXCEPT ![s] = 0]
<1>1. /\ w.participants \in [Socket -> Seat \union {NoSeat}]
      /\ w.byAccount \in [Account -> Socket \union {NoSocket}]
      /\ w.guestByIp \in [Ip -> Socket \union {NoSocket}]
      /\ w.guestIp \in [Socket -> Ip \union {NoIp}]
      /\ w.idle \in [Socket -> 0 .. AfkTicks]
  BY DEF World
<1>2. r = [w EXCEPT !.participants = p, !.byAccount = b, !.guestByIp = g, !.guestIp = i,
                    !.idle = d]
  BY DEF AddGuest, World
<1>3. seat \in Seat /\ seat.here /\ seat.account = NoAccount
  BY DEF Seat, SocketState
<1>4. /\ p \in [Socket -> Seat \union {NoSeat}]
      /\ b \in [Account -> Socket \union {NoSocket}]
      /\ g \in [Ip -> Socket \union {NoSocket}]
      /\ i \in [Socket -> Ip \union {NoIp}]
      /\ d \in [Socket -> 0 .. AfkTicks]
  <2>1. 0 \in 0 .. AfkTicks
    BY AfkAssumption
  <2> HIDE DEF seat
  <2> QED
    BY <1>1, <1>3, <2>1
<1>5. /\ r \in World /\ r.participants = p /\ r.byAccount = b /\ r.guestByIp = g
      /\ r.guestIp = i
  <2> HIDE DEF p, b, g, i, d, r
  <2> QED
    BY <1>2, <1>4 DEF World
<1> HIDE DEF r, seat
<1>6. Agree(r)
  <2>1. \A a \in Account, x \in Socket :
           r.byAccount[a] = x <=> r.participants[x].here /\ r.participants[x].account = a
    BY <1>1, <1>5, <1>3, NoneAssumption, NoSeatIsFree DEF Agree
  <2>2. \A y \in Ip, x \in Socket : r.guestByIp[y] = x <=> r.guestIp[x] = y
    BY <1>1, <1>5, NoneAssumption, NoSeatIsFree DEF Agree
  <2>3. \A x \in Socket :
          r.guestIp[x] # NoIp
             <=> r.participants[x].here /\ r.participants[x].account = NoAccount
    BY <1>1, <1>5, <1>3, NoneAssumption, NoSeatIsFree DEF Agree
  <2> QED
    BY <2>1, <2>2, <2>3 DEF Agree
<1> QED
  BY <1>5, <1>6 DEF r, seat

-----------------------------------------------------------------------------
\* What the clients show

\* A client shows nothing but participants and empty places.
LEMMA HearsFits ==
    ASSUME TypeOK, NEW w \in World, NEW left, NEW told
    PROVE  Hears(w, left, told) \in [Socket -> [Socket -> Seat \union {NoSeat}]]
<1>1. /\ w.participants \in [Socket -> Seat \union {NoSeat}]
      /\ view \in [Socket -> [Socket -> Seat \union {NoSeat}]]
  BY DEF World, TypeOK
<1>2. Nobody \in [Socket -> Seat \union {NoSeat}]
  BY DEF Nobody
<1> QED
  BY <1>1, <1>2 DEF Hears

\* A client in the room shows the room, if it showed it before and was told of all who are
\* gone and of all others whose place changed.
LEMMA HearsAll ==
    ASSUME TypeOK, ViewsAgree, NEW w \in World, NEW left, NEW told,
           \A p \in Socket : p \notin told =>
               w.participants[p] = IF p \in left THEN NoSeat ELSE world.participants[p],
           NEW v \in Socket, Seated(v), w.participants[v].here
    PROVE  Hears(w, left, told)[v] = w.participants
<1>1. /\ w.participants \in [Socket -> Seat \union {NoSeat}]
      /\ view[v] = world.participants
  BY DEF World, ViewsAgree
<1>2. Hears(w, left, told)[v] =
         [p \in Socket |-> IF p \in told THEN w.participants[p]
                           ELSE IF p \in left THEN NoSeat ELSE view[v][p]]
  BY DEF Hears
<1>3. \A p \in Socket : w.participants[p] = IF p \in told THEN w.participants[p]
                           ELSE IF p \in left THEN NoSeat ELSE view[v][p]
  BY <1>1
<1> QED
  BY <1>1, <1>2, <1>3

-----------------------------------------------------------------------------
\* The invariant is kept by every step

\* What every step uses of the invariant.
LEMMA Known ==
    ASSUME IInv
    PROVE  /\ sock \in [Socket -> SocketState]
           /\ \A s \in Socket : sock[s].up \/ sock[s].waits \/ sock[s] = Closed
           /\ world \in World /\ Agree(world)
           /\ world.participants \in [Socket -> Seat \union {NoSeat}]
           /\ world.byAccount \in [Account -> Socket \union {NoSocket}]
           /\ world.guestByIp \in [Ip -> Socket \union {NoSocket}]
           /\ timers \subseteq Socket
           /\ \A s \in Socket : world.participants[s].here =>
                 sock[s].up /\ ~sock[s].waits /\ sock[s].lobby = world.participants[s].lobby
           /\ timers = {s \in Socket : /\ world.participants[s].here
                                       /\ world.participants[s].account # NoAccount}
           /\ \A s \in Socket : sock[s].waits => sock[s].account \in Account
  BY DEF IInv, TypeOK, MapsAgree, Agree, NoGhosts, Handlers, Seated, World

\* A closed socket is of its type.
LEMMA ClosedFits == Closed \in SocketState /\ ~Closed.up /\ ~Closed.waits
  BY DEF Closed, SocketState

\* The invariant of the next state, from what a step does to sockets, maps and timers.
LEMMA Assembled ==
    ASSUME sock' \in [Socket -> SocketState], world' \in World, Agree(world)',
           \A x \in Socket : sock'[x].up \/ sock'[x].waits \/ sock'[x] = Closed,
           \A x \in Socket : sock'[x].waits => sock'[x].account \in Account,
           \A x \in Socket : world'.participants[x].here =>
               /\ sock'[x].up /\ ~sock'[x].waits
               /\ sock'[x].lobby = world'.participants[x].lobby,
           timers' = {x \in Socket : /\ world'.participants[x].here
                                     /\ world'.participants[x].account # NoAccount},
           view' \in [Socket -> [Socket -> Seat \union {NoSeat}]],
           \A v \in Socket : world'.participants[v].here => view'[v] = world'.participants
    PROVE  IInv'
<1>1. TypeOK'
  BY DEF TypeOK
<1>2. MapsAgree'
  BY DEF MapsAgree, Agree
<1>3. NoGhosts' /\ ViewsAgree' /\ Handlers'
  BY DEF NoGhosts, ViewsAgree, Handlers, Seated
<1> QED
  BY <1>1, <1>2, <1>3 DEF IInv

\* The seat that a newcomer takes.
LEMMA NewcomerFits ==
    ASSUME NEW k \in SocketState, k.up
    PROVE  /\ [k EXCEPT !.waits = FALSE] \in SocketState
           /\ [k EXCEPT !.waits = FALSE].up
           /\ ~[k EXCEPT !.waits = FALSE].waits
           /\ [k EXCEPT !.waits = FALSE].lobby = k.lobby
  BY DEF SocketState

\* The maps w are those in which s, which had no seat, took `seat` in place of `old`.
Placed(s, k, old, w, seat) ==
    /\ s \in Socket /\ k \in SocketState /\ old \in Socket \union {NoSocket} /\ old # s
    /\ seat \in Seat /\ seat.lobby = k.lobby
    /\ ~world.participants[s].here
    /\ w \in World /\ Agree(w)
    /\ \A x \in Socket : w.participants[x] =
          IF x = s THEN seat ELSE IF x = old THEN NoSeat ELSE world.participants[x]

\* A handler lets its socket in, to a seat that is free, in place of another socket's or
\* of nobody's.
LEMMA LetInKeeps ==
    ASSUME IInv, NEW s, NEW k, NEW old, NEW w, NEW seat, Placed(s, k, old, w, seat),
           LetIn(s, k, old, w, seat.account # NoAccount)
    PROVE  IInv'
<1>0. /\ s \in Socket /\ k \in SocketState /\ old \in Socket \union {NoSocket} /\ old # s
      /\ seat \in Seat /\ seat.lobby = k.lobby
      /\ ~world.participants[s].here
      /\ w \in World /\ Agree(w)
      /\ \A x \in Socket : w.participants[x] =
            IF x = s THEN seat ELSE IF x = old THEN NoSeat ELSE world.participants[x]
  BY DEF Placed
<1> USE <1>0
<1>1. seat.here /\ seat.account \in Account \union {NoAccount}
  BY DEF Seat
<1>2. CASE k.up /\ world' = w
  <2> DEFINE entered == [k EXCEPT !.waits = FALSE]
  <2>1. /\ sock' = [x \in Socket |-> IF x = s THEN entered
                                     ELSE IF x = old THEN Closed ELSE sock[x]]
        /\ timers' = (timers \ {old}) \union (IF seat.account # NoAccount THEN {s} ELSE {})
        /\ view' = [Hears(w, {old}, {s}) EXCEPT ![s] = w.participants]
    BY <1>2 DEF LetIn
  <2>2. entered \in SocketState /\ ~entered.waits /\ entered.up /\ entered.lobby = k.lobby
    BY <1>2, NewcomerFits
  <2> HIDE DEF entered
  <2>3. /\ sock' \in [Socket -> SocketState]
        /\ \A x \in Socket : sock'[x].up \/ sock'[x].waits \/ sock'[x] = Closed
        /\ \A x \in Socket : sock'[x].waits => sock'[x].account \in Account
    BY <2>1, <2>2, Known, ClosedFits
  <2>4. \A x \in Socket : world'.participants[x].here =>
               /\ sock'[x].up /\ ~sock'[x].waits
               /\ sock'[x].lobby = world'.participants[x].lobby
    BY <1>2, <2>1, <2>2, Known, NoSeatIsFree
  <2>5. timers' = {x \in Socket : /\ world'.participants[x].here
                                  /\ world'.participants[x].account # NoAccount}
    BY <1>1, <1>2, <2>1, Known, NoSeatIsFree
  <2>6. view' \in [Socket -> [Socket -> Seat \union {NoSeat}]]
    BY <2>1, HearsFits DEF World, IInv
  <2>7. \A v \in Socket : world'.participants[v].here => view'[v] = world'.participants
    <3> SUFFICES ASSUME NEW v \in Socket, w.participants[v].here
                 PROVE  view'[v] = w.participants
      BY <1>2
    <3>1. CASE v = s
      BY <2>1, <2>6, <3>1, HearsFits DEF IInv
    <3>2. CASE v # s
      <4>1. Seated(v)
        BY <3>2, NoSeatIsFree DEF Seated
      <4>2. Hears(w, {old}, {s})[v] = w.participants
        BY <4>1, HearsAll DEF IInv
      <4> QED
        BY <2>1, <3>2, <4>2, HearsFits DEF IInv
    <3> QED
      BY <3>1, <3>2
  <2>8. Agree(world)'
    BY <1>2 DEF Agree
  <2> QED
    BY <1>2, <2>3, <2>4, <2>5, <2>6, <2>7, <2>8, Assembled
<1>3. CASE ~k.up /\ world' = Remove(w, {s})
  <2>1. /\ sock' = [x \in Socket |-> IF x \in {s, old} THEN Closed ELSE sock[x]]
        /\ timers' = timers \ {old}
        /\ view' = Hears(world', {s, old}, {})
    BY <1>3 DEF LetIn
  <2>2. /\ world' \in World /\ Agree(world)'
        /\ \A x \in Socket : world'.participants[x] =
                                IF x = s THEN NoSeat ELSE w.participants[x]
    BY <1>3, RemoveAgrees DEF Agree
  <2>3. \A x \in Socket : world'.participants[x] =
                             IF x \in {s, old} THEN NoSeat ELSE world.participants[x]
    BY <2>2
  <2>4. /\ sock' \in [Socket -> SocketState]
        /\ \A x \in Socket : sock'[x].up \/ sock'[x].waits \/ sock'[x] = Closed
        /\ \A x \in Socket : sock'[x].waits => sock'[x].account \in Account
    BY <2>1, Known, ClosedFits
  <2>5. \A x \in Socket : world'.participants[x].here =>
               /\ sock'[x].up /\ ~sock'[x].waits
               /\ sock'[x].lobby = world'.participants[x].lobby
    BY <2>1, <2>3, Known, NoSeatIsFree
  <2>6. timers' = {x \in Socket : /\ world'.participants[x].here
                                  /\ world'.participants[x].account # NoAccount}
    BY <2>1, <2>3, Known, NoSeatIsFree
  <2>7. view' \in [Socket -> [Socket -> Seat \union {NoSeat}]]
    BY <2>1, <2>2, HearsFits DEF IInv
  <2>8. \A v \in Socket : world'.participants[v].here => view'[v] = world'.participants
    BY <2>1, <2>2, <2>3, HearsAll, NoSeatIsFree DEF IInv, Seated
  <2> QED
    BY <2>2, <2>4, <2>5, <2>6, <2>7, <2>8, Assembled
<1> QED
  BY <1>2, <1>3 DEF LetIn

\* Nobody else loses a seat to the newcomer, whose handler no longer waits.
LEMMA LetInEvicts ==
    ASSUME IInv, NEW s, NEW k, NEW old, NEW w, NEW seat, Placed(s, k, old, w, seat),
           LetIn(s, k, old, w, seat.account # NoAccount)
    PROVE  /\ ~sock'[s].waits
           /\ \A x \in Socket :
                 world.participants[x].here /\ ~world'.participants[x].here => x = old
<1>0. /\ s \in Socket /\ k \in SocketState /\ old \in Socket \union {NoSocket} /\ old # s
      /\ seat \in Seat /\ ~world.participants[s].here
      /\ w \in World /\ Agree(w)
      /\ \A x \in Socket : w.participants[x] =
            IF x = s THEN seat ELSE IF x = old THEN NoSeat ELSE world.participants[x]
  BY DEF Placed
<1>1. CASE k.up /\ world' = w /\ sock' = [x \in Socket |->
              IF x = s THEN [k EXCEPT !.waits = FALSE] ELSE IF x = old THEN Closed ELSE sock[x]]
  <2> DEFINE entered == [k EXCEPT !.waits = FALSE]
  <2>1. ~entered.waits /\ sock'[s] = entered
    BY <1>0, <1>1, NewcomerFits
  <2> QED
    BY <1>0, <1>1, <2>1
<1>2. CASE ~k.up /\ world' = Remove(w, {s})
           /\ sock' = [x \in Socket |-> IF x \in {s, old} THEN Closed ELSE sock[x]]
  <2>1. \A x \in Socket : world'.participants[x] =
                             IF x \in {s} THEN NoSeat ELSE w.participants[x]
    BY <1>0, <1>2, RemoveAgrees
  <2> QED
    BY <1>0, <1>2, <2>1, ClosedFits
<1> QED
  BY <1>1, <1>2 DEF LetIn

\* A socket that is turned away had no seat, so closing it changes nothing else.
LEMMA TurnAwayKeeps ==
    ASSUME IInv, NEW s \in Socket, ~world.participants[s].here, TurnAway(s)
    PROVE  IInv'
<1>1. sock' = [sock EXCEPT ![s] = Closed] /\ world' = world /\ timers' = timers /\ view' = view
  BY DEF TurnAway
<1>2. Agree(world)'
  BY <1>1, Known DEF Agree
<1>3. /\ view' \in [Socket -> [Socket -> Seat \union {NoSeat}]]
      /\ \A v \in Socket : world'.participants[v].here => view'[v] = world'.participants
  BY <1>1 DEF IInv, TypeOK, ViewsAgree, Seated
<1> QED
  BY <1>1, <1>2, <1>3, Known, ClosedFits, Assembled

\* A guest comes in: whoever was at the address goes first, so that the address is free.
LEMMA GuestTakes ==
    ASSUME IInv, NEW s \in Socket, NEW k \in SocketState, ~world.participants[s].here,
           GuestIn(s, k)
    PROVE  \/ TurnAway(s)
           \/ \E old, w, seat :
                 /\ Placed(s, k, old, w, seat)
                 /\ LetIn(s, k, old, w, seat.account # NoAccount)
                 /\ old # NoSocket => sock[old].lobby
<1> DEFINE old == IF k.ip = NoIp THEN NoSocket ELSE world.guestByIp[k.ip]
           left == Remove(world, {old})
           w == AddGuest(left, s, k)
           seat == [here |-> TRUE, account |-> NoAccount, lobby |-> k.lobby, afk |-> FALSE]
<1>1. CASE k.ip = NoIp \/ GuestBlocked(old)
  BY <1>1 DEF GuestIn
<1>2. CASE ~(k.ip = NoIp \/ GuestBlocked(old))
  <2>1. k.ip \in Ip /\ old = world.guestByIp[k.ip] /\ LetIn(s, k, old, w, FALSE)
    BY <1>2 DEF GuestIn, SocketState
  <2>2. old \in Socket \union {NoSocket} /\ old # s
    BY <2>1, Known, NoneAssumption DEF Agree
  <2>3. old # NoSocket => sock[old].lobby
    BY <1>2 DEF GuestBlocked
  <2> HIDE DEF old
  <2>4. /\ left \in World /\ Agree(left)
        /\ \A x \in Socket : left.participants[x] =
                                IF x = old THEN NoSeat ELSE world.participants[x]
        /\ left.guestByIp[k.ip] = NoSocket
    <3>1. old \in {old} /\ world.guestByIp[k.ip] = old
      BY <2>1
    <3> HIDE DEF left
    <3>2. left = Remove(world, {old})
      BY DEF left
    <3>3. k.ip \in Ip
      BY <2>1
    <3> QED
      BY <3>1, <3>2, <3>3, Known, RemoveAgrees
  <2>5. left.participants[s] = NoSeat
    BY <2>2, <2>4, Known, SeatOrNone
  <2> HIDE DEF left
  <2>6. w \in World /\ Agree(w) /\ w.participants = [left.participants EXCEPT ![s] = seat]
    BY <2>1, <2>4, <2>5, AddGuestAgrees
  <2>7. seat \in Seat /\ seat.lobby = k.lobby /\ seat.account = NoAccount
    BY DEF Seat, SocketState
  <2> HIDE DEF w, seat
  <2>8. \A x \in Socket : w.participants[x] =
           IF x = s THEN seat ELSE IF x = old THEN NoSeat ELSE world.participants[x]
    BY <2>4, <2>6 DEF World
  <2>9. LetIn(s, k, old, w, seat.account # NoAccount)
    BY <2>1, <2>7 DEF LetIn
  <2>10. Placed(s, k, old, w, seat)
    BY <2>2, <2>6, <2>7, <2>8 DEF Placed
  <2> QED
    BY <2>3, <2>9, <2>10
<1> QED
  BY <1>1, <1>2

\* A member comes in: whoever had the account's seat goes first.
LEMMA MemberTakes ==
    ASSUME IInv, NEW s \in Socket, MemberIn(s)
    PROVE  /\ ~world.participants[s].here
           /\ \/ TurnAway(s)
              \/ \E old, w, seat :
                    /\ Placed(s, sock[s], old, w, seat)
                    /\ LetIn(s, sock[s], old, w, seat.account # NoAccount)
                    /\ old = world.byAccount[sock[s].account]
                    /\ old # NoSocket => ~sock[s].lobby \/ sock[old].lobby
<1> DEFINE k == sock[s]
           old == world.byAccount[k.account]
           left == Remove(world, {old})
           w == AddMember(left, s, k)
           seat == [here |-> TRUE, account |-> k.account, lobby |-> k.lobby, afk |-> FALSE]
<1>1. k \in SocketState /\ k.waits /\ k.account \in Account /\ ~world.participants[s].here
  BY Known DEF MemberIn
<1>2. CASE MemberBlocked(k, old)
  BY <1>1, <1>2 DEF MemberIn
<1>3. CASE ~MemberBlocked(k, old)
  <2>1. LetIn(s, k, old, w, TRUE)
    BY <1>3 DEF MemberIn
  <2>2. /\ old = world.byAccount[sock[s].account]
        /\ old # NoSocket => ~sock[s].lobby \/ sock[old].lobby
    BY <1>3 DEF MemberBlocked
  <2> HIDE DEF k
  <2>3. old \in Socket \union {NoSocket} /\ old # s
    BY <1>1, Known DEF Agree
  <2>4. /\ left \in World /\ Agree(left)
        /\ \A x \in Socket : left.participants[x] =
                                IF x = old THEN NoSeat ELSE world.participants[x]
        /\ left.byAccount[k.account] = NoSocket
    <3>1. old \in {old} /\ world.byAccount[k.account] = old
      OBVIOUS
    <3> HIDE DEF left, old
    <3>2. left = Remove(world, {old})
      BY DEF left
    <3> QED
      BY <1>1, <3>1, <3>2, Known, RemoveAgrees
  <2> HIDE DEF old
  <2>5. left.participants[s] = NoSeat
    BY <1>1, <2>3, <2>4, Known, SeatOrNone
  <2> HIDE DEF left
  <2>6. w \in World /\ Agree(w) /\ w.participants = [left.participants EXCEPT ![s] = seat]
    BY <1>1, <2>4, <2>5, AddMemberAgrees
  <2>7. seat \in Seat /\ seat.lobby = k.lobby /\ seat.account # NoAccount
    BY <1>1, NoneAssumption DEF Seat, SocketState
  <2> HIDE DEF w, seat
  <2>8. \A x \in Socket : w.participants[x] =
           IF x = s THEN seat ELSE IF x = old THEN NoSeat ELSE world.participants[x]
    BY <2>4, <2>6 DEF World
  <2>9. LetIn(s, k, old, w, seat.account # NoAccount)
    BY <2>1, <2>7 DEF LetIn
  <2>10. Placed(s, k, old, w, seat)
    BY <1>1, <2>3, <2>6, <2>7, <2>8 DEF Placed
  <2> QED
    BY <1>1, <2>2, <2>9, <2>10 DEF k
<1> QED
  BY <1>2, <1>3

\* Either way the invariant is kept.
LEMMA GuestInKeeps ==
    ASSUME IInv, NEW s \in Socket, NEW k \in SocketState, ~world.participants[s].here,
           GuestIn(s, k)
    PROVE  IInv'
  BY GuestTakes, TurnAwayKeeps, LetInKeeps

\* And so it is when a member comes in.
LEMMA MemberInKeeps ==
    ASSUME IInv, NEW s \in Socket, MemberIn(s)
    PROVE  IInv'
  BY MemberTakes, TurnAwayKeeps, LetInKeeps

\* A socket connects: it waits for its session, or comes in as a guest.
LEMMA ConnectKeeps ==
    ASSUME IInv, NEW s \in Socket, NEW k \in SocketState, Connect(s, k)
    PROVE  IInv'
<1>1. sock[s] = Closed /\ k.up /\ k.waits = (k.account # NoAccount)
  BY DEF Connect
<1>2. ~world.participants[s].here
  BY <1>1, Known, ClosedFits
<1>3. CASE k.waits /\ sock' = [sock EXCEPT ![s] = k] /\ UNCHANGED <<world, timers, view>>
  <2>1. k.account \in Account
    BY <1>1, <1>3 DEF SocketState
  <2>2. Agree(world)'
    BY <1>3, Known DEF Agree
  <2>3. /\ view' \in [Socket -> [Socket -> Seat \union {NoSeat}]]
        /\ \A v \in Socket : world'.participants[v].here => view'[v] = world'.participants
    BY <1>3 DEF IInv, TypeOK, ViewsAgree, Seated
  <2> QED
    BY <1>1, <1>2, <1>3, <2>1, <2>2, <2>3, Known, Assembled
<1>4. CASE GuestIn(s, k)
  BY <1>2, <1>4, GuestInKeeps
<1> QED
  BY <1>3, <1>4 DEF Connect

\* A socket drops: its seat and its timer go with it, and the others hear of it.
LEMMA DropKeeps ==
    ASSUME IInv, NEW s \in Socket, Drop(s)
    PROVE  /\ IInv'
           /\ \A x \in Socket \ {s} :
                 world.participants[x].here => world'.participants[x].here
<1> DEFINE rest == IF sock[s].waits THEN [sock[s] EXCEPT !.up = FALSE] ELSE Closed
<1>1. /\ sock' = [sock EXCEPT ![s] = rest]
      /\ world' = Remove(world, {s})
      /\ timers' = timers \ {s}
      /\ view' = Hears(world', {s}, {})
  BY DEF Drop
<1>2. /\ world' \in World /\ Agree(world)'
      /\ \A x \in Socket : world'.participants[x] =
                              IF x = s THEN NoSeat ELSE world.participants[x]
  BY <1>1, Known, RemoveAgrees DEF Agree
<1>3. /\ rest \in SocketState /\ (rest.waits \/ rest = Closed)
      /\ rest.waits => rest.account = sock[s].account /\ sock[s].waits
  <2>1. sock[s] \in SocketState
    BY Known
  <2> QED
    BY <2>1, ClosedFits DEF SocketState
<1> HIDE DEF rest
<1>4. /\ sock' \in [Socket -> SocketState]
      /\ \A x \in Socket : sock'[x].up \/ sock'[x].waits \/ sock'[x] = Closed
      /\ \A x \in Socket : sock'[x].waits => sock'[x].account \in Account
  BY <1>1, <1>3, Known, ClosedFits
<1>5. \A x \in Socket : world'.participants[x].here =>
             /\ sock'[x].up /\ ~sock'[x].waits
             /\ sock'[x].lobby = world'.participants[x].lobby
  BY <1>1, <1>2, Known, NoSeatIsFree
<1>6. timers' = {x \in Socket : /\ world'.participants[x].here
                                /\ world'.participants[x].account # NoAccount}
  BY <1>1, <1>2, Known, NoSeatIsFree
<1>7. view' \in [Socket -> [Socket -> Seat \union {NoSeat}]]
  BY <1>1, <1>2, HearsFits DEF IInv
<1>8. \A v \in Socket : world'.participants[v].here => view'[v] = world'.participants
  <2> SUFFICES ASSUME NEW v \in Socket, world'.participants[v].here
               PROVE  view'[v] = world'.participants
    OBVIOUS
  <2>1. Seated(v)
    BY <1>2, NoSeatIsFree DEF Seated
  <2>2. \A x \in Socket : x \notin {} =>
           world'.participants[x] = IF x \in {s} THEN NoSeat ELSE world.participants[x]
    BY <1>2
  <2>3. Hears(world', {s}, {})[v] = world'.participants
    BY <1>2, <2>1, <2>2, HearsAll DEF IInv
  <2> QED
    BY <1>1, <2>3
<1> QED
  BY <1>2, <1>4, <1>5, <1>6, <1>7, <1>8, Assembled

\* The seats change in nothing but who is away, and the clocks run.
LEMMA SeatsKept ==
    ASSUME IInv, world' \in World, UNCHANGED <<sock, timers>>,
           \A x \in Socket : /\ world'.participants[x].here <=> world.participants[x].here
                             /\ world.participants[x].here =>
                                   /\ world'.participants[x].account
                                         = world.participants[x].account
                                   /\ world'.participants[x].lobby
                                         = world.participants[x].lobby,
           world'.byAccount = world.byAccount, world'.guestByIp = world.guestByIp,
           world'.guestIp = world.guestIp,
           view' \in [Socket -> [Socket -> Seat \union {NoSeat}]],
           \A v \in Socket : world'.participants[v].here => view'[v] = world'.participants
    PROVE  IInv'
<1>1. Agree(world)'
  <2>1. \A a \in Account, s \in Socket :
           world'.byAccount[a] = s
              <=> world'.participants[s].here /\ world'.participants[s].account = a
    BY Known DEF Agree
  <2>2. \A i \in Ip, s \in Socket : world'.guestByIp[i] = s <=> world'.guestIp[s] = i
    BY Known DEF Agree
  <2>3. \A s \in Socket :
          world'.guestIp[s] # NoIp
             <=> world'.participants[s].here /\ world'.participants[s].account = NoAccount
    BY Known DEF Agree
  <2> QED
    BY <2>1, <2>2, <2>3 DEF Agree
<1>2. timers' = {x \in Socket : /\ world'.participants[x].here
                                /\ world'.participants[x].account # NoAccount}
  BY Known
<1> QED
  BY <1>1, <1>2, Known, Assembled

\* A participant is active again, and whoever saw it away hears of it.
LEMMA ActivityKeeps ==
    ASSUME IInv, NEW s \in Socket, Activity(s)
    PROVE  /\ IInv'
           /\ \A x \in Socket : world.participants[x].here => world'.participants[x].here
<1> DEFINE seat == [world.participants[s] EXCEPT !.afk = FALSE]
           p == [world.participants EXCEPT ![s] = seat]
           d == [world.idle EXCEPT ![s] = 0]
<1>1. world.participants[s] \in Seat /\ world.participants[s].here
  BY Known, SeatOrNone DEF Activity, Seated
<1>2. world' = [world EXCEPT !.participants = p, !.idle = d]
  BY Known DEF Activity, World
<1>3. /\ seat \in Seat /\ seat.here /\ seat.account = world.participants[s].account
      /\ seat.lobby = world.participants[s].lobby
      /\ ~world.participants[s].afk => seat = world.participants[s]
  BY <1>1 DEF Seat
<1> HIDE DEF seat
<1>4. /\ p \in [Socket -> Seat \union {NoSeat}] /\ d \in [Socket -> 0 .. AfkTicks]
      /\ ~world.participants[s].afk => p = world.participants
  <2>1. 0 \in 0 .. AfkTicks /\ world.idle \in [Socket -> 0 .. AfkTicks]
    BY AfkAssumption, Known DEF World
  <2> QED
    BY <1>3, <2>1, Known
<1>5. /\ world' \in World /\ world'.participants = p /\ world'.byAccount = world.byAccount
      /\ world'.guestByIp = world.guestByIp /\ world'.guestIp = world.guestIp
  <2> HIDE DEF p, d
  <2> QED
    BY <1>2, <1>4, Known DEF World
<1>6. \A x \in Socket : world'.participants[x] = IF x = s THEN seat ELSE world.participants[x]
  BY <1>5, Known
<1> HIDE DEF p
<1>7. /\ view' \in [Socket -> [Socket -> Seat \union {NoSeat}]]
      /\ \A v \in Socket : world'.participants[v].here => view'[v] = world'.participants
  <2>1. CASE world.participants[s].afk
    <3>1. view' = Hears(world', {}, {s})
      BY <2>1 DEF Activity
    <3>2. \A x \in Socket : x \notin {s} =>
             world'.participants[x] = IF x \in {} THEN NoSeat ELSE world.participants[x]
      BY <1>6
    <3>3. \A v \in Socket : world'.participants[v].here => Seated(v)
      BY <1>1, <1>6 DEF Seated
    <3>4. \A v \in Socket : world'.participants[v].here =>
             Hears(world', {}, {s})[v] = world'.participants
      BY <1>5, <3>2, <3>3, HearsAll DEF IInv
    <3> QED
      BY <1>5, <3>1, <3>4, HearsFits DEF IInv
  <2>2. CASE ~world.participants[s].afk
    BY <1>4, <1>5, <2>2 DEF IInv, TypeOK, ViewsAgree, Seated, Activity
  <2> QED
    BY <2>1, <2>2
<1>8. UNCHANGED <<sock, timers>>
  BY DEF Activity
<1>9. \A x \in Socket : /\ world'.participants[x].here <=> world.participants[x].here
                        /\ world.participants[x].here =>
                              /\ world'.participants[x].account = world.participants[x].account
                              /\ world'.participants[x].lobby = world.participants[x].lobby
  BY <1>1, <1>3, <1>6
<1> QED
  BY <1>5, <1>7, <1>8, <1>9, SeatsKept

\* Time passes: nothing but the clocks changes.
LEMMA TickKeeps ==
    ASSUME IInv, Tick
    PROVE  /\ IInv'
           /\ \A x \in Socket : world.participants[x].here => world'.participants[x].here
<1> DEFINE d == [s \in Socket |-> IF Seated(s) /\ world.idle[s] < AfkTicks
                                  THEN world.idle[s] + 1 ELSE world.idle[s]]
<1>1. world' = [world EXCEPT !.idle = d] /\ UNCHANGED <<sock, timers, view>>
  BY DEF Tick
<1>2. d \in [Socket -> 0 .. AfkTicks]
  <2>1. world.idle \in [Socket -> 0 .. AfkTicks]
    BY Known DEF World
  <2> QED
    BY <2>1, AfkAssumption
<1> HIDE DEF d
<1>3. /\ world' \in World /\ world'.participants = world.participants
      /\ world'.byAccount = world.byAccount
      /\ world'.guestByIp = world.guestByIp /\ world'.guestIp = world.guestIp
  BY <1>1, <1>2, Known DEF World
<1>4. /\ view' \in [Socket -> [Socket -> Seat \union {NoSeat}]]
      /\ \A v \in Socket : world'.participants[v].here => view'[v] = world'.participants
  BY <1>1, <1>3 DEF IInv, TypeOK, ViewsAgree, Seated
<1> QED
  BY <1>1, <1>3, <1>4, SeatsKept

\* The sweep finds no ghosts, and tells the room of those who are away.
LEMMA SweepKeeps ==
    ASSUME IInv, Sweep
    PROVE  /\ IInv'
           /\ \A x \in Socket : world.participants[x].here => world'.participants[x].here
<1> DEFINE ghosts == {s \in Socket : Seated(s) /\ ~sock[s].up}
           away == {s \in Socket \ ghosts :
                      Seated(s) /\ ~world.participants[s].afk /\ world.idle[s] = AfkTicks}
           rest == Remove(world, ghosts)
           p == [s \in Socket |-> IF s \in away THEN [rest.participants[s] EXCEPT !.afk = TRUE]
                                  ELSE rest.participants[s]]
<1>1. /\ world' = [rest EXCEPT !.participants = p]
      /\ view' = Hears(world', ghosts, away)
      /\ UNCHANGED <<sock, timers>>
  BY DEF Sweep
<1>2. ghosts = {}
  BY DEF IInv, NoGhosts
<1>3. /\ rest \in World /\ rest.participants \in [Socket -> Seat \union {NoSeat}]
      /\ \A s \in Socket : rest.participants[s] = world.participants[s]
      /\ \A a \in Account : rest.byAccount[a] = world.byAccount[a]
      /\ \A i \in Ip : rest.guestByIp[i] = world.guestByIp[i]
      /\ Agree(rest)
  <2> HIDE DEF ghosts
  <2> QED
    BY <1>2, Known, RemoveAgrees DEF World
<1>4. away \subseteq Socket /\ \A s \in away : world.participants[s].here
  BY DEF Seated
<1> HIDE DEF rest, ghosts, away
<1>5. \A s \in Socket :
         /\ p[s] \in Seat \union {NoSeat}
         /\ p[s].here <=> world.participants[s].here
         /\ s \notin away => p[s] = world.participants[s]
         /\ p[s].here => /\ p[s].account = world.participants[s].account
                         /\ p[s].lobby = world.participants[s].lobby
  <2> SUFFICES ASSUME NEW s \in Socket
               PROVE  /\ p[s] \in Seat \union {NoSeat}
                      /\ p[s].here <=> world.participants[s].here
                      /\ s \notin away => p[s] = world.participants[s]
                      /\ p[s].here => /\ p[s].account = world.participants[s].account
                                      /\ p[s].lobby = world.participants[s].lobby
    OBVIOUS
  <2>1. CASE s \in away
    <3>1. rest.participants[s] \in Seat /\ rest.participants[s] = world.participants[s]
      BY <1>3, <1>4, <2>1, SeatOrNone
    <3> QED
      BY <2>1, <3>1 DEF Seat
  <2>2. CASE s \notin away
    BY <1>3, <2>2
  <2> QED
    BY <2>1, <2>2
<1>6. p \in [Socket -> Seat \union {NoSeat}]
  BY <1>5
<1> HIDE DEF p
<1>7. /\ world' \in World /\ world'.participants = p /\ world'.byAccount = rest.byAccount
      /\ world'.guestByIp = rest.guestByIp /\ world'.guestIp = rest.guestIp
  BY <1>1, <1>3, <1>6 DEF World
<1>8. /\ view' \in [Socket -> [Socket -> Seat \union {NoSeat}]]
      /\ \A v \in Socket : world'.participants[v].here => view'[v] = world'.participants
  <2>1. \A x \in Socket : x \notin away =>
           world'.participants[x] = IF x \in ghosts THEN NoSeat ELSE world.participants[x]
    BY <1>2, <1>5, <1>7
  <2>2. \A v \in Socket : world'.participants[v].here => Seated(v)
    BY <1>5, <1>7 DEF Seated
  <2>3. \A v \in Socket : world'.participants[v].here =>
           Hears(world', ghosts, away)[v] = world'.participants
    BY <1>7, <2>1, <2>2, HearsAll DEF IInv
  <2> QED
    BY <1>1, <1>7, <2>3, HearsFits DEF IInv
<1>9. Agree(world)'
  <2>1. \A a \in Account, s \in Socket :
           world'.byAccount[a] = s
              <=> world'.participants[s].here /\ world'.participants[s].account = a
    BY <1>3, <1>5, <1>7, Known DEF Agree
  <2>2. \A i \in Ip, s \in Socket : world'.guestByIp[i] = s <=> world'.guestIp[s] = i
    BY <1>3, <1>7 DEF Agree
  <2>3. \A s \in Socket :
          world'.guestIp[s] # NoIp
             <=> world'.participants[s].here /\ world'.participants[s].account = NoAccount
    BY <1>3, <1>5, <1>7 DEF Agree
  <2> QED
    BY <2>1, <2>2, <2>3 DEF Agree
<1>10. timers' = {x \in Socket : /\ world'.participants[x].here
                                 /\ world'.participants[x].account # NoAccount}
  BY <1>1, <1>5, <1>7, Known
<1>11. \A x \in Socket : world.participants[x].here => world'.participants[x].here
  BY <1>5, <1>7
<1>12. \A x \in Socket : world'.participants[x].here =>
              /\ sock'[x].up /\ ~sock'[x].waits
              /\ sock'[x].lobby = world'.participants[x].lobby
  BY <1>1, <1>5, <1>7, Known
<1>13. IInv'
  BY <1>1, <1>7, <1>8, <1>9, <1>10, <1>12, Known, Assembled
<1> QED
  BY <1>11, <1>13

\* The server starts with nobody in the world.
LEMMA InitHolds == Init => IInv
<1> SUFFICES ASSUME Init PROVE IInv
  OBVIOUS
<1>1. world \in World
  BY AfkAssumption DEF Init, World, Nobody
<1>2. /\ sock = [s \in Socket |-> Closed] /\ timers = {}
      /\ world.participants = [s \in Socket |-> NoSeat]
      /\ view = [s \in Socket |-> [p \in Socket |-> NoSeat]]
  BY DEF Init, Nobody
<1>3. TypeOK
  BY <1>1, <1>2, ClosedFits DEF TypeOK
<1>4. MapsAgree
  BY <1>2, NoneAssumption, NoSeatIsFree DEF Init, MapsAgree
<1>5. NoGhosts /\ ViewsAgree /\ Handlers
  BY <1>2, ClosedFits, NoSeatIsFree DEF NoGhosts, ViewsAgree, Handlers, Seated
<1> QED
  BY <1>3, <1>4, <1>5 DEF IInv

\* Each handler, and the sweep, keeps the invariant.
LEMMA NextHolds == IInv /\ [Next]_vars => IInv'
<1> SUFFICES ASSUME IInv, [Next]_vars PROVE IInv'
  OBVIOUS
<1>1. ASSUME NEW s \in Socket, NEW k \in SocketState, Connect(s, k) PROVE IInv'
  BY <1>1, ConnectKeeps
<1>2. ASSUME NEW s \in Socket, MemberIn(s) PROVE IInv'
  BY <1>2, MemberInKeeps
<1>3. ASSUME NEW s \in Socket, FallBack(s) PROVE IInv'
  <2>1. sock[s] \in SocketState /\ ~world.participants[s].here /\ GuestIn(s, sock[s])
    BY <1>3, Known DEF FallBack
  <2> QED
    BY <2>1, GuestInKeeps
<1>4. ASSUME NEW s \in Socket, Drop(s) PROVE IInv'
  BY <1>4, DropKeeps
<1>5. ASSUME NEW s \in Socket, Activity(s) PROVE IInv'
  BY <1>5, ActivityKeeps
<1>6. CASE Tick
  BY <1>6, TickKeeps
<1>7. CASE Sweep
  BY <1>7, SweepKeeps
<1>8. CASE UNCHANGED vars
  BY <1>8 DEF vars, IInv, TypeOK, MapsAgree, NoGhosts, ViewsAgree, Handlers, Seated
<1> QED
  BY <1>1, <1>2, <1>3, <1>4, <1>5, <1>6, <1>7, <1>8 DEF Next

\* So it always holds.
LEMMA Inductive == Spec => []IInv
  BY InitHolds, NextHolds, PTL DEF Spec

-----------------------------------------------------------------------------
\* The maps, the sockets, the timers and the views have their types, and a socket that is
\* gone leaves at most its suspended handler behind.
THEOREM TypeCorrect == Spec => []TypeOK
<1>1. IInv => TypeOK
  BY DEF IInv
<1> QED
  BY <1>1, Inductive, PTL

\* The three maps of channel.service.ts agree, however connections, their lookups,
\* disconnects and the sweep interleave.
THEOREM MapsAgreeCorrect == Spec => []MapsAgree
<1>1. IInv => MapsAgree
  BY DEF IInv
<1> QED
  BY <1>1, Inductive, PTL

\* No participant outlives its socket, and no point timer its seat, even when a socket
\* drops while handleConnection is suspended.
THEOREM NoGhostsCorrect == Spec => []NoGhosts
<1>1. IInv => NoGhosts
  BY DEF IInv
<1> QED
  BY <1>1, Inductive, PTL

\* The clients show the roster as it is: every branch of the gateway announces what it does.
THEOREM ViewsAgreeCorrect == Spec => []ViewsAgree
<1>1. IInv => ViewsAgree
  BY DEF IInv
<1> QED
  BY <1>1, Inductive, PTL

-----------------------------------------------------------------------------
\* Who takes a place

\* What ScreenKept says of the socket s in one step.
KeepsScreen(s) ==
    Seated(s) /\ ~world.participants[s].lobby /\ ~world'.participants[s].here =>
        \/ Drop(s)
        \/ \E t \in Socket \ {s} :
              /\ sock[t].waits /\ ~sock'[t].waits /\ ~sock[t].lobby
              /\ sock[t].account = world.participants[s].account

\* A guest comes in only where a chat widget was.
LEMMA GuestEvictsWidget ==
    ASSUME IInv, NEW t \in Socket, NEW k \in SocketState, ~world.participants[t].here,
           GuestIn(t, k), NEW s \in Socket
    PROVE  KeepsScreen(s)
<1> SUFFICES ASSUME world.participants[s].here, ~world.participants[s].lobby,
                    ~world'.participants[s].here
             PROVE  FALSE
  BY DEF KeepsScreen, Seated
<1>1. CASE TurnAway(t)
  BY <1>1 DEF TurnAway
<1>2. ASSUME NEW old, NEW w, NEW seat, Placed(t, k, old, w, seat),
             LetIn(t, k, old, w, seat.account # NoAccount), old # NoSocket => sock[old].lobby
      PROVE  FALSE
  <2>1. s = old
    BY <1>2, LetInEvicts
  <2> QED
    BY <1>2, <2>1, Known, NoneAssumption
<1> QED
  BY <1>1, <1>2, GuestTakes

\* A member with the screen open may take the place of another session of his.
LEMMA MemberEvictsOwn ==
    ASSUME IInv, NEW t \in Socket, MemberIn(t), NEW s \in Socket
    PROVE  KeepsScreen(s)
<1> SUFFICES ASSUME world.participants[s].here, ~world.participants[s].lobby,
                    ~world'.participants[s].here
             PROVE  /\ t # s
                    /\ sock[t].waits /\ ~sock'[t].waits /\ ~sock[t].lobby
                    /\ sock[t].account = world.participants[s].account
  BY DEF KeepsScreen, Seated
<1>1. t # s /\ sock[t].waits /\ sock[t].account \in Account
  BY MemberTakes, Known DEF MemberIn
<1>2. CASE TurnAway(t)
  BY <1>2 DEF TurnAway
<1>3. ASSUME NEW old, NEW w, NEW seat, Placed(t, sock[t], old, w, seat),
             LetIn(t, sock[t], old, w, seat.account # NoAccount),
             old = world.byAccount[sock[t].account],
             old # NoSocket => ~sock[t].lobby \/ sock[old].lobby
      PROVE  ~sock'[t].waits /\ ~sock[t].lobby
             /\ sock[t].account = world.participants[s].account
  <2>1. s = old /\ ~sock'[t].waits
    BY <1>3, LetInEvicts
  <2>2. world.participants[s].account = sock[t].account
    BY <1>1, <1>3, <2>1, Known DEF Agree
  <2> QED
    BY <1>3, <2>1, <2>2, Known, NoneAssumption
<1> QED
  BY <1>1, <1>2, <1>3, MemberTakes

\* The game screen of handleConnection: no chat widget and no guest takes its place.
THEOREM ScreenKeptCorrect == Spec => ScreenKept
<1>1. IInv /\ [Next]_vars => [\A s \in Socket : KeepsScreen(s)]_vars
  <2> SUFFICES ASSUME IInv, Next, NEW s \in Socket PROVE KeepsScreen(s)
    OBVIOUS
  <2>1. ASSUME NEW t \in Socket, NEW k \in SocketState, Connect(t, k) PROVE KeepsScreen(s)
    <3>1. ~world.participants[t].here
      BY <2>1, Known, ClosedFits DEF Connect
    <3>2. CASE UNCHANGED <<world, timers, view>>
      BY <3>2 DEF KeepsScreen, Seated
    <3>3. CASE GuestIn(t, k)
      BY <3>1, <3>3, <2>1, GuestEvictsWidget
    <3> QED
      BY <2>1, <3>2, <3>3 DEF Connect
  <2>2. ASSUME NEW t \in Socket, MemberIn(t) PROVE KeepsScreen(s)
    BY <2>2, MemberEvictsOwn
  <2>3. ASSUME NEW t \in Socket, FallBack(t) PROVE KeepsScreen(s)
    <3>1. sock[t] \in SocketState /\ ~world.participants[t].here /\ GuestIn(t, sock[t])
      BY <2>3, Known DEF FallBack
    <3> QED
      BY <3>1, GuestEvictsWidget
  <2>4. ASSUME NEW t \in Socket, Drop(t) PROVE KeepsScreen(s)
    BY <2>4, DropKeeps DEF KeepsScreen, Seated
  <2>5. ASSUME NEW t \in Socket, Activity(t) PROVE KeepsScreen(s)
    BY <2>5, ActivityKeeps DEF KeepsScreen, Seated
  <2>6. CASE Tick
    BY <2>6, TickKeeps DEF KeepsScreen, Seated
  <2>7. CASE Sweep
    BY <2>7, SweepKeeps DEF KeepsScreen, Seated
  <2> QED
    BY <2>1, <2>2, <2>3, <2>4, <2>5, <2>6, <2>7 DEF Next
<1> QED
  BY <1>1, Inductive, PTL DEF Spec, ScreenKept, KeepsScreen
=============================================================================
