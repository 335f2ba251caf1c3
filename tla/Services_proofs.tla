----------------------------- MODULE Services_proofs -----------------------------
(***************************************************************************)
(* What the services of MCServices promise, for every number of            *)
(* overlapping handlers, keys and members and every value of the limits.   *)
(* Each service has its own inductive invariant; the steps of the others   *)
(* leave its variables alone.                                              *)
(***************************************************************************)
EXTENDS MCServices, Sequences, FiniteSetTheorems, TLAPS

\* A step is one of the service, or leaves it as it is.
LEMMA StepsApart ==
    ASSUME [ServicesNext]_vars
    PROVE  /\ Thread!Next \/ UNCHANGED threadVars
           /\ Naming!Next \/ UNCHANGED namingVars
           /\ Credits!Next \/ Naming!Next \/ UNCHANGED today
           /\ Credits!Next \/ UNCHANGED creditVars
           /\ Alerts!Next \/ UNCHANGED ruleVars
           /\ Ranking!Next \/ UNCHANGED rankingVars
           /\ Notices!Next \/ UNCHANGED noticeVars
           /\ Accounts!Next \/ UNCHANGED accountVars
           /\ Images!Next \/ UNCHANGED imageVars
           /\ Next \/ UNCHANGED rateVars
<1>1. CASE UNCHANGED vars
  BY <1>1 DEF vars, threadVars, namingVars, creditVars, ruleVars, rankingVars, noticeVars,
              accountVars, imageVars, rateVars
<1>2. CASE ServicesNext
  BY <1>2 DEF ServicesNext, In
<1> QED
  BY <1>1, <1>2

\* Each instance counts as its user does.
LEMMA SameCount ==
    /\ \A S : Naming!Cardinality(S) = Cardinality(S)
    /\ \A S : Credits!Cardinality(S) = Cardinality(S)
    /\ \A S : Alerts!Cardinality(S) = Cardinality(S)
    /\ \A S : Accounts!Cardinality(S) = Cardinality(S)
    /\ \A S : Thread!Cardinality(S) = Cardinality(S)
  BY DEF Naming!Cardinality, Credits!Cardinality, Alerts!Cardinality, Accounts!Cardinality,
         Thread!Cardinality, Cardinality

\* The values of a function on a finite set are no more than its members.
LEMMA FewValues ==
    ASSUME NEW S, IsFiniteSet(S), NEW f, f = [x \in S |-> f[x]]
    PROVE  LET T == {f[x] : x \in S}
           IN  IsFiniteSet(T) /\ Cardinality(T) <= Cardinality(S)
<1> DEFINE T == {f[x] : x \in S}
<1>1. f \in Surjection(S, T)
  BY DEF Surjection
<1> QED
  BY <1>1, FS_Surjection

-----------------------------------------------------------------------------
\* Subscriptions

\* A notification removes nothing but what the push service no longer knows.
NoticesInv ==
    /\ Notices!TypeOK
    /\ \A c \in Handler : carriers[c].pc # "resting" => carriers[c].drop \subseteq gone

\* Nobody is notified at first.
LEMMA NoticesInit == Notices!Init => NoticesInv
  BY DEF Notices!Init, NoticesInv, Notices!TypeOK, Notices!Resting

\* A notification that goes on, with devices that are gone.
LEMMA CarriesFits ==
    ASSUME NoticesInv, NEW c \in Handler, NEW j \in Notices!Carrying \union {Notices!Resting},
           Notices!Carries(c, j), j.pc # "resting" => j.drop \subseteq gone,
           UNCHANGED <<tabs, streams, gone, requests>>,
           subscriptions' \in [Endpoint -> Member \union {NoAccount}]
    PROVE  NoticesInv'
  BY DEF NoticesInv, Notices!TypeOK, Notices!Carries

LEMMA NoticesNext == ASSUME NoticesInv, Notices!Next PROVE NoticesInv'
<1>1. ASSUME NEW t \in Tab, Notices!Close(t) \/ \E a \in Member : Notices!Open(t, a)
      PROVE  NoticesInv'
  BY <1>1 DEF NoticesInv, Notices!TypeOK, Notices!Close, Notices!Open
<1>2. ASSUME NEW r \in Notices!Request,
             Notices!Ask(r) \/ Notices!SaveSubscription(r) \/ Notices!DeleteSubscription(r)
      PROVE  NoticesInv'
  BY <1>2 DEF NoticesInv, Notices!TypeOK, Notices!Request, Notices!Ask,
              Notices!SaveSubscription, Notices!DeleteSubscription
<1>3. ASSUME NEW c \in Handler, NEW a \in Member, Notices!Notify(c, a) PROVE NoticesInv'
  BY <1>3, CarriesFits DEF Notices!Notify, Notices!Carrying, NoticesInv, Notices!TypeOK
<1>4. ASSUME NEW c \in Handler, Notices!FindDevices(c) \/ Notices!Abort(c) PROVE NoticesInv'
  <2>1. CASE Notices!FindDevices(c)
    <3> DEFINE found == {e \in Endpoint : subscriptions[e] = carriers[c].account}
               j == IF found = {} THEN Notices!Resting
                    ELSE [carriers[c] EXCEPT !.pc = "send", !.left = found]
    <3>1. carriers[c].pc = "find" /\ Notices!Carries(c, j)
      BY <2>1 DEF Notices!FindDevices
    <3> found \in SUBSET Endpoint
      OBVIOUS
    <3> HIDE DEF found
    <3>5. carriers[c] \in Notices!Carrying
      BY <3>1 DEF NoticesInv, Notices!TypeOK, Notices!Resting
    <3>2. j \in Notices!Carrying \union {Notices!Resting}
      BY <3>5 DEF Notices!Carrying
    <3>3. j.pc # "resting" => j.drop \subseteq gone
      BY <3>1 DEF NoticesInv, Notices!TypeOK, Notices!Carrying, Notices!Resting
    <3>4. UNCHANGED <<tabs, streams, subscriptions, gone, requests>>
      BY <2>1 DEF Notices!FindDevices
    <3> HIDE DEF j
    <3> QED
      BY <3>1, <3>2, <3>3, <3>4, CarriesFits DEF NoticesInv, Notices!TypeOK
  <2>2. CASE Notices!Abort(c)
    BY <2>2, CarriesFits DEF Notices!Abort, Notices!Resting, NoticesInv, Notices!TypeOK
  <2> QED
    BY <1>4, <2>1, <2>2
<1>5. ASSUME NEW c \in Handler, NEW e \in Endpoint,
             Notices!Send(c, e) \/ Notices!SendGone(c, e) \/ Notices!Drop(c, e)
      PROVE  NoticesInv'
  <2>1. carriers[c] \in Notices!Carrying /\ carriers[c].drop \subseteq gone
    BY <1>5 DEF NoticesInv, Notices!TypeOK, Notices!Carrying, Notices!Resting, Notices!Send,
                Notices!SendGone, Notices!Drop
  <2>2. PICK j : /\ j \in Notices!Carrying /\ j.drop \subseteq gone
                 /\ Notices!Carries(c, Notices!Rests(j)) \/ Notices!Carries(c, j)
    <3>1. CASE Notices!Send(c, e)
      BY <2>1, <3>1 DEF Notices!Send, Notices!Carrying
    <3>2. CASE Notices!SendGone(c, e)
      BY <2>1, <3>2 DEF Notices!SendGone, Notices!Carrying
    <3>3. CASE Notices!Drop(c, e)
      BY <2>1, <3>3 DEF Notices!Drop, Notices!Carrying
    <3> QED
      BY <1>5, <3>1, <3>2, <3>3
  <2>3. Notices!Rests(j) \in {j, Notices!Resting}
    BY DEF Notices!Rests
  <2>4. /\ UNCHANGED <<tabs, streams, gone, requests>>
        /\ subscriptions' \in [Endpoint -> Member \union {NoAccount}]
    BY <1>5 DEF NoticesInv, Notices!TypeOK, Notices!Send, Notices!SendGone, Notices!Drop
  <2> QED
    BY <2>2, <2>3, <2>4, CarriesFits DEF Notices!Resting
<1>6. ASSUME Notices!Restart \/ \E e \in Endpoint : Notices!Expire(e) PROVE NoticesInv'
  BY <1>6 DEF NoticesInv, Notices!TypeOK, Notices!Restart, Notices!Expire, Notices!Resting
<1> QED
  BY <1>1, <1>2, <1>3, <1>4, <1>5, <1>6 DEF Notices!Next

\* Only a request of the account, or an answer about a device that is gone, removes it.
LEMMA NoticesKeep ==
    ASSUME NoticesInv, Notices!Next, NEW e \in Endpoint, e \notin gone,
           subscriptions[e] # NoAccount, subscriptions'[e] = NoAccount
    PROVE  [do |-> "delete", account |-> subscriptions[e], endpoint |-> e]
               \in requests \ requests'
<1>1. PICK r \in requests :
         /\ requests' = requests \ {r} /\ r.do = "delete"
         /\ subscriptions' = [subscriptions EXCEPT
                                ![r.endpoint] = IF @ = r.account THEN NoAccount ELSE @]
  <2>1. \/ \E r \in requests : Notices!SaveSubscription(r) \/ Notices!DeleteSubscription(r)
        \/ \E c \in Handler, f \in Endpoint : Notices!Drop(c, f)
        \/ UNCHANGED subscriptions
    BY DEF Notices!Next, Notices!Close, Notices!Open, Notices!Ask, Notices!Notify,
           Notices!FindDevices, Notices!Abort, Notices!Send, Notices!SendGone,
           Notices!Restart, Notices!Expire, Notices!SaveSubscription,
           Notices!DeleteSubscription
  <2>2. ASSUME NEW r \in requests, Notices!SaveSubscription(r) PROVE FALSE
    BY <2>2, NoneAssumption
       DEF Notices!SaveSubscription, NoticesInv, Notices!TypeOK, Notices!Request
  <2>3. ASSUME NEW c \in Handler, NEW f \in Endpoint, Notices!Drop(c, f) PROVE FALSE
    BY <2>3 DEF Notices!Drop, NoticesInv, Notices!TypeOK, Notices!Carrying, Notices!Resting
  <2> QED
    BY <2>1, <2>2, <2>3 DEF Notices!DeleteSubscription
<1>2. r \in Notices!Request
  BY DEF NoticesInv, Notices!TypeOK
<1>3. r = [do |-> "delete", account |-> subscriptions[e], endpoint |-> e]
  BY <1>1, <1>2 DEF Notices!Request, NoticesInv, Notices!TypeOK
<1> QED
  BY <1>1, <1>3

\* A live subscription ends only by a request of the account that holds it, however late
\* earlier requests and answers of the push service arrive (sendWebPush,
\* deletePushSubscription).
THEOREM LiveKeptCorrect == ServicesSpec => LiveKept
<1>1. ServicesInit => NoticesInv
  BY NoticesInit DEF ServicesInit
<1>2. NoticesInv /\ [ServicesNext]_vars => NoticesInv'
  BY NoticesNext, StepsApart DEF NoticesInv, Notices!TypeOK, noticeVars
<1>3. NoticesInv /\ [ServicesNext]_vars =>
         [\A e \in Endpoint :
            e \notin gone /\ subscriptions[e] # NoAccount /\ subscriptions'[e] = NoAccount =>
               [do |-> "delete", account |-> subscriptions[e], endpoint |-> e]
                   \in requests \ requests']_Notices!notificationVars
  BY NoticesKeep, StepsApart DEF noticeVars, Notices!notificationVars
<1> QED
  BY <1>1, <1>2, <1>3, PTL DEF ServicesSpec, LiveKept, Notices!LiveKept

-----------------------------------------------------------------------------
\* The ranking

\* An upload that goes on holds the common names of its class, and none of another's.
RankingInv ==
    /\ Ranking!TypeOK
    /\ CommonNamesKept
    /\ \A u \in Handler : uploads[u].pc # "waiting" =>
          /\ uploads[u].left \subseteq uploads[u].names
          /\ common[uploads[u].class] \subseteq uploads[u].names
          /\ \A d \in Class \ {uploads[u].class} : common[d] \cap uploads[u].names = {}

\* The collection is as earlier uploads left it.
LEMMA RankingInit == Ranking!Init => RankingInv
  BY LimitAssumption
     DEF Ranking!Init, RankingInv, Ranking!TypeOK, CommonNamesKept, Ranking!CommonNamesKept,
         Ranking!Waiting

\* An upload begins: what is common from then on, it holds.
LEMMA BeginKeeps ==
    ASSUME RankingInv, NEW u \in Handler, NEW c \in Class, NEW names \in SUBSET Key,
           NEW replace \in BOOLEAN, Ranking!Begin(u, c, names, replace)
    PROVE  RankingInv'
  BY LimitAssumption
     DEF Ranking!Begin, RankingInv, Ranking!TypeOK, CommonNamesKept, Ranking!CommonNamesKept,
         Ranking!Waiting, Ranking!Job, Ranking!Becomes

\* A row of an upload is written: it is common to no other class.
LEMMA WriteRowKeeps ==
    ASSUME RankingInv, NEW u \in Handler, Ranking!WriteRow(u)
    PROVE  RankingInv'
<1>1. uploads[u] \in Ranking!Job
  BY DEF Ranking!WriteRow, RankingInv, Ranking!TypeOK, Ranking!Waiting
<1>2. PICK n \in uploads[u].left :
         /\ ranking' = [ranking EXCEPT ![n] = uploads[u].class]
         /\ IF uploads[u].left # {n}
            THEN Ranking!Becomes(u, [uploads[u] EXCEPT !.left = @ \ {n}])
            ELSE IF uploads[u].replace
                 THEN Ranking!Becomes(u, [uploads[u] EXCEPT !.pc = "delete", !.left = {}])
                 ELSE Ranking!Becomes(u, Ranking!Waiting)
  BY DEF Ranking!WriteRow
<1>3. PICK j \in Ranking!Job \union {Ranking!Waiting} :
         /\ Ranking!Becomes(u, j)
         /\ j.pc # "waiting" =>
               /\ j.class = uploads[u].class /\ j.names = uploads[u].names
               /\ j.left \subseteq uploads[u].left
  <2>1. CASE uploads[u].left # {n}
    <3>1. [uploads[u] EXCEPT !.left = @ \ {n}] \in Ranking!Job
      BY <1>1 DEF Ranking!Job
    <3> QED
      BY <1>1, <1>2, <2>1, <3>1 DEF Ranking!Job
  <2>2. CASE uploads[u].left = {n} /\ uploads[u].replace
    <3> DEFINE j == [uploads[u] EXCEPT !.pc = "delete", !.left = {}]
    <3>1. j \in Ranking!Job /\ j.class = uploads[u].class /\ j.names = uploads[u].names
          /\ j.left = {}
      BY <1>1 DEF Ranking!Job
    <3>2. Ranking!Becomes(u, j)
      BY <1>2, <2>2
    <3> HIDE DEF j
    <3> QED
      BY <3>1, <3>2
  <2>3. CASE uploads[u].left = {n} /\ ~uploads[u].replace
    BY <1>2, <2>3 DEF Ranking!Waiting
  <2> QED
    BY <2>1, <2>2, <2>3
<1>4. UNCHANGED <<common, started>>
  BY DEF Ranking!WriteRow
<1>5. uploads[u].pc # "waiting" /\ n \in uploads[u].names /\ n \in Key
  BY <1>1, <1>2 DEF RankingInv, Ranking!Job
<1>6. Ranking!TypeOK' /\ CommonNamesKept'
  BY <1>1, <1>2, <1>3, <1>4, <1>5
     DEF RankingInv, Ranking!TypeOK, CommonNamesKept, Ranking!CommonNamesKept, Ranking!Job,
         Ranking!Becomes
<1>7. ASSUME NEW v \in Handler, uploads'[v].pc # "waiting"
      PROVE  /\ uploads'[v].left \subseteq uploads'[v].names
             /\ common'[uploads'[v].class] \subseteq uploads'[v].names
             /\ \A d \in Class \ {uploads'[v].class} : common'[d] \cap uploads'[v].names = {}
  BY <1>3, <1>4, <1>5, <1>7 DEF RankingInv, Ranking!TypeOK, Ranking!Becomes
<1> QED
  BY <1>6, <1>7 DEF RankingInv

\* The rows that are not in the upload are removed: none of them is common.
LEMMA RemoveStaleKeeps ==
    ASSUME RankingInv, NEW u \in Handler, Ranking!RemoveStale(u) \/ Ranking!Abort(u)
    PROVE  RankingInv'
  BY DEF Ranking!RemoveStale, Ranking!Abort, RankingInv, Ranking!TypeOK, CommonNamesKept,
         Ranking!CommonNamesKept, Ranking!Waiting, Ranking!Job, Ranking!Becomes

\* A character that all uploads of its class name, and none of another class, is in the
\* ranking throughout (upsertRankings, removeStaleClassRows).
THEOREM CommonNamesKeptCorrect == ServicesSpec => []CommonNamesKept
<1>1. ServicesInit => RankingInv
  BY RankingInit DEF ServicesInit
<1>2. RankingInv /\ [ServicesNext]_vars => RankingInv'
  <2>1. ASSUME RankingInv, Ranking!Next PROVE RankingInv'
    BY <2>1, BeginKeeps, WriteRowKeeps, RemoveStaleKeeps DEF Ranking!Next
  <2>2. ASSUME RankingInv, UNCHANGED rankingVars PROVE RankingInv'
    BY <2>2 DEF RankingInv, Ranking!TypeOK, CommonNamesKept, Ranking!CommonNamesKept, rankingVars
  <2> QED
    BY <2>1, <2>2, StepsApart
<1>3. RankingInv => CommonNamesKept
  BY DEF RankingInv
<1> QED
  BY <1>1, <1>2, <1>3, PTL DEF ServicesSpec

-----------------------------------------------------------------------------
\* Nicknames

\* Those who hold the name n by choice.
Holders(n) == {a \in Key : rows[a] # Naming!NoRow /\ rows[a].nickname = n /\ rows[a].chosen}

\* The handlers that found n free and are about to store it.
Storing(n) == {c \in Handler : clerks[c].pc = "store" /\ clerks[c].nickname = n}
Storers(n) == {clerks[c].account : c \in Storing(n)}

\* Whoever holds a name or is about to was let through by a handler of his own.
NamingInv ==
    /\ rows \in [Key -> Naming!Row \union {Naming!NoRow}]
    /\ clerks \in [Handler -> Naming!SignIn \union Naming!Naming \union {Naming!Free}]
    /\ \A c \in Handler : clerks[c].pc \in {"current", "duplicate", "store"} =>
          rows[clerks[c].account] # Naming!NoRow
    /\ \A n \in Nickname :
          \E lets \in SUBSET Key :
              /\ Holders(n) \union Storers(n) \subseteq lets
              /\ IsFiniteSet(lets) /\ Cardinality(lets) <= Cardinality(Handler)

\* Members that have signed in bear the nicknames of their providers.
LEMMA NamingInit == Naming!Init => NamingInv
<1> SUFFICES ASSUME Naming!Init PROVE NamingInv
  OBVIOUS
<1>1. rows \in [Key -> Naming!Row \union {Naming!NoRow}]
  <2>1. \A n \in Nickname : Naming!NewRow(n) \in Naming!Row
    BY DEF Naming!Row, Naming!NewRow, Naming!Never
  <2> QED
    BY <2>1 DEF Naming!Init
<1>2. ASSUME NEW n \in Nickname PROVE Holders(n) \union Storers(n) = {}
  BY DEF Naming!Init, Holders, Storers, Storing, Naming!NewRow, Naming!NoRow, Naming!Free
<1>3. IsFiniteSet({}) /\ Cardinality({}) <= Cardinality(Handler)
  BY FS_EmptySet, FS_CardinalityType, HandlerAssumption
<1> QED
  BY <1>1, <1>2, <1>3 DEF Naming!Init, NamingInv, Naming!Free

\* A step that lets nobody new to a name, and takes no row away.
LEMMA NamesKept ==
    ASSUME NamingInv, rows' \in [Key -> Naming!Row \union {Naming!NoRow}],
           clerks' \in [Handler -> Naming!SignIn \union Naming!Naming \union {Naming!Free}],
           \A c \in Handler : clerks'[c].pc \in {"current", "duplicate", "store"} =>
               rows'[clerks'[c].account] # Naming!NoRow,
           \A n \in Nickname : Holders(n)' \union Storers(n)' \subseteq Holders(n) \union Storers(n)
    PROVE  NamingInv'
<1> SUFFICES ASSUME NEW n \in Nickname
             PROVE  \E lets \in SUBSET Key :
                        /\ Holders(n)' \union Storers(n)' \subseteq lets
                        /\ IsFiniteSet(lets) /\ Cardinality(lets) <= Cardinality(Handler)
  BY DEF NamingInv
<1> QED
  BY DEF NamingInv

\* New rows choose no name, and no row goes away.
RowsGrow ==
    /\ rows' \in [Key -> Naming!Row \union {Naming!NoRow}]
    /\ \A a \in Key : \/ rows'[a] = rows[a]
                      \/ rows[a] = Naming!NoRow /\ rows'[a] # Naming!NoRow /\ ~rows'[a].chosen

LEMMA RowsSame == ASSUME NamingInv, UNCHANGED rows PROVE RowsGrow
  BY DEF NamingInv, RowsGrow

\* A handler goes on to something that stores no name.
LEMMA ClerkKeeps ==
    ASSUME NamingInv, RowsGrow, NEW c \in Handler,
           NEW j \in Naming!SignIn \union Naming!Naming \union {Naming!Free},
           clerks' = [clerks EXCEPT ![c] = j], j.pc # "store",
           j.pc \in {"current", "duplicate"} => rows[j.account] # Naming!NoRow
    PROVE  NamingInv'
<1>1. ASSUME NEW n \in Nickname
      PROVE  Holders(n)' \subseteq Holders(n) /\ Storers(n)' \subseteq Storers(n)
  BY DEF NamingInv, Holders, Storers, Storing, RowsGrow
<1>2. ASSUME NEW d \in Handler, clerks'[d].pc \in {"current", "duplicate", "store"}
      PROVE  rows'[clerks'[d].account] # Naming!NoRow
  <2>1. clerks'[d] \in Naming!Naming /\ rows[clerks'[d].account] # Naming!NoRow
    BY <1>2 DEF NamingInv, Naming!Naming, Naming!SignIn, Naming!Free
  <2> QED
    BY <2>1 DEF RowsGrow, Naming!Naming
<1>3. clerks' \in [Handler -> Naming!SignIn \union Naming!Naming \union {Naming!Free}]
  BY DEF NamingInv
<1> QED
  BY <1>1, <1>2, <1>3, NamesKept DEF RowsGrow

\* A handler ends.
LEMMA LeavesKeeps ==
    ASSUME NamingInv, NEW c \in Handler, Naming!Leaves(c), UNCHANGED rows
    PROVE  NamingInv'
<1>1. Naming!Free.pc = "free"
  BY DEF Naming!Free
<1> QED
  BY <1>1, RowsSame, ClerkKeeps DEF Naming!Leaves

\* Sign in chooses no name.
LEMMA SignInKeeps ==
    ASSUME NamingInv, NEW c \in Handler,
           \/ \E a \in Key, n \in Nickname : Naming!Login(c, a, n)
           \/ Naming!LoginFind(c) \/ Naming!LoginSave(c)
    PROVE  NamingInv'
<1>1. ASSUME NEW a \in Key, NEW n \in Nickname, Naming!Login(c, a, n) PROVE NamingInv'
  <2> DEFINE j == [pc |-> "find", account |-> a, new |-> TRUE, nickname |-> n]
  <2>1. j \in Naming!SignIn /\ j.pc = "find"
    BY DEF Naming!SignIn
  <2>2. clerks' = [clerks EXCEPT ![c] = j] /\ UNCHANGED rows
    BY <1>1 DEF Naming!Login, Naming!Takes
  <2> HIDE DEF j
  <2> QED
    BY <2>1, <2>2, RowsSame, ClerkKeeps
<1>2. CASE Naming!LoginFind(c)
  <2> DEFINE j == [clerks[c] EXCEPT !.pc = "save", !.new = rows[clerks[c].account] = Naming!NoRow]
  <2>1. clerks[c] \in Naming!SignIn /\ rows' = rows
    BY <1>2 DEF Naming!LoginFind, NamingInv, Naming!Naming, Naming!Free
  <2>2. j \in Naming!SignIn /\ j.pc = "save"
    BY <2>1 DEF Naming!SignIn
  <2>3. clerks' = [clerks EXCEPT ![c] = j]
    BY <1>2 DEF Naming!LoginFind
  <2> HIDE DEF j
  <2> QED
    BY <2>1, <2>2, <2>3, RowsSame, ClerkKeeps
<1>3. CASE Naming!LoginSave(c)
  <2>1. clerks[c] \in Naming!SignIn
    BY <1>3 DEF Naming!LoginSave, NamingInv, Naming!Naming, Naming!Free
  <2>2. /\ Naming!NewRow(clerks[c].nickname) \in Naming!Row
        /\ ~Naming!NewRow(clerks[c].nickname).chosen
        /\ Naming!NewRow(clerks[c].nickname) # Naming!NoRow
    BY <2>1, NameAssumption
       DEF Naming!SignIn, Naming!NewRow, Naming!Row, Naming!Never, Naming!NoRow
  <2>3. clerks' = [clerks EXCEPT ![c] = Naming!Free] /\ Naming!Free.pc = "free"
    BY <1>3 DEF Naming!LoginSave, Naming!Leaves, Naming!Free
  <2>4. RowsGrow
    <3>1. \/ UNCHANGED rows
          \/ /\ rows[clerks[c].account] = Naming!NoRow
             /\ rows' = [rows EXCEPT ![clerks[c].account] = Naming!NewRow(clerks[c].nickname)]
      BY <1>3 DEF Naming!LoginSave
    <3> QED
      BY <2>1, <2>2, <3>1 DEF RowsGrow, NamingInv
  <2> QED
    BY <2>3, <2>4, ClerkKeeps
<1> QED
  BY <1>1, <1>2, <1>3

\* A handler of updateNickname looks at the own row, or stops.
LEMMA LookKeeps ==
    ASSUME NamingInv, NEW c \in Handler,
           \/ \E a \in Key, n \in Nickname : Naming!Rename(c, a, n)
           \/ Naming!Current(c) \/ Naming!Abort(c)
    PROVE  NamingInv'
<1>1. ASSUME NEW a \in Key, NEW n \in Nickname, Naming!Rename(c, a, n) PROVE NamingInv'
  <2> DEFINE j == [pc |-> "current", account |-> a, nickname |-> n]
  <2>1. j \in Naming!Naming /\ j.pc = "current" /\ j.account = a
    BY DEF Naming!Naming
  <2>2. clerks' = [clerks EXCEPT ![c] = j] /\ UNCHANGED rows /\ rows[a] # Naming!NoRow
    BY <1>1 DEF Naming!Rename, Naming!Takes
  <2> HIDE DEF j
  <2> QED
    BY <2>1, <2>2, RowsSame, ClerkKeeps
<1>2. CASE UNCHANGED rows /\ Naming!Leaves(c)
  BY <1>2, LeavesKeeps
<1>3. CASE Naming!Current(c) /\ Naming!Goes(c, "duplicate")
  <2> DEFINE j == [clerks[c] EXCEPT !.pc = "duplicate"]
  <2>1. clerks[c] \in Naming!Naming /\ rows' = rows /\ clerks[c].pc = "current"
    BY <1>3 DEF Naming!Current, NamingInv, Naming!SignIn, Naming!Free
  <2>2. j \in Naming!Naming /\ j.pc = "duplicate" /\ j.account = clerks[c].account
    BY <2>1 DEF Naming!Naming
  <2>3. clerks' = [clerks EXCEPT ![c] = j]
    BY <1>3 DEF Naming!Goes
  <2>4. rows[j.account] # Naming!NoRow
    BY <2>1, <2>2 DEF NamingInv
  <2> HIDE DEF j
  <2> QED
    BY <2>1, <2>2, <2>3, <2>4, RowsSame, ClerkKeeps
<1> QED
  BY <1>1, <1>2, <1>3 DEF Naming!Current, Naming!Abort

\* Whoever finds the name free finds no holder but himself: all who are about to store it
\* have handlers of their own.
LEMMA DuplicateKeeps ==
    ASSUME NamingInv, NEW c \in Handler, Naming!Duplicate(c)
    PROVE  NamingInv'
<1> DEFINE j == [clerks[c] EXCEPT !.pc = "store"]
<1>1. PICK n \in Nickname, a \in Key :
         /\ clerks[c] \in Naming!Naming /\ rows' = rows /\ clerks[c].pc = "duplicate"
         /\ clerks[c].nickname = n /\ clerks[c].account = a /\ rows[a] # Naming!NoRow
  BY DEF Naming!Duplicate, NamingInv, Naming!SignIn, Naming!Free, Naming!Naming
<1>2. CASE Naming!Leaves(c)
  BY <1>1, <1>2, LeavesKeeps
<1>3. CASE Naming!Goes(c, "store") /\ \A b \in Key \ {a} : rows[b].nickname # n
  <2>1. clerks' = [clerks EXCEPT ![c] = j]
    BY <1>3 DEF Naming!Goes
  <2>2. j \in Naming!Naming /\ j.pc = "store" /\ j.nickname = n /\ j.account = a
    BY <1>1 DEF Naming!Naming
  <2>3. /\ clerks' \in [Handler -> Naming!SignIn \union Naming!Naming \union {Naming!Free}]
        /\ clerks'[c] = j /\ \A d \in Handler \ {c} : clerks'[d] = clerks[d]
    BY <2>1, <2>2 DEF NamingInv
  <2> HIDE DEF j
  <2>4. ASSUME NEW m \in Nickname, m # n
        PROVE  Holders(m)' \subseteq Holders(m) /\ Storers(m)' \subseteq Storers(m)
    BY <1>1, <2>2, <2>3, <2>4 DEF Holders, Storers, Storing
  <2>5. Holders(n)' \subseteq Storers(n)'
    BY <1>1, <1>3, <2>2, <2>3 DEF Holders, Storers, Storing
  <2>6. \E lets \in SUBSET Key :
            /\ Holders(n)' \union Storers(n)' \subseteq lets
            /\ IsFiniteSet(lets) /\ Cardinality(lets) <= Cardinality(Handler)
    <3> DEFINE lets == {clerks'[d].account : d \in Storing(n)'}
    <3>1. Storing(n)' \subseteq Handler
      BY DEF Storing
    <3>2. IsFiniteSet(Storing(n)') /\ Cardinality(Storing(n)') <= Cardinality(Handler)
      BY <3>1, FS_Subset, HandlerAssumption
    <3>3. IsFiniteSet(lets) /\ Cardinality(lets) <= Cardinality(Storing(n)')
      <4> DEFINE f == [d \in Storing(n)' |-> clerks'[d].account]
      <4>1. lets = {f[d] : d \in Storing(n)'} /\ f = [d \in Storing(n)' |-> f[d]]
        OBVIOUS
      <4> HIDE DEF f, lets
      <4> QED
        BY <3>2, <4>1, FewValues
    <3>4. lets \in SUBSET Key
      BY <2>3 DEF Storing, Naming!Naming, Naming!SignIn, Naming!Free
    <3>5. lets = Storers(n)'
      BY DEF Storers
    <3>6. Cardinality(lets) <= Cardinality(Handler)
      BY <3>2, <3>3, FS_CardinalityType, HandlerAssumption
    <3> QED
      BY <2>5, <3>3, <3>4, <3>5, <3>6
  <2>7. \A d \in Handler : clerks'[d].pc \in {"current", "duplicate", "store"} =>
            rows'[clerks'[d].account] # Naming!NoRow
    BY <1>1, <2>2, <2>3 DEF NamingInv
  <2>8. ASSUME NEW m \in Nickname
        PROVE  \E lets \in SUBSET Key :
                   /\ Holders(m)' \union Storers(m)' \subseteq lets
                   /\ IsFiniteSet(lets) /\ Cardinality(lets) <= Cardinality(Handler)
    <3>1. CASE m = n
      BY <2>6, <3>1
    <3>2. CASE m # n
      <4>1. PICK lets \in SUBSET Key :
                /\ Holders(m) \union Storers(m) \subseteq lets
                /\ IsFiniteSet(lets) /\ Cardinality(lets) <= Cardinality(Handler)
        BY DEF NamingInv
      <4> QED
        BY <2>4, <3>2, <4>1
    <3> QED
      BY <3>1, <3>2
  <2> QED
    BY <1>1, <2>3, <2>7, <2>8 DEF NamingInv
<1> QED
  BY <1>1, <1>2, <1>3 DEF Naming!Duplicate

\* The name is stored for someone who was let through before.
LEMMA StoreKeeps ==
    ASSUME NamingInv, NEW c \in Handler, Naming!Store(c), today \in Naming!Day
    PROVE  NamingInv'
<1>1. PICK n \in Nickname, a \in Key :
         /\ clerks[c].pc = "store" /\ clerks[c] \in Naming!Naming
         /\ clerks[c].nickname = n /\ clerks[c].account = a
         /\ rows[a] # Naming!NoRow /\ rows[a] \in Naming!Row
  BY DEF Naming!Store, NamingInv, Naming!SignIn, Naming!Free, Naming!Naming
<1> DEFINE row == [rows[a] EXCEPT !.nickname = n, !.chosen = TRUE, !.changed = today]
<1>2. row \in Naming!Row /\ row.nickname = n /\ row.chosen
  BY <1>1 DEF Naming!Row
<1>3. rows' = [rows EXCEPT ![a] = row]
  BY <1>1 DEF Naming!Store, NamingInv
<1>4. clerks' = [clerks EXCEPT ![c] = Naming!Free] /\ Naming!Free.pc = "free"
  BY DEF Naming!Store, Naming!Leaves, Naming!Free
<1> HIDE DEF row
<1>5. row # Naming!NoRow
  BY <1>2, NameAssumption DEF Naming!Row, Naming!NoRow
<1>6. /\ rows' \in [Key -> Naming!Row \union {Naming!NoRow}]
      /\ clerks' \in [Handler -> Naming!SignIn \union Naming!Naming \union {Naming!Free}]
  BY <1>1, <1>2, <1>3, <1>4 DEF NamingInv
<1>7. \A d \in Handler : clerks'[d].pc \in {"current", "duplicate", "store"} =>
          rows'[clerks'[d].account] # Naming!NoRow
  BY <1>1, <1>3, <1>4, <1>5 DEF NamingInv
<1>8. ASSUME NEW m \in Nickname
      PROVE  Holders(m)' \union Storers(m)' \subseteq Holders(m) \union Storers(m)
  <2>1. Storers(m)' \subseteq Storers(m)
    BY <1>4 DEF NamingInv, Storers, Storing
  <2>2. a \in Storers(n)
    BY <1>1 DEF Storers, Storing
  <2>3. ASSUME NEW b \in Holders(m)' PROVE b \in Holders(m) \union Storers(m)
    <3>1. CASE b = a
      BY <1>2, <1>3, <2>2, <3>1 DEF Holders, NamingInv
    <3>2. CASE b # a
      BY <1>3, <3>2 DEF Holders, NamingInv
    <3> QED
      BY <3>1, <3>2
  <2> QED
    BY <2>1, <2>3
<1> QED
  BY <1>6, <1>7, <1>8, NamesKept

\* A nickname is chosen by no more members than handlers overlap, for whoever looks later
\* finds it taken (updateNickname, which has no unique index to rely on).
THEOREM HoldersCorrect == ServicesSpec => []HoldersWithinOverlap
<1> DEFINE Inv == NamingInv /\ today \in Naming!Day
<1>1. ServicesInit => Inv
  BY NamingInit, LimitAssumption DEF ServicesInit, Naming!Init, Naming!Day
<1>2. Inv /\ [ServicesNext]_vars => Inv'
  <2> SUFFICES ASSUME NamingInv, today \in Naming!Day, [ServicesNext]_vars
               PROVE  NamingInv' /\ today' \in Naming!Day
    OBVIOUS
  <2>1. today' \in Naming!Day
    <3>1. Naming!Next => today' = today \/ Naming!Midnight
      BY DEF Naming!Next, Naming!Login, Naming!Rename, Naming!Takes, Naming!LoginFind,
             Naming!LoginSave, Naming!Current, Naming!Duplicate, Naming!Store, Naming!Abort
    <3>2. Credits!Next => today' = today \/ Credits!Midnight
      BY DEF Credits!Next, Credits!Ask, Credits!Attend, Credits!CreditTrade, Credits!Abort
    <3> QED
      BY <3>1, <3>2, StepsApart, LimitAssumption DEF Naming!Midnight, Credits!Midnight, Naming!Day
  <2>2. ASSUME UNCHANGED namingVars PROVE NamingInv'
    BY <2>2, NamesKept DEF namingVars, NamingInv, Holders, Storers, Storing
  <2>3. ASSUME Naming!Next PROVE NamingInv'
    BY <2>2, <2>3, SignInKeeps, LookKeeps, DuplicateKeeps, StoreKeeps
       DEF Naming!Next, Naming!Midnight, Naming!namingVars, namingVars
  <2> QED
    BY <2>1, <2>2, <2>3, StepsApart
<1>3. Inv => HoldersWithinOverlap
  <2> SUFFICES ASSUME NamingInv, NEW n \in Nickname
               PROVE  Cardinality(Holders(n)) <= Cardinality(Handler)
    BY SameCount DEF HoldersWithinOverlap, Naming!HoldersWithinOverlap, Holders
  <2>1. PICK lets \in SUBSET Key :
            /\ Holders(n) \union Storers(n) \subseteq lets
            /\ IsFiniteSet(lets) /\ Cardinality(lets) <= Cardinality(Handler)
    BY DEF NamingInv
  <2>2. IsFiniteSet(Holders(n)) /\ Cardinality(Holders(n)) <= Cardinality(lets)
    BY <2>1, FS_Subset
  <2> QED
    BY <2>1, <2>2, FS_CardinalityType, HandlerAssumption
<1> QED
  BY <1>1, <1>2, <1>3, PTL DEF ServicesSpec

-----------------------------------------------------------------------------
\* The rules of an account

RulesOf(k) == {i \in Alerts!Alive : rules[i].identity = k}

\* The creations that have found no rule for k, and those that have found room.
Lacking(k) ==
    {e \in Handler : editors[e].pc \in {"count", "create"} /\ editors[e].identity = k}
Inserting == {e \in Handler : editors[e].pc = "create"}

\* Rules and creations that are to add to them.
RulesInv ==
    /\ Alerts!TypeOK
    /\ \A i \in 1 .. MaxIds : i >= nextId => rules[i] = Alerts!Deleted
    /\ Cardinality(Alerts!Alive) + Cardinality(Inserting) <= MaxRules + Cardinality(Handler) - 1
    /\ \A k \in Identity :
          Cardinality(RulesOf(k)) + Cardinality(Lacking(k)) <= Cardinality(Handler)

\* Rules and handlers are finitely many.
LEMMA RulesFinite ==
    ASSUME Alerts!TypeOK
    PROVE  /\ IsFiniteSet(Alerts!Alive) /\ Cardinality(Alerts!Alive) \in Nat
           /\ IsFiniteSet(Inserting) /\ Cardinality(Inserting) \in Nat
           /\ Cardinality(Inserting) <= Cardinality(Handler)
           /\ \A k : /\ IsFiniteSet(RulesOf(k)) /\ Cardinality(RulesOf(k)) \in Nat
                     /\ IsFiniteSet(Lacking(k)) /\ Cardinality(Lacking(k)) \in Nat
                     /\ Cardinality(Lacking(k)) <= Cardinality(Handler)
           /\ Cardinality(Handler) \in Nat /\ Cardinality(Handler) >= 1
<1>1. IsFiniteSet(Alerts!Alive)
  <2>1. Alerts!Alive \subseteq 1 .. MaxIds
    BY DEF Alerts!Alive, Alerts!TypeOK
  <2>2. IsFiniteSet(1 .. MaxIds)
    BY FS_Interval, LimitAssumption
  <2> QED
    BY <2>1, <2>2, FS_Subset
<1>2. \A k : IsFiniteSet(RulesOf(k))
  BY <1>1, FS_Subset DEF RulesOf
<1>3. IsFiniteSet(Inserting) /\ Cardinality(Inserting) <= Cardinality(Handler)
  BY FS_Subset, HandlerAssumption DEF Inserting
<1>4. \A k : IsFiniteSet(Lacking(k)) /\ Cardinality(Lacking(k)) <= Cardinality(Handler)
  BY FS_Subset, HandlerAssumption DEF Lacking
<1>5. Cardinality(Handler) \in Nat /\ Cardinality(Handler) >= 1
  BY FS_CardinalityType, FS_EmptySet, HandlerAssumption
<1> QED
  BY <1>1, <1>2, <1>3, <1>4, <1>5, FS_CardinalityType

\* A smaller set has no more members.
LEMMA FewerMembers ==
    ASSUME NEW S, IsFiniteSet(S), NEW T, T \subseteq S
    PROVE  Cardinality(T) <= Cardinality(S) /\ Cardinality(T) \in Nat /\ Cardinality(S) \in Nat
  BY FS_Subset, FS_CardinalityType

\* There are no rules at first.
LEMMA RulesInit == Alerts!Init => RulesInv
<1> SUFFICES ASSUME Alerts!Init PROVE RulesInv
  OBVIOUS
<1>1. Alerts!TypeOK /\ \A i \in 1 .. MaxIds : i >= nextId => rules[i] = Alerts!Deleted
  BY LimitAssumption DEF Alerts!Init, Alerts!TypeOK
<1>2. Alerts!Alive = {} /\ Inserting = {} /\ \A k : RulesOf(k) = {} /\ Lacking(k) = {}
  BY DEF Alerts!Init, Alerts!Alive, Inserting, RulesOf, Lacking, Alerts!Idle
<1> QED
  BY <1>1, <1>2, RulesFinite, FS_EmptySet, LimitAssumption DEF RulesInv

\* A step that neither adds a rule nor lets another creation pass.
LEMMA RulesKept ==
    ASSUME RulesInv, Alerts!TypeOK', \A i \in 1 .. MaxIds : i >= nextId' => rules'[i] = Alerts!Deleted,
           Alerts!Alive' \subseteq Alerts!Alive, Inserting' \subseteq Inserting,
           \A k \in Identity : /\ RulesOf(k)' \subseteq RulesOf(k)
                               /\ Lacking(k)' \subseteq Lacking(k)
    PROVE  RulesInv'
<1>1. Alerts!TypeOK
  BY DEF RulesInv
<1>2. /\ Cardinality(Alerts!Alive') <= Cardinality(Alerts!Alive) /\ Cardinality(Alerts!Alive') \in Nat
      /\ Cardinality(Inserting') <= Cardinality(Inserting) /\ Cardinality(Inserting') \in Nat
  BY <1>1, RulesFinite, FewerMembers
<1>3. \A k \in Identity :
         /\ Cardinality(RulesOf(k)') <= Cardinality(RulesOf(k)) /\ Cardinality(RulesOf(k)') \in Nat
         /\ Cardinality(Lacking(k)') <= Cardinality(Lacking(k))
         /\ Cardinality(Lacking(k)') \in Nat
  BY <1>1, RulesFinite, FewerMembers
<1>4. Cardinality(Alerts!Alive') + Cardinality(Inserting') <= MaxRules + Cardinality(Handler) - 1
  BY <1>1, <1>2, RulesFinite, LimitAssumption DEF RulesInv
<1>5. \A k \in Identity :
         Cardinality(RulesOf(k)') + Cardinality(Lacking(k)') <= Cardinality(Handler)
  BY <1>1, <1>3, RulesFinite DEF RulesInv
<1> QED
  BY <1>4, <1>5 DEF RulesInv

\* No rule is added, and none becomes another.
RulesStay ==
    /\ nextId' = nextId /\ rules' \in [1 .. MaxIds -> Alerts!Rule \union {Alerts!Deleted}]
    /\ \A i \in 1 .. MaxIds :
          \/ rules'[i] = Alerts!Deleted
          \/ rules[i] # Alerts!Deleted /\ rules'[i].identity = rules[i].identity

\* A handler goes on, or ends, and is not about to add a rule.
LEMMA EditorGoes ==
    ASSUME RulesInv, RulesStay, NEW e \in Handler,
           NEW j \in Alerts!Creating \union Alerts!Changing \union {Alerts!Idle},
           Alerts!Does(e, j), j.pc \notin {"count", "create"}
    PROVE  RulesInv'
<1>1. Alerts!TypeOK'
  BY DEF RulesInv, RulesStay, Alerts!TypeOK, Alerts!Does
<1>2. \A i \in 1 .. MaxIds : i >= nextId' => rules'[i] = Alerts!Deleted
  BY DEF RulesInv, RulesStay
<1>3. Alerts!Alive' \subseteq Alerts!Alive
  BY DEF RulesStay, Alerts!Alive, RulesInv, Alerts!TypeOK
<1>4. \A k \in Identity : RulesOf(k)' \subseteq RulesOf(k)
  BY DEF RulesStay, RulesOf, Alerts!Alive, RulesInv, Alerts!TypeOK
<1>5. Inserting' \subseteq Inserting /\ \A k \in Identity : Lacking(k)' \subseteq Lacking(k)
  BY DEF RulesInv, Alerts!TypeOK, Inserting, Lacking, Alerts!Does
<1> QED
  BY <1>1, <1>2, <1>3, <1>4, <1>5, RulesKept

\* What is unchanged stays.
LEMMA RulesSame == ASSUME RulesInv, UNCHANGED <<rules, nextId>> PROVE RulesStay
  BY DEF RulesInv, RulesStay, Alerts!TypeOK

\* A handler that only ends.
LEMMA EditorEnds ==
    ASSUME RulesInv, RulesStay, NEW e \in Handler, Alerts!Does(e, Alerts!Idle)
    PROVE  RulesInv'
<1>1. Alerts!Idle.pc = "idle"
  BY DEF Alerts!Idle
<1> QED
  BY <1>1, EditorGoes

\* A creation begins, or a rule is loaded to be changed.
LEMMA EditorStarts ==
    ASSUME RulesInv, NEW e \in Handler,
           \/ \E k \in Identity, p \in Price : Alerts!Create(e, k, p)
           \/ \E i \in 1 .. MaxIds, p \in Price, on \in BOOLEAN,
                 sets \in SUBSET {"price", "enabled"}, pc \in {"save", "delete"} :
                 Alerts!Load(e, i, pc, p, on, sets)
    PROVE  RulesInv'
<1>1. PICK j \in Alerts!Creating \union Alerts!Changing :
         Alerts!Does(e, j) /\ UNCHANGED <<rules, nextId>> /\ j.pc \in {"find", "save", "delete"}
  <2>1. ASSUME NEW k \in Identity, NEW p \in Price, Alerts!Create(e, k, p)
        PROVE  \E j \in Alerts!Creating \union Alerts!Changing :
                  /\ Alerts!Does(e, j) /\ UNCHANGED <<rules, nextId>>
                  /\ j.pc \in {"find", "save", "delete"}
    BY <2>1 DEF Alerts!Create, Alerts!Creating
  <2>2. ASSUME NEW i \in 1 .. MaxIds, NEW p \in Price, NEW on \in BOOLEAN,
               NEW sets \in SUBSET {"price", "enabled"}, NEW pc \in {"save", "delete"},
               Alerts!Load(e, i, pc, p, on, sets)
        PROVE  \E j \in Alerts!Creating \union Alerts!Changing :
                  /\ Alerts!Does(e, j) /\ UNCHANGED <<rules, nextId>>
                  /\ j.pc \in {"find", "save", "delete"}
    <3> DEFINE j == [pc |-> pc, id |-> i, price |-> p, enabled |-> on, sets |-> sets]
    <3>1. j \in Alerts!Changing /\ j.pc \in {"find", "save", "delete"}
      BY DEF Alerts!Changing
    <3>2. Alerts!Does(e, j) /\ UNCHANGED <<rules, nextId>>
      BY <2>2 DEF Alerts!Load
    <3> HIDE DEF j
    <3> QED
      BY <3>1, <3>2
  <2> QED
    BY <2>1, <2>2
<1> QED
  BY <1>1, RulesSame, EditorGoes

\* A handler of updateRule or deleteRule writes: it adds no rule.
LEMMA WriteKeeps ==
    ASSUME RulesInv, NEW e \in Handler, Alerts!Save(e) \/ Alerts!Delete(e) \/ Alerts!Abort(e)
    PROVE  RulesInv'
<1>1. CASE Alerts!Save(e)
  <2>1. editors[e] \in Alerts!Changing
    BY <1>1 DEF Alerts!Save, RulesInv, Alerts!TypeOK, Alerts!Creating, Alerts!Idle
  <2> DEFINE id == editors[e].id
             p == editors[e].price
             on == editors[e].enabled
             sets == editors[e].sets
  <2>2. /\ id \in 1 .. MaxIds /\ p \in Price /\ on \in BOOLEAN
        /\ rules' = IF id \in Alerts!Alive
                    THEN [rules EXCEPT ![id].price = IF "price" \in sets THEN p ELSE @,
                                       ![id].enabled = IF "enabled" \in sets THEN on ELSE @]
                    ELSE rules
    BY <1>1, <2>1 DEF Alerts!Save, Alerts!Changing
  <2> HIDE DEF id, p, on, sets
  <2>3. CASE id \in Alerts!Alive
    <3>1. rules[id] \in Alerts!Rule
      BY <2>3 DEF Alerts!Alive, RulesInv, Alerts!TypeOK
    <3>2. PICK row \in Alerts!Rule :
             rules' = [rules EXCEPT ![id] = row] /\ row.identity = rules[id].identity
      <4> DEFINE row == [rules[id] EXCEPT !.price = IF "price" \in sets THEN p ELSE @,
                                         !.enabled = IF "enabled" \in sets THEN on ELSE @]
      <4>1. row \in Alerts!Rule /\ row.identity = rules[id].identity
        BY <2>2, <3>1 DEF Alerts!Rule
      <4>2. rules' = [rules EXCEPT ![id] = row]
        BY <2>2, <2>3 DEF RulesInv, Alerts!TypeOK
      <4> QED
        BY <4>1, <4>2
    <3>3. RulesStay
      BY <1>1, <2>3, <3>2 DEF RulesStay, RulesInv, Alerts!TypeOK, Alerts!Alive, Alerts!Save
    <3> QED
      BY <1>1, <3>3, EditorEnds DEF Alerts!Save
  <2>4. CASE id \notin Alerts!Alive
    BY <1>1, <2>2, <2>4, RulesSame, EditorEnds DEF Alerts!Save
  <2> QED
    BY <2>3, <2>4
<1>2. CASE Alerts!Delete(e)
  <2>1. RulesStay
    BY <1>2 DEF Alerts!Delete, RulesStay, RulesInv, Alerts!TypeOK
  <2> QED
    BY <1>2, <2>1, EditorEnds DEF Alerts!Delete
<1>3. CASE Alerts!Abort(e)
  BY <1>3, RulesSame, EditorEnds DEF Alerts!Abort
<1> QED
  BY <1>1, <1>2, <1>3

\* A creation that finds no rule of its own: there is none, and no more creations than
\* handlers.
LEMMA FindSameKeeps ==
    ASSUME RulesInv, NEW e \in Handler, Alerts!FindSame(e)
    PROVE  RulesInv'
<1>1. editors[e] \in Alerts!Creating /\ UNCHANGED <<rules, nextId>>
  BY DEF Alerts!FindSame, RulesInv, Alerts!TypeOK, Alerts!Changing, Alerts!Idle
<1>2. ASSUME NEW i \in Alerts!Alive, rules[i].identity = editors[e].identity,
             Alerts!Does(e, [pc |-> "save", id |-> i, price |-> editors[e].price, enabled |-> TRUE,
                             sets |-> {"price"} \union IF rules[i].enabled THEN {} ELSE {"enabled"}])
      PROVE  RulesInv'
  <2> DEFINE j == [pc |-> "save", id |-> i, price |-> editors[e].price, enabled |-> TRUE,
                   sets |-> {"price"} \union IF rules[i].enabled THEN {} ELSE {"enabled"}]
  <2>1. j \in Alerts!Changing /\ j.pc = "save"
    BY <1>1 DEF Alerts!Changing, Alerts!Creating, Alerts!Alive, RulesInv, Alerts!TypeOK
  <2>2. Alerts!Does(e, j)
    BY <1>2
  <2> HIDE DEF j
  <2> QED
    BY <1>1, <2>1, <2>2, RulesSame, EditorGoes
<1>3. ASSUME RulesOf(editors[e].identity) = {}, Alerts!Moves(e, "count")
      PROVE  RulesInv'
  <2> DEFINE j == [editors[e] EXCEPT !.pc = "count"]
  <2>1. j \in Alerts!Creating /\ j.pc = "count" /\ j.identity = editors[e].identity
    BY <1>1 DEF Alerts!Creating
  <2>2. editors' = [editors EXCEPT ![e] = j]
    BY <1>3 DEF Alerts!Moves
  <2> HIDE DEF j
  <2>3. Alerts!TypeOK' /\ Alerts!TypeOK
    BY <1>1, <2>1, <2>2 DEF RulesInv, Alerts!TypeOK
  <2>4. Inserting' \subseteq Inserting /\ Alerts!Alive' = Alerts!Alive
    BY <1>1, <2>1, <2>2 DEF Inserting, RulesInv, Alerts!TypeOK, Alerts!Alive
  <2>5. ASSUME NEW k \in Identity
        PROVE  Cardinality(RulesOf(k)') + Cardinality(Lacking(k)') <= Cardinality(Handler)
    <3>1. RulesOf(k)' = RulesOf(k)
      BY <1>1 DEF RulesOf, Alerts!Alive
    <3>2. CASE k = editors[e].identity
      <4>1. Cardinality(RulesOf(k)') = 0
        BY <1>3, <3>1, <3>2, FS_EmptySet
      <4>2. Cardinality(Lacking(k)') <= Cardinality(Handler) /\ Cardinality(Lacking(k)') \in Nat
        BY FewerMembers, HandlerAssumption DEF Lacking
      <4> QED
        BY <4>1, <4>2
    <3>3. CASE k # editors[e].identity
      <4>1. Lacking(k)' \subseteq Lacking(k)
        BY <2>1, <2>2, <3>3 DEF Lacking, RulesInv, Alerts!TypeOK
      <4>2. Cardinality(Lacking(k)') <= Cardinality(Lacking(k)) /\ Cardinality(Lacking(k)') \in Nat
        BY <2>3, <4>1, RulesFinite, FewerMembers
      <4> QED
        BY <2>3, <3>1, <4>2, RulesFinite DEF RulesInv
    <3> QED
      BY <3>2, <3>3
  <2>6. Cardinality(Alerts!Alive') + Cardinality(Inserting') <= MaxRules + Cardinality(Handler) - 1
    BY <2>3, <2>4, RulesFinite, FewerMembers, LimitAssumption DEF RulesInv
  <2> QED
    BY <1>1, <2>3, <2>5, <2>6 DEF RulesInv
<1> QED
  BY <1>1, <1>2, <1>3 DEF Alerts!FindSame, RulesOf

\* A creation that finds room: fewer rules than the limit, and no more creations than
\* handlers.
LEMMA CountKeeps ==
    ASSUME RulesInv, NEW e \in Handler, Alerts!Count(e)
    PROVE  RulesInv'
<1>1. /\ editors[e] \in Alerts!Creating /\ editors[e].pc = "count"
      /\ UNCHANGED <<rules, nextId>> /\ Alerts!TypeOK
  BY DEF Alerts!Count, RulesInv, Alerts!TypeOK, Alerts!Changing, Alerts!Idle
<1>2. CASE Alerts!Does(e, Alerts!Idle)
  BY <1>1, <1>2, RulesSame, EditorEnds
<1>3. CASE ~(Cardinality(Alerts!Alive) >= MaxRules) /\ Alerts!Moves(e, "create")
  <2> DEFINE j == [editors[e] EXCEPT !.pc = "create"]
  <2>1. j \in Alerts!Creating /\ j.pc = "create" /\ j.identity = editors[e].identity
    BY <1>1 DEF Alerts!Creating
  <2>2. editors' = [editors EXCEPT ![e] = j]
    BY <1>3 DEF Alerts!Moves
  <2> HIDE DEF j
  <2>3. Alerts!TypeOK' /\ Alerts!Alive' = Alerts!Alive
    BY <1>1, <2>1, <2>2 DEF RulesInv, Alerts!TypeOK, Alerts!Alive
  <2>4. \A k \in Identity : RulesOf(k)' = RulesOf(k) /\ Lacking(k)' = Lacking(k)
    BY <1>1, <2>1, <2>2 DEF Lacking, RulesInv, Alerts!TypeOK, Alerts!Alive, RulesOf
  <2>5. Cardinality(Inserting') <= Cardinality(Handler) /\ Cardinality(Inserting') \in Nat
    BY FewerMembers, HandlerAssumption DEF Inserting
  <2>6. Cardinality(Alerts!Alive') + Cardinality(Inserting') <= MaxRules + Cardinality(Handler) - 1
    BY <1>1, <1>3, <2>3, <2>5, RulesFinite, LimitAssumption
  <2> QED
    BY <1>1, <2>3, <2>4, <2>6 DEF RulesInv
<1> QED
  BY <1>2, <1>3, SameCount DEF Alerts!Count

\* A rule is inserted: it was counted as about to be.
LEMMA InsertKeeps ==
    ASSUME RulesInv, NEW e \in Handler, Alerts!Insert(e)
    PROVE  RulesInv'
<1> DEFINE row == [identity |-> editors[e].identity, price |-> editors[e].price, enabled |-> TRUE]
<1>1. /\ editors[e] \in Alerts!Creating /\ editors[e].pc = "create" /\ Alerts!TypeOK
      /\ nextId \in 1 .. MaxIds /\ nextId' = nextId + 1 /\ rules[nextId] = Alerts!Deleted
      /\ rules' = [rules EXCEPT ![nextId] = row] /\ editors' = [editors EXCEPT ![e] = Alerts!Idle]
  BY LimitAssumption
     DEF Alerts!Insert, RulesInv, Alerts!TypeOK, Alerts!Changing, Alerts!Idle, Alerts!Does
<1>2. row \in Alerts!Rule /\ row # Alerts!Deleted /\ row.identity = editors[e].identity
  BY <1>1 DEF Alerts!Rule, Alerts!Creating, Alerts!Deleted
<1> HIDE DEF row
<1>3. Alerts!TypeOK' /\ \A i \in 1 .. MaxIds : i >= nextId' => rules'[i] = Alerts!Deleted
  BY <1>1, <1>2, LimitAssumption DEF RulesInv, Alerts!TypeOK
<1>4. Alerts!Alive' = Alerts!Alive \union {nextId} /\ nextId \notin Alerts!Alive
  BY <1>1, <1>2 DEF Alerts!Alive, Alerts!TypeOK
<1>5. Inserting' = Inserting \ {e} /\ e \in Inserting
  BY <1>1 DEF Inserting, Alerts!TypeOK, Alerts!Idle
<1>6. Cardinality(Alerts!Alive') + Cardinality(Inserting') <= MaxRules + Cardinality(Handler) - 1
  <2>1. Cardinality(Alerts!Alive') = Cardinality(Alerts!Alive) + 1
    BY <1>1, <1>4, RulesFinite, FS_AddElement
  <2>2. Cardinality(Inserting') = Cardinality(Inserting) - 1
    BY <1>1, <1>5, RulesFinite, FS_RemoveElement
  <2> QED
    BY <1>1, <2>1, <2>2, RulesFinite, LimitAssumption DEF RulesInv
<1>7. ASSUME NEW k \in Identity
      PROVE  Cardinality(RulesOf(k)') + Cardinality(Lacking(k)') <= Cardinality(Handler)
  <2>1. CASE k # editors[e].identity
    <3>1. RulesOf(k)' = RulesOf(k)
      BY <1>1, <1>2, <1>4, <2>1 DEF RulesOf, Alerts!TypeOK, Alerts!Alive
    <3>2. Lacking(k)' = Lacking(k)
      BY <1>1, <2>1 DEF Lacking, Alerts!TypeOK, Alerts!Idle
    <3> QED
      BY <3>1, <3>2 DEF RulesInv
  <2>2. CASE k = editors[e].identity
    <3>1. RulesOf(k)' = RulesOf(k) \union {nextId} /\ nextId \notin RulesOf(k)
      BY <1>1, <1>2, <1>4, <2>2 DEF RulesOf, Alerts!TypeOK, Alerts!Alive
    <3>2. Lacking(k)' = Lacking(k) \ {e} /\ e \in Lacking(k)
      BY <1>1, <2>2 DEF Lacking, Alerts!TypeOK, Alerts!Idle
    <3>3. Cardinality(RulesOf(k)') = Cardinality(RulesOf(k)) + 1
      BY <1>1, <3>1, RulesFinite, FS_AddElement
    <3>4. Cardinality(Lacking(k)') = Cardinality(Lacking(k)) - 1
      BY <1>1, <3>2, RulesFinite, FS_RemoveElement
    <3> QED
      BY <1>1, <3>3, <3>4, RulesFinite DEF RulesInv
  <2> QED
    BY <2>1, <2>2
<1> QED
  BY <1>3, <1>6, <1>7 DEF RulesInv

\* The limit of rules, and the one rule for a thing, are passed by overlapping creations
\* only, by one less than there are handlers (createRule, which looks, counts and inserts).
THEOREM RulesCorrect == ServicesSpec => []RulesWithinOverlap
<1>1. ServicesInit => RulesInv
  BY RulesInit DEF ServicesInit
<1>2. RulesInv /\ [ServicesNext]_vars => RulesInv'
  <2>1. ASSUME RulesInv, Alerts!Next PROVE RulesInv'
    BY <2>1, EditorStarts, FindSameKeeps, CountKeeps, InsertKeeps, WriteKeeps DEF Alerts!Next
  <2>2. ASSUME RulesInv, UNCHANGED ruleVars PROVE RulesInv'
    BY <2>2 DEF RulesInv, Alerts!TypeOK, ruleVars, Alerts!Alive, RulesOf, Lacking, Inserting
  <2> QED
    BY <2>1, <2>2, StepsApart
<1>3. RulesInv => RulesWithinOverlap
  <2> SUFFICES ASSUME RulesInv
               PROVE  /\ Cardinality(Alerts!Alive) <= MaxRules + Cardinality(Handler) - 1
                      /\ \A k \in Identity : Cardinality(RulesOf(k)) <= Cardinality(Handler)
    BY SameCount DEF RulesWithinOverlap, Alerts!RulesWithinOverlap, RulesOf
  <2> QED
    BY RulesFinite, LimitAssumption DEF RulesInv
<1> QED
  BY <1>1, <1>2, <1>3, PTL DEF ServicesSpec

-----------------------------------------------------------------------------
\* Sessions

Session == [token : Nat \union {Nobody}, nickname : Nickname]
LoginCall == [kind : {"login"}, account : Handler, token : Nat, known : BOOLEAN]
GuardedCall == [kind : {"logout", "rename"}, account : Handler, token : Nat]

\* Every token is a member's session, or was one, or is still to be saved by the login that
\* made it; and it is that of one member.
AccountsInv ==
    /\ members \in [Handler -> Session \union {Nobody}]
    /\ call \in [Key -> LoginCall \union GuardedCall \union {Accounts!Idle}]
    /\ logins \in Nat /\ ended \subseteq 1 .. logins
    /\ cookie \in [Key -> 1 .. logins \union {Nobody}]
    /\ \A b \in Key : call[b] # Accounts!Idle => call[b].token \in 1 .. logins
    /\ \A b \in Key : call[b].kind \in {"logout", "rename"} => members[call[b].account] # Nobody
    /\ \A a \in Handler : members[a] # Nobody =>
          /\ members[a].token \in (1 .. logins \union {Nobody}) \ ended
          /\ \A other \in Handler :
                members[other] # Nobody /\ members[other].token = members[a].token
                  /\ members[a].token # Nobody => other = a
    /\ \A b \in Key : call[b].kind = "login" =>
          /\ call[b].token \notin ended
          /\ \A a \in Handler : members[a] # Nobody => members[a].token # call[b].token
          /\ \A c \in Key : call[c].kind = "login" /\ call[c].token = call[b].token => c = b

\* Nobody has logged in.
LEMMA AccountsInit == Accounts!Init => AccountsInv
  BY DEF Accounts!Init, AccountsInv, Accounts!Idle

\* A call is idle, a login, or one that the guard let in.
LEMMA CallKinds ==
    ASSUME AccountsInv, NEW b \in Key
    PROVE  /\ call[b].kind = "none" <=> call[b] = Accounts!Idle
           /\ call[b].kind = "login" <=> call[b] \in LoginCall
           /\ call[b].kind \in {"logout", "rename"} <=> call[b] \in GuardedCall
           /\ Accounts!Idle.kind = "none"
  BY DEF AccountsInv, Accounts!Idle, LoginCall, GuardedCall

\* loginWithSso begins: its token is new.
LEMMA LoginKeeps ==
    ASSUME AccountsInv, NEW b \in Key, NEW a \in Handler, Accounts!Login(b, a)
    PROVE  AccountsInv'
<1> DEFINE j == [kind |-> "login", account |-> a, token |-> logins + 1,
                 known |-> a \in Accounts!Stored]
<1>1. j \in LoginCall /\ j.kind = "login" /\ j.token = logins + 1
  BY DEF LoginCall, AccountsInv
<1>2. /\ call' = [call EXCEPT ![b] = j] /\ logins' = logins + 1
      /\ UNCHANGED <<members, cookie, ended>>
  BY DEF Accounts!Login
<1> HIDE DEF j
<1>3. j # Accounts!Idle
  BY <1>1 DEF Accounts!Idle
<1>4. /\ members' \in [Handler -> Session \union {Nobody}]
      /\ call' \in [Key -> LoginCall \union GuardedCall \union {Accounts!Idle}]
      /\ logins' \in Nat /\ ended' \subseteq 1 .. logins'
      /\ cookie' \in [Key -> 1 .. logins' \union {Nobody}]
  BY <1>1, <1>2 DEF AccountsInv
<1>5. /\ \A c \in Key : call'[c] # Accounts!Idle => call'[c].token \in 1 .. logins'
      /\ \A c \in Key : call'[c].kind \in {"logout", "rename"} =>
             members'[call'[c].account] # Nobody
  BY <1>1, <1>2 DEF AccountsInv
<1>6. ASSUME NEW m \in Handler, members'[m] # Nobody
      PROVE  /\ members'[m].token \in (1 .. logins' \union {Nobody}) \ ended'
             /\ \A other \in Handler :
                   members'[other] # Nobody /\ members'[other].token = members'[m].token
                     /\ members'[m].token # Nobody => other = m
  BY <1>2, <1>6 DEF AccountsInv
<1>7. \A m \in Handler : members[m] # Nobody => members[m].token # logins + 1
  BY NoneAssumption DEF AccountsInv
<1>8. \A c \in Key : call[c].kind = "login" => call[c].token # logins + 1
  BY CallKinds DEF AccountsInv
<1>9. ASSUME NEW c \in Key, call'[c].kind = "login"
      PROVE  /\ call'[c].token \notin ended'
             /\ \A m \in Handler : members'[m] # Nobody => members'[m].token # call'[c].token
             /\ \A d \in Key : call'[d].kind = "login" /\ call'[d].token = call'[c].token => d = c
  <2>1. CASE c = b
    BY <1>1, <1>2, <1>7, <1>8, <2>1 DEF AccountsInv
  <2>2. CASE c # b
    BY <1>1, <1>2, <1>8, <1>9, <2>2 DEF AccountsInv
  <2> QED
    BY <2>1, <2>2
<1> QED
  BY <1>4, <1>5, <1>6, <1>9 DEF AccountsInv

\* A call ends, and its browser has the cookie of a token that was issued, or none.
LEMMA CallEnds ==
    ASSUME AccountsInv, NEW b \in Key, call' = [call EXCEPT ![b] = Accounts!Idle],
           cookie' = cookie \/ \E t \in 1 .. logins \union {Nobody} :
                                    cookie' = [cookie EXCEPT ![b] = t],
           logins' = logins, members' \in [Handler -> Session \union {Nobody}],
           ended' \subseteq 1 .. logins,
           \A a \in Handler : members[a] # Nobody => members'[a] # Nobody,
           \A a \in Handler : members'[a] # Nobody =>
               /\ members'[a].token \in (1 .. logins \union {Nobody}) \ ended'
               /\ \A other \in Handler :
                     members'[other] # Nobody /\ members'[other].token = members'[a].token
                       /\ members'[a].token # Nobody => other = a,
           \A c \in Key \ {b} : call[c].kind = "login" =>
               /\ call[c].token \notin ended'
               /\ \A a \in Handler : members'[a] # Nobody => members'[a].token # call[c].token
    PROVE  AccountsInv'
<1>1. /\ call' \in [Key -> LoginCall \union GuardedCall \union {Accounts!Idle}]
      /\ call'[b] = Accounts!Idle /\ \A c \in Key \ {b} : call'[c] = call[c]
      /\ Accounts!Idle.kind = "none"
  BY DEF AccountsInv, Accounts!Idle
<1>2. cookie' \in [Key -> 1 .. logins \union {Nobody}]
  BY DEF AccountsInv
<1>3. \A c \in Key : call'[c] # Accounts!Idle => call'[c].token \in 1 .. logins
  BY <1>1 DEF AccountsInv
<1>4. \A c \in Key : call'[c].kind \in {"logout", "rename"} =>
         members'[call'[c].account] # Nobody
  <2> SUFFICES ASSUME NEW c \in Key, call'[c].kind \in {"logout", "rename"}
               PROVE  members'[call'[c].account] # Nobody
    OBVIOUS
  <2>1. c # b /\ call'[c] = call[c]
    BY <1>1
  <2>2. call[c].account \in Handler /\ members[call[c].account] # Nobody
    BY <2>1, CallKinds DEF AccountsInv, GuardedCall
  <2> QED
    BY <2>1, <2>2
<1>5. \A c \in Key : call'[c].kind = "login" =>
         /\ call'[c].token \notin ended'
         /\ \A a \in Handler : members'[a] # Nobody => members'[a].token # call'[c].token
         /\ \A d \in Key : call'[d].kind = "login" /\ call'[d].token = call'[c].token => d = c
  <2> SUFFICES ASSUME NEW c \in Key, call'[c].kind = "login"
               PROVE  /\ call'[c].token \notin ended'
                      /\ \A a \in Handler :
                            members'[a] # Nobody => members'[a].token # call'[c].token
                      /\ \A d \in Key : call'[d].kind = "login"
                                          /\ call'[d].token = call'[c].token => d = c
    OBVIOUS
  <2>1. c \in Key \ {b} /\ call'[c] = call[c]
    BY <1>1
  <2>2. \A d \in Key : call'[d].kind = "login" => call'[d] = call[d]
    BY <1>1
  <2>3. \A d \in Key : call[d].kind = "login" /\ call[d].token = call[c].token => d = c
    BY <2>1 DEF AccountsInv
  <2> QED
    BY <2>1, <2>2, <2>3
<1>6. /\ logins' \in Nat /\ ended' \subseteq 1 .. logins'
      /\ members' \in [Handler -> Session \union {Nobody}]
  BY DEF AccountsInv
<1>7. \A a \in Handler : members'[a] # Nobody =>
         /\ members'[a].token \in (1 .. logins' \union {Nobody}) \ ended'
         /\ \A other \in Handler :
               members'[other] # Nobody /\ members'[other].token = members'[a].token
                 /\ members'[a].token # Nobody => other = a
  OBVIOUS
<1> QED
  BY <1>1, <1>2, <1>3, <1>4, <1>5, <1>6, <1>7 DEF AccountsInv

\* The save of a login: the session of the member is the new one, the old one ended.
LEMMA SaveLoginKeeps ==
    ASSUME AccountsInv, NEW b \in Key, Accounts!SaveLogin(b)
    PROVE  AccountsInv'
<1>1. PICK a \in Handler, t \in 1 .. logins :
         /\ call[b].kind = "login" /\ call[b].account = a /\ call[b].token = t
         /\ t \notin ended /\ \A m \in Handler : members[m] # Nobody => members[m].token # t
         /\ \A c \in Key : call[c].kind = "login" /\ call[c].token = t => c = b
         /\ call' = [call EXCEPT ![b] = Accounts!Idle] /\ logins' = logins
  BY CallKinds DEF Accounts!SaveLogin, AccountsInv, LoginCall
<1>2. CASE UNCHANGED <<members, cookie, ended>>
  <2>1. /\ cookie' = cookie /\ members' \in [Handler -> Session \union {Nobody}]
        /\ ended' \subseteq 1 .. logins
        /\ \A a1 \in Handler : members[a1] # Nobody => members'[a1] # Nobody
    BY <1>2 DEF AccountsInv
  <2>2. ASSUME NEW m \in Handler, members'[m] # Nobody
        PROVE  /\ members'[m].token \in (1 .. logins \union {Nobody}) \ ended'
               /\ \A other \in Handler :
                     members'[other] # Nobody /\ members'[other].token = members'[m].token
                       /\ members'[m].token # Nobody => other = m
    BY <1>2, <2>2 DEF AccountsInv
  <2>3. ASSUME NEW c \in Key \ {b}, call[c].kind = "login"
        PROVE  /\ call[c].token \notin ended'
               /\ \A m \in Handler : members'[m] # Nobody => members'[m].token # call[c].token
    BY <1>2, <2>3 DEF AccountsInv
  <2> QED
    BY <1>1, <2>1, <2>2, <2>3, CallEnds
<1>3. CASE /\ members' = [members EXCEPT ![a] =
                            IF @ = Nobody
                            THEN [token |-> t, nickname |-> CHOOSE n \in Nickname : TRUE]
                            ELSE [@ EXCEPT !.token = t]]
           /\ ended' = (ended \union (IF a \in Accounts!Stored THEN {members[a].token} ELSE {}))
                         \ {Nobody}
           /\ cookie' = [cookie EXCEPT ![b] = t]
  <2>1. PICK row \in Session : members' = [members EXCEPT ![a] = row] /\ row.token = t
    <3>1. [token |-> t, nickname |-> CHOOSE n \in Nickname : TRUE] \in Session
      BY NameAssumption DEF Session, AccountsInv
    <3>2. members[a] # Nobody => [members[a] EXCEPT !.token = t] \in Session
      BY DEF Session, AccountsInv
    <3> QED
      BY <1>3, <3>1, <3>2 DEF AccountsInv, Session
  <2>2. row # Nobody
    BY NoneAssumption DEF Session
  <2>3. /\ ended' \subseteq 1 .. logins
        /\ t \notin ended'
        /\ \A m \in Handler \ {a} : members[m] # Nobody => members[m].token \notin ended'
        /\ \A c \in Key \ {b} : call[c].kind = "login" => call[c].token \notin ended'
    BY <1>1, <1>3, NoneAssumption DEF AccountsInv, Accounts!Stored
  <2>4. members' \in [Handler -> Session \union {Nobody}]
    BY <2>1 DEF AccountsInv
  <2>5. \A m \in Handler : members[m] # Nobody => members'[m] # Nobody
    BY <2>1, <2>2 DEF AccountsInv
  <2>6. ASSUME NEW m \in Handler, members'[m] # Nobody
        PROVE  /\ members'[m].token \in (1 .. logins \union {Nobody}) \ ended'
               /\ \A other \in Handler :
                     members'[other] # Nobody /\ members'[other].token = members'[m].token
                       /\ members'[m].token # Nobody => other = m
    BY <1>1, <2>1, <2>3, <2>6 DEF AccountsInv
  <2>7. ASSUME NEW c \in Key \ {b}, call[c].kind = "login"
        PROVE  /\ call[c].token \notin ended'
               /\ \A m \in Handler : members'[m] # Nobody => members'[m].token # call[c].token
    BY <1>1, <2>1, <2>3, <2>7 DEF AccountsInv
  <2> QED
    BY <1>1, <1>3, <2>3, <2>4, <2>5, <2>6, <2>7, CallEnds
<1> QED
  BY <1>1, <1>2, <1>3 DEF Accounts!SaveLogin

\* The guard lets a call in for the member of its cookie.
LEMMA EnterKeeps ==
    ASSUME AccountsInv, NEW b \in Key, NEW kind \in {"logout", "rename"}, Accounts!Enter(b, kind)
    PROVE  AccountsInv'
<1>1. PICK a \in Accounts!SessionOf(cookie[b]) :
         call' = [call EXCEPT ![b] = [kind |-> kind, account |-> a, token |-> cookie[b]]]
  BY DEF Accounts!Enter
<1> DEFINE j == [kind |-> kind, account |-> a, token |-> cookie[b]]
<1>2. /\ a \in Handler /\ members[a] # Nobody /\ cookie[b] \in 1 .. logins
      /\ UNCHANGED <<members, cookie, logins, ended>>
  BY DEF Accounts!Enter, Accounts!SessionOf, Accounts!Stored, AccountsInv
<1>3. /\ j \in GuardedCall /\ j.kind = kind /\ j.account = a /\ j.token \in 1 .. logins
      /\ call' = [call EXCEPT ![b] = j]
  BY <1>1, <1>2 DEF GuardedCall, AccountsInv
<1> HIDE DEF j
<1> QED
  BY <1>2, <1>3 DEF AccountsInv

\* logout ends the session of the token that it was sent with.
LEMMA LogoutKeeps ==
    ASSUME AccountsInv, NEW b \in Key, Accounts!Logout(b)
    PROVE  AccountsInv'
<1>1. PICK t \in 1 .. logins :
         /\ call[b].token = t /\ call' = [call EXCEPT ![b] = Accounts!Idle]
         /\ logins' = logins /\ cookie' = [cookie EXCEPT ![b] = Nobody]
         /\ members' = [a \in Handler |-> IF a \in Accounts!SessionOf(t)
                                          THEN [members[a] EXCEPT !.token = Nobody]
                                          ELSE members[a]]
         /\ ended' = ended \union {u \in {t} : Accounts!SessionOf(u) # {}}
  BY CallKinds DEF Accounts!Logout, AccountsInv
<1>2. \A a \in Handler : a \in Accounts!SessionOf(t) <=> members[a] # Nobody /\ members[a].token = t
  BY NoneAssumption DEF Accounts!SessionOf, Accounts!Stored
<1>3. \A a \in Handler :
         members[a] # Nobody =>
            /\ [members[a] EXCEPT !.token = Nobody] \in Session
            /\ [members[a] EXCEPT !.token = Nobody].token = Nobody
  BY DEF Session, AccountsInv
<1>4. Nobody \notin Session
  BY NoneAssumption DEF Session
<1>5. members' \in [Handler -> Session \union {Nobody}]
  BY <1>1, <1>2, <1>3 DEF AccountsInv
<1>6. \A a \in Handler : /\ members[a] # Nobody <=> members'[a] # Nobody
                         /\ members[a] # Nobody =>
                               \/ members'[a].token = Nobody
                               \/ members'[a].token = members[a].token /\ members[a].token # t
  BY <1>1, <1>2, <1>3, <1>4 DEF AccountsInv
<1>7. /\ ended' \subseteq 1 .. logins
      /\ ended' \subseteq ended \union {t}
      /\ \A c \in Key \ {b} : call[c].kind = "login" => call[c].token \notin ended'
  BY <1>1, <1>2 DEF AccountsInv, Accounts!SessionOf, Accounts!Stored
<1>8. ASSUME NEW m \in Handler, members'[m] # Nobody
      PROVE  /\ members'[m].token \in (1 .. logins \union {Nobody}) \ ended'
             /\ \A other \in Handler :
                   members'[other] # Nobody /\ members'[other].token = members'[m].token
                     /\ members'[m].token # Nobody => other = m
  <2>1. /\ members[m] # Nobody
        /\ members[m].token \in (1 .. logins \union {Nobody}) \ ended
        /\ \A other \in Handler :
              members[other] # Nobody /\ members[other].token = members[m].token
                /\ members[m].token # Nobody => other = m
    BY <1>6, <1>8 DEF AccountsInv
  <2>2. CASE members'[m].token = Nobody
    <3>1. Nobody \notin ended'
      <4>1. logins \in Nat
        BY DEF AccountsInv
      <4>2. \A u \in 1 .. logins : u \in Nat
        BY <4>1
      <4> QED
        BY <1>7, <4>2, NoneAssumption
    <3> QED
      BY <2>2, <3>1
  <2>3. CASE members'[m].token = members[m].token /\ members[m].token # t
    BY <1>6, <1>7, <2>1, <2>3
  <2> QED
    BY <1>6, <2>1, <2>2, <2>3
<1>9. ASSUME NEW c \in Key \ {b}, call[c].kind = "login"
      PROVE  \A m \in Handler : members'[m] # Nobody => members'[m].token # call[c].token
  BY <1>6, <1>9, NoneAssumption, CallKinds DEF AccountsInv, LoginCall
<1> QED
  BY <1>1, <1>5, <1>6, <1>7, <1>8, <1>9, CallEnds

\* A change of the nickname leaves the session as it is.
LEMMA RenameKeeps ==
    ASSUME AccountsInv, NEW b \in Key, NEW name \in Nickname, Accounts!Rename(b, name)
    PROVE  AccountsInv'
<1>1. PICK a \in Handler :
         /\ call[b].account = a /\ members[a] \in Session /\ members[a] # Nobody
         /\ members' = [members EXCEPT ![a].nickname = name]
         /\ call' = [call EXCEPT ![b] = Accounts!Idle]
         /\ UNCHANGED <<cookie, logins, ended>>
  BY CallKinds DEF Accounts!Rename, AccountsInv, GuardedCall
<1>2. PICK row \in Session : /\ members' = [members EXCEPT ![a] = row]
                             /\ row.token = members[a].token
  <2> DEFINE row == [members[a] EXCEPT !.nickname = name]
  <2>1. row \in Session /\ row.token = members[a].token
    BY <1>1 DEF Session
  <2>2. members' = [members EXCEPT ![a] = row]
    BY <1>1
  <2> QED
    BY <2>1, <2>2
<1>3. row # Nobody
  BY NoneAssumption DEF Session
<1>4. \A m \in Handler : /\ members[m] # Nobody <=> members'[m] # Nobody
                         /\ members[m] # Nobody => members'[m].token = members[m].token
  BY <1>1, <1>2, <1>3 DEF AccountsInv
<1>5. members' \in [Handler -> Session \union {Nobody}]
  BY <1>2 DEF AccountsInv
<1>6. ASSUME NEW m \in Handler, members'[m] # Nobody
      PROVE  /\ members'[m].token \in (1 .. logins \union {Nobody}) \ ended'
             /\ \A other \in Handler :
                   members'[other] # Nobody /\ members'[other].token = members'[m].token
                     /\ members'[m].token # Nobody => other = m
  BY <1>1, <1>4, <1>6 DEF AccountsInv
<1>7. ASSUME NEW c \in Key \ {b}, call[c].kind = "login"
      PROVE  /\ call[c].token \notin ended'
             /\ \A m \in Handler : members'[m] # Nobody => members'[m].token # call[c].token
  BY <1>1, <1>4, <1>7 DEF AccountsInv
<1>8. cookie' = cookie /\ ended' \subseteq 1 .. logins
  BY <1>1 DEF AccountsInv
<1> QED
  BY <1>1, <1>4, <1>5, <1>6, <1>7, <1>8, CallEnds

\* A session changes only by a login of its member or a logout sent with its token, a
\* nickname only by its member's change.
LEMMA SessionsChange ==
    ASSUME AccountsInv, Accounts!Next, NEW a \in Accounts!Stored
    PROVE  /\ members'[a].token # members[a].token =>
                 \E b \in Key :
                     /\ call'[b] = Accounts!Idle
                     /\ \/ call[b].kind = "login" /\ call[b].account = a
                        \/ call[b].kind = "logout" /\ call[b].token = members[a].token
           /\ members'[a].nickname # members[a].nickname =>
                 \E b \in Key : call[b].kind = "rename" /\ call[b].account = a
<1>1. a \in Handler /\ members[a] \in Session /\ members[a] # Nobody
  BY DEF Accounts!Stored, AccountsInv
<1>2. CASE UNCHANGED members
  BY <1>2
<1>3. ASSUME NEW b \in Key, Accounts!SaveLogin(b)
      PROVE  /\ members'[a].token # members[a].token =>
                   call'[b] = Accounts!Idle /\ call[b].kind = "login" /\ call[b].account = a
             /\ members'[a].nickname = members[a].nickname
  BY <1>1, <1>3 DEF Accounts!SaveLogin, AccountsInv, Session
<1>4. ASSUME NEW b \in Key, Accounts!Logout(b)
      PROVE  /\ members'[a].token # members[a].token =>
                   /\ call'[b] = Accounts!Idle /\ call[b].kind = "logout"
                   /\ call[b].token = members[a].token
             /\ members'[a].nickname = members[a].nickname
  BY <1>1, <1>4 DEF Accounts!Logout, AccountsInv, Session, Accounts!SessionOf
<1>5. ASSUME NEW b \in Key, NEW name \in Nickname, Accounts!Rename(b, name)
      PROVE  /\ members'[a].token = members[a].token
             /\ members'[a].nickname # members[a].nickname =>
                   call[b].kind = "rename" /\ call[b].account = a
  BY <1>1, <1>5 DEF Accounts!Rename, AccountsInv, Session
<1>6. \/ UNCHANGED members
      \/ \E b \in Key : Accounts!SaveLogin(b) \/ Accounts!Logout(b)
      \/ \E b \in Key, name \in Nickname : Accounts!Rename(b, name)
  BY DEF Accounts!Next, Accounts!Login, Accounts!Enter
<1> QED
  BY <1>2, <1>3, <1>4, <1>5, <1>6

\* A token opens one account at most, and never again once its session ended, however
\* logins and logouts overlap; a session ends by a login of its account or by a logout that
\* was sent with its token (loginWithSso, logout).
THEOREM SessionsHoldCorrect == ServicesSpec => SessionsHold
<1>1. ServicesInit => AccountsInv
  BY AccountsInit DEF ServicesInit
<1>2. AccountsInv /\ [ServicesNext]_vars => AccountsInv'
  <2>1. ASSUME AccountsInv, Accounts!Next PROVE AccountsInv'
    BY <2>1, LoginKeeps, SaveLoginKeeps, EnterKeeps, LogoutKeeps, RenameKeeps
       DEF Accounts!Next
  <2>2. ASSUME AccountsInv, UNCHANGED accountVars PROVE AccountsInv'
    BY <2>2 DEF AccountsInv, accountVars
  <2> QED
    BY <2>1, <2>2, StepsApart
<1>3. AccountsInv =>
         \A token \in 1 .. logins : Accounts!Cardinality(Accounts!SessionOf(token)) <= 1
  <2> SUFFICES ASSUME AccountsInv, NEW token \in 1 .. logins
               PROVE  Cardinality(Accounts!SessionOf(token)) <= 1
    BY SameCount
  <2>1. CASE Accounts!SessionOf(token) = {}
    BY <2>1, FS_EmptySet
  <2>2. ASSUME NEW a \in Accounts!SessionOf(token)
        PROVE  Cardinality(Accounts!SessionOf(token)) <= 1
    <3>1. Accounts!SessionOf(token) = {a}
      BY DEF Accounts!SessionOf, Accounts!Stored, AccountsInv
    <3> QED
      BY <3>1, FS_Singleton
  <2> QED
    BY <2>1, <2>2
<1>4. AccountsInv => \A token \in ended : Accounts!SessionOf(token) = {}
  BY DEF AccountsInv, Accounts!SessionOf, Accounts!Stored
<1>5. AccountsInv /\ [ServicesNext]_vars =>
         [\A a \in Accounts!Stored :
            /\ members'[a].token # members[a].token =>
                  \E b \in Key :
                      /\ call'[b] = Accounts!Idle
                      /\ \/ call[b].kind = "login" /\ call[b].account = a
                         \/ call[b].kind = "logout" /\ call[b].token = members[a].token
            /\ members'[a].nickname # members[a].nickname =>
                  \E b \in Key : call[b].kind = "rename" /\ call[b].account = a]_Accounts!accountVars
  BY SessionsChange, StepsApart DEF accountVars, Accounts!accountVars
<1> QED
  BY <1>1, <1>2, <1>3, <1>4, <1>5, PTL DEF ServicesSpec, SessionsHold, Accounts!SessionsHold

-----------------------------------------------------------------------------
\* The messages of a listing

\* The messages of a conversation that its summary knows of.
CountedIn(s) == {i \in DOMAIN s : s[i].counted}
CountedFrom(s, p) == {i \in CountedIn(s) : s[i].by = p}

\* Message k was pushed although i, known at the time, had been pushed within the throttle:
\* then a message older than i was known too.
Excused(s, i, k) ==
    s[k].at - s[i].at \in 0 .. PushThrottle - 1 =>
        \E m \in s[k].knew : s[m].by = s[i].by /\ s[m].at < s[i].at

\* What holds of the messages s of one conversation and its summary th.  The mark of a push
\* is that of the push or later, unless the summary of an older message set it back.
ConversationOK(s, th) ==
    /\ s \in Seq(Thread!MessageRow)
    /\ th \in Thread!Thread \union {Thread!NoThread}
    /\ \A i \in DOMAIN s : s[i].knew \subseteq CountedIn(s) /\ (s[i].pushed => s[i].counted)
    /\ th # Thread!NoThread =>
          \A p \in Thread!Party :
              th.unread[p] <= Cardinality(CountedFrom(s, Thread!Other(p)))
    /\ \A i \in DOMAIN s : s[i].pushed =>
          /\ th # Thread!NoThread
          /\ \/ th.pushedAt[Thread!Other(s[i].by)] >= s[i].at
             \/ \E m \in CountedFrom(s, s[i].by) : s[m].at < s[i].at
    /\ \A i, k \in DOMAIN s :
          /\ s[i].pushed /\ s[k].pushed /\ s[i].by = s[k].by
          /\ i \in s[k].knew
          => Excused(s, i, k)

\* What a suspended handler j may rely on, whatever happened to the conversation meanwhile.
Counting(j) == j.pc \in {"look", "upsert"}
HandlerOK(s, j) ==
    /\ Counting(j) => /\ j.index \in DOMAIN s
                      /\ s[j.index].by = j.by /\ s[j.index].at = j.at
                      /\ ~s[j.index].counted
    /\ j.pc = "upsert" =>
          /\ j.knew \subseteq CountedIn(s)
          /\ j.push => \A i \in j.knew :
                /\ s[i].pushed /\ s[i].by = j.by
                /\ j.at - s[i].at \in 0 .. PushThrottle - 1
                => \E m \in j.knew : s[m].by = j.by /\ s[m].at < s[i].at
    /\ j.pc = "mark" =>
          /\ j.present \subseteq DOMAIN s /\ j.shown \subseteq j.present
          /\ \A i \in j.present \ j.shown :
                /\ Cardinality(j.shown) = MessageLimit
                /\ \A k \in j.shown : s[k].at <= s[i].at

\* Of the values of the variables.
ThreadsOK(t, m, th, wr) ==
    /\ t \in Thread!Time
    /\ m \in [Requester -> Seq(Thread!MessageRow)]
    /\ th \in [Requester -> Thread!Thread \union {Thread!NoThread}]
    /\ wr \in [Handler -> Thread!Writing \union Thread!Reading \union {Thread!Resting}]
    /\ \A r \in Requester : ConversationOK(m[r], th[r])
    /\ \A c \in Handler : wr[c] # Thread!Resting => HandlerOK(m[wr[c].thread], wr[c])
    /\ \A c, d \in Handler :
          /\ Counting(wr[c]) /\ Counting(wr[d])
          /\ wr[c].thread = wr[d].thread /\ wr[c].index = wr[d].index
          => c = d

ThreadsInv == \E t, m, th, wr : /\ t = now /\ m = messages /\ th = threads /\ wr = writing
                                /\ ThreadsOK(t, m, th, wr)

-----------------------------------------------------------------------------
\* The two parties.
LEMMA Others ==
    /\ Thread!Party = {"owner", "requester"}
    /\ Thread!Other("owner") = "requester" /\ Thread!Other("requester") = "owner"
  BY DEF Thread!Party, Thread!Other

\* A summary has more fields than what stands for none.
LEMMA SummaryIsOne == ASSUME NEW x \in Thread!Thread PROVE x # Thread!NoThread
  BY DEF Thread!Thread, Thread!NoThread

\* What a handler stands at.
LEMMA HandlerKinds ==
    ASSUME NEW j \in Thread!Writing \union Thread!Reading \union {Thread!Resting}
    PROVE  /\ j.pc \in {"save", "look", "upsert"} => j \in Thread!Writing
           /\ j.pc \in {"find", "mark"} => j \in Thread!Reading
           /\ j # Thread!Resting => j.thread \in Requester /\ j.pc # "rest"
           /\ j = Thread!Resting => j.pc = "rest"
  BY DEF Thread!Writing, Thread!Reading, Thread!Resting

\* A later state of a conversation: it has grown, and what was counted is as it was.
Later(s, s2) ==
    /\ DOMAIN s \subseteq DOMAIN s2
    /\ \A i \in DOMAIN s : /\ s2[i].by = s[i].by /\ s2[i].at = s[i].at
                           /\ s[i].counted => s2[i] = s[i]

LEMMA HandlerLater ==
    ASSUME NEW s, NEW s2, Later(s, s2), NEW j, HandlerOK(s, j),
           Counting(j) => ~s2[j.index].counted
    PROVE  HandlerOK(s2, j)
<1>1. Counting(j) => /\ j.index \in DOMAIN s2 /\ s2[j.index].by = j.by
                     /\ s2[j.index].at = j.at /\ ~s2[j.index].counted
  BY DEF HandlerOK, Later
<1>2. CountedIn(s) \subseteq CountedIn(s2) /\ \A i \in CountedIn(s) : i \in DOMAIN s /\ s2[i] = s[i]
  BY DEF Later, CountedIn
<1>3. j.pc = "upsert" =>
          /\ j.knew \subseteq CountedIn(s2)
          /\ j.push => \A i \in j.knew :
                /\ s2[i].pushed /\ s2[i].by = j.by
                /\ j.at - s2[i].at \in 0 .. PushThrottle - 1
                => \E m \in j.knew : s2[m].by = j.by /\ s2[m].at < s2[i].at
  <2> SUFFICES ASSUME j.pc = "upsert"
               PROVE  /\ j.knew \subseteq CountedIn(s2)
                      /\ j.push => \A i \in j.knew :
                            /\ s2[i].pushed /\ s2[i].by = j.by
                            /\ j.at - s2[i].at \in 0 .. PushThrottle - 1
                            => \E m \in j.knew : s2[m].by = j.by /\ s2[m].at < s2[i].at
    OBVIOUS
  <2>1. j.knew \subseteq CountedIn(s)
    BY DEF HandlerOK
  <2>2. \A i \in j.knew : s2[i] = s[i]
    BY <1>2, <2>1
  <2>3. j.push => \A i \in j.knew :
                /\ s[i].pushed /\ s[i].by = j.by
                /\ j.at - s[i].at \in 0 .. PushThrottle - 1
                => \E m \in j.knew : s[m].by = j.by /\ s[m].at < s[i].at
    BY DEF HandlerOK
  <2> QED
    BY <1>2, <2>1, <2>2, <2>3
<1>4. j.pc = "mark" =>
          /\ j.present \subseteq DOMAIN s2 /\ j.shown \subseteq j.present
          /\ \A i \in j.present \ j.shown :
                /\ Cardinality(j.shown) = MessageLimit
                /\ \A k \in j.shown : s2[k].at <= s2[i].at
  BY DEF HandlerOK, Later
<1> QED
  BY <1>1, <1>3, <1>4 DEF HandlerOK

\* The messages are finitely many.
LEMMA MessagesFinite ==
    ASSUME NEW s \in Seq(Thread!MessageRow)
    PROVE  IsFiniteSet(DOMAIN s)
<1>1. IsFiniteSet(1 .. Len(s))
  BY FS_Interval
<1> QED
  BY <1>1

LEMMA CountedFinite ==
    ASSUME NEW s \in Seq(Thread!MessageRow), NEW p
    PROVE  IsFiniteSet(CountedFrom(s, p)) /\ Cardinality(CountedFrom(s, p)) \in Nat
<1>1. CountedFrom(s, p) \subseteq DOMAIN s
  BY DEF CountedFrom, CountedIn
<1> QED
  BY <1>1, MessagesFinite, FS_Subset, FS_CardinalityType

\* A message is stored.
LEMMA ConversationGrows ==
    ASSUME NEW s, NEW th, ConversationOK(s, th), NEW row \in Thread!MessageRow,
           ~row.counted, ~row.pushed, row.knew = {}
    PROVE  /\ ConversationOK(Append(s, row), th) /\ Later(s, Append(s, row))
           /\ Len(s) + 1 \in DOMAIN Append(s, row) /\ Len(s) + 1 \notin DOMAIN s
           /\ Append(s, row)[Len(s) + 1] = row
           /\ \A i \in DOMAIN s : Append(s, row)[i] = s[i]
<1>1. PICK u : u = Append(s, row)
  OBVIOUS
<1>2. /\ u \in Seq(Thread!MessageRow) /\ DOMAIN u = DOMAIN s \union {Len(s) + 1}
      /\ Len(s) + 1 \notin DOMAIN s /\ u[Len(s) + 1] = row
      /\ \A i \in DOMAIN s : u[i] = s[i]
  BY <1>1 DEF ConversationOK
<1>3. CountedIn(u) = CountedIn(s) /\ \A p : CountedFrom(u, p) = CountedFrom(s, p)
  BY <1>2 DEF CountedIn, CountedFrom
<1>4. Later(s, u)
  BY <1>2 DEF Later
<1>5. \A i \in DOMAIN u : u[i].knew \subseteq CountedIn(u) /\ (u[i].pushed => u[i].counted)
  BY <1>2, <1>3 DEF ConversationOK
<1>6. \A i \in DOMAIN u : u[i].pushed => i \in DOMAIN s /\ u[i] = s[i]
  BY <1>2
<1>7. \A m \in CountedIn(s) : m \in DOMAIN s /\ u[m] = s[m]
  BY <1>2 DEF CountedIn
<1>8. \A i \in DOMAIN u : u[i].pushed =>
          /\ th # Thread!NoThread
          /\ \/ th.pushedAt[Thread!Other(u[i].by)] >= u[i].at
             \/ \E m \in CountedFrom(u, u[i].by) : u[m].at < u[i].at
  BY <1>3, <1>6, <1>7 DEF ConversationOK, CountedFrom
<1>9. ASSUME NEW i \in DOMAIN u, NEW k \in DOMAIN u,
             u[i].pushed, u[k].pushed, u[i].by = u[k].by, i \in u[k].knew
      PROVE  Excused(u, i, k)
  <2>1. i \in DOMAIN s /\ k \in DOMAIN s /\ u[i] = s[i] /\ u[k] = s[k]
    BY <1>6, <1>9
  <2>2. Excused(s, i, k) /\ s[k].knew \subseteq CountedIn(s)
    BY <1>9, <2>1 DEF ConversationOK
  <2>3. \A m \in s[k].knew : u[m] = s[m]
    BY <1>7, <2>2
  <2> QED
    BY <2>1, <2>2, <2>3 DEF Excused
<1>10. ConversationOK(u, th)
  BY <1>2, <1>3, <1>5, <1>8, <1>9 DEF ConversationOK
<1> QED
  BY <1>1, <1>2, <1>4, <1>10

\* The summary after a message: the recipient has one more to read, the author none.
LEMMA UpdatedSummary ==
    ASSUME NEW th \in Thread!Thread \union {Thread!NoThread}, NEW j \in Thread!Writing
    PROVE  LET x == Thread!Updated(th, j)
               to == Thread!Other(j.by)
           IN  /\ x \in Thread!Thread /\ x # Thread!NoThread
               /\ x.unread[j.by] = 0
               /\ x.unread[to] = (IF th = Thread!NoThread THEN 0 ELSE th.unread[to]) + 1
               /\ th # Thread!NoThread => x.pushedAt[j.by] = th.pushedAt[j.by]
               /\ j.push \/ j.memo => x.pushedAt[to] = j.at
               /\ ~(j.push \/ j.memo) /\ th # Thread!NoThread =>
                     x.pushedAt[to] = th.pushedAt[to]
<1>0. PICK x, to : x = Thread!Updated(th, j) /\ to = Thread!Other(j.by)
  OBVIOUS
<1>1. j.by \in Thread!Party /\ to \in Thread!Party /\ to # j.by /\ j.at \in Thread!Time
  BY <1>0, Others DEF Thread!Writing
<1>2. PICK old \in Thread!Thread :
         /\ th # Thread!NoThread => old = th
         /\ th = Thread!NoThread => old.unread[to] = 0
         /\ x = [old EXCEPT !.unread[j.by] = 0, !.unread[to] = @ + 1,
                            !.pushedAt[to] = IF j.push \/ j.memo THEN j.at ELSE @]
  <2> DEFINE none == [unread |-> [p \in Thread!Party |-> 0],
                      pushedAt |-> [p \in Thread!Party |-> Thread!Never]]
             old == IF th # Thread!NoThread THEN th ELSE none
  <2>1. none \in Thread!Thread /\ none.unread[to] = 0
    BY <1>1 DEF Thread!Thread
  <2>2. x = [old EXCEPT !.unread[j.by] = 0, !.unread[to] = @ + 1,
                        !.pushedAt[to] = IF j.push \/ j.memo THEN j.at ELSE @]
    BY <1>0 DEF Thread!Updated
  <2>3. /\ old \in Thread!Thread
        /\ th # Thread!NoThread => old = th
        /\ th = Thread!NoThread => old.unread[to] = 0
    BY <2>1
  <2> HIDE DEF old
  <2> QED
    BY <2>2, <2>3
<1>3. /\ old.unread \in [Thread!Party -> Nat]
      /\ old.pushedAt \in [Thread!Party -> Thread!Time \union {Thread!Never}]
  BY DEF Thread!Thread
<1>4. /\ x.unread = [old.unread EXCEPT ![j.by] = 0, ![to] = @ + 1]
      /\ x.pushedAt = [old.pushedAt EXCEPT ![to] = IF j.push \/ j.memo THEN j.at ELSE @]
      /\ x = [unread |-> x.unread, pushedAt |-> x.pushedAt]
  BY <1>2 DEF Thread!Thread
<1>5. x \in Thread!Thread
  <2>1. x.unread \in [Thread!Party -> Nat]
    BY <1>1, <1>3, <1>4
  <2>2. x.pushedAt \in [Thread!Party -> Thread!Time \union {Thread!Never}]
    BY <1>1, <1>3, <1>4
  <2> QED
    BY <1>4, <2>1, <2>2 DEF Thread!Thread
<1>6. x.unread[j.by] = 0 /\ x.unread[to] = old.unread[to] + 1
  BY <1>1, <1>3, <1>4
<1>7. /\ x.pushedAt[j.by] = old.pushedAt[j.by]
      /\ x.pushedAt[to] = (IF j.push \/ j.memo THEN j.at ELSE old.pushedAt[to])
  BY <1>1, <1>3, <1>4
<1> QED
  BY <1>0, <1>2, <1>5, <1>6, <1>7, SummaryIsOne

\* The messages after j's is counted.
Counts(u, s, j) ==
    /\ DOMAIN u = DOMAIN s
    /\ \A i \in DOMAIN s \ {j.index} : u[i] = s[i]
    /\ LET row == u[j.index]
       IN  /\ row.by = s[j.index].by /\ row.at = s[j.index].at
           /\ row.counted /\ (row.pushed <=> j.push) /\ row.knew = j.knew

\* Its message is counted.
LEMMA ConversationCounted ==
    ASSUME NEW s, NEW th, ConversationOK(s, th), NEW j \in Thread!Writing, HandlerOK(s, j),
           j.pc = "upsert", NEW u \in Seq(Thread!MessageRow), Counts(u, s, j)
    PROVE  ConversationOK(u, Thread!Updated(th, j)) /\ Later(s, u)
<1>1. PICK x, to, n, p : /\ x = Thread!Updated(th, j) /\ p = j.by /\ to = Thread!Other(j.by)
                         /\ n = j.index
  OBVIOUS
<1>2. /\ n \in DOMAIN s /\ s[n].by = p /\ s[n].at = j.at /\ ~s[n].counted
      /\ j.knew \subseteq CountedIn(s)
  BY <1>1 DEF HandlerOK, Counting
<1>3. /\ DOMAIN u = DOMAIN s /\ \A i \in DOMAIN s \ {n} : u[i] = s[i]
      /\ u[n].by = p /\ u[n].at = j.at /\ u[n].counted /\ (u[n].pushed <=> j.push)
      /\ u[n].knew = j.knew
  BY <1>1, <1>2 DEF Counts
<1>4. /\ p \in Thread!Party /\ to \in Thread!Party /\ to # p /\ Thread!Party = {p, to}
      /\ Thread!Other(p) = to /\ Thread!Other(to) = p
  BY <1>1, Others DEF Thread!Writing
<1>5. Later(s, u)
  BY <1>2, <1>3 DEF Later
<1>6. CountedIn(u) = CountedIn(s) \union {n} /\ n \notin CountedIn(s)
  BY <1>2, <1>3 DEF CountedIn
<1>7. \A i \in CountedIn(s) : i \in DOMAIN s /\ i # n /\ u[i] = s[i]
  BY <1>3, <1>6 DEF CountedIn
<1>8. /\ CountedFrom(u, p) = CountedFrom(s, p) \union {n} /\ n \notin CountedFrom(s, p)
      /\ CountedFrom(u, to) = CountedFrom(s, to)
  BY <1>3, <1>4, <1>6, <1>7 DEF CountedFrom
<1>9. /\ x \in Thread!Thread /\ x # Thread!NoThread /\ x.unread[p] = 0
      /\ x.unread[to] = (IF th = Thread!NoThread THEN 0 ELSE th.unread[to]) + 1
      /\ th # Thread!NoThread => x.pushedAt[p] = th.pushedAt[p]
      /\ j.push \/ j.memo => x.pushedAt[to] = j.at
      /\ ~(j.push \/ j.memo) /\ th # Thread!NoThread => x.pushedAt[to] = th.pushedAt[to]
  BY <1>1, UpdatedSummary DEF ConversationOK
<1>10. \A i \in DOMAIN u : u[i].knew \subseteq CountedIn(u) /\ (u[i].pushed => u[i].counted)
  BY <1>2, <1>3, <1>6 DEF ConversationOK
<1>11. \A q \in Thread!Party : x.unread[q] <= Cardinality(CountedFrom(u, Thread!Other(q)))
  <2>1. Cardinality(CountedFrom(u, p)) = Cardinality(CountedFrom(s, p)) + 1
    BY <1>8, CountedFinite, FS_AddElement DEF ConversationOK
  <2>2. Cardinality(CountedFrom(s, p)) \in Nat /\ Cardinality(CountedFrom(u, to)) \in Nat
    BY CountedFinite DEF ConversationOK
  <2>3. th # Thread!NoThread => /\ th.unread[to] <= Cardinality(CountedFrom(s, p))
                                /\ th.unread[to] \in Nat
    BY <1>4 DEF ConversationOK, Thread!Thread
  <2>4. x.unread[to] <= Cardinality(CountedFrom(u, p))
    BY <1>9, <2>1, <2>2, <2>3
  <2>5. x.unread[p] <= Cardinality(CountedFrom(u, to))
    BY <1>9, <2>2
  <2> QED
    BY <1>4, <2>4, <2>5
<1>12. ASSUME NEW i \in DOMAIN u, u[i].pushed
       PROVE  \/ x.pushedAt[Thread!Other(u[i].by)] >= u[i].at
              \/ \E m \in CountedFrom(u, u[i].by) : u[m].at < u[i].at
  <2>1. j.at \in Int /\ u[i].at \in Int /\ u[i].by \in Thread!Party
    <3>1. u[i] \in Thread!MessageRow
      OBVIOUS
    <3> QED
      BY <3>1 DEF Thread!Writing, Thread!MessageRow, Thread!Time
  <2>2. CASE i = n
    BY <1>3, <1>4, <1>9, <1>12, <2>1, <2>2
  <2>3. CASE i # n
    <3>1. i \in DOMAIN s /\ u[i] = s[i]
      BY <1>3, <2>3
    <3>2. /\ th # Thread!NoThread
          /\ \/ th.pushedAt[Thread!Other(s[i].by)] >= s[i].at
             \/ \E m \in CountedFrom(s, s[i].by) : s[m].at < s[i].at
      BY <1>12, <3>1 DEF ConversationOK
    <3>3. ASSUME NEW m \in CountedFrom(s, s[i].by), s[m].at < s[i].at
          PROVE  m \in CountedFrom(u, u[i].by) /\ u[m].at < u[i].at
      BY <1>6, <1>7, <3>1, <3>3 DEF CountedFrom
    <3>4. CASE th.pushedAt[Thread!Other(s[i].by)] >= s[i].at /\ s[i].by = to
      BY <1>4, <1>9, <3>1, <3>2, <3>4
    <3>5. CASE th.pushedAt[Thread!Other(s[i].by)] >= s[i].at /\ s[i].by = p
      <4>1. n \in CountedFrom(u, u[i].by) /\ u[n].at = j.at
        BY <1>3, <1>8, <3>1, <3>5
      <4>2. CASE j.push \/ j.memo
        <5>1. x.pushedAt[Thread!Other(u[i].by)] = j.at
          BY <1>4, <1>9, <3>1, <3>5, <4>2
        <5> QED
          BY <2>1, <4>1, <5>1
      <4>3. CASE ~(j.push \/ j.memo)
        BY <1>4, <1>9, <3>1, <3>2, <3>5, <4>3
      <4> QED
        BY <4>2, <4>3
    <3> QED
      BY <1>4, <2>1, <3>1, <3>2, <3>3, <3>4, <3>5
  <2> QED
    BY <2>2, <2>3
<1>13. ASSUME NEW i \in DOMAIN u, NEW k \in DOMAIN u,
              u[i].pushed, u[k].pushed, u[i].by = u[k].by, i \in u[k].knew
       PROVE  Excused(u, i, k)
  <2>1. CASE k = n
    <3>1. i \in CountedIn(s) /\ u[i] = s[i] /\ j.push /\ i \in j.knew
      BY <1>2, <1>3, <1>7, <1>13, <2>1
    <3>2. j.at - s[i].at \in 0 .. PushThrottle - 1 =>
             \E m \in j.knew : s[m].by = j.by /\ s[m].at < s[i].at
      BY <1>1, <1>3, <1>13, <2>1, <3>1 DEF HandlerOK
    <3> QED
      BY <1>1, <1>2, <1>3, <1>7, <1>13, <2>1, <3>1, <3>2 DEF Excused
  <2>2. CASE k # n
    <3>1. k \in DOMAIN s /\ u[k] = s[k] /\ s[k].knew \subseteq CountedIn(s)
      BY <1>3, <2>2 DEF ConversationOK
    <3>2. i \in DOMAIN s /\ u[i] = s[i]
      BY <1>7, <1>13, <3>1
    <3>3. Excused(s, i, k)
      BY <1>13, <3>1, <3>2 DEF ConversationOK
    <3> QED
      BY <1>7, <3>1, <3>2, <3>3 DEF Excused
  <2> QED
    BY <2>1, <2>2
<1>14. ConversationOK(u, x)
  BY <1>9, <1>10, <1>11, <1>12, <1>13 DEF ConversationOK
<1> QED
  BY <1>1, <1>5, <1>14

-----------------------------------------------------------------------------
\* A step of handler c, which becomes j, in conversation r, which becomes s with summary x.
Stepped(m2, th2, wr2, m, th, wr, r, s, x, c, j) ==
    m2 = [m EXCEPT ![r] = s] /\ th2 = [th EXCEPT ![r] = x] /\ wr2 = [wr EXCEPT ![c] = j]

Moved(th2, wr2, th, wr, r, x, c, j) ==
    th2 = [th EXCEPT ![r] = x] /\ wr2 = [wr EXCEPT ![c] = j]

LEMMA StepOK ==
    ASSUME NEW t, NEW m, NEW th, NEW wr, ThreadsOK(t, m, th, wr),
           NEW r \in Requester, NEW s, NEW x, ConversationOK(s, x), Later(m[r], s),
           NEW c \in Handler,
           NEW j \in Thread!Writing \union Thread!Reading \union {Thread!Resting},
           j # Thread!Resting => j.thread = r /\ HandlerOK(s, j),
           \A d \in Handler \ {c} : Counting(wr[d]) /\ wr[d].thread = r =>
               ~s[wr[d].index].counted /\ (Counting(j) => wr[d].index # j.index),
           NEW m2, NEW th2, NEW wr2, Stepped(m2, th2, wr2, m, th, wr, r, s, x, c, j)
    PROVE  ThreadsOK(t, m2, th2, wr2)
<1>1. /\ m \in [Requester -> Seq(Thread!MessageRow)]
      /\ th \in [Requester -> Thread!Thread \union {Thread!NoThread}]
      /\ wr \in [Handler -> Thread!Writing \union Thread!Reading \union {Thread!Resting}]
  BY DEF ThreadsOK
<1>2. s \in Seq(Thread!MessageRow) /\ x \in Thread!Thread \union {Thread!NoThread}
  BY DEF ConversationOK
<1>3. /\ m2 \in [Requester -> Seq(Thread!MessageRow)] /\ m2[r] = s
      /\ \A q \in Requester \ {r} : m2[q] = m[q]
  BY <1>1, <1>2 DEF Stepped
<1>4. /\ th2 \in [Requester -> Thread!Thread \union {Thread!NoThread}] /\ th2[r] = x
      /\ \A q \in Requester \ {r} : th2[q] = th[q]
  BY <1>1, <1>2 DEF Stepped
<1>5. /\ wr2 \in [Handler -> Thread!Writing \union Thread!Reading \union {Thread!Resting}]
      /\ wr2[c] = j /\ \A d \in Handler \ {c} : wr2[d] = wr[d]
  BY <1>1 DEF Stepped
<1>6. \A q \in Requester : ConversationOK(m2[q], th2[q])
  BY <1>3, <1>4 DEF ThreadsOK
<1>7. ASSUME NEW d \in Handler, wr2[d] # Thread!Resting
      PROVE  HandlerOK(m2[wr2[d].thread], wr2[d])
  <2>1. CASE d = c
    BY <1>3, <1>5, <1>7, <2>1
  <2>2. CASE d # c
    <3>1. wr2[d] = wr[d] /\ wr[d].thread \in Requester /\ HandlerOK(m[wr[d].thread], wr[d])
      BY <1>1, <1>5, <1>7, <2>2, HandlerKinds DEF ThreadsOK
    <3>2. CASE wr[d].thread = r
      BY <1>3, <2>2, <3>1, <3>2, HandlerLater
    <3>3. CASE wr[d].thread # r
      BY <1>3, <3>1, <3>3
    <3> QED
      BY <3>2, <3>3
  <2> QED
    BY <2>1, <2>2
<1>8. ASSUME NEW d \in Handler, NEW e \in Handler, Counting(wr2[d]), Counting(wr2[e]),
             wr2[d].thread = wr2[e].thread, wr2[d].index = wr2[e].index
      PROVE  d = e
  <2>1. Counting(j) => j.thread = r
    BY DEF Counting, Thread!Resting
  <2>2. CASE d # c /\ e # c
    BY <1>5, <1>8, <2>2 DEF ThreadsOK
  <2>3. CASE d = c /\ e # c
    BY <1>5, <1>8, <2>1, <2>3
  <2>4. CASE d # c /\ e = c
    BY <1>5, <1>8, <2>1, <2>4
  <2> QED
    BY <2>2, <2>3, <2>4
<1>9. t \in Thread!Time
  BY DEF ThreadsOK
<1> QED
  BY <1>3, <1>4, <1>5, <1>6, <1>7, <1>8, <1>9 DEF ThreadsOK

\* Only the handler has moved.
LEMMA HandlerMoves ==
    ASSUME NEW t, NEW m, NEW th, NEW wr, ThreadsOK(t, m, th, wr), NEW r \in Requester,
           NEW c \in Handler,
           NEW j \in Thread!Writing \union Thread!Reading \union {Thread!Resting},
           j # Thread!Resting => j.thread = r /\ HandlerOK(m[r], j),
           Counting(j) => Counting(wr[c]) /\ wr[c].thread = r /\ wr[c].index = j.index,
           NEW x, ConversationOK(m[r], x),
           NEW th2, NEW wr2, Moved(th2, wr2, th, wr, r, x, c, j)
    PROVE  ThreadsOK(t, m, th2, wr2)
<1>1. m = [m EXCEPT ![r] = m[r]]
  BY DEF ThreadsOK
<1>2. Stepped(m, th2, wr2, m, th, wr, r, m[r], x, c, j)
  BY <1>1 DEF Stepped, Moved
<1>3. ASSUME NEW d \in Handler \ {c}, Counting(wr[d]), wr[d].thread = r
      PROVE  ~m[r][wr[d].index].counted /\ (Counting(j) => wr[d].index # j.index)
  <2>1. wr[d] # Thread!Resting
    BY <1>3 DEF Counting, Thread!Resting
  <2> QED
    BY <1>3, <2>1 DEF ThreadsOK, HandlerOK
<1>4. Later(m[r], m[r])
  BY DEF Later
<1> QED
  BY <1>2, <1>3, <1>4, StepOK

\* The recipient's last push is looked at, and what the summary knows of.
LEMMA LookedOK ==
    ASSUME NEW s, NEW th, ConversationOK(s, th), NEW j \in Thread!Writing, HandlerOK(s, j),
           j.pc = "look", NEW k \in Thread!Writing, k.pc = "upsert", k.by = j.by, k.at = j.at,
           k.index = j.index, k.knew = IF k.push THEN CountedIn(s) ELSE {},
           k.push /\ th # Thread!NoThread =>
               \/ th.pushedAt[Thread!Other(j.by)] = Thread!Never
               \/ j.at - th.pushedAt[Thread!Other(j.by)] >= PushThrottle
    PROVE  HandlerOK(s, k)
<1>1. /\ Counting(j) /\ j.index \in DOMAIN s /\ s[j.index].by = j.by /\ s[j.index].at = j.at
      /\ ~s[j.index].counted
  BY DEF HandlerOK, Counting
<1>2. k.knew \subseteq CountedIn(s)
  OBVIOUS
<1>3. ASSUME k.push, NEW i \in k.knew, s[i].pushed, s[i].by = k.by,
             k.at - s[i].at \in 0 .. PushThrottle - 1
      PROVE  \E n \in k.knew : s[n].by = k.by /\ s[n].at < s[i].at
  <2>1. i \in DOMAIN s /\ k.knew = CountedIn(s)
    BY <1>2, <1>3 DEF CountedIn
  <2>2. /\ th \in Thread!Thread
        /\ \/ th.pushedAt[Thread!Other(s[i].by)] >= s[i].at
           \/ \E n \in CountedFrom(s, s[i].by) : s[n].at < s[i].at
    BY <1>3, <2>1 DEF ConversationOK
  <2>3. s[i] \in Thread!MessageRow
    BY <2>1 DEF ConversationOK
  <2>4. s[i].at \in Nat /\ k.at \in Int /\ s[i].by \in Thread!Party
    BY <2>3 DEF Thread!MessageRow, Thread!Writing, Thread!Time
  <2>5. th.pushedAt[Thread!Other(s[i].by)] \in Int
    BY <2>2, <2>4, Others DEF Thread!Thread, Thread!Time, Thread!Never
  <2>6. CASE th.pushedAt[Thread!Other(s[i].by)] >= s[i].at
    BY <1>3, <2>2, <2>4, <2>5, <2>6, SummaryIsOne, LimitAssumption DEF Thread!Never
  <2>7. CASE \E n \in CountedFrom(s, s[i].by) : s[n].at < s[i].at
    BY <1>3, <2>1, <2>7 DEF CountedFrom
  <2> QED
    BY <2>2, <2>6, <2>7
<1> QED
  BY <1>1, <1>2, <1>3 DEF HandlerOK, Counting

\* A page of the first messages.
LEMMA FoundOK ==
    ASSUME NEW s \in Seq(Thread!MessageRow), NEW j, j.pc = "mark", j.present = DOMAIN s,
           NEW at, at = [i \in DOMAIN s |-> s[i].at],
           j.shown \in Thread!Oldest(DOMAIN s, at, MessageLimit)
    PROVE  HandlerOK(s, j)
<1>1. /\ j.shown \subseteq DOMAIN s
      /\ Cardinality(j.shown) = IF Cardinality(DOMAIN s) < MessageLimit
                                THEN Cardinality(DOMAIN s) ELSE MessageLimit
      /\ \A i \in j.shown, k \in DOMAIN s \ j.shown : at[i] <= at[k]
  BY SameCount DEF Thread!Oldest
<1>2. IsFiniteSet(DOMAIN s)
  BY MessagesFinite
<1>3. ASSUME NEW i \in DOMAIN s \ j.shown
      PROVE  /\ Cardinality(j.shown) = MessageLimit
             /\ \A k \in j.shown : s[k].at <= s[i].at
  <2>1. Cardinality(j.shown) # Cardinality(DOMAIN s)
    BY <1>1, <1>2, <1>3, FS_Subset
  <2> QED
    BY <1>1, <1>3, <2>1
<1> QED
  BY <1>1, <1>3 DEF HandlerOK, Counting

\* Reading a conversation changes what is unread of it only.
LEMMA ReadSummary ==
    ASSUME NEW s, NEW th \in Thread!Thread, ConversationOK(s, th), NEW p \in Thread!Party,
           NEW x, x = [th EXCEPT !.unread[p] = 0]
    PROVE  ConversationOK(s, x)
<1>1. /\ x.pushedAt = th.pushedAt /\ x.unread = [th.unread EXCEPT ![p] = 0]
      /\ x = [unread |-> x.unread, pushedAt |-> x.pushedAt]
      /\ th.unread \in [Thread!Party -> Nat]
      /\ th.pushedAt \in [Thread!Party -> Thread!Time \union {Thread!Never}]
  BY DEF Thread!Thread
<1>2. x \in Thread!Thread
  <2>1. x.unread \in [Thread!Party -> Nat]
    BY <1>1
  <2> QED
    BY <1>1, <2>1 DEF Thread!Thread
<1>3. x # Thread!NoThread /\ th # Thread!NoThread
  BY <1>2, SummaryIsOne
<1>4. \A q \in Thread!Party : x.unread[q] <= Cardinality(CountedFrom(s, Thread!Other(q)))
  <2> SUFFICES ASSUME NEW q \in Thread!Party
               PROVE  x.unread[q] <= Cardinality(CountedFrom(s, Thread!Other(q)))
    OBVIOUS
  <2>1. th.unread[q] <= Cardinality(CountedFrom(s, Thread!Other(q)))
    BY <1>3 DEF ConversationOK
  <2>2. Cardinality(CountedFrom(s, Thread!Other(q))) \in Nat
    BY CountedFinite DEF ConversationOK
  <2> QED
    BY <1>1, <2>1, <2>2
<1> QED
  BY <1>1, <1>2, <1>3, <1>4 DEF ConversationOK

-----------------------------------------------------------------------------
\* The actions, from the values of the variables to those of the next state.

LEMMA ThreadsInit == Thread!Init => ThreadsInv
<1> SUFFICES ASSUME Thread!Init PROVE ThreadsInv
  OBVIOUS
<1>1. PICK t, m, th, wr : t = now /\ m = messages /\ th = threads /\ wr = writing
  OBVIOUS
<1>2. /\ t = 0 /\ m = [r \in Requester |-> << >>]
      /\ th = [r \in Requester |-> Thread!NoThread]
      /\ wr = [c \in Handler |-> Thread!Resting]
  BY <1>1 DEF Thread!Init
<1>3. ASSUME NEW r \in Requester PROVE ConversationOK(m[r], th[r])
  <2>1. m[r] = << >> /\ th[r] = Thread!NoThread
    BY <1>2
  <2>2. << >> \in Seq(Thread!MessageRow) /\ DOMAIN << >> = {}
    OBVIOUS
  <2> QED
    BY <2>1, <2>2 DEF ConversationOK
<1>4. /\ m \in [Requester -> Seq(Thread!MessageRow)]
      /\ th \in [Requester -> Thread!Thread \union {Thread!NoThread}]
      /\ wr \in [Handler -> Thread!Writing \union Thread!Reading \union {Thread!Resting}]
      /\ t \in Thread!Time
  BY <1>2, LimitAssumption DEF Thread!Time
<1>5. \A c \in Handler : wr[c] = Thread!Resting /\ ~Counting(wr[c])
  BY <1>2 DEF Counting, Thread!Resting
<1>6. ThreadsOK(t, m, th, wr)
  BY <1>3, <1>4, <1>5 DEF ThreadsOK
<1> QED
  BY <1>1, <1>6 DEF ThreadsInv

\* The summary of a conversation does not change, and its handler starts or stops.
LEMMA HandlerStarts ==
    ASSUME NEW t, NEW m, NEW th, NEW wr, ThreadsOK(t, m, th, wr), NEW c \in Handler,
           NEW j \in Thread!Writing \union Thread!Reading \union {Thread!Resting},
           j.pc \in {"save", "find"} \/ (j = Thread!Resting /\ wr[c] # Thread!Resting),
           NEW wr2, wr2 = [wr EXCEPT ![c] = j]
    PROVE  ThreadsOK(t, m, th, wr2)
<1>1. PICK r \in Requester : j # Thread!Resting => j.thread = r
  BY HandlerKinds DEF ThreadsOK
<1>2. ~Counting(j) /\ (j # Thread!Resting => HandlerOK(m[r], j))
  BY DEF Counting, HandlerOK, Thread!Resting
<1>3. Moved(th, wr2, th, wr, r, th[r], c, j) /\ ConversationOK(m[r], th[r])
  BY DEF ThreadsOK, Moved
<1> QED
  BY <1>1, <1>2, <1>3, HandlerMoves

LEMMA SaveOK ==
    ASSUME NEW t, NEW m, NEW th, NEW wr, ThreadsOK(t, m, th, wr), NEW c \in Handler,
           wr[c].pc = "save", NEW m2, NEW wr2,
           m2 = [m EXCEPT ![wr[c].thread] =
                    Append(@, [by |-> wr[c].by, at |-> wr[c].at, counted |-> FALSE,
                               pushed |-> FALSE, knew |-> {}])],
           wr2 = [wr EXCEPT ![c] =
                    [wr[c] EXCEPT !.pc = "look", !.index = Len(m[wr[c].thread]) + 1]]
    PROVE  ThreadsOK(t, m2, th, wr2)
<1>1. PICK k : k = wr[c]
  OBVIOUS
<1>2. PICK r, s : r = k.thread /\ s = m[r]
  OBVIOUS
<1> DEFINE row == [by |-> k.by, at |-> k.at, counted |-> FALSE, pushed |-> FALSE, knew |-> {}]
           j == [k EXCEPT !.pc = "look", !.index = Len(s) + 1]
<1>3. k \in Thread!Writing
  BY <1>1, HandlerKinds DEF ThreadsOK
<1>4. r \in Requester /\ s \in Seq(Thread!MessageRow) /\ ConversationOK(s, th[r])
  BY <1>2, <1>3 DEF ThreadsOK, Thread!Writing
<1>5. /\ row \in Thread!MessageRow /\ ~row.counted /\ ~row.pushed /\ row.knew = {}
      /\ row.by = k.by /\ row.at = k.at
  BY <1>3 DEF Thread!Writing, Thread!MessageRow
<1>6. /\ j \in Thread!Writing /\ j.pc = "look" /\ j.index = Len(s) + 1 /\ j.thread = r
      /\ j.by = k.by /\ j.at = k.at
  <2>1. Len(s) + 1 \in Nat
    BY <1>4
  <2>2. r = k.thread
    BY <1>2
  <2> QED
    BY <1>3, <2>1, <2>2 DEF Thread!Writing
<1>7. PICK u : u = Append(s, row)
  OBVIOUS
<1>8. /\ m2 = [m EXCEPT ![r] = u] /\ wr2 = [wr EXCEPT ![c] = j]
      /\ th = [th EXCEPT ![r] = th[r]]
  BY <1>1, <1>2, <1>7 DEF ThreadsOK
<1> HIDE DEF row, j
<1>9. /\ ConversationOK(u, th[r]) /\ Later(s, u) /\ j.index \in DOMAIN u
      /\ j.index \notin DOMAIN s /\ u[j.index] = row
      /\ \A i \in DOMAIN s : u[i] = s[i]
  BY <1>4, <1>5, <1>6, <1>7, ConversationGrows
<1>10. HandlerOK(u, j)
  BY <1>5, <1>6, <1>9 DEF HandlerOK, Counting
<1>11. ASSUME NEW d \in Handler \ {c}, Counting(wr[d]), wr[d].thread = r
       PROVE  ~u[wr[d].index].counted /\ wr[d].index # j.index
  <2>1. wr[d] # Thread!Resting
    BY <1>11 DEF Counting, Thread!Resting
  <2>2. wr[d].index \in DOMAIN s /\ ~s[wr[d].index].counted
    BY <1>2, <1>11, <2>1 DEF ThreadsOK, HandlerOK
  <2> QED
    BY <1>9, <2>2
<1>12. Stepped(m2, th, wr2, m, th, wr, r, u, th[r], c, j) /\ Later(m[r], u)
  BY <1>2, <1>8, <1>9 DEF Stepped
<1> QED
  BY <1>4, <1>6, <1>9, <1>10, <1>11, <1>12, StepOK

\* What an upsert of j makes of its messages.
CountedBy(s, j) ==
    [i \in DOMAIN s |-> IF i = j.index
                        THEN [s[i] EXCEPT !.counted = TRUE, !.pushed = j.push, !.knew = j.knew]
                        ELSE s[i]]

LEMMA UpsertOK ==
    ASSUME NEW t, NEW m, NEW th, NEW wr, ThreadsOK(t, m, th, wr), NEW c \in Handler,
           wr[c].pc = "upsert", NEW m2, NEW th2, NEW wr2,
           m2 = [m EXCEPT ![wr[c].thread] = CountedBy(@, wr[c])],
           th2 = [th EXCEPT ![wr[c].thread] = Thread!Updated(@, wr[c])],
           wr2 = [wr EXCEPT ![c] = Thread!Resting]
    PROVE  ThreadsOK(t, m2, th2, wr2)
<1>1. PICK k : k = wr[c]
  OBVIOUS
<1>2. PICK r, s : r = k.thread /\ s = m[r]
  OBVIOUS
<1>3. k \in Thread!Writing /\ k # Thread!Resting
  BY <1>1, HandlerKinds DEF ThreadsOK, Thread!Resting
<1>4. r \in Requester /\ s \in Seq(Thread!MessageRow) /\ ConversationOK(s, th[r])
  BY <1>2, <1>3 DEF ThreadsOK, Thread!Writing
<1>5. HandlerOK(s, k) /\ k.pc = "upsert" /\ k.index \in DOMAIN s
  BY <1>1, <1>2, <1>3 DEF ThreadsOK, HandlerOK, Counting
<1>6. PICK u : u = CountedBy(s, k)
  OBVIOUS
<1>7. \A i \in DOMAIN s : s[i] \in Thread!MessageRow
  BY <1>4
<1>8. u \in Seq(Thread!MessageRow) /\ Counts(u, s, k)
  <2>1. \A i \in DOMAIN s : u[i] \in Thread!MessageRow
    BY <1>3, <1>6, <1>7 DEF CountedBy, Thread!MessageRow, Thread!Writing
  <2>2. u = [i \in 1 .. Len(s) |-> u[i]] /\ Len(s) \in Nat /\ DOMAIN s = 1 .. Len(s)
    <3>1. Len(s) \in Nat /\ DOMAIN s = 1 .. Len(s)
      BY <1>4
    <3>2. u = [i \in DOMAIN s |-> u[i]]
      BY <1>6 DEF CountedBy
    <3> QED
      BY <3>1, <3>2
  <2>3. u \in Seq(Thread!MessageRow)
    BY <2>1, <2>2
  <2>4. /\ DOMAIN u = DOMAIN s /\ \A i \in DOMAIN s \ {k.index} : u[i] = s[i]
        /\ u[k.index] = [s[k.index] EXCEPT !.counted = TRUE, !.pushed = k.push, !.knew = k.knew]
    BY <1>5, <1>6 DEF CountedBy
  <2>5. LET row == u[k.index]
        IN  /\ row.by = s[k.index].by /\ row.at = s[k.index].at
            /\ row.counted /\ (row.pushed <=> k.push) /\ row.knew = k.knew
    BY <1>5, <1>7, <2>4 DEF Thread!MessageRow
  <2> QED
    BY <2>3, <2>4, <2>5 DEF Counts
<1>9. ConversationOK(u, Thread!Updated(th[r], k)) /\ Later(m[r], u)
  BY <1>2, <1>3, <1>4, <1>5, <1>8, ConversationCounted
<1>10. Stepped(m2, th2, wr2, m, th, wr, r, u, Thread!Updated(th[r], k), c, Thread!Resting)
  BY <1>1, <1>2, <1>6 DEF Stepped, ThreadsOK
<1>11. ASSUME NEW d \in Handler \ {c}, Counting(wr[d]), wr[d].thread = r
       PROVE  ~u[wr[d].index].counted
  <2>1. wr[d] # Thread!Resting
    BY <1>11 DEF Counting, Thread!Resting
  <2>2. wr[d].index \in DOMAIN s /\ ~s[wr[d].index].counted
    BY <1>2, <1>11, <2>1 DEF ThreadsOK, HandlerOK
  <2>3. wr[d].index # k.index
    BY <1>1, <1>2, <1>5, <1>11 DEF ThreadsOK, Counting
  <2> QED
    BY <1>8, <2>2, <2>3 DEF Counts
<1>12. ~Counting(Thread!Resting)
  BY DEF Counting, Thread!Resting
<1> QED
  BY <1>4, <1>9, <1>10, <1>11, <1>12, StepOK

LEMMA LookOK ==
    ASSUME NEW t, NEW m, NEW th, NEW wr, ThreadsOK(t, m, th, wr), NEW c \in Handler,
           wr[c].pc = "look", NEW push \in BOOLEAN,
           LET thread == th[wr[c].thread]
           IN  push => Thread!Due(IF thread = Thread!NoThread THEN Thread!Never
                                  ELSE thread.pushedAt[Thread!Other(wr[c].by)], wr[c].at),
           NEW wr2,
           wr2 = [wr EXCEPT ![c] =
                    [wr[c] EXCEPT !.pc = "upsert", !.push = push,
                                  !.knew = IF push THEN CountedIn(m[wr[c].thread]) ELSE {}]]
    PROVE  ThreadsOK(t, m, th, wr2)
<1>1. PICK k : k = wr[c]
  OBVIOUS
<1>2. PICK r, s : r = k.thread /\ s = m[r]
  OBVIOUS
<1>3. k \in Thread!Writing /\ k # Thread!Resting
  BY <1>1, HandlerKinds DEF ThreadsOK, Thread!Resting
<1>4. /\ r \in Requester /\ s \in Seq(Thread!MessageRow) /\ ConversationOK(s, th[r])
      /\ HandlerOK(s, k) /\ k.pc = "look"
  BY <1>1, <1>2, <1>3 DEF ThreadsOK, Thread!Writing
<1> DEFINE j == [k EXCEPT !.pc = "upsert", !.push = push,
                          !.knew = IF push THEN CountedIn(s) ELSE {}]
<1>5. CountedIn(s) \subseteq Nat
  BY <1>4 DEF CountedIn
<1>6. /\ j \in Thread!Writing /\ j.pc = "upsert" /\ j.index = k.index /\ j.thread = r
      /\ j.by = k.by /\ j.at = k.at /\ j.push = push
      /\ j.knew = (IF push THEN CountedIn(s) ELSE {})
  BY <1>2, <1>3, <1>5 DEF Thread!Writing
<1>7. wr2 = [wr EXCEPT ![c] = j]
  BY <1>1, <1>2
<1> HIDE DEF j
<1>8. HandlerOK(s, j)
  <2>1. push /\ th[r] # Thread!NoThread =>
               \/ th[r].pushedAt[Thread!Other(k.by)] = Thread!Never
               \/ k.at - th[r].pushedAt[Thread!Other(k.by)] >= PushThrottle
    BY <1>1, <1>2 DEF Thread!Due
  <2> QED
    BY <1>3, <1>4, <1>6, <2>1, LookedOK
<1>9. Moved(th, wr2, th, wr, r, th[r], c, j)
  BY <1>7 DEF Moved, ThreadsOK
<1>10. Counting(j) => Counting(wr[c]) /\ wr[c].thread = r /\ wr[c].index = j.index
  BY <1>1, <1>2, <1>4, <1>6 DEF Counting
<1> QED
  BY <1>2, <1>4, <1>6, <1>8, <1>9, <1>10, HandlerMoves

LEMMA FindOK ==
    ASSUME NEW t, NEW m, NEW th, NEW wr, ThreadsOK(t, m, th, wr), NEW c \in Handler,
           wr[c].pc = "find", NEW at, at = [i \in DOMAIN m[wr[c].thread] |-> m[wr[c].thread][i].at],
           NEW shown \in Thread!Oldest(DOMAIN m[wr[c].thread], at, MessageLimit),
           NEW wr2,
           wr2 = [wr EXCEPT ![c] = [wr[c] EXCEPT !.pc = "mark", !.shown = shown,
                                                 !.present = DOMAIN m[wr[c].thread]]]
    PROVE  ThreadsOK(t, m, th, wr2)
<1>1. PICK k : k = wr[c]
  OBVIOUS
<1>2. PICK r, s : r = k.thread /\ s = m[r]
  OBVIOUS
<1>3. k \in Thread!Reading
  BY <1>1, HandlerKinds DEF ThreadsOK
<1>4. r \in Requester /\ s \in Seq(Thread!MessageRow) /\ ConversationOK(s, th[r])
  BY <1>2, <1>3 DEF ThreadsOK, Thread!Reading
<1> DEFINE j == [k EXCEPT !.pc = "mark", !.shown = shown, !.present = DOMAIN s]
<1>5. shown \subseteq DOMAIN s /\ DOMAIN s \subseteq Nat
  BY <1>1, <1>2, <1>4 DEF Thread!Oldest
<1>6. /\ j \in Thread!Reading /\ j.pc = "mark" /\ j.thread = r /\ j.shown = shown
      /\ j.present = DOMAIN s
  BY <1>2, <1>3, <1>5 DEF Thread!Reading
<1>7. wr2 = [wr EXCEPT ![c] = j]
  BY <1>1, <1>2
<1> HIDE DEF j
<1>8. HandlerOK(s, j)
  <2>1. PICK a : a = at
    OBVIOUS
  <2>2. a = [i \in DOMAIN s |-> s[i].at] /\ j.shown \in Thread!Oldest(DOMAIN s, a, MessageLimit)
    BY <1>1, <1>2, <1>6, <2>1
  <2> QED
    BY <1>4, <1>6, <2>2, FoundOK
<1>9. Moved(th, wr2, th, wr, r, th[r], c, j) /\ ~Counting(j)
  BY <1>6, <1>7 DEF Moved, ThreadsOK, Counting
<1> QED
  BY <1>2, <1>4, <1>6, <1>8, <1>9, HandlerMoves

LEMMA MarkOK ==
    ASSUME NEW t, NEW m, NEW th, NEW wr, ThreadsOK(t, m, th, wr), NEW c \in Handler,
           wr[c].pc = "mark", th[wr[c].thread] # Thread!NoThread, NEW th2, NEW wr2,
           th2 = [th EXCEPT ![wr[c].thread].unread[wr[c].by] = 0],
           wr2 = [wr EXCEPT ![c] = Thread!Resting]
    PROVE  ThreadsOK(t, m, th2, wr2)
<1>1. PICK k : k = wr[c]
  OBVIOUS
<1>2. PICK r : r = k.thread
  OBVIOUS
<1>3. k \in Thread!Reading
  BY <1>1, HandlerKinds DEF ThreadsOK
<1>4. /\ r \in Requester /\ ConversationOK(m[r], th[r]) /\ th[r] \in Thread!Thread
      /\ k.by \in Thread!Party
  BY <1>1, <1>2, <1>3 DEF ThreadsOK, Thread!Reading
<1>5. PICK x : x = [th[r] EXCEPT !.unread[k.by] = 0]
  OBVIOUS
<1>6. ConversationOK(m[r], x)
  BY <1>4, <1>5, ReadSummary
<1>7. Moved(th2, wr2, th, wr, r, x, c, Thread!Resting)
  BY <1>1, <1>2, <1>5 DEF Moved
<1>8. ~Counting(Thread!Resting)
  BY DEF Counting, Thread!Resting
<1> QED
  BY <1>4, <1>6, <1>7, <1>8, HandlerMoves

LEMMA ThreadsNext == ThreadsInv /\ Thread!Next => ThreadsInv'
<1> SUFFICES ASSUME ThreadsInv, Thread!Next PROVE ThreadsInv'
  OBVIOUS
<1>1. PICK t, m, th, wr : /\ t = now /\ m = messages /\ th = threads /\ wr = writing
                          /\ ThreadsOK(t, m, th, wr)
  BY DEF ThreadsInv
<1>2. PICK t2, m2, th2, wr2 : /\ t2 = now' /\ m2 = messages' /\ th2 = threads'
                              /\ wr2 = writing'
  OBVIOUS
<1>3. SUFFICES ThreadsOK(t2, m2, th2, wr2)
  BY <1>2 DEF ThreadsInv
<1>4. t \in Thread!Time
  BY <1>1 DEF ThreadsOK
<1>5. ASSUME NEW c \in Handler, NEW r \in Requester, NEW p \in Thread!Party,
             Thread!Request(c, r) \/ Thread!Write(c, r, p)
      PROVE  ThreadsOK(t2, m2, th2, wr2)
  <2>1. PICK j : /\ j \in {Thread!Prepared(r, "requester", TRUE), Thread!Prepared(r, p, FALSE)}
                 /\ wr2 = [wr EXCEPT ![c] = j] /\ t2 = t /\ m2 = m /\ th2 = th
    BY <1>1, <1>2, <1>5 DEF Thread!Request, Thread!Write, Thread!Seeing
  <2>2. LET k == Thread!Prepared(r, p, FALSE) IN k \in Thread!Writing /\ k.pc = "save"
    BY <1>1, <1>4 DEF Thread!Prepared, Thread!Writing
  <2>3. LET k == Thread!Prepared(r, "requester", TRUE)
        IN  k \in Thread!Writing /\ k.pc = "save"
    BY <1>1, <1>4, Others DEF Thread!Prepared, Thread!Writing
  <2>4. j \in Thread!Writing /\ j.pc = "save"
    BY <2>1, <2>2, <2>3
  <2> QED
    BY <1>1, <2>1, <2>4, HandlerStarts
<1>6. ASSUME NEW c \in Handler, NEW r \in Requester, NEW p \in Thread!Party, Thread!Read(c, r, p)
      PROVE  ThreadsOK(t2, m2, th2, wr2)
  <2>1. PICK j : /\ j = [pc |-> "find", thread |-> r, by |-> p, present |-> {}, shown |-> {}]
                 /\ wr2 = [wr EXCEPT ![c] = j] /\ t2 = t /\ m2 = m /\ th2 = th
    BY <1>1, <1>2, <1>6 DEF Thread!Read, Thread!Seeing
  <2>2. j \in Thread!Reading /\ j.pc = "find"
    BY <2>1 DEF Thread!Reading
  <2> QED
    BY <1>1, <2>1, <2>2, HandlerStarts
<1>7. ASSUME NEW c \in Handler, Thread!Abort(c) PROVE ThreadsOK(t2, m2, th2, wr2)
  <2>1. /\ wr2 = [wr EXCEPT ![c] = Thread!Resting] /\ wr[c] # Thread!Resting
        /\ t2 = t /\ m2 = m /\ th2 = th
    BY <1>1, <1>2, <1>7 DEF Thread!Abort, Thread!Rest
  <2> QED
    BY <1>1, <2>1, HandlerStarts
<1>8. ASSUME NEW c \in Handler, Thread!Save(c) PROVE ThreadsOK(t2, m2, th2, wr2)
  <2>1. /\ wr[c].pc = "save" /\ t2 = t /\ th2 = th
        /\ m2 = [m EXCEPT ![wr[c].thread] =
                    Append(@, [by |-> wr[c].by, at |-> wr[c].at, counted |-> FALSE,
                               pushed |-> FALSE, knew |-> {}])]
        /\ wr2 = [wr EXCEPT ![c] =
                    [wr[c] EXCEPT !.pc = "look", !.index = Len(m[wr[c].thread]) + 1]]
    BY <1>1, <1>2, <1>8 DEF Thread!Save, Thread!Seeing
  <2> QED
    BY <1>1, <2>1, SaveOK
<1>9. ASSUME NEW c \in Handler, Thread!Look(c) PROVE ThreadsOK(t2, m2, th2, wr2)
  <2>1. PICK push \in BOOLEAN :
          /\ wr[c].pc = "look" /\ t2 = t /\ m2 = m /\ th2 = th
          /\ LET thread == th[wr[c].thread]
             IN  push => Thread!Due(IF thread = Thread!NoThread THEN Thread!Never
                                    ELSE thread.pushedAt[Thread!Other(wr[c].by)], wr[c].at)
          /\ wr2 = [wr EXCEPT ![c] =
                    [wr[c] EXCEPT !.pc = "upsert", !.push = push,
                                  !.knew = IF push THEN CountedIn(m[wr[c].thread]) ELSE {}]]
    BY <1>1, <1>2, <1>9 DEF Thread!Look, Thread!Seeing, Thread!Looked, Thread!Stored, CountedIn
  <2> QED
    BY <1>1, <2>1, LookOK
<1>10. ASSUME NEW c \in Handler, Thread!Upsert(c) PROVE ThreadsOK(t2, m2, th2, wr2)
  <2>1. /\ wr[c].pc = "upsert" /\ t2 = t
        /\ m2 = [m EXCEPT ![wr[c].thread] = CountedBy(@, wr[c])]
        /\ th2 = [th EXCEPT ![wr[c].thread] = Thread!Updated(@, wr[c])]
        /\ wr2 = [wr EXCEPT ![c] = Thread!Resting]
    BY <1>1, <1>2, <1>10 DEF Thread!Upsert, Thread!Rest, CountedBy
  <2> QED
    BY <1>1, <2>1, UpsertOK
<1>11. ASSUME NEW c \in Handler, Thread!Find(c) PROVE ThreadsOK(t2, m2, th2, wr2)
  <2>1. PICK at, shown :
          /\ wr[c].pc = "find" /\ t2 = t /\ m2 = m /\ th2 = th
          /\ at = [i \in DOMAIN m[wr[c].thread] |-> m[wr[c].thread][i].at]
          /\ shown \in Thread!Oldest(DOMAIN m[wr[c].thread], at, MessageLimit)
          /\ wr2 = [wr EXCEPT ![c] = [wr[c] EXCEPT !.pc = "mark", !.shown = shown,
                                                   !.present = DOMAIN m[wr[c].thread]]]
    <3>1. PICK at : at = [i \in DOMAIN m[wr[c].thread] |-> m[wr[c].thread][i].at]
      OBVIOUS
    <3>2. PICK shown \in Thread!Oldest(DOMAIN m[wr[c].thread], at, MessageLimit) :
            writing' = [writing EXCEPT ![c] =
                          [writing[c] EXCEPT !.pc = "mark",
                             !.present = DOMAIN messages[writing[c].thread], !.shown = shown]]
      BY <1>1, <1>11, <3>1 DEF Thread!Find, Thread!Seeing, Thread!Stored
    <3>3. wr2 = [wr EXCEPT ![c] = [wr[c] EXCEPT !.pc = "mark", !.shown = shown,
                                                !.present = DOMAIN m[wr[c].thread]]]
      BY <1>1, <1>2, <3>2
    <3>4. wr[c].pc = "find" /\ t2 = t /\ m2 = m /\ th2 = th
      BY <1>1, <1>2, <1>11 DEF Thread!Find
    <3> QED
      BY <3>1, <3>3, <3>4
  <2> QED
    BY <1>1, <2>1, FindOK
<1>12. ASSUME NEW c \in Handler, Thread!Mark(c) PROVE ThreadsOK(t2, m2, th2, wr2)
  <2>1. /\ wr[c].pc = "mark" /\ t2 = t /\ m2 = m
        /\ wr2 = [wr EXCEPT ![c] = Thread!Resting]
        /\ \/ th2 = th
           \/ /\ th[wr[c].thread] # Thread!NoThread
              /\ th2 = [th EXCEPT ![wr[c].thread].unread[wr[c].by] = 0]
    BY <1>1, <1>2, <1>12 DEF Thread!Mark, Thread!Rest
  <2>2. wr[c] # Thread!Resting
    BY <2>1 DEF Thread!Resting
  <2>3. CASE th2 = th
    BY <1>1, <2>1, <2>2, <2>3, HandlerStarts
  <2>4. CASE /\ th[wr[c].thread] # Thread!NoThread
             /\ th2 = [th EXCEPT ![wr[c].thread].unread[wr[c].by] = 0]
    BY <1>1, <2>1, <2>4, MarkOK
  <2> QED
    BY <2>1, <2>3, <2>4
<1>13. ASSUME Thread!End \/ Thread!Tick \/ \E r \in Requester : Thread!Release(r)
       PROVE  ThreadsOK(t2, m2, th2, wr2)
  <2>1. /\ t2 \in Thread!Time /\ m2 = m /\ th2 = th /\ wr2 = wr
    BY <1>1, <1>2, <1>4, <1>13, LimitAssumption
       DEF Thread!End, Thread!Tick, Thread!Release, Thread!threadVars, Thread!Time
  <2> QED
    BY <1>1, <2>1 DEF ThreadsOK
<1> QED
  BY <1>5, <1>6, <1>7, <1>8, <1>9, <1>10, <1>11, <1>12, <1>13, Others DEF Thread!Next

LEMMA ThreadsAlways == ServicesSpec => []ThreadsInv
<1>1. ServicesInit => ThreadsInv
  BY ThreadsInit DEF ServicesInit
<1>2. ThreadsInv /\ [ServicesNext]_vars => ThreadsInv'
  <2>1. ThreadsInv /\ UNCHANGED threadVars => ThreadsInv'
    BY DEF ThreadsInv, threadVars
  <2> QED
    BY <2>1, ThreadsNext, StepsApart
<1> QED
  BY <1>1, <1>2, PTL DEF ServicesSpec

\* The unread number of a party never exceeds the stored messages of the other, wherever
\* handlers stopped or overlapped (createMessage, appendThreadMessage, markThreadRead).
THEOREM UnreadBackedCorrect == ServicesSpec => []UnreadBacked
<1>1. ThreadsInv => UnreadBacked
  <2> SUFFICES ASSUME ThreadsInv, NEW r \in Requester, threads[r] # Thread!NoThread,
                      NEW p \in Thread!Party
               PROVE  threads[r].unread[p]
                        <= Cardinality({i \in DOMAIN messages[r] :
                                            messages[r][i].by = Thread!Other(p)})
    BY SameCount DEF UnreadBacked, Thread!UnreadBacked, Thread!Stored
  <2>1. PICK s, th : s = messages[r] /\ th = threads[r] /\ ConversationOK(s, th)
    BY DEF ThreadsInv, ThreadsOK
  <2> DEFINE T == {i \in DOMAIN s : s[i].by = Thread!Other(p)}
  <2>2. IsFiniteSet(T) /\ Cardinality(T) \in Nat
    <3>1. s \in Seq(Thread!MessageRow)
      BY <2>1 DEF ConversationOK
    <3>2. IsFiniteSet(DOMAIN s)
      BY <3>1, MessagesFinite
    <3> QED
      BY <3>2, FS_Subset, FS_CardinalityType
  <2>3. Cardinality(CountedFrom(s, Thread!Other(p))) <= Cardinality(T)
    <3>1. CountedFrom(s, Thread!Other(p)) \subseteq T
      BY DEF CountedFrom, CountedIn
    <3> QED
      BY <2>2, <3>1, FS_Subset
  <2>4. th \in Thread!Thread /\ th.unread[p] <= Cardinality(CountedFrom(s, Thread!Other(p)))
    BY <2>1 DEF ConversationOK
  <2>5. th.unread[p] \in Nat /\ Cardinality(CountedFrom(s, Thread!Other(p))) \in Nat
    BY <2>1, <2>4, CountedFinite DEF Thread!Thread, ConversationOK
  <2>6. th.unread[p] <= Cardinality(T)
    BY <2>2, <2>3, <2>4, <2>5
  <2> QED
    BY <2>1, <2>6
<1> QED
  BY <1>1, ThreadsAlways, PTL

\* Two pushes of one author within the throttle come only from an overlap: the second
\* handler looked before the first was counted, or an older message was counted later
\* (appendThreadMessage).
THEOREM ThrottledCorrect == ServicesSpec => []ThrottledUnlessOverlap
<1>1. ThreadsInv => ThrottledUnlessOverlap
  <2> SUFFICES ASSUME ThreadsInv, NEW r \in Requester, NEW s, s = messages[r],
                      NEW i \in DOMAIN s, NEW k \in DOMAIN s,
                      s[i].pushed, s[k].pushed, s[i].by = s[k].by,
                      s[k].at - s[i].at \in 0 .. PushThrottle - 1, i \in s[k].knew
               PROVE  \E m \in s[k].knew : s[m].by = s[i].by /\ s[m].at < s[i].at
    BY DEF ThrottledUnlessOverlap, Thread!ThrottledUnlessOverlap, Thread!Stored
  <2>1. PICK th : ConversationOK(s, th)
    BY DEF ThreadsInv, ThreadsOK
  <2>2. Excused(s, i, k)
    BY <2>1 DEF ConversationOK
  <2> QED
    BY <2>2 DEF Excused
<1> QED
  BY <1>1, ThreadsAlways, PTL

\* Marking a conversation as read hides no message that its reader could have been shown:
\* only later ones, or those beyond a full page (findMessages, markThreadRead).
THEOREM ReadHidesCorrect == ServicesSpec => ReadHidesOnlyLate
<1>1. ThreadsInv =>
         \A c \in Handler :
            writing[c].pc = "mark" =>
               \A i \in DOMAIN messages[writing[c].thread] :
                  \/ i \in writing[c].shown
                  \/ i \notin writing[c].present
                  \/ /\ Cardinality(writing[c].shown) = MessageLimit
                     /\ \A k \in writing[c].shown : messages[writing[c].thread][k].at
                                                    <= messages[writing[c].thread][i].at
  <2> SUFFICES ASSUME ThreadsInv, NEW c \in Handler, writing[c].pc = "mark"
               PROVE  \A i \in DOMAIN messages[writing[c].thread] :
                        \/ i \in writing[c].shown
                        \/ i \notin writing[c].present
                        \/ /\ Cardinality(writing[c].shown) = MessageLimit
                           /\ \A k \in writing[c].shown : messages[writing[c].thread][k].at
                                                          <= messages[writing[c].thread][i].at
    OBVIOUS
  <2>1. HandlerOK(messages[writing[c].thread], writing[c])
    BY DEF ThreadsInv, ThreadsOK, Thread!Resting
  <2> QED
    BY <2>1 DEF HandlerOK
<1>2. ThreadsInv /\ [ServicesNext]_vars =>
         [\A c \in Handler :
            LET j == writing[c]
                stored == messages[j.thread]
            IN  j.pc = "mark" /\ writing'[c] = Thread!Resting /\ threads' # threads =>
                  \A i \in DOMAIN stored :
                      stored[i].by = Thread!Other(j.by) /\ stored[i].counted =>
                          \/ i \in j.shown
                          \/ i \notin j.present
                          \/ /\ Thread!Cardinality(j.shown) = MessageLimit
                             /\ \A k \in j.shown : stored[k].at <= stored[i].at]_<<now, Thread!threadVars>>
  BY <1>1, SameCount
<1> QED
  BY <1>2, ThreadsAlways, PTL DEF ServicesSpec, ReadHidesOnlyLate, Thread!ReadHidesOnlyLate

-----------------------------------------------------------------------------
\* Daily credits

\* The tellers that a tale w of them has for credits of kind k on day d, and on days before.
AskedOn(w, k, d) == {t \in Handler : w[t].for = k /\ w[t].day = d}
AskedBefore(w, k, d) == {t \in Handler : w[t].for = k /\ w[t].day < d}

\* Teller t is free in v, as it is not in w; and what it asked for in w.
Freed(v, w, t) == v = [w EXCEPT ![t] = Credits!Free]
AsksFor(w, t, k, d) == w[t].for = k /\ w[t].day = d

\* Where day d stands when it is `day`, with n tellers of which `old` are behind it and `cur`
\* on it, with c credits given and the last credit on day `last`, the `used`-th of its count of L.
\* While the day lasts, each teller behind it can set the count back once; afterwards, the
\* tellers still on it can pass the count once each, unless it is full and they are all.
Ledger(d, day, last, used, L, n, c, old, cur) ==
    /\ d > day => c = 0 /\ cur = 0 /\ last < d
    /\ d = day => /\ c = 0 => last # d
                  /\ c > 0 => c + L * old + (IF last = d THEN L - used ELSE L) <= L * n
    /\ d < day => \/ c + cur <= L * n + n - 1
                  \/ last = d /\ used = L /\ cur = n /\ c = L * n

\* A credit of the day itself, by one of its tellers.
LEMMA LedgerCredited ==
    ASSUME NEW d \in Nat, NEW day \in Nat, NEW last \in Int, NEW L \in Nat \ {0},
           NEW used \in 0 .. L, NEW n \in Nat \ {0}, NEW c \in Nat, NEW old \in 0 .. n - 1,
           NEW cur \in 1 .. n, d <= day, last # d \/ used < L,
           Ledger(d, day, last, used, L, n, c, old, cur)
    PROVE  Ledger(d, day, d, IF last = d THEN used + 1 ELSE 1, L, n, c + 1, old, cur - 1)
<1>1. CASE d = day
  <2>1. L * old + L <= L * n
    <3>1. L * (old + 1) <= L * n /\ L * (old + 1) = L * old + L
      OBVIOUS
    <3> QED
      BY <3>1
  <2>2. L * old \in Nat /\ L * n \in Nat
    OBVIOUS
  <2> QED
    BY <1>1, <2>1, <2>2 DEF Ledger
<1>2. CASE d < day
  <2>1. L * n \in Nat
    OBVIOUS
  <2> QED
    BY <1>2, <2>1 DEF Ledger
<1> QED
  BY <1>1, <1>2

\* A credit of another day that has come, by a teller that is then free.
LEMMA LedgerSetBack ==
    ASSUME NEW d \in Nat, NEW day \in Nat, NEW last \in Int, NEW L \in Nat \ {0},
           NEW used \in 0 .. L, NEW n \in Nat \ {0}, NEW c \in Nat, NEW old \in 0 .. n,
           NEW cur \in 0 .. n - 1, NEW other \in Nat, other # d, other <= day,
           NEW used2, NEW old2 \in Nat, other < d => old2 + 1 = old,
           Ledger(d, day, last, used, L, n, c, old, cur)
    PROVE  Ledger(d, day, other, used2, L, n, c, old2, cur)
<1>1. CASE d = day
  <2>1. L * (old2 + 1) = L * old2 + L /\ old = old2 + 1
    BY <1>1
  <2>2. L * old2 \in Nat /\ L * old \in Nat /\ L * n \in Nat
    OBVIOUS
  <2>3. L * old = L * old2 + L
    BY <2>1
  <2> QED
    BY <1>1, <2>2, <2>3 DEF Ledger
<1>2. CASE d # day
  BY <1>2 DEF Ledger
<1> QED
  BY <1>1, <1>2

\* Tellers come and go without a credit.
LEMMA LedgerLeft ==
    ASSUME NEW d \in Nat, NEW day \in Nat, NEW last \in Int, NEW L \in Nat \ {0},
           NEW used \in 0 .. L, NEW n \in Nat \ {0}, NEW c \in Nat, NEW old \in 0 .. n,
           NEW cur \in 0 .. n, NEW old2 \in 0 .. n, NEW cur2 \in 0 .. n,
           d = day => old2 <= old,
           d < day => cur2 = cur \/ (cur2 <= cur /\ cur2 < n),
           d > day => cur2 = 0,
           Ledger(d, day, last, used, L, n, c, old, cur)
    PROVE  Ledger(d, day, last, used, L, n, c, old2, cur2)
<1>1. CASE d = day
  <2>1. L * old2 <= L * old
    BY <1>1
  <2>2. L * old2 \in Nat /\ L * old \in Nat /\ L * n \in Nat
    OBVIOUS
  <2> QED
    BY <1>1, <2>1, <2>2 DEF Ledger
<1>2. CASE d < day
  <2>1. L * n \in Nat
    OBVIOUS
  <2> QED
    BY <1>2, <2>1 DEF Ledger
<1>3. CASE d > day
  BY <1>3 DEF Ledger
<1> QED
  BY <1>1, <1>2, <1>3

\* The next day begins.
LEMMA LedgerMidnight ==
    ASSUME NEW d \in Nat, NEW day \in Nat, NEW last \in Int, NEW L \in Nat \ {0},
           NEW used \in 0 .. L, NEW n \in Nat \ {0}, NEW c \in Nat, NEW old \in 0 .. n,
           NEW cur \in 0 .. n, Ledger(d, day, last, used, L, n, c, old, cur)
    PROVE  Ledger(d, day + 1, last, used, L, n, c, old, cur)
<1>1. L * old \in Nat /\ L * n \in Nat /\ L * n >= n
  OBVIOUS
<1>2. CASE d = day
  BY <1>1, <1>2 DEF Ledger
<1>3. CASE d = day + 1
  BY <1>3 DEF Ledger
<1>4. CASE d # day /\ d # day + 1
  BY <1>4 DEF Ledger
<1> QED
  BY <1>2, <1>3, <1>4

\* What the ledger says of the credits of a day.
LEMMA LedgerBound ==
    ASSUME NEW d \in Nat, NEW day \in Nat, NEW last \in Int, NEW L \in Nat \ {0},
           NEW used \in 0 .. L, NEW n \in Nat \ {0}, NEW c \in Nat, NEW old \in 0 .. n,
           NEW cur \in 0 .. n, Ledger(d, day, last, used, L, n, c, old, cur)
    PROVE  c <= L * n + (n - 1)
<1>1. L * old \in Nat /\ L * n \in Nat
  OBVIOUS
<1> QED
  BY <1>1 DEF Ledger

\* The ledgers of the days, of the values of the variables: so a step is one from values to
\* values.
CreditsOK(day, b, c, w) ==
    /\ day \in Credits!Day
    /\ b \in [attended : Int, tradeDay : Int, trades : 0 .. TradeLimit]
    /\ b.attended <= day /\ b.tradeDay <= day
    /\ c \in [Credits!Credit -> [Credits!Day -> Nat]]
    /\ w \in [Handler -> Credits!Asked \union {Credits!Free}]
    /\ \A t \in Handler : w[t] # Credits!Free => w[t].day <= day
    /\ \A d \in Credits!Day :
          /\ Ledger(d, day, b.attended, 1, 1, Cardinality(Handler), c["attendance"][d],
                    Cardinality(AskedBefore(w, "attendance", d)),
                    Cardinality(AskedOn(w, "attendance", d)))
          /\ Ledger(d, day, b.tradeDay, b.trades, TradeLimit, Cardinality(Handler),
                    c["trade"][d], Cardinality(AskedBefore(w, "trade", d)),
                    Cardinality(AskedOn(w, "trade", d)))

CreditsInv == \E day, b, c, w : /\ day = today /\ b = book /\ c = credited /\ w = tellers
                               /\ CreditsOK(day, b, c, w)

\* How many tellers there are, and how many of them ask.
LEMMA AskedCount ==
    ASSUME NEW w, NEW k, NEW d
    PROVE  /\ Cardinality(Handler) \in Nat \ {0}
           /\ IsFiniteSet(AskedOn(w, k, d)) /\ IsFiniteSet(AskedBefore(w, k, d))
           /\ Cardinality(AskedOn(w, k, d)) \in 0 .. Cardinality(Handler)
           /\ Cardinality(AskedBefore(w, k, d)) \in 0 .. Cardinality(Handler)
<1>1. AskedOn(w, k, d) \subseteq Handler /\ AskedBefore(w, k, d) \subseteq Handler
  BY DEF AskedOn, AskedBefore
<1> QED
  BY <1>1, HandlerAssumption, FS_Subset, FS_CardinalityType, FS_EmptySet

\* A teller on a day is not behind it, and when one does not ask for a credit, fewer than
\* all do.
LEMMA OthersAsked ==
    ASSUME NEW w, NEW k, NEW d, NEW t \in Handler
    PROVE  /\ t \notin AskedOn(w, k, d) =>
                 Cardinality(AskedOn(w, k, d)) \in 0 .. Cardinality(Handler) - 1
           /\ t \notin AskedBefore(w, k, d) =>
                 Cardinality(AskedBefore(w, k, d)) \in 0 .. Cardinality(Handler) - 1
<1>1. Cardinality(Handler \ {t}) = Cardinality(Handler) - 1 /\ IsFiniteSet(Handler \ {t})
  BY HandlerAssumption, FS_RemoveElement
<1>2. /\ t \notin AskedOn(w, k, d) => AskedOn(w, k, d) \subseteq Handler \ {t}
      /\ t \notin AskedBefore(w, k, d) => AskedBefore(w, k, d) \subseteq Handler \ {t}
  BY DEF AskedOn, AskedBefore
<1> QED
  BY <1>1, <1>2, FS_Subset, AskedCount, FS_CardinalityType

\* The counts when a teller is free again.
LEMMA FreedCount ==
    ASSUME NEW w \in [Handler -> Credits!Asked \union {Credits!Free}], NEW t \in Handler,
           NEW k \in Credits!Credit, NEW d \in Nat,
           NEW v, Freed(v, w, t)
    PROVE  /\ Cardinality(AskedOn(v, k, d)) =
                 (IF t \in AskedOn(w, k, d) THEN Cardinality(AskedOn(w, k, d)) - 1
                                        ELSE Cardinality(AskedOn(w, k, d)))
           /\ Cardinality(AskedBefore(v, k, d)) =
                 (IF t \in AskedBefore(w, k, d) THEN Cardinality(AskedBefore(w, k, d)) - 1
                                            ELSE Cardinality(AskedBefore(w, k, d)))
           /\ Cardinality(AskedOn(v, k, d)) \in 0 .. Cardinality(Handler) - 1
<1>1. k # Credits!Free.for
  BY DEF Credits!Free, Credits!Credit
<1>2. AskedOn(v, k, d) = AskedOn(w, k, d) \ {t}
  BY <1>1 DEF AskedOn, Freed
<1>3. AskedBefore(v, k, d) = AskedBefore(w, k, d) \ {t}
  BY <1>1 DEF AskedBefore, Freed
<1>4. t \notin AskedOn(v, k, d)
  BY <1>2
<1>5. /\ Cardinality(AskedOn(w, k, d)) \in Nat /\ Cardinality(AskedBefore(w, k, d)) \in Nat
      /\ IsFiniteSet(AskedOn(w, k, d)) /\ IsFiniteSet(AskedBefore(w, k, d))
  BY AskedCount
<1>6. /\ Cardinality(AskedOn(w, k, d) \ {t}) =
           (IF t \in AskedOn(w, k, d) THEN Cardinality(AskedOn(w, k, d)) - 1
                                      ELSE Cardinality(AskedOn(w, k, d)))
      /\ Cardinality(AskedBefore(w, k, d) \ {t}) =
           (IF t \in AskedBefore(w, k, d) THEN Cardinality(AskedBefore(w, k, d)) - 1
                                          ELSE Cardinality(AskedBefore(w, k, d)))
  BY <1>5, FS_RemoveElement
<1> QED
  BY <1>2, <1>3, <1>4, <1>6, OthersAsked

\* Ask, attempts that give no credit, and an abort.
LEMMA CreditsAsk ==
    ASSUME NEW day, NEW b, NEW c, NEW w, CreditsOK(day, b, c, w), NEW t \in Handler,
           NEW k \in Credits!Credit, w[t] = Credits!Free, NEW v,
           v = [w EXCEPT ![t] = [for |-> k, day |-> day]]
    PROVE  CreditsOK(day, b, c, v)
<1> DEFINE j == [for |-> k, day |-> day]
<1>1. j \in Credits!Asked /\ j.for = k /\ j.day = day /\ j # Credits!Free
  BY DEF CreditsOK, Credits!Asked, Credits!Free, Credits!Credit
<1>2. v = [w EXCEPT ![t] = j]
  OBVIOUS
<1> HIDE DEF j
<1>3. ASSUME NEW d \in Credits!Day, NEW kind \in Credits!Credit
      PROVE  /\ d # day => AskedOn(v, kind, d) = AskedOn(w, kind, d)
             /\ d <= day => AskedBefore(v, kind, d) = AskedBefore(w, kind, d)
  <2>1. w[t].for # kind
    BY DEF Credits!Free, Credits!Credit
  <2>2. \A s \in Handler : s # t => v[s] = w[s]
    BY <1>2 DEF CreditsOK
  <2>3. v[t] = j
    BY <1>2 DEF CreditsOK
  <2>4. d \in Nat /\ day \in Nat
    BY LimitAssumption DEF CreditsOK, Credits!Day
  <2> QED
    BY <1>1, <2>1, <2>2, <2>3, <2>4 DEF AskedOn, AskedBefore
<1>4. /\ v \in [Handler -> Credits!Asked \union {Credits!Free}]
      /\ \A s \in Handler : v[s] # Credits!Free => v[s].day <= day
  <2>1. day <= day
    BY LimitAssumption DEF CreditsOK, Credits!Day
  <2> QED
    BY <1>1, <1>2, <2>1 DEF CreditsOK
<1>5. ASSUME NEW d \in Credits!Day, NEW kind \in Credits!Credit, NEW last \in Int,
             NEW L \in Nat \ {0}, NEW used \in 0 .. L,
             Ledger(d, day, last, used, L, Cardinality(Handler), c[kind][d],
                    Cardinality(AskedBefore(w, kind, d)), Cardinality(AskedOn(w, kind, d)))
      PROVE  Ledger(d, day, last, used, L, Cardinality(Handler), c[kind][d],
                    Cardinality(AskedBefore(v, kind, d)), Cardinality(AskedOn(v, kind, d)))
  <2>1. /\ d \in Nat /\ day \in Nat /\ c[kind][d] \in Nat
    BY LimitAssumption DEF CreditsOK, Credits!Day
  <2>4. /\ d # day => AskedOn(v, kind, d) = AskedOn(w, kind, d)
        /\ d <= day => AskedBefore(v, kind, d) = AskedBefore(w, kind, d)
    BY <1>3
  <2>2. d > day => Cardinality(AskedOn(v, kind, d)) = 0
    <3>1. d > day => Cardinality(AskedOn(w, kind, d)) = 0
      BY <1>5 DEF Ledger
    <3> QED
      BY <2>1, <2>4, <3>1
  <2>3. /\ d = day => Cardinality(AskedBefore(v, kind, d)) <= Cardinality(AskedBefore(w, kind, d))
        /\ d < day => Cardinality(AskedOn(v, kind, d)) = Cardinality(AskedOn(w, kind, d))
    BY <2>1, <2>4, AskedCount
  <2> QED
    BY <1>5, <2>1, <2>2, <2>3, AskedCount, LedgerLeft
<1>6. /\ "attendance" \in Credits!Credit /\ "trade" \in Credits!Credit
      /\ 1 \in Nat \ {0} /\ 1 \in 0 .. 1 /\ TradeLimit \in Nat \ {0}
      /\ b.attended \in Int /\ b.tradeDay \in Int /\ b.trades \in 0 .. TradeLimit
  BY LimitAssumption DEF CreditsOK, Credits!Credit
<1>7. ASSUME NEW d \in Credits!Day
      PROVE  /\ Ledger(d, day, b.attended, 1, 1, Cardinality(Handler), c["attendance"][d],
                       Cardinality(AskedBefore(v, "attendance", d)),
                       Cardinality(AskedOn(v, "attendance", d)))
             /\ Ledger(d, day, b.tradeDay, b.trades, TradeLimit, Cardinality(Handler),
                       c["trade"][d], Cardinality(AskedBefore(v, "trade", d)),
                       Cardinality(AskedOn(v, "trade", d)))
  <2>1. /\ Ledger(d, day, b.attended, 1, 1, Cardinality(Handler), c["attendance"][d],
                  Cardinality(AskedBefore(w, "attendance", d)),
                  Cardinality(AskedOn(w, "attendance", d)))
        /\ Ledger(d, day, b.tradeDay, b.trades, TradeLimit, Cardinality(Handler),
                  c["trade"][d], Cardinality(AskedBefore(w, "trade", d)),
                  Cardinality(AskedOn(w, "trade", d)))
    BY DEF CreditsOK
  <2> QED
    BY <1>5, <1>6, <2>1
<1> QED
  BY <1>4, <1>7 DEF CreditsOK

\* A teller is free without a credit.
LEMMA FreedLedger ==
    ASSUME NEW day, NEW b, NEW c, NEW w, CreditsOK(day, b, c, w), NEW t \in Handler,
           NEW v, Freed(v, w, t),
           NEW d \in Credits!Day, NEW kind \in Credits!Credit, NEW last \in Int,
           NEW L \in Nat \ {0}, NEW used \in 0 .. L,
           Ledger(d, day, last, used, L, Cardinality(Handler), c[kind][d],
                  Cardinality(AskedBefore(w, kind, d)), Cardinality(AskedOn(w, kind, d)))
    PROVE  Ledger(d, day, last, used, L, Cardinality(Handler), c[kind][d],
                  Cardinality(AskedBefore(v, kind, d)), Cardinality(AskedOn(v, kind, d)))
<1>1. /\ d \in Nat /\ day \in Nat /\ c[kind][d] \in Nat
      /\ w \in [Handler -> Credits!Asked \union {Credits!Free}]
  BY LimitAssumption DEF CreditsOK, Credits!Day
<1> DEFINE n == Cardinality(Handler)
           old == Cardinality(AskedBefore(w, kind, d))
           cur == Cardinality(AskedOn(w, kind, d))
           old2 == Cardinality(AskedBefore(v, kind, d))
           cur2 == Cardinality(AskedOn(v, kind, d))
<1>2. /\ n \in Nat \ {0} /\ old \in 0 .. n /\ cur \in 0 .. n /\ old2 \in 0 .. n /\ cur2 \in 0 .. n
  BY AskedCount
<1>3. old2 \in {old, old - 1} /\ cur2 \in {cur, cur - 1} /\ cur2 \in 0 .. n - 1
  <2>1. /\ cur2 = (IF t \in AskedOn(w, kind, d) THEN cur - 1 ELSE cur)
        /\ old2 = (IF t \in AskedBefore(w, kind, d) THEN old - 1 ELSE old)
        /\ cur2 \in 0 .. n - 1
    BY <1>1, FreedCount
  <2> HIDE DEF n, old, cur, old2, cur2
  <2> QED
    BY <2>1
<1>4. Ledger(d, day, last, used, L, n, c[kind][d], old, cur)
  OBVIOUS
<1> HIDE DEF n, old, cur, old2, cur2
<1>5. d > day => cur = 0
  BY <1>4 DEF Ledger
<1>6. /\ d = day => old2 <= old
      /\ d < day => cur2 = cur \/ (cur2 <= cur /\ cur2 < n)
      /\ d > day => cur2 = 0
  BY <1>2, <1>3, <1>5
<1>7. Ledger(d, day, last, used, L, n, c[kind][d], old2, cur2)
  BY <1>1, <1>2, <1>4, <1>6, LedgerLeft
<1> QED
  BY <1>7 DEF n, old2, cur2

\* A teller is free and its day has one more credit.
LEMMA GivenLedger ==
    ASSUME NEW day, NEW b, NEW c, NEW w, CreditsOK(day, b, c, w), NEW t \in Handler,
           NEW v, Freed(v, w, t),
           NEW kind \in Credits!Credit, NEW e, AsksFor(w, t, kind, e), NEW last \in Int, NEW L \in Nat \ {0}, NEW used \in 0 .. L,
           last # e \/ used < L, NEW d \in Credits!Day,
           Ledger(d, day, last, used, L, Cardinality(Handler), c[kind][d],
                  Cardinality(AskedBefore(w, kind, d)), Cardinality(AskedOn(w, kind, d)))
    PROVE  Ledger(d, day, e, IF last = e THEN used + 1 ELSE 1, L, Cardinality(Handler),
                  IF d = e THEN c[kind][d] + 1 ELSE c[kind][d],
                  Cardinality(AskedBefore(v, kind, d)), Cardinality(AskedOn(v, kind, d)))
<1>1. /\ d \in Nat /\ day \in Nat /\ c[kind][d] \in Nat
      /\ w \in [Handler -> Credits!Asked \union {Credits!Free}]
  BY LimitAssumption DEF CreditsOK, Credits!Day
<1>2. e \in Nat /\ e <= day
  <2>1. w[t] # Credits!Free
    BY DEF Credits!Free, Credits!Credit, AsksFor
  <2> QED
    BY <1>1, <2>1, LimitAssumption DEF CreditsOK, Credits!Asked, Credits!Day, AsksFor
<1>3. t \in AskedOn(w, kind, d) <=> d = e
  BY DEF AskedOn, AsksFor
<1>4. t \in AskedBefore(w, kind, d) <=> e < d
  BY DEF AskedBefore, AsksFor
<1> DEFINE n == Cardinality(Handler)
           old == Cardinality(AskedBefore(w, kind, d))
           cur == Cardinality(AskedOn(w, kind, d))
           old2 == Cardinality(AskedBefore(v, kind, d))
           cur2 == Cardinality(AskedOn(v, kind, d))
<1>5. /\ n \in Nat \ {0} /\ old \in 0 .. n /\ cur \in 0 .. n /\ old2 \in 0 .. n /\ cur2 \in 0 .. n
  BY AskedCount
<1>6. /\ d = e => cur2 = cur - 1 /\ old2 = old
      /\ d # e => cur2 = cur
      /\ e < d => old2 = old - 1
  <2>1. /\ cur2 = (IF t \in AskedOn(w, kind, d) THEN cur - 1 ELSE cur)
        /\ old2 = (IF t \in AskedBefore(w, kind, d) THEN old - 1 ELSE old)
    BY <1>1, FreedCount
  <2> HIDE DEF n, old, cur, old2, cur2
  <2> QED
    BY <1>1, <1>2, <1>3, <1>4, <2>1
<1>7. Ledger(d, day, last, used, L, n, c[kind][d], old, cur)
  OBVIOUS
<1>8. /\ d # e => cur \in 0 .. n - 1
      /\ d = e => old \in 0 .. n - 1
  BY <1>2, <1>3, <1>4, OthersAsked
<1> HIDE DEF n, old, cur, old2, cur2
<1>9. CASE d = e
  <2>1. cur \in 1 .. n
    BY <1>5, <1>6, <1>9
  <2>2. last # d \/ used < L
    BY <1>9
  <2>3. Ledger(d, day, d, IF last = d THEN used + 1 ELSE 1, L, n, c[kind][d] + 1, old, cur - 1)
    BY <1>1, <1>2, <1>5, <1>7, <1>8, <1>9, <2>1, <2>2, LedgerCredited
  <2> QED
    BY <1>6, <1>9, <2>3 DEF n, old2, cur2
<1>10. CASE d # e
  <2>1. e < d => old2 + 1 = old
    BY <1>5, <1>6
  <2>2. old2 \in Nat
    BY <1>5
  <2>3. ASSUME NEW used2 PROVE Ledger(d, day, e, used2, L, n, c[kind][d], old2, cur)
    <3>1. old \in 0 .. n /\ cur \in 0 .. n - 1 /\ n \in Nat \ {0}
      BY <1>5, <1>8, <1>10
    <3> QED
      BY <1>1, <1>2, <1>7, <1>10, <2>1, <2>2, <3>1, LedgerSetBack
  <2> QED
    BY <1>6, <1>10, <2>3 DEF n, old2, cur2
<1> QED
  BY <1>9, <1>10

\* The ledger of day d for each kind of credit.
AttendanceLedger(day, b, c, w, d) ==
    Ledger(d, day, b.attended, 1, 1, Cardinality(Handler), c["attendance"][d],
           Cardinality(AskedBefore(w, "attendance", d)),
           Cardinality(AskedOn(w, "attendance", d)))
TradeLedger(day, b, c, w, d) ==
    Ledger(d, day, b.tradeDay, b.trades, TradeLimit, Cardinality(Handler), c["trade"][d],
           Cardinality(AskedBefore(w, "trade", d)), Cardinality(AskedOn(w, "trade", d)))

LEMMA CreditsNumbers ==
    ASSUME NEW day, NEW b, NEW c, NEW w, CreditsOK(day, b, c, w)
    PROVE  /\ "attendance" \in Credits!Credit /\ "trade" \in Credits!Credit
           /\ 1 \in Nat \ {0} /\ 1 \in 0 .. 1 /\ TradeLimit \in Nat \ {0}
           /\ b.attended \in Int /\ b.tradeDay \in Int /\ b.trades \in 0 .. TradeLimit
           /\ \A d \in Credits!Day : AttendanceLedger(day, b, c, w, d) /\ TradeLedger(day, b, c, w, d)
  BY LimitAssumption DEF CreditsOK, Credits!Credit, AttendanceLedger, TradeLedger

\* An abort, or an update that finds the day full.
LEMMA CreditsFree ==
    ASSUME NEW day, NEW b, NEW c, NEW w, CreditsOK(day, b, c, w), NEW t \in Handler,
           NEW v, Freed(v, w, t)
    PROVE  CreditsOK(day, b, c, v)
<1>1. ASSUME NEW d \in Credits!Day
      PROVE  AttendanceLedger(day, b, c, v, d) /\ TradeLedger(day, b, c, v, d)
  BY CreditsNumbers, FreedLedger DEF AttendanceLedger, TradeLedger
<1>2. /\ v \in [Handler -> Credits!Asked \union {Credits!Free}]
      /\ \A s \in Handler : v[s] # Credits!Free => v[s].day <= day
  BY DEF Freed, CreditsOK
<1> QED
  BY <1>1, <1>2 DEF CreditsOK, AttendanceLedger, TradeLedger

\* checkAttendance gives a point.
LEMMA CreditsAttend ==
    ASSUME NEW day, NEW b, NEW c, NEW w, CreditsOK(day, b, c, w), NEW t \in Handler,
           NEW v, Freed(v, w, t), NEW e, AsksFor(w, t, "attendance", e), b.attended # e,
           NEW b2, b2 = [b EXCEPT !.attended = e],
           NEW c2, c2 = [c EXCEPT !["attendance"][e] = @ + 1]
    PROVE  CreditsOK(day, b2, c2, v)
<1>1. /\ CreditsOK(day, b, c, v)
      /\ v \in [Handler -> Credits!Asked \union {Credits!Free}]
      /\ \A s \in Handler : v[s] # Credits!Free => v[s].day <= day
  BY CreditsFree DEF CreditsOK
<1>2. e \in Credits!Day /\ e <= day
  BY DEF CreditsOK, AsksFor, Credits!Asked, Credits!Free
<1>3. /\ b2 \in [attended : Int, tradeDay : Int, trades : 0 .. TradeLimit]
      /\ b2.attended = e /\ b2.tradeDay = b.tradeDay /\ b2.trades = b.trades
  <2>1. b \in [attended : Int, tradeDay : Int, trades : 0 .. TradeLimit] /\ e \in Int
    BY <1>2, LimitAssumption DEF CreditsOK, Credits!Day
  <2>2. b.trades \in 0 .. TradeLimit /\ TradeLimit \in Nat \ {0}
    BY CreditsNumbers
  <2> QED
    BY <2>1, <2>2
<1>4. /\ c2 \in [Credits!Credit -> [Credits!Day -> Nat]]
      /\ \A d \in Credits!Day :
            /\ c2["attendance"][d] = (IF d = e THEN c["attendance"][d] + 1 ELSE c["attendance"][d])
            /\ c2["trade"][d] = c["trade"][d]
  BY <1>2, CreditsNumbers DEF CreditsOK
<1>5. ASSUME NEW d \in Credits!Day PROVE AttendanceLedger(day, b2, c2, v, d)
  <2>1. Ledger(d, day, e, IF b.attended = e THEN 1 + 1 ELSE 1, 1, Cardinality(Handler),
               IF d = e THEN c["attendance"][d] + 1 ELSE c["attendance"][d],
               Cardinality(AskedBefore(v, "attendance", d)),
               Cardinality(AskedOn(v, "attendance", d)))
    BY CreditsNumbers, GivenLedger DEF AttendanceLedger
  <2> QED
    BY <1>3, <1>4, <2>1 DEF AttendanceLedger
<1>6. ASSUME NEW d \in Credits!Day PROVE TradeLedger(day, b2, c2, v, d)
  BY <1>1, <1>3, <1>4, CreditsNumbers DEF TradeLedger
<1> QED
  BY <1>1, <1>2, <1>3, <1>4, <1>5, <1>6 DEF CreditsOK, AttendanceLedger, TradeLedger

\* addDailyLimitedTradeCompletionPoints gives a point.
LEMMA CreditsTrade ==
    ASSUME NEW day, NEW b, NEW c, NEW w, CreditsOK(day, b, c, w), NEW t \in Handler,
           NEW v, Freed(v, w, t), NEW e, AsksFor(w, t, "trade", e),
           b.tradeDay # e \/ b.trades < TradeLimit, NEW b2,
           b2 = [b EXCEPT !.tradeDay = e, !.trades = IF b.tradeDay = e THEN @ + 1 ELSE 1],
           NEW c2, c2 = [c EXCEPT !["trade"][e] = @ + 1]
    PROVE  CreditsOK(day, b2, c2, v)
<1>1. /\ CreditsOK(day, b, c, v)
      /\ v \in [Handler -> Credits!Asked \union {Credits!Free}]
      /\ \A s \in Handler : v[s] # Credits!Free => v[s].day <= day
  BY CreditsFree DEF CreditsOK
<1>2. e \in Credits!Day /\ e <= day
  BY DEF CreditsOK, AsksFor, Credits!Asked, Credits!Free
<1>3. /\ b2 \in [attended : Int, tradeDay : Int, trades : 0 .. TradeLimit]
      /\ b2.attended = b.attended /\ b2.tradeDay = e
      /\ b2.trades = (IF b.tradeDay = e THEN b.trades + 1 ELSE 1)
  <2>1. b \in [attended : Int, tradeDay : Int, trades : 0 .. TradeLimit] /\ e \in Int
    BY <1>2, LimitAssumption DEF CreditsOK, Credits!Day
  <2>2. b.trades \in 0 .. TradeLimit /\ TradeLimit \in Nat \ {0}
    BY CreditsNumbers
  <2>3. (IF b.tradeDay = e THEN b.trades + 1 ELSE 1) \in 0 .. TradeLimit
    BY <2>2
  <2> QED
    BY <2>1, <2>3
<1>4. /\ c2 \in [Credits!Credit -> [Credits!Day -> Nat]]
      /\ \A d \in Credits!Day :
            /\ c2["trade"][d] = (IF d = e THEN c["trade"][d] + 1 ELSE c["trade"][d])
            /\ c2["attendance"][d] = c["attendance"][d]
  BY <1>2, CreditsNumbers DEF CreditsOK
<1>5. ASSUME NEW d \in Credits!Day PROVE TradeLedger(day, b2, c2, v, d)
  <2>1. Ledger(d, day, e, IF b.tradeDay = e THEN b.trades + 1 ELSE 1, TradeLimit,
               Cardinality(Handler), IF d = e THEN c["trade"][d] + 1 ELSE c["trade"][d],
               Cardinality(AskedBefore(v, "trade", d)), Cardinality(AskedOn(v, "trade", d)))
    BY CreditsNumbers, GivenLedger DEF TradeLedger
  <2> QED
    BY <1>3, <1>4, <2>1 DEF TradeLedger
<1>6. ASSUME NEW d \in Credits!Day PROVE AttendanceLedger(day, b2, c2, v, d)
  BY <1>1, <1>3, <1>4, CreditsNumbers DEF AttendanceLedger
<1> QED
  BY <1>1, <1>2, <1>3, <1>4, <1>5, <1>6 DEF CreditsOK, AttendanceLedger, TradeLedger

\* Another day begins.
LEMMA CreditsMidnight ==
    ASSUME NEW day, NEW b, NEW c, NEW w, CreditsOK(day, b, c, w), day < MaxDay
    PROVE  CreditsOK(day + 1, b, c, w)
<1>1. day \in Nat /\ day + 1 \in Credits!Day
  BY LimitAssumption DEF CreditsOK, Credits!Day
<1>2. ASSUME NEW d \in Credits!Day
      PROVE  AttendanceLedger(day + 1, b, c, w, d) /\ TradeLedger(day + 1, b, c, w, d)
  <2>1. d \in Nat /\ c["attendance"][d] \in Nat /\ c["trade"][d] \in Nat
    <3>1. "attendance" \in Credits!Credit /\ "trade" \in Credits!Credit
      BY DEF Credits!Credit
    <3> QED
      BY <3>1, LimitAssumption DEF CreditsOK, Credits!Day
  <2> QED
    BY <1>1, <2>1, CreditsNumbers, AskedCount, LedgerMidnight DEF AttendanceLedger, TradeLedger
<1>3. \A s \in Handler : w[s] # Credits!Free => w[s].day <= day + 1
  BY <1>1 DEF CreditsOK, Credits!Asked, Credits!Day
<1>4. b.attended <= day + 1 /\ b.tradeDay <= day + 1
  BY <1>1, CreditsNumbers DEF CreditsOK
<1> QED
  BY <1>1, <1>2, <1>3, <1>4 DEF CreditsOK, AttendanceLedger, TradeLedger

LEMMA CreditsInit == Credits!Init => CreditsInv
<1> SUFFICES ASSUME Credits!Init PROVE CreditsInv
  OBVIOUS
<1>1. PICK day, b, c, w : day = today /\ b = book /\ c = credited /\ w = tellers
  OBVIOUS
<1>2. /\ day = 0 /\ w = [t \in Handler |-> Credits!Free]
      /\ b = [attended |-> -1, tradeDay |-> -1, trades |-> 0]
      /\ c = [k \in Credits!Credit |-> [d \in Credits!Day |-> 0]]
  BY <1>1 DEF Credits!Init, Credits!Never
<1>3. ASSUME NEW d \in Credits!Day
      PROVE  AttendanceLedger(day, b, c, w, d) /\ TradeLedger(day, b, c, w, d)
  <2>1. d \in Nat
    BY LimitAssumption DEF Credits!Day
  <2>2. AskedOn(w, "attendance", d) = {} /\ AskedOn(w, "trade", d) = {}
    BY <1>2 DEF AskedOn, Credits!Free
  <2>3. c["attendance"][d] = 0 /\ c["trade"][d] = 0
    BY <1>2 DEF Credits!Credit
  <2>4. /\ Cardinality(AskedOn(w, "attendance", d)) = 0
        /\ Cardinality(AskedOn(w, "trade", d)) = 0
    BY <2>2, FS_EmptySet
  <2>5. /\ b.attended < d /\ b.tradeDay < d /\ day = 0
    BY <1>2, <2>1
  <2> QED
    BY <2>1, <2>3, <2>4, <2>5 DEF AttendanceLedger, TradeLedger, Ledger
<1>4. /\ day \in Credits!Day
      /\ b \in [attended : Int, tradeDay : Int, trades : 0 .. TradeLimit]
      /\ b.attended <= day /\ b.tradeDay <= day
  BY <1>2, LimitAssumption DEF Credits!Day
<1>5. /\ c \in [Credits!Credit -> [Credits!Day -> Nat]]
      /\ w \in [Handler -> Credits!Asked \union {Credits!Free}]
      /\ \A t \in Handler : w[t] # Credits!Free => w[t].day <= day
  BY <1>2
<1>6. CreditsOK(day, b, c, w)
  BY <1>3, <1>4, <1>5 DEF CreditsOK, AttendanceLedger, TradeLedger
<1> QED
  BY <1>1, <1>6 DEF CreditsInv

LEMMA CreditsNext ==
    ASSUME CreditsInv, Credits!Next \/ Naming!Next \/ UNCHANGED today,
           Credits!Next \/ UNCHANGED creditVars
    PROVE  CreditsInv'
<1>1. PICK day, b, c, w : /\ day = today /\ b = book /\ c = credited /\ w = tellers
                          /\ CreditsOK(day, b, c, w)
  BY DEF CreditsInv
<1>2. PICK day2, b2, c2, w2 : day2 = today' /\ b2 = book' /\ c2 = credited' /\ w2 = tellers'
  OBVIOUS
<1>3. SUFFICES CreditsOK(day2, b2, c2, w2)
  BY <1>2 DEF CreditsInv
<1>4. CASE UNCHANGED creditVars
  <2>1. b2 = b /\ c2 = c /\ w2 = w
    BY <1>1, <1>2, <1>4 DEF creditVars
  <2>2. day2 = day \/ (day < MaxDay /\ day2 = day + 1)
    BY <1>1, <1>2, <1>4 DEF creditVars, Credits!Next, Credits!Ask, Credits!Attend,
       Credits!CreditTrade, Credits!Abort, Credits!Midnight, Naming!Next, Naming!Login,
       Naming!Rename, Naming!LoginFind, Naming!LoginSave, Naming!Current, Naming!Duplicate,
       Naming!Store, Naming!Abort, Naming!Midnight, Naming!Takes
  <2> QED
    BY <1>1, <2>1, <2>2, CreditsMidnight
<1>5. ASSUME NEW t \in Handler, NEW k \in Credits!Credit, Credits!Ask(t, k)
      PROVE  CreditsOK(day2, b2, c2, w2)
  <2>1. /\ day2 = day /\ b2 = b /\ c2 = c /\ w[t] = Credits!Free
        /\ w2 = [w EXCEPT ![t] = [for |-> k, day |-> day]]
    BY <1>1, <1>2, <1>5 DEF Credits!Ask
  <2> QED
    BY <1>1, <2>1, CreditsAsk
<1>6. ASSUME NEW t \in Handler, Credits!Attend(t)
      PROVE  CreditsOK(day2, b2, c2, w2)
  <2>1. PICK e : e = w[t].day
    OBVIOUS
  <2>2. day2 = day /\ Freed(w2, w, t) /\ AsksFor(w, t, "attendance", e)
    BY <1>1, <1>2, <1>6, <2>1 DEF Credits!Attend, Freed, AsksFor
  <2>3. \/ b2 = b /\ c2 = c
        \/ /\ b.attended # e /\ b2 = [b EXCEPT !.attended = e]
           /\ c2 = [c EXCEPT !["attendance"][e] = @ + 1]
    BY <1>1, <1>2, <1>6, <2>1 DEF Credits!Attend
  <2> QED
    BY <1>1, <2>2, <2>3, CreditsFree, CreditsAttend
<1>7. ASSUME NEW t \in Handler, Credits!CreditTrade(t)
      PROVE  CreditsOK(day2, b2, c2, w2)
  <2>1. PICK e : e = w[t].day
    OBVIOUS
  <2>2. day2 = day /\ Freed(w2, w, t) /\ AsksFor(w, t, "trade", e)
    BY <1>1, <1>2, <1>7, <2>1 DEF Credits!CreditTrade, Freed, AsksFor
  <2>3. \/ b2 = b /\ c2 = c
        \/ /\ b.tradeDay # e \/ b.trades < TradeLimit
           /\ b2 = [b EXCEPT !.tradeDay = e, !.trades = IF b.tradeDay = e THEN @ + 1 ELSE 1]
           /\ c2 = [c EXCEPT !["trade"][e] = @ + 1]
    BY <1>1, <1>2, <1>7, <2>1 DEF Credits!CreditTrade
  <2> QED
    <3>1. CASE b2 = b /\ c2 = c
      BY <1>1, <2>2, <3>1, CreditsFree
    <3>2. CASE /\ b.tradeDay # e \/ b.trades < TradeLimit
               /\ b2 = [b EXCEPT !.tradeDay = e,
                                 !.trades = IF b.tradeDay = e THEN @ + 1 ELSE 1]
               /\ c2 = [c EXCEPT !["trade"][e] = @ + 1]
      BY <1>1, <2>2, <3>2, CreditsTrade
    <3> QED
      BY <2>3, <3>1, <3>2
<1>8. ASSUME NEW t \in Handler, Credits!Abort(t)
      PROVE  CreditsOK(day2, b2, c2, w2)
  <2>1. day2 = day /\ b2 = b /\ c2 = c /\ Freed(w2, w, t)
    BY <1>1, <1>2, <1>8 DEF Credits!Abort, Freed
  <2> QED
    BY <1>1, <2>1, CreditsFree
<1>9. CASE Credits!Midnight
  BY <1>4, <1>9 DEF Credits!Midnight, Credits!creditVars, creditVars
<1> QED
  BY <1>4, <1>5, <1>6, <1>7, <1>8, <1>9 DEF Credits!Next

\* With n overlapping handlers, a day is credited at most n times its limit, and n - 1 times
\* more by the updates that arrive behind those of the next day (checkAttendance,
\* addDailyLimitedTradeCompletionPoints).
THEOREM CreditsCorrect == ServicesSpec => []CreditsWithinOverlap
<1>1. ServicesInit => CreditsInv
  BY CreditsInit DEF ServicesInit
<1>2. CreditsInv /\ [ServicesNext]_vars => CreditsInv'
  BY CreditsNext, StepsApart
<1>3. CreditsInv => CreditsWithinOverlap
  <2> SUFFICES ASSUME CreditsInv, NEW d \in Credits!Day
               PROVE  LET n == Cardinality(Handler)
                      IN  /\ credited["attendance"][d] <= n + (n - 1)
                          /\ credited["trade"][d] <= TradeLimit * n + (n - 1)
    BY SameCount DEF CreditsWithinOverlap, Credits!CreditsWithinOverlap
  <2>1. PICK day, b, c, w : c = credited /\ CreditsOK(day, b, c, w)
    BY DEF CreditsInv
  <2>2. d \in Nat /\ day \in Nat /\ c["attendance"][d] \in Nat /\ c["trade"][d] \in Nat
    <3>1. "attendance" \in Credits!Credit /\ "trade" \in Credits!Credit
      BY DEF Credits!Credit
    <3> QED
      BY <2>1, <3>1, LimitAssumption DEF CreditsOK, Credits!Day
  <2>3. AttendanceLedger(day, b, c, w, d) /\ TradeLedger(day, b, c, w, d)
    BY <2>1, CreditsNumbers
  <2>4. /\ c["attendance"][d] <= 1 * Cardinality(Handler) + (Cardinality(Handler) - 1)
        /\ c["trade"][d] <= TradeLimit * Cardinality(Handler) + (Cardinality(Handler) - 1)
    <3>1. /\ 1 \in Nat \ {0} /\ 1 \in 0 .. 1 /\ TradeLimit \in Nat \ {0}
          /\ b.attended \in Int /\ b.tradeDay \in Int /\ b.trades \in 0 .. TradeLimit
      BY <2>1, CreditsNumbers
    <3>2. c["attendance"][d] <= 1 * Cardinality(Handler) + (Cardinality(Handler) - 1)
      BY <2>2, <2>3, <3>1, AskedCount, LedgerBound DEF AttendanceLedger
    <3>3. c["trade"][d] <= TradeLimit * Cardinality(Handler) + (Cardinality(Handler) - 1)
      BY <2>2, <2>3, <3>1, AskedCount, LedgerBound DEF TradeLedger
    <3> QED
      BY <3>2, <3>3
  <2>5. Cardinality(Handler) \in Nat
    BY AskedCount
  <2> QED
    BY <2>1, <2>4, <2>5
<1> QED
  BY <1>1, <1>2, <1>3, PTL DEF ServicesSpec

-----------------------------------------------------------------------------
\* Pictures of characters

\* The picture of a look of a member, at its time.
Picture == [member : Key, version : Nat, number : Nat]

\* Picture e shows a look that was saved at its time, by the looks l.
Shows(l, e) ==
    /\ e \in Picture
    /\ e.number \in DOMAIN l[e.member]
    /\ l[e.member][e.number].at = e.version

\* A Map c of pictures, each of which shows its look, with one of a member.
PicturesOf(l, c) ==
    /\ c \in Seq(Picture)
    /\ \A n \in DOMAIN c : Shows(l, c[n])
    /\ \A n, k \in DOMAIN c : n # k => c[n].member # c[k].member

\* The looks l are numbered in order; what is kept in c, drawn by the calls w and answered
\* last as a is each the picture of a look of theirs.
ImagesOK(t, l, c, w, a) ==
    /\ t \in Nat
    /\ l \in [Key -> Seq([number : Nat, at : Nat])]
    /\ \A m \in Key : \A n \in DOMAIN l[m] : l[m][n].number = n
    /\ PicturesOf(l, c) /\ Len(c) <= Limit
    /\ w = [h \in Handler |-> w[h]]
    /\ \A h \in Handler : w[h] = Images!None \/ Shows(l, w[h])
    /\ a = Images!None \/ Shows(l, a)

ImagesInv ==
    \E t, l, c, w, a : /\ t = millis /\ l = looks /\ c = cache /\ w = calls /\ a = answers
                       /\ ImagesOK(t, l, c, w, a)

\* Nothing has been drawn at first.
LEMMA ImagesInit == Images!Init => ImagesInv
<1> SUFFICES ASSUME Images!Init PROVE ImagesInv
  OBVIOUS
<1>1. PICK t, l, c, w, a : t = millis /\ l = looks /\ c = cache /\ w = calls /\ a = answers
  OBVIOUS
<1>2. /\ t = 0 /\ l = [m \in Key |-> << >>] /\ c = << >>
      /\ w = [h \in Handler |-> Images!None] /\ a = Images!None
  BY <1>1 DEF Images!Init
<1>3. ImagesOK(t, l, c, w, a)
  BY <1>2, LimitAssumption DEF ImagesOK, PicturesOf
<1> QED
  BY <1>1, <1>3 DEF ImagesInv

\* The items of a sequence.
LEMMA Items ==
    ASSUME NEW S, NEW s \in Seq(S), NEW n \in DOMAIN s
    PROVE  s[n] \in S
  OBVIOUS

\* One sequence after another
LEMMA Joined ==
    ASSUME NEW S, NEW a \in Seq(S), NEW b \in Seq(S)
    PROVE  /\ a \o b \in Seq(S) /\ Len(a \o b) = Len(a) + Len(b)
           /\ \A j \in 1 .. Len(a) : (a \o b)[j] = a[j]
           /\ \A j \in Len(a) + 1 .. Len(a) + Len(b) : (a \o b)[j] = b[j - Len(a)]
<1>1. Len(a) \in Nat /\ Len(b) \in Nat
  OBVIOUS
<1>2. a \o b \in Seq(S)
  OBVIOUS
<1>3. Len(a \o b) = Len(a) + Len(b)
  OBVIOUS
<1>4. ASSUME NEW j \in 1 .. Len(a) PROVE (a \o b)[j] = a[j]
  BY <1>1
<1>5. ASSUME NEW j \in Len(a) + 1 .. Len(a) + Len(b) PROVE (a \o b)[j] = b[j - Len(a)]
  BY <1>1
<1> QED
  BY <1>2, <1>3, <1>4, <1>5

\* What is removed leaves the others, in their order.
LEMMA Removed ==
    ASSUME NEW S, NEW s \in Seq(S), NEW n \in DOMAIN s
    PROVE  LET r == SubSeq(s, 1, n - 1) \o SubSeq(s, n + 1, Len(s))
           IN  /\ r \in Seq(S) /\ Len(r) = Len(s) - 1
               /\ \A j \in DOMAIN r : /\ (IF j < n THEN j ELSE j + 1) \in DOMAIN s
                                      /\ r[j] = s[IF j < n THEN j ELSE j + 1]
<1> DEFINE front == SubSeq(s, 1, n - 1)
           back == SubSeq(s, n + 1, Len(s))
<1>1. Len(s) \in Nat /\ n \in 1 .. Len(s)
  OBVIOUS
<1>2. /\ front \in Seq(S) /\ Len(front) = n - 1
      /\ \A j \in 1 .. n - 1 : front[j] = s[j]
  BY <1>1
<1>3. /\ back \in Seq(S) /\ Len(back) = Len(s) - n
      /\ \A j \in 1 .. Len(s) - n : back[j] = s[j + n]
  BY <1>1
<1> HIDE DEF front, back
<1>4. /\ front \o back \in Seq(S) /\ Len(front \o back) = Len(front) + Len(back)
      /\ \A j \in 1 .. Len(front) : (front \o back)[j] = front[j]
      /\ \A j \in Len(front) + 1 .. Len(front) + Len(back) :
            (front \o back)[j] = back[j - Len(front)]
  BY <1>2, <1>3, Joined
<1>5. PICK r : r = front \o back
  OBVIOUS
<1>6. Len(r) = Len(s) - 1 /\ r \in Seq(S) /\ DOMAIN r = 1 .. Len(s) - 1
  BY <1>1, <1>2, <1>3, <1>4, <1>5
<1>7. ASSUME NEW j \in 1 .. Len(s) - 1
      PROVE  (IF j < n THEN j ELSE j + 1) \in DOMAIN s /\ r[j] = s[IF j < n THEN j ELSE j + 1]
  <2>1. CASE j < n
    <3>1. r[j] = front[j] /\ front[j] = s[j]
      BY <1>1, <1>2, <1>4, <1>5, <2>1
    <3> QED
      BY <1>1, <2>1, <3>1
  <2>2. CASE ~(j < n)
    <3>1. j \in Len(front) + 1 .. Len(front) + Len(back) /\ j - Len(front) = j - n + 1
      BY <1>1, <1>2, <1>3, <2>2
    <3>2. r[j] = back[j - n + 1]
      BY <1>4, <1>5, <3>1
    <3>3. j - n + 1 \in 1 .. Len(s) - n /\ j - n + 1 + n = j + 1
      BY <1>1, <2>2
    <3>4. back[j - n + 1] = s[j + 1]
      BY <1>3, <3>3
    <3> QED
      BY <1>1, <2>2, <3>2, <3>4
  <2> QED
    BY <2>1, <2>2
<1> QED
  BY <1>5, <1>6, <1>7 DEF front, back
\* A Map loses the entry of a key and keeps the rest.
LEMMA WithoutKeeps ==
    ASSUME NEW l, NEW c, PicturesOf(l, c), NEW m
    PROVE  LET r == Images!Without(c, m)
           IN  PicturesOf(l, r) /\ Len(r) <= Len(c) /\ \A n \in DOMAIN r : r[n].member # m
<1>1. CASE \E n \in DOMAIN c : c[n].member = m
  <2>1. PICK n \in DOMAIN c : n = CHOOSE i \in DOMAIN c : c[i].member = m
    BY <1>1
  <2>2. c[n].member = m
    BY <1>1, <2>1
  <2>3. PICK r : r = SubSeq(c, 1, n - 1) \o SubSeq(c, n + 1, Len(c))
    OBVIOUS
  <2>4. Images!Without(c, m) = r
    BY <1>1, <2>1, <2>3 DEF Images!Without, Images!RemoveAt
  <2>5. /\ r \in Seq(Picture) /\ Len(r) = Len(c) - 1
        /\ \A j \in DOMAIN r : /\ (IF j < n THEN j ELSE j + 1) \in DOMAIN c
                               /\ r[j] = c[IF j < n THEN j ELSE j + 1]
    BY <2>3, Removed DEF PicturesOf
  <2>6. DOMAIN r \subseteq Nat /\ n \in Nat /\ Len(c) \in Nat
    BY <2>5 DEF PicturesOf
  <2>7. \A j \in DOMAIN r : (IF j < n THEN j ELSE j + 1) # n
    BY <2>6
  <2>8. \A j \in DOMAIN r : Shows(l, r[j]) /\ r[j].member # m
    BY <2>2, <2>5, <2>7 DEF PicturesOf
  <2>9. ASSUME NEW j \in DOMAIN r, NEW k \in DOMAIN r, j # k
        PROVE  r[j].member # r[k].member
    <3>1. (IF j < n THEN j ELSE j + 1) # (IF k < n THEN k ELSE k + 1)
      BY <2>6, <2>9
    <3> QED
      BY <2>5, <3>1 DEF PicturesOf
  <2>10. PicturesOf(l, r)
    BY <2>5, <2>8, <2>9 DEF PicturesOf
  <2> QED
    BY <2>4, <2>5, <2>6, <2>8, <2>10
<1>2. CASE ~ \E n \in DOMAIN c : c[n].member = m
  <2>1. Images!Without(c, m) = c
    BY <1>2 DEF Images!Without
  <2>2. Len(c) \in Nat
    BY DEF PicturesOf
  <2> QED
    BY <1>2, <2>1, <2>2
<1> QED
  BY <1>1, <1>2

\* The oldest picture goes from a full cache, and then the member's own: one more fits in.
LEMMA RoomMade ==
    ASSUME NEW l, NEW c, PicturesOf(l, c), Len(c) <= Limit, NEW e, Shows(l, e),
           NEW o, o = IF Len(c) >= Limit THEN Tail(c) ELSE c
    PROVE  LET r == Append(Images!Without(o, e.member), e)
           IN  PicturesOf(l, r) /\ Len(r) <= Limit
<1>1. Len(c) \in Nat /\ Limit \in Nat \ {0} /\ c \in Seq(Picture)
  BY LimitAssumption DEF PicturesOf
<1>2. PicturesOf(l, o) /\ Len(o) \in Nat /\ Len(o) < Limit
  <2>1. CASE Len(c) >= Limit
    <3>1. c # << >> /\ o = Tail(c)
      BY <1>1, <2>1
    <3>2. /\ o \in Seq(Picture) /\ Len(o) = Len(c) - 1
          /\ \A n \in DOMAIN o : n \in Nat /\ n + 1 \in DOMAIN c /\ o[n] = c[n + 1]
      BY <1>1, <3>1
    <3>3. \A n, k \in DOMAIN o : n # k => n + 1 # k + 1
      BY <3>2
    <3>4. PicturesOf(l, o)
      BY <3>2, <3>3 DEF PicturesOf
    <3> QED
      BY <1>1, <3>2, <3>4
  <2>2. CASE ~ (Len(c) >= Limit)
    BY <1>1, <2>2
  <2> QED
    BY <2>1, <2>2
<1>3. PICK r : r = Images!Without(o, e.member)
  OBVIOUS
<1>4. PicturesOf(l, r) /\ Len(r) <= Len(o) /\ \A n \in DOMAIN r : r[n].member # e.member
  BY <1>2, <1>3, WithoutKeeps
<1>5. r \in Seq(Picture) /\ Len(r) \in Nat /\ e \in Picture
  BY <1>4 DEF PicturesOf, Shows
<1>6. PICK q : q = Append(r, e)
  OBVIOUS
<1>7. /\ q \in Seq(Picture) /\ Len(q) = Len(r) + 1 /\ DOMAIN q = 1 .. Len(r) + 1
      /\ \A n \in 1 .. Len(r) : n \in DOMAIN r /\ q[n] = r[n]
      /\ q[Len(r) + 1] = e
  BY <1>5, <1>6
<1>8. \A n \in DOMAIN q : n \in 1 .. Len(r) \/ n = Len(r) + 1
  BY <1>5, <1>7
<1>9. \A n \in DOMAIN q : Shows(l, q[n])
  BY <1>4, <1>7, <1>8 DEF PicturesOf
<1>10. \A n, k \in DOMAIN q : n # k => q[n].member # q[k].member
  BY <1>4, <1>7, <1>8 DEF PicturesOf
<1>11. PicturesOf(l, q)
  BY <1>7, <1>9, <1>10 DEF PicturesOf
<1>12. Len(q) <= Limit
  BY <1>1, <1>2, <1>4, <1>5, <1>7
<1> QED
  BY <1>3, <1>6, <1>11, <1>12

\* A look that is saved leaves the pictures of earlier ones as they are.
LEMMA SavedLook ==
    ASSUME NEW t, NEW l, NEW c, NEW w, NEW a, ImagesOK(t, l, c, w, a), NEW m \in Key,
           NEW s, s = Append(l[m], [number |-> Len(l[m]) + 1, at |-> t])
    PROVE  ImagesOK(t, [l EXCEPT ![m] = s], c, w, a)
<1> DEFINE Look == [number : Nat, at : Nat]
<1>1. PICK p : p = l[m]
  OBVIOUS
<1>2. /\ p \in Seq(Look) /\ t \in Nat /\ l \in [Key -> Seq(Look)]
      /\ \A n \in DOMAIN p : p[n].number = n
  BY <1>1 DEF ImagesOK
<1>3. PICK k : k = [number |-> Len(p) + 1, at |-> t]
  OBVIOUS
<1>4. k \in Look /\ k.number = Len(p) + 1 /\ Len(p) \in Nat
  BY <1>2, <1>3
<1>5. s = Append(p, k)
  BY <1>1, <1>3
<1>6. /\ s \in Seq(Look) /\ DOMAIN s = 1 .. Len(p) + 1 /\ DOMAIN p = 1 .. Len(p)
      /\ \A n \in DOMAIN p : n \in DOMAIN s /\ s[n] = p[n]
      /\ s[Len(p) + 1] = k
  BY <1>2, <1>4, <1>5
<1>7. \A n \in DOMAIN s : n \in DOMAIN p \/ n = Len(p) + 1
  BY <1>4, <1>6
<1>8. \A n \in DOMAIN s : s[n].number = n
  BY <1>2, <1>4, <1>6, <1>7
<1>9. PICK v : v = [l EXCEPT ![m] = s]
  OBVIOUS
<1>10. /\ v \in [Key -> Seq(Look)] /\ v[m] = s
       /\ \A x \in Key : x # m => v[x] = l[x]
  BY <1>2, <1>6, <1>9
<1>11. \A x \in Key : \A n \in DOMAIN v[x] : v[x][n].number = n
  BY <1>8, <1>10 DEF ImagesOK
<1>12. ASSUME NEW e, Shows(l, e) PROVE Shows(v, e)
  <2>1. e \in Picture /\ e.member \in Key
    BY <1>12 DEF Shows, Picture
  <2>2. CASE e.member = m
    <3>1. e.number \in DOMAIN p /\ p[e.number].at = e.version
      BY <1>1, <1>12, <2>2 DEF Shows
    <3>2. e.number \in DOMAIN s /\ s[e.number] = p[e.number]
      BY <1>6, <3>1
    <3> QED
      BY <1>10, <2>1, <2>2, <3>1, <3>2 DEF Shows
  <2>3. CASE e.member # m
    BY <1>10, <1>12, <2>1, <2>3 DEF Shows
  <2> QED
    BY <2>2, <2>3
<1>13. PicturesOf(v, c)
  BY <1>12 DEF ImagesOK, PicturesOf
<1>14. /\ \A h \in Handler : w[h] = Images!None \/ Shows(v, w[h])
       /\ a = Images!None \/ Shows(v, a)
  BY <1>12 DEF ImagesOK
<1>15. ImagesOK(t, v, c, w, a)
  BY <1>10, <1>11, <1>13, <1>14 DEF ImagesOK
<1> QED
  BY <1>9, <1>15

\* The latest look of a member is one that was saved.
LEMMA LatestShows ==
    ASSUME NEW t, NEW l, NEW c, NEW w, NEW a, ImagesOK(t, l, c, w, a), NEW m \in Key,
           l[m] # << >>, NEW k, k = l[m][Len(l[m])]
    PROVE  Shows(l, [member |-> m, version |-> k.at, number |-> k.number])
<1>1. PICK p : p = l[m]
  OBVIOUS
<1>2. /\ p \in Seq([number : Nat, at : Nat]) /\ p # << >> /\ k = p[Len(p)]
      /\ \A n \in DOMAIN p : p[n].number = n
  BY <1>1 DEF ImagesOK
<1>3. Len(p) \in DOMAIN p /\ k \in [number : Nat, at : Nat]
  <2>1. Len(p) \in Nat /\ DOMAIN p = 1 .. Len(p) /\ Len(p) # 0
    BY <1>2
  <2>2. Len(p) \in DOMAIN p
    BY <2>1
  <2>3. p[Len(p)] \in [number : Nat, at : Nat]
    BY <1>2, <2>2, Items
  <2> QED
    BY <1>2, <2>2, <2>3
<1>4. k.number = Len(p) /\ k.number \in Nat /\ k.at \in Nat
  BY <1>2, <1>3
<1>5. PICK e : e = [member |-> m, version |-> k.at, number |-> k.number]
  OBVIOUS
<1>6. e \in Picture /\ e.member = m /\ e.version = k.at /\ e.number = k.number
  BY <1>4, <1>5 DEF Picture
<1> QED
  BY <1>1, <1>2, <1>3, <1>4, <1>5, <1>6 DEF Shows

LEMMA ImagesNext ==
    ASSUME ImagesInv, Images!Next \/ UNCHANGED imageVars
    PROVE  ImagesInv'
<1>1. PICK t, l, c, w, a : /\ t = millis /\ l = looks /\ c = cache /\ w = calls /\ a = answers
                           /\ ImagesOK(t, l, c, w, a)
  BY DEF ImagesInv
<1>2. PICK t2, l2, c2, w2, a2 : /\ t2 = millis' /\ l2 = looks' /\ c2 = cache' /\ w2 = calls'
                                /\ a2 = answers'
  OBVIOUS
<1>3. SUFFICES ImagesOK(t2, l2, c2, w2, a2)
  BY <1>2 DEF ImagesInv
<1>4. /\ t \in Nat /\ w = [h \in Handler |-> w[h]]
      /\ \A h \in Handler : w[h] = Images!None \/ Shows(l, w[h])
      /\ a = Images!None \/ Shows(l, a)
      /\ PicturesOf(l, c) /\ Len(c) <= Limit
  BY <1>1 DEF ImagesOK
<1>5. CASE UNCHANGED imageVars
  BY <1>1, <1>2, <1>5 DEF imageVars
<1>6. CASE Images!Tick
  <2>1. t2 = t + 1 /\ l2 = l /\ c2 = c /\ w2 = w /\ a2 = a
    BY <1>1, <1>2, <1>6 DEF Images!Tick
  <2> QED
    BY <1>1, <1>4, <2>1 DEF ImagesOK
<1>7. CASE Images!Restart
  <2>1. t2 = t /\ l2 = l /\ c2 = << >> /\ w2 = [h \in Handler |-> Images!None]
        /\ a2 = Images!None
    BY <1>1, <1>2, <1>7 DEF Images!Restart
  <2>2. PicturesOf(l2, c2) /\ Len(c2) <= Limit
    BY <2>1, LimitAssumption DEF PicturesOf
  <2> QED
    BY <1>1, <2>1, <2>2 DEF ImagesOK
<1>8. ASSUME NEW m \in Key, Images!Save(m)
      PROVE  ImagesOK(t2, l2, c2, w2, a2)
  <2>1. t2 = t /\ c2 = c /\ w2 = w /\ a2 = a
    BY <1>1, <1>2, <1>8 DEF Images!Save
  <2>2. PICK s : s = Append(l[m], [number |-> Len(l[m]) + 1, at |-> t])
    OBVIOUS
  <2>3. l2 = [l EXCEPT ![m] = s]
    BY <1>1, <1>2, <1>8, <2>2 DEF Images!Save
  <2> QED
    BY <1>1, <2>1, <2>2, <2>3, SavedLook
<1>9. ASSUME NEW h \in Handler, NEW m \in Key, Images!Get(h, m)
      PROVE  ImagesOK(t2, l2, c2, w2, a2)
  <2>1. t2 = t /\ l2 = l /\ c2 = c /\ l[m] # << >>
    BY <1>1, <1>2, <1>9 DEF Images!Get
  <2>2. PICK k : k = l[m][Len(l[m])]
    OBVIOUS
  <2>3. PICK e : e = [member |-> m, version |-> k.at, number |-> k.number]
    OBVIOUS
  <2>4. Shows(l, e)
    BY <1>1, <2>1, <2>2, <2>3, LatestShows
  <2>5. \/ w2 = w /\ \E n \in DOMAIN c : a2 = c[n]
        \/ w2 = [w EXCEPT ![h] = e] /\ a2 = a
    BY <1>1, <1>2, <1>9, <2>2, <2>3 DEF Images!Get, Images!Last, Images!Cached
  <2>6. \A n \in DOMAIN c : Shows(l, c[n])
    BY <1>4 DEF PicturesOf
  <2>7. CASE w2 = w /\ \E n \in DOMAIN c : a2 = c[n]
    BY <1>1, <2>1, <2>6, <2>7 DEF ImagesOK
  <2>8. CASE w2 = [w EXCEPT ![h] = e] /\ a2 = a
    <3>1. /\ w2 = [x \in Handler |-> w2[x]]
          /\ \A x \in Handler : w2[x] = Images!None \/ Shows(l, w2[x])
      BY <1>4, <2>4, <2>8
    <3> QED
      BY <1>1, <2>1, <2>8, <3>1 DEF ImagesOK
  <2> QED
    BY <2>5, <2>7, <2>8
<1>10. ASSUME NEW h \in Handler, Images!Drawn(h) \/ Images!DrawFails(h)
       PROVE  ImagesOK(t2, l2, c2, w2, a2)
  <2>1. t2 = t /\ l2 = l /\ w2 = [w EXCEPT ![h] = Images!None] /\ w[h] # Images!None
    BY <1>1, <1>2, <1>10 DEF Images!Drawn, Images!DrawFails
  <2>2. /\ w2 = [x \in Handler |-> w2[x]]
        /\ \A x \in Handler : w2[x] = Images!None \/ Shows(l, w2[x])
    BY <1>4, <2>1
  <2>3. PICK e : e = w[h]
    OBVIOUS
  <2>4. Shows(l, e)
    BY <1>4, <2>1, <2>3
  <2>5. CASE Images!Drawn(h)
    <3>1. PICK o : o = IF Len(c) >= Limit THEN Tail(c) ELSE c
      OBVIOUS
    <3>2. a2 = e /\ c2 = Append(Images!Without(o, e.member), e)
      BY <1>1, <1>2, <2>3, <2>5, <3>1 DEF Images!Drawn, Images!Room
    <3>3. PicturesOf(l, c2) /\ Len(c2) <= Limit
      BY <1>4, <2>4, <3>1, <3>2, RoomMade
    <3> QED
      BY <1>1, <2>1, <2>2, <2>4, <3>2, <3>3 DEF ImagesOK
  <2>6. CASE Images!DrawFails(h)
    <3>1. c2 = c /\ a2 = a
      BY <1>1, <1>2, <2>6 DEF Images!DrawFails
    <3> QED
      BY <1>1, <2>1, <2>2, <3>1 DEF ImagesOK
  <2> QED
    BY <1>10, <2>5, <2>6
<1> QED
  BY <1>5, <1>6, <1>7, <1>8, <1>9, <1>10 DEF Images!Next

\* A picture that is kept or answered shows a look of its time, the cache has one of a member
\* and keeps its limit, however the calls that draw overlap (getCharacterImage).
THEOREM ImagesFreshCorrect == ServicesSpec => []ImagesFresh
<1>1. ServicesInit => ImagesInv
  BY ImagesInit DEF ServicesInit
<1>2. ImagesInv /\ [ServicesNext]_vars => ImagesInv'
  BY ImagesNext, StepsApart
<1>3. ImagesInv => ImagesFresh
  BY DEF ImagesInv, ImagesOK, PicturesOf, Shows, ImagesFresh, Images!ImagesFresh
<1> QED
  BY <1>1, <1>2, <1>3, PTL DEF ServicesSpec

-----------------------------------------------------------------------------
\* The buckets.  A step changes the tokens of a key and those of its ideal bucket alike, but
\* for a bucket that is dropped: one that has rested was full, so that nothing changes, and
\* any other gains a burst at most.

\* What the table holds are buckets, filled at a time that has come.
Table ==
    /\ clock \in Nat
    /\ DOMAIN buckets \subseteq Key /\ IsFiniteSet(DOMAIN buckets)
    /\ \A k \in DOMAIN buckets : /\ buckets[k] \in [tokens : 0 .. Burst, updatedAt : Nat]
                                 /\ buckets[k].updatedAt <= clock
    /\ fair \in [Key -> Int]
    /\ forgotten \in [Key -> Nat]

IInv == TypeOK /\ Table /\ RateHeld

-----------------------------------------------------------------------------
\* Arithmetic of tokens

LEMMA Distribute ==
    ASSUME NEW a \in Int, NEW b \in Int
    PROVE  /\ (a + 1) * b = a * b + b
           /\ b * (a + 1) = b * a + b
    OBVIOUS

LEMMA ProductNat ==
    ASSUME NEW a \in Nat, NEW b \in Nat
    PROVE  a * b \in Nat
    OBVIOUS

\* A key has between none and a burst of tokens.
LEMMA TokensBounded ==
    ASSUME Table, NEW k \in Key
    PROVE  Tokens(k) \in 0 .. Burst
<1>1. CASE k \in DOMAIN buckets
  <2> DEFINE elapsed == clock - buckets[k].updatedAt
  <2>1. elapsed \in Nat /\ buckets[k].tokens \in 0 .. Burst
    BY <1>1 DEF Table
  <2> HIDE DEF elapsed
  <2>2. elapsed * Rate \in Nat
    BY <2>1, ProductNat, RateAssumption
  <2>3. Tokens(k) = Least(Burst, buckets[k].tokens + elapsed * Rate)
    BY <1>1 DEF Tokens, elapsed
  <2> QED
    BY <2>1, <2>2, <2>3, RateAssumption DEF Least
<1>2. CASE k \notin DOMAIN buckets
  BY <1>2, RateAssumption DEF Tokens
<1> QED
  BY <1>1, <1>2

\* A bucket that has rested is full.
LEMMA RestedIsFull ==
    ASSUME Table, NEW k \in DOMAIN buckets, Rested(buckets[k])
    PROVE  Tokens(k) = Burst
<1> DEFINE gained == (clock - buckets[k].updatedAt) * Rate
<1>1. clock - buckets[k].updatedAt \in Nat /\ buckets[k].tokens \in 0 .. Burst
  BY DEF Table
<1>2. gained \in Nat
  BY <1>1, ProductNat, RateAssumption
<1>3. gained >= Burst
  BY DEF Rested
<1>4. Tokens(k) = Least(Burst, buckets[k].tokens + gained)
  BY DEF Tokens
<1> HIDE DEF gained
<1> QED
  BY <1>1, <1>2, <1>3, <1>4, RateAssumption DEF Least

\* In a tick a key gains what the rate allows, up to the burst.
LEMMA TickGains ==
    ASSUME Table, Tick, NEW k \in Key
    PROVE  Tokens(k)' = Least(Burst, Tokens(k) + Rate)
<1>1. CASE k \in DOMAIN buckets
  <2> DEFINE elapsed == clock - buckets[k].updatedAt
             gained == elapsed * Rate
  <2>1. elapsed \in Nat /\ buckets[k].tokens \in 0 .. Burst
    BY <1>1 DEF Table
  <2>2. clock' - buckets'[k].updatedAt = elapsed + 1 /\ buckets' = buckets
    BY <1>1 DEF Table, Tick
  <2>3. Tokens(k)' = Least(Burst, buckets[k].tokens + (elapsed + 1) * Rate)
    BY <1>1, <2>2 DEF Tokens
  <2>4. Tokens(k) = Least(Burst, buckets[k].tokens + gained)
    BY <1>1 DEF Tokens
  <2>5. gained \in Nat
    BY <2>1, ProductNat, RateAssumption
  <2>6. (elapsed + 1) * Rate = gained + Rate
    BY <2>1, Distribute, RateAssumption
  <2> HIDE DEF elapsed, gained
  <2> QED
    BY <2>1, <2>3, <2>4, <2>5, <2>6, RateAssumption DEF Least
<1>2. CASE k \notin DOMAIN buckets
  BY <1>2, RateAssumption DEF Tokens, Tick, Least
<1> QED
  BY <1>1, <1>2

-----------------------------------------------------------------------------
\* A request is refused only to a key that has a bucket, whose tokens it leaves.
LEMMA RefuseKeeps ==
    ASSUME IInv, NEW k \in Key, Refuse(k)
    PROVE  IInv'
<1>1. Tokens(k) \in 0 .. Burst
  BY TokensBounded DEF IInv
<1>2. k \in DOMAIN buckets
  BY RateAssumption DEF Refuse, Tokens
<1>3. DOMAIN buckets' = DOMAIN buckets
  BY <1>2 DEF Refuse
<1>4. \A x \in DOMAIN buckets :
         buckets'[x] = IF x = k THEN [tokens |-> Tokens(k), updatedAt |-> clock] ELSE buckets[x]
  BY DEF Refuse
<1>5. UNCHANGED <<clock, fair, forgotten>>
  BY DEF Refuse
<1>6. \A x \in DOMAIN buckets :
         /\ buckets'[x] \in [tokens : 0 .. Burst, updatedAt : Nat]
         /\ buckets'[x] \in Bucket
         /\ buckets'[x].updatedAt <= clock
  BY <1>1, <1>4 DEF IInv, Table, TypeOK, Bucket, Time
<1>7. \A x \in Key : Tokens(x)' = Tokens(x)
  <2> TAKE x \in Key
  <2>1. CASE x = k
    <3>1. Tokens(k)' = Least(Burst, Tokens(k) + (clock - clock) * Rate)
      BY <1>2, <1>3, <1>4, <1>5 DEF Tokens
    <3>2. (clock - clock) * Rate = 0
      BY RateAssumption DEF IInv, Table
    <3> QED
      BY <1>1, <2>1, <3>1, <3>2, RateAssumption DEF Least
  <2>2. CASE x # k
    BY <1>3, <1>4, <1>5, <2>2 DEF Tokens
  <2> QED
    BY <2>1, <2>2
<1>8. TypeOK' /\ Table'
  BY <1>3, <1>5, <1>6 DEF IInv, TypeOK, Table
<1>9. RateHeld'
  BY <1>5, <1>7 DEF IInv, RateHeld
<1> QED
  BY <1>8, <1>9 DEF IInv

\* A request that is allowed costs a token of both buckets, and a bucket that it drops
\* counts for a burst at most.
LEMMA AllowKeeps ==
    ASSUME IInv, NEW k \in Key, Allow(k)
    PROVE  IInv'
<1> DEFINE t == [x \in DOMAIN buckets \union {k} |->
                   IF x = k THEN [tokens |-> Tokens(k) - 1, updatedAt |-> clock] ELSE buckets[x]]
           lost(x) == x \in DOMAIN t \ DOMAIN buckets' /\ ~Rested(t[x])
<1>1. Tokens(k) \in 1 .. Burst
  BY TokensBounded DEF IInv, Allow
<1>2. PICK kept \in Evictions(t, k) :
         /\ buckets' = [x \in kept |-> t[x]]
         /\ forgotten' = [x \in Key |->
               forgotten[x] + IF x \in DOMAIN t \ kept /\ ~Rested(t[x]) THEN 1 ELSE 0]
  BY DEF Allow
<1>3. /\ \A x \in Key : forgotten'[x] <= MaxForgotten
      /\ fair' = [fair EXCEPT ![k] = @ - 1]
      /\ clock' = clock
  BY DEF Allow
<1>4. /\ DOMAIN t = DOMAIN buckets \union {k}
      /\ t[k] = [tokens |-> Tokens(k) - 1, updatedAt |-> clock]
      /\ \A x \in DOMAIN buckets \ {k} : t[x] = buckets[x]
  OBVIOUS
<1>5. ~Rested(t[k])
  <2>1. (clock - clock) * Rate = 0
    BY RateAssumption DEF IInv, Table
  <2> QED
    BY <1>4, <2>1, RateAssumption DEF Rested
<1> HIDE DEF t
<1>6. IsFiniteSet(DOMAIN t)
  BY <1>4, FS_AddElement DEF IInv, Table
<1>7. k \in kept /\ kept \subseteq DOMAIN t /\ Cardinality(kept) <= MaxKeys
  <2>1. CASE Cardinality(DOMAIN t) <= MaxKeys
    BY <1>2, <1>4, <2>1 DEF Evictions
  <2>2. CASE ~ (Cardinality(DOMAIN t) <= MaxKeys)
    <3> DEFINE rest == {x \in DOMAIN t : ~Rested(t[x])}
    <3>1. /\ kept \subseteq rest /\ Cardinality(kept) = Least(MaxKeys, Cardinality(rest))
          /\ k \in rest => k \in kept
      BY <1>2, <2>2 DEF Evictions
    <3>2. k \in rest
      BY <1>4, <1>5
    <3>3. Cardinality(rest) \in Nat
      BY <1>6, FS_Subset, FS_CardinalityType
    <3> QED
      BY <3>1, <3>2, <3>3, RateAssumption DEF Least
  <2> QED
    BY <2>1, <2>2
<1>8. IsFiniteSet(kept)
  BY <1>6, <1>7, FS_Subset
<1>9. /\ DOMAIN buckets' = kept
      /\ \A x \in kept : buckets'[x] = t[x]
  BY <1>2
<1>10. \A x \in kept :
          /\ buckets'[x] \in [tokens : 0 .. Burst, updatedAt : Nat]
          /\ buckets'[x] \in Bucket
          /\ buckets'[x].updatedAt <= clock
  BY <1>1, <1>4, <1>7, <1>9, RateAssumption DEF IInv, Table, TypeOK, Bucket, Time
<1>11. fair' \in [Key -> Int] /\ forgotten' \in [Key -> Nat] /\ forgotten' \in [Key -> 0 .. MaxForgotten]
  BY <1>2, <1>3, RateAssumption DEF IInv, Table
<1>12. TypeOK' /\ Table'
  BY <1>3, <1>4, <1>7, <1>8, <1>9, <1>10, <1>11 DEF IInv, TypeOK, Table
<1>13. ASSUME NEW x \in Key
       PROVE  Tokens(x)' - fair'[x] \in 0 .. Burst * forgotten'[x]
  <2>1. /\ Tokens(x) \in 0 .. Burst /\ fair[x] \in Int /\ forgotten[x] \in Nat
        /\ Tokens(x) - fair[x] \in 0 .. Burst * forgotten[x]
    BY TokensBounded DEF IInv, Table, RateHeld
  <2>2. Burst * forgotten[x] \in Nat /\ Burst * (forgotten[x] + 1) = Burst * forgotten[x] + Burst
    BY <2>1, ProductNat, Distribute, RateAssumption
  <2>3. CASE x = k
    <3>1. Tokens(k)' = Least(Burst, Tokens(k) - 1 + (clock - clock) * Rate)
      BY <1>3, <1>4, <1>7, <1>9 DEF Tokens
    <3>2. (clock - clock) * Rate = 0
      BY RateAssumption DEF IInv, Table
    <3>3. Tokens(k)' = Tokens(k) - 1
      BY <1>1, <3>1, <3>2, RateAssumption DEF Least
    <3>4. fair'[k] = fair[k] - 1 /\ forgotten'[k] = forgotten[k]
      BY <1>2, <1>3, <1>7, <2>1, <2>3 DEF IInv, Table
    <3> QED
      BY <2>1, <2>2, <2>3, <3>3, <3>4
  <2>4. CASE x # k /\ x \in kept
    <3>1. Tokens(x)' = Tokens(x)
      BY <1>3, <1>4, <1>7, <1>9, <2>4 DEF Tokens
    <3>2. fair'[x] = fair[x] /\ forgotten'[x] = forgotten[x]
      BY <1>2, <1>3, <2>1, <2>4 DEF IInv, Table
    <3> QED
      BY <2>1, <3>1, <3>2
  <2>5. CASE x # k /\ x \notin kept /\ x \notin DOMAIN buckets
    <3>1. Tokens(x)' = Burst /\ Tokens(x) = Burst
      BY <1>9, <2>5 DEF Tokens
    <3>2. fair'[x] = fair[x] /\ forgotten'[x] = forgotten[x]
      BY <1>2, <1>3, <1>4, <2>1, <2>5 DEF IInv, Table
    <3> QED
      BY <2>1, <3>1, <3>2
  <2>6. CASE x # k /\ x \notin kept /\ x \in DOMAIN buckets
    <3>1. Tokens(x)' = Burst /\ fair'[x] = fair[x] /\ t[x] = buckets[x]
      BY <1>3, <1>4, <1>9, <2>6 DEF Tokens, IInv, Table
    <3>2. CASE Rested(buckets[x])
      <4>1. Tokens(x) = Burst
        BY <2>6, <3>2, RestedIsFull DEF IInv
      <4>2. forgotten'[x] = forgotten[x]
        BY <1>2, <2>1, <3>1, <3>2
      <4> QED
        BY <2>1, <3>1, <4>1, <4>2
    <3>3. CASE ~Rested(buckets[x])
      <4>1. forgotten'[x] = forgotten[x] + 1
        BY <1>2, <1>4, <2>1, <2>6, <3>1, <3>3
      <4> QED
        BY <2>1, <2>2, <3>1, <4>1, RateAssumption
    <3> QED
      BY <3>2, <3>3
  <2> QED
    BY <2>3, <2>4, <2>5, <2>6
<1> QED
  BY <1>12, <1>13 DEF IInv, RateHeld

\* Time fills both buckets alike.
LEMMA TickKeeps ==
    ASSUME IInv, Tick
    PROVE  IInv'
<1>1. TypeOK' /\ Table'
  BY RateAssumption DEF IInv, TypeOK, Table, Tick, Time, Bucket, Least
<1>2. ASSUME NEW x \in Key
      PROVE  Tokens(x)' - fair'[x] \in 0 .. Burst * forgotten'[x]
  <2>1. /\ Tokens(x) \in 0 .. Burst /\ fair[x] \in Int /\ forgotten[x] \in Nat
        /\ Tokens(x) - fair[x] \in 0 .. Burst * forgotten[x]
    BY TokensBounded DEF IInv, Table, RateHeld
  <2>2. Burst * forgotten[x] \in Nat
    BY <2>1, ProductNat, RateAssumption
  <2>3. Tokens(x)' = Least(Burst, Tokens(x) + Rate)
    BY TickGains DEF IInv
  <2>4. fair'[x] = Least(Burst, fair[x] + Rate) /\ forgotten'[x] = forgotten[x]
    BY DEF Tick
  <2> QED
    BY <2>1, <2>2, <2>3, <2>4, RateAssumption DEF Least
<1> QED
  BY <1>1, <1>2 DEF IInv, RateHeld

LEMMA InitHolds == Init => IInv
<1> SUFFICES ASSUME Init PROVE IInv
  OBVIOUS
<1>1. DOMAIN buckets = {}
  BY DEF Init
<1>2. IsFiniteSet(DOMAIN buckets) /\ Cardinality(DOMAIN buckets) = 0
  BY <1>1, FS_EmptySet
<1>3. TypeOK /\ Table
  BY <1>1, <1>2, RateAssumption DEF Init, TypeOK, Table, Time
<1>4. \A k \in Key : Tokens(k) = Burst /\ fair[k] = Burst /\ forgotten[k] = 0
  BY <1>1 DEF Init, Tokens
<1> QED
  BY <1>3, <1>4, RateAssumption DEF IInv, RateHeld

LEMMA NextHolds == IInv /\ [Next]_rateVars => IInv'
<1> SUFFICES ASSUME IInv, [Next]_rateVars PROVE IInv'
  OBVIOUS
<1>1. CASE \E k \in Key : Refuse(k)
  BY <1>1, RefuseKeeps
<1>2. CASE \E k \in Key : Allow(k)
  BY <1>2, AllowKeeps
<1>3. CASE Tick
  BY <1>3, TickKeeps
<1>4. CASE UNCHANGED rateVars
  BY <1>4 DEF rateVars, IInv, TypeOK, Table, RateHeld, Tokens
<1> QED
  BY <1>1, <1>2, <1>3, <1>4 DEF Next

-----------------------------------------------------------------------------
\* The table is never larger than its limit, and holds nothing but buckets, however many
\* keys ask (evict of common/rate-limiter.ts).
THEOREM TypeCorrect == ServicesSpec => []TypeOK
<1>1. ServicesInit => IInv
  BY InitHolds DEF ServicesInit
<1>2. IInv /\ [ServicesNext]_vars => IInv'
  BY NextHolds, StepsApart
<1>3. IInv => TypeOK
  BY DEF IInv
<1> QED
  BY <1>1, <1>2, <1>3, PTL DEF ServicesSpec

\* A key has exactly the tokens of a bucket that is never dropped, and a burst more at most
\* for each time its bucket was dropped before it had rested (consume and evict of
\* common/rate-limiter.ts).
THEOREM RateHeldCorrect == ServicesSpec => []RateHeld
<1>1. ServicesInit => IInv
  BY InitHolds DEF ServicesInit
<1>2. IInv /\ [ServicesNext]_vars => IInv'
  BY NextHolds, StepsApart
<1>3. IInv => RateHeld
  BY DEF IInv
<1> QED
  BY <1>1, <1>2, <1>3, PTL DEF ServicesSpec
=============================================================================
