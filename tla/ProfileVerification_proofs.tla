---------------------- MODULE ProfileVerification_proofs ----------------------
(***************************************************************************)
(* Who becomes verified has changed the background of his profile after    *)
(* the challenge that he answers was prepared, for every number of         *)
(* accounts, profiles and handlers.  A challenge asks for a background     *)
(* that the profile did not show when it was fetched; from then on,        *)
(* wherever the challenge is kept, the profile shows that background only  *)
(* if it was repainted.                                                    *)
(***************************************************************************)
EXTENDS ProfileVerification, TLAPS

\* What is shown of a profile answers the challenge only if its background was changed
\* since the challenge was prepared; changes are never taken back.
Held(challenge, shown) ==
    /\ challenge.before <= shown.changes
    /\ shown.background = challenge.background => challenge.before < shown.changes

\* The profile as it was fetched is the one that is shown, or it was repainted since.
Seen(then, shown) ==
    /\ then.changes <= shown.changes
    /\ then.changes = shown.changes => then.background = shown.background

\* A member's row, and a handler, when the platform shows the profiles w.
RowFits(m, w) ==
    /\ m.verified => m.profile # NoProfile /\ m.name # NoName
    /\ m.challenge # NoChallenge => Held(m.challenge, w[m.challenge.profile])

\* A handler keeps a challenge or a fetched profile, of which the same is true.
JobFits(j, w) ==
    /\ j.pc \in {"check", "issue"} => Seen(j.shown, w[j.profile])
    /\ j.pc \in {"fetch", "retake", "store"} =>
          j.profile = j.challenge.profile /\ Held(j.challenge, w[j.profile])
    /\ j.pc \in {"retake", "store"} =>
          j.shown # Unseen /\ j.challenge.before < j.shown.changes

\* The inductive invariant.
IInv ==
    /\ TypeOK
    /\ \A a \in Account : RowFits(members[a], world)
    /\ \A c \in Call : JobFits(job[c], world)

\* Handlers, suspended or idle.
Jobs == StartJob \union ConfirmJob \union RecheckJob \union LastJob \union {Idle}

-----------------------------------------------------------------------------
\* Handlers, challenges and profiles

\* The await at which a handler is suspended tells what it keeps.
LEMMA JobKinds ==
    ASSUME NEW j \in Jobs
    PROVE  /\ j.pc \in {"check", "issue"} => j \in StartJob
           /\ j.pc \in {"fetch", "retake", "store"} => j \in ConfirmJob
           /\ j.pc \in {"recheck", "compare", "revoke"} => j \in RecheckJob
           /\ j.pc \in {"clear", "pass", "forget"} => j \in LastJob
<1>1. CASE j \in StartJob
  BY <1>1 DEF StartJob
<1>2. CASE j \in ConfirmJob
  BY <1>2 DEF ConfirmJob
<1>3. CASE j \in RecheckJob
  BY <1>3 DEF RecheckJob
<1>4. CASE j \in LastJob
  BY <1>4 DEF LastJob
<1>5. CASE j = Idle
  BY <1>5 DEF Idle
<1> QED
  BY <1>1, <1>2, <1>3, <1>4, <1>5 DEF Jobs

\* A handler that ended, or that only has an account left, keeps nothing to worry about.
LEMMA LastFits ==
    /\ Idle \in Jobs /\ \A w : JobFits(Idle, w)
    /\ \A pc \in {"clear", "pass", "forget"}, a \in Account :
          LET j == [pc |-> pc, account |-> a]
          IN  j \in Jobs /\ \A w : JobFits(j, w)
<1>1. Idle \in Jobs /\ \A w : JobFits(Idle, w)
  BY DEF Idle, Jobs, JobFits
<1>2. ASSUME NEW pc \in {"clear", "pass", "forget"}, NEW a \in Account, NEW w
      PROVE  [pc |-> pc, account |-> a] \in Jobs /\ JobFits([pc |-> pc, account |-> a], w)
  BY DEF Jobs, LastJob, JobFits
<1> QED
  BY <1>1, <1>2

\* A member has no challenge, or one of a profile.
LEMMA ChallengeNamesProfile ==
    ASSUME NEW challenge \in Challenge \union {NoChallenge}
    PROVE  challenge # NoChallenge <=> challenge \in Challenge
  BY NoneAssumption DEF Challenge, NoChallenge

\* Once a challenge cannot be answered without a change, it never can.
LEMMA HeldOn ==
    ASSUME NEW challenge \in Challenge, NEW then \in Shown, NEW shown \in Shown,
           Held(challenge, then), Seen(then, shown)
    PROVE  Held(challenge, shown)
  BY TimeAssumption DEF Challenge, Shown, Held, Seen

\* What was fetched stays what is shown, or was repainted since.
LEMMA SeenOn ==
    ASSUME NEW first \in Shown, NEW then \in Shown, NEW shown \in Shown,
           Seen(first, then), Seen(then, shown)
    PROVE  Seen(first, shown)
  BY TimeAssumption DEF Shown, Seen

\* Nobody is asked for the background that he shows.
LEMMA AskedIsHeld ==
    ASSUME NEW then \in Shown, NEW shown \in Shown, Seen(then, shown), NEW challenge \in Challenge,
           challenge.background # then.background, challenge.before = then.changes
    PROVE  Held(challenge, shown)
  BY TimeAssumption DEF Challenge, Shown, Held, Seen

-----------------------------------------------------------------------------
\* The invariant is kept by every step

\* What every step uses of the invariant.
LEMMA Known ==
    ASSUME IInv
    PROVE  /\ now \in Time /\ world \in [Profile -> Shown]
           /\ members \in [Account -> MemberRow]
           /\ passed \in [Account -> Time \union {Never}]
           /\ job \in [Call -> Jobs]
           /\ \A a \in Account : RowFits(members[a], world)
           /\ \A c \in Call : JobFits(job[c], world)
  BY DEF IInv, TypeOK, Jobs

\* The invariant of the next state, from what a step does to each row and handler.
LEMMA Assembled ==
    ASSUME now' \in Time, world' \in [Profile -> Shown], members' \in [Account -> MemberRow],
           passed' \in [Account -> Time \union {Never}], job' \in [Call -> Jobs],
           \A a \in Account : RowFits(members'[a], world'),
           \A c \in Call : JobFits(job'[c], world')
    PROVE  IInv'
<1>1. TypeOK'
  BY DEF TypeOK, Jobs, RowFits, JobFits
<1> QED
  BY <1>1 DEF IInv

\* A handler goes on to j.
LEMMA JobKeeps ==
    ASSUME IInv, NEW c \in Call, NEW j \in Jobs, JobFits(j, world),
           job' = [job EXCEPT ![c] = j], UNCHANGED <<now, world, members>>,
           passed' \in [Account -> Time \union {Never}]
    PROVE  IInv'
<1>1. job' \in [Call -> Jobs] /\ \A d \in Call : JobFits(job'[d], world')
  BY Known
<1> QED
  BY <1>1, Known, Assembled

\* A handler stores the row m for the account a, and goes on to j.
LEMMA RowKeeps ==
    ASSUME IInv, NEW c \in Call, NEW j \in Jobs, JobFits(j, world),
           job' = [job EXCEPT ![c] = j], UNCHANGED <<now, world, passed>>,
           NEW a \in Account, NEW m \in MemberRow, RowFits(m, world),
           members' = [members EXCEPT ![a] = m]
    PROVE  IInv'
<1>1. job' \in [Call -> Jobs] /\ \A d \in Call : JobFits(job'[d], world')
  BY Known
<1>2. members' \in [Account -> MemberRow] /\ \A b \in Account : RowFits(members'[b], world')
  BY Known
<1> QED
  BY <1>1, <1>2, Known, Assembled

\* The owner of a profile changes it.
LEMMA ProfileKeeps ==
    ASSUME IInv, NEW p \in Profile, NEW shown \in Shown, Seen(world[p], shown),
           world' = [world EXCEPT ![p] = shown], UNCHANGED <<now, members, passed, job>>
    PROVE  IInv'
<1>1. /\ world \in [Profile -> Shown] /\ world' \in [Profile -> Shown]
      /\ \A q \in Profile : Seen(world[q], world'[q])
  <2>1. \A q \in Profile : Seen(world[q], world[q])
    BY Known, TimeAssumption DEF Seen, Shown
  <2> QED
    BY <2>1, Known
<1>2. ASSUME NEW a \in Account PROVE RowFits(members'[a], world')
  <2>1. RowFits(members[a], world) /\ members[a].challenge \in Challenge \union {NoChallenge}
    BY Known DEF MemberRow
  <2>2. members[a].challenge # NoChallenge =>
           Held(members[a].challenge, world'[members[a].challenge.profile])
    <3> SUFFICES ASSUME members[a].challenge # NoChallenge
                 PROVE  Held(members[a].challenge, world'[members[a].challenge.profile])
      OBVIOUS
    <3>1. members[a].challenge \in Challenge /\ members[a].challenge.profile \in Profile
      BY <2>1, ChallengeNamesProfile DEF Challenge
    <3> QED
      BY <1>1, <2>1, <3>1, HeldOn DEF RowFits
  <2> QED
    BY <2>1, <2>2 DEF RowFits
<1>3. ASSUME NEW c \in Call PROVE JobFits(job'[c], world')
  <2> DEFINE j == job[c]
  <2>1. j \in Jobs /\ JobFits(j, world) /\ job'[c] = j
    BY Known
  <2> HIDE DEF j
  <2>2. CASE j.pc \in {"check", "issue"}
    <3>1. j.shown \in Shown /\ j.profile \in Profile
      BY <2>1, <2>2, JobKinds DEF StartJob
    <3>2. Seen(j.shown, world'[j.profile])
      BY <1>1, <2>1, <2>2, <3>1, SeenOn DEF JobFits
    <3> QED
      BY <2>1, <2>2, <3>2 DEF JobFits
  <2>3. CASE j.pc \in {"fetch", "retake", "store"}
    <3>1. j.challenge \in Challenge /\ j.profile \in Profile
      BY <2>1, <2>3, JobKinds DEF ConfirmJob
    <3>2. Held(j.challenge, world'[j.profile])
      BY <1>1, <2>1, <2>3, <3>1, HeldOn DEF JobFits
    <3> QED
      BY <2>1, <2>3, <3>2 DEF JobFits
  <2>4. CASE j.pc \notin {"check", "issue", "fetch", "retake", "store"}
    BY <2>1, <2>4 DEF JobFits
  <2> QED
    BY <2>2, <2>3, <2>4
<1> QED
  BY <1>1, <1>2, <1>3, Known, Assembled

\* startMaplestoryWorldVerification
LEMMA StartKeeps ==
    ASSUME IInv, NEW c \in Call,
           \/ \E a \in Account, p \in Profile : StartFetch(c, a, p)
           \/ StartCheck(c) \/ Issue(c)
    PROVE  IInv'
<1>1. ASSUME NEW a \in Account, NEW p \in Profile, StartFetch(c, a, p) PROVE IInv'
  <2> DEFINE j == [pc |-> "check", account |-> a, profile |-> p, shown |-> world[p]]
  <2>1. world[p] \in Shown /\ Seen(world[p], world[p])
    BY Known, TimeAssumption DEF Seen, Shown
  <2>2. j \in StartJob /\ j.pc = "check" /\ j.shown = world[p] /\ j.profile = p
    BY <2>1 DEF StartJob
  <2>3. job' = [job EXCEPT ![c] = j] /\ UNCHANGED <<now, world, members, passed>>
    BY <1>1 DEF StartFetch, Begins
  <2> HIDE DEF j
  <2>4. j \in Jobs /\ JobFits(j, world)
    BY <2>1, <2>2 DEF Jobs, JobFits
  <2> QED
    BY <2>3, <2>4, Known, JobKeeps
<1>2. CASE StartCheck(c)
  <2> DEFINE j == [job[c] EXCEPT !.pc = "issue"]
  <2>1. job[c] \in StartJob /\ job[c].pc = "check" /\ JobFits(job[c], world)
    BY <1>2, Known, JobKinds DEF StartCheck
  <2>2. /\ j \in StartJob /\ j.pc = "issue" /\ j.shown = job[c].shown
        /\ j.profile = job[c].profile
    BY <2>1 DEF StartJob
  <2>3. \/ job' = [job EXCEPT ![c] = Idle]
        \/ job' = [job EXCEPT ![c] = j]
    BY <1>2 DEF StartCheck, Ends, Goes
  <2> HIDE DEF j
  <2>4. j \in Jobs /\ JobFits(j, world)
    BY <2>1, <2>2 DEF Jobs, JobFits
  <2>5. UNCHANGED <<now, world, members, passed>>
    BY <1>2 DEF StartCheck
  <2> QED
    BY <2>3, <2>4, <2>5, Known, LastFits, JobKeeps
<1>3. CASE Issue(c)
  <2> DEFINE a == job[c].account
             shown == job[c].shown
  <2>1. /\ a \in Account /\ shown \in Shown /\ job[c].profile \in Profile
        /\ Seen(shown, world[job[c].profile])
    BY <1>3, Known, JobKinds DEF Issue, StartJob, JobFits
  <2>2. PICK b \in Background \ {shown.background} :
           members' = [members EXCEPT ![a].challenge =
                        [profile |-> job[c].profile, name |-> shown.name,
                         background |-> b, at |-> now, before |-> shown.changes]]
    BY <1>3 DEF Issue
  <2> DEFINE challenge == [profile |-> job[c].profile, name |-> shown.name,
                           background |-> b, at |-> now, before |-> shown.changes]
             m == [members[a] EXCEPT !.challenge = challenge]
  <2>3. /\ challenge \in Challenge /\ challenge.profile = job[c].profile
        /\ challenge.background # shown.background /\ challenge.before = shown.changes
    BY <2>1, Known DEF Challenge, Shown
  <2>4. Held(challenge, world[challenge.profile])
    <3>1. world[job[c].profile] \in Shown
      BY <2>1, Known
    <3> HIDE DEF challenge, shown
    <3> QED
      BY <2>1, <2>3, <3>1, AskedIsHeld
  <2>5. members' = [members EXCEPT ![a] = m]
    BY <2>2
  <2> HIDE DEF challenge
  <2>6. m \in MemberRow /\ RowFits(m, world)
    <3>1. members[a] \in MemberRow /\ RowFits(members[a], world)
      BY <2>1, Known
    <3>2. /\ m \in MemberRow /\ m.verified = members[a].verified
          /\ m.profile = members[a].profile /\ m.name = members[a].name
          /\ m.challenge = challenge
      BY <2>3, <3>1 DEF MemberRow
    <3> QED
      BY <2>4, <3>1, <3>2 DEF RowFits
  <2>7. job' = [job EXCEPT ![c] = Idle] /\ UNCHANGED <<now, world, passed>>
    BY <1>3 DEF Issue, Ends
  <2> HIDE DEF m, a
  <2> QED
    BY <2>1, <2>5, <2>6, <2>7, LastFits, RowKeeps
<1> QED
  BY <1>1, <1>2, <1>3

\* updateMaplestoryWorldId, until it stores the profile
LEMMA ConfirmKeeps ==
    ASSUME IInv, NEW c \in Call,
           \/ \E a \in Account : ConfirmLoad(c, a)
           \/ ConfirmFetch(c) \/ ConfirmCheck(c)
    PROVE  IInv'
<1>1. ASSUME NEW a \in Account, ConfirmLoad(c, a) PROVE IInv'
  <2> DEFINE challenge == members[a].challenge
             j == [pc |-> "fetch", account |-> a, profile |-> challenge.profile,
                   challenge |-> challenge, shown |-> Unseen]
             k == [pc |-> "clear", account |-> a]
  <2>1. members[a] \in MemberRow /\ RowFits(members[a], world) /\ challenge # NoChallenge
    BY <1>1, Known DEF ConfirmLoad
  <2>2. /\ challenge \in Challenge /\ challenge.profile \in Profile
        /\ Held(challenge, world[challenge.profile])
    <3>1. challenge \in Challenge \union {NoChallenge}
      BY <2>1 DEF MemberRow
    <3>2. challenge \in Challenge
      BY <2>1, <3>1, ChallengeNamesProfile
    <3> QED
      BY <2>1, <3>2 DEF Challenge, RowFits
  <2>3. (job' = [job EXCEPT ![c] = j] \/ job' = [job EXCEPT ![c] = k])
        /\ UNCHANGED <<now, world, members, passed>>
    BY <1>1 DEF ConfirmLoad, Begins
  <2> HIDE DEF challenge
  <2>4. j \in ConfirmJob /\ j.pc = "fetch" /\ j.challenge = challenge
        /\ j.profile = challenge.profile
    BY <2>2 DEF ConfirmJob
  <2>5. k \in Jobs /\ JobFits(k, world)
    BY LastFits
  <2> HIDE DEF j, k
  <2>6. j \in Jobs /\ JobFits(j, world)
    BY <2>2, <2>4 DEF Jobs, JobFits
  <2> QED
    BY <2>3, <2>5, <2>6, Known, JobKeeps
<1>2. CASE ConfirmFetch(c)
  <2> DEFINE shown == world[job[c].profile]
             challenge == job[c].challenge
             j == [job[c] EXCEPT !.pc = "retake", !.shown = shown]
             k == [pc |-> "clear", account |-> job[c].account]
  <2>1. job[c] \in ConfirmJob /\ job[c].pc = "fetch" /\ JobFits(job[c], world)
    BY <1>2, Known, JobKinds DEF ConfirmFetch
  <2>2. /\ job[c].account \in Account /\ job[c].profile \in Profile /\ shown \in Shown
        /\ challenge \in Challenge /\ job[c].profile = challenge.profile
        /\ Held(challenge, shown)
    BY <2>1, Known DEF ConfirmJob, JobFits
  <2>3. /\ j \in ConfirmJob /\ j.pc = "retake" /\ j.shown = shown
        /\ j.profile = job[c].profile /\ j.challenge = challenge
    BY <2>1, <2>2 DEF ConfirmJob
  <2>4. k \in Jobs /\ JobFits(k, world)
    BY <2>2, LastFits
  <2>5. \/ job' = [job EXCEPT ![c] = k]
        \/ job' = [job EXCEPT ![c] = Idle]
        \/ shown.background = challenge.background /\ job' = [job EXCEPT ![c] = j]
    BY <1>2, Known DEF ConfirmFetch, GoesLast, Ends
  <2>6. UNCHANGED <<now, world, members, passed>>
    BY <1>2 DEF ConfirmFetch
  <2> HIDE DEF j, k, challenge
  <2>7. shown.background = challenge.background => j \in Jobs /\ JobFits(j, world)
    <3>1. shown # Unseen
      BY <2>2 DEF Shown, Unseen
    <3> QED
      BY <2>1, <2>2, <2>3, <3>1 DEF Jobs, JobFits, Held
  <2> HIDE DEF shown
  <2> QED
    BY <2>4, <2>5, <2>6, <2>7, Known, LastFits, JobKeeps
<1>3. CASE ConfirmCheck(c)
  <2> DEFINE j == [job[c] EXCEPT !.pc = "store"]
  <2>1. job[c] \in ConfirmJob /\ job[c].pc = "retake" /\ JobFits(job[c], world)
    BY <1>3, Known, JobKinds DEF ConfirmCheck
  <2>2. /\ j \in ConfirmJob /\ j.pc = "store" /\ j.shown = job[c].shown
        /\ j.profile = job[c].profile /\ j.challenge = job[c].challenge
    BY <2>1 DEF ConfirmJob
  <2>3. \/ job' = [job EXCEPT ![c] = Idle]
        \/ job' = [job EXCEPT ![c] = j]
    BY <1>3 DEF ConfirmCheck, Ends, Goes
  <2> HIDE DEF j
  <2>4. j \in Jobs /\ JobFits(j, world)
    BY <2>1, <2>2 DEF Jobs, JobFits
  <2>5. UNCHANGED <<now, world, members, passed>>
    BY <1>3 DEF ConfirmCheck
  <2> QED
    BY <2>3, <2>4, <2>5, Known, LastFits, JobKeeps
<1> QED
  BY <1>1, <1>2, <1>3

\* updateMaplestoryWorldId and clearMaplestoryWorldChallenge, when they write
LEMMA WriteKeeps ==
    ASSUME IInv, NEW c \in Call, ConfirmStore(c) \/ ConfirmPass(c) \/ Clear(c)
    PROVE  IInv'
<1>1. CASE ConfirmStore(c)
  <2> DEFINE a == job[c].account
             m == [profile |-> job[c].profile, name |-> job[c].shown.name,
                   verified |-> TRUE, challenge |-> NoChallenge]
             j == [pc |-> "pass", account |-> a]
  <2>1. job[c] \in ConfirmJob /\ job[c].shown # Unseen
    BY <1>1, Known, JobKinds DEF ConfirmStore, JobFits
  <2>2. a \in Account /\ job[c].profile \in Profile /\ job[c].shown.name \in Name
    BY <2>1 DEF ConfirmJob, Shown
  <2>3. m \in MemberRow /\ RowFits(m, world)
    BY <2>2, NoneAssumption DEF MemberRow, RowFits
  <2>4. j \in Jobs /\ JobFits(j, world)
    BY <2>2, LastFits
  <2>5. /\ members' = [members EXCEPT ![a] = m] /\ job' = [job EXCEPT ![c] = j]
        /\ UNCHANGED <<now, world, passed>>
    BY <1>1 DEF ConfirmStore, GoesLast
  <2> HIDE DEF a, m, j
  <2> QED
    BY <2>2, <2>3, <2>4, <2>5, RowKeeps
<1>2. CASE ConfirmPass(c)
  <2>1. passed' = [passed EXCEPT ![job[c].account] = now]
    BY <1>2 DEF ConfirmPass
  <2>2. passed' \in [Account -> Time \union {Never}]
    BY <2>1, Known
  <2>3. job' = [job EXCEPT ![c] = Idle] /\ UNCHANGED <<now, world, members>>
    BY <1>2 DEF ConfirmPass, Ends
  <2> QED
    BY <2>2, <2>3, LastFits, JobKeeps
<1>3. CASE Clear(c)
  <2> DEFINE a == job[c].account
             m == [members[a] EXCEPT !.challenge = NoChallenge]
  <2>1. a \in Account
    BY <1>3, Known, JobKinds DEF Clear, LastJob
  <2>2. m \in MemberRow /\ RowFits(m, world)
    <3>1. members[a] \in MemberRow /\ RowFits(members[a], world)
      BY <2>1, Known
    <3>2. /\ m \in MemberRow /\ m.verified = members[a].verified
          /\ m.profile = members[a].profile /\ m.name = members[a].name
          /\ m.challenge = NoChallenge
      BY <3>1 DEF MemberRow
    <3> QED
      BY <3>1, <3>2 DEF RowFits
  <2>3. /\ members' = [members EXCEPT ![a] = m] /\ job' = [job EXCEPT ![c] = Idle]
        /\ UNCHANGED <<now, world, passed>>
    BY <1>3 DEF Clear, Ends
  <2> HIDE DEF a, m
  <2> QED
    BY <2>1, <2>2, <2>3, LastFits, RowKeeps
<1> QED
  BY <1>1, <1>2, <1>3

\* refreshMverseVerification
LEMMA RecheckKeeps ==
    ASSUME IInv, NEW c \in Call,
           \/ \E a \in Account : RecheckLoad(c, a)
           \/ RecheckCached(c) \/ Compare(c) \/ Revoke(c) \/ Forget(c)
    PROVE  IInv'
<1> DEFINE Onward(pc) == [job[c] EXCEPT !.pc = pc]
<1>1. ASSUME NEW a \in Account, RecheckLoad(c, a) PROVE IInv'
  <2> DEFINE j == [pc |-> "recheck", account |-> a, profile |-> members[a].profile,
                   name |-> members[a].name]
  <2>1. /\ members[a] \in MemberRow /\ members[a].profile # NoProfile
        /\ members[a].name # NoName
    BY <1>1, Known DEF RecheckLoad, RowFits
  <2>2. j \in RecheckJob /\ j.pc = "recheck"
    BY <2>1 DEF RecheckJob, MemberRow
  <2>3. job' = [job EXCEPT ![c] = j] /\ UNCHANGED <<now, world, members, passed>>
    BY <1>1 DEF RecheckLoad, Begins
  <2> HIDE DEF j
  <2>4. j \in Jobs /\ JobFits(j, world)
    BY <2>2 DEF Jobs, JobFits
  <2> QED
    BY <2>3, <2>4, Known, JobKeeps
<1>2. ASSUME job[c] \in RecheckJob, NEW pc \in {"compare", "revoke"}
      PROVE  Onward(pc) \in Jobs /\ JobFits(Onward(pc), world)
  <2>1. Onward(pc) \in RecheckJob /\ Onward(pc).pc = pc
    BY <1>2 DEF RecheckJob
  <2> HIDE DEF Onward
  <2> QED
    BY <2>1 DEF Jobs, JobFits
<1>3. CASE RecheckCached(c)
  <2>1. job[c] \in RecheckJob
    BY <1>3, Known, JobKinds DEF RecheckCached
  <2>2. /\ job' = [job EXCEPT ![c] = Idle] \/ job' = [job EXCEPT ![c] = Onward("compare")]
        /\ UNCHANGED <<now, world, members, passed>>
    BY <1>3 DEF RecheckCached, Ends, Goes
  <2>3. Onward("compare") \in Jobs /\ JobFits(Onward("compare"), world)
    BY <1>2, <2>1
  <2> HIDE DEF Onward
  <2> QED
    BY <2>2, <2>3, Known, LastFits, JobKeeps
<1>4. CASE Compare(c)
  <2>1. job[c] \in RecheckJob
    BY <1>4, Known, JobKinds DEF Compare
  <2>2. /\ job' = [job EXCEPT ![c] = Idle] \/ job' = [job EXCEPT ![c] = Onward("revoke")]
        /\ UNCHANGED <<now, world, members>>
        /\ passed' = [passed EXCEPT ![job[c].account] = now] \/ passed' = passed
    BY <1>4 DEF Compare, Ends, Goes
  <2>3. Onward("revoke") \in Jobs /\ JobFits(Onward("revoke"), world)
    BY <1>2, <2>1
  <2>4. passed' \in [Account -> Time \union {Never}]
    BY <2>2, Known
  <2> HIDE DEF Onward
  <2> QED
    BY <2>2, <2>3, <2>4, LastFits, JobKeeps
<1>5. CASE Revoke(c)
  <2> DEFINE a == job[c].account
             m == [members[a] EXCEPT !.verified = FALSE]
             j == [pc |-> "forget", account |-> a]
  <2>1. a \in Account
    BY <1>5, Known, JobKinds DEF Revoke, RecheckJob
  <2>2. m \in MemberRow /\ RowFits(m, world)
    <3>1. members[a] \in MemberRow /\ RowFits(members[a], world)
      BY <2>1, Known
    <3>2. m \in MemberRow /\ ~m.verified /\ m.challenge = members[a].challenge
      BY <3>1 DEF MemberRow
    <3> QED
      BY <3>1, <3>2 DEF RowFits
  <2>3. j \in Jobs /\ JobFits(j, world)
    BY <2>1, LastFits
  <2>4. /\ members' = [members EXCEPT ![a] = m] /\ job' = [job EXCEPT ![c] = j]
        /\ UNCHANGED <<now, world, passed>>
    BY <1>5 DEF Revoke, GoesLast
  <2> HIDE DEF a, m, j
  <2> QED
    BY <2>1, <2>2, <2>3, <2>4, RowKeeps
<1>6. CASE Forget(c)
  <2>1. passed' = [passed EXCEPT ![job[c].account] = Never]
    BY <1>6 DEF Forget
  <2>2. passed' \in [Account -> Time \union {Never}]
    BY <2>1, Known
  <2>3. job' = [job EXCEPT ![c] = Idle] /\ UNCHANGED <<now, world, members>>
    BY <1>6 DEF Forget, Ends
  <2> QED
    BY <2>2, <2>3, LastFits, JobKeeps
<1> QED
  BY <1>1, <1>3, <1>4, <1>5, <1>6

\* A handler or the process stops, the owner of a profile changes it, time passes.
LEMMA RestKeeps ==
    ASSUME IInv,
           \/ \E c \in Call : Abort(c)
           \/ \E p \in Profile, n \in Name : Rename(p, n)
           \/ \E p \in Profile, b \in Background : Repaint(p, b)
           \/ Restart \/ Tick
    PROVE  IInv'
<1>1. ASSUME NEW c \in Call, Abort(c) PROVE IInv'
  BY <1>1, Known, LastFits, JobKeeps DEF Abort, Ends
<1>2. ASSUME NEW p \in Profile, NEW n \in Name, Rename(p, n) PROVE IInv'
  <2> DEFINE shown == [world[p] EXCEPT !.name = n]
  <2>1. world[p] \in Shown
    BY Known
  <2>2. shown \in Shown /\ Seen(world[p], shown)
    BY <2>1, TimeAssumption DEF Shown, Seen
  <2>3. world' = [world EXCEPT ![p] = shown] /\ UNCHANGED <<now, members, passed, job>>
    BY <1>2 DEF Rename
  <2> HIDE DEF shown
  <2> QED
    BY <2>2, <2>3, ProfileKeeps
<1>3. ASSUME NEW p \in Profile, NEW b \in Background, Repaint(p, b) PROVE IInv'
  <2> DEFINE shown == [world[p] EXCEPT !.background = b, !.changes = world[p].changes + 1]
  <2>1. world[p] \in Shown /\ world[p].changes < MaxChanges
    BY <1>3, Known DEF Repaint
  <2>2. shown \in Shown /\ Seen(world[p], shown)
    <3>1. /\ world[p].changes \in 0 .. MaxChanges /\ world[p].changes + 1 \in 0 .. MaxChanges
          /\ world[p].changes < world[p].changes + 1
      BY <2>1, TimeAssumption DEF Shown
    <3>2. shown \in Shown /\ shown.changes = world[p].changes + 1
      BY <2>1, <3>1 DEF Shown
    <3> HIDE DEF shown
    <3> QED
      BY <3>1, <3>2 DEF Seen
  <2>3. world' = [world EXCEPT ![p] = shown] /\ UNCHANGED <<now, members, passed, job>>
    BY <1>3 DEF Repaint
  <2> HIDE DEF shown
  <2> QED
    BY <2>2, <2>3, ProfileKeeps
<1>4. CASE Restart
  <2>1. /\ passed' = [a \in Account |-> Never] /\ job' = [c \in Call |-> Idle]
        /\ UNCHANGED <<now, world, members>>
    BY <1>4 DEF Restart
  <2>2. job' \in [Call -> Jobs] /\ \A c \in Call : JobFits(job'[c], world')
    BY <2>1, LastFits
  <2> QED
    BY <2>1, <2>2, Known, Assembled
<1>5. CASE Tick
  <2>1. now' \in Time /\ UNCHANGED <<world, members, passed, job>>
    BY <1>5, Known, TimeAssumption DEF Tick, Time
  <2> QED
    BY <2>1, Known, Assembled
<1> QED
  BY <1>1, <1>2, <1>3, <1>4, <1>5

\* Nobody has a challenge, and no handler runs.
LEMMA InitHolds == Init => IInv
<1> SUFFICES ASSUME Init PROVE IInv
  OBVIOUS
<1>1. now \in Time /\ passed \in [Account -> Time \union {Never}]
  BY TimeAssumption DEF Init, Time
<1>2. world \in [Profile -> Shown]
  BY DEF Init
<1>3. members \in [Account -> MemberRow] /\ \A a \in Account : RowFits(members[a], world)
  BY DEF Init, NewMember, MemberRow, RowFits
<1>4. job \in [Call -> Jobs] /\ \A c \in Call : JobFits(job[c], world)
  BY LastFits DEF Init
<1>5. TypeOK
  BY <1>1, <1>2, <1>3, <1>4 DEF TypeOK, Jobs, RowFits, JobFits
<1> QED
  BY <1>3, <1>4, <1>5 DEF IInv

\* Every step keeps the invariant.
LEMMA NextHolds == IInv /\ [Next]_vars => IInv'
<1> SUFFICES ASSUME IInv, [Next]_vars PROVE IInv'
  OBVIOUS
<1>1. CASE Next
  BY <1>1, StartKeeps, ConfirmKeeps, WriteKeeps, RecheckKeeps, RestKeeps DEF Next
<1>2. CASE UNCHANGED vars
  BY <1>2, Known, Assembled DEF vars
<1> QED
  BY <1>1, <1>2

\* So it always holds.
LEMMA Inductive == Spec => []IInv
  BY InitHolds, NextHolds, PTL DEF Spec

-----------------------------------------------------------------------------
\* Members, challenges and suspended handlers have their types, and a verified member has
\* the profile and the name it was verified for (member.service.ts).
THEOREM TypeCorrect == Spec => []TypeOK
<1>1. IInv => TypeOK
  BY DEF IInv
<1> QED
  BY <1>1, Inductive, PTL

\* updateMaplestoryWorldId stores a profile only when the background that its challenge
\* asks for was put there after the server had looked at it for this challenge, however
\* handlers, restarts and changes of the profile interleave.
THEOREM ChallengeAnsweredCorrect == Spec => ChallengeAnswered
<1> DEFINE A == \A c \in Call :
                   job[c].pc = "store" /\ ConfirmStore(c) =>
                      LET challenge == job[c].challenge
                      IN  /\ challenge.profile = members'[job[c].account].profile
                          /\ challenge.before < job[c].shown.changes
<1>1. IInv /\ [Next]_vars => [A]_vars
  <2> SUFFICES ASSUME IInv, NEW c \in Call, job[c].pc = "store", ConfirmStore(c)
               PROVE  /\ job[c].challenge.profile = members'[job[c].account].profile
                      /\ job[c].challenge.before < job[c].shown.changes
    OBVIOUS
  <2>1. /\ job[c] \in ConfirmJob /\ job[c].profile = job[c].challenge.profile
        /\ job[c].challenge.before < job[c].shown.changes
    BY Known, JobKinds DEF JobFits
  <2>2. job[c].account \in Account
    BY <2>1 DEF ConfirmJob
  <2>3. members'[job[c].account].profile = job[c].profile
    BY <2>2, Known DEF ConfirmStore
  <2> QED
    BY <2>1, <2>3
<1> QED
  BY <1>1, Inductive, PTL DEF Spec, ChallengeAnswered
=============================================================================
