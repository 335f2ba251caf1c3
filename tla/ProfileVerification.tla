-------------------------- MODULE ProfileVerification --------------------------
(***************************************************************************)
(* How an account proves that a profile of the game's platform is its own  *)
(* (member.service.ts): the server picks a background that the profile     *)
(* does not show, the owner of the profile changes it, and the server      *)
(* looks again.  The trade board later rechecks the name of a verified     *)
(* profile, at intervals, and revokes a verification whose name changed.   *)
(* Handlers wait for the platform and for the database; the profiles       *)
(* change whenever their owners like.                                      *)
(***************************************************************************)
EXTENDS Integers, FiniteSets, TLC

CONSTANTS
    Account, Profile, Name, Background,
    Call,                 \* overlapping handlers
    NoProfile, NoName,
    ChallengeTtl,         \* MVERSE_CHALLENGE_TTL_MS, in ticks
    RecheckInterval,      \* MVERSE_RECHECK_INTERVAL_MS, in ticks
    MaxTime, MaxChanges   \* the bounds on the clock, and on changes of a background

ASSUME NoneAssumption == NoProfile \notin Profile /\ NoName \notin Name
ASSUME TimeAssumption == {ChallengeTtl, RecheckInterval, MaxTime, MaxChanges} \subseteq Nat
ASSUME CallAssumption == IsFiniteSet(Call)

VARIABLES
    now,
    world,    \* the profiles, as the platform shows them
    members,  \* sso_members
    passed,   \* mverseRecheckPassedAt, which a restart empties
    job       \* the handlers, and the await at which each is suspended

vars == <<now, world, members, passed, job>>

-----------------------------------------------------------------------------
\* Profiles, members, handlers

Time == 0 .. MaxTime
Never == -1

\* changes counts the changes of the background, which the platform does not tell.
Shown == [name : Name, background : Background, changes : 0 .. MaxChanges]

Unseen == [changes |-> -1]

\* before: changes of the profile when the challenge was prepared (not stored).
Challenge == [profile : Profile, name : Name, background : Background, at : Time,
              before : 0 .. MaxChanges]
NoChallenge == [profile |-> NoProfile]

MemberRow == [profile : Profile \union {NoProfile}, name : Name \union {NoName},
              verified : BOOLEAN, challenge : Challenge \union {NoChallenge}]
NewMember == [profile |-> NoProfile, name |-> NoName, verified |-> FALSE,
              challenge |-> NoChallenge]

\* assertMverseProfileNotTaken asks for the profile, verified or lapsed.
Taken(a, p) == \E b \in Account \ {a} : members[b].profile = p

\* What a handler keeps across its awaits: the profile as it was fetched (shown), and
\* of the member as it was loaded, the challenge to answer or the name to recheck.
StartJob == [pc : {"check", "issue"}, account : Account, profile : Profile, shown : Shown]
ConfirmJob == [pc : {"fetch", "retake", "store"}, account : Account,
               profile : Profile, challenge : Challenge, shown : Shown \union {Unseen}]
RecheckJob == [pc : {"recheck", "compare", "revoke"}, account : Account,
               profile : Profile, name : Name]
LastJob == [pc : {"clear", "pass", "forget"}, account : Account]
Idle == [pc |-> "idle"]

\* A handler that waits for its first answer.
Begins(c, j) ==
    /\ job[c] = Idle
    /\ job' = [job EXCEPT ![c] = j]
    /\ UNCHANGED <<now, world, members, passed>>

Goes(c, pc) == job' = [job EXCEPT ![c].pc = pc]
GoesLast(c, pc) == job' = [job EXCEPT ![c] = [pc |-> pc, account |-> job[c].account]]
Ends(c) == job' = [job EXCEPT ![c] = Idle]

-----------------------------------------------------------------------------
\* startMaplestoryWorldVerification: fetch, look whether it is taken, store a challenge.
\* fetchMverseProfileByCode asks for the name and for the background at once; both
\* answers are taken to show the profile at one moment.

StartFetch(c, a, p) ==
    Begins(c, [pc |-> "check", account |-> a, profile |-> p, shown |-> world[p]])

StartCheck(c) ==
    /\ job[c].pc = "check"
    /\ IF Taken(job[c].account, job[c].profile) THEN Ends(c) ELSE Goes(c, "issue")
    /\ UNCHANGED <<now, world, members, passed>>

\* A bug: the background may be the one that the profile shows.
IssueAny(c) ==
    /\ job[c].pc = "issue"
    /\ \E b \in Background :
          members' = [members EXCEPT ![job[c].account].challenge =
                        [profile |-> job[c].profile, name |-> job[c].shown.name,
                         background |-> b, at |-> now, before |-> job[c].shown.changes]]
    /\ Ends(c)
    /\ UNCHANGED <<now, world, passed>>

\* pickMverseBackgroundChallenge leaves out the background that the profile shows.
Issue(c) ==
    /\ job[c].pc = "issue"
    /\ \E b \in Background \ {job[c].shown.background} :
          members' = [members EXCEPT ![job[c].account].challenge =
                        [profile |-> job[c].profile, name |-> job[c].shown.name,
                         background |-> b, at |-> now, before |-> job[c].shown.changes]]
    /\ Ends(c)
    /\ UNCHANGED <<now, world, passed>>

-----------------------------------------------------------------------------
\* updateMaplestoryWorldId: load the challenge, fetch, look again, store

ConfirmLoad(c, a) ==
    LET challenge == members[a].challenge
    IN  /\ challenge # NoChallenge
        /\ \/ /\ now - challenge.at > ChallengeTtl
              /\ Begins(c, [pc |-> "clear", account |-> a])
           \/ /\ now - challenge.at <= ChallengeTtl
              /\ Begins(c, [pc |-> "fetch", account |-> a, profile |-> challenge.profile,
                            challenge |-> challenge, shown |-> Unseen])

\* The name must be the one of the challenge, the background the one it asks for.
ConfirmFetch(c) ==
    LET shown == world[job[c].profile]
        challenge == job[c].challenge
    IN  /\ job[c].pc = "fetch"
        /\ \/ shown.name # challenge.name /\ GoesLast(c, "clear")
           \/ shown.name = challenge.name /\ shown.background # challenge.background /\ Ends(c)
           \/ /\ shown.name = challenge.name /\ shown.background = challenge.background
              /\ job' = [job EXCEPT ![c].pc = "retake", ![c].shown = shown]
        /\ UNCHANGED <<now, world, members, passed>>

ConfirmCheck(c) ==
    /\ job[c].pc = "retake"
    /\ IF Taken(job[c].account, job[c].profile) THEN Ends(c) ELSE Goes(c, "store")
    /\ UNCHANGED <<now, world, members, passed>>

ConfirmStore(c) ==
    LET j == job[c]
    IN  /\ j.pc = "store"
        /\ members' = [members EXCEPT ![j.account] =
                         [profile |-> j.profile, name |-> j.shown.name, verified |-> TRUE,
                          challenge |-> NoChallenge]]
        /\ GoesLast(c, "pass")
        /\ UNCHANGED <<now, world, passed>>

ConfirmPass(c) ==
    /\ job[c].pc = "pass"
    /\ passed' = [passed EXCEPT ![job[c].account] = now]
    /\ Ends(c)
    /\ UNCHANGED <<now, world, members>>

\* clearMaplestoryWorldChallenge
Clear(c) ==
    /\ job[c].pc = "clear"
    /\ members' = [members EXCEPT ![job[c].account].challenge = NoChallenge]
    /\ Ends(c)
    /\ UNCHANGED <<now, world, passed>>

-----------------------------------------------------------------------------
\* refreshMverseVerification, with the member that the session guard loaded

RecheckLoad(c, a) ==
    /\ members[a].verified
    /\ Begins(c, [pc |-> "recheck", account |-> a, profile |-> members[a].profile,
                  name |-> members[a].name])

\* An account that passed a short while ago is not looked up.
RecheckCached(c) ==
    LET at == passed[job[c].account]
    IN  /\ job[c].pc = "recheck"
        /\ IF at # Never /\ now - at < RecheckInterval THEN Ends(c) ELSE Goes(c, "compare")
        /\ UNCHANGED <<now, world, members, passed>>

Compare(c) ==
    /\ job[c].pc = "compare"
    /\ IF world[job[c].profile].name = job[c].name
       THEN Ends(c) /\ passed' = [passed EXCEPT ![job[c].account] = now]
       ELSE Goes(c, "revoke") /\ UNCHANGED passed
    /\ UNCHANGED <<now, world, members>>

Revoke(c) ==
    /\ job[c].pc = "revoke"
    /\ members' = [members EXCEPT ![job[c].account].verified = FALSE]
    /\ GoesLast(c, "forget")
    /\ UNCHANGED <<now, world, passed>>

Forget(c) ==
    /\ job[c].pc = "forget"
    /\ passed' = [passed EXCEPT ![job[c].account] = Never]
    /\ Ends(c)
    /\ UNCHANGED <<now, world, members>>

-----------------------------------------------------------------------------
\* The platform does not answer or a query is rejected; a recheck then trusts the
\* verification as it is.
Abort(c) ==
    /\ job[c] # Idle
    /\ Ends(c)
    /\ UNCHANGED <<now, world, members, passed>>

Restart ==
    /\ passed' = [a \in Account |-> Never]
    /\ job' = [c \in Call |-> Idle]
    /\ UNCHANGED <<now, world, members>>

Rename(p, n) ==
    /\ world[p].name # n
    /\ world' = [world EXCEPT ![p].name = n]
    /\ UNCHANGED <<now, members, passed, job>>

Repaint(p, b) ==
    /\ world[p].background # b /\ world[p].changes < MaxChanges
    /\ world' = [world EXCEPT ![p].background = b, ![p].changes = @ + 1]
    /\ UNCHANGED <<now, members, passed, job>>

Tick ==
    /\ now < MaxTime
    /\ now' = now + 1
    /\ UNCHANGED <<world, members, passed, job>>

Init ==
    /\ now = 0
    /\ world \in [Profile -> {s \in Shown : s.changes = 0}]
    /\ members = [a \in Account |-> NewMember]
    /\ passed = [a \in Account |-> Never]
    /\ job = [c \in Call |-> Idle]

Next ==
    \/ \E c \in Call :
          \/ \E a \in Account :
                \/ \E p \in Profile : StartFetch(c, a, p)
                \/ ConfirmLoad(c, a)
                \/ RecheckLoad(c, a)
          \/ StartCheck(c) \/ Issue(c)
          \/ ConfirmFetch(c) \/ ConfirmCheck(c) \/ ConfirmStore(c) \/ ConfirmPass(c)
          \/ Clear(c)
          \/ RecheckCached(c) \/ Compare(c) \/ Revoke(c) \/ Forget(c)
          \/ Abort(c)
    \/ \E p \in Profile :
          \/ \E n \in Name : Rename(p, n)
          \/ \E b \in Background : Repaint(p, b)
    \/ Restart
    \/ Tick

Spec == Init /\ [][Next]_vars

\* Accounts, names, backgrounds and handlers are alike: no code compares them but for
\* equality.
Symmetry ==
    Permutations(Account) \union Permutations(Name) \union Permutations(Background)
        \union Permutations(Call)

-----------------------------------------------------------------------------
\* Properties

\* Rows and handlers have their types; a verified member has a profile and its name,
\* and a handler that stores something has seen the profile.
TypeOK ==
    /\ now \in Time
    /\ world \in [Profile -> Shown]
    /\ members \in [Account -> MemberRow]
    /\ passed \in [Account -> Time \union {Never}]
    /\ job \in [Call -> StartJob \union ConfirmJob \union RecheckJob \union LastJob \union {Idle}]
    /\ \A a \in Account :
          members[a].verified => members[a].profile # NoProfile /\ members[a].name # NoName
    /\ \A c \in Call :
          job[c].pc \in {"retake", "store"} => job[c].shown # Unseen

\* Who becomes verified for a profile has shown that it is his own: its background
\* was changed after the server had looked at it to prepare the very challenge that
\* is answered, whatever other challenges the account asked for meanwhile.
ChallengeAnswered ==
    [][\A c \in Call :
         job[c].pc = "store" /\ ConfirmStore(c) =>
            LET challenge == job[c].challenge
            IN  /\ challenge.profile = members'[job[c].account].profile
                /\ challenge.before < job[c].shown.changes]_vars

\* No two accounts are verified for one profile, which is what assertMverseProfileNotTaken
\* is there for.
OneHolder ==
    \A a, b \in Account :
        members[a].profile = members[b].profile /\ members[a].profile # NoProfile => a = b

\* A verification is revoked when the name of its profile changed: the recheck that
\* revokes it has compared the name and the profile it was given for.
RevokedForRename ==
    [][\A c \in Call :
         job[c].pc = "revoke" /\ Revoke(c) =>
            /\ job[c].profile = members[job[c].account].profile
            /\ job[c].name = members[job[c].account].name]_vars
=============================================================================
