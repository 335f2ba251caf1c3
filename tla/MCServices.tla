----------------------------- MODULE MCServices -----------------------------
(***************************************************************************)
(* Services of the server that share no state, checked in one run: a       *)
(* behaviour takes place in the one that `service` names, and the others   *)
(* rest as they began.  Their interleavings would add nothing, since no    *)
(* step of one reads or writes what another keeps.                         *)
(***************************************************************************)
EXTENDS RateLimiter, TLC

CONSTANTS
    Handler,      \* the overlapping handlers of whichever service
    Requester, MessageLimit, PushThrottle, MaxFromOwner, MaxFromRequester, MaxNow,
    Nickname, NoNickname, NicknameInterval,
    TradeLimit, MaxDay, MaxCredits,
    Identity, Price, MaxRules, MaxIds,
    Class, NoClass, MaxUploads,
    Member, Tab, Endpoint, NoAccount,
    Nobody, MaxLogins,
    Limit, MaxMillis, MaxLooks

\* Handlers are finitely many; what stands for nothing is not among the real things.
ASSUME HandlerAssumption == IsFiniteSet(Handler) /\ Handler # {}
ASSUME NameAssumption == NoNickname \notin Nickname /\ Nickname # {}
ASSUME NoneAssumption ==
    /\ NoAccount \notin Member /\ NoClass \notin Class
    /\ Nobody \notin Nat /\ Nobody \notin [token : Nat \union {Nobody}, nickname : Nickname]
ASSUME LimitAssumption ==
    /\ MaxDay \in Nat /\ MaxRules \in Nat /\ MaxIds \in Nat /\ MaxUploads \in Nat
    /\ TradeLimit \in Nat \ {0} /\ Limit \in Nat \ {0}
    /\ MaxNow \in Nat /\ MessageLimit \in Nat /\ PushThrottle \in Nat

VARIABLES
    service,
    now, listing, messages, threads, writing,
    today, rows, clerks,
    book, credited, tellers,
    rules, nextId, editors,
    ranking, uploads, common, started,
    tabs, streams, subscriptions, gone, carriers, requests,
    members, cookie, call, logins, ended,
    millis, looks, cache, calls, answers

\* Key stands for what a service keeps a row for: the keys of the rate limiter, the
\* accounts that are named, the characters that are ranked, the browsers and the members
\* that have a picture.
Thread == INSTANCE TradeThread WITH Writer <- Handler, MaxTime <- MaxNow
Naming == INSTANCE MemberNaming WITH Clerk <- Handler, Account <- Key
Credits == INSTANCE DailyCredit WITH Teller <- Handler
Alerts == INSTANCE AlertRules WITH Editor <- Handler
Ranking == INSTANCE RankingUpload WITH Upload <- Handler, Name <- Key, rows <- ranking
Notices == INSTANCE Notification WITH Carrier <- Handler, Account <- Member
Accounts == INSTANCE Accounts WITH Account <- Handler, Browser <- Key, Name <- Nickname,
                                   Given <- CHOOSE n \in Nickname : TRUE
Images == INSTANCE CharacterImages WITH Member <- Key, Call <- Handler

threadVars == <<now, listing, messages, threads, writing>>
namingVars == <<rows, clerks>>
creditVars == <<book, credited, tellers>>
ruleVars == <<rules, nextId, editors>>
rankingVars == <<ranking, uploads, common, started>>
noticeVars == <<tabs, streams, subscriptions, gone, carriers, requests>>
accountVars == <<members, cookie, call, logins, ended>>
imageVars == <<millis, looks, cache, calls, answers>>

\* A step in service s; the day belongs to two of them.
In(s) ==
    /\ service = s
    /\ UNCHANGED service
    /\ s # "threads" => UNCHANGED threadVars
    /\ s \notin {"naming", "credits"} => UNCHANGED today
    /\ s # "naming" => UNCHANGED namingVars
    /\ s # "credits" => UNCHANGED creditVars
    /\ s # "rules" => UNCHANGED ruleVars
    /\ s # "rates" => UNCHANGED rateVars
    /\ s # "ranking" => UNCHANGED rankingVars
    /\ s # "notices" => UNCHANGED noticeVars
    /\ s # "accounts" => UNCHANGED accountVars
    /\ s # "images" => UNCHANGED imageVars

ServicesInit ==
    /\ service \in {"threads", "naming", "credits", "rules", "rates", "ranking", "notices",
                   "accounts", "images"}
    /\ Thread!Init /\ Naming!Init /\ Credits!Init /\ Alerts!Init /\ Init /\ Notices!Init
    /\ Ranking!Init /\ Accounts!Init /\ Images!Init
    /\ service # "naming" => \A k \in Key : rows[k] = Naming!NoRow
    /\ service # "ranking" => \A k \in Key : ranking[k] = NoClass

ServicesNext ==
    \/ In("threads") /\ Thread!Next
    \/ In("naming") /\ Naming!Next
    \/ In("credits") /\ Credits!Next
    \/ In("rules") /\ Alerts!Next
    \/ In("rates") /\ Next
    \/ In("ranking") /\ Ranking!Next
    \/ In("notices") /\ Notices!Next
    \/ In("accounts") /\ Accounts!Next
    \/ In("images") /\ Images!Next

vars == <<service, now, listing, messages, threads, writing, today, rows, clerks,
          book, credited, tellers, rules, nextId, editors, clock, buckets, fair, forgotten,
          ranking, uploads, common, started,
          tabs, streams, subscriptions, gone, carriers, requests,
          members, cookie, call, logins, ended, millis, looks, cache, calls, answers>>

ServicesSpec == ServicesInit /\ [][ServicesNext]_vars

\* Handlers are alike, and so are keys: no code compares them but for equality.
Symmetry == Permutations(Handler) \union Permutations(Key)

-----------------------------------------------------------------------------
\* Properties, each with its comment in the module of its service

\* The unread count of a party is backed by stored messages of the other (createMessage).
UnreadBacked == Thread!UnreadBacked

\* Two pushes within the throttle come from overlapping handlers (appendThreadMessage).
ThrottledUnlessOverlap == Thread!ThrottledUnlessOverlap

\* A reading hides a counted message only if it came in meanwhile, or fell behind the
\* limit of the query (findMessages, markThreadRead).
ReadHidesOnlyLate == Thread!ReadHidesOnlyLate

\* A nickname is chosen by no more members than handlers overlap (updateNickname).
HoldersWithinOverlap == Naming!HoldersWithinOverlap

\* A day is credited beyond its limit only around midnight (checkAttendance,
\* addDailyLimitedTradeCompletionPoints).
CreditsWithinOverlap == Credits!CreditsWithinOverlap

\* The limit on rules is passed only by overlapping creations (createRule).
RulesWithinOverlap == Alerts!RulesWithinOverlap

\* A character that all uploads of its class name stays in the ranking (upsertRankings).
CommonNamesKept == Ranking!CommonNamesKept

\* A live subscription ends only by a request of its account (sendWebPush,
\* deletePushSubscription).
LiveKept == Notices!LiveKept

\* A session ends by a login or a logout of its own, for good (loginWithSso, logout).
SessionsHold == Accounts!SessionsHold

\* A picture shows the look of its version, and the cache keeps its limit
\* (getCharacterImage).
ImagesFresh == Images!ImagesFresh
=============================================================================
