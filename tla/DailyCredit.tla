----------------------------- MODULE DailyCredit -----------------------------
(***************************************************************************)
(* The points that an account is given at most so often a day              *)
(* (member.service.ts): for its attendance, and for completed trades.      *)
(* Each is one conditional update that names the day; the day is computed  *)
(* before, so an update may arrive after midnight, behind one of the new   *)
(* day.                                                                    *)
(***************************************************************************)
EXTENDS Integers, FiniteSets

CONSTANTS
    Teller,              \* overlapping handlers
    TradeLimit,          \* TRADE_COMPLETION_DAILY_LIMIT
    MaxDay,
    MaxCredits           \* the bound on the credits of a day

VARIABLES
    today,
    book,       \* of one member: the day of its attendance, the day and count of its trades
    credited,   \* how often each day was credited, which nobody stores
    tellers     \* the handlers that await their update

creditVars == <<book, credited, tellers>>

Day == 0 .. MaxDay
Never == -1
Credit == {"attendance", "trade"}

Book == [attended : Day \union {Never}, tradeDay : Day \union {Never}, trades : 0 .. TradeLimit]
Asked == [for : Credit, day : Day]
Free == [for |-> "nothing"]

-----------------------------------------------------------------------------
\* A bug: the points are added whatever the day of the last attendance.
AttendAgain(t) ==
    /\ tellers[t].for = "attendance"
    /\ book' = [book EXCEPT !.attended = tellers[t].day]
    /\ credited' = [credited EXCEPT !["attendance"][tellers[t].day] = @ + 1]
    /\ tellers' = [tellers EXCEPT ![t] = Free]
    /\ UNCHANGED today

Ask(t, kind) ==
    /\ tellers[t] = Free
    /\ credited[kind][today] < MaxCredits
    /\ tellers' = [tellers EXCEPT ![t] = [for |-> kind, day |-> today]]
    /\ UNCHANGED <<today, book, credited>>

\* checkAttendance: one credit for a day that is not the last one
Attend(t) ==
    LET day == tellers[t].day
    IN  /\ tellers[t].for = "attendance"
        /\ IF book.attended # day
           THEN /\ book' = [book EXCEPT !.attended = day]
                /\ credited' = [credited EXCEPT !["attendance"][day] = @ + 1]
           ELSE UNCHANGED <<book, credited>>
        /\ tellers' = [tellers EXCEPT ![t] = Free]
        /\ UNCHANGED today

\* addDailyLimitedTradeCompletionPoints: the first credit of another day begins its count
CreditTrade(t) ==
    LET day == tellers[t].day
        same == book.tradeDay = day
    IN  /\ tellers[t].for = "trade"
        /\ IF ~same \/ book.trades < TradeLimit
           THEN /\ book' = [book EXCEPT !.tradeDay = day, !.trades = IF same THEN @ + 1 ELSE 1]
                /\ credited' = [credited EXCEPT !["trade"][day] = @ + 1]
           ELSE UNCHANGED <<book, credited>>
        /\ tellers' = [tellers EXCEPT ![t] = Free]
        /\ UNCHANGED today

\* The update is rejected, or the process stops before it is sent.
Abort(t) ==
    /\ tellers[t] # Free
    /\ tellers' = [tellers EXCEPT ![t] = Free]
    /\ UNCHANGED <<today, book, credited>>

Midnight ==
    /\ today < MaxDay
    /\ today' = today + 1
    /\ UNCHANGED creditVars

Init ==
    /\ today = 0
    /\ book = [attended |-> Never, tradeDay |-> Never, trades |-> 0]
    /\ credited = [k \in Credit |-> [d \in Day |-> 0]]
    /\ tellers = [t \in Teller |-> Free]

Next ==
    \/ \E t \in Teller :
          \/ \E k \in Credit : Ask(t, k)
          \/ Attend(t) \/ CreditTrade(t)
          \/ Abort(t)
    \/ Midnight

Spec == Init /\ [][Next]_<<today, creditVars>>
-----------------------------------------------------------------------------
\* Properties

TypeOK ==
    /\ today \in Day
    /\ book \in Book
    /\ credited \in [Credit -> [Day -> 0 .. MaxCredits + Cardinality(Teller)]]
    /\ tellers \in [Teller -> Asked \union {Free}]

\* An update that was prepared before midnight and arrives after one of the new day
\* sets the day back, and the new day is credited again.  With n handlers that is at
\* most n - 1 times in a day, and n - 1 credits of the day may arrive after it.
CreditsWithinOverlap ==
    LET n == Cardinality(Teller)
    IN  \A d \in Day :
            /\ credited["attendance"][d] <= n + (n - 1)
            /\ credited["trade"][d] <= TradeLimit * n + (n - 1)
=============================================================================
