---------------------------- MODULE MemberNaming ----------------------------
(***************************************************************************)
(* How an account comes to be and what it is called (member.service.ts):   *)
(* sign in by an outside provider creates the member under the provider's  *)
(* nickname; the member may change it once in a while, to one that nobody  *)
(* else has.  Both look first and write later.                             *)
(***************************************************************************)
EXTENDS Integers, FiniteSets

CONSTANTS
    Account, Nickname,
    Clerk,               \* overlapping handlers
    NoNickname,
    NicknameInterval,    \* NICKNAME_CHANGE_INTERVAL_MS, in days
    MaxDay

VARIABLES
    today,
    rows,       \* sso_members
    clerks      \* the handlers, and the await at which each is suspended

namingVars == <<rows, clerks>>

-----------------------------------------------------------------------------
\* Rows and handlers

Day == 0 .. MaxDay
Never == -1

\* chosen: the nickname is one that the member has chosen, not that of the provider.
Row == [nickname : Nickname, chosen : BOOLEAN, changed : Day \union {Never}]
NoRow == [nickname |-> NoNickname]
NewRow(n) == [nickname |-> n, chosen |-> FALSE, changed |-> Never]

Free == [pc |-> "free"]
SignIn == [pc : {"find", "save"}, account : Account, new : BOOLEAN, nickname : Nickname]
Naming == [pc : {"current", "duplicate", "store"}, account : Account, nickname : Nickname]

Takes(c, j) ==
    /\ clerks[c] = Free
    /\ clerks' = [clerks EXCEPT ![c] = j]
    /\ UNCHANGED <<today, rows>>

Goes(c, pc) == clerks' = [clerks EXCEPT ![c].pc = pc]
Leaves(c) == clerks' = [clerks EXCEPT ![c] = Free]

-----------------------------------------------------------------------------
\* loginWithSso: find by provider, then save a new document or the changed fields

Login(c, a, n) == Takes(c, [pc |-> "find", account |-> a, new |-> TRUE, nickname |-> n])

LoginFind(c) ==
    /\ clerks[c].pc = "find"
    /\ clerks' = [clerks EXCEPT ![c].pc = "save", ![c].new = rows[clerks[c].account] = NoRow]
    /\ UNCHANGED <<today, rows>>

\* The insert of an account that exists by now fails on its unique accountId.  Of a
\* member that was found, the e-mail, the session and the rights are written, which
\* nothing here depends on.
LoginSave(c) ==
    LET j == clerks[c]
    IN  /\ j.pc = "save"
        /\ rows' = IF j.new /\ rows[j.account] = NoRow
                   THEN [rows EXCEPT ![j.account] = NewRow(j.nickname)]
                   ELSE rows
        /\ Leaves(c)
        /\ UNCHANGED today

-----------------------------------------------------------------------------
\* updateNickname: look at the own row, look for another of that name, store

Rename(c, a, n) ==
    /\ rows[a] # NoRow
    /\ Takes(c, [pc |-> "current", account |-> a, nickname |-> n])

\* The same name needs no change; another waits for its interval.
Current(c) ==
    LET j == clerks[c]
        row == rows[j.account]
        early == row.changed # Never /\ today - row.changed < NicknameInterval
    IN  /\ j.pc = "current"
        /\ IF row.nickname = j.nickname \/ early THEN Leaves(c) ELSE Goes(c, "duplicate")
        /\ UNCHANGED <<today, rows>>

\* A bug: the member himself is not left out, and nobody else is looked for.
DuplicateOfSelf(c) ==
    LET j == clerks[c]
    IN  /\ j.pc = "duplicate"
        /\ IF rows[j.account].nickname = j.nickname THEN Leaves(c) ELSE Goes(c, "store")
        /\ UNCHANGED <<today, rows>>

\* Names that differ in case only are one name.
Duplicate(c) ==
    LET j == clerks[c]
        taken == \E b \in Account \ {j.account} : rows[b].nickname = j.nickname
    IN  /\ j.pc = "duplicate"
        /\ IF taken THEN Leaves(c) ELSE Goes(c, "store")
        /\ UNCHANGED <<today, rows>>

\* The time of the change is that of the last answer; a day passes sooner than two
\* queries, so it is that of the update.
Store(c) ==
    LET j == clerks[c]
    IN  /\ j.pc = "store"
        /\ rows' = [rows EXCEPT ![j.account].nickname = j.nickname,
                                ![j.account].chosen = TRUE,
                                ![j.account].changed = today]
        /\ Leaves(c)
        /\ UNCHANGED today

-----------------------------------------------------------------------------
\* A query is rejected, or the process stops.
Abort(c) ==
    /\ clerks[c] # Free
    /\ Leaves(c)
    /\ UNCHANGED <<today, rows>>

Midnight ==
    /\ today < MaxDay
    /\ today' = today + 1
    /\ UNCHANGED namingVars

\* Some members have signed in before.
Init ==
    /\ today = 0
    /\ rows \in [Account -> {NoRow} \union {NewRow(n) : n \in Nickname}]
    /\ clerks = [c \in Clerk |-> Free]

Next ==
    \/ \E c \in Clerk :
          \/ \E a \in Account, n \in Nickname : Login(c, a, n) \/ Rename(c, a, n)
          \/ LoginFind(c) \/ LoginSave(c)
          \/ Current(c) \/ Duplicate(c) \/ Store(c)
          \/ Abort(c)
    \/ Midnight

Spec == Init /\ [][Next]_<<today, namingVars>>
-----------------------------------------------------------------------------
\* Properties

TypeOK ==
    /\ today \in Day
    /\ rows \in [Account -> Row \union {NoRow}]
    /\ clerks \in [Clerk -> SignIn \union Naming \union {Free}]

\* A name is chosen by at most as many members as handlers can look for it at once:
\* whoever looks later finds it taken.
HoldersWithinOverlap ==
    \A n \in Nickname :
        Cardinality({a \in Account : rows[a] # NoRow /\ rows[a].nickname = n /\ rows[a].chosen})
            <= Cardinality(Clerk)
=============================================================================
