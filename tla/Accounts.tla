------------------------------- MODULE Accounts -------------------------------
(***************************************************************************)
(* Logins and sessions (member.service.ts, auth.controller.ts,             *)
(* member-session.guard.ts).  A member has one session: the hash of the    *)
(* token that the last login saved.  A login reads the member and saves    *)
(* what it changed; calls of several browsers overlap.  The providers, who *)
(* say which account it is, and where a login leads to are left out.       *)
(***************************************************************************)
EXTENDS Integers, FiniteSets

CONSTANTS
    Account, Browser,
    Nobody,
    Name, Given,       \* nicknames, and the one of them that a provider gives
    MaxLogins

VARIABLES
    members,           \* [token, nickname] of those stored, or Nobody
    cookie,            \* the token each browser holds, or Nobody
    call,              \* what each browser has under way: [kind, account, token, known]
    logins,            \* tokens issued so far
    ended              \* tokens that were a member's session and are no more

accountVars == <<members, cookie, call, logins, ended>>

Idle == [kind |-> "none"]
Stored == {a \in Account : members[a] # Nobody}
SessionOf(token) == {a \in Stored : token # Nobody /\ members[a].token = token}

-----------------------------------------------------------------------------
\* loginWithSso: the member is looked for, and a token is made.
Login(b, a) ==
    /\ call[b] = Idle /\ logins < MaxLogins
    /\ logins' = logins + 1
    /\ call' = [call EXCEPT ![b] = [kind |-> "login", account |-> a, token |-> logins + 1,
                                    known |-> a \in Stored]]
    /\ UNCHANGED <<members, cookie, ended>>

\* The save: one that found no member inserts it, and fails if another was faster, for an
\* accountId is unique; one that found it sets the session, not the nickname.
SaveLogin(b) ==
    /\ call[b].kind = "login"
    /\ call' = [call EXCEPT ![b] = Idle]
    /\ LET a == call[b].account
           token == call[b].token
       IN  IF ~ call[b].known /\ a \in Stored THEN UNCHANGED <<members, cookie, ended>>
           ELSE /\ members' = [members EXCEPT ![a] =
                                  IF @ = Nobody THEN [token |-> token, nickname |-> Given]
                                  ELSE [@ EXCEPT !.token = token]]
                /\ ended' = (ended \union (IF a \in Stored THEN {members[a].token} ELSE {})) \ {Nobody}
                /\ cookie' = [cookie EXCEPT ![b] = token]
    /\ UNCHANGED logins

\* The guard of a call finds the member of the cookie, and turns a browser without one away.
Enter(b, kind) ==
    /\ call[b] = Idle
    /\ \E a \in SessionOf(cookie[b]) :
          call' = [call EXCEPT ![b] = [kind |-> kind, account |-> a, token |-> cookie[b]]]
    /\ UNCHANGED <<members, cookie, logins, ended>>

\* A bug: it is the member's session that ends, whoever's it is by now.
LogoutOfMember(b) ==
    /\ call[b].kind = "logout"
    /\ ended' = (ended \union {members[call[b].account].token}) \ {Nobody}
    /\ members' = [members EXCEPT ![call[b].account].token = Nobody]
    /\ cookie' = [cookie EXCEPT ![b] = Nobody]
    /\ call' = [call EXCEPT ![b] = Idle]
    /\ UNCHANGED logins

\* logout: the session of the token that the browser sent ends; the browser drops its cookie.
Logout(b) ==
    /\ call[b].kind = "logout"
    /\ members' = [a \in Account |-> IF a \in SessionOf(call[b].token)
                                     THEN [members[a] EXCEPT !.token = Nobody] ELSE members[a]]
    /\ ended' = ended \union {t \in {call[b].token} : SessionOf(t) # {}}
    /\ cookie' = [cookie EXCEPT ![b] = Nobody]
    /\ call' = [call EXCEPT ![b] = Idle]
    /\ UNCHANGED logins

\* A change that the guard let in takes place, though its session may have ended.
Rename(b, name) ==
    /\ call[b].kind = "rename"
    /\ members' = [members EXCEPT ![call[b].account].nickname = name]
    /\ call' = [call EXCEPT ![b] = Idle]
    /\ UNCHANGED <<cookie, logins, ended>>

Init ==
    /\ members = [a \in Account |-> Nobody] /\ cookie = [b \in Browser |-> Nobody]
    /\ call = [b \in Browser |-> Idle] /\ logins = 0 /\ ended = {}

Next ==
    \E b \in Browser :
        \/ \E a \in Account : Login(b, a)
        \/ SaveLogin(b) \/ Enter(b, "logout") \/ Enter(b, "rename") \/ Logout(b)
        \/ \E name \in Name : Rename(b, name)

Spec == Init /\ [][Next]_accountVars

-----------------------------------------------------------------------------
\* Properties

TypeOK ==
    /\ \A a \in Stored : members[a].token \in 1 .. logins \union {Nobody} /\ members[a].nickname \in Name
    /\ \A b \in Browser : cookie[b] \in 1 .. logins \union {Nobody}
    /\ ended \subseteq 1 .. logins

\* A token opens one account at most, and never again once its session ended, however
\* logins and logouts overlap.  A session ends by a login of its account or by a logout that
\* was sent with its token, and a login leaves a nickname as it is.
SessionsHold ==
    /\ [](\A token \in 1 .. logins : Cardinality(SessionOf(token)) <= 1)
    /\ [](\A token \in ended : SessionOf(token) = {})
    /\ [][\A a \in Stored :
             /\ members'[a].token # members[a].token =>
                   \E b \in Browser :
                       /\ call'[b] = Idle
                       /\ \/ call[b].kind = "login" /\ call[b].account = a
                          \/ call[b].kind = "logout" /\ call[b].token = members[a].token
             /\ members'[a].nickname # members[a].nickname =>
                   \E b \in Browser : call[b].kind = "rename" /\ call[b].account = a]_accountVars
=============================================================================
