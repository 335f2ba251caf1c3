------------------------------ MODULE AlertRules ------------------------------
(***************************************************************************)
(* The rules of the market alerts that one account keeps                   *)
(* (market-alert.service.ts): create, update, delete.  A second rule for   *)
(* the same thing changes the price of the first; an account may have so   *)
(* many rules.  Both are looked up before the rule is stored.              *)
(***************************************************************************)
EXTENDS Integers, FiniteSets

CONSTANTS
    Identity,      \* what identityFilter compares: item, side, currency, dye, shape
    Price,
    Editor,        \* overlapping handlers
    MaxRules,      \* MAX_RULES_PER_ACCOUNT
    MaxIds         \* the bound on the rules ever created

VARIABLES
    rules,         \* market_alert_rules of the account, by _id
    nextId,
    editors        \* the handlers, and the await at which each is suspended

ruleVars == <<rules, nextId, editors>>

-----------------------------------------------------------------------------
Rule == [identity : Identity, price : Price, enabled : BOOLEAN]
Deleted == [enabled |-> FALSE, price |-> 0]
Alive == {i \in DOMAIN rules : rules[i] # Deleted}

Idle == [pc |-> "idle"]
Creating == [pc : {"find", "count", "create"}, identity : Identity, price : Price]
\* A save writes the fields in sets: those that the handler has changed.
Changing == [pc : {"save", "delete"}, id : 1 .. MaxIds, price : Price, enabled : BOOLEAN,
             sets : SUBSET {"price", "enabled"}]

Does(e, j) == editors' = [editors EXCEPT ![e] = j]
Moves(e, pc) == editors' = [editors EXCEPT ![e].pc = pc]

-----------------------------------------------------------------------------
\* createRule: look for the same rule, count, create

Create(e, k, p) ==
    /\ editors[e] = Idle /\ nextId <= MaxIds
    /\ Does(e, [pc |-> "find", identity |-> k, price |-> p])
    /\ UNCHANGED <<rules, nextId>>

\* A rule that is found is saved at the new price, and switched on.
FindSame(e) ==
    LET j == editors[e]
        same == {i \in Alive : rules[i].identity = j.identity}
    IN  /\ j.pc = "find"
        /\ \/ same = {} /\ Moves(e, "count")
           \/ \E i \in same :
                 Does(e, [pc |-> "save", id |-> i, price |-> j.price, enabled |-> TRUE,
                          sets |-> {"price"} \union IF rules[i].enabled THEN {} ELSE {"enabled"}])
        /\ UNCHANGED <<rules, nextId>>

\* A bug: the limit itself is taken for room.
CountLoosely(e) ==
    /\ editors[e].pc = "count"
    /\ IF Cardinality(Alive) > MaxRules THEN Does(e, Idle) ELSE Moves(e, "create")
    /\ UNCHANGED <<rules, nextId>>

Count(e) ==
    /\ editors[e].pc = "count"
    /\ IF Cardinality(Alive) >= MaxRules THEN Does(e, Idle) ELSE Moves(e, "create")
    /\ UNCHANGED <<rules, nextId>>

Insert(e) ==
    LET j == editors[e]
    IN  /\ j.pc = "create" /\ nextId <= MaxIds
        /\ rules' = [rules EXCEPT ![nextId] =
                       [identity |-> j.identity, price |-> j.price, enabled |-> TRUE]]
        /\ nextId' = nextId + 1
        /\ Does(e, Idle)

-----------------------------------------------------------------------------
\* updateRule and deleteRule load a rule of the account (findOwnedRule), then write it

Load(e, i, pc, p, on, sets) ==
    /\ editors[e] = Idle
    /\ i \in Alive
    /\ Does(e, [pc |-> pc, id |-> i, price |-> p, enabled |-> on, sets |-> sets])
    /\ UNCHANGED <<rules, nextId>>

\* A save of a rule that was deleted meanwhile fails.
Save(e) ==
    LET j == editors[e]
    IN  /\ j.pc = "save"
        /\ rules' = IF j.id \in Alive
                    THEN [rules EXCEPT
                            ![j.id].price = IF "price" \in j.sets THEN j.price ELSE @,
                            ![j.id].enabled = IF "enabled" \in j.sets THEN j.enabled ELSE @]
                    ELSE rules
        /\ Does(e, Idle)
        /\ UNCHANGED nextId

Delete(e) ==
    /\ editors[e].pc = "delete"
    /\ rules' = [rules EXCEPT ![editors[e].id] = Deleted]
    /\ Does(e, Idle)
    /\ UNCHANGED nextId

Abort(e) ==
    /\ editors[e] # Idle
    /\ Does(e, Idle)
    /\ UNCHANGED <<rules, nextId>>

Init ==
    /\ rules = [i \in 1 .. MaxIds |-> Deleted]
    /\ nextId = 1
    /\ editors = [e \in Editor |-> Idle]

Next ==
    \E e \in Editor :
        \/ \E k \in Identity, p \in Price : Create(e, k, p)
        \/ \E i \in 1 .. MaxIds, p \in Price :
              \/ \E on \in BOOLEAN, sets \in SUBSET {"price", "enabled"} :
                    Load(e, i, "save", p, on, sets)
              \/ Load(e, i, "delete", p, FALSE, {})
        \/ FindSame(e) \/ Count(e) \/ Insert(e)
        \/ Save(e) \/ Delete(e)
        \/ Abort(e)

Spec == Init /\ [][Next]_ruleVars
-----------------------------------------------------------------------------
\* Properties

TypeOK ==
    /\ rules \in [1 .. MaxIds -> Rule \union {Deleted}]
    /\ nextId \in 1 .. MaxIds + 1
    /\ editors \in [Editor -> Creating \union Changing \union {Idle}]

\* The limit of rules, and the one rule for a thing, are passed by overlapping
\* creations only: by one less than there are handlers.
RulesWithinOverlap ==
    /\ Cardinality(Alive) <= MaxRules + Cardinality(Editor) - 1
    /\ \A k \in Identity :
          Cardinality({i \in Alive : rules[i].identity = k}) <= Cardinality(Editor)
=============================================================================
