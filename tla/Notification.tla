----------------------------- MODULE Notification -----------------------------
(***************************************************************************)
(* How a notification reaches an account (notification.service.ts): over   *)
(* the event stream of every open tab, kept in memory, and by web push to  *)
(* every device that subscribed, kept in the database.  A device may       *)
(* change its account; a subscription that the push service no longer      *)
(* knows is removed.                                                       *)
(***************************************************************************)
EXTENDS Integers, FiniteSets

CONSTANTS
    Account, Tab,
    Endpoint,        \* the devices
    Carrier,         \* overlapping notifications
    NoAccount

VARIABLES
    tabs,            \* the account whose stream a tab has open
    streams,         \* sseStreams
    subscriptions,   \* push_subscriptions: the account of each endpoint
    gone,            \* the endpoints that the push service no longer knows
    carriers,        \* the notifications under way
    requests         \* changes of subscriptions that clients have sent

notificationVars == <<tabs, streams, subscriptions, gone, carriers, requests>>

-----------------------------------------------------------------------------
Resting == [pc |-> "resting"]
\* left: the devices found that are still to be sent to; drop: those found to be gone.
Carrying == [pc : {"find", "send"}, account : Account, left : SUBSET Endpoint,
             drop : SUBSET Endpoint]
Request == [do : {"save", "delete"}, account : Account, endpoint : Endpoint]

Carries(c, j) == carriers' = [carriers EXCEPT ![c] = j]

-----------------------------------------------------------------------------
\* openSseStream and the function it returns, which the end of the request calls

Open(t, a) ==
    /\ tabs[t] = NoAccount
    /\ tabs' = [tabs EXCEPT ![t] = a]
    /\ streams' = [streams EXCEPT ![a] = @ \union {t}]
    /\ UNCHANGED <<subscriptions, gone, carriers, requests>>

\* An account without streams is dropped from the map, which here is the empty set.
Close(t) ==
    /\ tabs[t] # NoAccount
    /\ streams' = [streams EXCEPT ![tabs[t]] = @ \ {t}]
    /\ tabs' = [tabs EXCEPT ![t] = NoAccount]
    /\ UNCHANGED <<subscriptions, gone, carriers, requests>>

-----------------------------------------------------------------------------
\* savePushSubscription and deletePushSubscription: requests of a device, which may
\* overtake each other

Ask(r) ==
    /\ r \notin requests
    /\ r.endpoint \notin gone
    /\ requests' = requests \union {r}
    /\ UNCHANGED <<tabs, streams, subscriptions, gone, carriers>>

SaveSubscription(r) ==
    /\ r \in requests /\ r.do = "save"
    /\ subscriptions' = [subscriptions EXCEPT ![r.endpoint] = r.account]
    /\ requests' = requests \ {r}
    /\ UNCHANGED <<tabs, streams, gone, carriers>>

\* A bug: the endpoint is deleted whoever holds it by now.
DeleteAny(r) ==
    /\ r \in requests /\ r.do = "delete"
    /\ subscriptions' = [subscriptions EXCEPT ![r.endpoint] = NoAccount]
    /\ requests' = requests \ {r}
    /\ UNCHANGED <<tabs, streams, gone, carriers>>

DeleteSubscription(r) ==
    /\ r \in requests /\ r.do = "delete"
    /\ subscriptions' = [subscriptions EXCEPT
                           ![r.endpoint] = IF @ = r.account THEN NoAccount ELSE @]
    /\ requests' = requests \ {r}
    /\ UNCHANGED <<tabs, streams, gone, carriers>>

-----------------------------------------------------------------------------
\* notifyTradeRequest, notifyTradeMessage, notifyMarketAlert: emitSse reaches every
\* stream of the account at once; sendWebPush finds the devices, sends to all of them,
\* and removes those that are gone

Notify(c, a) ==
    /\ carriers[c] = Resting
    /\ Carries(c, [pc |-> "find", account |-> a, left |-> {}, drop |-> {}])
    /\ UNCHANGED <<tabs, streams, subscriptions, gone, requests>>

FindDevices(c) ==
    LET found == {e \in Endpoint : subscriptions[e] = carriers[c].account}
    IN  /\ carriers[c].pc = "find"
        /\ Carries(c, IF found = {} THEN Resting
                      ELSE [carriers[c] EXCEPT !.pc = "send", !.left = found])
        /\ UNCHANGED <<tabs, streams, subscriptions, gone, requests>>

Rests(j) == IF j.left = {} /\ j.drop = {} THEN Resting ELSE j

\* A push is delivered, or fails for a reason that is only logged.
Send(c, e) ==
    /\ carriers[c].pc = "send" /\ e \in carriers[c].left
    /\ Carries(c, Rests([carriers[c] EXCEPT !.left = @ \ {e}]))
    /\ UNCHANGED <<tabs, streams, subscriptions, gone, requests>>

\* The push service answers 404 or 410.
SendGone(c, e) ==
    /\ carriers[c].pc = "send" /\ e \in carriers[c].left /\ e \in gone
    /\ Carries(c, [carriers[c] EXCEPT !.left = @ \ {e}, !.drop = @ \union {e}])
    /\ UNCHANGED <<tabs, streams, subscriptions, gone, requests>>

\* The subscription is removed; a failure of this is swallowed.
Drop(c, e) ==
    /\ carriers[c].pc = "send" /\ e \in carriers[c].drop
    /\ \/ subscriptions' = [subscriptions EXCEPT ![e] = NoAccount]
       \/ UNCHANGED subscriptions
    /\ Carries(c, Rests([carriers[c] EXCEPT !.drop = @ \ {e}]))
    /\ UNCHANGED <<tabs, streams, gone, requests>>

Abort(c) ==
    /\ carriers[c] # Resting
    /\ Carries(c, Resting)
    /\ UNCHANGED <<tabs, streams, subscriptions, gone, requests>>

\* A new process has no streams; the tabs connect again.
Restart ==
    /\ tabs' = [t \in Tab |-> NoAccount]
    /\ streams' = [a \in Account |-> {}]
    /\ carriers' = [c \in Carrier |-> Resting]
    /\ UNCHANGED <<subscriptions, gone, requests>>

\* A subscription ends for good: a device that subscribes again has a new endpoint.
Expire(e) ==
    /\ e \notin gone
    /\ gone' = gone \union {e}
    /\ UNCHANGED <<tabs, streams, subscriptions, carriers, requests>>

Init ==
    /\ tabs = [t \in Tab |-> NoAccount]
    /\ streams = [a \in Account |-> {}]
    /\ subscriptions = [e \in Endpoint |-> NoAccount]
    /\ gone = {}
    /\ carriers = [c \in Carrier |-> Resting]
    /\ requests = {}

Next ==
    \/ \E t \in Tab : Close(t) \/ \E a \in Account : Open(t, a)
    \/ \E r \in Request : Ask(r) \/ SaveSubscription(r) \/ DeleteSubscription(r)
    \/ \E c \in Carrier :
          \/ \E a \in Account : Notify(c, a)
          \/ FindDevices(c)
          \/ \E e \in Endpoint : Send(c, e) \/ SendGone(c, e) \/ Drop(c, e)
          \/ Abort(c)
    \/ Restart
    \/ \E e \in Endpoint : Expire(e)

Spec == Init /\ [][Next]_notificationVars
-----------------------------------------------------------------------------
\* Properties

TypeOK ==
    /\ tabs \in [Tab -> Account \union {NoAccount}]
    /\ streams \in [Account -> SUBSET Tab]
    /\ subscriptions \in [Endpoint -> Account \union {NoAccount}]
    /\ gone \subseteq Endpoint
    /\ carriers \in [Carrier -> Carrying \union {Resting}]
    /\ requests \subseteq Request

\* Nobody takes away the live subscription of another: a device that is still known
\* loses it by a request of the account that holds it, however late earlier requests
\* and answers of the push service arrive.
LiveKept ==
    [][\A e \in Endpoint :
         e \notin gone /\ subscriptions[e] # NoAccount /\ subscriptions'[e] = NoAccount =>
            [do |-> "delete", account |-> subscriptions[e], endpoint |-> e]
                \in requests \ requests']_notificationVars
=============================================================================
