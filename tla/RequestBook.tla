----------------------------- MODULE RequestBook -----------------------------
(***************************************************************************)
(* What the trade board promises about trade requests, with every call     *)
(* taken as one atomic step: each listing has a book of the members whose  *)
(* request is pending.  A member enters the book by asking and leaves it   *)
(* by one withdrawal or rejection, one member at a time.  TradeListing is  *)
(* shown to implement this although its handlers read a listing, wait, and *)
(* write the whole array of requests back.                                 *)
(***************************************************************************)
EXTENDS Naturals, FiniteSets

CONSTANTS Member, Listing, NoMember, ListingRequestLimit

VARIABLES
    poster,  \* poster[l]: who posted the listing, NoMember before it exists
    book     \* book[l]: the members with a pending request on it

vars == <<poster, book>>

Init ==
    /\ poster = [l \in Listing |-> NoMember]
    /\ book = [l \in Listing |-> {}]

Post(l, m) ==
    /\ poster[l] = NoMember
    /\ poster' = [poster EXCEPT ![l] = m]
    /\ UNCHANGED book

Ask(l, m) ==
    /\ poster[l] \notin {NoMember, m}
    /\ m \notin book[l]
    /\ Cardinality(book[l]) < ListingRequestLimit
    /\ book' = [book EXCEPT ![l] = @ \union {m}]
    /\ UNCHANGED poster

Drop(l, m) ==
    /\ m \in book[l]
    /\ book' = [book EXCEPT ![l] = @ \ {m}]
    /\ UNCHANGED poster

Next == \E l \in Listing, m \in Member : Post(l, m) \/ Ask(l, m) \/ Drop(l, m)

Spec == Init /\ [][Next]_vars
==============================================================================
