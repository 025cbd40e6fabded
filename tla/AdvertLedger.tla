------------------------------ MODULE AdvertLedger ------------------------------
(***************************************************************************)
(* What the membership gate promises an advertiser, without handlers, days,*)
(* draws or crashes: an account of every person for every order.  A person *)
(* is met once and then known for good as new or as a member of old; a new *)
(* one is billed once at most, with the counter and the completion notice  *)
(* in the same step; a member of old, and whoever was in the channel all   *)
(* along, is never billed.  A change of the order re-arms the notice while *)
(* joins are missing.                                                      *)
(***************************************************************************)
EXTENDS Naturals

CONSTANTS
    Orders,  \* channels
    People,  \* users
    Sizes    \* joins that may be ordered; 0 = no order

VARIABLES
    stand,   \* what a person is to an order
    fans,    \* who was in the channel before the bot first looked, and stayed
    billed,  \* joins counted for an order
    size,    \* joins ordered
    done     \* orders whose completion was announced

advert == <<stand, fans, billed, size, done>>

Stands == {"unmet", "new", "old", "billed", "excused"}

AdvertTypeOK ==
    /\ stand \in [Orders \X People -> Stands]
    /\ fans \subseteq Orders \X People
    /\ billed \in [Orders -> Nat]
    /\ size \in [Orders -> Sizes]
    /\ done \subseteq Orders

AdvertInit ==
    /\ stand = [x \in Orders \X People |-> "unmet"]
    /\ fans = {} /\ done = {}
    /\ billed = [c \in Orders |-> 0]
    /\ size = [c \in Orders |-> 0]

\* People come to the channel by themselves, and leave it.
Come(x) ==
    /\ stand[x] = "unmet"
    /\ fans' = fans \cup {x}
    /\ UNCHANGED <<stand, billed, size, done>>

Go(x) ==
    /\ fans' = fans \ {x}
    /\ UNCHANGED <<stand, billed, size, done>>

\* The bot looks for the first time; what it finds is final.
Meet(x, found) ==
    /\ stand[x] = "unmet"
    /\ x \in fans => found = "old"
    /\ stand' = [stand EXCEPT ![x] = found]
    /\ UNCHANGED <<fans, billed, size, done>>

Bill(c, u) ==
    /\ stand[<<c, u>>] = "new"
    /\ stand' = [stand EXCEPT ![<<c, u>>] = "billed"]
    /\ billed' = [billed EXCEPT ![c] = @ + 1]
    /\ done' = IF size[c] > 0 /\ billed[c] + 1 >= size[c] THEN done \cup {c} ELSE done
    /\ UNCHANGED <<fans, size>>

Excuse(x) ==
    /\ stand[x] = "old"
    /\ stand' = [stand EXCEPT ![x] = "excused"]
    /\ UNCHANGED <<fans, billed, size, done>>

Order(c, n) ==
    /\ size' = [size EXCEPT ![c] = n]
    /\ done' = IF billed[c] < n THEN done \ {c} ELSE done
    /\ UNCHANGED <<stand, fans, billed>>

AdvertNext ==
    \/ \E x \in Orders \X People :
         Go(x) \/ Come(x) \/ Meet(x, "new") \/ Meet(x, "old") \/ Excuse(x)
    \/ \E c \in Orders : \/ \E u \in People : Bill(c, u)
                         \/ \E n \in Sizes : Order(c, n)

AdvertSpec == AdvertInit /\ [][AdvertNext]_advert
=============================================================================
