--------------------------- MODULE PermissionCaches ---------------------------
(***************************************************************************)
(* What the distribution of permissions promises, however the daemons do   *)
(* it: a cache starts out allowing nothing, and changes in one way only,   *)
(* from one value to another that was issued for the same key.             *)
(***************************************************************************)
EXTENDS Naturals, Sequences

CONSTANTS Caches,  \* the machines that keep a copy
          Keys,    \* what a permission is about
          Values   \* what it may allow

VARIABLES
    issued,  \* issued[k]: the values that the authority has issued for k
    allows   \* allows[c][k]: what cache c allows for k

Init ==
    /\ issued = [k \in Keys |-> <<>>]
    /\ allows = [c \in Caches |-> [k \in Keys |-> {}]]

Issue(k, value) == issued' = [issued EXCEPT ![k] = Append(@, value)] /\ UNCHANGED allows

Update(c, k) ==
    /\ \E v \in 1..Len(issued[k]) : allows' = [allows EXCEPT ![c][k] = issued[k][v]]
    /\ UNCHANGED issued

Next ==
    \/ \E k \in Keys, value \in Values : Issue(k, value)
    \/ \E c \in Caches, k \in Keys : Update(c, k)

Spec == Init /\ [][Next]_<<issued, allows>>
=============================================================================
