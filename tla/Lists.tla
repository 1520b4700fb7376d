------------------------------- MODULE Lists -------------------------------
(***************************************************************************)
(* A loop that appends some of the elements of a list to another.          *)
(***************************************************************************)
EXTENDS Integers, Sequences

join(list, part) == list \o part

Joined == INSTANCE ListFold WITH Step <- join

\* The elements at the places of T, in their order.
picked(list, T) == Joined!Fold(<<>>, [k \in DOMAIN list |-> IF k \in T THEN <<list[k]>> ELSE <<>>])

\* The last of some places, which are not none.
lastOf(T) == CHOOSE k \in T : \A j \in T : j <= k
=============================================================================
