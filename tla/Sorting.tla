------------------------------ MODULE Sorting ------------------------------
(***************************************************************************)
(* slices.SortFunc and slices.SortStableFunc of Go's library, as the code  *)
(* uses them: the members of a list by an order.  Members that tie stay as *)
(* they were.                                                              *)
(***************************************************************************)
EXTENDS Naturals, FiniteSets

(* A member's place is one more than the number of those before it.        *)
SortedBy(s, Before(_, _)) ==
  LET place == [i \in DOMAIN s |->
                  1 + Cardinality({j \in DOMAIN s :
                        Before(s[j], s[i]) \/ (j < i /\ ~Before(s[i], s[j]))})]
  IN  [k \in DOMAIN s |-> s[CHOOSE i \in DOMAIN s : place[i] = k]]

=============================================================================
