---------------------------- MODULE ReviewCursor ----------------------------
(* What paging through a review should be: a list of screens and a position  *)
(* in it, which a button moves by one.                                       *)
EXTENDS Naturals, Sequences

CONSTANT Lists   \* the lists of screens a review may have

VARIABLES list, pos, screen
vars == <<list, pos, screen>>

Open == list \in Lists /\ pos = 1 /\ screen = list[1]

Turn(n) ==
    /\ n \in DOMAIN list
    /\ pos' = n
    /\ screen' = list[n]
    /\ UNCHANGED list

Next == Turn(pos + 1) \/ Turn(pos - 1) \/ Open'

Spec == Open /\ [][Next]_vars
=============================================================================
