----------------------------- MODULE TopRanking -----------------------------
(***************************************************************************)
(* What a RankingList promises, without the sorted slice: a board mapping *)
(* each present competitor to its score.  When the board holds RankCount  *)
(* competitors, a newcomer gets in only by beating every worst member,    *)
(* and then exactly one worst member leaves.  Which of several tied worst *)
(* members leaves is not promised.                                        *)
(***************************************************************************)
EXTENDS Integers, FiniteSets

CONSTANTS Ids, ScoreVals, RankCount, Asc

VARIABLE board

Above(s1, s2) == IF Asc THEN s1 < s2 ELSE s1 > s2

Full == RankCount > 0 /\ Cardinality(DOMAIN board) >= RankCount

WorstMembers == {x \in DOMAIN board : \A y \in DOMAIN board : ~Above(board[x], board[y])}

With(id, s) == [x \in DOMAIN board \cup {id} |-> IF x = id THEN s ELSE board[x]]

Without(b, id) == [x \in DOMAIN b \ {id} |-> b[x]]

Init == board = [x \in {} |-> 0]

(* Set a competitor's score: a member moves, a newcomer joins while there *)
(* is room, or evicts a worst member it beats.                            *)
Set(id, s) ==
    \/ id \in DOMAIN board /\ board' = With(id, s)
    \/ id \notin DOMAIN board /\ ~Full /\ board' = With(id, s)
    \/ /\ id \notin DOMAIN board /\ Full
       /\ \A w \in WorstMembers : Above(s, board[w])
       /\ \E w \in WorstMembers : board' = Without(With(id, s), w)

Remove(id) == id \in DOMAIN board /\ board' = Without(board, id)

Clear == board' = [x \in {} |-> 0]

Next == (\E id \in Ids, s \in ScoreVals : Set(id, s)) \/ (\E id \in Ids : Remove(id)) \/ Clear

Spec == Init /\ [][Next]_board

=============================================================================
