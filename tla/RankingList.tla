---------------------------- MODULE RankingList ----------------------------
(***************************************************************************)
(* The bounded ranking list of src/game/builtin/ranking_list.go.           *)
(*                                                                         *)
(* `scores` is slf.scores, a slice of scoreItem kept best-first by Cmp;    *)
(* `competitors` is slf.competitors, the id -> score map, as a function    *)
(* whose domain is the set of ids present.  Positions are Go indexes:      *)
(* rank r is scores[r+1].  A method call runs to completion in one step:   *)
(* the type has no lock and the code calls it from one goroutine.          *)
(*                                                                         *)
(* `fault` records how a call ended badly: "panic" when                    *)
(* OnRankChangeEvent's GetRank fails (lines 55-56, 70-71), "hung" when     *)
(* GetRank's equal-score branch finds nothing and its loop spins (117-129).*)
(***************************************************************************)
EXTENDS Integers, Sequences, SequencesExt, FiniteSets, FiniteSetsExt

CONSTANTS
    Ids,          \* competitor ids
    ScoreVals,    \* the scores a call may pass; also bounds CompetitorIncrease
    RankCount,    \* slf.rankCount; <= 0 means unbounded
    Asc,          \* slf.asc
    HasHandlers   \* len(slf.rankChangeEventHandles) > 0

ASSUME ScoreVals \subseteq Int /\ RankCount \in Int /\ Asc \in BOOLEAN
       /\ HasHandlers \in BOOLEAN

VARIABLES scores, competitors, fault

vars == <<scores, competitors, fault>>

Item == [id : Ids, score : ScoreVals]

(* Cmp: 1 when s1 ranks above s2, -1 below, 0 equal; reversed when asc.  *)
Cmp(s1, s2) ==
    LET r == IF s1 > s2 THEN 1 ELSE IF s1 < s2 THEN -1 ELSE 0
    IN IF Asc THEN -r ELSE r

SetScore(comp, id, s) == [x \in DOMAIN comp \cup {id} |-> IF x = id THEN s ELSE comp[x]]

DeleteId(comp, id) == [x \in DOMAIN comp \ {id} |-> comp[x]]

(* GetRank's results other than a Go index (>= 0): its two errors, and   *)
(* Spin, the loop that never ends.                                        *)
NotExist == -1
IndexErr == -2
Spin     == -3

(* GetRank's loop over [low, high]: the Go index of id, IndexErr when    *)
(* the range empties, Spin when the equal-score scans miss and the loop  *)
(* repeats the same mid forever.                                         *)
\* mutant: the equal-score branch scans only the items after mid
EqualScanUpOnly(sc, id, low, mid, high) ==
    LET up == {i \in mid + 1 .. high : sc[i + 1].id = id}
    IN IF up # {} THEN Min(up) ELSE Spin

(* GetRank's two scans when mid holds an equal score: upward from mid+1, *)
(* then downward from mid-1; Spin when both miss.                        *)
EqualScan(sc, id, low, mid, high) ==
    LET up   == {i \in mid + 1 .. high : sc[i + 1].id = id}
        down == {i \in low .. mid - 1 : sc[i + 1].id = id}
    IN CASE up # {}   -> Min(up)
         [] down # {} -> Max(down)
         [] OTHER     -> Spin

RECURSIVE RankSearch(_, _, _, _, _)
RankSearch(sc, id, cs, low, high) ==
    IF low > high THEN IndexErr
    ELSE LET mid == (low + high) \div 2
             d   == sc[mid + 1]
         IN CASE d.id = id               -> mid
              [] Cmp(d.score, cs) = 0    -> EqualScan(sc, id, low, mid, high)
              [] Cmp(d.score, cs) < 0    -> RankSearch(sc, id, cs, low, mid - 1)
              [] OTHER                   -> RankSearch(sc, id, cs, mid + 1, high)

GetRank(sc, comp, id) ==
    IF id \notin DOMAIN comp THEN NotExist
    ELSE RankSearch(sc, id, comp[id], 0, Len(sc) - 1)

\* mutant: the two directions of the search swapped
RECURSIVE InsertPosSwapped(_, _, _, _)
InsertPosSwapped(sc, s, low, high) ==
    IF low > high THEN low
    ELSE LET mid  == (low + high) \div 2
             diff == {i \in mid + 1 .. high : Cmp(sc[i + 1].score, s) # 0}
         IN CASE Cmp(sc[mid + 1].score, s) = 0
                   -> InsertPosSwapped(sc, s, IF diff = {} THEN high + 1 ELSE Min(diff), high)
              [] Cmp(sc[mid + 1].score, s) < 0 -> InsertPosSwapped(sc, s, mid + 1, high)
              [] OTHER                         -> InsertPosSwapped(sc, s, low, mid - 1)

(* competitor's binary search for the slot of a new item: past the run   *)
(* of equal scores (206-210), left of anything ranked below it.          *)
RECURSIVE InsertPos(_, _, _, _)
InsertPos(sc, s, low, high) ==
    IF low > high THEN low
    ELSE LET mid  == (low + high) \div 2
             diff == {i \in mid + 1 .. high : Cmp(sc[i + 1].score, s) # 0}
         IN CASE Cmp(sc[mid + 1].score, s) = 0
                   -> InsertPos(sc, s, IF diff = {} THEN high + 1 ELSE Min(diff), high)
              [] Cmp(sc[mid + 1].score, s) < 0 -> InsertPos(sc, s, low, mid - 1)
              [] OTHER                         -> InsertPos(sc, s, mid + 1, high)

\* mutant: the overflow check never fires
OverfullNever(sc2) == FALSE

(* After an insert, the list holds more than rankCount items (239).      *)
Overfull(sc2) == RankCount > 0 /\ Len(sc2) > RankCount

\* mutant: the last item leaves the slice but stays in competitors
EvictKeepId(sc2, c2) == [sc |-> SubSeq(sc2, 1, Len(sc2) - 1), comp |-> c2]

\* mutant: the first item is dropped instead of the last
EvictFirst(sc2, c2) == [sc |-> Tail(sc2), comp |-> DeleteId(c2, Head(sc2).id)]

(* Drop the last item from the slice and from competitors (243-246).     *)
Evict(sc2, c2) == [sc |-> SubSeq(sc2, 1, Len(sc2) - 1), comp |-> DeleteId(c2, Last(sc2).id)]

(* The rest of competitor: append at the end unless full, else insert,   *)
(* and evict when that overfills the list.                               *)
Place(sc, comp, id, s, low, high) ==
    LET p    == InsertPos(sc, s, low, high)
        sc2  == InsertAt(sc, p + 1, [id |-> id, score |-> s])
        c2   == SetScore(comp, id, s)
    IN CASE p = Len(sc) /\ RankCount > 0 /\ Len(sc) >= RankCount
              -> [sc |-> sc, comp |-> comp]
         [] ~Overfull(sc2) -> [sc |-> sc2, comp |-> c2]
         [] OTHER          -> Evict(sc2, c2)

(* How OnRankChangeEvent's GetRank ends for id after the update.         *)
EventFault(r, id) ==
    LET nr == GetRank(r.sc, r.comp, id)
    IN CASE ~HasHandlers -> "none"
         [] nr >= 0      -> "none"
         [] nr = Spin    -> "hung"
         [] OTHER        -> "panic"

WithFault(r, f) == [sc |-> r.sc, comp |-> r.comp, fault |-> f]

(* Competitor(id, s) as a function of the state: the result record.      *)
CompetitorResult(id, s) ==
    LET none == [sc |-> scores, comp |-> competitors, fault |-> "none"]
        v    == competitors[id]
        rank == GetRank(scores, competitors, id)
        sc1  == IF rank >= 0 THEN RemoveAt(scores, rank + 1) ELSE scores
        c1   == DeleteId(competitors, id)
        upd  == IF Cmp(s, v) > 0 THEN Place(sc1, c1, id, s, 0, rank - 1)
                ELSE Place(sc1, c1, id, s, rank, Len(sc1) - 1)
        ins  == Place(scores, competitors, id, s, 0, Len(scores) - 1)
    IN CASE id \in DOMAIN competitors /\ Cmp(v, s) = 0 -> none
         [] id \in DOMAIN competitors /\ rank = Spin  -> [none EXCEPT !.fault = "hung"]
         [] id \in DOMAIN competitors /\ rank < 0 -> none
         [] id \in DOMAIN competitors -> WithFault(upd, EventFault(upd, id))
         [] RankCount > 0 /\ Len(scores) >= RankCount
              /\ Cmp(s, Last(scores).score) <= 0 -> none
         [] OTHER -> WithFault(ins, EventFault(ins, id))

Init ==
    /\ scores = <<>>
    /\ competitors = [x \in {} |-> 0]
    /\ fault = "none"

Apply(r) ==
    /\ scores' = r.sc
    /\ competitors' = r.comp
    /\ fault' = r.fault

Competitor(id, s) ==
    /\ fault = "none"
    /\ Apply(CompetitorResult(id, s))

(* CompetitorIncrease: Competitor with the old score plus s; the sum     *)
(* must stay in ScoreVals.                                               *)
CompetitorIncrease(id, s) ==
    LET new == IF id \in DOMAIN competitors THEN competitors[id] + s ELSE s
    IN /\ fault = "none"
       /\ new \in ScoreVals
       /\ Apply(CompetitorResult(id, new))

RemoveCompetitor(id) ==
    LET rank == GetRank(scores, competitors, id)
    IN /\ fault = "none"
       /\ id \in DOMAIN competitors
       /\ IF rank = Spin THEN fault' = "hung" /\ UNCHANGED <<scores, competitors>>
          ELSE /\ scores' = IF rank >= 0 THEN RemoveAt(scores, rank + 1) ELSE scores
               /\ competitors' = DeleteId(competitors, id)
               /\ UNCHANGED fault

Clear ==
    /\ fault = "none"
    /\ scores' = <<>>
    /\ competitors' = [x \in {} |-> 0]
    /\ UNCHANGED fault

Next ==
    \/ \E id \in Ids, s \in ScoreVals :
          Competitor(id, s) \/ CompetitorIncrease(id, s)
    \/ \E id \in Ids : RemoveCompetitor(id)
    \/ Clear

Spec == Init /\ [][Next]_vars

-----------------------------------------------------------------------------
(* The read-only methods.  A result is [err, val]; val is meaningless     *)
(* when err holds.  GetCompetitor counts ranks from 0, as GetRank does;   *)
(* GetCompetitorWithRange counts them from 1.                             *)

Size == Cardinality(DOMAIN competitors)

GetCompetitor(rank) ==
    IF rank < 0 \/ rank >= Len(scores) THEN [err |-> TRUE, val |-> <<>>]
    ELSE [err |-> FALSE, val |-> scores[rank + 1].id]

GetAllCompetitor == [i \in DOMAIN scores |-> scores[i].id]

\* mutant: the slice taken from start instead of start-1
GetCompetitorWithRangeFromStart(start, end) ==
    LET total == Len(scores)
        e     == IF end > total THEN total ELSE end
    IN IF start < 1 \/ end < start \/ start > total THEN [err |-> TRUE, val |-> <<>>]
       ELSE [err |-> FALSE, val |-> SubSeq(GetAllCompetitor, start + 1, e)]

(* The ids ranked start..end (1-based), end clamped to the list's length. *)
GetCompetitorWithRange(start, end) ==
    LET total == Len(scores)
        e     == IF end > total THEN total ELSE end
    IN IF start < 1 \/ end < start \/ start > total THEN [err |-> TRUE, val |-> <<>>]
       ELSE [err |-> FALSE, val |-> SubSeq(GetAllCompetitor, start, e)]

GetScore(id) ==
    IF id \in DOMAIN competitors THEN [err |-> FALSE, val |-> competitors[id]]
    ELSE [err |-> TRUE, val |-> 0]

-----------------------------------------------------------------------------
(* Properties.                                                            *)

TypeOK ==
    /\ scores \in Seq(Item)
    /\ RankCount > 0 => Len(scores) <= RankCount
    /\ DOMAIN competitors \subseteq Ids
    /\ \A x \in DOMAIN competitors : competitors[x] \in ScoreVals
    /\ fault \in {"none", "panic", "hung"}

(* The slice is in rank order after any sequence of Competitor,          *)
(* CompetitorIncrease, RemoveCompetitor and Clear calls: best first,     *)
(* highest score first unless asc.  Stated with < and > directly, not    *)
(* with Cmp, so a mistake in either binary search shows.                  *)
Ordered ==
    \A i \in 1 .. Len(scores) - 1 :
        IF Asc THEN scores[i].score <= scores[i + 1].score
        ELSE scores[i].score >= scores[i + 1].score

(* The competitors map and the slice describe the same board: the same   *)
(* ids, each once in the slice, with the same score.  Evicting the last  *)
(* item and re-inserting a moved one must update both.                   *)
IndexAgrees ==
    /\ DOMAIN competitors = {scores[i].id : i \in DOMAIN scores}
    /\ Len(scores) = Cardinality(DOMAIN competitors)
    /\ \A i \in DOMAIN scores : competitors[scores[i].id] = scores[i].score

(* GetRank's binary search, with its scans over runs of equal scores,    *)
(* finds every present competitor at its real position, so no call has  *)
(* hung in GetRank or panicked in OnRankChangeEvent.                     *)
RankFound ==
    /\ fault = "none"
    /\ \A id \in DOMAIN competitors :
          LET r == GetRank(scores, competitors, id)
          IN r >= 0 /\ scores[r + 1].id = id

(* The queries agree across their two rank conventions on every board:   *)
(* the competitor GetRank places at r (0-based) is what GetCompetitor(r) *)
(* and GetCompetitorWithRange(r+1, r+1) return, with the score GetScore  *)
(* reports; ranks past either end are errors; a range running past the  *)
(* end is cut to the rest of the list, and Size counts the same board.   *)
RankQueriesAgree ==
    /\ \A id \in DOMAIN competitors :
          LET r == GetRank(scores, competitors, id)
          IN r >= 0 => /\ GetCompetitor(r) = [err |-> FALSE, val |-> id]
                       /\ GetCompetitorWithRange(r + 1, r + 1) = [err |-> FALSE, val |-> <<id>>]
                       /\ GetScore(id).val = scores[r + 1].score
    /\ GetCompetitor(-1).err /\ GetCompetitor(Len(scores)).err
    /\ GetCompetitorWithRange(Len(scores) + 1, Len(scores) + 1).err
    /\ \A s \in 1 .. Len(scores) :
          GetCompetitorWithRange(s, Len(scores) + 1).val
              = [i \in 1 .. Len(scores) - s + 1 |-> GetAllCompetitor[s + i - 1]]
    /\ Size = Len(GetAllCompetitor)

Abstract == INSTANCE TopRanking WITH board <- competitors

(* The ranking list implements TopRanking under the refinement mapping   *)
(* board <- competitors: a newcomer to a full list enters only by        *)
(* beating its worst member, and only a worst member is evicted.         *)
TopRankingSpec == Abstract!Spec

=============================================================================
