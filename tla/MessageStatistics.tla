-------------------------- MODULE MessageStatistics --------------------------
(***************************************************************************)
(* The message statistics ring of server.Server (src/unnamed/part_002,     *)
(* 707-781): runtime.messageStatistics, a slice of atomic counters, one    *)
(* per period of messageStatisticsDuration, newest first.  Three kinds of  *)
(* goroutine use it: pushMessage's hitMessageStatistics (under RLock),     *)
(* the ticker goroutine that startMessageStatistics starts (rotation      *)
(* under Lock) and the Get* readers (under Lock).  Each of them holds the *)
(* lock across its whole access, so each is one step here; the reads are  *)
(* operators on the state.                                                *)
(*                                                                         *)
(* WithMessageStatistics, the option that sets messageStatisticsLock,     *)
(* Duration and Limit, is not under src/; StatsOn and StatsLimit stand    *)
(* for what it sets, from spec.md ("an optional ring ... trims to a       *)
(* capacity limit").                                                      *)
(***************************************************************************)
EXTENDS Naturals, Sequences

CONSTANTS
    StatsOn,     \* HasMessageStatistics: messageStatisticsLock # nil
    StatsLimit,  \* messageStatisticsLimit: the periods the ring keeps
    MaxTicks,    \* bound on the ticker's rotations
    MaxHits      \* bound on the messages pushMessage counts

ASSUME /\ StatsOn \in BOOLEAN /\ StatsLimit \in Nat \ {0}
       /\ MaxTicks \in Nat /\ MaxHits \in Nat

VARIABLES
    ring,    \* runtime.messageStatistics: the counters' values, newest first
    ticks,   \* rotations made
    hits,    \* hitMessageStatistics calls made
    hist     \* ghost: the hits of every period since the start, newest first

statsVars == <<ring, ticks, hits, hist>>

(* onMessageSystemInit has run startMessageStatistics, which appends the  *)
(* first counter before the system dispatcher exists: no push can be      *)
(* routed, and so counted, before it.                                     *)
StatsInit ==
    /\ ring = IF StatsOn THEN <<0>> ELSE <<>>
    /\ ticks = 0
    /\ hits = 0
    /\ hist = <<0>>

(* hitMessageStatistics, called by pushMessage for every message it hands *)
(* to a dispatcher: past the messageCounter increment, one more message   *)
(* in the newest period's counter.                                        *)
HitMessageStatistics ==
    /\ hits < MaxHits
    /\ hits' = hits + 1
    /\ IF StatsOn THEN /\ ring' = [ring EXCEPT ![1] = @ + 1]
                       /\ hist' = [hist EXCEPT ![1] = @ + 1]
       ELSE UNCHANGED <<ring, hist>>
    /\ UNCHANGED ticks

\* mutant: the ring never trimmed
RotateNoTrim(r) == <<0>> \o r

\* mutant: the ring trimmed to one period fewer than the limit
RotateShort(r) ==
    LET n == <<0>> \o r
    IN IF Len(n) > StatsLimit THEN SubSeq(n, 1, StatsLimit - 1) ELSE n

(* The ticker's rotation: a new counter in front, then the slice cut to   *)
(* messageStatisticsLimit.                                                *)
Rotate(r) ==
    LET n == <<0>> \o r
    IN IF Len(n) > StatsLimit THEN SubSeq(n, 1, StatsLimit) ELSE n

(* A tick of the ticker goroutine.  It exists only when statistics are on; *)
(* its select may still take ticks once srv.ctx is cancelled, so nothing   *)
(* here stops it but MaxTicks.                                             *)
StatsTick ==
    /\ StatsOn
    /\ ticks < MaxTicks
    /\ ring' = Rotate(ring)
    /\ hist' = <<0>> \o hist
    /\ ticks' = ticks + 1
    /\ UNCHANGED hits

StatsNext == HitMessageStatistics \/ StatsTick

(* GetDurationMessageCountByOffset for offset >= 0 (a negative offset      *)
(* indexes the slice with it and panics); GetDurationMessageCount is      *)
(* offset 0.                                                               *)
GetDurationMessageCountByOffset(offset) ==
    IF ~StatsOn \/ offset >= Len(ring) - 1 THEN 0 ELSE ring[offset + 1]

GetAllDurationMessageCount == IF StatsOn THEN ring ELSE <<>>

-----------------------------------------------------------------------------
StatsTypeOK ==
    /\ ring \in Seq(0 .. MaxHits) /\ hist \in Seq(0 .. MaxHits)
    /\ ticks \in 0 .. MaxTicks /\ hits \in 0 .. MaxHits
    /\ StatsOn => Len(ring) \in 1 .. StatsLimit

(* The ring is a sliding window over the periods, whatever the order of   *)
(* hits and rotations: GetAllDurationMessageCount holds the hits of the   *)
(* last min(limit, rotations + 1) periods, newest first, and              *)
(* GetDurationMessageCountByOffset(k) reads the period k ticks back for   *)
(* every k it answers with a count.                                       *)
StatsWindow ==
    StatsOn =>
        /\ Len(GetAllDurationMessageCount)
               = IF ticks + 1 > StatsLimit THEN StatsLimit ELSE ticks + 1
        /\ GetAllDurationMessageCount = SubSeq(hist, 1, Len(ring))
        /\ \A k \in 0 .. Len(ring) - 2 :
              GetDurationMessageCountByOffset(k) = hist[k + 1]

=============================================================================
