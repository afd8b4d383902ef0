----------------------------- MODULE MCHelpers ------------------------------
(***************************************************************************)
(* Model-checking instance for the game and utility helpers and the       *)
(* message statistics ring, three components that share no state.  A      *)
(* behaviour either makes one Maths call, fixed in its initial state,     *)
(* runs the ranking list (call = NoCall) or runs the statistics ring      *)
(* (call = StatsCall), so that none multiplies another's state space.     *)
(***************************************************************************)
EXTENDS RankingList, Maths, MessageStatistics, TLC

MCOperands  == -3 .. 3
MCExponents == 0 .. 8
helperVars == <<scores, competitors, fault, call, ring, ticks, hits, hist>>

NoCall    == [fn |-> "none"]
StatsCall == [fn |-> "stats"]

HelpersNext ==
    \/ call = NoCall /\ Next /\ UNCHANGED <<call, statsVars>>
    \/ call = StatsCall /\ StatsNext /\ UNCHANGED <<call, vars>>
    \/ call # NoCall /\ UNCHANGED helperVars   \* a Maths call, or the ring at its bounds

HelpersInit == StatsInit /\ Init /\ call \in Calls \cup {NoCall, StatsCall}

HelpersSpec == HelpersInit /\ [][HelpersNext]_helperVars

\* the extremes of an 8-bit int, where max+1-min overflows, and values near 0
MCBounds    == {-128, -127, -2, -1, 0, 1, 2, 126, 127}

=============================================================================
