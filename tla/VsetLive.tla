------------------------------ MODULE VsetLive ------------------------------
(***************************************************************************)
(* The live mode of vset, main() of src/src/vset.c: the loop scans the LLC *)
(* once a period, smooths the eviction rate of every colour (module        *)
(* HotnessScan), and adapts the time the probes wait between priming and   *)
(* probing: shorter when colours are saturated, so that the rates tell     *)
(* them apart again.                                                       *)
(***************************************************************************)

EXTENDS HotnessScan, Sequences, FiniteSets

CONSTANTS MayBeUnbuilt,  \* the colours that may be left without eviction set
          BaseWaits,     \* the values of -w explored, in microseconds
          FixWait,       \* the values of fix_wait explored
          MaxExpandLow   \* bound kept on consec_expand_low, which nothing reads

ASSUME /\ MayBeUnbuilt \subseteq Colors /\ FixWait \subseteq BOOLEAN
       /\ BaseWaits \subseteq Nat \ {0} /\ MaxExpandLow \in Nat

VARIABLES
    pc,                     \* where main() is: "first", "loop"
    unbuilt,                \* the colours with ctx.color_counts[c] = 0
    n_pairs,                \* ctx.n_pairs
    ewma,                   \* ctx.ewma
    fix_wait,
    wait_time_us,           \* the wait asked for with -w
    wait_us,                \* ctx.wait_us, the wait the probes use
    consec_shrink_high, consec_expand_low,
    hot                     \* history: did each of the last two scans find
                            \* two colours or more saturated

scanv == <<unbuilt, n_pairs, ewma>>
waitv == <<wait_us, consec_shrink_high, consec_expand_low>>
vars  == <<pc, scanv, fix_wait, wait_time_us, waitv, hot>>

\* n_colors_hot and n_colors_cold (lines 537-541)
n_colors_hot(e)  == Cardinality({c \in Colors : AtLeast(e[c], 95)})
n_colors_cold(e) == Cardinality({c \in Colors : ~AtLeast(e[c], 95) /\ AtMost(e[c], 20)})

-----------------------------------------------------------------------------
(* The adaptive wait.                                                      *)

Adapted_without_reset(e) ==
    LET shrink == consec_shrink_high + (IF n_colors_hot(e) >= 2 THEN 1 ELSE 0)
        expand == IF n_colors_cold(e) = NColors
                  THEN IF consec_expand_low < MaxExpandLow
                       THEN consec_expand_low + 1 ELSE MaxExpandLow
                  ELSE 0
    IN  IF fix_wait \/ wait_us <= 1000
        THEN [wait |-> wait_us, shrink |-> consec_shrink_high,
              expand |-> consec_expand_low]
        ELSE IF shrink >= 2
        THEN [wait |-> wait_us - 1000, shrink |-> 0, expand |-> expand]
        ELSE [wait |-> IF shrink > 0 THEN wait_time_us ELSE wait_us,
              shrink |-> shrink, expand |-> expand]

\* Lines 542-561: the wait and the two counters after a scan that left e.
Adapted(e) ==
    LET shrink == IF n_colors_hot(e) >= 2 THEN consec_shrink_high + 1 ELSE 0
        expand == IF n_colors_cold(e) = NColors
                  THEN IF consec_expand_low < MaxExpandLow
                       THEN consec_expand_low + 1 ELSE MaxExpandLow
                  ELSE 0
    IN  IF fix_wait \/ wait_us <= 1000
        THEN [wait |-> wait_us, shrink |-> consec_shrink_high,
              expand |-> consec_expand_low]
        ELSE IF shrink >= 2
        THEN [wait |-> wait_us - 1000, shrink |-> 0, expand |-> expand]
        ELSE [wait |-> IF shrink > 0 THEN wait_time_us ELSE wait_us,
              shrink |-> shrink, expand |-> expand]

Last2(s) == IF Len(s) > 2 THEN SubSeq(s, Len(s) - 1, Len(s)) ELSE s

-----------------------------------------------------------------------------
Init ==
    /\ pc = "first"
    /\ unbuilt \in SUBSET MayBeUnbuilt
    /\ n_pairs = NPairsInit
    /\ ewma = [c \in Colors |-> 0]
    /\ fix_wait \in FixWait
    /\ wait_time_us \in BaseWaits
    /\ wait_us = wait_time_us
    /\ consec_shrink_high = 0 /\ consec_expand_low = 0
    /\ hot = <<>>

\* Lines 523-525: the first scan sets the averages.
first_scan ==
    /\ pc = "first"
    /\ \E np \in 0..n_pairs : \E rates \in Measured(unbuilt, np) :
        /\ n_pairs' = np
        /\ ewma' = rates
    /\ pc' = "loop"
    /\ UNCHANGED <<unbuilt, fix_wait, wait_time_us, waitv, hot>>

\* Lines 532-567: one round of the loop.
live_round ==
    /\ pc = "loop"
    /\ \E np \in 0..n_pairs : \E rates \in Measured(unbuilt, np) :
        /\ n_pairs' = np
        /\ ewma' = update_ewma(ewma, rates)
    /\ wait_us' = Adapted(ewma').wait
    /\ consec_shrink_high' = Adapted(ewma').shrink
    /\ consec_expand_low' = Adapted(ewma').expand
    /\ hot' = Last2(Append(hot, n_colors_hot(ewma') >= 2))
    /\ UNCHANGED <<pc, unbuilt, fix_wait, wait_time_us>>

Next == first_scan \/ live_round

Spec == Init /\ [][Next]_vars

-----------------------------------------------------------------------------
\* The type of every variable.
TypeOK ==
    /\ pc \in {"first", "loop"}
    /\ unbuilt \subseteq Colors
    /\ n_pairs \in 0..NPairsInit
    /\ ewma \in [Colors -> Hot]
    /\ fix_wait \in BOOLEAN
    /\ wait_time_us \in BaseWaits
    /\ wait_us \in 1..wait_time_us
    /\ consec_shrink_high \in 0..1
    /\ consec_expand_low \in 0..MaxExpandLow
    /\ hot \in UNION {[1..n -> BOOLEAN] : n \in 0..2}

\* The adaptive wait of the live mode (vset.c:542-557): the probes wait
\* 1000 us less only after two rounds in a row that found two colours or
\* more at 95 percent, and the wait never reaches zero.
LiveShrinksAfterTwoHotScans ==
    [][wait_us' < wait_us
         => /\ wait_us' = wait_us - 1000
            /\ wait_us' > 0
            /\ hot' = <<TRUE, TRUE>>]_vars

\* The way back, as the comments of vset.c:550 and 559 and the description
\* of the adaptive wait have it: the wait returns to the value asked for
\* when a round finds all colours idle, at 20 percent or less.
WaitReturnsWhenIdle ==
    [][wait_us' > wait_us => n_colors_cold(ewma') = NColors]_vars
=============================================================================
