---------------------------- MODULE LcasMonitor -----------------------------
(***************************************************************************)
(* The socket ranking of vset --lcas, monitor_l3_occupancy_lcas in         *)
(* src/src/vset_ops.c: once a period the loop measures the LLC hotness of  *)
(* every socket, smooths it, shortens the wait of the probes when every    *)
(* socket is saturated, and writes the sockets, coldest first, into the    *)
(* BPF map an external scheduler reads (update_lcas_map).  Key 0 of the    *)
(* map holds the preferred socket, or n_sockets for "no preference".       *)
(*                                                                         *)
(* A hotness is a fraction k / Scale; what a scan measures is an input.    *)
(* The smoother works on that grid and rounds toward the new measurement,  *)
(* so that a hotness that persists is reached, as every threshold short of *)
(* it is crossed in f64.                                                   *)
(***************************************************************************)

EXTENDS Integers, Sequences, FiniteSets, SequencesExt

CONSTANTS NSockets,        \* n_sockets
          MayHaveNoPairs,  \* the sockets that may have n_pairs = 0
          Scale,           \* a hotness is k / Scale
          Rates,           \* the hotness a scan may measure
          AlphaRise,       \* lcas_alpha_rise, in percent
          AlphaFall,       \* lcas_alpha_fall, in percent
          BaseWait,        \* wait_time_us at the start, in microseconds
          FixWait,         \* the values of fix_wait explored
          MaxLost          \* bound on the map updates that fail

Sockets == 0..(NSockets - 1)

ASSUME /\ NSockets \in Nat \ {0} /\ MayHaveNoPairs \subseteq Sockets
       /\ Scale \in Nat \ {0} /\ Rates \subseteq 0..Scale
       /\ AlphaRise \in 0..100 /\ AlphaFall \in 0..100
       /\ BaseWait \in Nat \ {0} /\ FixWait \subseteq BOOLEAN /\ MaxLost \in Nat

VARIABLES
    pc,                     \* where the loop is: "scan", "rank"
    first,
    no_pairs,               \* the sockets with sockets[s].n_pairs = 0
    ewma,
    fix_wait, wait_time_us, consec_shrink_high,
    last_order, change_cnt, coldest,        \* the statics of the loop
    lcas_map,               \* the BPF map
    lost,                   \* history: the map updates that failed
    seen,                   \* history: the candidates of the last three
                            \* scans and whether each was counted
    saturated               \* history: was every socket saturated in the
                            \* last two scans

scanv == <<no_pairs, ewma>>
waitv == <<fix_wait, wait_time_us, consec_shrink_high>>
rankv == <<last_order, change_cnt, coldest>>
vars  == <<pc, first, scanv, waitv, rankv, lcas_map, lost, seen, saturated>>

LCAS_MAX_SOCKETS == 16
NoPreference     == NSockets

-----------------------------------------------------------------------------
(* The arithmetic of a scan.                                               *)

\* alpha * old + (1 - alpha) * hot (vset_ops.c:1830-1832)
Smooth(old, hot) ==
    IF hot > old
    THEN (AlphaRise * old + (100 - AlphaRise) * hot + 99) \div 100
    ELSE (AlphaFall * old + (100 - AlphaFall) * hot) \div 100

\* lcas_level: the thresholds 40, 65 and 85 percent that h has reached.
lcas_level(h) == Cardinality({t \in {40, 65, 85} : h * 100 >= t * Scale})

\* ewma[s] >= 0.95
High(e) == {s \in Sockets \ no_pairs : e[s] * 100 >= 95 * Scale}

Orders == SetToSeqs(Sockets)

\* The orders qsort may leave with cmp_cool: rising hotness, sockets of
\* equal hotness in any order.
Sorted(e) ==
    { s \in Orders : \A i \in 1..(NSockets - 1) : e[s[i]] <= e[s[i + 1]] }

all_same_level(e) == \A s, t \in Sockets : lcas_level(e[s]) = lcas_level(e[t])

update_lcas_map_always_order(map, order, no_pref, ok) ==
    IF ~ok THEN map ELSE [i \in Sockets |-> order[i + 1]]

\* update_lcas_map: nothing when the map cannot be opened, key 0 alone for
\* "no preference", every key otherwise.
update_lcas_map(map, order, no_pref, ok) ==
    IF ~ok THEN map
    ELSE IF no_pref THEN [map EXCEPT ![0] = NoPreference]
    ELSE [i \in Sockets |-> order[i + 1]]

Lost(oks) == lost' = lost + Cardinality({i \in DOMAIN oks : ~oks[i]})
             /\ lost' <= MaxLost

-----------------------------------------------------------------------------
(* The pieces of the loop body.                                            *)

Shrunk_below_floor(high) ==
    IF fix_wait
    THEN [cnt |-> consec_shrink_high, wait |-> wait_time_us]
    ELSE LET cnt == IF high = NSockets THEN consec_shrink_high + 1 ELSE 0
         IN  IF cnt >= 2 THEN [cnt |-> 0, wait |-> wait_time_us - 1000]
             ELSE [cnt |-> cnt, wait |-> wait_time_us]

Shrunk_without_reset(high) ==
    IF fix_wait \/ wait_time_us <= 1000
    THEN [cnt |-> consec_shrink_high, wait |-> wait_time_us]
    ELSE LET cnt == consec_shrink_high + (IF high = NSockets THEN 1 ELSE 0)
         IN  IF cnt >= 2 THEN [cnt |-> 0, wait |-> wait_time_us - 1000]
             ELSE [cnt |-> cnt, wait |-> wait_time_us]

\* Lines 1842-1851: consec_shrink_high and wait_time_us after a scan that
\* found high sockets saturated.
Shrunk(high) ==
    IF fix_wait \/ wait_time_us <= 1000
    THEN [cnt |-> consec_shrink_high, wait |-> wait_time_us]
    ELSE LET cnt == IF high = NSockets THEN consec_shrink_high + 1 ELSE 0
         IN  IF cnt >= 2 THEN [cnt |-> 0, wait |-> wait_time_us - 1000]
             ELSE [cnt |-> cnt, wait |-> wait_time_us]

\* Lines 1897-1898: is the candidate counted against the coldest socket.
Qualifies(cand) ==
    LET cold_lvl == IF coldest = LCAS_MAX_SOCKETS THEN 4
                    ELSE lcas_level(ewma[coldest])
    IN  cand # coldest /\ lcas_level(ewma[cand]) < cold_lvl

Counted_kept(cand) == IF Qualifies(cand) THEN change_cnt + 1 ELSE change_cnt

\* Lines 1898-1902.
Counted(cand) == IF Qualifies(cand) THEN change_cnt + 1 ELSE 0

Keep(s, n) == IF Len(s) > n THEN SubSeq(s, Len(s) - n + 1, Len(s)) ELSE s

Observe(cand, counted) == seen' = Keep(Append(seen, <<cand, counted>>), 3)

-----------------------------------------------------------------------------
Init ==
    /\ pc = "scan"
    /\ first = TRUE
    /\ no_pairs \in SUBSET MayHaveNoPairs
    /\ ewma = [s \in Sockets |-> 0]
    /\ fix_wait \in FixWait
    /\ wait_time_us = BaseWait
    /\ consec_shrink_high = 0
    /\ last_order = [i \in 1..NSockets |-> 0]
    /\ change_cnt = 0
    /\ coldest = LCAS_MAX_SOCKETS
    /\ lcas_map = [i \in Sockets |-> 0]
    /\ lost = 0
    /\ seen = <<>>
    /\ saturated = <<>>

\* Lines 1800-1851: the hotness of every socket that has pairs, smoothed
\* after the first scan, then the wait.
scan ==
    /\ pc = "scan"
    /\ \E hot \in [Sockets -> Rates] :
        /\ ewma' = [s \in Sockets |->
                      IF s \in no_pairs THEN ewma[s]
                      ELSE IF first THEN hot[s] ELSE Smooth(ewma[s], hot[s])]
        /\ LET high == Cardinality(High(ewma')) IN
            /\ consec_shrink_high' = Shrunk(high).cnt
            /\ wait_time_us' = Shrunk(high).wait
            /\ saturated' = Keep(Append(saturated, high = NSockets), 2)
    /\ pc' = "rank"
    /\ UNCHANGED <<first, no_pairs, fix_wait, rankv, lcas_map, lost, seen>>

\* Lines 1875-1887: the first ranking.
rank_first ==
    /\ pc = "rank" /\ first
    /\ \E order \in Sorted(ewma), ok \in BOOLEAN :
        LET no_pref == all_same_level(ewma) IN
        /\ lcas_map' = update_lcas_map(lcas_map, order, no_pref, ok)
        /\ Lost(<<ok>>)
        /\ coldest' = IF no_pref THEN LCAS_MAX_SOCKETS ELSE order[1]
        /\ last_order' = order
        /\ Observe(IF no_pref THEN LCAS_MAX_SOCKETS ELSE order[1], FALSE)
    /\ pc' = "scan" /\ first' = FALSE
    /\ UNCHANGED <<scanv, waitv, change_cnt, saturated>>

\* Lines 1875, 1889-1893: every socket is at the same level.
rank_no_pref ==
    /\ pc = "rank" /\ ~first
    /\ all_same_level(ewma)
    /\ \E order \in Sorted(ewma), ok \in BOOLEAN :
        /\ lcas_map' = update_lcas_map(lcas_map, order, TRUE, ok)
        /\ Lost(<<ok>>)
    /\ change_cnt' = 0
    /\ coldest' = LCAS_MAX_SOCKETS
    /\ Observe(LCAS_MAX_SOCKETS, FALSE)
    /\ pc' = "scan"
    /\ UNCHANGED <<first, scanv, waitv, last_order, saturated>>

\* Lines 1875, 1895-1911: there was no coldest socket, or the candidates
\* have been counted three times.
rank_switch ==
    /\ pc = "rank" /\ ~first
    /\ ~all_same_level(ewma)
    /\ \E order \in Sorted(ewma), ok1 \in BOOLEAN, ok2 \in BOOLEAN :
        LET cand == order[1] IN
        /\ coldest = LCAS_MAX_SOCKETS \/ Counted(cand) >= 3
        /\ coldest' = cand
        /\ change_cnt' = 0
        /\ last_order' = order
        /\ lcas_map' = update_lcas_map(
                          update_lcas_map(lcas_map, order, FALSE, ok1),
                          order, FALSE, ok2)
        /\ Lost(<<ok1, ok2>>)
        /\ Observe(cand, Qualifies(cand))
    /\ pc' = "scan"
    /\ UNCHANGED <<first, scanv, waitv, saturated>>

\* Lines 1875, 1912-1916: the coldest socket stays, the order changed.
rank_reorder ==
    /\ pc = "rank" /\ ~first
    /\ ~all_same_level(ewma)
    /\ \E order \in Sorted(ewma), ok1 \in BOOLEAN, ok2 \in BOOLEAN :
        LET cand == order[1] IN
        /\ coldest # LCAS_MAX_SOCKETS /\ Counted(cand) < 3
        /\ order # last_order
        /\ change_cnt' = Counted(cand)
        /\ last_order' = order
        /\ lcas_map' = update_lcas_map(
                          update_lcas_map(lcas_map, order, FALSE, ok1),
                          order, FALSE, ok2)
        /\ Lost(<<ok1, ok2>>)
        /\ Observe(cand, Qualifies(cand))
    /\ pc' = "scan"
    /\ UNCHANGED <<first, scanv, waitv, coldest, saturated>>

\* Lines 1875, 1912-1913: the order is the one of the last scan.
rank_keep ==
    /\ pc = "rank" /\ ~first
    /\ ~all_same_level(ewma)
    /\ \E order \in Sorted(ewma), ok \in BOOLEAN :
        LET cand == order[1] IN
        /\ coldest # LCAS_MAX_SOCKETS /\ Counted(cand) < 3
        /\ order = last_order
        /\ change_cnt' = Counted(cand)
        /\ lcas_map' = update_lcas_map(lcas_map, order, FALSE, ok)
        /\ Lost(<<ok>>)
        /\ Observe(cand, Qualifies(cand))
    /\ pc' = "scan"
    /\ UNCHANGED <<first, scanv, waitv, last_order, coldest, saturated>>

Next == scan \/ rank_first \/ rank_no_pref \/ rank_switch \/ rank_reorder
             \/ rank_keep

Spec == Init /\ [][Next]_vars

-----------------------------------------------------------------------------
\* The type of every variable.
TypeOK ==
    /\ pc \in {"scan", "rank"} /\ first \in BOOLEAN
    /\ no_pairs \subseteq Sockets
    /\ ewma \in [Sockets -> 0..Scale]
    /\ fix_wait \in BOOLEAN
    /\ wait_time_us \in 1..BaseWait
    /\ consec_shrink_high \in 0..1
    /\ last_order \in [1..NSockets -> Sockets]
    /\ change_cnt \in 0..2
    /\ coldest \in Sockets \cup {LCAS_MAX_SOCKETS}
    /\ lcas_map \in [Sockets -> Sockets \cup {NoPreference}]
    /\ lost \in 0..MaxLost
    /\ seen \in UNION {[1..n -> (Sockets \cup {LCAS_MAX_SOCKETS}) \X BOOLEAN]
                          : n \in 0..3}
    /\ saturated \in UNION {[1..n -> BOOLEAN] : n \in 0..2}

\* The adaptive wait (vset_ops.c:1842-1851): the probes wait 1000 us less
\* only after two scans in a row that found every socket at 95 percent or
\* more, and the wait never reaches zero, where the u64 would wrap.
ShrinksAfterTwoSaturatedScans ==
    [][wait_time_us' # wait_time_us
         => /\ wait_time_us' = wait_time_us - 1000
            /\ wait_time_us' > 0
            /\ saturated' = <<TRUE, TRUE>>]_vars

\* The hysteresis on the loop's own coldest socket (vset_ops.c:1895-1906):
\* one socket takes the place of another only when each of the last three
\* scans ranked, in front, a socket other than the coldest and a level
\* below it.
ColdestNeedsThreeScans ==
    [][(coldest # LCAS_MAX_SOCKETS /\ coldest' # LCAS_MAX_SOCKETS
          /\ coldest' # coldest)
         => (Len(seen') = 3 /\ \A i \in 1..3 : seen'[i][2])]_vars

\* What the scheduler reads between two scans, as long as no update of the
\* map has failed: "no preference" exactly when the smoothed hotness of all
\* sockets is at one level, and otherwise the sockets by rising smoothed
\* hotness (update_lcas_map over the branches of vset_ops.c:1875-1922).
MapRanksSockets ==
    (lost = 0 /\ pc = "scan" /\ ~first)
        => IF all_same_level(ewma) THEN lcas_map[0] = NoPreference
           ELSE lcas_map \in {[i \in Sockets |-> o[i + 1]] : o \in Sorted(ewma)}

\* The hysteresis as the specification states it: once the loop has
\* published a preferred socket under key 0 of the map, the key does not
\* pass to another socket unless that one was ranked coldest in each of the
\* last three scans (update_lcas_map at vset_ops.c:1875, 1907 and 1915).
PublishedColdestIsStable ==
    [][(~first /\ lcas_map[0] \in Sockets /\ lcas_map'[0] \in Sockets
          /\ lcas_map'[0] # lcas_map[0])
         => (Len(seen') = 3 /\ \A i \in 1..3 : seen'[i][1] = lcas_map'[0])]_vars
=============================================================================
