---------------------------- MODULE MCMonitors ------------------------------
(***************************************************************************)
(* The parallel construction and monitoring engine, each of its programs   *)
(* checked from its own start: the parallel builder of evset_para.c        *)
(* (EvsetPara), the four monitoring loops that work on what it built,      *)
(* vcolor (VcolorMonitor), vset --lcas (LcasMonitor), vset --live          *)
(* (VsetLive) and the eviction-rate monitor of vset (SocketMonitor), and   *)
(* the occupancy heatmap with its worker threads (Heatmap).  A monitor     *)
(* takes from the builder only that its sets exist, and the monitors are   *)
(* separate runs of separate programs, so a behaviour of this module is a  *)
(* behaviour of the one program that prog names, and the variables of the  *)
(* others keep the values of their start.                                  *)
(***************************************************************************)

EXTENDS Integers, Sequences, FiniteSets

CONSTANTS NColors, NPairsInit, MayBeUnbuilt,       \* the colour monitors
          NSockets, MayHaveNoPairs, BaseWait,      \* the socket monitor
          BaseWaits, MaxExpandLow,                 \* the live mode
          Iterations,                              \* the eviction-rate monitor
          Scale, Rates, AlphaRise, AlphaFall, FixWait, MaxLost,
          Modes, NPairsReq, NOffsets, NL2Sets,     \* the parallel builder
          MaxTopoChecks,
          Built, Cores, NumThreads, Callers,       \* the heatmap
          n_time_slots, MaxSockets, HeatMayFail,
          Programs                                 \* the programs explored

VARIABLES
    prog,
    vc_pc, vc_unbuilt, vc_n_pairs, vc_ewma, vc_hottest, vc_change_cnt,
    vc_prev_cand, vc_last_order, vc_vcolor_order, vc_vcolor_hottest,
    vc_lost, vc_seen,
    lc_pc, lc_first, lc_no_pairs, lc_ewma, lc_fix_wait, lc_wait_time_us,
    lc_consec_shrink_high, lc_last_order, lc_change_cnt, lc_coldest,
    lc_lcas_map, lc_lost, lc_seen, lc_saturated,
    lv_pc, lv_unbuilt, lv_n_pairs, lv_ewma, lv_fix_wait, lv_wait_time_us,
    lv_wait_us, lv_consec_shrink_high, lv_consec_expand_low, lv_hot,
    sm_pc, sm_iterations, sm_it, sm_first, sm_no_pairs, sm_ewma, sm_fix_wait,
    sm_og_wait_time_us, sm_wait_time_us, sm_consec_shrink_high, sm_round,
    sm_before,
    ep_mode, ep_n_pairs, ep_opc, ep_oi, ep_oj, ep_n_pair_init_done,
    ep_next_offset_idx, ep_wpc, ep_widx, ep_wset, ep_running, ep_halive,
    ep_cancel, ep_result, ep_pairs_freed, ep_rec, ep_aff,
    ep_new_assignments, ep_new_valid_pairs, ep_checks, ep_start_failed,
    ep_timed_out,
    hm_caller, hm_sockets, hm_pc, hm_ret, hm_live, hm_total_sets,
    hm_n_pairs, hm_t, hm_i, hm_sets, hm_hctrl, hm_wpc, hm_created,
    hm_running, hm_cut, hm_undefined

vc_vars ==
    <<vc_pc, vc_unbuilt, vc_n_pairs, vc_ewma, vc_hottest, vc_change_cnt,
      vc_prev_cand, vc_last_order, vc_vcolor_order, vc_vcolor_hottest,
      vc_lost, vc_seen>>
lc_vars ==
    <<lc_pc, lc_first, lc_no_pairs, lc_ewma, lc_fix_wait, lc_wait_time_us,
      lc_consec_shrink_high, lc_last_order, lc_change_cnt, lc_coldest,
      lc_lcas_map, lc_lost, lc_seen, lc_saturated>>
lv_vars ==
    <<lv_pc, lv_unbuilt, lv_n_pairs, lv_ewma, lv_fix_wait, lv_wait_time_us,
      lv_wait_us, lv_consec_shrink_high, lv_consec_expand_low, lv_hot>>
sm_vars ==
    <<sm_pc, sm_iterations, sm_it, sm_first, sm_no_pairs, sm_ewma, sm_fix_wait,
      sm_og_wait_time_us, sm_wait_time_us, sm_consec_shrink_high, sm_round,
      sm_before>>
ep_vars ==
    <<ep_mode, ep_n_pairs, ep_opc, ep_oi, ep_oj, ep_n_pair_init_done,
      ep_next_offset_idx, ep_wpc, ep_widx, ep_wset, ep_running, ep_halive,
      ep_cancel, ep_result, ep_pairs_freed, ep_rec, ep_aff,
      ep_new_assignments, ep_new_valid_pairs, ep_checks, ep_start_failed,
      ep_timed_out>>
hm_vars ==
    <<hm_caller, hm_sockets, hm_pc, hm_ret, hm_live, hm_total_sets,
      hm_n_pairs, hm_t, hm_i, hm_sets, hm_hctrl, hm_wpc, hm_created,
      hm_running, hm_cut, hm_undefined>>
vars == <<prog, vc_vars, lc_vars, lv_vars, sm_vars, ep_vars, hm_vars>>

Vcolor == INSTANCE VcolorMonitor WITH
    pc <- vc_pc, unbuilt <- vc_unbuilt, n_pairs <- vc_n_pairs,
    ewma <- vc_ewma, hottest <- vc_hottest, change_cnt <- vc_change_cnt,
    prev_cand <- vc_prev_cand, last_order <- vc_last_order,
    vcolor_order <- vc_vcolor_order, vcolor_hottest <- vc_vcolor_hottest,
    lost <- vc_lost, seen <- vc_seen

Lcas == INSTANCE LcasMonitor WITH
    pc <- lc_pc, first <- lc_first, no_pairs <- lc_no_pairs,
    ewma <- lc_ewma, fix_wait <- lc_fix_wait,
    wait_time_us <- lc_wait_time_us,
    consec_shrink_high <- lc_consec_shrink_high,
    last_order <- lc_last_order, change_cnt <- lc_change_cnt,
    coldest <- lc_coldest, lcas_map <- lc_lcas_map, lost <- lc_lost,
    seen <- lc_seen, saturated <- lc_saturated

Live == INSTANCE VsetLive WITH
    pc <- lv_pc, unbuilt <- lv_unbuilt, n_pairs <- lv_n_pairs,
    ewma <- lv_ewma, fix_wait <- lv_fix_wait,
    wait_time_us <- lv_wait_time_us, wait_us <- lv_wait_us,
    consec_shrink_high <- lv_consec_shrink_high,
    consec_expand_low <- lv_consec_expand_low, hot <- lv_hot

Multi == INSTANCE SocketMonitor WITH
    pc <- sm_pc, iterations <- sm_iterations, it <- sm_it,
    first <- sm_first, no_pairs <- sm_no_pairs, ewma <- sm_ewma,
    fix_wait <- sm_fix_wait, og_wait_time_us <- sm_og_wait_time_us,
    wait_time_us <- sm_wait_time_us,
    consec_shrink_high <- sm_consec_shrink_high, round <- sm_round,
    before <- sm_before

\* Two vCPUs for every pair: the pairs find_optimal_vcpu_pairs hands out, and
\* the pairs the threads start on.
MCPlace(p) == [main |-> 2 * p, helper |-> 2 * p + 1]

Para == INSTANCE EvsetPara WITH
    Placements <- {MCPlace(p) : p \in 0..(NPairsReq - 1)},
    FirstPlaces <- [p \in 0..(NPairsReq - 1) |-> MCPlace(p)],
    mode <- ep_mode, n_pairs <- ep_n_pairs, opc <- ep_opc, oi <- ep_oi,
    oj <- ep_oj, n_pair_init_done <- ep_n_pair_init_done,
    next_offset_idx <- ep_next_offset_idx, wpc <- ep_wpc, widx <- ep_widx,
    wset <- ep_wset, running <- ep_running, halive <- ep_halive,
    cancel <- ep_cancel, result <- ep_result,
    pairs_freed <- ep_pairs_freed, rec <- ep_rec, aff <- ep_aff,
    new_assignments <- ep_new_assignments,
    new_valid_pairs <- ep_new_valid_pairs, checks <- ep_checks,
    start_failed <- ep_start_failed, timed_out <- ep_timed_out

Heat == INSTANCE Heatmap WITH
    MayFail <- HeatMayFail,
    caller <- hm_caller, sockets <- hm_sockets, pc <- hm_pc, ret <- hm_ret,
    live <- hm_live, total_sets <- hm_total_sets, n_pairs <- hm_n_pairs,
    t <- hm_t, i <- hm_i, sets <- hm_sets, hctrl <- hm_hctrl, wpc <- hm_wpc,
    created <- hm_created, running <- hm_running, cut <- hm_cut,
    undefined <- hm_undefined


-----------------------------------------------------------------------------
\* A program that is not explored starts with every colour and every socket
\* built and the wait adaptive, the builder as its first call, the heatmap
\* as the plain call; it never takes a step.
Init ==
    /\ prog \in Programs
    /\ Para!Init
    /\ (prog # "para" => /\ ep_mode = CHOOSE m \in Modes : TRUE
                         /\ ep_n_pair_init_done = 0)
    /\ Vcolor!Init /\ (prog # "vcolor" => vc_unbuilt = {})
    /\ Lcas!Init /\ (prog # "lcas" => lc_no_pairs = {} /\ ~lc_fix_wait)
    /\ Live!Init
    /\ (prog # "live" => /\ lv_unbuilt = {} /\ ~lv_fix_wait
                         /\ \A w \in BaseWaits : lv_wait_time_us <= w)
    /\ Multi!Init
    /\ (prog # "multi" => /\ sm_no_pairs = {} /\ ~sm_fix_wait
                          /\ \A w \in BaseWaits : sm_og_wait_time_us <= w
                          /\ \A n \in Iterations : sm_iterations <= n)
    /\ Heat!Init /\ (prog # "heatmap" => hm_caller = "plain")

\* The builder has returned, or it waits at the barrier for a worker whose
\* helper did not start (evset_para.c:760, 940): no thread can take a step.
para_rests ==
    /\ ep_opc \in {"done", "failed"} \/ ep_start_failed # {}
    /\ UNCHANGED ep_vars

\* A step of the builder.
ParaStep(A) ==
    /\ prog = "para" /\ A
    /\ UNCHANGED <<prog, vc_vars, lc_vars, lv_vars, sm_vars, hm_vars>>

Next ==
    \/ /\ prog = "vcolor" /\ Vcolor!Next
       /\ UNCHANGED <<prog, lc_vars, lv_vars, sm_vars, ep_vars,
                      hm_vars>>
    \/ /\ prog = "lcas" /\ Lcas!Next
       /\ UNCHANGED <<prog, vc_vars, lv_vars, sm_vars, ep_vars,
                      hm_vars>>
    \/ /\ prog = "live" /\ Live!Next
       /\ UNCHANGED <<prog, vc_vars, lc_vars, sm_vars, ep_vars,
                      hm_vars>>
    \/ /\ prog = "multi" /\ Multi!Next
       /\ UNCHANGED <<prog, vc_vars, lc_vars, lv_vars, ep_vars,
                      hm_vars>>
    \/ /\ prog = "heatmap" /\ Heat!Next
       /\ UNCHANGED <<prog, vc_vars, lc_vars, lv_vars, sm_vars, ep_vars>>
    \/ ParaStep(Para!Next \/ para_rests)

\* The threads of the builder are kernel threads of their own (see
\* EvsetPara): as long as one of them can take a step, one does.  This asks
\* less than the fairness of each thread that EvsetPara assumes.  Nothing
\* is assumed of the loops and of the heatmap, of which nothing is claimed
\* to happen in the end.
Fairness == WF_vars(ParaStep(Para!Next))

Spec == Init /\ [][Next]_vars /\ Fairness

-----------------------------------------------------------------------------
\* The type of every variable of the builder, of the four loops and of the
\* heatmap.
TypeOK ==
    /\ prog \in Programs
    /\ Vcolor!TypeOK /\ Lcas!TypeOK /\ Live!TypeOK /\ Multi!TypeOK
    /\ Para!TypeOK /\ Heat!TypeOK

\* No two pairs of the parallel builder write the same cell of the result
\* table (evset_para.c:239-262, 778); see EvsetPara.
OneWriterPerCell == Para!OneWriterPerCell

\* When the builder returns the table and no worker ran into its run time
\* limit, no cell is empty (evset_para.c:778, 1050); see EvsetPara.
CompleteWhenDone == Para!CompleteWhenDone

\* The pairs array is freed only when every worker created has ended, also
\* on the path of a failed pthread_create (evset_para.c:930-957); see
\* EvsetPara.
WorkersGoneBeforeFree == Para!WorkersGoneBeforeFree

\* If every helper thread starts, the parallel builder returns
\* (evset_para.c:940, 1167); see EvsetPara.
Completes == prog = "para" => Para!Completes

\* vcolor replaces the hottest colour only by the colour that was the top
\* of the sorted order, a level or more above it, in each of the last three
\* scans (vcolor.c:747-767); see VcolorMonitor.
HottestNeedsThreeScans == Vcolor!HottestNeedsThreeScans

\* As long as no write to the module has failed, the allocator works with
\* the ranking of vcolor's last scan (vcolor.c:759-774, vcolor_km.c:86-129);
\* see VcolorMonitor.
KernelFollowsMonitor == Vcolor!KernelFollowsMonitor

\* The probes of vset --lcas wait 1000 us less only after two scans in a row
\* that found every socket saturated, and never zero (vset_ops.c:1842-1851);
\* see LcasMonitor.
ShrinksAfterTwoSaturatedScans == Lcas!ShrinksAfterTwoSaturatedScans

\* The loop's own coldest socket changes only after three scans in a row
\* that ranked another socket a level below it (vset_ops.c:1895-1906); see
\* LcasMonitor.
ColdestNeedsThreeScans == Lcas!ColdestNeedsThreeScans

\* As long as no update has failed, the BPF map holds "no preference" when
\* all sockets are at one level and the sockets by rising hotness otherwise
\* (vset_ops.c:77-92, 1875-1922); see LcasMonitor.
MapRanksSockets == Lcas!MapRanksSockets

\* The probes of vset --live wait 1000 us less only after two rounds in a row
\* that found two colours or more saturated, and never zero
\* (vset.c:542-557); see VsetLive.
LiveShrinksAfterTwoHotScans == Live!LiveShrinksAfterTwoHotScans

\* The wait of the eviction-rate monitor gets shorter only in the second of
\* two saturated rounds with nothing but idle rounds between them, never
\* reaches zero, and goes back up only to the value of -w in an idle round
\* (vset_ops.c:2609-2620); see SocketMonitor.
WaitFollowsRounds == Multi!WaitFollowsRounds

\* While a worker of the heatmap primes and probes, every set of its share
\* names the helper of that worker and of no other pair
\* (vset_ops.c:273-281, 1186-1196); see Heatmap.
WorkersPrimeThroughOwnHelper == Heat!WorkersPrimeThroughOwnHelper

\* A worker of the heatmap waits for ever for its helper only when that
\* helper did not start, never for the helper of another pair or for one
\* that has stopped (vset_ops.c:271, cache_ops.c:22-37); see Heatmap.
WorkersHangOnlyWithoutHelper == Heat!WorkersHangOnlyWithoutHelper

\* The arguments of a heatmap worker, the array of sets and the sets are
\* freed only when the worker was joined, except in the slot that is left
\* when the counts of a later pair cannot be allocated
\* (vset_ops.c:1216-1240, 1302-1324); see Heatmap.
ArgumentsOutliveWorkers == Heat!ArgumentsOutliveWorkers
=============================================================================
