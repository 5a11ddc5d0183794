---------------------------- MODULE MCBuilders ------------------------------
(***************************************************************************)
(* What an L3 build rests on, each part checked from its own start: the    *)
(* latency calibration (LatCalib), the helper-thread engine                *)
(* (HelperThread), build_l2_evset (L2Builder), the candidate arena with    *)
(* its users (CandArena), and the build of one set with the monitor that   *)
(* uses it (ActivityFreq); and two programs that share out the table of a  *)
(* finished build among threads of their own, the occupancy by colour of   *)
(* vset (L2ColorOcc) and vpoisoner (Poisoner).  Each takes from the one    *)
(* before only that its result exists, so a behaviour of this module is a  *)
(* behaviour of the one part that prog names, and the variables of the     *)
(* others keep the values of their start.                                  *)
(***************************************************************************)

EXTENDS Integers, FiniteSets

CONSTANTS W, UnknownSib, NumSets, CandScale, NRetries, MaxWholeRet,
          MaxMiss,                                   \* the L2 builder
          NSets, Threads, Callers, SleepTimes, MayFail,  \* the arena
          NOffsets,
          NWays, NCands, Sizes, Retry, MaxNumRecs, MaxSockets, Modes,
          FreqMayFail,                               \* the single set
          Targets, Blocks,                           \* the helper engine
          reps, Outlier, U32, U64, AllocMayFail,     \* the calibration
          TableRows, TableColumns,                   \* the table by colour
          AskedL2Sets, AskedOffsets, AskedThreads,
          PairCores, ScanRounds, ScanPeriod,
          OccMayFail,                                \* the occupancy by colour
          PoisonL2Sets, PoisonCores, Filtered,
          PoisonMayFail,                             \* vpoisoner
          Programs                                   \* the parts explored

ASSUME /\ Programs \subseteq {"l2", "arena", "freq", "helper", "lats",
                               "l2color", "vpoisoner"}
       /\ "evset" \in Callers /\ FALSE \in Modes

VARIABLES
    prog,
    l2_pc, l2_num_sets, l2_whole_ret, l2_i, l2_pool, l2_target,
    l2_curr_target, l2_n_ret, l2_evset, l2_sets, l2_result, l2_misses,
    l2_screen_missed,
    l2_built,
    ca_caller, ca_pc, ca_evb, ca_n_threads, ca_t, ca_w, ca_cands, ca_result,
    ca_first, ca_sleep_time, ca_vcolor_enabled, ca_tagged, ca_views,
    ca_overlapped, ca_faults,
    af_pc, af_vset, af_vtop, af_n_sockets, af_paired, af_max_num_recs,
    af_hctrl, af_lhctrl, af_main_cpu, af_live, af_count, af_size, af_i,
    af_threshold, af_s, af_sz, af_rate_cycles, af_result, af_faults,
    af_undefined_at,
    ht_running, ht_waiting, ht_action, ht_payload, ht_lat, ht_heap, ht_mpc,
    ht_call, ht_ret, ht_hpc, ht_hact, ht_cur, ht_curDone, ht_lastExec,
    ht_nexec,
    cal_g_lats, cal_pc, cal_attempt, cal_disturbed,
    oc_pc, oc_ret, oc_live, oc_num_l2_sets, oc_num_offsets,
    oc_scan_period_ms, oc_l3_complex, oc_color_counts, oc_n_pairs, oc_i,
    oc_next_start, oc_wargs, oc_hctrl, oc_tot_avg, oc_wpc, oc_it,
    oc_running, oc_cancel,
    po_pc, po_opt, po_num_l2_sets, po_num_offsets, po_num_threads, po_live,
    po_filtered_cnt, po_complex, po_emptied, po_color_sets, po_n_pairs,
    po_i, po_next_start, po_wargs, po_hctrl, po_wpc, po_running

l2_vars ==
    <<l2_pc, l2_num_sets, l2_whole_ret, l2_i, l2_pool, l2_target,
      l2_curr_target, l2_n_ret, l2_evset, l2_sets, l2_result, l2_misses,
      l2_screen_missed, l2_built>>
ca_vars ==
    <<ca_caller, ca_pc, ca_evb, ca_n_threads, ca_t, ca_w, ca_cands,
      ca_result, ca_first, ca_sleep_time, ca_vcolor_enabled, ca_tagged,
      ca_views, ca_overlapped, ca_faults>>
af_vars ==
    <<af_pc, af_vset, af_vtop, af_n_sockets, af_paired, af_max_num_recs,
      af_hctrl, af_lhctrl, af_main_cpu, af_live, af_count, af_size, af_i,
      af_threshold, af_s, af_sz, af_rate_cycles, af_result, af_faults,
      af_undefined_at>>
ht_vars ==
    <<ht_running, ht_waiting, ht_action, ht_payload, ht_lat, ht_heap, ht_mpc,
      ht_call, ht_ret, ht_hpc, ht_hact, ht_cur, ht_curDone, ht_lastExec,
      ht_nexec>>
cal_vars == <<cal_g_lats, cal_pc, cal_attempt, cal_disturbed>>
oc_vars ==
    <<oc_pc, oc_ret, oc_live, oc_num_l2_sets, oc_num_offsets,
      oc_scan_period_ms, oc_l3_complex, oc_color_counts, oc_n_pairs, oc_i,
      oc_next_start, oc_wargs, oc_hctrl, oc_tot_avg, oc_wpc, oc_it,
      oc_running, oc_cancel>>
po_vars ==
    <<po_pc, po_opt, po_num_l2_sets, po_num_offsets, po_num_threads, po_live,
      po_filtered_cnt, po_complex, po_emptied, po_color_sets, po_n_pairs,
      po_i, po_next_start, po_wargs, po_hctrl, po_wpc, po_running>>
vars == <<prog, l2_vars, ca_vars, af_vars, ht_vars, cal_vars, oc_vars,
          po_vars>>

L2 == INSTANCE L2Builder WITH
    pc <- l2_pc, num_sets <- l2_num_sets, whole_ret <- l2_whole_ret,
    i <- l2_i, pool <- l2_pool, target <- l2_target,
    curr_target <- l2_curr_target, n_ret <- l2_n_ret, evset <- l2_evset,
    sets <- l2_sets, result <- l2_result, misses <- l2_misses,
    screen_missed <- l2_screen_missed, built <- l2_built

Arena == INSTANCE CandArena WITH
    caller <- ca_caller, pc <- ca_pc, evb <- ca_evb,
    n_threads <- ca_n_threads, t <- ca_t, w <- ca_w, cands <- ca_cands,
    result <- ca_result, first <- ca_first, sleep_time <- ca_sleep_time,
    vcolor_enabled <- ca_vcolor_enabled, tagged <- ca_tagged,
    views <- ca_views, overlapped <- ca_overlapped, faults <- ca_faults

Freq == INSTANCE ActivityFreq WITH
    MayFail <- FreqMayFail,
    pc <- af_pc, vset <- af_vset, vtop <- af_vtop,
    n_sockets <- af_n_sockets, paired <- af_paired,
    max_num_recs <- af_max_num_recs, hctrl <- af_hctrl,
    lhctrl <- af_lhctrl, main_cpu <- af_main_cpu, live <- af_live,
    count <- af_count, size <- af_size, i <- af_i,
    threshold <- af_threshold, s <- af_s, sz <- af_sz,
    rate_cycles <- af_rate_cycles, result <- af_result,
    faults <- af_faults, undefined_at <- af_undefined_at

Helper == INSTANCE HelperThread WITH
    running <- ht_running, waiting <- ht_waiting, action <- ht_action,
    payload <- ht_payload, lat <- ht_lat, heap <- ht_heap, mpc <- ht_mpc,
    call <- ht_call, ret <- ht_ret, hpc <- ht_hpc, hact <- ht_hact,
    cur <- ht_cur, curDone <- ht_curDone, lastExec <- ht_lastExec,
    nexec <- ht_nexec

\* A machine with its levels well apart: each latency at least 1.2 times
\* the one below, the L3 below 0.8 times the DRAM.
MCLat == [l1d |-> {40, 44}, l2 |-> {53, 60}, l3 |-> {72, 110},
          dram |-> {300, 320}]

Calib == INSTANCE LatCalib WITH
    Lat <- MCLat,
    g_lats <- cal_g_lats, pc <- cal_pc, attempt <- cal_attempt,
    disturbed <- cal_disturbed

\* The units of the table by colour that may come without a set with lines:
\* colour 1 at both offsets, so that a colour may be left with no set.
MCUnbuilt == {<<0, 1>>, <<1, 1>>}

\* The unit for which build_evsets_at may return NULL.
MCAbsent == {<<1, 0>>}

\* For vpoisoner the first unit may be the one without a set, so that the
\* search by host colour may find none.
PoisonUnbuilt == {<<0, 0>>, <<1, 1>>}

Occ == INSTANCE L2ColorOcc WITH
    max_unc_sets <- TableColumns, NUM_OFFSETS <- TableRows,
    NumL2Sets <- AskedL2Sets, NumOffsets <- AskedOffsets,
    Cores <- PairCores, NumThreads <- AskedThreads,
    iterations <- ScanRounds, Unbuilt <- MCUnbuilt, Absent <- MCAbsent,
    MayFail <- OccMayFail,
    pc <- oc_pc, ret <- oc_ret, live <- oc_live,
    num_l2_sets <- oc_num_l2_sets, num_offsets <- oc_num_offsets,
    scan_period_ms <- oc_scan_period_ms, l3_complex <- oc_l3_complex,
    color_counts <- oc_color_counts, n_pairs <- oc_n_pairs, i <- oc_i,
    next_start <- oc_next_start, wargs <- oc_wargs, hctrl <- oc_hctrl,
    tot_avg <- oc_tot_avg, wpc <- oc_wpc, it <- oc_it,
    running <- oc_running, cancel <- oc_cancel

Poison == INSTANCE Poisoner WITH
    n_unc_l2_sets <- TableColumns, NUM_OFFSETS <- TableRows,
    NumL2Sets <- PoisonL2Sets, NumOffsets <- AskedOffsets,
    Cores <- PoisonCores, NumThreads <- AskedThreads,
    Unbuilt <- PoisonUnbuilt, Absent <- MCAbsent, MayFail <- PoisonMayFail,
    pc <- po_pc, opt <- po_opt, num_l2_sets <- po_num_l2_sets,
    num_offsets <- po_num_offsets, num_threads <- po_num_threads,
    live <- po_live, filtered_cnt <- po_filtered_cnt,
    complex <- po_complex, emptied <- po_emptied,
    color_sets <- po_color_sets, n_pairs <- po_n_pairs, i <- po_i,
    next_start <- po_next_start, wargs <- po_wargs, hctrl <- po_hctrl,
    wpc <- po_wpc, running <- po_running

-----------------------------------------------------------------------------
\* A part that is not explored starts as the smallest call of
\* build_l2_evset, as build_evcands_all_para, as vevict on one socket,
\* with a zeroed control block, or with the least of every option; it never
\* takes a step.
Init ==
    /\ prog \in Programs
    /\ Helper!Init
    /\ prog # "helper" =>
          /\ ~ht_waiting /\ ht_action = "HELPER_STOP"
          /\ ht_payload = (CHOOSE t \in Targets : TRUE) /\ ht_lat = ht_payload
    /\ Calib!Init
    /\ L2!Init /\ (prog # "l2" => \A n \in NumSets : l2_num_sets <= n)
    /\ Arena!Init /\ (prog # "arena" => ca_caller = "evset")
    /\ Freq!Init
    /\ prog # "freq" =>
          /\ ~af_vset /\ ~af_vtop /\ af_n_sockets = 1 /\ af_paired = {}
          /\ \A n \in MaxNumRecs : af_max_num_recs <= n
    /\ Occ!Init
    /\ prog # "l2color" =>
          /\ \A n \in AskedL2Sets : oc_num_l2_sets <= n
          /\ \A n \in AskedOffsets : oc_num_offsets <= n
          /\ \A n \in ScanPeriod : oc_scan_period_ms <= n
    /\ Poison!Init
    /\ prog # "vpoisoner" =>
          /\ \A o \in DOMAIN po_opt : ~po_opt[o]
          /\ \A n \in PoisonL2Sets : po_num_l2_sets <= n
          /\ \A n \in AskedOffsets : po_num_offsets <= n
          /\ \A n \in AskedThreads : po_num_threads <= n

\* A step of one part.
L2Step(A) ==
    /\ prog = "l2" /\ A
    /\ UNCHANGED <<prog, ca_vars, af_vars, ht_vars, cal_vars,
                   oc_vars, po_vars>>
ArenaStep(A) ==
    /\ prog = "arena" /\ A
    /\ UNCHANGED <<prog, l2_vars, af_vars, ht_vars, cal_vars,
                   oc_vars, po_vars>>
FreqStep(A) ==
    /\ prog = "freq" /\ A
    /\ UNCHANGED <<prog, l2_vars, ca_vars, ht_vars, cal_vars,
                   oc_vars, po_vars>>
HelperStep(A) ==
    /\ prog = "helper" /\ A
    /\ UNCHANGED <<prog, l2_vars, ca_vars, af_vars, cal_vars,
                   oc_vars, po_vars>>
CalibStep(A) ==
    /\ prog = "lats" /\ A
    /\ UNCHANGED <<prog, l2_vars, ca_vars, af_vars, ht_vars,
                   oc_vars, po_vars>>
OccStep(A) ==
    /\ prog = "l2color" /\ A
    /\ UNCHANGED <<prog, l2_vars, ca_vars, af_vars, ht_vars, cal_vars,
                   po_vars>>
PoisonStep(A) ==
    /\ prog = "vpoisoner" /\ A
    /\ UNCHANGED <<prog, l2_vars, ca_vars, af_vars, ht_vars, cal_vars,
                   oc_vars>>

\* The parts that are sequential programs, or of whose threads nothing is
\* assumed.
Sequential ==
    \/ L2Step(L2!Next) \/ ArenaStep(Arena!Next) \/ FreqStep(Freq!Next)
    \/ CalibStep(Calib!Next)

Next ==
    \/ Sequential \/ HelperStep(Helper!Next)
    \/ OccStep(Occ!Next) \/ PoisonStep(Poison!Next)

\* The sequential programs run as long as they can take a step; nothing is
\* assumed of the threads of the arena, and nothing is claimed to happen
\* in the end of the monitor, whose loop waits for evictions.  The two
\* threads of the helper engine are runnable kernel threads (see
\* HelperThread); whether the controller calls the helper again is up to
\* the program around it.  Nothing is assumed of the occupancy by
\* colour and of vpoisoner, of which nothing is claimed to happen in the
\* end.
Fairness ==
    /\ WF_vars(Sequential)
    /\ WF_vars(HelperStep(Helper!MainStep))
    /\ WF_vars(HelperStep(Helper!helper_thread_worker))

Spec == Init /\ [][Next]_vars /\ Fairness

-----------------------------------------------------------------------------
\* The type of every variable of the seven parts.
TypeOK ==
    /\ prog \in Programs
    /\ L2!TypeOK /\ Arena!TypeOK /\ Freq!TypeOK
    /\ Helper!TypeOK /\ Calib!TypeOK
    /\ Occ!TypeOK /\ Poison!TypeOK

\* The table build_l2_evset returns holds one set for every colour asked
\* for, each evicts its recorded target, and two are of one colour only
\* when a target passed the screening of evset.c:1204 by a false FAIL or
\* the earlier set is missing from built_evset_addrs after a failed _calloc
\* (evset.c:1287, 1312); see L2Builder.
L2ColoursDistinct == L2!L2ColoursDistinct

\* build_l2_evset returns, whatever the measurements answer
\* (evset.c:1377-1394); see L2Builder.
L2BuildReturns == prog = "l2" => L2!L2BuildReturns

\* ref_cnt falls below the number of views of the buffer only when two
\* increments of evset.c:138 overlapped; see CandArena.
CountCoversViews == Arena!CountCoversViews

\* The ranges of the threads cover every colour: a colour loses its view or
\* its frames only when a call failed (evset.c:388-425, vcolor.c:104-117);
\* see CandArena.
OnlyFaultsLoseColours == Arena!OnlyFaultsLoseColours

\* The helper that build_single_l3_evset starts is running whenever the
\* build or monitor_l3_activity_freq commands it, unless pthread_create
\* failed (evset.c:1625-1628, 1897; helper_thread.h:77); see ActivityFreq.
HelperRunsWhenCommanded == Freq!HelperRunsWhenCommanded

\* No step of build_single_l3_evset or of the monitor reads an object that
\* is not alive, unless an allocation failed or the calibration came round
\* again after freeing its set (evset.c:1709-1756, vset_ops.c:735-755);
\* see ActivityFreq.
ReadsFindObjects == Freq!ReadsFindObjects

\* While the helper is about to use the payload of READ_ARRAY or
\* TRAVERSE_CANDS, the structure it points to is still allocated
\* (cache_ops.c:38-52); see HelperThread.
PayloadAliveWhileUsed == Helper!PayloadAliveWhileUsed

\* When a command function has returned, the helper has carried its command
\* out (helper_thread.h:92-103); see HelperThread.
DoneBeforeReturn == Helper!DoneBeforeReturn

\* The words of the control block implement the one-place command channel
\* of HelperService (helper_thread.c:12-60, cache_ops.c:25); see
\* HelperThread.
ImplementsService == Helper!ImplementsService

\* Every call of the helper engine returns (helper_thread.h:33-103); see
\* HelperThread.
EveryCallReturns == Helper!EveryCallReturns

\* On a quiet machine init_cache_lats_thresh returns thresholds that
\* separate the levels, whatever order the comparator of calc_median leaves
\* the samples in (lats.c:12-31, 313-332); see LatCalib.
QuietCalibrationSeparates == Calib!QuietCalibrationSeparates

\* What a front-end relies on when init_cache_lats_thresh has returned
\* (lats.c:313-332): the latencies are ordered and the thresholds lie
\* between them; see LatCalib.
CalibrationSeparates == Calib!CalibrationSeparates

\* When the occupancy by colour computes its percentages, every cell of
\* tot_line_ev_avg of a colour asked for was stored to by exactly one
\* worker, and the join loop has waited for that store
\* (vset_ops.c:238, 1519-1558); see L2ColorOcc.
RowsMeasuredOnce == Occ!RowsMeasuredOnce

\* Once vpoisoner waits for its threads, every page of colour 0 and every
\* set with lines that the filter by host colour has left belongs to
\* exactly one of them (vpoisoner.c:190-207, 380-394); see Poisoner.
EverythingThrashedOnce == Poison!EverythingThrashedOnce
=============================================================================
