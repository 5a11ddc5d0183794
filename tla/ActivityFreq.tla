---------------------------- MODULE ActivityFreq -----------------------------
(***************************************************************************)
(* One L3 eviction set and the monitor that lives on it:                   *)
(* build_single_l3_evset (src/src/evset.c), called by vevict and, with the *)
(* flag vset, by monitor_l3_activity_freq (src/src/vset_ops.c), which      *)
(* calibrates a threshold on the set and then counts, socket by socket,    *)
(* how often the set is evicted (monitor_socket_activity_freq).            *)
(*                                                                         *)
(* What is kept of the heap is which objects are alive; what is kept of a  *)
(* helper thread is whether it runs and where it is pinned (module         *)
(* HelperThread has the handshake of one command).  Every step reads some  *)
(* objects and may command the helper of the build, the one                *)
(* def_l3_build_conf.hctrl names: a step that reads an object that was     *)
(* freed, or never allocated, has no defined outcome and is not followed;  *)
(* a command to a helper that does not run fails the assertion of          *)
(* helper_thread.h:77 or waits for ever in wait_helper_thread.  The        *)
(* measurements answer what they may answer.  vCPUs 2p and 2p+1 stand for  *)
(* the pair of socket p that is not an SMT pair, where p has one.          *)
(***************************************************************************)

EXTENDS Integers, FiniteSets, FiniteSetsExt

CONSTANTS NWays,       \* l3_info.n_ways
          NCands,      \* n_cands of evset.c:1634
          Sizes,       \* what final_l3_evset may leave in l3ev->size
          Retry,       \* retry of vset_ops.c:36
          MaxNumRecs,  \* the values of max_num_recs explored
          MaxSockets,  \* the most sockets a topology shows
          Modes,       \* the values of the flag vset explored
          MayFail      \* the calls that may fail

ASSUME /\ NWays \in Nat \ {0} /\ NCands \in Nat /\ Sizes \subseteq Nat \ {0}
       /\ Retry \in Nat /\ MaxNumRecs \subseteq Nat
       /\ MaxSockets \in Nat \ {0} /\ Modes \subseteq BOOLEAN
       /\ MayFail \subseteq {"calloc", "create", "topo", "affinity", "cgroup"}

VARIABLES
    pc,
    vset, vtop,       \* the flags of config.c
    n_sockets,        \* the sockets of the machine
    paired,           \* the sockets with two vCPUs that are no SMT pair
    max_num_recs,
    hctrl,            \* the helper of the build (evset.c, global)
    lhctrl,           \* the helper monitor_l3_activity_freq starts
    main_cpu,         \* where the main thread is pinned, -1: nowhere
    live,             \* the heap objects allocated and not freed
    count,            \* n_filtered, then l3_cands->count
    size,             \* l3ev->size
    i,                \* the round of the calibration
    threshold,        \* 0, 1: below g_lats.l3, 2: at least g_lats.l3
    s,                \* the socket measured, -1 without vtop
    sz,               \* the records taken
    rate_cycles,      \* 0, or 1 for any positive rate
    result,           \* what build_single_l3_evset returned
    faults,           \* history: the calls that failed
    undefined_at      \* history: where a dead object was read

machine == <<vset, n_sockets, paired, max_num_recs>>
threads == <<hctrl, lhctrl, main_cpu>>
buildv  == <<count, size, result>>
freqv   == <<i, threshold, s, sz, rate_cycles>>
vars    == <<pc, vtop, machine, threads, live, buildv, freqv, faults,
             undefined_at>>

Objects ==
    {"l3_evsets", "l2_evset", "l3_cands", "region", "l3_evset", "all_addrs",
     "topo", "ctx", "socket_rates", "recs"}
CPUs    == -1..(2 * MaxSockets - 1)
Stopped == [running |-> FALSE, core_id |-> -1]
Halts   == {"done", "undefined", "aborted", "hung"}

\* What a call may answer: it fails only where MayFail lets it.
Outcomes(call) == {TRUE} \cup {FALSE : c \in {call} \cap MayFail}
Failed(call, ok) == IF ok THEN faults ELSE faults \cup {call}

-----------------------------------------------------------------------------
(* The steps below with a plausible slip in each *)

\* The helper is stopped whoever called.
build_stops_helper_always == TRUE
\* The L2 set is freed whoever called.
build_releases_always == {"l2_evset", "all_addrs"}

-----------------------------------------------------------------------------

\* utils.c:437-445, with evcands_free of a view that has no EvBuffer.
cleanup_mem(l) == l \ {"region", "l3_cands"}

\* helper_thread.h:49-58.
stop_helper_thread(h) == [h EXCEPT !.running = FALSE]

\* helper_thread.h:36-47, 60-73, helper_thread.c:10-17: the thread pins
\* itself to core_id when that is not negative.
start_helper_thread(made, core_id) ==
    [running |-> made, core_id |-> IF made THEN core_id ELSE -1]

\* utils.c:338-370: the first vCPU with a partner on its socket.
find_same_socket_nonSMT_vcpu_pair(found) ==
    IF found /\ paired # {} THEN Min(paired) ELSE -1

\* evset.c:1897-1905: what the build gives up when it returns its set.
build_stops_helper == ~vset
build_releases == IF vset THEN {} ELSE {"l2_evset", "all_addrs"}

\* vset_ops.c:751-754: a set that is too large is freed and forgotten.
discarded(l) == l \ {"l3_evset"}

\* vset_ops.c:785: one measurement per socket.
multi == vtop /\ n_sockets > 1

\* evset.c:455-518 as l3 conf runs it and vset_ops.c:532-547: the lower
\* eviction set is walked and the helper is commanded.
Measured == {"l3_evset", "l3_cands", "region", "l2_evset"}
Primed   == {"l3_evset", "region", "l2_evset"}

\* What the step at pc reads, and how it commands the helper of the build:
\* helper_thread_read_single asserts running, traverse_cands_mt waits.
Reads ==
    CASE pc \in {"b_filter"} -> {"l2_evset", "l3_cands", "region"}
      [] pc \in {"b_realloc", "b_target"} -> {"l3_cands"}
      [] pc = "b_test" -> Measured \ {"l3_evset"}
      [] pc = "b_init_set" -> {"l3_evset"}
      [] pc \in {"b_final", "b_verify"} -> Measured
      [] pc = "b_finish" ->
            {"l3_evset", "l3_evsets"} \cup (build_releases \ {"all_addrs"})
      [] pc = "m_round" /\ i <= Retry ->
            IF "l3_evset" \in live /\ size <= NWays THEN Primed
            ELSE {"l3_evset"}
      [] pc = "f_pin" -> Primed
      [] pc = "f_loop" /\ sz < max_num_recs -> Primed \cup {"recs"}
      [] OTHER -> {}
Command ==
    CASE pc \in {"b_test", "b_final", "b_verify"} -> "assert"
      [] pc = "m_round" /\ i <= Retry /\ size <= NWays -> "wait"
      [] pc = "f_pin" \/ (pc = "f_loop" /\ sz < max_num_recs) -> "wait"
      [] OTHER -> "none"
Works == Reads \subseteq live /\ (Command = "none" \/ hctrl.running)

\* build_single_l3_evset returns to vevict, or to the monitor.
Return(res) ==
    /\ result' = res
    /\ pc' = IF vset THEN "m_built" ELSE "done"

-----------------------------------------------------------------------------
Init ==
    /\ vset \in Modes /\ vtop \in BOOLEAN
    /\ n_sockets \in 1..MaxSockets
    /\ paired \in SUBSET (0..(n_sockets - 1))
    /\ max_num_recs \in MaxNumRecs
    /\ pc = IF vset THEN "m_topo" ELSE "b_begin"
    /\ hctrl = Stopped /\ lhctrl = Stopped /\ main_cpu = -1
    /\ live = {} /\ count = 0 /\ size = 0 /\ result = "none"
    /\ i = 0 /\ threshold = 0 /\ s = -1 /\ sz = 0 /\ rate_cycles = 0
    /\ faults = {} /\ undefined_at = "none"

\* evset.c:1546-1563: the table of one set.
begin ==
    /\ pc = "b_begin"
    /\ \E ok \in Outcomes("calloc") :
        /\ faults' = Failed("calloc", ok)
        /\ \/ ok /\ live' = live \cup {"l3_evsets"} /\ pc' = "b_l2"
                 /\ UNCHANGED result
           \/ ~ok /\ Return("NULL") /\ UNCHANGED live
    /\ UNCHANGED <<vtop, machine, threads, count, size, freqv, undefined_at>>

\* evset.c:1565-1598: the L2 set that filters (module L2Builder); without
\* it the table is left behind.
l2_built ==
    /\ pc = "b_l2"
    /\ \/ live' = live \cup {"l2_evset"} /\ pc' = "b_helper"
          /\ UNCHANGED result
       \/ Return("NULL") /\ UNCHANGED live
    /\ UNCHANGED <<vtop, machine, threads, count, size, freqv, faults,
                   undefined_at>>

\* evset.c:1599-1630: with vtop the two threads are pinned to a pair of one
\* socket; what start_helper_thread answers is not looked at.
helper_started ==
    /\ pc = "b_helper"
    /\ \E found \in Outcomes("topo"), pinned \in Outcomes("affinity"),
          made \in Outcomes("create") :
        LET p == IF vtop THEN find_same_socket_nonSMT_vcpu_pair(found)
                 ELSE -1
            failed == [topo |-> vtop /\ ~found, create |-> ~made,
                       affinity |-> p # -1 /\ ~pinned]
        IN  /\ main_cpu' = IF p # -1 /\ pinned THEN 2 * p ELSE main_cpu
            /\ hctrl' = start_helper_thread(
                            made, IF p # -1 THEN 2 * p + 1 ELSE -1)
            /\ faults' = faults \cup {c \in DOMAIN failed : failed[c]}
    /\ pc' = "b_cands"
    /\ UNCHANGED <<vtop, machine, lhctrl, live, buildv, freqv,
                   undefined_at>>

\* evset.c:1631-1650: no memory for the candidates; the one error path
\* that stops the helper and frees what was built.
cands_no_memory ==
    /\ pc = "b_cands" /\ "calloc" \in MayFail
    /\ hctrl' = stop_helper_thread(hctrl)
    /\ live' = live \ {"l2_evset", "l3_evsets"}
    /\ faults' = faults \cup {"calloc"}
    /\ Return("NULL")
    /\ UNCHANGED <<vtop, machine, lhctrl, main_cpu, count, size, freqv,
                   undefined_at>>

\* evset.c:1652-1660, mem.c:8-29: the candidate pages, or nothing.
base_cands ==
    /\ pc = "b_cands"
    /\ \E ok \in Outcomes("calloc") :
        /\ faults' = Failed("calloc", ok)
        /\ \/ ok /\ live' = live \cup {"l3_cands", "region"}
                 /\ pc' = "b_filter" /\ UNCHANGED result
           \/ ~ok /\ live' = live \cup {"l3_cands"} /\ Return("NULL")
    /\ UNCHANGED <<vtop, machine, threads, count, size, freqv, undefined_at>>

\* evset.c:1662-1706, 531-574: the candidates the L2 set evicts come
\* first; with none of them the candidates are given back.
filter ==
    /\ pc = "b_filter" /\ Works
    /\ \E n_filtered \in 0..NCands :
        /\ count' = n_filtered
        /\ \/ n_filtered > 0 /\ pc' = "b_realloc"
                 /\ UNCHANGED <<live, result>>
           \/ n_filtered = 0 /\ live' = cleanup_mem(live)
                 /\ Return("NULL")
    /\ UNCHANGED <<vtop, machine, threads, size, freqv, faults,
                   undefined_at>>

\* evset.c:1708-1712: the array is cut to the filtered part; when realloc
\* fails the candidates are freed and the function goes on.
shrink ==
    /\ pc = "b_realloc" /\ Works
    /\ \E ok \in Outcomes("calloc") :
        /\ faults' = Failed("calloc", ok)
        /\ live' = IF ok THEN live ELSE cleanup_mem(live)
    /\ pc' = "b_target"
    /\ UNCHANGED <<vtop, machine, threads, buildv, freqv, undefined_at>>

\* evset.c:1714-1729: the last candidate is the target.
take_target ==
    /\ pc = "b_target" /\ Works
    /\ count' = count - 1
    /\ pc' = "b_test"
    /\ UNCHANGED <<vtop, machine, threads, live, size, result, freqv,
                   faults, undefined_at>>

\* evset.c:1731-1736: the candidates must evict the target at all; they
\* cannot when fewer than n_ways are left.
test_candidates ==
    /\ pc = "b_test" /\ Works
    /\ \/ count >= NWays /\ pc' = "b_alloc" /\ UNCHANGED result
       \/ Return("NULL")
    /\ UNCHANGED <<vtop, machine, threads, live, count, size, freqv, faults,
                   undefined_at>>

\* evset.c:1738-1742: when there is no memory for the set the candidates
\* are freed and the function goes on.
alloc_set ==
    /\ pc = "b_alloc"
    /\ \E ok \in Outcomes("calloc") :
        /\ faults' = Failed("calloc", ok)
        /\ live' = IF ok THEN live \cup {"l3_evset"} ELSE cleanup_mem(live)
    /\ pc' = "b_init_set"
    /\ UNCHANGED <<vtop, machine, threads, buildv, freqv, undefined_at>>

\* evset.c:1744-1756: the fields of the set; without memory for its lines
\* the set and the candidates are freed and the function goes on.
init_set ==
    /\ pc = "b_init_set" /\ Works
    /\ \E ok \in Outcomes("calloc") :
        /\ faults' = Failed("calloc", ok)
        /\ live' = IF ok THEN live ELSE cleanup_mem(live) \ {"l3_evset"}
    /\ size' = 0
    /\ pc' = "b_final"
    /\ UNCHANGED <<vtop, machine, threads, count, result, freqv,
                   undefined_at>>

\* evset.c:1758-1773: final_l3_evset (module EvsetBuild) leaves a set of
\* one of the sizes it may, or gives up.
final ==
    /\ pc = "b_final" /\ Works
    /\ \/ \E n \in Sizes : size' = n /\ pc' = "b_verify"
                             /\ UNCHANGED <<live, result>>
       \/ live' = live \ {"l3_evset"} /\ Return("NULL") /\ UNCHANGED size
    /\ UNCHANGED <<vtop, machine, threads, count, freqv, faults,
                   undefined_at>>

\* evset.c:1778-1809: the set is verified against the target chosen at line
\* 1716; a set that fails is freed.
verify ==
    /\ pc = "b_verify" /\ Works
    /\ \/ pc' = "b_finish" /\ UNCHANGED <<live, result>>
       \/ live' = live \ {"l3_evset"} /\ Return("NULL")
    /\ UNCHANGED <<vtop, machine, threads, count, size, freqv, faults,
                   undefined_at>>

\* evset.c:1868-1915: the set is stored and its lines are listed; the
\* helper and the L2 set are given up unless vset needs them.
finish ==
    /\ pc = "b_finish" /\ Works
    /\ \E ok \in Outcomes("calloc") :
        /\ faults' = Failed("calloc", ok)
        /\ live' = (IF ok THEN live \cup {"all_addrs"} ELSE live)
                        \ build_releases
    /\ hctrl' = IF build_stops_helper THEN stop_helper_thread(hctrl)
                ELSE hctrl
    /\ Return("sets")
    /\ UNCHANGED <<vtop, machine, lhctrl, main_cpu, count, size, freqv,
                   undefined_at>>

-----------------------------------------------------------------------------
\* vset_ops.c:700-720, utils.c:325-336: without a topology the monitor
\* goes on as if vtop was not asked for.
topo ==
    /\ pc = "m_topo"
    /\ \E found \in Outcomes("topo") :
        /\ vtop' = (vtop /\ found)
        /\ live' = IF vtop /\ found THEN live \cup {"topo"} ELSE live
        /\ faults' = IF vtop THEN Failed("topo", found) ELSE faults
    /\ pc' = "b_begin"
    /\ UNCHANGED <<machine, threads, buildv, freqv, undefined_at>>

\* vset_ops.c:722-733: no set, no measurement.
built ==
    /\ pc = "m_built"
    /\ \/ result = "NULL" /\ live' = live \ {"topo"} /\ pc' = "done"
       \/ result = "sets" /\ pc' = "m_round" /\ UNCHANGED live
    /\ UNCHANGED <<vtop, machine, threads, buildv, freqv, faults,
                   undefined_at>>

\* vset_ops.c:735-745, 549-621: a set of at most n_ways lines is
\* calibrated; a threshold below g_lats.l3, or none, asks for one more
\* round.
round_calibrates ==
    /\ pc = "m_round" /\ i <= Retry /\ Works
    /\ size <= NWays
    /\ \E t \in 0..2 :
        /\ threshold' = t
        /\ \/ t < 2 /\ i' = i + 1 /\ UNCHANGED pc
           \/ t = 2 /\ pc' = "m_check" /\ UNCHANGED i
    /\ UNCHANGED <<vtop, machine, threads, live, buildv, s, sz,
                   rate_cycles, faults, undefined_at>>

\* vset_ops.c:747-755: a larger set is freed, and the loop goes on.
round_discards ==
    /\ pc = "m_round" /\ i <= Retry /\ Works
    /\ size > NWays
    /\ live' = discarded(live)
    /\ threshold' = 0
    /\ i' = i + 1
    /\ UNCHANGED <<pc, vtop, machine, threads, buildv, s, sz, rate_cycles,
                   faults, undefined_at>>

\* vset_ops.c:735: the rounds are used up; the threshold is the last one.
rounds_over ==
    /\ pc = "m_round" /\ i > Retry
    /\ pc' = "m_check"
    /\ UNCHANGED <<vtop, machine, threads, live, buildv, freqv, faults,
                   undefined_at>>

\* vset_ops.c:757-780, 129-154: without a set or with threshold 0 nothing
\* is measured, nor when the process cannot join its cgroup.
check ==
    /\ pc = "m_check"
    /\ \/ /\ "l3_evset" \notin live \/ threshold = 0
          /\ pc' = "m_exit" /\ UNCHANGED faults
       \/ /\ "l3_evset" \in live /\ threshold # 0
          /\ \E ok \in Outcomes("cgroup") :
                /\ faults' = Failed("cgroup", ok)
                /\ pc' = IF ok THEN "m_helper" ELSE "m_exit"
    /\ UNCHANGED <<vtop, machine, threads, live, buildv, freqv,
                   undefined_at>>

\* vset_ops.c:782-805: a helper of the monitor's own, zero-initialised and
\* so pinned to vCPU 0, and the tables of the sockets.  When the second
\* table cannot be had the helper is left running.
helper_multi ==
    /\ pc = "m_helper" /\ multi
    /\ \E ok_ctx \in Outcomes("calloc"), made \in Outcomes("create"),
          ok_rates \in Outcomes("calloc") :
        LET failed == [calloc |-> ~ok_ctx \/ (made /\ ~ok_rates),
                       create |-> ok_ctx /\ ~made]
        IN  /\ lhctrl' = start_helper_thread(ok_ctx /\ made, 0)
            /\ faults' = faults \cup {c \in DOMAIN failed : failed[c]}
            /\ \/ /\ ok_ctx /\ made /\ ok_rates
                  /\ live' = live \cup {"ctx", "socket_rates"}
                  /\ s' = 0 /\ pc' = "m_socket"
               \/ /\ ~(ok_ctx /\ made /\ ok_rates)
                  /\ pc' = "m_exit" /\ UNCHANGED <<live, s>>
    /\ UNCHANGED <<vtop, machine, hctrl, main_cpu, buildv, i, threshold, sz,
                   rate_cycles, undefined_at>>

\* vset_ops.c:859-872: the same helper for one measurement where the
\* threads happen to run.
helper_single ==
    /\ pc = "m_helper" /\ ~multi
    /\ \E made \in Outcomes("create") :
        /\ lhctrl' = start_helper_thread(made, 0)
        /\ faults' = Failed("create", made)
        /\ pc' = IF made THEN "f_pin" ELSE "m_exit"
    /\ s' = -1
    /\ UNCHANGED <<vtop, machine, hctrl, main_cpu, live, buildv, i,
                   threshold, sz, rate_cycles, undefined_at>>

\* vset_ops.c:808-822, 43-59: a socket without a pair is passed over.
socket_skipped ==
    /\ pc = "m_socket" /\ s < n_sockets /\ s \notin paired
    /\ s' = s + 1
    /\ UNCHANGED <<pc, vtop, machine, threads, live, buildv, i, threshold,
                   sz, rate_cycles, faults, undefined_at>>

\* vset_ops.c:824-833: the pair of the socket and a copy of the monitor's
\* helper_thread_ctrl go into ctx[s].
socket_measured ==
    /\ pc = "m_socket" /\ s < n_sockets /\ s \in paired
    /\ pc' = "f_pin"
    /\ UNCHANGED <<vtop, machine, threads, live, buildv, freqv, faults,
                   undefined_at>>

\* vset_ops.c:848-858: the rates are averaged and the monitor's helper is
\* stopped.
sockets_done ==
    /\ pc = "m_socket" /\ s = n_sockets
    /\ live' = live \ {"ctx", "socket_rates"}
    /\ lhctrl' = stop_helper_thread(lhctrl)
    /\ pc' = "m_exit"
    /\ UNCHANGED <<vtop, machine, hctrl, main_cpu, buildv, freqv, faults,
                   undefined_at>>

\* vset_ops.c:623-651, utils.c:306-323: the main thread and the monitor's
\* helper move to the pair; the two arrays of records are not tested; the
\* set is primed with the helper of the build.
pin_and_prime ==
    /\ pc = "f_pin" /\ Works
    /\ \E pinned \in Outcomes("affinity"), ok \in Outcomes("calloc") :
        /\ main_cpu' = IF s >= 0 /\ pinned THEN 2 * s ELSE main_cpu
        /\ live' = IF ok THEN live \cup {"recs"} ELSE live
        /\ LET failed == [affinity |-> s >= 0 /\ ~pinned, calloc |-> ~ok]
           IN  faults' = faults \cup {c \in DOMAIN failed : failed[c]}
    /\ lhctrl' = IF s >= 0 /\ lhctrl.running
                 THEN [lhctrl EXCEPT !.core_id = 2 * s + 1] ELSE lhctrl
    /\ sz' = 0
    /\ pc' = "f_loop"
    /\ UNCHANGED <<vtop, machine, hctrl, buildv, i, threshold, s,
                   rate_cycles, undefined_at>>

\* vset_ops.c:653-667: a probe above the threshold is recorded and the set
\* is primed again.  A probe that shows nothing, and one cut by a context
\* switch, change nothing that is kept here.
probe_records ==
    /\ pc = "f_loop" /\ sz < max_num_recs /\ Works
    /\ sz' = sz + 1
    /\ UNCHANGED <<pc, vtop, machine, threads, live, buildv, i, threshold,
                   s, rate_cycles, faults, undefined_at>>

\* What monitor_socket_activity_freq returns to: the next socket, or the
\* end of the monitor with its helper stopped (vset_ops.c:833-846,
\* 874-875).
socket_returns(rate) ==
    /\ rate_cycles' = IF rate > rate_cycles THEN rate ELSE rate_cycles
    /\ live' = live \ {"recs"}
    /\ \/ s >= 0 /\ s' = s + 1 /\ pc' = "m_socket" /\ UNCHANGED lhctrl
       \/ s = -1 /\ pc' = "m_exit" /\ UNCHANGED s
                 /\ lhctrl' = stop_helper_thread(lhctrl)

\* vset_ops.c:669-674: fewer than two records give no rate.
records_few ==
    /\ pc = "f_loop" /\ sz >= max_num_recs /\ sz < 2
    /\ socket_returns(0)
    /\ UNCHANGED <<vtop, machine, hctrl, main_cpu, buildv, i, threshold,
                   sz, faults, undefined_at>>

\* vset_ops.c:676-697: the distances of the records go into an array that
\* is not tested, and their average is the rate.
records_full ==
    /\ pc = "f_loop" /\ sz >= max_num_recs /\ sz >= 2
    /\ \E ok \in Outcomes("calloc") :
        /\ faults' = Failed("calloc", ok)
        /\ \/ ok /\ (\E rate \in 0..1 : socket_returns(rate))
                 /\ UNCHANGED undefined_at
           \/ ~ok /\ pc' = "undefined" /\ undefined_at' = pc
                  /\ UNCHANGED <<lhctrl, live, s, rate_cycles>>
    /\ UNCHANGED <<vtop, machine, hctrl, main_cpu, buildv, i, threshold, sz>>

\* vset_ops.c:878-890: the set, the table and the topology are freed.
exit ==
    /\ pc = "m_exit"
    /\ live' = live \ {"l3_evset", "l3_evsets", "topo"}
    /\ pc' = "done"
    /\ UNCHANGED <<vtop, machine, threads, buildv, freqv, faults,
                   undefined_at>>

-----------------------------------------------------------------------------
\* A step that reads an object that is not alive: the write through the
\* freed l3_cands of evset.c:1714, the NULL l3_evset of evset.c:1744, the
\* NULL l3ev of vset_ops.c:751, the NULL timestamps of vset_ops.c:661.
undefined_access ==
    /\ ~(Reads \subseteq live)
    /\ pc' = "undefined"
    /\ undefined_at' = pc
    /\ UNCHANGED <<vtop, machine, threads, live, buildv, freqv, faults>>

\* A command to a helper that does not run: helper_thread_read_single
\* fails its assertion (helper_thread.h:77), traverse_cands_mt spins in
\* wait_helper_thread (cache_ops.c:37).
command_lost ==
    /\ Reads \subseteq live
    /\ Command # "none" /\ ~hctrl.running
    /\ pc' = IF Command = "assert" THEN "aborted" ELSE "hung"
    /\ UNCHANGED <<vtop, machine, threads, live, buildv, freqv, faults,
                   undefined_at>>

\* The process has ended, or does nothing any more.
halted == pc \in Halts /\ UNCHANGED vars

build_single_l3_evset ==
    \/ begin \/ l2_built \/ helper_started \/ cands_no_memory \/ base_cands
    \/ filter \/ shrink \/ take_target \/ test_candidates \/ alloc_set
    \/ init_set \/ final \/ verify \/ finish

calibrate_grp_access_lat == round_calibrates
monitor_socket_activity_freq ==
    pin_and_prime \/ probe_records \/ records_few \/ records_full

monitor_l3_activity_freq ==
    \/ topo \/ built \/ calibrate_grp_access_lat \/ round_discards
    \/ rounds_over \/ check \/ helper_multi \/ helper_single
    \/ socket_skipped \/ socket_measured \/ sockets_done
    \/ monitor_socket_activity_freq \/ exit

Next ==
    \/ build_single_l3_evset \/ monitor_l3_activity_freq
    \/ undefined_access \/ command_lost \/ halted

Spec == Init /\ [][Next]_vars

-----------------------------------------------------------------------------
Locations ==
    {"b_begin", "b_l2", "b_helper", "b_cands", "b_filter", "b_realloc",
     "b_target", "b_test", "b_alloc", "b_init_set", "b_final", "b_verify",
     "b_finish", "m_topo", "m_built", "m_round", "m_check", "m_helper",
     "m_socket", "f_pin", "f_loop", "m_exit"}

\* The type of every variable; the counters stay within their loops.
TypeOK ==
    /\ pc \in Locations \cup Halts
    /\ vset \in Modes /\ vtop \in BOOLEAN
    /\ n_sockets \in 1..MaxSockets /\ paired \subseteq 0..(n_sockets - 1)
    /\ max_num_recs \in MaxNumRecs
    /\ hctrl \in [running : BOOLEAN, core_id : CPUs]
    /\ lhctrl \in [running : BOOLEAN, core_id : CPUs]
    /\ main_cpu \in CPUs
    /\ live \subseteq Objects
    /\ count \in 0..NCands /\ size \in Sizes \cup {0}
    /\ i \in 0..(Retry + 1) /\ threshold \in 0..2
    /\ s \in -1..n_sockets /\ sz \in 0..Max(MaxNumRecs \cup {0})
    /\ rate_cycles \in 0..1
    /\ result \in {"none", "NULL", "sets"}
    /\ faults \subseteq MayFail
    /\ undefined_at \in Locations \cup {"none"}

\* A command is lost, by a failed assertion of helper_thread.h:77 or in the
\* endless wait of cache_ops.c:37, only when pthread_create failed and
\* build_single_l3_evset went on (evset.c:1625, 1628): the helper the set's
\* configuration names is the one the build leaves running for vset
\* (evset.c:1897), and no step of the monitor stops it.
HelperRunsWhenCommanded ==
    pc \in {"aborted", "hung"} => "create" \in faults

\* Every step finds the objects it reads, of the build (candidates, L2 and
\* L3 set) and of the monitor (set, records), unless an allocation failed
\* and the function went on (evset.c:1709, 1739, 1752; vset_ops.c:644,
\* 676), or the calibration loop of vset_ops.c:735 came round again after
\* it had freed a set of more than n_ways lines at line 751.
ReadsFindObjects ==
    undefined_at # "none" =>
        \/ "calloc" \in faults
        \/ undefined_at = "m_round" /\ i > 0 /\ size > NWays
=============================================================================
