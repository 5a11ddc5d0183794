----------------------------- MODULE EvsetPara ------------------------------
(***************************************************************************)
(* The parallel construction of LLC eviction sets, src/src/evset_para.c:   *)
(* an orchestrator creates main/helper pairs, the pairs take their work    *)
(* from a shared counter (build_l3_evsets_para, build_l3_evsets_para_vtop) *)
(* or from a list computed up front (build_l3_evsets_para_gran), and the   *)
(* orchestrator joins them.  In vtop mode it also watches the vCPU         *)
(* topology and re-pins the threads of a pair from outside.                *)
(*                                                                         *)
(* A call of build_evsets_at for a cell (offset, L2 set) is one step that  *)
(* writes the cell of the result table; what it builds is the subject of   *)
(* module EvsetBuild.  The handshake with the helper thread is the subject *)
(* of module HelperThread; here a helper is started, runs and is stopped.  *)
(***************************************************************************)

EXTENDS Integers, FiniteSets

CONSTANTS Modes,          \* the modes explored: "coarse", "gran", "vtop"
          NPairsReq,      \* n_pairs as computed from the core count
          NOffsets,       \* n_offset (coarse, vtop), n_offsets (gran)
          NL2Sets,        \* n_unc_l2_sets (coarse, vtop), n_l2_sets (gran)
          Placements,     \* the vCPU pairs find_optimal_vcpu_pairs may give
          FirstPlaces,    \* the vCPUs of every pair at the start
          MaxTopoChecks   \* bound on the topology checks of the monitor

ASSUME /\ Modes \subseteq {"coarse", "gran", "vtop"}
       /\ NPairsReq \in Nat \ {0} /\ NOffsets \in Nat \ {0}
       /\ NL2Sets \in Nat \ {0} /\ MaxTopoChecks \in Nat
       /\ \A pl \in Placements : pl.main # pl.helper
       /\ FirstPlaces \in [0..(NPairsReq - 1) -> Placements]

VARIABLES
    mode, n_pairs,
    opc, oi, oj,          \* the orchestrator: where it is, its loop indices
    n_pair_init_done,     \* atomic_uint
    next_offset_idx,      \* atomic_uint
    wpc,                  \* the worker of every pair: where it is
    widx, wset,           \* its offset or assignment index, its L2 set index
    running,              \* helper_ctrl.running
    halive,               \* the helper thread exists (created, not joined)
    cancel,               \* the workers with a cancellation pending
    result,               \* for every cell, the pairs that have written it
    pairs_freed,          \* free(pairs) has happened
    rec,                  \* pairs[i].main_vcpu, pairs[i].helper_vcpu
    aff,                  \* the vCPU each thread of the pair is pinned to
    new_assignments, new_valid_pairs, checks,   \* the monitor's locals
    start_failed, timed_out                     \* history

orchv == <<mode, n_pairs, opc, oi, oj>>
ctrv  == <<n_pair_init_done, next_offset_idx>>
workv == <<wpc, widx, wset, running, halive, result>>
vtopv == <<rec, aff, new_assignments, new_valid_pairs, checks>>
histv == <<start_failed, timed_out>>
vars  == <<orchv, ctrv, workv, cancel, pairs_freed, vtopv, histv>>

Pairs  == 0..(NPairsReq - 1)
Active == 0..(n_pairs - 1)
Cells  == (0..(NOffsets - 1)) \X (0..(NL2Sets - 1))
NoCpu  == -1
NoPlace == [main |-> NoCpu, helper |-> NoCpu]
Minimum(a, b) == IF a < b THEN a ELSE b

OrchPcs == {"setup", "create", "cancel", "cancel_join", "barrier", "monitor", "repin",
            "repin_main", "repin_helper", "repin_helper_pin", "join", "done",
            "failed"}
WorkPcs == {"unborn", "pin", "start", "started", "announce", "count", "claim",
            "build", "offset_done", "stop", "join_helper", "stopped", "report",
            "exited"}

-----------------------------------------------------------------------------
(* calc_gran_assignments: the cells in l2_set-major order, cut into        *)
(* consecutive runs of base_work cells, the first `remainder' runs one     *)
(* longer.                                                                 *)

total_work == NOffsets * NL2Sets

Work(k) == <<k % NOffsets, k \div NOffsets>>

pair_work_count(pair, np) ==
    (total_work \div np) + (IF pair < total_work % np THEN 1 ELSE 0)

first_work(pair, np) ==
    pair * (total_work \div np) + Minimum(pair, total_work % np)

\* assignments[k] of the pair.
Assignment(pair, np, k) == Work(first_work(pair, np) + k)

-----------------------------------------------------------------------------
(* Pieces of the steps                        *)

\* An atomic_load where the atomic_fetch_add was meant.
FetchAdd_loads(idx) == UNCHANGED next_offset_idx

\* atomic_fetch_add(&next_offset_idx, 1)
FetchAdd(idx) == next_offset_idx' = idx + 1

\* The last index is taken for the end.
Exhausted_early(idx) == idx + 1 >= NOffsets

\* if (curr_off_idx >= max_offsets) break;
Exhausted(idx) == idx >= NOffsets

\* A join that does not wait.
Joined_at_once(p) == TRUE

\* pthread_join(pairs[i].thread_id, NULL) returns
Joined(p) == wpc[p] = "exited"

\* The count of an earlier call is kept.
InitDoneAtStart_kept(m) == n_pair_init_done

\* atomic_store(&n_pair_init_done, 0), which the vtop builder does not do
InitDoneAtStart(m) == IF m = "vtop" THEN n_pair_init_done ELSE 0

\* The worker forgets to count itself.
InitDone_forgotten == UNCHANGED n_pair_init_done

\* atomic_fetch_add(&n_pair_init_done, 1)
InitDone == n_pair_init_done' = n_pair_init_done + 1

-----------------------------------------------------------------------------
(* The orchestrator *)

\* n_pair_init_done is static and the granular builder is called again and
\* again by the monitoring tools: it holds what the last call left in it.
Init ==
    /\ mode \in Modes
    /\ n_pairs = 0
    /\ opc = "setup" /\ oi = 0 /\ oj = 0
    /\ n_pair_init_done \in 0..NPairsReq
    /\ next_offset_idx = 0
    /\ wpc = [p \in Pairs |-> "unborn"]
    /\ widx = [p \in Pairs |-> 0]
    /\ wset = [p \in Pairs |-> 0]
    /\ running = [p \in Pairs |-> FALSE]
    /\ halive = [p \in Pairs |-> FALSE]
    /\ cancel = {}
    /\ result = [c \in Cells |-> {}]
    /\ pairs_freed = FALSE
    /\ rec = [p \in Pairs |-> NoPlace]
    /\ aff = [p \in Pairs |-> NoPlace]
    /\ new_assignments = [p \in Pairs |-> NoPlace]
    /\ new_valid_pairs = 0
    /\ checks = 0
    /\ start_failed = {} /\ timed_out = FALSE

\* Everything up to the creation of the threads: the number of pairs, the
\* reset of the counters, the pairs array with the vCPUs of every pair.
Setup(m, np) ==
    /\ opc = "setup"
    /\ mode' = m
    /\ n_pairs' = np
    /\ rec' = FirstPlaces
    /\ n_pair_init_done' = InitDoneAtStart(m)
    /\ next_offset_idx' = IF m = "gran" THEN next_offset_idx ELSE 0
    /\ opc' = "create" /\ oi' = 0 /\ oj' = 0
    /\ UNCHANGED <<workv, cancel, pairs_freed, aff, new_assignments,
                   new_valid_pairs, checks, histv>>

\* build_l3_evsets_para never has more pairs than offsets.  It is also what
\* build_l3_evsets_para_vtop falls back to without a topology or without a
\* single valid pair.
setup_para ==
    /\ mode \in {"coarse", "vtop"}
    /\ Setup("coarse", Minimum(NPairsReq, NOffsets))

\* build_l3_evsets_para_gran never has more pairs than cells; the shared
\* offset counter is not used.
setup_para_gran ==
    /\ mode = "gran"
    /\ Setup("gran", Minimum(NPairsReq, total_work))

\* build_l3_evsets_para_vtop has the pairs find_optimal_vcpu_pairs found,
\* and an offset counter of its own.
setup_para_vtop ==
    /\ mode = "vtop"
    /\ \E valid_pairs_found \in 1..NPairsReq : Setup("vtop", valid_pairs_found)

\* pthread_create of the next worker; when it fails the workers created so
\* far are cancelled and joined, one after the other.
create_worker ==
    /\ opc = "create" /\ oi < n_pairs
    /\ \/ /\ wpc' = [wpc EXCEPT ![oi] = "pin"]
          /\ oi' = oi + 1
          /\ UNCHANGED <<opc, oj>>
       \/ /\ opc' = "cancel" /\ oj' = 0
          /\ UNCHANGED <<wpc, oi>>
    /\ UNCHANGED <<mode, n_pairs, ctrv, widx, wset, running, halive, result,
                   cancel, pairs_freed, vtopv, histv>>

all_created ==
    /\ opc = "create" /\ oi = n_pairs
    /\ opc' = IF mode = "vtop" THEN "monitor" ELSE "barrier"
    /\ oi' = 0
    /\ UNCHANGED <<mode, n_pairs, oj, ctrv, workv, cancel, pairs_freed, vtopv,
                   histv>>

\* pthread_cancel(pairs[j].thread_id)
cancel_worker ==
    /\ opc = "cancel" /\ oj < oi
    /\ cancel' = cancel \cup {oj}
    /\ opc' = "cancel_join"
    /\ UNCHANGED <<mode, n_pairs, oi, oj, ctrv, workv, pairs_freed, vtopv,
                   histv>>

\* pthread_join(pairs[j].thread_id, NULL) of the cancelled worker
cancel_join ==
    /\ opc = "cancel_join"
    /\ Joined(oj)
    /\ oj' = oj + 1
    /\ opc' = "cancel"
    /\ UNCHANGED <<mode, n_pairs, oi, ctrv, workv, cancel, pairs_freed, vtopv,
                   histv>>

\* pairs is freed and NULL returned.
create_failed ==
    /\ opc = "cancel" /\ oj = oi
    /\ pairs_freed' = TRUE
    /\ opc' = "failed"
    /\ UNCHANGED <<mode, n_pairs, oi, oj, ctrv, workv, cancel, vtopv, histv>>

\* while (n_pair_init_done != n_pairs);
init_barrier ==
    /\ opc = "barrier"
    /\ n_pair_init_done = n_pairs
    /\ opc' = "join" /\ oi' = 0
    /\ UNCHANGED <<mode, n_pairs, oj, ctrv, workv, cancel, pairs_freed, vtopv,
                   histv>>

join_worker ==
    /\ opc = "join" /\ oi < n_pairs
    /\ Joined(oi)
    /\ oi' = oi + 1
    /\ UNCHANGED <<mode, n_pairs, opc, oj, ctrv, workv, cancel, pairs_freed,
                   vtopv, histv>>

\* All joined: pairs is freed and the result table returned.
build_returns ==
    /\ opc = "join" /\ oi = n_pairs
    /\ pairs_freed' = TRUE
    /\ opc' = "done"
    /\ UNCHANGED <<mode, n_pairs, oi, oj, ctrv, workv, cancel, vtopv, histv>>

-----------------------------------------------------------------------------
(* The monitor loop of build_l3_evsets_para_vtop *)

all_offsets_claimed ==
    /\ opc = "monitor"
    /\ next_offset_idx >= NOffsets
    /\ opc' = "join" /\ oi' = 0
    /\ UNCHANGED <<mode, n_pairs, oj, ctrv, workv, cancel, pairs_freed, vtopv,
                   histv>>

\* A topology check; a harmful change brings new assignments for the first
\* new_valid_pairs pairs.
topo_check ==
    /\ opc = "monitor"
    /\ next_offset_idx < NOffsets
    /\ checks < MaxTopoChecks
    /\ checks' = checks + 1
    /\ \/ UNCHANGED <<opc, oi, new_assignments, new_valid_pairs>>
       \/ /\ new_assignments' \in
                 {f \in [Pairs -> Placements] :
                     \A p, q \in Pairs : f[p] = f[q] => p = q}
          /\ new_valid_pairs' \in 0..n_pairs
          /\ opc' = "repin" /\ oi' = 0
    /\ UNCHANGED <<mode, n_pairs, oj, ctrv, workv, cancel, pairs_freed, rec, aff,
                   histv>>

\* The stored assignment of pair oi is replaced when it changes.
repin_record ==
    /\ opc = "repin" /\ oi < n_pairs
    /\ IF oi < new_valid_pairs /\ new_assignments[oi] # rec[oi]
       THEN /\ rec' = [rec EXCEPT ![oi] = new_assignments[oi]]
            /\ opc' = "repin_main"
            /\ oi' = oi
       ELSE /\ oi' = oi + 1
            /\ UNCHANGED <<rec, opc>>
    /\ UNCHANGED <<mode, n_pairs, oj, ctrv, workv, cancel, pairs_freed, aff,
                   new_assignments, new_valid_pairs, checks, histv>>

repin_ends ==
    /\ opc = "repin" /\ oi = n_pairs
    /\ opc' = "monitor" /\ oi' = 0
    /\ UNCHANGED <<mode, n_pairs, oj, ctrv, workv, cancel, pairs_freed, vtopv,
                   histv>>

\* pin_thread_by_pid(pairs[i].thread_id, new_main)
repin_main ==
    /\ opc = "repin_main"
    /\ aff' = [aff EXCEPT ![oi].main =
                  IF wpc[oi] = "exited" THEN @ ELSE rec[oi].main]
    /\ opc' = "repin_helper"
    /\ UNCHANGED <<mode, n_pairs, oi, oj, ctrv, workv, cancel, pairs_freed, rec,
                   new_assignments, new_valid_pairs, checks, histv>>

\* pin_helper_by_ctrl, its test of ctrl->running.
repin_helper ==
    /\ opc = "repin_helper"
    /\ IF running[oi]
       THEN opc' = "repin_helper_pin" /\ oi' = oi
       ELSE opc' = "repin" /\ oi' = oi + 1
    /\ UNCHANGED <<mode, n_pairs, oj, ctrv, workv, cancel, pairs_freed, vtopv,
                   histv>>

\* pin_helper_by_ctrl, its pthread_setaffinity_np on ctrl->pid; on a helper
\* that has been joined meanwhile it pins nothing.
repin_helper_pin ==
    /\ opc = "repin_helper_pin"
    /\ aff' = [aff EXCEPT ![oi].helper = IF halive[oi] THEN rec[oi].helper
                                                       ELSE @]
    /\ opc' = "repin" /\ oi' = oi + 1
    /\ UNCHANGED <<mode, n_pairs, oj, ctrv, workv, cancel, pairs_freed, rec,
                   new_assignments, new_valid_pairs, checks, histv>>

Orchestrator ==
    \/ setup_para \/ setup_para_gran \/ setup_para_vtop
    \/ create_worker \/ all_created
    \/ cancel_worker \/ cancel_join \/ create_failed
    \/ init_barrier \/ join_worker \/ build_returns
    \/ all_offsets_claimed \/ topo_check \/ repin_record \/ repin_ends
    \/ repin_main \/ repin_helper \/ repin_helper_pin

-----------------------------------------------------------------------------
(* The workers: evset_thread_worker, evset_thread_worker_gran and          *)
(* vtop_para_worker                                                        *)

\* A printf is a cancellation point: a cancelled worker ends there.
CancelPoint(p, next) ==
    wpc' = [wpc EXCEPT ![p] = IF p \in cancel THEN "exited" ELSE next]

\* set_cpu_affinity(tp->core_id_main)
worker_pin(p) ==
    /\ wpc[p] = "pin"
    /\ aff' = [aff EXCEPT ![p].main = rec[p].main]
    /\ wpc' = [wpc EXCEPT ![p] = "start"]
    /\ UNCHANGED <<orchv, ctrv, widx, wset, running, halive, result, cancel,
                   pairs_freed, rec, new_assignments, new_valid_pairs, checks,
                   histv>>

\* start_helper_thread_pinned up to the helper's first announcement: the
\* helper pins itself to ctrl->core_id.  When the thread cannot be created
\* the worker returns.
worker_start(p) ==
    /\ wpc[p] = "start"
    /\ \/ /\ halive' = [halive EXCEPT ![p] = TRUE]
          /\ aff' = [aff EXCEPT ![p].helper = rec[p].helper]
          /\ wpc' = [wpc EXCEPT ![p] = "started"]
          /\ UNCHANGED start_failed
       \/ /\ start_failed' = start_failed \cup {p}
          /\ wpc' = [wpc EXCEPT ![p] = "exited"]
          /\ UNCHANGED <<halive, aff>>
    /\ UNCHANGED <<orchv, ctrv, widx, wset, running, result, cancel,
                   pairs_freed, rec, new_assignments, new_valid_pairs, checks,
                   timed_out>>

\* ctrl->running = true
worker_running(p) ==
    /\ wpc[p] = "started"
    /\ running' = [running EXCEPT ![p] = TRUE]
    /\ wpc' = [wpc EXCEPT ![p] = "announce"]
    /\ UNCHANGED <<orchv, ctrv, widx, wset, halive, result, cancel,
                   pairs_freed, vtopv, histv>>

\* The line "Thread pair ... working on cores".
worker_announce(p) ==
    /\ wpc[p] = "announce"
    /\ CancelPoint(p, IF mode = "vtop" THEN "claim" ELSE "count")
    /\ UNCHANGED <<orchv, ctrv, widx, wset, running, halive, result, cancel,
                   pairs_freed, vtopv, histv>>

\* The worker counts itself as initialised.
worker_count(p) ==
    /\ wpc[p] = "count"
    /\ InitDone
    /\ wpc' = [wpc EXCEPT ![p] = IF mode = "gran" THEN "build" ELSE "claim"]
    /\ widx' = [widx EXCEPT ![p] = 0]
    /\ UNCHANGED <<orchv, next_offset_idx, wset, running, halive, result,
                   cancel, pairs_freed, vtopv, histv>>

\* The next offset is taken from the shared counter.
worker_claim(p) ==
    /\ wpc[p] = "claim"
    /\ LET curr_off_idx == next_offset_idx
       IN /\ FetchAdd(curr_off_idx)
          /\ IF Exhausted(curr_off_idx)
             THEN /\ wpc' = [wpc EXCEPT ![p] = "stop"]
                  /\ UNCHANGED <<widx, wset>>
             ELSE /\ wpc' = [wpc EXCEPT ![p] = "build"]
                  /\ widx' = [widx EXCEPT ![p] = curr_off_idx]
                  /\ wset' = [wset EXCEPT ![p] = 0]
    /\ UNCHANGED <<orchv, n_pair_init_done, running, halive, result, cancel,
                   pairs_freed, vtopv, histv>>

\* build_evsets_at for the next L2 set of the offset, its result stored in
\* result_complex[n][i]; evset_thread_worker gives up when its run time
\* limit has passed.
worker_build(p) ==
    /\ wpc[p] = "build" /\ mode # "gran"
    /\ result' = [result EXCEPT ![<<widx[p], wset[p]>>] = @ \cup {p}]
    /\ wset' = [wset EXCEPT ![p] = @ + 1]
    /\ \/ /\ wpc' = [wpc EXCEPT ![p] = IF wset[p] + 1 = NL2Sets
                                       THEN "offset_done" ELSE "build"]
          /\ UNCHANGED timed_out
       \/ /\ mode = "coarse"
          /\ wpc' = [wpc EXCEPT ![p] = "stop"]
          /\ timed_out' = TRUE
    /\ UNCHANGED <<orchv, ctrv, widx, running, halive, cancel, pairs_freed,
                   vtopv, start_failed>>

\* build_evsets_at reports some of its failures with fprintf, which is a
\* cancellation point as well: a cancelled worker may end inside a build.
worker_build_cancelled(p) ==
    /\ wpc[p] = "build" /\ p \in cancel
    /\ wpc' = [wpc EXCEPT ![p] = "exited"]
    /\ UNCHANGED <<orchv, ctrv, widx, wset, running, halive, result, cancel,
                   pairs_freed, vtopv, histv>>

\* The line "Pair ... offset ... Done".
worker_offset_done(p) ==
    /\ wpc[p] = "offset_done"
    /\ CancelPoint(p, "claim")
    /\ UNCHANGED <<orchv, ctrv, widx, wset, running, halive, result, cancel,
                   pairs_freed, vtopv, histv>>

\* evset_thread_worker_gran: the next assignment of the pair's list, or the
\* end of the list.
worker_build_gran(p) ==
    /\ wpc[p] = "build" /\ mode = "gran"
    /\ IF widx[p] < pair_work_count(p, n_pairs)
       THEN /\ result' = [result EXCEPT
                             ![Assignment(p, n_pairs, widx[p])] = @ \cup {p}]
            /\ widx' = [widx EXCEPT ![p] = @ + 1]
            /\ UNCHANGED wpc
       ELSE /\ wpc' = [wpc EXCEPT ![p] = "stop"]
            /\ UNCHANGED <<result, widx>>
    /\ UNCHANGED <<orchv, ctrv, wset, running, halive, cancel, pairs_freed,
                   vtopv, histv>>

\* stop_helper_thread: the stop command is published ...
worker_stop(p) ==
    /\ wpc[p] = "stop"
    /\ wpc' = [wpc EXCEPT ![p] = "join_helper"]
    /\ UNCHANGED <<orchv, ctrv, widx, wset, running, halive, result, cancel,
                   pairs_freed, vtopv, histv>>

\* ... the helper is joined (pthread_join is a cancellation point: a
\* cancelled worker ends in it and the helper stays unjoined) ...
worker_join_helper(p) ==
    /\ wpc[p] = "join_helper"
    /\ CancelPoint(p, "stopped")
    /\ halive' = [halive EXCEPT ![p] = @ /\ p \in cancel]
    /\ UNCHANGED <<orchv, ctrv, widx, wset, running, result, cancel,
                   pairs_freed, vtopv, histv>>

\* ... and ctrl->running = false.
worker_stopped(p) ==
    /\ wpc[p] = "stopped"
    /\ running' = [running EXCEPT ![p] = FALSE]
    /\ wpc' = [wpc EXCEPT ![p] = "report"]
    /\ UNCHANGED <<orchv, ctrv, widx, wset, halive, result, cancel,
                   pairs_freed, vtopv, histv>>

\* The line "Thread pair ... done", and the return.
worker_report(p) ==
    /\ wpc[p] = "report"
    /\ wpc' = [wpc EXCEPT ![p] = "exited"]
    /\ UNCHANGED <<orchv, ctrv, widx, wset, running, halive, result, cancel,
                   pairs_freed, vtopv, histv>>

Worker(p) ==
    \/ worker_pin(p) \/ worker_start(p) \/ worker_running(p)
    \/ worker_announce(p) \/ worker_count(p) \/ worker_claim(p)
    \/ worker_build(p) \/ worker_build_gran(p) \/ worker_build_cancelled(p)
    \/ worker_offset_done(p)
    \/ worker_stop(p) \/ worker_join_helper(p) \/ worker_stopped(p)
    \/ worker_report(p)

-----------------------------------------------------------------------------

Next == Orchestrator \/ \E p \in Pairs : Worker(p)

\* Every thread is a kernel thread of its own and keeps running: a spin
\* loop whose condition holds is left, a runnable worker takes its step.
Fairness == WF_vars(Orchestrator) /\ \A p \in Pairs : WF_vars(Worker(p))

Spec == Init /\ [][Next]_vars /\ Fairness

-----------------------------------------------------------------------------
(* Properties *)

TypeOK ==
    /\ mode \in Modes /\ n_pairs \in 0..NPairsReq
    /\ opc \in OrchPcs /\ oi \in 0..NPairsReq /\ oj \in 0..NPairsReq
    /\ n_pair_init_done \in 0..NPairsReq
    /\ next_offset_idx \in 0..(NOffsets + NPairsReq)
    /\ wpc \in [Pairs -> WorkPcs]
    /\ widx \in [Pairs -> 0..total_work] /\ wset \in [Pairs -> 0..NL2Sets]
    /\ running \in [Pairs -> BOOLEAN] /\ halive \in [Pairs -> BOOLEAN]
    /\ cancel \subseteq Pairs
    /\ result \in [Cells -> SUBSET Pairs]
    /\ pairs_freed \in BOOLEAN
    /\ rec \in [Pairs -> Placements \cup {NoPlace}]
    /\ aff \in [Pairs -> [main : {pl.main : pl \in Placements} \cup {NoCpu},
                         helper : {pl.helper : pl \in Placements} \cup {NoCpu}]]
    /\ new_assignments \in [Pairs -> Placements \cup {NoPlace}]
    /\ new_valid_pairs \in 0..NPairsReq /\ checks \in 0..MaxTopoChecks
    /\ start_failed \subseteq Pairs /\ timed_out \in BOOLEAN

\* No two pairs write the same cell of the result table: the claim of an
\* offset in evset_thread_worker and vtop_para_worker is one atomic
\* fetch-and-add, and the lists of calc_gran_assignments do not overlap.
OneWriterPerCell ==
    \A c \in Cells : Cardinality(result[c]) <= 1

\* When the builder returns the table and no worker ran into its run time
\* limit, every cell has been built: the offsets claimed from the counter,
\* or the lists of calc_gran_assignments, cover offsets x L2 sets whatever
\* the number of pairs and whichever workers came up.
CompleteWhenDone ==
    opc = "done" /\ ~timed_out => \A c \in Cells : result[c] # {}

\* The pairs array, which holds every worker's arguments and its
\* helper_ctrl, is freed only when every worker created has ended: the
\* joins of the builders, and of their pthread_create failure paths, wait
\* for each of them.
WorkersGoneBeforeFree ==
    pairs_freed => \A p \in Pairs : wpc[p] \in {"unborn", "exited"}

\* If every helper thread starts, the builder returns: every worker counts
\* itself at the barrier, claims until the offsets are used up and ends,
\* and the monitor of build_l3_evsets_para_vtop sees the counter pass
\* n_offset.
Completes ==
    <>(opc \in {"done", "failed"} \/ start_failed # {})

\* The builder always returns, with a table or with NULL: "all failures
\* are return values".  (A worker whose helper cannot be started returns
\* before it counts itself at the barrier.)
AlwaysReturns ==
    <>(opc \in {"done", "failed"})

\* While a pair builds and the monitor is not in the middle of a re-pin,
\* both threads of the pair run where pairs[i].main_vcpu and
\* pairs[i].helper_vcpu say: a pair is "re-pinned in place".
\* (pin_helper_by_ctrl gives up on a helper whose running flag the worker
\* has not set yet, after the record has been changed.)
PairsRunWhereRecorded ==
    opc = "monitor" =>
        \A p \in Active : wpc[p] \in {"claim", "build", "offset_done"}
                              => aff[p] = rec[p]

\* When pairs is freed no helper thread is left that works on a
\* helper_ctrl in it.  (A worker cancelled at a printf or in the
\* pthread_join of stop_helper_thread leaves its helper behind.)
HelpersGoneBeforeFree ==
    pairs_freed => \A p \in Pairs : ~halive[p]

=============================================================================
