----------------------------- MODULE L2ColorOcc ------------------------------
(***************************************************************************)
(* The occupancy of the cache by L2 colour (src/src/vset_ops.c):           *)
(* monitor_l3_occupancy_l2color takes the table of the granular parallel   *)
(* builder, groups its sets by colour, gives every pair of vCPUs a range   *)
(* of colours and an l2c_occ_worker, and turns what the workers stored in  *)
(* tot_line_ev_avg into percentages when it has joined them.  A worker     *)
(* starts a helper thread, names it in every set of its colours            *)
(* (attach_helper_to_evsets, src/src/helper_thread.c), and primes, waits   *)
(* and probes once per iteration.                                          *)
(*                                                                         *)
(* The table has NUM_OFFSETS rows and one column per colour of the         *)
(* machine; the builder fills the cells of the offsets and colours it was  *)
(* asked for, after clamping both, and the monitor reads the cells of the  *)
(* offsets and colours of g_config.  Of a cell is kept whether it holds an *)
(* array and whether a set of the array has lines; of a set which control  *)
(* block it names; of tot_line_ev_avg who stored to each cell.             *)
(***************************************************************************)
EXTENDS Integers, FiniteSets

CONSTANTS
    max_unc_sets,   \* 1 << l2_info.unknown_sib: the colours of the machine
    NUM_OFFSETS,    \* the rows of the table
    NumL2Sets,      \* the values of g_config.num_l2_sets (-u) explored
    NumOffsets,     \* the values of g_config.num_offsets (-o) explored
    Cores,          \* the values of n_system_cores() explored
    NumThreads,     \* the values of g_config.num_threads explored
    iterations,     \* heatmap_max_time_us (-M)
    ScanPeriod,     \* the values of scan_period_ms explored
    Unbuilt,        \* the units whose array may come without a set
    Absent,         \* the units for which build_evsets_at may return NULL
    MayFail         \* the calls that may fail

Units == (0..(NUM_OFFSETS - 1)) \X (0..(max_unc_sets - 1))

ASSUME /\ max_unc_sets \in Nat \ {0} /\ NUM_OFFSETS \in Nat \ {0}
       /\ NumL2Sets \subseteq Nat /\ NumOffsets \subseteq Nat \ {0}
       /\ Cores \subseteq Nat \ {0, 1} /\ NumThreads \subseteq Nat
       /\ iterations \in Nat \ {0} /\ ScanPeriod \subseteq Nat
       /\ Unbuilt \subseteq Units /\ Absent \subseteq Units
       /\ MayFail \subseteq {"build", "calloc", "cgroup", "create", "helper"}

VARIABLES
    pc,             \* where monitor_l3_occupancy_l2color is
    ret,
    live,           \* the heap objects allocated and not freed
    num_l2_sets,    \* g_config.num_l2_sets, n_colors
    num_offsets,    \* g_config.num_offsets
    scan_period_ms,
    l3_complex,     \* the table: "null", "none" or "set" for every unit
    color_counts,
    n_pairs,
    i,              \* the pair of the loops over the threads
    next_start,
    wargs,          \* wargs[k]: start_color and num_colors of pair k
    hctrl,          \* hctrl[c]: what the sets of colour c name
    tot_avg,        \* tot_avg[<<c, it>>]: the workers that stored to it
    wpc,            \* where l2c_occ_worker k is
    it,             \* it[k]: the iteration of worker k
    running,        \* running[k]: the helper of worker k runs
    cancel          \* cancel[k]: pthread_cancel was called on worker k

confv   == <<num_l2_sets, num_offsets, scan_period_ms>>
groupv  == <<l3_complex, color_counts>>
loopv   == <<n_pairs, i, next_start, wargs>>
workerv == <<wpc, it, running, cancel>>
vars    == <<pc, ret, live, confv, groupv, loopv, hctrl, tot_avg, workerv>>

Colors == 0..(max_unc_sets - 1)
Pairs  == 0..(max_unc_sets - 1)
Its    == 0..(iterations - 1)
Stale  == -1

\* What a call may answer: it fails only where MayFail lets it.
Outcomes(call) == {TRUE} \cup {FALSE : c \in {call} \cap MayFail}

\* The set of x alone if b holds, and no element otherwise.
Only(x, b) == IF b THEN {x} ELSE {}

Least(a, b) == IF a < b THEN a ELSE b

-----------------------------------------------------------------------------
(* monitor_l3_occupancy_l2color, vset_ops.c:1411-1618 *)

\* What build_l3_evsets_para_gran leaves in the table when it returns one:
\* an array in the cell of every unit of the offsets and colours it was
\* asked for, both clamped to the size of the table, unless build_evsets_at
\* returned NULL for the unit; a set with lines in the array unless the
\* build of the unit found none.
Tables(n_offsets, n_l2_sets) ==
    LET asked == (0..(Least(n_offsets, NUM_OFFSETS) - 1))
                     \X (0..(Least(n_l2_sets, max_unc_sets) - 1))
    IN  {[u \in Units |-> CASE u \notin asked \/ u \in absent -> "null"
                            [] u \in (asked \cap unbuilt) \ absent -> "none"
                            [] OTHER -> "set"] :
            absent \in SUBSET Absent, unbuilt \in SUBSET Unbuilt}

\* The colours asked for, all of them when none or too many were, and the
\* build.
begin ==
    /\ pc = "begin"
    /\ num_l2_sets' = IF num_l2_sets = 0 \/ num_l2_sets > max_unc_sets
                      THEN max_unc_sets ELSE num_l2_sets
    /\ \E built \in Outcomes("build") :
         IF built /\ num_offsets > 0
         THEN /\ l3_complex' \in Tables(num_offsets, num_l2_sets')
              /\ live' = live \cup {"l3_complex"}
              /\ pc' = "group" /\ UNCHANGED ret
         ELSE pc' = "returned" /\ ret' = 0 /\ UNCHANGED <<l3_complex, live>>
    /\ UNCHANGED <<num_offsets, scan_period_ms, color_counts, loopv, hctrl,
                   tot_avg, workerv>>

\* The cells the three loops over g_config read, here and in cleanup.
Read == (0..(num_offsets - 1)) \X (0..(num_l2_sets - 1))

\* l3_complex[off][c][e] finds an array: the cell is one of the table and
\* the builder has stored one in it.
Readable(u) == u \in Units /\ l3_complex[u] # "null"

\* color_counts[c] of the grouping: the sets of colour c that have lines.
Counted(c) == Cardinality({u \in Read : u[2] = c /\ l3_complex[u] = "set"})

\* color_sets and color_counts.  Reading a cell without an array ends the
\* program in the handler of SIGSEGV; a colour without a set ends the call.
group ==
    /\ pc = "group"
    /\ IF \A u \in Read : Readable(u)
       THEN /\ color_counts' = [c \in Colors |-> Counted(c)]
            /\ live' = live \cup {"color_sets", "color_counts"}
            /\ pc' = IF \E c \in 0..(num_l2_sets - 1) : Counted(c) = 0
                     THEN "cleanup" ELSE "setup"
       ELSE pc' = "aborted" /\ UNCHANGED <<color_counts, live>>
    /\ UNCHANGED <<ret, confv, l3_complex, loopv, hctrl, tot_avg, workerv>>

\* n_pairs: half the threads asked for, at least one pair and at most one
\* per colour.
Clamp(n_cores, num_threads, n_colors) ==
    LET req_threads == IF num_threads # 0 /\ num_threads <= n_cores
                       THEN num_threads ELSE n_cores
        half == req_threads \div 2
        some == IF half = 0 THEN 1 ELSE half
    IN  Least(some, n_colors)

\* tot_line_ev_avg, the number of pairs, the cgroup and the two arrays of
\* the threads.
setup ==
    /\ pc = "setup"
    /\ \E n_cores \in Cores, num_threads \in NumThreads,
          moved \in Outcomes("cgroup"),
          threads \in Outcomes("calloc"), args \in Outcomes("calloc") :
         /\ n_pairs' = Clamp(n_cores, num_threads, num_l2_sets)
         /\ live' = live \cup {"tot_line_ev_avg"}
                         \cup Only("threads", moved /\ threads)
                         \cup Only("wargs", moved /\ args)
         /\ ret' = IF moved THEN ret ELSE 0
         /\ pc' = IF moved /\ threads /\ args THEN "create" ELSE "cleanup"
    /\ i' = 0 /\ next_start' = 0
    /\ UNCHANGED <<confv, groupv, wargs, hctrl, tot_avg, workerv>>

\* The same without the colours that the remainder gives to the first pairs.
count_without_extra(k) == num_l2_sets \div n_pairs

\* count of pair k: base, and one of the extra colours for the first pairs.
count(k) ==
    num_l2_sets \div n_pairs + (IF k < num_l2_sets % n_pairs THEN 1 ELSE 0)

\* The arguments of pair i and its thread.  When the thread cannot be
\* created the threads before it are cancelled, and they alone are joined.
create ==
    /\ pc = "create"
    /\ wargs' = [wargs EXCEPT ![i] = [start_color |-> next_start,
                                      num_colors |-> count(i)]]
    /\ next_start' = next_start + count(i)
    /\ \E thread \in Outcomes("create") :
         IF thread
         THEN /\ wpc' = [wpc EXCEPT ![i] = "start"]
              /\ i' = IF i + 1 < n_pairs THEN i + 1 ELSE 0
              /\ pc' = IF i + 1 < n_pairs THEN "create" ELSE "join"
              /\ UNCHANGED <<n_pairs, cancel>>
         ELSE /\ n_pairs' = i
              /\ cancel' = [k \in Pairs |-> k < i]
              /\ i' = 0
              /\ pc' = IF i > 0 THEN "join_cancelled" ELSE "cleanup_threads"
              /\ UNCHANGED wpc
    /\ UNCHANGED <<ret, live, confv, groupv, hctrl, tot_avg, it, running>>

\* pthread_join returns when the thread has returned or was cancelled.
Joined(k) == wpc[k] \in {"done", "cancelled"}

\* The two loops of pthread_join.
join ==
    /\ pc \in {"join", "join_cancelled"}
    /\ Joined(i)
    /\ i' = IF i + 1 < n_pairs THEN i + 1 ELSE 0
    /\ pc' = CASE i + 1 < n_pairs -> pc
               [] pc = "join" -> "normalise"
               [] OTHER -> "cleanup_threads"
    /\ UNCHANGED <<ret, live, confv, groupv, n_pairs, next_start, wargs,
                   hctrl, tot_avg, workerv>>

\* The percentages, and write_l2color_data.
normalise ==
    /\ pc = "normalise"
    /\ pc' = "cleanup_threads"
    /\ UNCHANGED <<ret, live, confv, groupv, loopv, hctrl, tot_avg, workerv>>

cleanup_threads ==
    /\ pc = "cleanup_threads"
    /\ live' = live \ {"threads", "wargs"}
    /\ pc' = "cleanup"
    /\ UNCHANGED <<ret, confv, groupv, loopv, hctrl, tot_avg, workerv>>

\* The arrays of the grouping, tot_line_ev_avg and the table with its sets,
\* read by the same loops as the grouping; the return value.
cleanup ==
    /\ pc = "cleanup"
    /\ live' = live \ {"color_sets", "color_counts", "tot_line_ev_avg",
                       "l3_complex"}
    /\ pc' = "returned"
    /\ UNCHANGED <<ret, confv, groupv, loopv, hctrl, tot_avg, workerv>>

monitor_l3_occupancy_l2color ==
    \/ begin \/ group \/ setup \/ create \/ join \/ normalise
    \/ cleanup_threads \/ cleanup

-----------------------------------------------------------------------------
(* l2c_occ_worker, vset_ops.c:159-250 *)

\* The colours of worker k that have a set: what its loops work on.
Own(k) ==
    {c \in Colors : /\ wargs[k].start_color <= c
                    /\ c < wargs[k].start_color + wargs[k].num_colors
                    /\ color_counts[c] > 0}

\* A step of worker k, from one place to the next.
Step(k, from, to) ==
    /\ wpc[k] = from
    /\ wpc' = [wpc EXCEPT ![k] = to]
    /\ UNCHANGED <<pc, ret, live, confv, groupv, loopv, cancel>>

\* set_cpu_affinity and start_helper_thread_pinned, whose result is dropped.
worker_start(k) ==
    /\ \E helper \in Outcomes("helper") :
         running' = [running EXCEPT ![k] = helper]
    /\ Step(k, "start", "attach")
    /\ UNCHANGED <<hctrl, tot_avg, it>>

\* The colours whose sets attach_helper_to_evsets visits
\* (helper_thread.c:51-68): every colour of the range.
Attached(k) == Own(k)

\* Every set of the range is given the helper of this worker.
worker_attach(k) ==
    /\ hctrl' = [c \in Colors |-> IF c \in Attached(k) THEN k ELSE hctrl[c]]
    /\ Step(k, "attach", "prime")
    /\ UNCHANGED <<tot_avg, it, running>>

\* traverse_cands_mt hands the traversal to the helper the set names and
\* waits for its answer: there is one when that helper runs
\* (vset_ops.c:532-547).
Primed(S) == \A c \in S : hctrl[c] # Stale /\ running[hctrl[c]]

\* flush_array and l3_evset_prime of every set of every colour, and the
\* rest of the wait.
worker_prime(k) ==
    /\ Step(k, "prime", IF Primed(Own(k)) THEN "probe" ELSE "hung")
    /\ UNCHANGED <<hctrl, tot_avg, it, running>>

\* The timed loads of every line, and the evictions of every colour stored
\* in the cell of the iteration; then the next iteration, after usleep if a
\* period is set.
worker_probe(k) ==
    /\ tot_avg' = [u \in DOMAIN tot_avg |->
                     IF u[1] \in Own(k) /\ u[2] = it[k]
                     THEN tot_avg[u] \cup {k} ELSE tot_avg[u]]
    /\ it' = [it EXCEPT ![k] = @ + 1]
    /\ Step(k, "probe", CASE it[k] + 1 >= iterations -> "stop"
                          [] scan_period_ms # 0 -> "sleep"
                          [] OTHER -> "prime")
    /\ UNCHANGED <<hctrl, running>>

\* usleep is where a cancelled thread ends; its helper is left running.
worker_sleep(k) ==
    /\ Step(k, "sleep", IF cancel[k] THEN "cancelled" ELSE "prime")
    /\ UNCHANGED <<hctrl, tot_avg, it, running>>

\* stop_helper_thread: the helper is told to stop if it runs, and joined,
\* which is where a cancelled thread ends as well.  The control block is a
\* local variable of the worker.
worker_stop(k) ==
    /\ running' = [running EXCEPT ![k] = FALSE]
    /\ hctrl' = [c \in Colors |-> IF hctrl[c] = k THEN Stale ELSE hctrl[c]]
    /\ Step(k, "stop", IF running[k] /\ cancel[k] THEN "cancelled" ELSE "done")
    /\ UNCHANGED <<tot_avg, it>>

l2c_occ_worker(k) ==
    \/ worker_start(k) \/ worker_attach(k) \/ worker_prime(k)
    \/ worker_probe(k) \/ worker_sleep(k) \/ worker_stop(k)

\* The call has returned, the program has ended in the signal handler, or
\* the call waits for a worker that waits for a helper.
finished ==
    /\ \/ pc \in {"returned", "aborted"}
       \/ pc \in {"join", "join_cancelled"} /\ wpc[i] = "hung"
    /\ UNCHANGED vars

-----------------------------------------------------------------------------
\* The options as vset leaves them (vset.c:318-332, 433), nothing allocated
\* and no thread.
Init ==
    /\ pc = "begin" /\ ret = 1 /\ live = {}
    /\ num_l2_sets \in NumL2Sets /\ num_offsets \in NumOffsets
    /\ scan_period_ms \in ScanPeriod
    /\ l3_complex = [u \in Units |-> "null"]
    /\ color_counts = [c \in Colors |-> 0]
    /\ n_pairs = 0 /\ i = 0 /\ next_start = 0
    /\ wargs = [k \in Pairs |-> [start_color |-> 0, num_colors |-> 0]]
    /\ hctrl = [c \in Colors |-> Stale]
    /\ tot_avg = [u \in Colors \X Its |-> {}]
    /\ wpc = [k \in Pairs |-> "idle"]
    /\ it = [k \in Pairs |-> 0]
    /\ running = [k \in Pairs |-> FALSE]
    /\ cancel = [k \in Pairs |-> FALSE]

Next ==
    \/ monitor_l3_occupancy_l2color
    \/ \E k \in Pairs : l2c_occ_worker(k)
    \/ finished

Spec == Init /\ [][Next]_vars

-----------------------------------------------------------------------------
TypeOK ==
    /\ pc \in {"begin", "group", "setup", "create", "join", "join_cancelled",
               "normalise", "cleanup_threads", "cleanup", "returned",
               "aborted"}
    /\ ret \in {0, 1}
    /\ live \subseteq {"l3_complex", "color_sets", "color_counts",
                       "tot_line_ev_avg", "threads", "wargs"}
    /\ num_l2_sets \in NumL2Sets \cup 1..max_unc_sets
    /\ num_offsets \in NumOffsets /\ scan_period_ms \in ScanPeriod
    /\ l3_complex \in [Units -> {"null", "none", "set"}]
    /\ color_counts \in [Colors -> 0..NUM_OFFSETS]
    /\ n_pairs \in 0..max_unc_sets /\ i \in 0..max_unc_sets
    /\ next_start \in 0..max_unc_sets
    /\ wargs \in [Pairs -> [start_color : 0..max_unc_sets,
                            num_colors : 0..max_unc_sets]]
    /\ hctrl \in [Colors -> Pairs \cup {Stale}]
    /\ tot_avg \in [Colors \X Its -> SUBSET Pairs]
    /\ wpc \in [Pairs -> {"idle", "start", "attach", "prime", "probe",
                          "sleep", "stop", "done", "cancelled", "hung"}]
    /\ it \in [Pairs -> 0..iterations]
    /\ running \in [Pairs -> BOOLEAN] /\ cancel \in [Pairs -> BOOLEAN]

\* When the percentages are computed, every cell of tot_line_ev_avg of a
\* colour asked for was stored to by one worker and no other: the ranges
\* that the loop of 'next_start += count' hands out cover the colours and
\* do not overlap, and the join loop has waited for the last store
\* (vset_ops.c:1519-1558, 238).
RowsMeasuredOnce ==
    pc = "normalise" =>
        \A c \in 0..(num_l2_sets - 1), n \in Its :
            Cardinality(tot_avg[<<c, n>>]) = 1
=============================================================================
