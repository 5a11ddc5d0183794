------------------------------ MODULE Heatmap -------------------------------
(***************************************************************************)
(* The occupancy heatmap (src/src/vset_ops.c): one call of                 *)
(* monitor_l3_occupancy_heatmap_impl, which takes the eviction sets of the *)
(* granular parallel builder, estimates its run time by priming them once, *)
(* and then, for every time slot, creates one heatmap_worker per pair of   *)
(* vCPUs, each with a helper thread of its own and a share of the sets,    *)
(* and joins them; and monitor_l3_occupancy_heatmap_vtop, which makes that *)
(* call once for every socket, on the same sets.                           *)
(*                                                                         *)
(* A set carries, in its build configuration, a pointer to the control     *)
(* block of the helper that l3_evset_prime commands.  The builder has left *)
(* it pointing into its array pairs, which it has freed, at a helper it    *)
(* has stopped (EvsetPara); a worker that returns leaves it pointing into  *)
(* its own stack.  Such a pointer is Stale here.  What is kept of the heap *)
(* is which objects are alive, of a helper whether it runs (HelperThread   *)
(* has the handshake), of a set which control block it names.              *)
(***************************************************************************)
EXTENDS Integers, FiniteSets

CONSTANTS
    Built,          \* what the build may leave in total_sets
    Cores,          \* the values of n_system_cores() explored
    NumThreads,     \* the values of g_config.num_threads explored
    Callers,        \* "plain", "pinned", "vtop": the three wrappers
    n_time_slots,   \* heatmap_max_time_us / heatmap_time_step_us + 1
    MaxSockets,     \* the sockets the vtop wrapper finds a pair on, at most
    MayFail         \* the calls that may fail

ASSUME /\ Built \subseteq Nat /\ Built # {} /\ Cores \subseteq Nat \ {0}
       /\ NumThreads \subseteq Nat
       /\ n_time_slots \in Nat \ {0} /\ MaxSockets \in Nat \ {0}
       /\ Callers \subseteq {"plain", "pinned", "vtop"}
       /\ MayFail \subseteq {"build", "calloc", "cgroup", "create", "helper"}

VARIABLES
    caller,
    sockets,        \* the calls the vtop wrapper has still to make
    pc,             \* where monitor_l3_occupancy_heatmap_impl is
    ret,            \* TRUE for EXIT_FAILURE
    live,           \* the heap objects allocated and not freed
    total_sets,
    n_pairs,
    t, i,           \* the time slot, the pair of the two inner loops
    sets,           \* wargs[k].sets with set_cnt: the share of pair k
    hctrl,          \* hctrl[s]: what the build_conf->hctrl of set s names
    wpc,            \* where heatmap_worker k is
    created,        \* pthread_create gave pair k a thread in this slot
    running,        \* running[k]: the helper of worker k runs
    cut,            \* history: a slot was left with workers running
    undefined       \* history: the places where a dead object was used

callv   == <<caller, sockets>>
loopv   == <<total_sets, n_pairs, t, i, sets>>
workerv == <<wpc, created, running>>
vars    == <<callv, pc, ret, live, loopv, hctrl, workerv, cut, undefined>>

MaxSets == CHOOSE n \in Built : \A m \in Built : m <= n
Sets    == 1..MaxSets
Pairs   == 0..(MaxSets - 1)
Stale   == -1

\* What a call may answer: it fails only where MayFail lets it.
Outcomes(call) == {TRUE} \cup {FALSE : c \in {call} \cap MayFail}

\* The set of x alone if b holds, and no element otherwise.
Only(x, b) == IF b THEN {x} ELSE {}

\* main_vcpu >= 0 && helper_vcpu >= 0, and prebuilt == NULL: the plain
\* wrapper passes neither, the pinned one the pair, the vtop one the pair of
\* the socket and the sets it built.
pinned      == caller # "plain"
own_complex == caller # "vtop"

-----------------------------------------------------------------------------
(* The shares of the pairs, vset_ops.c:1186-1196 *)

\* The same without the sets that the remainder gave to the pairs before.
first_without_extra(k, total, pairs) == k * (total \div pairs)

cnt(k, total, pairs) ==
    total \div pairs + (IF k < total % pairs THEN 1 ELSE 0)

\* next when the loop reaches pair k: the counts of the pairs before it.
first(k, total, pairs) ==
    k * (total \div pairs) + (IF k < total % pairs THEN k ELSE total % pairs)

Share(k, total, pairs) ==
    LET next == first(k, total, pairs)
    IN  (next + 1)..(next + cnt(k, total, pairs))

\* n_pairs of the unpinned call: half the threads asked for, at least one
\* pair and at most one per set.
Clamp(n_cores, num_threads, total) ==
    LET req_threads == IF num_threads # 0 /\ num_threads <= n_cores
                       THEN num_threads ELSE n_cores
        half == req_threads \div 2
        some == IF half = 0 THEN 1 ELSE half
    IN  IF some > total THEN total ELSE some

-----------------------------------------------------------------------------
(* l3_evset_prime, vset_ops.c:532-547 *)

\* traverse_cands_mt hands the traversal to the helper the set names and
\* waits for its answer: there is one when that helper runs.
Primed(S) == \A s \in S : hctrl[s] # Stale /\ running[hctrl[s]]

-----------------------------------------------------------------------------
(* monitor_l3_occupancy_heatmap_impl *)

Goto(place, failure) == pc' = place /\ ret' = (ret \/ failure)

\* The two arrays of the head, and the sets: prebuilt or built here.
begin ==
    /\ pc = "begin"
    /\ \E avg \in Outcomes("calloc"), samples \in Outcomes("calloc"),
          built \in Outcomes("build") :
         /\ live' = live \cup Only("avg", avg) \cup Only("samples", samples)
                         \cup Only("complex", own_complex /\ built)
         /\ pc' = IF own_complex /\ ~built THEN "returned" ELSE "collect"
    /\ UNCHANGED <<callv, ret, loopv, hctrl, workerv, cut, undefined>>

\* all_evsets and the sets in it, n_ways, eviction_counts.
collect ==
    /\ pc = "collect"
    /\ \E all_evsets \in Outcomes("calloc"), counts \in Outcomes("calloc"),
          n \in Built :
         /\ total_sets' = IF all_evsets THEN n ELSE 0
         /\ live' = live \cup Only("all_evsets", all_evsets)
                         \cup Only("eviction_counts",
                                    counts /\ total_sets' > 0)
         /\ IF total_sets' > 0 /\ counts
            THEN Goto("estimate", FALSE)
            ELSE Goto("cleanup_complex", TRUE)
    /\ UNCHANGED <<callv, n_pairs, t, i, sets, hctrl, workerv, cut, undefined>>

\* The priming times of one set and of all: l3_evset_prime in the thread of
\* the caller, before any helper was started.  Through a stale pointer the
\* stores of traverse_cands_mt go into memory that was freed, and the wait
\* for the answer ends if that memory happens to read as true.
estimate ==
    /\ pc = "estimate"
    /\ pc' \in {"slots"} \cup Only("hung", ~Primed(1..total_sets))
    /\ undefined' = undefined \cup Only("estimate", ~Primed(1..total_sets))
    /\ UNCHANGED <<callv, ret, live, loopv, hctrl, workerv, cut>>

\* The counts of every slot, the test of avg_evicted_per_slot, the cgroup.
slots ==
    /\ pc = "slots"
    /\ \E counts \in Outcomes("calloc"), cgroup \in Outcomes("cgroup") :
         IF counts /\ "avg" \in live /\ cgroup
         THEN Goto("setup", FALSE)
         ELSE Goto("cleanup_arrays", TRUE)
    /\ UNCHANGED <<callv, live, loopv, hctrl, workerv, cut, undefined>>

\* threads and wargs, and the share of every pair.
setup ==
    /\ pc = "setup"
    /\ \E wargs \in Outcomes("calloc"),
          n_cores \in Cores, num_threads \in NumThreads :
         LET n == IF pinned THEN 1
                  ELSE Clamp(n_cores, num_threads, total_sets)
         IN  /\ n_pairs' = n
             /\ live' = live \cup Only("wargs", wargs)
             /\ sets' = [k \in Pairs |->
                            IF wargs /\ k < n THEN Share(k, total_sets, n)
                            ELSE sets[k]]
             /\ Goto(IF wargs THEN "create" ELSE "cleanup_arrays", ~wargs)
    /\ t' = 0 /\ i' = 0
    /\ UNCHANGED <<callv, total_sets, hctrl, workerv, cut, undefined>>

\* The first loop of a slot: the counts of pair i and its thread, whose
\* creation is not tested.  Without the counts the slot is left at once,
\* with n_pairs = i and nobody joined.
create ==
    /\ pc = "create" /\ i < n_pairs
    /\ \E counts \in Outcomes("calloc"), thread \in Outcomes("create") :
         IF counts
         THEN /\ created' = [created EXCEPT ![i] = thread]
              /\ wpc' = [wpc EXCEPT ![i] = IF thread THEN "start" ELSE @]
              /\ i' = IF i + 1 < n_pairs THEN i + 1 ELSE 0
              /\ Goto(IF i + 1 < n_pairs THEN "create" ELSE "join", FALSE)
              /\ UNCHANGED <<n_pairs, cut>>
         ELSE /\ n_pairs' = i
              /\ cut' = (cut \/ i > 0)
              /\ Goto("cleanup_workers", TRUE)
              /\ UNCHANGED <<created, wpc, i>>
    /\ UNCHANGED <<callv, live, total_sets, t, sets, hctrl, running,
                   undefined>>

\* The same without the wait.
Joined_at_once(k) == TRUE

\* pthread_join returns when the thread has ended.
Joined(k) == wpc[k] = "done"

\* The second loop: the join of pair i, its counts added and freed, and
\* after the last pair the average of the slot and the next slot.  A join
\* of a thread that was never created has no defined outcome; it is taken
\* to return.
join ==
    /\ pc = "join"
    /\ created[i] => Joined(i)
    /\ created' = [created EXCEPT ![i] = FALSE]
    /\ LET last == i + 1 = n_pairs
       IN  /\ undefined' = undefined
                \cup Only("join", ~created[i])
                \cup Only("samples", last /\ "samples" \notin live)
           /\ i' = IF last THEN 0 ELSE i + 1
           /\ t' = IF last THEN t + 1 ELSE t
           /\ pc' = CASE ~last -> "join"
                      [] last /\ t + 1 < n_time_slots -> "create"
                      [] OTHER -> "cleanup_workers"
    /\ UNCHANGED <<callv, ret, live, total_sets, n_pairs, sets, hctrl, wpc,
                   running, cut>>

\* A worker that waits for a helper that never answers is never joined.
join_hangs ==
    /\ pc = "join" /\ created[i] /\ wpc[i] = "hung"
    /\ pc' = "hung"
    /\ UNCHANGED <<callv, ret, live, loopv, hctrl, workerv, cut, undefined>>

cleanup_workers ==
    /\ pc = "cleanup_workers"
    /\ live' = live \ {"wargs"}
    /\ pc' = IF ret THEN "cleanup_arrays" ELSE "convert"
    /\ UNCHANGED <<callv, ret, loopv, hctrl, workerv, cut, undefined>>

\* The percentages, written by write_heatmap_data.
convert ==
    /\ pc = "convert"
    /\ \E data \in Outcomes("calloc") : Goto("cleanup_arrays", ~data)
    /\ UNCHANGED <<callv, live, loopv, hctrl, workerv, cut, undefined>>

cleanup_arrays ==
    /\ pc = "cleanup_arrays"
    /\ live' = live \ {"eviction_counts", "avg", "samples"}
    /\ pc' = "cleanup_complex"
    /\ UNCHANGED <<callv, ret, loopv, hctrl, workerv, cut, undefined>>

\* The sets are freed by the call that built them; the return value.
cleanup_complex ==
    /\ pc = "cleanup_complex"
    /\ live' = live \ ({"all_evsets"} \cup Only("complex", own_complex))
    /\ pc' = "returned"
    /\ UNCHANGED <<callv, ret, loopv, hctrl, workerv, cut, undefined>>

monitor_l3_occupancy_heatmap_impl ==
    \/ begin \/ collect \/ estimate \/ slots \/ setup
    \/ create \/ join \/ join_hangs
    \/ cleanup_workers \/ convert \/ cleanup_arrays \/ cleanup_complex

\* The loop of monitor_l3_occupancy_heatmap_vtop: the call for the next
\* socket, and after the last the sets are freed.
monitor_l3_occupancy_heatmap_vtop ==
    /\ pc = "returned" /\ caller = "vtop"
    /\ sockets' = sockets - 1
    /\ IF sockets > 1
       THEN pc' = "begin" /\ ret' = FALSE /\ UNCHANGED live
       ELSE pc' = "done" /\ live' = live \ {"complex"} /\ UNCHANGED ret
    /\ UNCHANGED <<caller, loopv, hctrl, workerv, cut, undefined>>

-----------------------------------------------------------------------------
(* heatmap_worker, vset_ops.c:265-326 *)

\* What every statement of a worker reads: its arguments, its slice of
\* all_evsets, and the sets.
Needs == {"wargs", "all_evsets", "complex"}

\* A step of worker k, from one place to the next.
Step(k, from, to) ==
    /\ wpc[k] = from
    /\ wpc' = [wpc EXCEPT ![k] = to]
    /\ undefined' = undefined \cup Only("worker", ~(Needs \subseteq live))
    /\ UNCHANGED <<callv, pc, ret, live, loopv, created, cut>>

\* set_cpu_affinity and start_helper_thread_pinned, whose result is dropped.
worker_start(k) ==
    /\ \E helper \in Outcomes("helper") :
         running' = [running EXCEPT ![k] = helper]
    /\ Step(k, "start", "attach")
    /\ UNCHANGED hctrl

\* The same for a loop that ends one set early.
Attached_but_last(k) == {s \in sets[k] : s + 1 \in sets[k]}

\* The sets the loop over w->sets attaches: every one of them.
Attached(k) == sets[k]

\* Every set of the share is given the helper of this worker.
worker_attach(k) ==
    /\ hctrl' = [s \in Sets |-> IF s \in Attached(k) THEN k ELSE hctrl[s]]
    /\ Step(k, "attach", "prime")
    /\ UNCHANGED running

\* flush and l3_evset_prime of every set, then the wait of the slot.
worker_prime(k) ==
    /\ Step(k, "prime", IF Primed(sets[k]) THEN "probe" ELSE "hung")
    /\ UNCHANGED <<hctrl, running>>

\* The timed accesses, counted into w->counts.
worker_probe(k) ==
    /\ Step(k, "probe", "stop")
    /\ UNCHANGED <<hctrl, running>>

\* stop_helper_thread and the return: the control block was a local of the
\* worker, so what still names it is stale from here on.
worker_stop(k) ==
    /\ running' = [running EXCEPT ![k] = FALSE]
    /\ hctrl' = [s \in Sets |-> IF hctrl[s] = k THEN Stale ELSE hctrl[s]]
    /\ Step(k, "stop", "done")

heatmap_worker(k) ==
    \/ worker_start(k) \/ worker_attach(k) \/ worker_prime(k)
    \/ worker_probe(k) \/ worker_stop(k)

\* The caller has its answer, or waits for ever; no worker is left.
finished ==
    /\ pc \in {"done", "hung"} \/ (pc = "returned" /\ caller # "vtop")
    /\ \A k \in Pairs : wpc[k] \in {"idle", "done", "hung"}
    /\ UNCHANGED vars

-----------------------------------------------------------------------------
Init ==
    /\ caller \in Callers
    /\ sockets \in {n \in 1..MaxSockets : caller # "vtop" => n = 1}
    /\ pc = "begin" /\ ret = FALSE
    /\ live = Only("complex", ~own_complex)
    /\ total_sets = 0 /\ n_pairs = 0 /\ t = 0 /\ i = 0
    /\ sets = [k \in Pairs |-> {}]
    /\ hctrl = [s \in Sets |-> Stale]
    /\ wpc = [k \in Pairs |-> "idle"]
    /\ created = [k \in Pairs |-> FALSE]
    /\ running = [k \in Pairs |-> FALSE]
    /\ cut = FALSE
    /\ undefined = {}

Next ==
    \/ monitor_l3_occupancy_heatmap_impl
    \/ monitor_l3_occupancy_heatmap_vtop
    \/ \E k \in Pairs : heatmap_worker(k)
    \/ finished

Spec == Init /\ [][Next]_vars

-----------------------------------------------------------------------------
TypeOK ==
    /\ caller \in Callers /\ sockets \in 0..MaxSockets
    /\ pc \in {"begin", "collect", "estimate", "slots", "setup", "create",
               "join", "cleanup_workers", "convert", "cleanup_arrays",
               "cleanup_complex", "returned", "done", "hung"}
    /\ ret \in BOOLEAN /\ cut \in BOOLEAN
    /\ live \subseteq {"complex", "all_evsets", "eviction_counts", "avg",
                       "samples", "wargs"}
    /\ total_sets \in 0..MaxSets /\ n_pairs \in 0..MaxSets
    /\ t \in 0..n_time_slots /\ i \in 0..MaxSets
    /\ sets \in [Pairs -> SUBSET Sets]
    /\ hctrl \in [Sets -> Pairs \cup {Stale}]
    /\ wpc \in [Pairs -> {"idle", "start", "attach", "prime", "probe", "stop",
                          "done", "hung"}]
    /\ created \in [Pairs -> BOOLEAN] /\ running \in [Pairs -> BOOLEAN]
    /\ undefined \subseteq {"estimate", "join", "samples", "worker"}

\* A helper thread belongs to one pair: while a worker primes and probes,
\* every set of its share names the control block of that worker, whatever
\* the workers of the other pairs and of the slot before have attached and
\* left behind (vset_ops.c:273-281, 1186-1196).
WorkersPrimeThroughOwnHelper ==
    \A k \in Pairs :
        wpc[k] \in {"prime", "probe", "stop"} =>
            \A s \in sets[k] : hctrl[s] = k

\* A worker waits for ever in l3_evset_prime only when its own helper did
\* not start, which heatmap_worker does not test (vset_ops.c:271): no
\* worker is left waiting for the helper of another pair, or for one that
\* has stopped (cache_ops.c:22-37, helper_thread.h:31-34).
WorkersHangOnlyWithoutHelper ==
    \A k \in Pairs : wpc[k] = "hung" => ~running[k]

\* What a worker reads outlives it: wargs, all_evsets and the sets are freed
\* only when every worker of the slot was joined (vset_ops.c:1224-1240,
\* 1302-1324).  The slot that is left because the counts of a later pair
\* could not be allocated (vset_ops.c:1216-1221) is the exception: its
\* workers run on while their arguments and the sets are freed.
ArgumentsOutliveWorkers ==
    \/ cut
    \/ \A k \in Pairs :
          wpc[k] \in {"start", "attach", "prime", "probe", "stop"} =>
              Needs \subseteq live
=============================================================================
