------------------------------ MODULE Poisoner -------------------------------
(***************************************************************************)
(* vpoisoner (src/src/vpoisoner.c): the front-end that keeps a part of the *)
(* last-level cache evicted.  With --use-gpa it filters the pages of a     *)
(* region by their guest colour and hands them to thrash_worker threads,   *)
(* or with --dist-only writes the host colours of those pages to a file.   *)
(* Otherwise it has the granular parallel builder build the eviction sets, *)
(* with --use-hpa empties the sets that are not of the host colour of the  *)
(* first, and start_poisoning groups the sets by colour and gives every    *)
(* pair of vCPUs a range of colours and a poisoner_worker.  Workers and    *)
(* thrashers never return: the program runs until it is interrupted.       *)
(*                                                                         *)
(* The table of the builder is kept as in L2ColorOcc: a cell holds an      *)
(* array or not, a set of it has lines or not.  vpoisoner reads the cells  *)
(* of the offsets and colours of g_config, which it does not clamp.        *)
(***************************************************************************)
EXTENDS Integers, FiniteSets

CONSTANTS
    n_unc_l2_sets,  \* g_n_uncertain_l2_sets: the columns of the table
    NUM_OFFSETS,    \* the rows of the table
    NumL2Sets,      \* the values of -u explored
    NumOffsets,     \* the values of -o explored
    Cores,          \* the values of n_system_cores() explored
    NumThreads,     \* the values of -c explored
    Filtered,       \* the values of filtered_cnt explored
    Unbuilt,        \* the units whose array may come without a set
    Absent,         \* the units for which build_evsets_at may return NULL
    MayFail         \* the calls that may fail

Units == (0..(NUM_OFFSETS - 1)) \X (0..(n_unc_l2_sets - 1))

ASSUME /\ n_unc_l2_sets \in Nat \ {0} /\ NUM_OFFSETS \in Nat \ {0}
       /\ NumL2Sets \subseteq Nat /\ NumOffsets \subseteq Nat
       /\ Cores \subseteq Nat \ {0, 1} /\ NumThreads \subseteq Nat
       /\ Filtered \subseteq Nat
       /\ Unbuilt \subseteq Units /\ Absent \subseteq Units
       /\ MayFail \subseteq {"debug_mod", "mmap", "calloc", "build",
                             "create", "helper"}

VARIABLES
    pc,             \* where main is
    opt,            \* the options: use_gpa, use_hpa, dist_only, scaled, debug
    num_l2_sets, num_offsets, num_threads,      \* g_config
    live,           \* what is mapped or allocated and not freed
    filtered_cnt,
    complex,        \* the table: "null", "none" or "set" for every unit
    emptied,        \* the sets whose size the filter of --use-hpa set to 0
    color_sets,     \* color_sets[c] with color_counts[c]: the sets grouped
    n_pairs,        \* n_pairs of start_poisoning, n_threads of --use-gpa
    i,              \* the thread of the loop that creates them
    next_start,     \* next_start, and next of --use-gpa
    wargs,          \* wargs[k] and targs[k]: first and count of thread k
    hctrl,          \* hctrl[u]: what set u names
    wpc,            \* where poisoner_worker or thrash_worker k is
    running         \* running[k]: the helper of worker k runs

confv   == <<opt, num_l2_sets, num_offsets, num_threads>>
tablev  == <<complex, emptied, color_sets>>
loopv   == <<n_pairs, i, next_start, wargs>>
workerv == <<hctrl, wpc, running>>
vars    == <<pc, confv, live, filtered_cnt, tablev, loopv, workerv>>

MaxFiltered == CHOOSE n \in Filtered : \A m \in Filtered : m <= n
MaxThreads  == CHOOSE n \in NumThreads \cup {1} :
                   \A m \in NumThreads \cup {1} : m <= n
MaxColors   == CHOOSE n \in NumL2Sets \cup {n_unc_l2_sets} :
                   \A m \in NumL2Sets \cup {n_unc_l2_sets} : m <= n
Threads     == 0..(MaxThreads + MaxColors)
Stale       == -1

\* What a call may answer: it fails only where MayFail lets it.
Outcomes(call) == {TRUE} \cup {FALSE : c \in {call} \cap MayFail}

\* The set of x alone if b holds, and no element otherwise.
Only(x, b) == IF b THEN {x} ELSE {}

Least(a, b) == IF a < b THEN a ELSE b

-----------------------------------------------------------------------------
(* main, vpoisoner.c:213-477 *)

\* The combinations of options main refuses.
Refused ==
    \/ opt.use_gpa /\ opt.use_hpa
    \/ opt.dist_only /\ ~opt.use_gpa
    \/ opt.scaled /\ ~opt.use_gpa

\* The checks after getopt_long, and the hypercall module for --use-hpa
\* when -d has not started it.
options ==
    /\ pc = "options"
    /\ \E started \in Outcomes("debug_mod") :
         pc' = CASE Refused -> "failure"
                 [] opt.use_hpa /\ ~opt.debug /\ ~started -> "failure"
                 [] opt.use_gpa -> "region"
                 [] OTHER -> "build"
    /\ UNCHANGED <<confv, live, filtered_cnt, tablev, loopv, workerv>>

\* --use-gpa: the hypercall module for --dist-only, the region, and the
\* pages of guest colour 0 in filtered.  threads and targs are written
\* unchecked.
region ==
    /\ pc = "region"
    /\ \E started \in Outcomes("debug_mod"), buf \in Outcomes("mmap"),
          filtered \in Outcomes("calloc"), targs \in Outcomes("calloc"),
          n \in Filtered :
         LET module == ~opt.dist_only \/ opt.debug \/ started IN
         /\ live' = live \cup Only("buf", module /\ buf /\ filtered)
                         \cup Only("filtered", module /\ buf /\ filtered)
         /\ filtered_cnt' = IF module /\ buf /\ filtered THEN n ELSE 0
         /\ pc' = CASE ~(module /\ buf /\ filtered) -> "failure"
                    [] opt.dist_only -> "distribution"
                    [] targs -> "thrash"
                    [] OTHER -> "aborted"
    /\ n_pairs' = IF num_threads # 0 THEN num_threads ELSE 1
    /\ i' = 0 /\ next_start' = 0
    /\ UNCHANGED <<confv, tablev, wargs, workerv>>

\* --dist-only: the host colours of the pages, printed and written to the
\* file of write_dist_file.
distribution ==
    /\ pc = "distribution"
    /\ \E dist \in Outcomes("calloc") :
         pc' = IF dist THEN "success" ELSE "failure"
    /\ live' = live \ {"buf", "filtered"}
    /\ UNCHANGED <<confv, filtered_cnt, tablev, loopv, workerv>>

\* The same without the pages that the remainder gives to the first
\* threads.
share_without_extra(k, total) == total \div n_pairs

\* cnt of thread k, count of pair k: base, and one of the extra for the
\* first threads.
share(k, total) ==
    total \div n_pairs + (IF k < total % n_pairs THEN 1 ELSE 0)

\* One thread of the loop that creates them, with its share; the result of
\* pthread_create is dropped.
Create(total, start, after) ==
    /\ wargs' = [wargs EXCEPT ![i] = [first |-> next_start,
                                      count |-> share(i, total)]]
    /\ next_start' = next_start + share(i, total)
    /\ \E thread \in Outcomes("create") :
         wpc' = [wpc EXCEPT ![i] = IF thread THEN start ELSE @]
    /\ i' = IF i + 1 < n_pairs THEN i + 1 ELSE 0
    /\ pc' = IF i + 1 < n_pairs THEN pc ELSE after
    /\ UNCHANGED <<confv, live, filtered_cnt, tablev, n_pairs, hctrl, running>>

\* The threads of --use-gpa, each with its part of filtered.
thrash == pc = "thrash" /\ Create(filtered_cnt, "memset", "join")

\* pthread_join of the first thread: it never returns, and on a thread
\* that was not created it reads the thread of a zeroed pthread_t, which
\* ends the program in the handler of SIGSEGV.
join ==
    /\ pc = "join" /\ wpc[0] = "idle"
    /\ pc' = "aborted"
    /\ UNCHANGED <<confv, live, filtered_cnt, tablev, loopv, workerv>>

\* What build_l3_evsets_para_gran leaves in the table when it returns one:
\* see L2ColorOcc.  It returns none when there is nothing to build.
Tables(n_offsets, n_l2_sets) ==
    LET asked == (0..(Least(n_offsets, NUM_OFFSETS) - 1))
                     \X (0..(Least(n_l2_sets, n_unc_l2_sets) - 1))
    IN  {[u \in Units |-> CASE u \notin asked \/ u \in absent -> "null"
                            [] u \in (asked \cap unbuilt) \ absent -> "none"
                            [] OTHER -> "set"] :
            absent \in SUBSET Absent, unbuilt \in SUBSET Unbuilt}

\* At least one offset, and the build.
build ==
    /\ pc = "build"
    /\ num_offsets' = IF num_offsets = 0 THEN 1 ELSE num_offsets
    /\ \E built \in Outcomes("build") :
         IF built /\ num_l2_sets > 0
         THEN /\ complex' \in Tables(num_offsets', num_l2_sets)
              /\ live' = live \cup {"complex"}
              /\ pc' = IF opt.use_hpa THEN "host_color" ELSE "listing"
         ELSE pc' = "failure" /\ UNCHANGED <<complex, live>>
    /\ UNCHANGED <<opt, num_l2_sets, num_threads, filtered_cnt, emptied,
                   color_sets, loopv, workerv>>

\* The cells the loops over g_config read, in the order they read them.
Read == (0..(num_offsets - 1)) \X (0..(num_l2_sets - 1))

Before(u, v) == u[1] < v[1] \/ (u[1] = v[1] /\ u[2] < v[2])

\* complex[o][c][e] finds an array: the cell is one of the table and the
\* builder has stored one in it.
Readable(u) == u \in Units /\ complex[u] # "null"

\* The sets that have lines.
Sized == {u \in Units : complex[u] = "set"} \ emptied

\* --use-hpa: the first set with lines, and every set whose first line is
\* not of its host colour is emptied.  The search stops at the first, so
\* it reads the cells before it only; the filter reads them all.
host_color ==
    /\ pc = "host_color"
    /\ LET found == {u \in Read : /\ \A v \in Read : Before(v, u) => Readable(v)
                                  /\ u \in Sized}
           first == {u \in found : \A v \in found : ~Before(v, u)}
       IN  CASE first = {} /\ \A u \in Read : Readable(u) ->
                    pc' = "listing" /\ UNCHANGED emptied
             [] first # {} /\ \A u \in Read : Readable(u) ->
                    /\ emptied' \in SUBSET ((Sized \cap Read) \ first)
                    /\ pc' = "listing"
             [] OTHER -> pc' = "aborted" /\ UNCHANGED emptied
    /\ UNCHANGED <<confv, live, filtered_cnt, complex, color_sets, loopv,
                   workerv>>

\* With -d, the host colour of the first set of every colour at offset 0.
listing ==
    /\ pc = "listing"
    /\ pc' = IF opt.debug /\ \E c \in 0..(num_l2_sets - 1) : ~Readable(<<0, c>>)
             THEN "aborted" ELSE "group"
    /\ UNCHANGED <<confv, live, filtered_cnt, tablev, loopv, workerv>>

\* start_poisoning: color_sets and color_counts, and the number of pairs:
\* half the threads asked for, at least one pair and at most one per
\* colour.  None of its arrays is checked before it is written.
group ==
    /\ pc = "group"
    /\ IF \E arrays \in Outcomes("calloc") :
            arrays /\ \A u \in Read : Readable(u)
       THEN /\ color_sets' = [c \in DOMAIN color_sets |->
                                {u \in Read \cap Sized : u[2] = c}]
            /\ \E n_cores \in Cores :
                 LET req_threads == IF num_threads # 0 /\ num_threads <= n_cores
                                    THEN num_threads ELSE n_cores
                     half == req_threads \div 2
                 IN  n_pairs' = Least(IF half = 0 THEN 1 ELSE half, num_l2_sets)
            /\ live' = live \cup {"color_sets", "wargs"}
            /\ pc' = "poison"
       ELSE pc' = "aborted" /\ UNCHANGED <<color_sets, n_pairs, live>>
    /\ i' = 0 /\ next_start' = 0
    /\ UNCHANGED <<confv, filtered_cnt, complex, emptied, wargs, workerv>>

\* The workers, each with its range of colours.
poison == pc = "poison" /\ Create(num_l2_sets, "start", "join")

main ==
    \/ options \/ region \/ distribution \/ thrash \/ join
    \/ build \/ host_color \/ listing \/ group \/ poison

-----------------------------------------------------------------------------
(* thrash_worker, vpoisoner.c:78-90, and poisoner_worker, vpoisoner.c:92-149 *)

\* A step of thread k, from one place to the next.
Step(k, from, to) ==
    /\ wpc[k] = from
    /\ wpc' = [wpc EXCEPT ![k] = to]
    /\ UNCHANGED <<pc, confv, live, filtered_cnt, tablev, loopv>>

\* The pages of thread k are written, again and again.
thrash_worker(k) ==
    /\ Step(k, "memset", "memset")
    /\ UNCHANGED <<hctrl, running>>

\* The sets the loops of worker k access: those grouped under a colour of
\* its range.
Accessed(k) ==
    UNION {color_sets[c] : c \in {d \in DOMAIN color_sets :
                                     /\ wargs[k].first <= d
                                     /\ d < wargs[k].first + wargs[k].count}}

\* set_cpu_affinity and start_helper_thread_pinned, whose result is dropped.
worker_start(k) ==
    /\ \E helper \in Outcomes("helper") :
         running' = [running EXCEPT ![k] = helper]
    /\ Step(k, "start", "attach")
    /\ UNCHANGED hctrl

\* attach_helper_to_evsets: every set of the range names the helper of
\* this worker.
worker_attach(k) ==
    /\ hctrl' = [u \in Units |-> IF u \in Accessed(k) THEN k ELSE hctrl[u]]
    /\ Step(k, "attach", "thrash")
    /\ UNCHANGED running

\* One round of the loop: the sets are accessed, the rest of the wait goes
\* by, and they are accessed again.  access_array does not go through the
\* helper, so the round ends whether the helper runs or not.
worker_loop(k) ==
    /\ Step(k, "thrash", "thrash")
    /\ UNCHANGED <<hctrl, running>>

poisoner_worker(k) == worker_start(k) \/ worker_attach(k) \/ worker_loop(k)

\* main has returned or has ended in the signal handler.
finished ==
    /\ pc \in {"success", "failure", "aborted"}
    /\ UNCHANGED vars

-----------------------------------------------------------------------------
\* The options as getopt_long leaves them (vpoisoner.c:213-291); -d has
\* started the hypercall module, or main has returned.
Init ==
    /\ pc = "options"
    /\ opt \in [use_gpa : BOOLEAN, use_hpa : BOOLEAN, dist_only : BOOLEAN,
                scaled : BOOLEAN, debug : BOOLEAN]
    /\ num_l2_sets \in NumL2Sets /\ num_offsets \in NumOffsets
    /\ num_threads \in NumThreads
    /\ live = {} /\ filtered_cnt = 0
    /\ complex = [u \in Units |-> "null"]
    /\ emptied = {}
    /\ color_sets = [c \in 0..(MaxColors - 1) |-> {}]
    /\ n_pairs = 0 /\ i = 0 /\ next_start = 0
    /\ wargs = [k \in Threads |-> [first |-> 0, count |-> 0]]
    /\ hctrl = [u \in Units |-> Stale]
    /\ wpc = [k \in Threads |-> "idle"]
    /\ running = [k \in Threads |-> FALSE]

Next ==
    \/ main
    \/ \E k \in Threads : thrash_worker(k) \/ poisoner_worker(k)
    \/ finished

Spec == Init /\ [][Next]_vars

-----------------------------------------------------------------------------
TypeOK ==
    /\ pc \in {"options", "region", "distribution", "thrash", "join",
               "build", "host_color", "listing", "group", "poison",
               "success", "failure", "aborted"}
    /\ opt \in [use_gpa : BOOLEAN, use_hpa : BOOLEAN, dist_only : BOOLEAN,
                scaled : BOOLEAN, debug : BOOLEAN]
    /\ num_l2_sets \in NumL2Sets /\ num_offsets \in NumOffsets \cup {1}
    /\ num_threads \in NumThreads
    /\ live \subseteq {"buf", "filtered", "complex", "color_sets", "wargs"}
    /\ filtered_cnt \in Filtered \cup {0}
    /\ complex \in [Units -> {"null", "none", "set"}]
    /\ emptied \subseteq Units
    /\ color_sets \in [0..(MaxColors - 1) -> SUBSET Units]
    /\ n_pairs \in Threads /\ i \in Threads
    /\ next_start \in 0..(MaxFiltered + MaxColors)
    /\ wargs \in [Threads -> [first : 0..(MaxFiltered + MaxColors),
                              count : 0..(MaxFiltered + MaxColors)]]
    /\ hctrl \in [Units -> Threads \cup {Stale}]
    /\ wpc \in [Threads -> {"idle", "memset", "start", "attach", "thrash"}]
    /\ running \in [Threads -> BOOLEAN]

\* What a thread was given, as the set of the pages or of the colours.
Given(k) == wargs[k].first..(wargs[k].first + wargs[k].count - 1)

\* Once main waits for its threads, every page of filtered, and every set
\* with lines that the filter of --use-hpa has left, belongs to exactly one
\* of the threads it tried to create: the shares that the loops of
\* 'next += cnt' hand out cover what there is and do not overlap, also when
\* there are more threads than pages (vpoisoner.c:190-207, 380-394).
EverythingThrashedOnce ==
    pc = "join" =>
        LET total == IF opt.use_gpa THEN filtered_cnt ELSE num_l2_sets
        IN  /\ \A x \in 0..(total - 1) :
                  Cardinality({k \in 0..(n_pairs - 1) : x \in Given(k)}) = 1
            /\ ~opt.use_gpa =>
                  \A u \in Sized \cap Read :
                      Cardinality({k \in 0..(n_pairs - 1) :
                                      u \in Accessed(k)}) = 1
=============================================================================
