# EvCache: TLA+ models of the eviction-set engine and its monitors

EvCache builds last-level-cache eviction sets inside a virtual machine and uses
them to watch cache occupancy. This directory holds TLA+ models of its
concurrent and algorithmic core, the TLC configurations that check them, and
`PROJECT.json`, which maps every definition to the lines of the source it
models and lists the runs, the mutants, the findings and the hazards.

Run a check with `tlc -workers 2 -config <cfg> <module>`; the module of every
configuration is given in the table of runs below.

## 1. The system

| | Part | Source | What it does | State it keeps |
|---|---|---|---|---|
| A | Cache geometry probe | `src/cache_info.c` | reads CPUID/sysfs once: ways, sets, slices, `unknown_sib` | constants after start |
| B | Latency calibration | `src/lats.c`, `include/lats.h` | times L1/L2/L3/DRAM accesses, repairs the results, derives the thresholds | `g_lats` |
| C | Helper-thread engine | `include/helper_thread.h`, `src/helper_thread.c`, `src/cache_ops.c` | a second thread that executes one command at a time for its controller | `helper_thread_ctrl`: `waiting`, `action`, `payload`, `lat`, `running`, `pid`, `core_id` |
| D | Candidate arena | `src/mem.c`, `src/evset.c:87-243, 318-453, 2139-2165`, `src/vcolor.c:44-281, 620-652` | huge buffer, candidate arrays per page offset, reference counts, the threads that fill them | `EvBuffer` (`buf`, `ref_cnt`), `EvCands`, the table of views |
| E | L2 filter and builder | `src/evset.c:245-280, 927-1506` | builds one L2 set per colour, filters the candidates by it | `l2evsets`, `l3_cands` |
| F | LLC builder | `src/evset.c:455-600, 811-925, 1508-1916, 1987-2136` | binary search for congruent lines, prune, verify, retry, next target; the build of one set with a helper of its own | the pool (`addrs`, `count`), the set under construction, the table of built sets, `def_l3_build_conf.hctrl` |
| G | Parallel orchestration | `src/evset_para.c`, `src/utils.c:264-323` | main/helper pairs, work distribution, barrier, joins, re-pinning | `n_pair_init_done`, `next_offset_idx`, `pairs[]`, the result table |
| H | Occupancy monitoring | `src/vset_ops.c`, `src/vset.c`, `src/vcolor.c` | prime-probe scans, EWMA, hysteresis, adaptive wait | EWMA arrays, `hottest`/`coldest`, `change_cnt`, `wait_us` |
| I | vCPU topology prober and thread placement | `vm_tools/vtop.c`, `src/utils.c:325-435`, `src/evset_para.c:120-201, 1103-1258`, `src/vset_ops.c:43-59` | measures the latency between vCPUs with two ping-pong threads, groups the vCPUs into sockets and cores, hands out main/helper pairs | the class matrix `top_stack`, the group ids, `cpu_topology_t`, the pairs in use |
| X | Front-ends, kernel modules | `src/vevict.c`, `src/vpoisoner.c`, `kern_mods/`, the rest of `vm_tools/` | CLI, `/proc` interface, hypercalls; `vpoisoner` thrashes the cache with threads of its own | `vpoisoner`: the table, `color_sets`, the arguments of its threads; the rest outside the core |

How they interact. A builder of G creates one worker thread per pair; every
worker pins itself, starts a helper (C) and calls `build_evsets_at` (F) for the
cells it owns, storing the result in the shared table. F asks one question
again and again, `test_eviction(target, lines)`, which is a timing measurement
that uses the helper of the pair (C) and the thresholds of B. In topology-aware
mode the thread that created the workers keeps running beside them and re-pins
both threads of a pair from outside. H consumes the table G returns. Before any L3 build, E builds one L2 set per L2 colour
and D hands out the candidate lines: one mapped buffer, and one counted view
of it per page offset and colour, filled by threads of its own.
`build_single_l3_evset` (F) does all of this for a single set and leaves its
helper running for `monitor_l3_activity_freq` (H), which primes and probes
that set. Every front-end calls `init_cache_lats_thresh` (B) first and
none tests what it returns; every builder that wants its two threads on one
socket asks I, and the topology-aware builder of G asks again while its
workers run.

What is hard here, and what each part must guarantee:

* **B** measures on a machine it shares: a sample can be interrupted or the
  thread moved, a whole measurement can be thrown away, and the results go
  through three integer widths and a double. What it returns must still be
  four ordered latencies with a threshold between each two.
* **C** is a lock-free handshake over three plain words. It must carry out each
  command exactly once with the payload that was published, must not free a
  payload the helper still reads, and neither side may spin for ever.
* **D** counts the users of one mapping with a plain `u32` that several
  threads increment, and `write_colors` sets the count to 0 by hand before it
  frees. The buffer must outlive every view, no thread may outlive its join
  loop, and every colour must get its lines unless a call failed.
* **E** retries with new targets and new memory under an oracle that misses.
  It must return, and what it returns must be one set per colour, no colour
  twice.
* **F** is a search driven by an unreliable oracle over an array that is
  permuted in place, with five interacting indices (`lower`, `upper`, `cnt`,
  `evsz`, `migrated`), a retry loop that replaces the target, and a pool whose
  start and length are moved. It must stay inside the pool, must terminate, and
  what it stores must be a set that really evicts its target, each stored set
  for another cache set.
* **G** is several threads around two atomic counters and an array that is
  freed by its creator. Cells must be built exactly once, the creator must not
  free what a thread still uses, the barrier and the monitor must let go, and
  a re-pin must end with the threads where the record says.
* **H** has hysteresis state machines whose outputs other processes act on:
  the page allocator of the kernel module takes colours in the order vcolor
  writes, and a scheduler places tasks on the socket vset publishes. What is
  published must be a ranking of what was measured, must not flap from scan to
  scan, and the adaptive wait must neither wrap nor stick. The
  activity-frequency monitor takes over a helper and a set from the build:
  both must still be there when it uses them. The heatmap hands the sets of
  the builder to worker threads that each bring a helper of their own and
  write its address into the sets: a worker must command its own helper and
  no other, and what it reads must outlive it. The occupancy by colour and
  `vpoisoner` (X) share the colours out to their pairs by a quotient and a
  remainder: every colour must go to one pair and no other, whatever the
  numbers of colours, cores and threads asked for are.

* **I** infers most of the topology instead of measuring it, on a host that
  may move a vCPU at any time, and its measurement is two threads that stop
  each other through plain shared ints. The sockets it reports must be the
  sockets of the host, the pairs it hands out must share a socket, and a
  measurement must return.

## 2. The modules

| Module | Models | Lines of source mapped |
|---|---|---|
| `HelperService` | what the helper engine promises: a one-place command channel | (abstract) |
| `HelperThread` | `helper_thread.h`, `helper_thread.c`, the command functions of `cache_ops.c`/`evset.c`, store by store | see `PROJECT.json` |
| `EvsetBuild` | `build_evsets_at`, `final_l3_evset`, `build_evset_zhao`, `prune_evcands` | `evset.c` |
| `MCEvsetBuild` | the pools TLC explores | |
| `EvsetPara` | the three parallel builders and their workers, the re-pinning monitor | `evset_para.c`, `utils.c`, `helper_thread.h` |
| `MCEvsetPara` | the vCPU pairs TLC explores | |
| `HotnessScan` | `scan_iteration` and `update_ewma`, which `vcolor.c` and `vset.c` both carry; what a scan can measure | `vcolor.c`, `vset.c`, `vset_ops.c` |
| `VcolorMonitor` | the ranking loop of `vcolor`, and the commands `order` and `hot` of the kernel module it writes to | `vcolor.c`, `vcolor_km.c` |
| `LcasMonitor` | the loop of `monitor_l3_occupancy_lcas`: socket hotness, adaptive wait, hysteresis, the BPF map | `vset_ops.c` |
| `VsetLive` | the live mode of `vset`: the scan and its adaptive wait | `vset.c` |
| `SocketMonitor` | the loop of `monitor_eviction_rate_multi`: socket rates and the adaptive wait with its way back | `vset_ops.c` |
| `Heatmap` | `monitor_l3_occupancy_heatmap_impl` with its three wrappers, `heatmap_worker`, `l3_evset_prime` as the command it gives | `vset_ops.c` |
| `L2ColorOcc` | `monitor_l3_occupancy_l2color` with `l2c_occ_worker` and `attach_helper_to_evsets` | `vset_ops.c`, `helper_thread.c`, `evset_para.c`, `vset.c` |
| `Poisoner` | `vpoisoner`: `main`, `start_poisoning`, `thrash_worker`, `poisoner_worker` | `vpoisoner.c`, `evset_para.c` |
| `MCMonitors` | the four loops, `Heatmap` and `EvsetPara` in one model, one of them running in a behaviour | |
| `L2Builder` | `build_l2_evset` with `build_single_l2_evset`: screening, retries, verification, rounds from fresh memory | `evset.c` |
| `CandArena` | `evbuffer_new`, `evcands_new`, `evcands_shift`, `evcands_free`, `build_evcands_all_para` and its workers; the colouring mode of `vcolor` (`build_color_cands_para`, `write_colors`, its writers) with the commands of the kernel module | `evset.c`, `mem.c`, `vcolor.c`, `vcolor_km.c` |
| `ActivityFreq` | `build_single_l3_evset` and `monitor_l3_activity_freq` with its calibration and its per-socket measurement | `evset.c`, `vset_ops.c`, `utils.c`, `helper_thread.h` |
| `LatCalib` | `init_cache_lats_thresh` with the four measurements, `calc_median`, `hit_thresh_zhao` | `lats.c`, `lats.h` |
| `MCBuilders` | `LatCalib`, `HelperThread`, `L2Builder`, `CandArena`, `ActivityFreq`, `L2ColorOcc` and `Poisoner` in one model, one of them running in a behaviour | |
| `Vtop` | `detect_vcpu_topology` and its parts, `get_vcpu_topo`, the three users of the topology, the topology check of the parallel builder; the host | `vtop.c`, `utils.c`, `evset_para.c`, `vset_ops.c`, `evset.c` |
| `PingPong` | one call of `measure_latency_pair` with `thread_fn` and `common_setup` | `vtop.c` |
| `MCProber` | `Vtop` and `PingPong` in one model, one of them running in a behaviour | |

### HelperThread and HelperService

One controller and one helper. Every store and load of `waiting`, `action`
and `payload` is a step of its own, because the code orders them only with
compiler barriers and the volatile qualifier. The controller's functions
(`start_helper_thread`, `helper_thread_read_single`, `helper_thread_time_single`,
`traverse_cands_mt`, `helper_thread_traverse_cands`, `stop_helper_thread`) are
sequences of the actions `publish_action`, `publish_payload`, `release`,
`overlap`, `wait_helper_thread`, `finish`; the helper's loop is
`worker_announce`, `worker_wake`, `worker_switch`, `worker_exec`. Heap blocks
are members of a small set with an allocated/freed flag. `HelperService` is the
abstract channel (`Up`, `Submit`, `Serve`, `Halt`); `ImplementsService` is the
refinement, with the mapping given in `HelperThread`.

### EvsetBuild

The pool is `mem` (an injective array of line numbers) with the window
`base`, `count` that `cands->addrs`, `cands->count` describe; every line has a
colour (the cache set it maps to, unknown to the code). `test_eviction` is the
only way the code learns about colours. It is modelled by what a correct
measurement answers, `Evicts(t, S)`: at least `W` lines of `S` have the colour
of `t`, plus the one kind of error the thresholds of `test_eviction` allow in
practice: it may answer FAIL where OK is right (a *miss*), at most `MaxMiss`
times in a behaviour. The history variable `misses` counts them, so that
properties can speak about quiet behaviours (`misses = 0`) and about all.

Each loop iteration of the code is one action, named for the function and the
place (`zhao_iterate`, `zhao_search`, `zhao_pick`, `zhao_verify`,
`zhao_migrate`, ...); `prune_evcands` is one action per iteration and is used
from both of its call sites. The wall-clock timeout of `final_l3_evset` is a
nondeterministic choice. Unsigned 64-bit differences that wrap (`cnt - offset`,
`upper - offset`) are kept as negative numbers, and a negative length counts as
an access outside every array.

All callers pass `n_lower_evsets = 0`, so the branch of `build_evsets_at` that
looks for a lower-level set is not modelled.

### EvsetPara

The orchestrator (`setup_para`, `setup_para_gran`, `setup_para_vtop`,
`create_worker`, `cancel_worker`, `cancel_join`, `create_failed`,
`init_barrier`, `join_worker`, `build_returns`) and, for the topology-aware
builder, its monitor loop (`all_offsets_claimed`, `topo_check`, `repin_record`,
`repin_main`, `repin_helper`, `repin_helper_pin`, `repin_ends`). Every worker is
a program counter over `worker_pin`, `worker_start`, `worker_running`,
`worker_announce`, `worker_count`, `worker_claim`, `worker_build` /
`worker_build_gran`, `worker_build_cancelled`, `worker_offset_done`,
`worker_stop`,
`worker_join_helper`, `worker_stopped`, `worker_report`.

Abstractions: a call of `build_evsets_at` is one step that writes its cell
(`result[cell]` collects the pairs that wrote it); a helper is alive or not
(`halive`) and has the `running` flag of its control block; `rec` is the
`main_vcpu`/`helper_vcpu` stored in `pairs[i]` and `aff` the affinity the two
threads really have. The topology itself is not modelled: a check either finds
no harmful change or produces new assignments, any injective choice. The
worker's read of `tp->main_vcpu` and its `set_cpu_affinity` are one step.
`pthread_cancel` takes effect at the cancellation points a worker passes: its
`printf`s, the `fprintf`s inside `build_evsets_at`, and the `pthread_join`
inside `stop_helper_thread`.
`n_pair_init_done` starts with any value, because it is a static and the
granular builder is called repeatedly by the monitoring tools.

### HotnessScan, VcolorMonitor, LcasMonitor, VsetLive, SocketMonitor

The monitors are sequential loops; what makes them hard is arithmetic driving
a state machine, and steps of theirs that fail. A rate is a fraction
`k / Scale`, and what a scan measures is an input: any member of `Rates` for a
colour that is probed, 0 for a colour whose worker pair was cut off by a failed
`pthread_create` (`n_pairs` only falls), and NaN for a colour without eviction
set, because `scan_iteration` divides by `n_ways * color_counts[c]`. NaN is
the integer -1 and is treated as f64 treats it: it propagates through the
smoother, fails every comparison, so `hot_level` gives it level 3 and
`cmp_hot` calls it equal to everything. The smoother
`alpha * old + (1 - alpha) * r` works on the grid and rounds toward the new
measurement, so a rate that persists is reached in the end, as every
threshold below it is crossed in f64. `qsort` is not stable: `Sorted` is the set
of orders with no two neighbours the wrong way round, and the loops choose
among them.

`VcolorMonitor` has one action for the scan and one for each way through the
loop body (`first_order`, `promote`, `reorder`, `keep`); each ranking action
contains the writes to `/proc/vcolor` it performs, and each write can fail
(`MaxLost` bounds how often), which the code does not notice. The kernel
module's handlers are the operators `order_cmd` and `hot_cmd` on its copy
`vcolor_order`, `vcolor_hottest`. `LcasMonitor` has the scan with the adaptive
wait (`scan`, `Shrunk`) and the five ways through the ranking (`rank_first`,
`rank_no_pref`, `rank_switch`, `rank_reorder`, `rank_keep`), each with the
unconditional `update_lcas_map` of line 1875 and the second one where the code
has it. Socket ids are taken to be the positions `0..n_sockets-1`. `VsetLive`
has `first_scan` and `live_round`, a whole round of the loop with the wait
(`Adapted`). `SocketMonitor` has `measure`, a whole round with the wait
(`Moved`), which leaves the loop after the number of rounds asked for, and
`returned`. The history variables `seen`, `saturated`, `hot`, `round` and
`before` record the candidates and the saturation of the last scans, and
`lost` the failed writes; the properties are stated with them.

`MCMonitors` instantiates the four loops, the heatmap and the parallel
builder on variables of its own, and `prog` says which one runs; the others
keep their initial state. The loops belong to different programs and start
from the table the builder has returned, so nothing is lost by not
interleaving them.

### L2Builder

All that is kept of a line is its L2 colour: the candidate array `pool` is
the number of lines left of every colour, and a set that passed the size
check and a verification is `W` lines of one colour (`EvsetBuild` shows what
`build_evset_zhao` returns). The program does not know the order of the
colours in memory, so "the first candidate that is not evicted by a set
already built" is any such candidate. Actions: `round_begin`,
`round_no_memory`, `next_set`, `pick_target` with the screening of line 1204,
`no_target`, `single_no_memory`, `attempt_builds`, `attempt_fails`,
`verify_keeps`, `verify_drops`, `round_succeeds`, `round_retries`,
`round_gives_up`. `test_eviction` answers what is true or, at most `MaxMiss`
times, FAIL where OK is true. `built` is the sets whose lines
`built_evset_addrs` holds, which is what the screening tests against
(`Conflicts`): `verify_keeps` always stores the set in the table, takes its
lines out of `pool` only when the `_calloc` of `new_all_addrs` (line 1287)
succeeds, and adds it to `built` only when that of `new_built` (line 1312)
succeeds too. Two sets of one colour come about in two ways:
`screen_missed` records that a target passed the screening by a false FAIL,
and a set that is not in `built` lets a later target of its colour through
without any measurement error.

### CandArena

The buffer is `evb` (`mapped`, `ref_cnt`); a view is the fact that it exists
(`cands`). The main thread is `alloc`, `alloc_fails`, `create`, `incomplete`,
`shift`, and for vcolor `color_cands`, `clear`, `clear_fails`,
`create_writer`, `free`, `round_ends`, `enable`. A worker of
`cand_para_worker` is `worker_new`, `worker_inc`, `worker_populate`: the
`ref_cnt += 1` of `evcands_new` is a load (`worker_new`) and a store
(`worker_inc`), because the threads of one build run it without a lock. The
writers of `write_colors` are `writer_open`, `writer_write`. `mmap`,
`calloc`, `pthread_create`, the filter of `evcands_populate` and `open` fail
where `MayFail` allows. The kernel module is `vcolor_enabled` and `tagged`
with the commands `enable_cmd`, `tag_cmd` and the clear inside `clear`. The
history variables: `views`, the views that hold the buffer; `overlapped`, an
increment overwrote another; `faults`, the calls that failed in this round.

### ActivityFreq

`build_single_l3_evset` and `monitor_l3_activity_freq` allocate, hand over
and free ten heap objects and two helper threads, and return early from
many places. The model keeps, of every object, whether it is alive
(`live`), and of every helper, whether its thread runs and where it is
pinned (`hctrl` for `def_l3_build_conf.hctrl`, `lhctrl` for the local of the
monitor). Every statement block between two returns is an action
(`begin` ... `finish` of the build, `topo` ... `exit` of the monitor). Two
tables say, for every place, what the next step reads (`Reads`) and which
helper it commands, and how (`Command`: through `test_eviction`, which
asserts that the helper runs, or through `traverse_cands_mt`, which only
waits for it). A step is taken when its objects are alive and its helper
runs; otherwise `undefined_access` or `command_lost` is, which end the
behaviour in `undefined`, `aborted` or `hung` and record the place. Nothing
about a crash is written into the model: it follows from the frees and
stops of the actions.

Abstractions: the candidates are counted (`count`), a set has a size below,
at or above `NWays`; the calibrated threshold is 0 (nothing measured), 1
(below `g_lats.l3`) or 2; a socket's rate is zero or not; socket `p` has the
vCPUs `2p` and `2p + 1`; the 100 calibration and 200 measurement repetitions
are one step each. `final_l3_evset` may replace the target of the set; the
model keeps the target (see section 5).

### Heatmap

One call of `monitor_l3_occupancy_heatmap_impl`, from each of its three
wrappers (`caller`: the plain one builds the sets and uses every pair of
cores, the pinned one builds them and uses one pair, the vtop one builds
them once and calls with one pair per socket, `sockets` times). The blocks
of the function between two `goto`s are the actions `begin`, `collect`,
`estimate`, `slots`, `setup`, `create`, `join`, `cleanup_workers`,
`convert`, `cleanup_arrays` and `cleanup_complex`; `create` and `join` are
one turn each of the two inner loops of a time slot. `heatmap_worker` is
five steps, `worker_start` (the helper, whose start may fail unnoticed),
`worker_attach`, `worker_prime`, `worker_probe` and `worker_stop`.

State: `live`, the heap objects that exist (`complex` for the sets,
`all_evsets`, `wargs` with `threads`, the arrays of results); `sets[k]`, the
slice of `all_evsets` that `setup` gave to pair `k` (`Share`, from `base`,
`extra` and the running index `next`); `hctrl[s]`, the control block that
set `s` names in its build configuration, a pair or `Stale`; `running[k]`,
whether the helper of worker `k` runs; `created[k]` and `wpc[k]` for the
threads. A set of the parallel builder starts `Stale`: its configuration
is a copy of the pair's (`evset_para.c:334-337`) and names the pair's
helper, which the builder stopped, inside `pairs`, which it freed. A
worker that returns leaves its sets `Stale` again, since its control block
was a local.

`l3_evset_prime` is modelled by what it needs (`Primed`): the helper the set
names must run, because `traverse_cands_mt` stores its command and waits for
the answer without a test. A worker whose sets are not `Primed` is `hung`,
and so is the `join` of it. The history variables `undefined` and `cut`
record the steps that have no defined outcome (the estimate through a stale
pointer, the join of a thread that was not created, a worker that reads
freed arguments) and the slot that was left with workers running.

Abstractions: the measurements of a worker and the counts it adds are left
out, a slot is the set of workers it creates and joins; `threads` and
`wargs` are one object.

### L2ColorOcc

One call of `monitor_l3_occupancy_l2color`. The blocks of the function are
the actions `begin` (the clamp of `-u` and the build), `group`
(`color_sets` and `color_counts`, and the exit when a colour has no set),
`setup` (`tot_line_ev_avg`, `n_pairs`, the cgroup, `threads` and `wargs`),
`create` (one turn of the loop: the arguments of pair `i`, its thread, and
on a failed `pthread_create` the cancel of the threads before it), `join`
(one turn of either join loop), `normalise`, `cleanup_threads` and
`cleanup`. `l2c_occ_worker` is `worker_start` (the helper, whose start may
fail unnoticed), `worker_attach`, and per iteration `worker_prime`,
`worker_probe` and `worker_sleep`, then `worker_stop`.

State: `l3_complex[<<offset, colour>>]`, what the builder left in a cell of
the table of `NUM_OFFSETS` x `max_unc_sets` (`"null"`: no array, `"none"`:
an array without a set with lines, `"set"`); `color_counts`; `wargs[k]`
with `start_color` and `num_colors`; `hctrl[c]`, the pair whose control
block the sets of colour `c` name, or `Stale`; `tot_avg[<<c, it>>]`, the
workers that stored to the cell (the number stored is left out); `wpc`,
`it`, `running`, `cancel` for the threads; `live` for the heap.

The builder clamps its own copies of both arguments (`Tables`), the monitor
clamps `-u` only: its loops read `num_offsets` rows (`Read`), and a row the
table does not have, or a cell for which `build_evsets_at` returned NULL,
is a read through a wild or a NULL pointer, which the model follows to
`aborted` (the handler of SIGSEGV). `usleep` is the one cancellation point
of a worker, `pthread_join` inside `stop_helper_thread` the other. The
worker's cycles, `cycles_per_us` and the wait derived from them are left
out.

### Poisoner

`vpoisoner` from the options to its threads. `Init` is what `getopt_long`
leaves (`opt`, `num_l2_sets`, `num_offsets`, `num_threads`, none of them
clamped); `options` is the three refused combinations and the start of the
hypercall module; `region`, `distribution` and `thrash` are the path of
`--use-gpa`; `build`, `host_color` (the filter of `--use-hpa`, which
empties the sets of another host colour: `emptied`), `listing`, and
`group` and `poison` (the two halves of `start_poisoning`) the path of the
eviction sets. `thrash` and `poison` are one turn of the loop that fills
the arguments of a thread and creates it (`Create`), with the share of the
thread from `share`. No result of `pthread_create`, `_calloc` inside
`start_poisoning` or `start_helper_thread_pinned` is tested. The workers
never return: `thrash_worker` is one step that repeats, `poisoner_worker`
is `worker_start`, `worker_attach` and `worker_loop`; `join` is the
`pthread_join` of thread 0, which the program leaves only when that thread
was never created, through a zeroed `pthread_t`.

The pages of `filtered` are their number (`filtered_cnt`, from `Filtered`);
the colour of a page and the distribution over host colours are left out,
as is the pacing of `poisoner_worker`.

### LatCalib

`init_cache_lats_thresh` is a sequence of six steps: `init_dram_lat`,
`init_interrupt_thresh`, `init_l1d_lat`, `init_l2_lat`, `init_l3_lat` (one
step per attempt, `max_ret` = 3, then `exit`) and `derive_thresholds`, the
two repairs and the three thresholds at its end. A measurement loop runs on
one thread, so the loop with its median is one step whose input is the
sequence of samples: each a latency of the level (`Lat[level]`) or the
latency of an interrupted access (`Outlier`), and whether `rdtscp` named the
same core before and after. What is kept of the arithmetic is what decides
the result: the filters of each loop, the counts `lat_cnt` against `reps / 2`
and `reps / 3`, the zero-padded array of `init_dram_lat`, the `-1` a
measurement without a median stores into an unsigned field (`u64`), the
32-bit locals and parameters (`u32`), and the conversion of a double that is
out of the range of `u64` (`from_double`: one of three values, since the C
standard defines none). `calc_median` is the set of values `qsort` can leave
in the middle under `compare_lats`, which reads two neighbouring `i32` as
one `i64`: any element, or the mean of any two. The history variable
`disturbed` records that a sample was not clean or an allocation failed.

### Vtop, PingPong

`Vtop` has the host in it: every vCPU sits on a hardware thread (`Truths`,
every assignment), and `truth[i][j]` is the class that gives, 1 for one
hardware thread up to 4 for different sockets. A measurement answers with a
latency at an edge of the band of that class (`LatencyBand`), or fails with
-1, which `get_latency_class` reads as class 1. One detection is `detect_begin` (or `detect_fails`, up to
`ret_vtop` = 3 tries), `find_numa_groups` with `apply_optimization`,
`perform_probing`, `parse_topology`, `detect_returns`; an allocation that
fails ends the process (`out_of_memory`). The users are
`find_optimal_vcpu_pairs` (`place_pairs`), `find_same_socket_nonSMT_vcpu_pair`
(`place_single`) and `get_socket_info` with `select_vcpu_pair`
(`place_per_socket`). For the parallel builder `topo_check_begins` lets the
host move one vCPU and detects again, and `topo_check` is the loop body of
`evset_para.c:1194-1258`: `is_topo_change_harmless` for every pair, and the
re-pin of the pairs `find_optimal_vcpu_pairs` still finds. The history
variables are `failed` (measurements that failed in this detection) and
`stale` (a check could not replace every pair).

`PingPong` is one measurement at the grain of its shared accesses.
`measure_latency_pair` is `attempt`, `create_even`, `exit_process`,
`joined`, `again_uncounted`, `again`, `give_up`, `best_sample`; a thread is
`pin_and_map`, `rendezvous`, `wake`, `fetch` (the read of the pointer to the
word), and the loop `loop`, `load`, `store`, `test`, `swap`. `*stop_loops +=
n` is a load and a store (`load`, `store`) because both threads do it to
the same plain int; the compare-and-swap is one step. The constants scale
the source's numbers down (see the bounds); the times themselves are not
kept, only how many timestamps an attempt gave.

`MCProber` extends `Vtop` and instantiates `PingPong`; `level` says which of
the two runs. `Vtop` takes from a measurement only its answer, so the two
are checked each from its own start.

### MCBuilders

`MCBuilders` instantiates seven modules on variables of its own, and
`prog` says which one runs. Five are consecutive steps of one program (the
calibration, then the helper that every test of a builder commands, the L2
sets, the candidates, the single L3 set with its monitor), and each takes
from the one before only that its result exists. The other two,
`L2ColorOcc` and `Poisoner`, are the two programs that take the table of a
finished parallel build and share it out by colour to threads of their
own; they stand here, and not in `MCMonitors`, to keep both runs short.

## 3. The runs

| Run | Module / cfg | Expect | What it shows |
|---|---|---|---|
| `evset_build` | `MCEvsetBuild` / `EvsetBuild.cfg` | pass | for every pool of 0, 1, 2, 5 or 8 lines in two colours, `W = 3`, and up to two misses: all accesses stay in the pool; a stored set holds only lines of its target's colour; with no miss every success is a set that evicts its target and the stored sets are disjoint; the build terminates |
| `evset_size` | `MCEvsetBuild` / `EvsetSize.cfg` | violation | a stored set can have fewer than `W` lines |
| `evset_distinct` | `MCEvsetBuild` / `EvsetDistinct.cfg` | violation | two stored sets can be for the same cache set, without any miss |
| `evset_para_returns` | `MCEvsetPara` / `EvsetParaReturns.cfg` | violation | a helper that cannot be started hangs the coarse and the granular builder at the init barrier |
| `evset_para_repin` | `MCEvsetPara` / `EvsetParaRepin.cfg` | violation | a re-pin during the start of a helper leaves the helper on the old vCPU and the record on the new |
| `evset_para_cancel` | `MCEvsetPara` / `EvsetParaCancel.cfg` | violation | after a failed `pthread_create` helper threads outlive the freed `pairs` array |
| `builders` | `MCBuilders` / `Builders.cfg` | pass | on a quiet machine the calibration returns, with four ordered latencies and a threshold between each two; the handshake implements `HelperService`, no payload is freed while the helper may read it, a call returns only after its command was carried out, and every call returns; `build_l2_evset` returns, and its table has a verified set in every slot and a colour twice only when the screening of a target missed or a failed `_calloc` kept the earlier set out of `built_evset_addrs`; `ref_cnt` falls below the number of views only through overlapping increments; the thread ranges cover every colour; `build_single_l3_evset` and `monitor_l3_activity_freq` command a helper that runs unless `pthread_create` failed, and read only live objects unless an allocation failed or the calibration came round again after an oversized set; in the occupancy by colour every cell of `tot_line_ev_avg` was stored to by exactly one worker when the percentages are computed, and in `vpoisoner` every page of colour 0 and every set with lines belongs to exactly one thread |
| `lats_separate` | `MCBuilders` / `LatsSeparate.cfg` | violation | an L2 measurement with too few clean samples leaves `g_lats.l2` at 2^64-1, and `init_cache_lats_thresh` returns thresholds that separate nothing |
| `prober` | `MCProber` / `Prober.cfg` | pass | when every measurement answered, the sockets `detect_vcpu_topology` reports are the sockets of the host, and every pair the three users pin, or a topology check leaves or puts in place, is two vCPUs of one socket, no vCPU in two pairs; `perform_probing` never has a pair to measure, and an inferred class is never closer than the host's; no thread of a measurement reads the pointer to the shared word before it is mapped; `measure_latency_pair` returns |
| `monitors` | `MCMonitors` / `Monitors.cfg` | pass | the parallel builder in all three modes: one writer per cell; every cell built when the table is returned without a timeout; `pairs` freed only after every worker has ended; the builder returns if every helper starts. The loops: vcolor replaces the hottest colour only after the same colour topped the order, a level above, in three scans in a row; while no write has failed the kernel module holds the ranking of the last scan; the LCAS map holds "no preference" exactly when all sockets are at one level, else the sockets by rising hotness; the loop's coldest socket changes only after three scans; the adaptive waits of `--lcas` and `--live` shrink by 1000 only after two saturated scans in a row and never reach zero; the wait of the eviction-rate monitor shrinks only in the second of two saturated rounds with at most idle rounds between them, and rises only to the value of `-w` in an idle round. The heatmap: while a worker primes and probes, every set of its share names the helper of that worker; a worker waits for ever only when its own helper did not start; the arguments of a worker, the array of sets and the sets are freed only after the worker was joined, except in a slot cut short by a failed allocation |
| `lcas_published` | `LcasMonitor` / `LcasPublished.cfg` | violation | key 0 of the LCAS map passes to another socket after a single scan |
| `live_wait` | `VsetLive` / `LiveWait.cfg` | violation | the wait of the live mode goes back up on a saturated round, not on an idle one |

The eight violations are recorded under `findings` in `PROJECT.json` with the
source line each one starts from.

### Bounds, and why they are enough

* `Builders.cfg`, helper: two lines and two heap blocks, so that a command can
  differ from the one before it in action and in payload; calls in any order
  between a start and a stop. The protocol has a single slot, so one
  outstanding command is all there can be.
* `Builders.cfg`, occupancy by colour and `vpoisoner`: a table of 2 offsets
  x 3 colours (`TableRows`, `TableColumns`); `-u` of 0, 3 and 5 (and 1 for
  `vpoisoner`), that is none, the table and more than the table; `-o` of 0,
  2 and 3 likewise; `-c` absent, 1 and 3; 2, 4 or 6 cores (2 or 4 for
  `vpoisoner`); two iterations with and without a period between them; 0
  or 4 pages of colour 0. Three colours on four cores are two pairs with
  shares of two and one, and four pages on three threads shares of two, one
  and one: the smallest cases with a remainder. Six cores are three pairs,
  `-c 1` the clamp to one pair, `-c 3` with no page three threads without
  work. Colour 1 may come without a set at both offsets, which ends the
  monitor in `group`; for `vpoisoner` the first unit may, so that the
  search by host colour finds its first set later or not at all; one unit
  may come without its array. Two iterations are enough for a worker to be
  cancelled between them and for a row to have a second column. Every
  call that can fail may fail.
* `EvsetBuild.cfg`: `W = 3`, `Slack = 1`, `CapScaling = 2`, `MaxBacktrack = 3`,
  `VerifyRetry = 2`, `UnknownSib = 1` (migration step 3), `NEvsets = 2`, two
  colours. A pool of 8 holds two full sets and two lines to spare, so both sets
  can be built, the search backtracks and migrates, and the next-target scan
  meets lines of both colours; pools of 0, 1 and 2 reach the early returns;
  a pool of 5 with two misses reaches the prune paths where a foreign line
  could slip in. By renaming colours, the last line of the pool (the first
  target) has colour 1. `MaxMiss = 2` is the smallest budget with which a
  mutated prune stores an impure set.
* `EvsetSize.cfg`, `EvsetDistinct.cfg`: single pool sizes (5 and 9) and the
  smallest miss budget (1 and 0) with which the violation occurs.
* `Monitors.cfg`, parallel builder (and the three `EvsetPara*.cfg`): two pairs, 2 offsets x 2 L2 sets, one topology check. Two
  workers are the least that can race for the counter and the cells, two
  offsets let both of them claim, and two L2 sets give an offset an inner
  loop. Every worker can fail to start its helper, `pthread_create` can fail at
  every index, and the run time limit can strike after every cell.
* `Builders.cfg`, calibration: `reps = 4` samples per measurement (350 in
  the source), so that the counts fall on both sides of `reps / 2` and
  `reps / 3` and the median is taken of an even and of an odd number; two
  latencies per level, `l1d` {40, 44}, `l2` {53, 60}, `l3` {72, 110}, `dram`
  {300, 320}, the ends of what a machine of the kind the thresholds of the
  source are tuned for shows, chosen so that the repairs of
  `derive_thresholds` are not taken on a quiet machine; an interrupted
  access of 5000 cycles, above every `interrupt_thresh`. The word widths are
  scaled: `U32 = 2^16`, `U64 = 2^24`, which keeps every product inside
  TLC's integers and every measured latency below `U32`, as in the program;
  -1 is then `U64 - 1`, and truncating it to 32 bits gives `U32 - 1`, as in
  the program. `LatsSeparate.cfg` is the same without failing allocations.
* `Builders.cfg`, L2 builder: `W = 2`, two L2 colours (`UnknownSib = 1`),
  `CandScale = 2` (eight lines in every split over the two colours),
  `num_sets` of 1 and 4 (one colour asked for, and more than there are),
  `NRetries = 2`, `MaxWholeRet = 1` (a second round from fresh memory),
  `MaxMiss = 2`: a miss can let a target pass the screening and another can
  fail a verification in the same behaviour. Either `_calloc` of a kept set
  may fail, every time.
* `Builders.cfg`, arena: three colours with one, two or three threads, so
  that the division `NSets / n_threads` has a remainder and the last thread
  takes it, and two workers can overlap; three page offsets; both callers;
  `-t` of 0 (one round) and 1 (rounds for ever); every call may fail.
* `Builders.cfg`, single set: `NWays = 2` and three candidates, so that after
  the target is taken out 0, 1 or 2 are left (no candidates, too few, enough);
  set sizes 1, 2, 3 (below, at and above `n_ways`); `Retry = 1` gives the
  calibration a second round (the code has 3: more rounds repeat the second);
  `max_num_recs` of 1 and 2 for both sides of `sz < 2`; one or two sockets,
  with and without topology awareness, called from vset and from vevict;
  every call may fail.
* `Monitors.cfg`, heatmap: 0, 1 or 3 sets, 1 or 4 cores, `-t` absent or 8,
  two time slots, two sockets for the vtop wrapper, every call that can fail
  failing. Three sets on four cores are two pairs with shares of two and
  one, the smallest case with a remainder, where a wrong slice overlaps its
  neighbour; one set on four cores is the clamp of `n_pairs` to the number
  of sets, one core the clamp to one pair, and no set the early exit. Two
  slots let a worker meet what the worker of the slot before left in its
  sets, two sockets let a call meet what the call before left. The numbers
  of ways and samples do not enter.
* `Monitors.cfg`: three colours in one worker pair, colour 2 possibly without
  eviction set; two sockets (with three the properties hold as well, over
  612,103 states in nine minutes), socket 1 possibly without pairs; `Scale = 4`,
  `Rates = {0, 4}`, both alphas 50 percent; `-w` of 1000, 2000 and 3000 us;
  `iterations` 0 (no end) and 3; one lost write. On a grid of four the values 0, 1/4, 2/4, 3/4 and 1 are the
  four levels of `hot_level` (the first two share level 0), 1 is "saturated"
  and 0 is "idle", and with alpha one half a colour climbs or falls one level
  per scan, so that a candidate can lead by a level for one, two or three
  scans: the hysteresis is exercised on both sides of its threshold. Three
  colours are the least with which the order behind the hottest colour can
  change while the hottest stays. A wait of 3000 lets the wait shrink twice
  and meet the floor at 1000; a wait of 1000 starts at the floor. One lost
  write is enough to separate what the monitor believes from what the kernel
  holds. Idle rounds and saturated rounds cannot follow each other directly
  with alpha one half; an alpha of 0 would allow it and is not explored.
* `Prober.cfg`, detection: four vCPUs on a host of 2 sockets x 2 cores x 2
  threads, every placement. Four vCPUs are the least with two pairs to
  place and with two vCPUs that lead no group, between which a class is
  inferred; the host has every class of pair, two vCPUs on one hardware
  thread included. One measurement of the first detection may fail
  (`MaxFailed = 1`), every allocation may, the builder checks the topology
  once (`MaxChecks = 1`) after the host has moved at most one vCPU, and all
  three users run. `MAX_CPUS` is the source's 192 and plays no part with
  four vCPUs.
* `Prober.cfg`, measurement: `SAMPLE_US = 1` with `Stretch = 2` (10000 and
  10 in the source), `act_sample = 2` timestamps wanted (10), `nr_param = 0`
  hand-overs per timestamp (150), `NR_SAMPLES = 1` counted retry (10) and
  `MaxOnes = 1` uncounted one. The loop bounds only scale how long the
  threads run; every statement of `thread_fn` is reached, both threads reach
  both exits, and an attempt ends with 0, 1, 2 and 3 timestamps, which are
  the cases `measure_latency_pair` tells apart. `pthread_cond_wait` does not
  return unsignalled (`Spurious = FALSE`): with a spurious wake-up the `if`
  round the wait lets the odd thread through before the word is mapped, and
  `MappedBeforeUse` and `MeasurementReturns` are stated for the scheduler
  that does not do that; with `Spurious = TRUE` TLC finds both violated
  (see section 5). `first_measurement` is FALSE (`FirstMeasurement =
  {FALSE}`): the first detection starts `amount_of_times` at -2
  (`vtop.c:230-233`), which adds two counted attempts and multiplies the
  states by five; no property depends on the number of attempts.
  `sched_setaffinity`, `mmap` and `pthread_create` may fail.
* `LcasPublished.cfg`, `LiveWait.cfg`: the same grid, no lost write, and the
  wait fixed in the first, because the violation needs neither.

### Fairness

* `HelperThread` (in `MCBuilders`): weak fairness of the controller's steps inside a call and of
  the helper's steps; both are runnable kernel threads that only spin. Which
  call the controller makes next is not fair: the program may stop calling.
* `EvsetBuild`: weak fairness of `Next`; the builder is a sequential program.
* `MCBuilders`: besides the helper's, weak fairness of the sequential
  programs' `Next`, used by `L2BuildReturns` only, for `build_l2_evset`. Nothing is claimed to happen in the end
  of the arena's threads or of the activity-frequency monitor, whose inner
  loop waits for evictions that need not come. The occupancy by colour and
  `vpoisoner` are outside the fairness: both are checked for safety only,
  and `vpoisoner` never ends by design.
* The monitors are checked for safety only, without fairness: their loops
  never end (deadlock checking is on for them), and what they promise is
  about what a step may do. The same holds for the heatmap, whose caller
  and workers can wait for ever.
* `EvsetPara`: weak fairness of the orchestrator and of every worker. All of
  them are kernel threads that never block except in joins; a spin loop whose
  condition holds is left. `MCMonitors` assumes less, weak fairness of the
  builder's `Next` as a whole (some thread that can step does), and
  `Completes` holds under it.
* `MCProber`: weak fairness of `proceed` and of each of the two threads of a
  measurement, which are pinned kernel threads that spin; none of the
  detection, of which only safety is claimed.

Deadlock checking is off in `evset_build` and the three `evset_para_*` runs
because the builders end (`pc = "done"`, `opc \in {"done", "failed"}`). In
`MCBuilders`, `MCMonitors` and `MCProber` a program that has ended stutters
(`returned`, `halted`, `finished`).

## 4. Not modelled

* The timed accesses themselves (the loops of B from the inside, the inside
  of `test_eviction`, the nanoseconds of a ping-pong): TLC cannot time a
  cache. Their outcomes are the inputs and oracles described above.
* A, and of X everything but `vpoisoner`: single-threaded set-up, parsing,
  printing and I/O round calls that other modules model (`vevict`, `vtest`,
  `polluter`, `config.c`), and the hypercall modules `gpa_hpa`, which are
  one ioctl without state. Of `vpoisoner`, `write_dist_file` and the colour
  of each page.
* In D and E: `evcands_filter_batch` and `evcands_populate` from the inside
  (timing; their outcome is an input), the start of the threads of
  `mmap_shared_init_para`, and the debug listings.
* Code without a caller: `build_evcands_all`, `calc_evsets_per_offset`,
  `vtop_main_thread_worker`, `monitor_l3_occupancy`.
* In F: the change of target inside `final_l3_evset` as seen by
  `build_single_l3_evset`, which verifies against its local `target`
  (`evset.c:1778`).
* In B: `calc_avg` and `calc_min_cluster`, which the calibration does not
  call. `calc_median` is not compared with a reference median: under
  `compare_lats` it is not one, and the model takes every value it can
  return.
* In I: `ST_find_topology`, `MT_find_topology` and `thread_fn2`, the workers
  of `perform_probing`, which never get a pair (`ProbingIsInference`); the
  adaptation of `SAMPLE_US` between measurements (`vtop.c:332-340`) and the
  growth of the timestamp array, which change how long a measurement runs
  and not what it answers; the allocations inside `find_optimal_vcpu_pairs`;
  the printing of the topology.
* In H: the numbers of the heatmap and of the occupancy by colour (the
  counts of a worker, the percentages and the file written), the
  single-socket experiment monitors, the set-up of sockets and pairs;
  the allocator side of the kernel module, and a reader of `/proc/vcolor`
  racing the unlocked handler of `order`.
* In G, the L2/candidate construction before the threads are created and the
  statistics after the joins.

## 5. Plan

Done: B (`LatCalib`), C (`HelperThread`, `HelperService`), F (`EvsetBuild`,
`ActivityFreq`), G (`EvsetPara`), D (`CandArena`), E (`L2Builder`), I (`Vtop`,
`PingPong`), and of H the four ranking
and waiting loops (`HotnessScan`, `VcolorMonitor`, `LcasMonitor`, `VsetLive`,
`SocketMonitor`), the activity-frequency monitor (`ActivityFreq`), the
occupancy heatmap (`Heatmap`) and the occupancy by colour (`L2ColorOcc`);
of X, `vpoisoner` (`Poisoner`).

Observed while modelling and not given a run of its own. The properties of
`builders`, `monitors` and `prober` name each of these as the exception under which they
hold; most are listed under `hazards`.

* L2 builder: a verified set is stored in the table before the two
  allocations that record it. When the `_calloc` of `new_all_addrs` or of
  `new_built` fails (`evset.c:1287`, `1312`) nothing is reported, the set is
  missing from `built_evset_addrs`, the screening of line 1204 lets a target
  of its colour through, and `build_l2_evset` returns a table with that
  colour twice and another colour missing: seven steps, one failed
  allocation, no measurement error. The self-check for repeated colours
  (`evset.c:1448-1496`) runs only with `-d`.
* Monitors: a colour without eviction set has rate NaN, ranks at level 3 and
  can become the hottest colour of vcolor without ever being measured
  (`vcolor.c:442`); the wait of `monitor_eviction_rate_multi` cannot recover
  once it is at 1000 us (`vset_ops.c:2613`).
* Arena: two workers that overlap in `evcands_new` lose an increment of
  `ref_cnt` (`evset.c:138`), and the buffer is then unmapped while a view
  still points into it; a view whose filter failed keeps its reference until
  `incomplete` frees it, and in vcolor the views of a round are never freed:
  `write_colors` sets `ref_cnt` to 0 by hand and unmaps (`vcolor.c:120-124`).
  `write_colors` returns true when a writer could not open `/proc/vcolor`, so
  the colouring is enabled with colours missing. After a failed
  `evcands_shift` the row holds NULL cells and the build still succeeds
  (`evset.c:427-434`).
* Single set: `monitor_socket_activity_freq` pins the monitor's own helper to
  the socket (`vset_ops.c:653-667`), but `l3_evset_prime` commands the helper
  of the build through `def_l3_build_conf.hctrl`, which stays where the build
  put it: the second thread of every measurement is not on the socket
  measured. The calibration frees an oversized set and dereferences the NULL
  pointer in the next round (`vset_ops.c:747-755`). When the rounds run out
  after a threshold below `g_lats.l3`, that threshold is used
  (`vset_ops.c:757` rejects only 0). Three error paths of
  `build_single_l3_evset` call `cleanup_mem` and go on
  (`evset.c:1709-1756`); the other error returns leave the helper running
  and the memory allocated.

* Heatmap: the estimate of the run time primes every set in the thread of
  the caller (`vset_ops.c:1090`, `1099`) before any worker has attached a
  helper, so `traverse_cands_mt` stores its command through the pointer the
  parallel builder left, into the freed `pairs` array, and waits for a flag
  no thread sets; every call reaches this step, and the model follows it
  both to a call that goes on and to one that waits for ever. In the second
  call of the vtop wrapper the pointers are those the workers of the first
  call left, into their stacks. When the counts of pair `i` cannot be
  allocated the slot is left with the workers `0..i-1` running, and `wargs`,
  `all_evsets` and the sets are freed under them (`vset_ops.c:1216-1240`).
  `pthread_create` is not tested, so a thread that was not created is
  joined (`vset_ops.c:1222-1225`); `start_helper_thread_pinned` is not
  tested, so a worker without helper waits for ever and the call with it
  (`vset_ops.c:271`). `samples_per_slot` is written without the test that
  `avg_evicted_per_slot` gets (`vset_ops.c:1017`, `1232`).

* Occupancy by colour: `-o` is not clamped to `NUM_OFFSETS` where `-u` is
  clamped to the table (`vset_ops.c:1421-1424`), so the grouping and the
  cleanup read rows the builder never allocated (`vset_ops.c:1445-1448`).
  A colour without a set, and a failed allocation of `threads` or `wargs`,
  leave through `cleanup` with `ret` still 1 (`vset_ops.c:1467`, `1516`),
  the value of a call that measured; the second also skips
  `cleanup_threads` and keeps the array that was allocated. A worker that
  is cancelled in `usleep` leaves its helper running
  (`vset_ops.c:1550`, `245`).
* `vpoisoner`: neither `-u` nor `-o` is clamped, so `start_poisoning` and
  the filter by host colour read past the table (`vpoisoner.c:161-164`,
  `422-425`); `num_l2_sets` is 0 without `-u`, and the builder then returns
  NULL. `_calloc` and `pthread_create` are not tested in `start_poisoning`
  and in the thrash loop (`vpoisoner.c:187-206`, `380-393`): a thread that
  was not created is joined through a zeroed `pthread_t`. With more threads
  than pages the later threads of `--use-gpa` run on a share of zero
  pages. The code behind both join loops is not reached.

* Calibration: `init_dram_lat` stores -1 the way `init_l2_lat` does
  (`lats.c:142-148`), and takes its median over all `reps` entries of an
  array of which only the clean samples were written, so every discarded
  sample pulls the DRAM latency towards 0. `init_l3_lat` is the one
  measurement that tries again and gives up.
* Prober: a measurement that fails reads as class 1 (`vtop.c:206`, `328`),
  so a vCPU whose measurement against the leader of another socket fails
  joins that socket; `PlacementFollowsSockets` is stated for detections
  without a failure. `parse_topology` gives the relation SMT only to pairs
  of class 1, two vCPUs on one hardware thread; two vCPUs on the two threads
  of one core are class 2 and get the relation SOCKET
  (`CPU_RELATION_CORE` is never assigned), so the pairs that
  `find_optimal_vcpu_pairs`, `find_same_socket_nonSMT_vcpu_pair` and
  `select_vcpu_pair` call non-SMT can share a core. `vtop.h:17` calls SMT
  "stacking on the same core", which can be read either way, so this is
  recorded here and not stated as a property. An attempt of
  `measure_latency_pair` with exactly one timestamp is repeated without
  being counted (`vtop.c:303-309`). The wait of `common_setup` stands in an
  `if` (`vtop.c:132`): with `Spurious = TRUE` in `Prober.cfg` the odd thread
  leaves the wait unsignalled, reads the pointer before the even thread has
  mapped the word and compare-and-swaps through NULL; `MappedBeforeUse`
  fails after five steps, and `MeasurementReturns` fails as well.

Next, in this order:

1. **The rest of monitoring** (H): the unmeasured colour in vcolor, the wait
   that cannot recover and the helper on the wrong socket as properties of
   their own; the stale helper pointer of the heatmap's estimate as a
   property over `EvsetPara` and `Heatmap` composed; the
   single-socket eviction-rate monitor, which redirects the helper
   (`vset_ops.c:1961`) where the activity-frequency monitor does not.
2. **Pure algorithms**: `calc_gran_assignments` (a partition of offsets x L2
   sets for every number of pairs, sizes differing by at most one) as an
   operator checked against a reference definition.
3. **Composition**: `EvsetPara` with the helper start and stop of
   `HelperThread` in place of `halive`, for the cancellation and re-pinning
   windows at the granularity of the handshake.
4. **The prober under failures**: what a detection with failed measurements
   may return, and the topology check with the old and the new topology
   both failing.
