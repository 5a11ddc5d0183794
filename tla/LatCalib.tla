------------------------------ MODULE LatCalib ------------------------------
(***************************************************************************)
(* The latency calibration every front-end runs before it builds anything  *)
(* (src/src/lats.c, src/include/lats.h): init_cache_lats_thresh measures   *)
(* DRAM, L1d, L2 and L3 in that order, each as the median of reps timed    *)
(* accesses, repairs "abnormal" results and derives the three hit          *)
(* thresholds and the interrupt threshold that the tests of every builder  *)
(* and monitor compare a latency with.                                     *)
(*                                                                         *)
(* A measurement loop runs on one thread without a yield, so a loop with   *)
(* its median is one step; what the environment decides is, per sample,    *)
(* the latency and whether the thread was on the same logical core before  *)
(* and after.  The fields of g_lats are 64-bit and several locals 32-bit:  *)
(* the widths are kept as the moduli U64 and U32, scaled down so that the  *)
(* products stay inside the checker's integers.  The double constants are  *)
(* exact fractions (1.2 = 12/10, 1.15 = 115/100, 1.8 = 18/10, 4.6 = 46/10, *)
(* 2.5 = 25/10).                                                           *)
(***************************************************************************)
EXTENDS Integers, Sequences, FiniteSets

CONSTANTS
    reps,            \* timed accesses of one measurement (DEF_LAT_REPS)
    Lat,             \* Lat[level]: latencies of an undisturbed access
    Outlier,         \* latency of an access a context switch interrupted
    U32, U64,        \* 2^w of the 32-bit and 64-bit words (scaled)
    AllocMayFail     \* whether _calloc may return NULL

Levels == {"dram", "l1d", "l2", "l3"}

ASSUME /\ reps \in Nat \ {0}
       /\ Lat \in [Levels -> SUBSET Nat]
       /\ Outlier \in Nat /\ U32 \in Nat /\ U64 \in Nat /\ U64 % U32 = 0
       /\ AllocMayFail \in BOOLEAN

VARIABLES
    g_lats,          \* the global CacheLats
    pc,              \* the call of init_cache_lats_thresh that runs next
    attempt,         \* init_l3_lat: the loop counter
    disturbed        \* history: a sample was disturbed or a _calloc failed

vars == <<g_lats, pc, attempt, disturbed>>

max_ret == 3

\* A value stored into a narrower or unsigned word.
u32(x) == x % U32
u64(x) == x % U64

\* A double above the range of u64 converts to no defined value.
OutOfRange == {0, U64 \div 2, U64 - 1}
from_double(x) == IF x < U64 THEN {x} ELSE OutOfRange

\* One timed access: its latency, and whether rdtscp named the same logical
\* core before and after it.
Sample(level) ==
    {[lat |-> v, same |-> TRUE] : v \in Lat[level] \cup {Outlier}}
        \cup {[lat |-> Outlier, same |-> FALSE]}

Quiet(level, samples) ==
    \A i \in DOMAIN samples : samples[i].same /\ samples[i].lat \in Lat[level]

\* The latencies of the accepted samples, in the order they were taken.
Accepted(samples, ok(_)) ==
    LET kept == SelectSeq(samples, ok) IN [i \in DOMAIN kept |-> kept[i].lat]

(***************************************************************************)
(* calc_median.  compare_lats reads each 4-byte element as an 8-byte one,  *)
(* so the order qsort leaves is not the order of the values: the result is *)
(* any element (odd cnt) or the mean of any two (even cnt) of the array.   *)
(***************************************************************************)
calc_median(nums_arr, cnt) ==
    CASE cnt = 0 -> {-1}
      [] cnt = 1 -> {nums_arr[1]}
      [] cnt > 1 /\ cnt % 2 = 1 -> {nums_arr[i] : i \in 1..cnt}
      [] OTHER -> {(nums_arr[i] + nums_arr[j]) \div 2 :
                       <<i, j>> \in {p \in (1..cnt) \X (1..cnt) : p[1] # p[2]}}

\* The weights of the two latencies are swapped.
hit_thresh_zhao_swapped(hit_lat, miss_lat) ==
    (u32(2 * u32(hit_lat) + 3 * u32(miss_lat)) * 10) \div 46

hit_thresh_zhao(hit_lat, miss_lat) ==
    (u32(3 * u32(hit_lat) + 2 * u32(miss_lat)) * 10) \div 46

\* The end of a measurement: the field it sets, if any, and the next call.
Store(field, medians, samples, next) ==
    \E median \in medians :
        /\ g_lats' = [g_lats EXCEPT ![field] = u64(median)]
        /\ disturbed' = (disturbed \/ ~Quiet(field, samples))
        /\ pc' = next
        /\ UNCHANGED attempt

\* goto err / goto cleanup: the field keeps its zero.
alloc_fails(next) ==
    /\ AllocMayFail
    /\ disturbed' = TRUE
    /\ pc' = next
    /\ UNCHANGED <<g_lats, attempt>>

init_dram_lat ==
    /\ pc = "dram"
    /\ \/ alloc_fails("interrupt")
       \/ \E samples \in [1..reps -> Sample("dram")] :
            LET kept == Accepted(samples, LAMBDA s : s.same)
                lat_cnt == Len(kept)
                lats_arr == [i \in 1..reps |-> IF i <= lat_cnt THEN kept[i] ELSE 0]
            IN  Store("dram",
                      IF lat_cnt > reps \div 2 THEN calc_median(lats_arr, reps) ELSE {-1},
                      samples, "interrupt")

init_interrupt_thresh ==
    /\ pc = "interrupt"
    /\ g_lats' = [g_lats EXCEPT !.interrupt_thresh = u64(g_lats.dram * 5)]
    /\ pc' = "l1d"
    /\ UNCHANGED <<attempt, disturbed>>

init_l1d_lat ==
    /\ pc = "l1d"
    /\ \/ alloc_fails("l2")
       \/ \E samples \in [1..reps -> Sample("l1d")] :
            Store("l1d", calc_median(Accepted(samples, LAMBDA s : TRUE), reps),
                  samples, "l2")

init_l2_lat ==
    /\ pc = "l2"
    /\ \/ alloc_fails("l3")
       \/ \E samples \in [1..reps -> Sample("l2")] :
            LET measurements ==
                    Accepted(samples, LAMBDA s : s.same /\ s.lat < g_lats.interrupt_thresh)
                lat_cnt == Len(measurements)
            IN  Store("l2",
                      IF lat_cnt < reps \div 2 THEN {-1}
                      ELSE calc_median(measurements, lat_cnt),
                      samples, "l3")

retry_l3 ==
    /\ attempt' = attempt + 1
    /\ disturbed' = TRUE
    /\ UNCHANGED <<g_lats, pc>>

init_l3_lat ==
    /\ pc = "l3"
    /\ \/ /\ attempt = max_ret
          /\ pc' = "exited"
          /\ UNCHANGED <<g_lats, attempt, disturbed>>
       \/ /\ attempt < max_ret
          /\ \/ AllocMayFail /\ retry_l3
             \/ \E samples \in [1..reps -> Sample("l3")] :
                  LET interrupt_thresh == u32(g_lats.interrupt_thresh)
                      dram_lat == u32(g_lats.dram)
                      measurements ==
                          Accepted(samples, LAMBDA s : /\ s.same
                                                       /\ s.lat < interrupt_thresh
                                                       /\ s.lat < u32(dram_lat * 8) \div 10)
                      lat_cnt == Len(measurements)
                  IN  IF lat_cnt < reps \div 3 THEN retry_l3
                      ELSE Store("l3", calc_median(measurements, lat_cnt),
                                 samples, "thresh")

\* The tail of init_cache_lats_thresh: the two repairs and the thresholds.
derive_thresholds ==
    /\ pc = "thresh"
    /\ \E l2 \in (IF g_lats.l2 <= g_lats.l1d
                  THEN from_double((g_lats.l1d * 12) \div 10) ELSE {g_lats.l2}) :
       \E l3 \in (IF g_lats.l3 * 100 <= l2 * 115
                  THEN from_double((l2 * 18) \div 10) ELSE {g_lats.l3}) :
         LET l3_thresh == hit_thresh_zhao(l3, g_lats.dram)
         IN  g_lats' = [g_lats EXCEPT
                 !.l2 = l2,
                 !.l3 = l3,
                 !.l1d_thresh = hit_thresh_zhao(g_lats.l1d, l2),
                 !.l2_thresh = hit_thresh_zhao(l2, l3),
                 !.l3_thresh = IF l3_thresh * 10 > u32(l3) * 25
                               THEN u64(l3 * 2) ELSE l3_thresh]
    /\ pc' = "returned"
    /\ UNCHANGED <<attempt, disturbed>>

init_cache_lats_thresh ==
    \/ init_dram_lat
    \/ init_interrupt_thresh
    \/ init_l1d_lat
    \/ init_l2_lat
    \/ init_l3_lat
    \/ derive_thresholds

\* The front-end goes on with the thresholds, or the process has ended.
finished == pc \in {"returned", "exited"} /\ UNCHANGED vars

Fields == {"l1d", "l2", "l3", "dram",
           "l1d_thresh", "l2_thresh", "l3_thresh", "interrupt_thresh"}

Init ==
    /\ g_lats = [f \in Fields |-> 0]
    /\ pc = "dram"
    /\ attempt = 0
    /\ disturbed = FALSE

Next == init_cache_lats_thresh \/ finished

Spec == Init /\ [][Next]_vars

-----------------------------------------------------------------------------
TypeOK ==
    /\ g_lats \in [Fields -> 0..(U64 - 1)]
    /\ pc \in {"dram", "interrupt", "l1d", "l2", "l3", "thresh", "returned", "exited"}
    /\ attempt \in 0..max_ret
    /\ disturbed \in BOOLEAN

\* Each threshold lies above the latency of its level and not above the
\* latency of the next one, and the levels are ordered the way the L3 filter
\* of init_l3_lat demands.
Separated ==
    /\ g_lats.l1d < g_lats.l1d_thresh /\ g_lats.l1d_thresh <= g_lats.l2
    /\ g_lats.l2 < g_lats.l2_thresh /\ g_lats.l2_thresh <= g_lats.l3
    /\ g_lats.l3 < g_lats.l3_thresh /\ g_lats.l3_thresh <= g_lats.dram
    /\ g_lats.l3 * 10 < g_lats.dram * 8

\* On a quiet machine (no sample of any loop of init_*_lat disturbed, no
\* _calloc failed) init_cache_lats_thresh returns, and with thresholds that
\* separate the levels, whatever order the mis-typed comparator of
\* calc_median leaves the samples in.
QuietCalibrationSeparates ==
    (pc \in {"returned", "exited"} /\ ~disturbed) => (pc = "returned" /\ Separated)

\* What a front-end relies on when init_cache_lats_thresh has returned: the
\* measured latencies are ordered and the thresholds lie between them.
CalibrationSeparates == pc = "returned" => Separated
=============================================================================
