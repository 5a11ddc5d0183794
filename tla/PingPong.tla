------------------------------ MODULE PingPong ------------------------------
(***************************************************************************)
(* One call of measure_latency_pair (vm_tools/vtop.c): the prober pins two *)
(* threads on the two vCPUs, lets them hand one word to and fro with       *)
(* compare-and-swap, and takes the time of the hand-overs from the         *)
(* timestamps of the even thread.  An attempt that yields too few          *)
(* timestamps is made again.                                               *)
(*                                                                         *)
(* The two threads meet in common_setup on a mutex, a condition variable   *)
(* and the flag wait_for_buddy; the word they hand over is mapped by the   *)
(* even thread only.  They stop each other through the plain ints          *)
(* stop_loops and max_loops, which both read and write without atomics.    *)
(* A thread is 0 (even) or 1 (odd), the value of its args->me.             *)
(***************************************************************************)
EXTENDS Integers, FiniteSets

CONSTANTS
    SAMPLE_US,      \* the loops of an attempt; 10000 in the source
    Stretch,        \* the factor of the first measurement; 10 in the source
    NR_SAMPLES,     \* the retries of an attempt with too few timestamps
    nr_param,       \* hand-overs of the even thread per timestamp
    act_sample,     \* the timestamps an attempt is after
    FirstMeasurement,   \* the values of first_measurement explored
    MaxOnes,        \* bound: attempts that end with exactly one timestamp
    Spurious,       \* whether pthread_cond_wait may return unsignalled
    MayFail         \* the calls that may fail: "affinity", "mmap", "create"

ASSUME /\ SAMPLE_US \in Nat /\ Stretch \in Nat /\ NR_SAMPLES \in Nat
       /\ nr_param \in Nat /\ act_sample \in Nat /\ MaxOnes \in Nat
       /\ FirstMeasurement \subseteq BOOLEAN /\ Spurious \in BOOLEAN
       /\ MayFail \subseteq {"affinity", "mmap", "create"}

VARIABLES
    mpc,                \* where measure_latency_pair is
    amount_of_times,    \* its count of attempts
    max_loops,          \* shared with the threads, kept between attempts
    ones,               \* attempts that ended with one timestamp
    result,             \* what the call returned
    pingpong_mutex,     \* "NULL" or "mapped": the pointer to the word
    word,               \* *pingpong_mutex: whose turn it is
    wait_for_buddy,     \* the flag of common_setup
    stop_loops,
    tpc,                \* where every thread is
    amount_of_loops, nr, timestamps_size,   \* the locals of a thread
    cache_pingpong_mutex,   \* the pointer a thread read after the setup
    sum                 \* the value a thread is about to store in stop_loops

mainv == <<mpc, amount_of_times, ones, result>>
sharedv == <<pingpong_mutex, word, wait_for_buddy, stop_loops, max_loops>>
threadv == <<tpc, amount_of_loops, nr, timestamps_size,
             cache_pingpong_mutex, sum>>
vars == <<mainv, sharedv, threadv>>

Threads == {0, 1}
even == 0
odd == 1
buddy(me) == 1 - me
NoResult == "none"

\* int wait_for_buddy = 1, and the value a rendezvous written the other way
\* round would start with.
wait_for_buddy_unset == 0
wait_for_buddy_at_start == 1

-----------------------------------------------------------------------------
(* measure_latency_pair *)

\* The head of the loop: the locals of an attempt, and the odd thread.
attempt ==
    /\ mpc = "attempt"
    /\ pingpong_mutex' = "NULL" /\ word' = 0
    /\ wait_for_buddy' = wait_for_buddy_at_start
    /\ stop_loops' = 0
    /\ tpc' = [t \in Threads |-> IF t = odd THEN "setup" ELSE "unborn"]
    /\ amount_of_loops' = [t \in Threads |-> 0]
    /\ nr' = [t \in Threads |-> 0]
    /\ timestamps_size' = [t \in Threads |-> 0]
    /\ cache_pingpong_mutex' = [t \in Threads |-> "NULL"]
    /\ sum' = [t \in Threads |-> 0]
    /\ mpc' = "create_even"
    /\ UNCHANGED <<amount_of_times, max_loops, ones, result>>

create_even ==
    /\ mpc = "create_even"
    /\ tpc' = [tpc EXCEPT ![even] = "setup"]
    /\ mpc' = "join"
    /\ UNCHANGED <<amount_of_times, ones, result, sharedv, amount_of_loops,
                   nr, timestamps_size, cache_pingpong_mutex, sum>>

\* exit(1): pthread_create failed, or sched_setaffinity or mmap of a thread.
exit_process ==
    /\ \/ mpc \in {"attempt", "create_even"} /\ "create" \in MayFail
       \/ \E t \in Threads : tpc[t] = "setup" /\ "affinity" \in MayFail
       \/ tpc[even] = "setup" /\ "mmap" \in MayFail
    /\ mpc # "exited"
    /\ mpc' = "exited"
    /\ tpc' = [t \in Threads |-> "gone"]
    /\ UNCHANGED <<amount_of_times, ones, result, sharedv, amount_of_loops,
                   nr, timestamps_size, cache_pingpong_mutex, sum>>

\* pthread_join of both threads has returned.
joined == mpc = "join" /\ \A t \in Threads : tpc[t] = "exited"

\* One timestamp: the attempt is made again and not counted.
again_uncounted ==
    /\ joined /\ timestamps_size[even] = 1
    /\ ones < MaxOnes
    /\ ones' = ones + 1
    /\ mpc' = "attempt"
    /\ UNCHANGED <<amount_of_times, result, sharedv, threadv>>

\* The same without amount_of_times++.
again_never_counted ==
    /\ joined /\ timestamps_size[even] \in {0, 2}
    /\ amount_of_times < NR_SAMPLES
    /\ mpc' = "attempt"
    /\ UNCHANGED <<amount_of_times, ones, result, sharedv, threadv>>

\* The same with <= for <: one attempt more than NR_SAMPLES.
again_once_more ==
    /\ joined /\ timestamps_size[even] \in {0, 2}
    /\ amount_of_times <= NR_SAMPLES
    /\ amount_of_times' = amount_of_times + 1
    /\ mpc' = "attempt"
    /\ UNCHANGED <<ones, result, sharedv, threadv>>

\* None or two: again, while amount_of_times is below NR_SAMPLES.
again ==
    /\ joined /\ timestamps_size[even] \in {0, 2}
    /\ amount_of_times < NR_SAMPLES
    /\ amount_of_times' = amount_of_times + 1
    /\ mpc' = "attempt"
    /\ UNCHANGED <<ones, result, sharedv, threadv>>

\* None or two, and no attempt left: -1.
give_up ==
    /\ joined /\ timestamps_size[even] \in {0, 2}
    /\ amount_of_times >= NR_SAMPLES
    /\ result' = "-1"
    /\ mpc' = "returned"
    /\ UNCHANGED <<amount_of_times, ones, sharedv, threadv>>

\* Three or more: the smallest distance of two timestamps is the latency.
best_sample ==
    /\ joined /\ timestamps_size[even] >= 3
    /\ result' = "best_sample"
    /\ mpc' = "returned"
    /\ UNCHANGED <<amount_of_times, ones, sharedv, threadv>>

proceed ==
    \/ attempt \/ create_even
    \/ again_uncounted \/ again \/ give_up \/ best_sample
measure_latency_pair == proceed \/ exit_process

-----------------------------------------------------------------------------
(* common_setup *)

\* sched_setaffinity, and the mmap of the word by the even thread.
pin_and_map(t) ==
    /\ tpc[t] = "setup"
    /\ IF t = even
       THEN pingpong_mutex' = "mapped" /\ word' = t
       ELSE UNCHANGED <<pingpong_mutex, word>>
    /\ tpc' = [tpc EXCEPT ![t] = "lock"]
    /\ UNCHANGED <<mainv, wait_for_buddy, stop_loops, max_loops,
                   amount_of_loops, nr, timestamps_size,
                   cache_pingpong_mutex, sum>>

\* Under wait_mutex, which makes this one step: the thread that finds the flag set clears it and waits,
\* the one that finds it clear sets it, wakes the waiter and goes on.
rendezvous(t) ==
    /\ tpc[t] = "lock"
    /\ IF wait_for_buddy # 0
       THEN /\ wait_for_buddy' = 0
            /\ tpc' = [tpc EXCEPT ![t] = "waiting"]
       ELSE /\ wait_for_buddy' = 1
            /\ tpc' = [u \in Threads |->
                          IF u = t THEN "fetch"
                          ELSE IF tpc[u] = "waiting" THEN "woken" ELSE tpc[u]]
    /\ UNCHANGED <<mainv, pingpong_mutex, word, stop_loops,
                   max_loops, amount_of_loops, nr, timestamps_size,
                   cache_pingpong_mutex, sum>>

\* pthread_cond_wait returns, with the mutex, and the thread unlocks it.
\* The flag is not looked at again.
wake(t) ==
    /\ tpc[t] = "woken" \/ (Spurious /\ tpc[t] = "waiting")
    /\ tpc' = [tpc EXCEPT ![t] = "fetch"]
    /\ UNCHANGED <<mainv, sharedv, amount_of_loops, nr, timestamps_size,
                   cache_pingpong_mutex, sum>>

common_setup(t) == pin_and_map(t) \/ rendezvous(t) \/ wake(t)

-----------------------------------------------------------------------------
(* thread_fn *)

\* The locals of thread_fn: the pointer to the word is read once.
fetch(t) ==
    /\ tpc[t] = "fetch"
    /\ cache_pingpong_mutex' =
           [cache_pingpong_mutex EXCEPT ![t] = pingpong_mutex]
    /\ tpc' = [tpc EXCEPT ![t] = "loop"]
    /\ UNCHANGED <<mainv, sharedv, amount_of_loops, nr, timestamps_size, sum>>

\* The head of the loop: has the thread looped enough, or has its own
\* timestamps enough?  Then it raises stop_loops, by 3 when it reads 1.
loop(t) ==
    /\ tpc[t] = "loop"
    /\ amount_of_loops' = [amount_of_loops EXCEPT ![t] = @ + 1]
    /\ tpc' = [tpc EXCEPT ![t] =
                  IF amount_of_loops[t] > max_loops
                     \/ timestamps_size[t] > act_sample
                  THEN IF stop_loops = 1 THEN "add3" ELSE "add1"
                  ELSE "test"]
    /\ UNCHANGED <<mainv, sharedv, nr, timestamps_size,
                   cache_pingpong_mutex, sum>>

\* *stop_loops += n is a load and a store, and the other thread may store
\* between them.
load(t) ==
    /\ tpc[t] \in {"add1", "add3"}
    /\ sum' = [sum EXCEPT ![t] =
                  stop_loops + (IF tpc[t] = "add3" THEN 3 ELSE 1)]
    /\ tpc' = [tpc EXCEPT ![t] = IF @ = "add3" THEN "store3" ELSE "store1"]
    /\ UNCHANGED <<mainv, sharedv, amount_of_loops, nr, timestamps_size,
                   cache_pingpong_mutex>>

\* After += 3 the thread leaves its count in max_loops and exits.
store(t) ==
    /\ tpc[t] \in {"store1", "store3"}
    /\ stop_loops' = sum[t]
    /\ IF tpc[t] = "store3"
       THEN max_loops' = amount_of_loops[t] /\
            tpc' = [tpc EXCEPT ![t] = "exited"]
       ELSE UNCHANGED max_loops /\ tpc' = [tpc EXCEPT ![t] = "test"]
    /\ UNCHANGED <<mainv, pingpong_mutex, word, wait_for_buddy,
                   amount_of_loops, nr, timestamps_size,
                   cache_pingpong_mutex, sum>>

\* if (*stop_loops > 2)
test(t) ==
    /\ tpc[t] = "test"
    /\ IF stop_loops > 2
       THEN max_loops' = amount_of_loops[t] /\
            tpc' = [tpc EXCEPT ![t] = "exited"]
       ELSE UNCHANGED max_loops /\ tpc' = [tpc EXCEPT ![t] = "swap"]
    /\ UNCHANGED <<mainv, pingpong_mutex, word, wait_for_buddy,
                   stop_loops, amount_of_loops, nr, timestamps_size,
                   cache_pingpong_mutex, sum>>

\* The compare-and-swap through the pointer read in fetch; a NULL pointer
\* ends the process with a fault.  The even thread takes a timestamp after
\* more than nr_param hand-overs; the count of the odd thread, which nothing
\* reads, is left at 0.
swap(t) ==
    /\ tpc[t] = "swap"
    /\ IF cache_pingpong_mutex[t] = "NULL"
       THEN /\ tpc' = [tpc EXCEPT ![t] = "fault"]
            /\ UNCHANGED <<word, nr, timestamps_size>>
       ELSE /\ tpc' = [tpc EXCEPT ![t] = "loop"]
            /\ IF word = t
               THEN LET stamp == nr[t] + 1 > nr_param /\ t = even
                    IN  /\ word' = buddy(t)
                        /\ nr' = [nr EXCEPT ![t] =
                                      CASE stamp -> 0
                                        [] t = odd -> @
                                        [] OTHER -> @ + 1]
                        /\ timestamps_size' =
                               [timestamps_size EXCEPT ![t] =
                                   IF stamp THEN @ + 1 ELSE @]
               ELSE UNCHANGED <<word, nr, timestamps_size>>
    /\ UNCHANGED <<mainv, pingpong_mutex, wait_for_buddy,
                   stop_loops, max_loops, amount_of_loops,
                   cache_pingpong_mutex, sum>>

thread_fn(t) ==
    \/ common_setup(t)
    \/ fetch(t) \/ loop(t) \/ load(t) \/ store(t) \/ test(t) \/ swap(t)

\* The call is over, the process is gone, or the bound of the model on the
\* attempts with one timestamp is reached.
Bounded == joined /\ timestamps_size[even] = 1 /\ ones = MaxOnes
returned ==
    /\ mpc \in {"returned", "exited"} \/ Bounded
       \/ \E t \in Threads : tpc[t] = "fault"
    /\ UNCHANGED vars

-----------------------------------------------------------------------------
Init ==
    /\ mpc = "attempt"
    /\ \E first_measurement \in FirstMeasurement :
          /\ amount_of_times = IF first_measurement THEN -2 ELSE 0
          /\ max_loops = IF first_measurement THEN SAMPLE_US * Stretch
                         ELSE SAMPLE_US
    /\ ones = 0 /\ result = NoResult
    /\ pingpong_mutex = "NULL" /\ word = 0
    /\ wait_for_buddy = 1 /\ stop_loops = 0
    /\ tpc = [t \in Threads |-> "unborn"]
    /\ amount_of_loops = [t \in Threads |-> 0]
    /\ nr = [t \in Threads |-> 0]
    /\ timestamps_size = [t \in Threads |-> 0]
    /\ cache_pingpong_mutex = [t \in Threads |-> "NULL"]
    /\ sum = [t \in Threads |-> 0]

Next == measure_latency_pair \/ (\E t \in Threads : thread_fn(t)) \/ returned

\* The three are kernel threads; each is pinned on a vCPU that runs.
Fairness ==
    /\ WF_vars(proceed)
    /\ \A t \in Threads : WF_vars(thread_fn(t))

Spec == Init /\ [][Next]_vars /\ Fairness

-----------------------------------------------------------------------------
\* The type of every variable.
TypeOK ==
    /\ mpc \in {"attempt", "create_even", "join", "returned", "exited"}
    /\ amount_of_times \in -2..NR_SAMPLES
    /\ max_loops \in Nat /\ ones \in 0..MaxOnes
    /\ result \in {NoResult, "-1", "best_sample"}
    /\ pingpong_mutex \in {"NULL", "mapped"} /\ word \in Threads
    /\ wait_for_buddy \in 0..1
    /\ stop_loops \in Nat
    /\ tpc \in [Threads -> {"unborn", "setup", "lock", "waiting", "woken",
                            "fetch", "loop", "add1", "add3", "store1",
                            "store3", "test", "swap", "exited", "fault",
                            "gone"}]
    /\ amount_of_loops \in [Threads -> Nat]
    /\ nr \in [Threads -> 0..nr_param]
    /\ timestamps_size \in [Threads -> Nat]
    /\ cache_pingpong_mutex \in [Threads -> {"NULL", "mapped"}]
    /\ sum \in [Threads -> Nat]

\* As long as pthread_cond_wait returns only when it is signalled (Spurious
\* is FALSE), no thread leaves common_setup before the even thread has
\* mapped the word: the odd thread, which pthread_create starts first and
\* which maps nothing, reads the pointer only after the rendezvous on
\* wait_for_buddy, so that no compare-and-swap goes through NULL
\* (vtop.c:123-145, 160, 181).  The wait of line 132 stands in an if, not
\* in a loop: with a wake-up nobody signalled the odd thread goes on with
\* the pointer unset, and the property does not hold.
MappedBeforeUse ==
    \A t \in Threads :
        /\ tpc[t] # "fault"
        /\ tpc[t] \in {"loop", "add1", "add3", "store1", "store3", "test",
                       "swap"} => cache_pingpong_mutex[t] = "mapped"

\* measure_latency_pair returns: the two threads stop each other through
\* stop_loops whatever the order of their loads and stores (vtop.c:164-178),
\* both are joined, and the attempts come to an end, as long as not every
\* attempt ends with exactly one timestamp (vtop.c:304-311) and no wait
\* returns unsignalled (Spurious is FALSE).
MeasurementReturns ==
    <>(mpc \in {"returned", "exited"} \/ Bounded)
=============================================================================
