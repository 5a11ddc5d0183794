----------------------------- MODULE MCProber ------------------------------
(***************************************************************************)
(* The topology prober for TLC, each of its two levels checked from its    *)
(* own start: the detection with the placement of the thread pairs (Vtop), *)
(* and one ping-pong measurement of the detection (PingPong).  Vtop takes  *)
(* from a measurement only its answer, a latency or -1, so a behaviour of  *)
(* this module is a behaviour of the one level that level names, and the   *)
(* variables of the other keep the values of their start.                  *)
(***************************************************************************)
EXTENDS Vtop

CONSTANTS SAMPLE_US, Stretch, NR_SAMPLES, nr_param, act_sample,
          FirstMeasurement, MaxOnes, Spurious, PingMayFail,
          Levels          \* the levels explored: "detect", "measure"

ASSUME Levels \subseteq {"detect", "measure"} /\ FALSE \in FirstMeasurement

VARIABLES
    level,
    mpc, amount_of_times, max_loops, ones, result, pingpong_mutex, word,
    wait_for_buddy, stop_loops, tpc, amount_of_loops, nr, timestamps_size,
    cache_pingpong_mutex, sum

Ping == INSTANCE PingPong WITH MayFail <- PingMayFail

ping_vars ==
    <<mpc, amount_of_times, max_loops, ones, result, pingpong_mutex, word,
      wait_for_buddy, stop_loops, tpc, amount_of_loops, nr, timestamps_size,
      cache_pingpong_mutex, sum>>
mc_vars == <<level, vars, ping_vars>>

\* A level that is not explored starts with every vCPU on one hardware
\* thread, or as a measurement after the first; it never takes a step.
MCInit ==
    /\ level \in Levels
    /\ Init
    /\ level # "detect" =>
          /\ \A i, j \in Cpus : truth[i][j] = 1
          /\ user = CHOOSE u \in Users : TRUE
    /\ Ping!Init /\ (level # "measure" => amount_of_times = 0)

Detect(A) == level = "detect" /\ A /\ UNCHANGED <<level, ping_vars>>
Measure(A) == level = "measure" /\ A /\ UNCHANGED <<level, vars>>

MCNext == Detect(Next) \/ Measure(Ping!Next)

\* The three threads of a measurement are kernel threads, each pinned on a
\* vCPU that runs (see PingPong); nothing is assumed of the detection.
MCSpec ==
    /\ MCInit /\ [][MCNext]_mc_vars
    /\ WF_mc_vars(Measure(Ping!proceed))
    /\ \A t \in Ping!Threads : WF_mc_vars(Measure(Ping!thread_fn(t)))

-----------------------------------------------------------------------------
\* The type of every variable of the two levels.
MCTypeOK == level \in Levels /\ TypeOK /\ Ping!TypeOK

\* perform_probing never has a pair for its worker threads: every class no
\* leader measured is inferred, and never closer than the host has the two
\* vCPUs (vtop.c:404-420, 579-658); see Vtop.
ProbingIsInference == NothingLeftToProbe /\ InferredNeverCloser

\* No thread of the ping-pong leaves common_setup before the even thread
\* has mapped the word, as long as no wait returns unsignalled
\* (vtop.c:112-145); see PingPong.
MappedBeforeUse == Ping!MappedBeforeUse

\* measure_latency_pair returns, whatever the order of the loads and stores
\* of stop_loops, as long as no wait returns unsignalled
\* (vtop.c:164-178, 296-329); see PingPong.
MeasurementReturns == level = "measure" => Ping!MeasurementReturns
=============================================================================
