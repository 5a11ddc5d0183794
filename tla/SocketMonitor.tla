--------------------------- MODULE SocketMonitor ----------------------------
(***************************************************************************)
(* The eviction-rate monitor of vset for several sockets,                  *)
(* monitor_eviction_rate_multi in src/src/vset_ops.c: every round measures *)
(* the share of evicted lines per socket, smooths it, and adapts the wait  *)
(* of the probes: shorter after saturated rounds, back to the value of -w  *)
(* after a round in which every socket is idle.  The loop runs for the     *)
(* number of rounds asked for, or for ever.                                *)
(*                                                                         *)
(* A rate is a fraction k / Scale, what a round measures is an input, and  *)
(* the smoother rounds toward the new measurement, as in HotnessScan.      *)
(***************************************************************************)

EXTENDS Integers, Sequences, FiniteSets

CONSTANTS NSockets,        \* n_sockets
          MayHaveNoPairs,  \* the sockets that may have n_pairs = 0
          Scale,           \* a rate is k / Scale
          Rates,           \* the rates a round may measure
          AlphaRise,       \* lcas_alpha_rise, in percent
          AlphaFall,       \* lcas_alpha_fall, in percent
          BaseWaits,       \* the values of -w explored, in microseconds
          FixWait,         \* the values of fix_wait explored
          Iterations       \* the values of iterations explored, 0: no end

Sockets == 0..(NSockets - 1)

ASSUME /\ NSockets \in Nat \ {0} /\ MayHaveNoPairs \subseteq Sockets
       /\ Scale \in Nat \ {0} /\ Rates \subseteq 0..Scale
       /\ AlphaRise \in 0..100 /\ AlphaFall \in 0..100
       /\ BaseWaits \subseteq Nat \ {0} /\ FixWait \subseteq BOOLEAN
       /\ Iterations \subseteq Nat

VARIABLES
    pc,                     \* "loop", "done"
    iterations,
    it,                     \* the round, kept only when iterations > 0
    first,
    no_pairs,               \* the sockets with sockets[s].n_pairs = 0
    ewma,
    fix_wait, og_wait_time_us, wait_time_us, consec_shrink_high,
    round,                  \* history: what the last round found,
                            \* "hot", "cold" or "mid"
    before                  \* history: what the last round before it that
                            \* was not "cold" found

waitv == <<wait_time_us, consec_shrink_high>>
vars  == <<pc, iterations, it, first, no_pairs, ewma, fix_wait,
           og_wait_time_us, waitv, round, before>>

\* Lines 2576-2582.
Smooth(old, evpct) ==
    IF evpct > old
    THEN (AlphaRise * old + (100 - AlphaRise) * evpct + 99) \div 100
    ELSE (AlphaFall * old + (100 - AlphaFall) * evpct) \div 100

\* n_hot_socket == n_sockets, n_cold_socket == n_sockets; a socket without
\* pairs is counted in neither.
Found(e) ==
    LET hot  == {s \in Sockets \ no_pairs : e[s] * 100 >= 95 * Scale}
        cold == {s \in Sockets \ no_pairs : e[s] * 100 <= 20 * Scale}
    IN  IF hot = Sockets THEN "hot" ELSE IF cold = Sockets THEN "cold" ELSE "mid"

Moved_without_reset(found) ==
    IF fix_wait \/ wait_time_us <= 1000
    THEN [cnt |-> consec_shrink_high, wait |-> wait_time_us]
    ELSE LET cnt  == consec_shrink_high + (IF found = "hot" THEN 1 ELSE 0)
             wait == IF found = "cold" THEN og_wait_time_us ELSE wait_time_us
         IN  IF cnt >= 2 THEN [cnt |-> 0, wait |-> wait - 1000]
             ELSE [cnt |-> cnt, wait |-> wait]

\* Lines 2609-2620: consec_shrink_high and wait_time_us after a round.
Moved(found) ==
    IF fix_wait \/ wait_time_us <= 1000
    THEN [cnt |-> consec_shrink_high, wait |-> wait_time_us]
    ELSE LET cnt  == CASE found = "hot"  -> consec_shrink_high + 1
                       [] found = "cold" -> consec_shrink_high
                       [] OTHER          -> 0
             wait == IF found = "cold" THEN og_wait_time_us ELSE wait_time_us
         IN  IF cnt >= 2 THEN [cnt |-> 0, wait |-> wait - 1000]
             ELSE [cnt |-> cnt, wait |-> wait]

-----------------------------------------------------------------------------
Init ==
    /\ pc = "loop"
    /\ iterations \in Iterations
    /\ it = 0
    /\ first = TRUE
    /\ no_pairs \in SUBSET MayHaveNoPairs
    /\ ewma = [s \in Sockets |-> 0]
    /\ fix_wait \in FixWait
    /\ og_wait_time_us \in BaseWaits
    /\ wait_time_us = og_wait_time_us
    /\ consec_shrink_high = 0
    /\ round = "mid" /\ before = "mid"

\* Lines 2542-2627: one round; the last one leaves the loop.
measure ==
    /\ pc = "loop"
    /\ \E evpct \in [Sockets -> Rates] :
        ewma' = [s \in Sockets |->
                   IF s \in no_pairs THEN ewma[s]
                   ELSE IF first THEN evpct[s] ELSE Smooth(ewma[s], evpct[s])]
    /\ consec_shrink_high' = Moved(Found(ewma')).cnt
    /\ wait_time_us' = Moved(Found(ewma')).wait
    /\ round' = Found(ewma')
    /\ before' = IF round = "cold" THEN before ELSE round
    /\ IF iterations > 0 /\ it + 1 >= iterations
       THEN pc' = "done" /\ UNCHANGED <<it, first>>
       ELSE /\ pc' = "loop" /\ first' = FALSE
            /\ it' = IF iterations > 0 THEN it + 1 ELSE it
    /\ UNCHANGED <<iterations, no_pairs, fix_wait, og_wait_time_us>>

\* Lines 2629-2668: the monitor has returned.
returned == pc = "done" /\ UNCHANGED vars

Next == measure \/ returned

Spec == Init /\ [][Next]_vars

-----------------------------------------------------------------------------
\* The type of every variable.
TypeOK ==
    /\ pc \in {"loop", "done"}
    /\ iterations \in Iterations
    /\ it \in Nat /\ (iterations > 0 => it < iterations)
    /\ first \in BOOLEAN
    /\ no_pairs \subseteq Sockets
    /\ ewma \in [Sockets -> 0..Scale]
    /\ fix_wait \in BOOLEAN
    /\ og_wait_time_us \in BaseWaits
    /\ wait_time_us \in 1..og_wait_time_us
    /\ consec_shrink_high \in 0..1
    /\ round \in {"hot", "cold", "mid"} /\ before \in {"hot", "mid"}

\* The adaptive wait of the multi-socket monitor (vset_ops.c:2609-2620): the
\* wait gets 1000 us shorter only in a round that finds every socket
\* saturated when the last round before it that was not idle did so too, it
\* never reaches zero, and it gets longer only by going back to the value
\* of -w in a round that finds every socket idle.
WaitFollowsRounds ==
    [][/\ wait_time_us' < wait_time_us
          => /\ wait_time_us' = wait_time_us - 1000 /\ wait_time_us' > 0
             /\ round' = "hot" /\ before' = "hot"
       /\ wait_time_us' > wait_time_us
          => wait_time_us' = og_wait_time_us /\ round' = "cold"]_vars
=============================================================================
