---------------------------- MODULE HotnessScan -----------------------------
(***************************************************************************)
(* One scan of the colour monitors: scan_iteration and update_ewma, which  *)
(* src/src/vcolor.c and src/src/vset.c both carry.  The worker pairs probe *)
(* the eviction sets of their colours (l2c_occ_worker, vset_ops.c) and     *)
(* leave the evicted lines per colour in tot_avg; the rate of a colour is  *)
(* that count over n_ways * color_counts[c], and the smoother moves the    *)
(* average of the colour toward it.                                        *)
(*                                                                         *)
(* A rate is a fraction k / Scale; what a scan measures is an input.  The  *)
(* smoother works on that grid and rounds toward the new measurement, so   *)
(* that a rate that persists is reached, as every threshold short of it is *)
(* crossed in f64.  One more value of f64 is kept, because the control     *)
(* depends on it: NaN, the rate 0.0 / 0 of a colour without eviction set.  *)
(***************************************************************************)

EXTENDS Integers

CONSTANTS NColors,      \* ctx.n_colors
          NPairsInit,   \* ctx.n_pairs as the context is set up
          Scale,        \* a rate is k / Scale
          Rates,        \* the rates a scan may measure
          AlphaRise,    \* ctx.alpha_rise, in percent
          AlphaFall     \* ctx.alpha_fall, in percent

Colors == 0..(NColors - 1)

ASSUME /\ NColors \in Nat \ {0} /\ NPairsInit \in 1..NColors
       /\ Scale \in Nat \ {0} /\ Rates \subseteq 0..Scale
       /\ AlphaRise \in 0..100 /\ AlphaFall \in 0..100

NaN == -1
Hot == 0..Scale \cup {NaN}

\* The worker pair that probes colour c: init_scan_ctx gives pair i the
\* next base + (i < extra) colours.
start_color(i) ==
    LET base  == NColors \div NPairsInit
        extra == NColors % NPairsInit
    IN  i * base + (IF i < extra THEN i ELSE extra)

PairOf == [c \in Colors |-> CHOOSE i \in 0..(NPairsInit - 1) :
                 start_color(i) <= c /\ c < start_color(i + 1)]

\* What scan_iteration may leave in rates[c] when np pairs run: tot_avg of a
\* colour nobody probes stays 0, and the division by n_ways * 0 gives NaN.
Outcomes(unbuilt, c, np) ==
    IF c \in unbuilt THEN {NaN}
    ELSE IF PairOf[c] >= np THEN {0} ELSE Rates

Measured(unbuilt, np) ==
    { r \in [Colors -> Rates \cup {0, NaN}] :
        \A c \in Colors : r[c] \in Outcomes(unbuilt, c, np) }

\* The smoothed rate of one colour; every operation on a NaN gives NaN.
Smooth(old, r) ==
    IF NaN \in {old, r} THEN NaN
    ELSE IF r > old
         THEN (AlphaRise * old + (100 - AlphaRise) * r + 99) \div 100
         ELSE (AlphaFall * old + (100 - AlphaFall) * r) \div 100

\* update_ewma
update_ewma(ewma, rates) == [c \in Colors |-> Smooth(ewma[c], rates[c])]

\* ewma[c] >= pct / 100 and ewma[c] <= pct / 100; false of a NaN.
AtLeast(h, pct) == h # NaN /\ h * 100 >= pct * Scale
AtMost(h, pct)  == h # NaN /\ h * 100 <= pct * Scale
=============================================================================
