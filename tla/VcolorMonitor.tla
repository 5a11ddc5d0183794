--------------------------- MODULE VcolorMonitor ---------------------------
(***************************************************************************)
(* The hotness monitor of vcolor, src/src/vcolor.c: after the colours are  *)
(* written to the allocator, main() scans the LLC once a period, smooths   *)
(* the eviction rate of every colour, and tells the kernel module          *)
(* (src/kern_mods/vcolor_km/vcolor_km.c) in which order to hand out        *)
(* colours and which colour is the hottest.  The hottest colour is         *)
(* replaced only by a colour seen a level above it three scans in a row.   *)
(* The scan itself is the subject of module HotnessScan.                   *)
(***************************************************************************)

EXTENDS HotnessScan, Sequences, FiniteSets, SequencesExt

CONSTANTS MayBeUnbuilt, \* the colours that may be left without eviction set
          MaxLost       \* bound on the writes to the module that fail

ASSUME MayBeUnbuilt \subseteq Colors /\ MaxLost \in Nat

VARIABLES
    pc,                     \* where main() is: "first", "order", "scan", "rank"
    unbuilt,                \* the colours with ctx.color_counts[c] = 0
    n_pairs,                \* ctx.n_pairs
    ewma,                   \* ctx.ewma
    hottest, change_cnt, prev_cand, last_order,     \* the locals of main()
    vcolor_order, vcolor_hottest,                   \* the kernel's copy
    lost,                   \* history: the writes that failed
    seen                    \* history: the candidates of the last three
                            \* scans, NoColor for one that did not qualify

scanv == <<unbuilt, n_pairs, ewma>>
mainv == <<hottest, change_cnt, prev_cand, last_order>>
kernv == <<vcolor_order, vcolor_hottest>>
vars  == <<pc, scanv, mainv, kernv, lost, seen>>

NoColor == NColors

-----------------------------------------------------------------------------
(* The ranking of the colours.                                             *)

\* hot_level: the thresholds 40, 65 and 85 percent that h has reached.  A
\* NaN fails all three tests "pct <" and falls through to level 3.
hot_level(h) ==
    IF h = NaN THEN 3
    ELSE Cardinality({t \in {40, 65, 85} : h * 100 >= t * Scale})

\* cmp_hot(a, b) > 0: a is to stand after b.  False when either is NaN.
cmp_hot_after(a, b) == a # NaN /\ b # NaN /\ a < b

\* The orders qsort may leave in tmp[]: no neighbours the wrong way round.
\* qsort is not stable, so equal colours come in any order.
Orders == SetToSeqs(Colors)

Sorted(e) ==
    { s \in Orders :
        \A i \in 1..(NColors - 1) : ~cmp_hot_after(e[s[i]], e[s[i + 1]]) }

build_sorted_order_twice(sorted, first) == <<first>> \o sorted

build_sorted_order(sorted, first) == <<first>> \o Remove(sorted, first)

-----------------------------------------------------------------------------
(* The kernel module: the two commands main() sends.                       *)

\* "order c0 c1 ...": the colours named, then the others in rising order.
order_cmd(o) ==
    /\ vcolor_order' = o \o SetToSortSeq(Colors \ ToSet(o), <)
    /\ vcolor_hottest' = o[1]

\* "hot c": c moves to the front of the order.
hot_cmd(c, order) ==
    /\ vcolor_order' = <<c>> \o Remove(order, c)
    /\ vcolor_hottest' = c

\* write_order alone; the write is lost when the module cannot be opened.
write_order(o, ok) ==
    /\ IF ok THEN order_cmd(o) ELSE UNCHANGED kernv
    /\ lost' = lost + (IF ok THEN 0 ELSE 1)
    /\ lost' <= MaxLost

\* write_order, then write_hot, each of which may be lost.
write_order_and_hot(o, h, ok_o, ok_h) ==
    LET after_o == IF ok_o THEN o ELSE vcolor_order
    IN  /\ IF ok_h THEN hot_cmd(h, after_o)
           ELSE IF ok_o THEN order_cmd(o) ELSE UNCHANGED kernv
        /\ lost' = lost + Cardinality({x \in {<<1, ok_o>>, <<2, ok_h>>} : ~x[2]})
        /\ lost' <= MaxLost

-----------------------------------------------------------------------------
(* The pieces of the loop body.                                            *)

Qualifies(cand) ==
    /\ cand # hottest
    /\ hot_level(ewma[cand]) - hot_level(ewma[hottest]) >= 1

Counted_any(cand) ==
    IF Qualifies(cand) THEN change_cnt + 1 ELSE 0

\* change_cnt after lines 747-757.
Counted(cand) ==
    IF Qualifies(cand)
    THEN IF cand = prev_cand THEN change_cnt + 1 ELSE 1
    ELSE 0

Differs_in_head(order) == order[1] # last_order[1]

\* memcmp(order, last_order, sizeof(u32) * n_colors)
Differs(order) == order # last_order

Last3(s) == SubSeq(s, Len(s) - 2, Len(s))

Observe(cand) ==
    seen' = LET s == Append(seen, IF Qualifies(cand) THEN cand ELSE NoColor)
            IN  IF Len(s) > 3 THEN Last3(s) ELSE s

-----------------------------------------------------------------------------
Init ==
    /\ pc = "first"
    /\ unbuilt \in SUBSET MayBeUnbuilt
    /\ n_pairs = NPairsInit
    /\ ewma = [c \in Colors |-> 0]
    /\ hottest = NoColor /\ change_cnt = 0 /\ prev_cand = NoColor
    /\ last_order = <<>>
    /\ vcolor_order = SetToSortSeq(Colors, <)
    /\ vcolor_hottest = 0
    /\ lost = 0
    /\ seen = <<>>

\* scan_iteration: a pthread_create that fails at pair np cuts n_pairs to
\* np for good.  The first scan sets the averages, the others smooth them.
scan_iteration ==
    /\ pc \in {"first", "scan"}
    /\ \E np \in 0..n_pairs : \E rates \in Measured(unbuilt, np) :
        /\ n_pairs' = np
        /\ unbuilt' = unbuilt
        /\ ewma' = IF pc = "first" THEN rates ELSE update_ewma(ewma, rates)
    /\ pc' = IF pc = "first" THEN "order" ELSE "rank"
    /\ UNCHANGED <<mainv, kernv, lost, seen>>

\* Lines 711-731: the first order and the first hottest colour.
first_order ==
    /\ pc = "order"
    /\ \E sorted \in Sorted(ewma), ok_o \in BOOLEAN, ok_h \in BOOLEAN :
        /\ hottest' = sorted[1]
        /\ prev_cand' = sorted[1]
        /\ change_cnt' = 0
        /\ last_order' = build_sorted_order(sorted, sorted[1])
        /\ write_order_and_hot(last_order', sorted[1], ok_o, ok_h)
    /\ pc' = "scan"
    /\ UNCHANGED <<scanv, seen>>

\* Lines 759-767: the candidate has been counted three times.
promote ==
    /\ pc = "rank"
    /\ \E sorted \in Sorted(ewma), ok_o \in BOOLEAN, ok_h \in BOOLEAN :
        LET cand == sorted[1] IN
        /\ Counted(cand) >= 3
        /\ hottest' = cand
        /\ change_cnt' = 0
        /\ prev_cand' = cand
        /\ last_order' = build_sorted_order(sorted, cand)
        /\ write_order_and_hot(last_order', cand, ok_o, ok_h)
        /\ Observe(cand)
    /\ pc' = "scan"
    /\ UNCHANGED scanv

\* Lines 768-773: the hottest colour stays, the order behind it changed.
reorder ==
    /\ pc = "rank"
    /\ \E sorted \in Sorted(ewma), ok \in BOOLEAN :
        LET cand  == sorted[1]
            order == build_sorted_order(sorted, hottest) IN
        /\ Counted(cand) < 3
        /\ Differs(order)
        /\ change_cnt' = Counted(cand)
        /\ prev_cand' = cand
        /\ last_order' = order
        /\ write_order(order, ok)
        /\ Observe(cand)
    /\ pc' = "scan"
    /\ UNCHANGED <<scanv, hottest>>

\* Lines 768-770: nothing to tell the module.
keep ==
    /\ pc = "rank"
    /\ \E sorted \in Sorted(ewma) :
        LET cand == sorted[1] IN
        /\ Counted(cand) < 3
        /\ ~Differs(build_sorted_order(sorted, hottest))
        /\ change_cnt' = Counted(cand)
        /\ prev_cand' = cand
        /\ Observe(cand)
    /\ pc' = "scan"
    /\ UNCHANGED <<scanv, hottest, last_order, kernv, lost>>

Next == scan_iteration \/ first_order \/ promote \/ reorder \/ keep

Spec == Init /\ [][Next]_vars

-----------------------------------------------------------------------------
\* The type of every variable.
TypeOK ==
    /\ pc \in {"first", "order", "scan", "rank"}
    /\ unbuilt \subseteq Colors
    /\ n_pairs \in 0..NPairsInit
    /\ ewma \in [Colors -> Hot]
    /\ hottest \in Colors \cup {NoColor}
    /\ prev_cand \in Colors \cup {NoColor}
    /\ change_cnt \in 0..2
    /\ last_order \in Orders \cup {<<>>}
    /\ vcolor_order \in Orders
    /\ vcolor_hottest \in Colors
    /\ lost \in 0..MaxLost
    /\ seen \in UNION {[1..n -> Colors \cup {NoColor}] : n \in 0..3}

\* The hysteresis of the comment above hot_level (vcolor.c:468-477): the
\* hottest colour is replaced only by the colour that was the top of the
\* sorted order, a level or more above the hottest, in each of the last
\* three scans.  Two colours that take turns at the top never replace it.
HottestNeedsThreeScans ==
    [][hottest # NoColor /\ hottest' # hottest
         => seen' = <<hottest', hottest', hottest'>>]_vars

\* As long as no write to the module has failed, the allocator works, from
\* one scan to the next, with the ranking of the last scan: the hottest
\* colour main() holds, then the other colours by falling smoothed rate.
\* This is about what promote, reorder and keep decide to send or not to
\* send (vcolor.c:759-774, the memcmp with last_order included) and about
\* what the handlers of "order" and "hot" make of it (vcolor_km.c:86-129).
KernelFollowsMonitor ==
    (lost = 0 /\ pc = "scan")
        => /\ vcolor_hottest = hottest
           /\ vcolor_order \in {build_sorted_order(s, hottest) : s \in Sorted(ewma)}
=============================================================================
