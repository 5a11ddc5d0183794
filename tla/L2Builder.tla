----------------------------- MODULE L2Builder ------------------------------
(***************************************************************************)
(* The L2 eviction-set builder of src/src/evset.c: build_l2_evset builds   *)
(* one verified eviction set for every L2 colour, each with                *)
(* build_single_l2_evset, which retries build_evset_zhao with a new target *)
(* when what it built has the wrong size or does not evict.  When a colour *)
(* is missing at the end, the whole procedure starts again from fresh      *)
(* memory, max_whole_ret times at most.                                    *)
(*                                                                         *)
(* All that is kept of a line is its L2 colour, so the candidate array is  *)
(* the number of lines it holds of every colour, and an eviction set that  *)
(* passed the size check and a verification is n_ways lines of one colour  *)
(* (module EvsetBuild shows what build_evset_zhao returns).  The order of  *)
(* the candidates in memory is not known to the program: "the first        *)
(* candidate that ..." is any candidate that does.  As in EvsetBuild the   *)
(* measurement errs on one side: at most MaxMiss times it answers FAIL     *)
(* where the truth is OK.                                                  *)
(***************************************************************************)

EXTENDS Integers, FiniteSets, FiniteSetsExt, Functions

CONSTANTS W,            \* l2_info.n_ways
          UnknownSib,   \* l2_info.unknown_sib
          NOffsets,     \* PAGE_SIZE / l2_info.cl_size
          NumSets,      \* the values of num_sets explored
          CandScale,    \* def_l2_build_conf.cand_scale
          NRetries,     \* def_l2_build_conf.n_retries
          MaxWholeRet,  \* def_l2_build_conf.max_whole_ret
          MaxMiss       \* bound on the false FAILs of a run

ASSUME /\ W \in Nat \ {0} /\ UnknownSib \in Nat /\ NOffsets \in Nat \ {0}
       /\ NumSets \subseteq Nat \ {0} /\ CandScale \in Nat \ {0}
       /\ NRetries \in Nat \ {0} /\ MaxWholeRet \in Nat /\ MaxMiss \in Nat

VARIABLES
    pc,
    num_sets,         \* the argument of build_l2_evset
    whole_ret,
    i,                \* the set being built
    pool,             \* cands: the lines left of every colour
    target,           \* the colour of target
    curr_target,      \* the colour of build_single_l2_evset's curr_target
    n_ret,
    evset,            \* the colour of the set build_single_l2_evset returned
    sets,             \* l2_evset_complex[0]
    built,            \* the sets whose lines built_evset_addrs holds, kept
                      \* after the free of line 1351 until the next round
    result,           \* what build_l2_evset returns
    misses,           \* the false FAILs so far
    screen_missed     \* history: a target of this round passed the test
                      \* of line 1204 by a false FAIL

callv == <<curr_target, n_ret>>
vars  == <<pc, num_sets, whole_ret, i, pool, target, callv, evset, sets,
           built, result, misses, screen_missed>>

n_uncertain_sets == 2 ^ UnknownSib
Colours == 1..n_uncertain_sets
NoLine  == 0
NoSet   == [t |-> NoLine, c |-> NoLine]

\* Lines 1102-1108: the colours this call builds.
uncertain_sets_to_build ==
    Min({(num_sets + NOffsets - 1) \div NOffsets, n_uncertain_sets})

Slots == 0..(uncertain_sets_to_build - 1)

\* cands->count of a fresh pool (line 1159), and of the pool as it is.
n_cands_init == W * n_uncertain_sets * CandScale
count == SumFunction(pool)

\* The colourings fresh memory can have.
Pools == {p \in [Colours -> 0..n_cands_init] : SumFunction(p) = n_cands_init}

-----------------------------------------------------------------------------
(* The steps below with a plausible slip in each *)

\* The set is verified against the target it was last built for.
verify_target_is_current == curr_target

\* A round that failed is not counted.
whole_ret_uncounted == whole_ret

-----------------------------------------------------------------------------
(* Pieces of the steps *)

\* What test_eviction answers when the truth is evicts.
test_eviction(evicts, res) ==
    \/ res = evicts /\ misses' = misses
    \/ evicts /\ ~res /\ misses < MaxMiss /\ misses' = misses + 1

\* Lines 1203-1207: the lines of built_evset_addrs evict a candidate when a
\* set recorded there is of its colour; nothing is tested while the array is
\* empty.
Conflicts(d) == \E k \in built : sets[k].c = d

\* The call of line 1251: the locals of build_single_l2_evset at its loop.
build_single_l2_evset(t) ==
    /\ curr_target' = t
    /\ n_ret' = NRetries
    /\ pc' = "single"

\* With an exact test build_evset_zhao leaves n_ways lines congruent with
\* the target when the candidates hold them, and it gives up at once on a
\* pool of one line or none (line 818).
Buildable == count > 1 /\ pool[curr_target] >= W

\* cands->addrs[j] leaves the pool (swap with the last line, count--).
Take(d) == pool' = [pool EXCEPT ![d] = @ - 1]

\* The target the set of line 1256 is verified against.
verify_target == target

\* The round counter after a round that left a colour out (line 1378).
whole_ret_next == whole_ret + 1

\* Lines 1357-1361.
success_count == Cardinality({k \in Slots : sets[k] # NoSet})

\* Lines 1335-1347: every set is shifted to every cache-line offset of the
\* page, which keeps the colour of its lines and of its target.
l2_evset_complex == [n \in 0..(NOffsets - 1) |-> sets]

\* The self-check that runs with -d (lines 1448-1496) on one row.
repeat_found(row) ==
    \/ \E k \in Slots : row[k] = NoSet
    \/ \E j, k \in Slots : j < k /\ row[j].c = row[k].c

-----------------------------------------------------------------------------
Init ==
    /\ pc = "begin"
    /\ num_sets \in NumSets
    /\ whole_ret = 0 /\ i = 0
    /\ pool = [d \in Colours |-> 0]
    /\ target = NoLine /\ curr_target = NoLine /\ n_ret = 0
    /\ evset = NoLine
    /\ sets = [k \in Slots |-> NoSet]
    /\ built = {}
    /\ result = "none"
    /\ misses = 0 /\ screen_missed = FALSE

\* Lines 1124-1190 and 1251: a round starts from fresh memory, the first
\* line of which is the target of set 0.
round_begin ==
    /\ pc = "begin"
    /\ sets' = [k \in Slots |-> NoSet]
    /\ pool' \in Pools
    /\ target' \in Colours
    /\ i' = 0
    /\ screen_missed' = FALSE
    /\ build_single_l2_evset(target')
    /\ UNCHANGED <<num_sets, whole_ret, evset, built, result, misses>>

\* Lines 1143-1178: no memory for the table or for the candidates.
round_no_memory ==
    /\ pc = "begin"
    /\ result' = "NULL"
    /\ pc' = "done"
    /\ UNCHANGED <<num_sets, whole_ret, i, pool, target, callv, evset, sets,
                   built, misses, screen_missed>>

\* The end of the body of the loop of line 1187.
next_set ==
    /\ i' = i + 1
    /\ pc' = IF i + 1 < uncertain_sets_to_build THEN "set" ELSE "shift"

\* Lines 1192-1251: the target of a later set is the first candidate the
\* sets built so far do not evict.
pick_target ==
    /\ pc = "set"
    /\ \E d \in Colours :
        /\ pool[d] > 0
        /\ test_eviction(Conflicts(d), FALSE)
        /\ screen_missed' = (screen_missed \/ Conflicts(d))
        /\ target' = d
        /\ Take(d)
        /\ build_single_l2_evset(d)
    /\ UNCHANGED <<num_sets, whole_ret, i, evset, sets, built, result>>

\* Lines 1245-1248: every candidate is evicted, the set is left out.
no_target ==
    /\ pc = "set"
    /\ \A d \in Colours : pool[d] > 0 => Conflicts(d)
    /\ next_set
    /\ UNCHANGED <<num_sets, whole_ret, pool, target, callv, evset, sets,
                   built, result, misses, screen_missed>>

\* Lines 955-969: no memory for the set; the call returns NULL before its
\* first attempt.
single_no_memory ==
    /\ pc = "single"
    /\ n_ret = NRetries
    /\ next_set
    /\ UNCHANGED <<num_sets, whole_ret, pool, target, callv, evset, sets,
                   built, result, misses, screen_missed>>

\* Lines 979-986, 1026-1028 and 1075-1086: an attempt that leaves a set of
\* n_ways lines that evicts curr_target.
attempt_builds ==
    /\ pc = "single"
    /\ Buildable
    /\ evset' = curr_target
    /\ pc' = "verify"
    /\ UNCHANGED <<num_sets, whole_ret, i, pool, target, callv, sets, built,
                   result, misses, screen_missed>>

\* Lines 986-1023 and 1027-1074: an attempt that does not; it costs a retry
\* and the next one is for the first candidate left, of whatever colour.
\* Out of retries or out of candidates the call returns NULL.
attempt_fails ==
    /\ pc = "single"
    /\ test_eviction(Buildable, FALSE)
    /\ n_ret' = n_ret - 1
    /\ \/ /\ count = 0
          /\ next_set
          /\ UNCHANGED <<pool, curr_target>>
       \/ \E d \in Colours :
            /\ pool[d] > 0
            /\ Take(d)
            /\ curr_target' = d
            /\ IF n_ret' > 0 THEN pc' = "single" /\ i' = i ELSE next_set
    /\ UNCHANGED <<num_sets, whole_ret, target, evset, sets, built, result,
                   screen_missed>>

\* Lines 1253-1327: the set is kept when one of three verifications against
\* the target of line 1251 passes.  Its lines leave the candidates when
\* there is memory for new_all_addrs (line 1287), and they are screened
\* against from then on when there is memory for new_built as well
\* (line 1312); the set stays in the table in every case.
verify_keeps ==
    /\ pc = "verify"
    /\ test_eviction(evset = verify_target, TRUE)
    /\ sets' = [sets EXCEPT ![i] = [t |-> target, c |-> evset]]
    /\ \E new_all_addrs, new_built \in BOOLEAN :
        /\ pool' = IF new_all_addrs THEN [pool EXCEPT ![evset] = @ - W]
                                    ELSE pool
        /\ built' = IF new_all_addrs /\ new_built THEN built \cup {i}
                                                  ELSE built
    /\ next_set
    /\ UNCHANGED <<num_sets, whole_ret, target, callv, evset, result,
                   screen_missed>>

\* Lines 1265-1284: the set is dropped.
verify_drops ==
    /\ pc = "verify"
    /\ test_eviction(evset = verify_target, FALSE)
    /\ next_set
    /\ UNCHANGED <<num_sets, whole_ret, pool, target, callv, evset, sets,
                   built, result, screen_missed>>

\* Lines 1335-1375 and 1396-1504: every colour is built.
round_succeeds ==
    /\ pc = "shift"
    /\ success_count = uncertain_sets_to_build
    /\ result' = "complex"
    /\ pc' = "done"
    /\ UNCHANGED <<num_sets, whole_ret, i, pool, target, callv, evset, sets,
                   built, misses, screen_missed>>

\* Lines 1377-1394: a colour is missing; the candidates are given back and
\* the procedure starts again.
round_retries ==
    /\ pc = "shift"
    /\ success_count # uncertain_sets_to_build
    /\ whole_ret_next <= MaxWholeRet
    /\ whole_ret' = whole_ret_next
    /\ built' = {}
    /\ pc' = "begin"
    /\ UNCHANGED <<num_sets, i, pool, target, callv, evset, sets, result,
                   misses, screen_missed>>

\* Lines 1384-1388: and no round is left.
round_gives_up ==
    /\ pc = "shift"
    /\ success_count # uncertain_sets_to_build
    /\ whole_ret_next > MaxWholeRet
    /\ whole_ret' = whole_ret_next
    /\ result' = "NULL"
    /\ pc' = "done"
    /\ UNCHANGED <<num_sets, i, pool, target, callv, evset, sets, built,
                   misses, screen_missed>>

\* build_l2_evset has returned.
returned == pc = "done" /\ UNCHANGED vars

Next ==
    \/ round_begin \/ round_no_memory \/ pick_target \/ no_target
    \/ single_no_memory \/ attempt_builds \/ attempt_fails
    \/ verify_keeps \/ verify_drops
    \/ round_succeeds \/ round_retries \/ round_gives_up
    \/ returned

Spec == Init /\ [][Next]_vars /\ WF_vars(Next)

-----------------------------------------------------------------------------
\* The type of every variable; the pool never goes below zero.
TypeOK ==
    /\ pc \in {"begin", "set", "single", "verify", "shift", "done"}
    /\ num_sets \in NumSets
    /\ whole_ret \in 0..(MaxWholeRet + 1)
    /\ i \in 0..uncertain_sets_to_build
    /\ pool \in [Colours -> 0..n_cands_init]
    /\ target \in Colours \cup {NoLine}
    /\ curr_target \in Colours \cup {NoLine}
    /\ n_ret \in 0..NRetries
    /\ evset \in Colours \cup {NoLine}
    /\ sets \in [Slots -> [t : Colours, c : Colours] \cup {NoSet}]
    /\ built \subseteq {k \in Slots : sets[k] # NoSet}
    /\ result \in {"none", "complex", "NULL"}
    /\ misses \in 0..MaxMiss
    /\ screen_missed \in BOOLEAN

\* The table build_l2_evset returns holds, at every offset, one set for
\* every colour asked for, and each evicts the target recorded in it,
\* whatever build_single_l2_evset retried and whatever the verifications
\* missed: a retry takes its new target unscreened, and what it builds for
\* another colour is stopped by the verification of line 1256 against the
\* screened target.  Two sets of a row are of one colour in two cases only:
\* the target of the later one passed the screening of line 1204 by a false
\* FAIL, or the earlier one is not in built_evset_addrs because the _calloc
\* of line 1287 or of line 1312 failed when it was kept.
L2ColoursDistinct ==
    result = "complex"
       => \A n \in DOMAIN l2_evset_complex :
             LET row == l2_evset_complex[n] IN
             /\ \A k \in Slots : row[k] # NoSet /\ row[k].t = row[k].c
             /\ \A j, k \in Slots :
                   j < k /\ row[j].c = row[k].c
                      => screen_missed \/ j \notin built

\* build_l2_evset returns: the retries of build_single_l2_evset and the
\* rounds of build_l2_evset run out, also when the candidates do.
L2BuildReturns == <>(pc = "done")
=============================================================================
