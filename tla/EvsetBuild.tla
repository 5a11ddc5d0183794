----------------------------- MODULE EvsetBuild -----------------------------
(***************************************************************************)
(* The LLC eviction-set builder of src/src/evset.c for one page offset:    *)
(* build_evsets_at picks targets from a candidate pool, final_l3_evset     *)
(* retries build_evset_zhao (binary search with backtracking, slack and    *)
(* migration) and prunes what it built with prune_evcands.                 *)
(*                                                                         *)
(* A cache line is a number 1..n, the line that starts at index k of the   *)
(* candidate array being line k+1.  All that is kept of the hardware is    *)
(* the congruence class ("color") of every line: test_eviction(t, S)       *)
(* answers OK when S holds at least W lines congruent with t.  The         *)
(* measurement is noisy on one side: at most MaxMiss times in a run it     *)
(* answers FAIL where the truth is OK (an over-threshold count that stays  *)
(* below upp_bnd).  Array indices are the code's, starting at 0.           *)
(***************************************************************************)

EXTENDS Integers, FiniteSets

CONSTANTS Pools,         \* the candidate pools: sequences of colors
          W,             \* target_cache->n_ways
          Slack,         \* build_conf->slack
          ExtraCong,     \* build_conf->extra_cong
          CapScaling,    \* build_conf->cap_scaling
          MaxBacktrack,  \* build_conf->max_backtrack
          VerifyRetry,   \* build_conf->verify_retry
          UnknownSib,    \* target_cache->unknown_sib
          NEvsets,       \* n_evsets of build_evsets_at
          MaxMiss        \* bound on the false FAILs of a run

ASSUME /\ W \in Nat \ {0} /\ Slack \in 0..W /\ ExtraCong \in Nat
       /\ CapScaling \in Nat \ {0} /\ MaxBacktrack \in Nat
       /\ VerifyRetry \in Nat /\ UnknownSib \in Nat
       /\ NEvsets \in Nat \ {0} /\ MaxMiss \in Nat

VARIABLES
    color,            \* the congruence class of every line
    mem,              \* the candidate array behind cands_backup
    base,             \* cands->addrs - cands_backup
    count,            \* cands->count
    cands_sz_backup,
    target, i, j,     \* locals of build_evsets_at
    evsets,           \* the result table of build_evsets_at
    acc,              \* addrs[0 .. acc_cnt)
    ftarget,          \* l3ev->target_addr and final_l3_evset's local copy
    r, can_evict,     \* locals of final_l3_evset
    evaddrs, size,    \* l3ev->addrs, l3ev->size
    n_cands, evsz, lower, upper, cnt, offset, n_bctr, is_reset, has_pos,
    migrated,         \* locals of build_evset_zhao
    parr, pi, pcnt,   \* prune_evcands: which array, i, cnt
    pc,
    misses            \* the false FAILs so far

poolv  == <<color, mem, base, count, cands_sz_backup>>
atv    == <<target, i, j, evsets, acc>>
finalv == <<ftarget, r, can_evict, evaddrs, size>>
zhaov  == <<n_cands, evsz, lower, upper, cnt, offset, n_bctr, is_reset,
            has_pos, migrated>>
prunev == <<parr, pi, pcnt>>
vars   == <<poolv, atv, finalv, zhaov, prunev, pc, misses>>

NoLine    == 0
ev_cap    == W * CapScaling
exp_evsz  == W + ExtraCong
num_carried_cong == W - Slack
step      == (3 * 2^UnknownSib) \div 2
Lines     == 1..cands_sz_backup
NoEvset   == [t |-> NoLine, s |-> {}]

Pcs == {"at_begin", "at_loop", "final_loop", "zhao_begin", "zhao_loop",
        "zhao_search", "zhao_pick", "zhao_verify", "prune", "zhao_migrate",
        "zhao_copy", "final_verify", "at_result", "at_next", "at_scan",
        "cleanup", "done"}

-----------------------------------------------------------------------------
(* Helpers *)

Cands(k)   == mem[base + k]                              \* cands->addrs[k]
Win(a, n)  == {Cands(k) : k \in a..(a + n - 1)}          \* n lines from a
Copy(n)    == {evaddrs[k] : k \in 0..(n - 1)}

Evicts(t, S) == Cardinality({x \in S : color[x] = color[t]}) >= W

\* res is an answer test_eviction can give for target t and lines S.
test_eviction(t, S, res) ==
    \/ /\ res = IF Evicts(t, S) THEN "OK" ELSE "FAIL"
       /\ misses' = misses
    \/ /\ res = "FAIL" /\ Evicts(t, S)
       /\ misses < MaxMiss
       /\ misses' = misses + 1

\* The locals of build_evset_zhao when it is not running.
ZhaoIdle ==
    /\ n_cands' = 0 /\ evsz' = 0 /\ lower' = 0 /\ upper' = 0 /\ cnt' = 0
    /\ offset' = 0 /\ n_bctr' = 0 /\ is_reset' = FALSE /\ has_pos' = FALSE
    /\ migrated' = 0

-----------------------------------------------------------------------------
(* The steps below with a plausible slip in each, for the mutation runs *)

\* An assignment where a swap was meant.
Swap_loses(f, a, b) == [f EXCEPT ![a] = f[b]]

\* The prune's verdict read the wrong way round.
Foreign_inverted(res) == res = "OK"

\* A failed prefix test that is not counted as a backtrack.
Backtrack_uncounted ==
    /\ is_reset' = TRUE
    /\ UNCHANGED <<mem, evsz, n_bctr>>

\* The line behind the critical one is taken.
AddLine_at_upper ==
    /\ mem' = [mem EXCEPT ![base + evsz] = mem[base + upper],
                          ![base + upper] = mem[base + evsz]]
    /\ evsz' = evsz + 1
    /\ UNCHANGED <<n_bctr, is_reset>>

\* upper is pushed past the candidates and the search goes on.
Overrun_ignored(u) == FALSE

\* The stored set is not taken off the pool.
PoolAdvance_skipped == UNCHANGED <<base, count>>

-----------------------------------------------------------------------------
(* Pieces of the steps *)

\* _swap(X, Y)
Swap(f, a, b) == [f EXCEPT ![a] = f[b], ![b] = f[a]]

\* prune_evcands drops the line the others do not evict.
Foreign(res) == res = "FAIL"

\* No positive probe and a failing prefix: a backtrack, and a reset.
Backtrack ==
    /\ n_bctr' = n_bctr + 1
    /\ is_reset' = TRUE
    /\ UNCHANGED <<mem, evsz>>

\* The critical line cands[upper - 1] joins the set at cands[evsz].
AddLine ==
    /\ mem' = Swap(mem, base + evsz, base + upper - 1)
    /\ evsz' = evsz + 1
    /\ UNCHANGED <<n_bctr, is_reset>>

\* upper, at u after the migration, has to move past the last candidate.
Overrun(u) == u <= evsz /\ evsz + 1 > n_cands

\* The migration loop: k times _swap(cands[upper], cands[migrated]) with
\* upper going up and migrated going down.
RECURSIVE MigrateFrom(_, _, _, _)
MigrateFrom(f, u, m, k) ==
    IF k = 0 THEN f
    ELSE MigrateFrom(Swap(f, base + u, base + m), u + 1, m - 1, k - 1)

Migrate(u, m, k) == MigrateFrom(mem, u, m, k)

\* The lines of the stored set leave the front of the pool.
PoolAdvance ==
    /\ base' = base + size
    /\ count' = count - size

-----------------------------------------------------------------------------
(* build_evsets_at *)

Init ==
    /\ \E p \in Pools :
          /\ cands_sz_backup = Cardinality(DOMAIN p)
          /\ color = p
          /\ mem = [k \in 0..(Cardinality(DOMAIN p) - 1) |-> k + 1]
    /\ base = 0
    /\ count = cands_sz_backup
    /\ target = NoLine /\ i = 0 /\ j = 0
    /\ evsets = [e \in 0..(NEvsets - 1) |-> NoEvset]
    /\ acc = {}
    /\ ftarget = NoLine /\ r = 0 /\ can_evict = FALSE
    /\ evaddrs = [k \in 0..(ev_cap - 1) |-> NoLine] /\ size = 0
    /\ n_cands = 0 /\ evsz = 0 /\ lower = 0 /\ upper = 0 /\ cnt = 0
    /\ offset = 0 /\ n_bctr = 0 /\ is_reset = FALSE /\ has_pos = FALSE
    /\ migrated = 0
    /\ parr = "pool" /\ pi = 0 /\ pcnt = 0
    /\ pc = "at_begin"
    /\ misses = 0

\* An empty pool: goto err, the table is freed.
at_no_cands ==
    /\ pc = "at_begin"
    /\ count = 0
    /\ pc' = "cleanup"
    /\ UNCHANGED <<poolv, atv, finalv, zhaov, prunev, misses>>

\* The first target is the last candidate.
at_first_target ==
    /\ pc = "at_begin"
    /\ count # 0
    /\ target' = Cands(count - 1)
    /\ count' = count - 1
    /\ pc' = "at_loop"
    /\ UNCHANGED <<color, mem, base, cands_sz_backup, i, j, evsets, acc,
                   finalv, zhaov, prunev, misses>>

\* One more eviction set is attempted: a fresh EvSet for the target.
at_attempt ==
    /\ pc = "at_loop"
    /\ i < NEvsets /\ count > 0
    /\ ftarget' = target
    /\ evaddrs' = [k \in 0..(ev_cap - 1) |-> NoLine]
    /\ size' = 0
    /\ r' = 0
    /\ can_evict' = FALSE
    /\ pc' = "final_loop"
    /\ UNCHANGED <<poolv, atv, zhaov, prunev, misses>>

at_loop_ends ==
    /\ pc = "at_loop"
    /\ ~(i < NEvsets /\ count > 0)
    /\ pc' = "cleanup"
    /\ UNCHANGED <<poolv, atv, finalv, zhaov, prunev, misses>>

\* A verified, non-empty set is stored and its size taken off the front of
\* the pool; anything else is freed and the loop continues with the same
\* target.
at_result ==
    /\ pc = "at_result"
    /\ IF can_evict /\ size # 0
       THEN /\ evsets' = [evsets EXCEPT ![i] = [t |-> ftarget, s |-> Copy(size)]]
            /\ PoolAdvance
            /\ acc' = acc \cup Copy(size)
            /\ pc' = "at_next"
            /\ i' = i
       ELSE /\ i' = i + 1
            /\ pc' = "at_loop"
            /\ UNCHANGED <<base, count, evsets, acc>>
    /\ UNCHANGED <<color, mem, cands_sz_backup, target, j, finalv, zhaov,
                   prunev, misses>>

at_next ==
    /\ pc = "at_next"
    /\ pc' = IF i = NEvsets - 1 \/ count = 0 THEN "cleanup" ELSE "at_scan"
    /\ j' = 0
    /\ UNCHANGED <<poolv, target, i, evsets, acc, finalv, zhaov, prunev,
                   misses>>

\* The next target is the first candidate the lines built so far do not
\* evict; it is swapped to the end of the pool and popped.
at_scan ==
    /\ pc = "at_scan"
    /\ IF j < count
       THEN \E res \in {"OK", "FAIL"} :
              /\ test_eviction(Cands(j), acc, res)
              /\ IF res = "FAIL"
                 THEN /\ target' = Cands(j)
                      /\ mem' = Swap(mem, base + j, base + count - 1)
                      /\ count' = count - 1
                      /\ i' = i + 1
                      /\ pc' = "at_loop"
                      /\ j' = 0
                 ELSE /\ j' = j + 1
                      /\ UNCHANGED <<mem, count, target, i, pc>>
       ELSE /\ pc' = "cleanup"
            /\ j' = 0
            /\ UNCHANGED <<mem, count, target, i, misses>>
    /\ UNCHANGED <<color, base, cands_sz_backup, evsets, acc, finalv, zhaov,
                   prunev>>

cleanup ==
    /\ pc = "cleanup"
    /\ base' = 0
    /\ count' = cands_sz_backup
    /\ pc' = "done"
    /\ UNCHANGED <<color, mem, cands_sz_backup, atv, finalv, zhaov, prunev,
                   misses>>

build_evsets_at ==
    \/ at_no_cands \/ at_first_target \/ at_attempt \/ at_loop_ends
    \/ at_result \/ at_next \/ at_scan \/ cleanup

-----------------------------------------------------------------------------
(* final_l3_evset *)

final_retry ==
    /\ pc = "final_loop"
    /\ r < VerifyRetry
    /\ size' = 0
    /\ pc' = "zhao_begin"
    /\ UNCHANGED <<poolv, atv, ftarget, r, can_evict, evaddrs, zhaov, prunev,
                   misses>>

final_gives_up ==
    /\ pc = "final_loop"
    /\ r >= VerifyRetry
    /\ pc' = "at_result"
    /\ UNCHANGED <<poolv, atv, finalv, zhaov, prunev, misses>>

\* The built set is tested once more.  If it evicts, the copy in l3ev->addrs
\* is pruned; if not, the last candidate becomes the target and, unless the
\* retry timeout has passed, the build is retried.
final_verify ==
    /\ pc = "final_verify"
    /\ \E res \in {"OK", "FAIL"} :
          /\ test_eviction(ftarget, Copy(size), res)
          /\ \/ /\ res = "OK"
                /\ parr' = "copy" /\ pi' = 0 /\ pcnt' = size
                /\ pc' = "prune"
                /\ UNCHANGED <<ftarget, count, r>>
             \/ /\ res = "FAIL"
                /\ ftarget' = Cands(count - 1)
                /\ count' = count - 1
                /\ \/ pc' = "at_result" /\ r' = r
                   \/ pc' = "final_loop" /\ r' = r + 1
                /\ UNCHANGED prunev
    /\ UNCHANGED <<color, mem, base, cands_sz_backup, atv, can_evict, evaddrs,
                   size, zhaov>>

final_pruned ==
    /\ pc = "prune" /\ parr = "copy"
    /\ pi >= pcnt
    /\ size' = pcnt
    /\ can_evict' = TRUE
    /\ pc' = "at_result"
    /\ parr' = "pool" /\ pi' = 0 /\ pcnt' = 0
    /\ UNCHANGED <<poolv, atv, ftarget, r, evaddrs, zhaov, misses>>

final_l3_evset == final_retry \/ final_gives_up \/ final_verify \/ final_pruned

-----------------------------------------------------------------------------
(* prune_evcands *)

\* Line i is tested as the target against the other lines and the target;
\* a line that is not evicted is swapped behind the end.
prune_evcands ==
    /\ pc = "prune" /\ pi < pcnt
    /\ LET line(k) == IF parr = "pool" THEN Cands(k) ELSE evaddrs[k]
           others  == ({line(k) : k \in 0..(pcnt - 1)} \ {line(pi)})
                          \cup {ftarget}
       IN \E res \in {"OK", "FAIL"} :
            /\ test_eviction(line(pi), others, res)
            /\ IF Foreign(res)
               THEN /\ pcnt' = pcnt - 1
                    /\ pi' = pi
                    /\ IF parr = "pool"
                       THEN /\ mem' = Swap(mem, base + pi, base + pcnt - 1)
                            /\ UNCHANGED evaddrs
                       ELSE /\ evaddrs' = Swap(evaddrs, pi, pcnt - 1)
                            /\ UNCHANGED mem
               ELSE /\ pi' = pi + 1
                    /\ UNCHANGED <<pcnt, mem, evaddrs>>
    /\ UNCHANGED <<color, base, count, cands_sz_backup, atv, ftarget, r,
                   can_evict, size, zhaov, parr, pc>>

-----------------------------------------------------------------------------
(* build_evset_zhao *)

zhao_too_few ==
    /\ pc = "zhao_begin"
    /\ count <= 1
    /\ r' = r + 1
    /\ pc' = "final_loop"
    /\ UNCHANGED <<poolv, atv, ftarget, can_evict, evaddrs, size, zhaov,
                   prunev, misses>>

zhao_begin ==
    /\ pc = "zhao_begin"
    /\ count > 1
    /\ n_cands' = count
    /\ evsz' = 0 /\ lower' = 0 /\ upper' = count /\ n_bctr' = 0
    /\ is_reset' = FALSE
    /\ migrated' = count - 1
    /\ pc' = "zhao_loop"
    /\ UNCHANGED <<poolv, atv, finalv, cnt, offset, has_pos, prunev, misses>>

\* The head of an iteration: the window's offset and the first cut.
zhao_iterate ==
    /\ pc = "zhao_loop"
    /\ evsz < ev_cap /\ n_bctr < MaxBacktrack
    /\ offset' = IF Slack # 0 /\ evsz > num_carried_cong
                 THEN evsz - num_carried_cong ELSE 0
    /\ cnt' = IF evsz > 0 /\ ~is_reset /\ evsz < W
              THEN LET rem == W - evsz
                       c   == (upper * rem + lower) \div (rem + 1)
                   IN  IF c = upper THEN c - 1 ELSE c
              ELSE (upper + lower) \div 2
    /\ is_reset' = FALSE
    /\ has_pos' = FALSE
    /\ pc' = "zhao_search"
    /\ UNCHANGED <<poolv, atv, finalv, n_cands, evsz, lower, upper, n_bctr,
                   migrated, prunev, misses>>

zhao_exhausted ==
    /\ pc = "zhao_loop"
    /\ ~(evsz < ev_cap /\ n_bctr < MaxBacktrack)
    /\ pc' = "zhao_copy"
    /\ UNCHANGED <<poolv, atv, finalv, zhaov, prunev, misses>>

\* One probe of the binary search.
zhao_search ==
    /\ pc = "zhao_search"
    /\ upper - lower > 1
    /\ \E res \in {"OK", "FAIL"} :
          /\ test_eviction(ftarget, Win(offset, cnt - offset), res)
          /\ upper' = IF res = "OK" THEN cnt ELSE upper
          /\ lower' = IF res = "OK" THEN lower ELSE cnt
          /\ has_pos' = (has_pos \/ res = "OK")
          /\ cnt' = (upper' + lower') \div 2
    /\ UNCHANGED <<poolv, atv, finalv, n_cands, evsz, offset, n_bctr,
                   is_reset, migrated, prunev, pc>>

\* The search has closed in on upper: without a positive probe the prefix
\* is tested, and a FAIL is a backtrack; otherwise line upper-1 joins the
\* set.
zhao_pick ==
    /\ pc = "zhao_pick" /\ upper - lower <= 1
    /\ \E res \in {"OK", "FAIL"} :
          /\ IF has_pos THEN res = "OK" /\ misses' = misses
             ELSE test_eviction(ftarget, Win(offset, upper - offset), res)
          /\ IF res = "FAIL" THEN Backtrack ELSE AddLine
    /\ pc' = "zhao_verify"
    /\ UNCHANGED <<color, base, count, cands_sz_backup, atv, finalv, n_cands,
                   lower, upper, cnt, offset, has_pos, migrated, prunev>>

zhao_search_ends ==
    /\ pc = "zhao_search"
    /\ upper - lower <= 1
    /\ pc' = "zhao_pick"
    /\ UNCHANGED <<poolv, atv, finalv, zhaov, prunev, misses>>

\* With enough lines the set is tested and, if it evicts, pruned in place.
zhao_verify ==
    /\ pc = "zhao_verify"
    /\ IF evsz >= exp_evsz
       THEN \E res \in {"OK", "FAIL"} :
              /\ test_eviction(ftarget, Win(0, evsz), res)
              /\ IF res = "OK"
                 THEN /\ parr' = "pool" /\ pi' = 0 /\ pcnt' = evsz
                      /\ pc' = "prune"
                 ELSE /\ pc' = "zhao_migrate"
                      /\ UNCHANGED prunev
       ELSE /\ pc' = "zhao_migrate"
            /\ UNCHANGED <<prunev, misses>>
    /\ UNCHANGED <<poolv, atv, finalv, zhaov>>

\* Back from the prune: enough lines left is success, fewer a backtrack.
zhao_pruned ==
    /\ pc = "prune" /\ parr = "pool"
    /\ pi >= pcnt
    /\ evsz' = pcnt
    /\ IF pcnt >= exp_evsz
       THEN pc' = "zhao_copy" /\ UNCHANGED n_bctr
       ELSE pc' = "zhao_migrate" /\ n_bctr' = n_bctr + 1
    /\ pi' = 0 /\ pcnt' = 0
    /\ UNCHANGED <<poolv, atv, finalv, n_cands, lower, upper, cnt, offset,
                   is_reset, has_pos, migrated, parr, misses>>

\* The end of an iteration: lower follows the set, fresh lines migrate from
\* the far end of the pool to upper, and upper is kept above lower.
zhao_migrate ==
    /\ pc = "zhao_migrate"
    /\ LET moving == is_reset \/ (Slack # 0 /\ evsz > num_carried_cong)
           m0     == IF moving /\ upper >= migrated THEN n_cands - 1
                     ELSE migrated
           gap    == (m0 - upper + 1) \div 2
           k      == IF ~moving \/ m0 <= upper THEN 0
                     ELSE IF gap < step THEN gap ELSE step
           u1     == upper + k
       IN /\ lower' = evsz
          /\ migrated' = m0 - k
          /\ mem' = Migrate(upper, m0, k)
          /\ upper' = IF u1 <= evsz THEN evsz + 1 ELSE u1
          /\ pc' = IF Overrun(u1) THEN "zhao_copy" ELSE "zhao_loop"
    /\ UNCHANGED <<color, base, count, cands_sz_backup, atv, finalv, n_cands,
                   evsz, cnt, offset, n_bctr, is_reset, has_pos, prunev,
                   misses>>

\* evset->size and the memcpy into l3ev->addrs.
zhao_copy ==
    /\ pc = "zhao_copy"
    /\ size' = evsz
    /\ evaddrs' = [k \in DOMAIN evaddrs |->
                     IF k < evsz THEN Cands(k) ELSE evaddrs[k]]
    /\ ZhaoIdle
    /\ pc' = "final_verify"
    /\ UNCHANGED <<poolv, atv, ftarget, r, can_evict, prunev, misses>>

build_evset_zhao ==
    \/ zhao_too_few \/ zhao_begin \/ zhao_iterate \/ zhao_exhausted
    \/ zhao_search \/ zhao_search_ends \/ zhao_pick \/ zhao_verify
    \/ zhao_pruned \/ zhao_migrate \/ zhao_copy

-----------------------------------------------------------------------------

Next == build_evsets_at \/ final_l3_evset \/ prune_evcands \/ build_evset_zhao

\* The builder is one thread that runs to its end.
Spec == Init /\ [][Next]_vars /\ WF_vars(Next)

-----------------------------------------------------------------------------
(* Properties *)

\* The types of the variables; the candidate array stays a permutation of
\* the lines (every step of the builder moves lines by _swap only).
TypeOK ==
    /\ color \in Pools
    /\ cands_sz_backup = Cardinality(DOMAIN color)
    /\ mem \in [0..(cands_sz_backup - 1) -> Lines]
    /\ \A a, b \in DOMAIN mem : mem[a] = mem[b] => a = b
    /\ base \in 0..cands_sz_backup /\ count \in 0..(cands_sz_backup - base)
    /\ target \in Lines \cup {NoLine} /\ ftarget \in Lines \cup {NoLine}
    /\ i \in 0..NEvsets /\ j \in 0..cands_sz_backup
    /\ evsets \in [0..(NEvsets - 1) -> [t : Lines \cup {NoLine}, s : SUBSET Lines]]
    /\ acc \subseteq Lines
    /\ r \in 0..VerifyRetry /\ can_evict \in BOOLEAN
    /\ evaddrs \in [0..(ev_cap - 1) -> Lines \cup {NoLine}]
    /\ size \in 0..ev_cap
    /\ n_cands \in 0..cands_sz_backup /\ evsz \in 0..ev_cap
    /\ lower \in 0..cands_sz_backup /\ upper \in 0..(cands_sz_backup + 1)
    /\ cnt \in -1..cands_sz_backup /\ offset \in 0..ev_cap
    /\ n_bctr \in 0..(MaxBacktrack + 1) /\ migrated \in 0..cands_sz_backup
    /\ is_reset \in BOOLEAN /\ has_pos \in BOOLEAN
    /\ parr \in {"pool", "copy"} /\ pi \in 0..ev_cap /\ pcnt \in 0..ev_cap
    /\ pc \in Pcs
    /\ misses \in 0..MaxMiss

\* Indices a..a+len-1 lie inside the n_cands candidates build_evset_zhao was
\* given.  The length is passed as a u64: a negative difference is a length
\* of 2^64 - |len|, which lies inside no array.
InPool(a, len) == len = 0 \/ (len > 0 /\ 0 <= a /\ a + len <= n_cands)

\* build_evset_zhao never reaches outside its candidates: the windows handed
\* to the test (cands + offset, cnt - offset and upper - offset), the line
\* cands[upper - 1] it moves into the set and the evsz lines it copies into
\* l3ev->addrs all lie in cands[0 .. n_cands), and the copy fits ev_cap.
\* Outside the window sit the targets already popped and the lines of the
\* sets already built.
AccessesInBounds ==
    /\ pc = "zhao_search" /\ upper - lower > 1
          => InPool(offset, cnt - offset) /\ lower < cnt /\ cnt < upper
    /\ pc = "zhao_pick"
          => /\ InPool(offset, upper - offset)
             /\ upper >= 1 /\ evsz < upper
    /\ pc = "zhao_copy" => evsz <= ev_cap /\ evsz <= n_cands
    /\ pc = "final_verify" => count >= 1
    /\ pc = "at_result" /\ can_evict => size <= count

Stored == {e \in 0..(NEvsets - 1) : evsets[e].s # {}}

\* Whatever the noise does, a set build_evsets_at stores holds only lines
\* congruent with its target: the test of line 1521 and the prune of line
\* 1522 in final_l3_evset leave no foreign line in l3ev->addrs.
StoredSetsArePure ==
    \A e \in Stored : \A x \in evsets[e].s : color[x] = color[evsets[e].t]

\* Without a false FAIL build_evset_zhao is exact: when the candidates hold
\* W lines congruent with the target it returns exactly W lines, all of them
\* congruent; when they do not, it returns the empty set (every iteration
\* ends in the backtrack of line 875).
QuietBuildIsExact ==
    misses = 0 /\ pc = "final_verify"
       => IF Evicts(ftarget, Win(0, count))
          THEN size = W /\ \A x \in Copy(size) : color[x] = color[ftarget]
          ELSE size = 0

\* Without a false FAIL the sets stored for one offset share no line, and
\* no stored line is left among the candidates of the sets still to build
\* (the pool advance of lines 2071-2072 removes exactly the lines of the
\* set).
QuietSetsAreDisjoint ==
    misses = 0 /\ pc # "done"
       => /\ \A a, b \in Stored : a # b => evsets[a].s \cap evsets[b].s = {}
          /\ \A e \in Stored : evsets[e].s \cap Win(0, count) = {}
          /\ \A e \in Stored : evsets[e].t \notin Win(0, count)


\* build_evsets_at returns: the binary search, the backtracks, the prune
\* and the verification retries all run out.
Terminates == <>(pc = "done")

\* What the specification promises of every set in the result table:
\* its size lies in [W, W + slack].
StoredSizeWithinSlack ==
    \A e \in Stored : Cardinality(evsets[e].s) \in W..(W + Slack)

\* What the callers assume of the result table: sets of different cells are
\* sets of different cache sets.
StoredSetsDifferInColor ==
    \A a, b \in Stored : a # b => color[evsets[a].t] # color[evsets[b].t]

=============================================================================
