----------------------------- MODULE CandArena ------------------------------
(***************************************************************************)
(* The candidate arena of src/src/evset.c and its two users.               *)
(*                                                                         *)
(* build_evcands_all_para (evset.c) allocates one buffer, lets n_threads   *)
(* workers filter it into one candidate view per L2 colour, each view      *)
(* taking a reference on the buffer with a plain ref_cnt += 1, and then    *)
(* shifts every view to the other page offsets.  vcolor.c carries the same *)
(* build without the shift (build_color_cands_para), writes the frames of  *)
(* every colour to the kernel module with a second set of workers          *)
(* (write_colors), gives the buffer back and enables the colouring, once   *)
(* or every sleep_time seconds.                                            *)
(*                                                                         *)
(* A view is kept as the fact that it exists; what evcands_populate        *)
(* filters is a measurement, so that it succeeds or fails is an input.     *)
(* The increment of ref_cnt is a load and a store: two workers that        *)
(* overlap lose one.                                                       *)
(***************************************************************************)

EXTENDS Integers, FiniteSets, FiniteSetsExt

CONSTANTS NSets,        \* g_n_uncertain_l2_sets, the L2 colours
          NOffsets,     \* NUM_OFFSETS
          Threads,      \* the values of g_config.num_threads (or of
                        \* n_system_cores()) explored
          Callers,      \* "evset": build_evcands_all_para,
                        \* "vcolor": main of vcolor without --vset
          SleepTimes,   \* the values of -t explored
          MayFail       \* the calls that may fail: "mmap", "calloc",
                        \* "create", "populate", "open"

ASSUME /\ NSets \in Nat \ {0} /\ NOffsets \in Nat /\ NOffsets >= NSets
       /\ Threads \subseteq Nat \ {0} /\ Callers \subseteq {"evset", "vcolor"}
       /\ SleepTimes \subseteq Nat
       /\ MayFail \subseteq {"mmap", "calloc", "create", "populate", "open"}

VARIABLES
    caller,
    pc,               \* where the main thread is
    evb,              \* base_cands->evb: is it mapped, and its ref_cnt
    n_threads,
    t,                \* the thread being created
    w,                \* the workers: where each is, its colours, and the
                      \* ref_cnt it loaded
    cands,            \* the colours whose view is stored (cands_complex[i][i],
                      \* results[i])
    result,
    first, sleep_time,      \* locals of vcolor's main
    vcolor_enabled, tagged, \* the kernel module: is the colouring on, and
                            \* the colours it holds frames of
    views,            \* history: the views that hold evb
    overlapped,       \* history: an increment of ref_cnt overwrote another
    faults            \* history: the calls that failed in this round

buildv  == <<evb, n_threads, t, w, cands, result>>
kernelv == <<vcolor_enabled, tagged>>
histv   == <<views, overlapped, faults>>
vars    == <<caller, pc, buildv, first, sleep_time, kernelv, histv>>

Sets    == 0..(NSets - 1)
Thr     == 0..(Max(Threads) - 1)
NoBuf   == [mapped |-> FALSE, ref_cnt |-> 0]
Idle    == [pc |-> "none", idx |-> 0, end |-> 0, reg |-> 0]
NShifts == NSets * (NOffsets - 1)   \* the calls of evcands_shift
MaxRef  == 1 + NSets * NOffsets

-----------------------------------------------------------------------------
(* The steps below with a plausible slip in each *)

\* A shifted view that takes no reference.
Shifted_uncounted(e, n) == e

\* The colours are shared without the remainder.
curr_idx_no_remainder(n) == [u \in 0..n |-> u * (NSets \div n)]

\* The loop of a worker goes one colour past its range.
Advance_past_end(u) ==
    IF w[u].idx + 1 <= w[u].end
    THEN [w[u] EXCEPT !.idx = @ + 1, !.pc = IF @ = "write" THEN "write" ELSE "new"]
    ELSE [w[u] EXCEPT !.pc = "done"]

-----------------------------------------------------------------------------
(* Pieces of the steps *)

\* Lines 379-381: the threads used.
Clamped(k) == Min({k, NSets})

\* Lines 388-401: targs[u].start_idx for u < n, targs[n - 1].end_idx for
\* u = n, when n threads share the colours.
curr_idx(n) ==
    LET base_load == NSets \div n
        remainder == NSets % n
        curr[u \in 0..n] ==
            IF u = 0 THEN 0
            ELSE curr[u - 1] + base_load + (IF u - 1 < remainder THEN 1 ELSE 0)
    IN  curr

\* A thread that was created, at the first of its colours.
Started(u, at) ==
    [pc |-> at, idx |-> curr_idx(n_threads)[u],
     end |-> curr_idx(n_threads)[u + 1], reg |-> 0]

\* The end of the body of the worker's loop.
Advance(u) ==
    IF w[u].idx + 1 < w[u].end
    THEN [w[u] EXCEPT !.idx = @ + 1, !.pc = IF @ = "write" THEN "write" ELSE "new"]
    ELSE [w[u] EXCEPT !.pc = "done"]

\* pthread_join has returned for every thread that was created.
Joined == \A u \in Thr : u < n_threads => w[u].pc = "done"

\* evbuffer_new: the pages are mapped and nobody holds them.
evbuffer_new == [mapped |-> TRUE, ref_cnt |-> 0]

\* evcands_new, on one thread: the view takes a reference.
evcands_new(e) == [e EXCEPT !.ref_cnt = @ + 1]

\* evcands_shift, n times: each view takes a reference.
Shifted(e, n) == [e EXCEPT !.ref_cnt = @ + n]

\* Line 124 of vcolor.c: the count write_colors frees the first view with.
forced_ref_cnt == 0

\* evcands_free and evbuffer_free (evset.c:2139-2165) on a view of a buffer
\* whose count is r: the last reference unmaps the buffer.
evcands_free(r) ==
    LET left == IF r > 0 THEN r - 1 ELSE r
    IN  IF left = 0 THEN NoBuf ELSE [mapped |-> TRUE, ref_cnt |-> left]

\* The handlers of "clear", "enable" and "<pfn> <colour>" in vcolor_km.
clear_cmd  == vcolor_enabled' = TRUE /\ tagged' = {}
enable_cmd == vcolor_enabled' = TRUE /\ UNCHANGED tagged
tag_cmd(c) == tagged' = tagged \cup {c} /\ UNCHANGED vcolor_enabled

-----------------------------------------------------------------------------
Init ==
    /\ caller \in Callers
    /\ pc = "alloc"
    /\ evb = NoBuf
    /\ n_threads = 0 /\ t = 0
    /\ w = [u \in Thr |-> Idle]
    /\ cands = {}
    /\ result = "none"
    /\ first = TRUE
    /\ sleep_time \in IF caller = "vcolor" THEN SleepTimes ELSE {0}
    /\ vcolor_enabled = FALSE /\ tagged = {}
    /\ views = 0 /\ overlapped = FALSE /\ faults = {}

\* evset.c:353-390 (vcolor.c:219-247) with evcands_new and evbuffer_new: the
\* buffer is mapped and base_cands holds it.
alloc ==
    /\ pc = "alloc"
    /\ evb' = evcands_new(evbuffer_new)
    /\ views' = 1
    /\ overlapped' = FALSE
    /\ faults' = {}
    /\ cands' = {}
    /\ w' = [u \in Thr |-> Idle]
    /\ \E k \in Threads : n_threads' = Clamped(k)
    /\ t' = 0
    /\ pc' = "create"
    /\ UNCHANGED <<caller, result, first, sleep_time, kernelv>>

\* evset.c:105-108, 130-136 and 359-362: no memory for the buffer.
alloc_fails ==
    /\ pc = "alloc"
    /\ "mmap" \in MayFail
    /\ faults' = {"mmap"}
    /\ result' = "NULL"
    /\ pc' = "done"
    /\ UNCHANGED <<caller, evb, n_threads, t, w, cands, first, sleep_time,
                   kernelv, views, overlapped>>

\* evset.c:392-408 (vcolor.c:249-264): the next worker is created, or it is
\* not and the threads so far are all there are.
create ==
    /\ pc = "create"
    /\ \/ /\ w' = [w EXCEPT ![t] = Started(t, "new")]
          /\ t' = t + 1
          /\ pc' = IF t + 1 < n_threads THEN "create" ELSE "join"
          /\ UNCHANGED <<n_threads, faults>>
       \/ /\ "create" \in MayFail
          /\ faults' = faults \cup {"create"}
          /\ n_threads' = t
          /\ pc' = "join"
          /\ UNCHANGED <<t, w>>
    /\ UNCHANGED <<caller, evb, cands, result, first, sleep_time, kernelv,
                   views, overlapped>>

\* evset.c:121-138 and 318-329: evcands_new up to the load of ref_cnt, or
\* without memory for the view.
worker_new(u) ==
    /\ w[u].pc = "new"
    /\ \/ /\ w' = [w EXCEPT ![u].reg = evb.ref_cnt, ![u].pc = "inc"]
          /\ UNCHANGED faults
       \/ /\ "calloc" \in MayFail
          /\ faults' = faults \cup {"calloc"}
          /\ w' = [w EXCEPT ![u] = Advance(u)]
    /\ UNCHANGED <<caller, pc, evb, n_threads, t, cands, result, first,
                   sleep_time, kernelv, views, overlapped>>

\* evset.c:138-141: the store of ref_cnt; the view holds the buffer.
worker_inc(u) ==
    /\ w[u].pc = "inc"
    /\ evb' = [evb EXCEPT !.ref_cnt = w[u].reg + 1]
    /\ overlapped' = (overlapped \/ evb.ref_cnt # w[u].reg)
    /\ views' = views + 1
    /\ w' = [w EXCEPT ![u].pc = "populate"]
    /\ UNCHANGED <<caller, pc, n_threads, t, cands, result, first,
                   sleep_time, kernelv, faults>>

\* evset.c:144-214 and 331-351: the view is filtered and stored, or the
\* filter leaves nothing and the view is freed with its reference not given
\* back.
worker_populate(u) ==
    /\ w[u].pc = "populate"
    /\ \/ cands' = cands \cup {w[u].idx} /\ UNCHANGED <<views, faults>>
       \/ /\ "populate" \in MayFail
          /\ faults' = faults \cup {"populate"}
          /\ views' = views - 1
          /\ UNCHANGED cands
    /\ w' = [w EXCEPT ![u] = Advance(u)]
    /\ UNCHANGED <<caller, pc, evb, n_threads, t, result, first, sleep_time,
                   kernelv, overlapped>>

\* evset.c:410-425 (vcolor.c:266-278): the workers are joined and a colour
\* has no view.
incomplete ==
    /\ pc = "join"
    /\ Joined
    /\ cands # Sets
    /\ result' = "NULL"
    /\ pc' = "done"
    /\ UNCHANGED <<caller, evb, n_threads, t, w, cands, first, sleep_time,
                   kernelv, histv>>

\* evset.c:216-243 and 410-452: every colour has its view, and every view
\* is shifted to the other offsets.  A shift without memory for its
\* addresses has taken its reference and leaves no view; one without memory
\* for the view leaves neither.
shift ==
    /\ pc = "join" /\ caller = "evset"
    /\ Joined
    /\ cands = Sets
    /\ \E made \in 0..NShifts, lost \in 0..NShifts :
        /\ made + lost <= NShifts
        /\ made < NShifts => "calloc" \in MayFail
        /\ evb' = Shifted(evb, made + lost)
        /\ views' = views + made
        /\ faults' = IF made < NShifts THEN faults \cup {"calloc"} ELSE faults
    /\ result' = "complex"
    /\ pc' = "done"
    /\ UNCHANGED <<caller, n_threads, t, w, cands, first, sleep_time,
                   kernelv, overlapped>>

\* vcolor.c:266-280 and 626-633: build_color_cands_para returns the views.
color_cands ==
    /\ pc = "join" /\ caller = "vcolor"
    /\ Joined
    /\ cands = Sets
    /\ pc' = "clear"
    /\ UNCHANGED <<caller, buildv, first, sleep_time, kernelv, histv>>

\* vcolor.c:81-100: the first round clears the module.
clear ==
    /\ pc = "clear"
    /\ \/ ~first /\ UNCHANGED kernelv
       \/ first /\ clear_cmd
    /\ \E k \in Threads : n_threads' = Clamped(k)
    /\ t' = 0
    /\ w' = [u \in Thr |-> Idle]
    /\ pc' = "wcreate"
    /\ UNCHANGED <<caller, evb, cands, result, first, sleep_time, histv>>

\* vcolor.c:82-88 and 633-634: the module cannot be opened.
clear_fails ==
    /\ pc = "clear" /\ first
    /\ "open" \in MayFail
    /\ faults' = faults \cup {"open"}
    /\ result' = "FAILURE"
    /\ pc' = "done"
    /\ UNCHANGED <<caller, evb, n_threads, t, w, cands, first, sleep_time,
                   kernelv, views, overlapped>>

\* vcolor.c:102-114: as create, for the writers.
create_writer ==
    /\ pc = "wcreate"
    /\ \/ /\ w' = [w EXCEPT ![t] = Started(t, "open")]
          /\ t' = t + 1
          /\ pc' = IF t + 1 < n_threads THEN "wcreate" ELSE "free"
          /\ UNCHANGED <<n_threads, faults>>
       \/ /\ "create" \in MayFail
          /\ faults' = faults \cup {"create"}
          /\ n_threads' = t
          /\ pc' = "free"
          /\ UNCHANGED <<t, w>>
    /\ UNCHANGED <<caller, evb, cands, result, first, sleep_time, kernelv,
                   views, overlapped>>

\* vcolor.c:51-60: a writer opens the module, or returns.
writer_open(u) ==
    /\ w[u].pc = "open"
    /\ \/ w' = [w EXCEPT ![u].pc = "write"] /\ UNCHANGED faults
       \/ /\ "open" \in MayFail
          /\ faults' = faults \cup {"open"}
          /\ w' = [w EXCEPT ![u].pc = "done"]
    /\ UNCHANGED <<caller, pc, evb, n_threads, t, cands, result, first,
                   sleep_time, kernelv, views, overlapped>>

\* vcolor.c:62-76: the frames of one colour are written to the module.
writer_write(u) ==
    /\ w[u].pc = "write"
    /\ tag_cmd(w[u].idx)
    /\ w' = [w EXCEPT ![u] = Advance(u)]
    /\ UNCHANGED <<caller, pc, evb, n_threads, t, cands, result, first,
                   sleep_time, histv>>

\* vcolor.c:116-127: the writers are joined and the first view is freed,
\* and the buffer with it.
free ==
    /\ pc = "free"
    /\ Joined
    /\ evb' = evcands_free(forced_ref_cnt)
    /\ views' = views - 1
    /\ pc' = "enable"
    /\ UNCHANGED <<caller, n_threads, t, w, cands, result, first,
                   sleep_time, kernelv, overlapped, faults>>

\* vcolor.c:636-652: main sleeps and starts again, or returns.
round_ends ==
    /\ first' = FALSE
    /\ \/ sleep_time > 0 /\ pc' = "alloc" /\ UNCHANGED result
       \/ sleep_time = 0 /\ pc' = "done" /\ result' = "written"

\* vcolor.c:129-135: the colouring is enabled, if the module can be opened,
\* and write_colors returns true.
enable ==
    /\ pc = "enable"
    /\ \/ enable_cmd
       \/ "open" \in MayFail /\ UNCHANGED kernelv
    /\ round_ends
    /\ UNCHANGED <<caller, evb, n_threads, t, w, cands, sleep_time, histv>>

\* The caller has what it asked for.
returned == pc = "done" /\ Joined /\ UNCHANGED vars

\* The worker of evset.c, and its copy in vcolor.c.
cand_para_worker(u) == worker_new(u) \/ worker_inc(u) \/ worker_populate(u)
color_worker(u)     == cand_para_worker(u)
write_worker(u)     == writer_open(u) \/ writer_write(u)

\* The build of evset.c, and its copy in vcolor.c, which has no shift.
build_evcands_all_para ==
    /\ caller = "evset"
    /\ \/ alloc \/ alloc_fails \/ create \/ incomplete \/ shift
       \/ \E u \in Thr : cand_para_worker(u)

build_color_cands_para ==
    /\ caller = "vcolor"
    /\ \/ alloc \/ alloc_fails \/ create \/ incomplete \/ color_cands
       \/ \E u \in Thr : color_worker(u)

write_colors ==
    \/ clear \/ clear_fails \/ create_writer \/ free \/ enable
    \/ \E u \in Thr : write_worker(u)

Next ==
    \/ build_evcands_all_para
    \/ build_color_cands_para \/ write_colors
    \/ returned

Spec == Init /\ [][Next]_vars

-----------------------------------------------------------------------------
\* The type of every variable; a worker stays inside the colours of its
\* range, and the count inside what the views can add up to.
TypeOK ==
    /\ caller \in Callers
    /\ pc \in {"alloc", "create", "join", "clear", "wcreate", "free",
               "enable", "done"}
    /\ evb \in [mapped : BOOLEAN, ref_cnt : 0..MaxRef]
    /\ n_threads \in 0..NSets /\ t \in 0..NSets
    /\ w \in [Thr -> [pc : {"none", "new", "inc", "populate", "open",
                           "write", "done"},
                      idx : Sets, end : 0..NSets, reg : 0..MaxRef]]
    /\ cands \subseteq Sets
    /\ result \in {"none", "NULL", "complex", "FAILURE", "written"}
    /\ first \in BOOLEAN /\ sleep_time \in SleepTimes \cup {0}
    /\ vcolor_enabled \in BOOLEAN /\ tagged \subseteq Sets
    /\ views \in 0..MaxRef /\ overlapped \in BOOLEAN
    /\ faults \subseteq MayFail

\* The reference count of the buffer (evset.c:138, 226) can be below the
\* number of views that hold the buffer, the side on which evcands_free
\* unmaps memory that is still in use, only when the plain increments of two
\* workers of build_evcands_all_para overlapped; a view dropped by a failed
\* evcands_populate (evset.c:331-335) leaves the count too high, never too
\* low.
CountCoversViews ==
    evb.mapped /\ ~overlapped => evb.ref_cnt >= views

\* The ranges of colours the threads get (evset.c:388-401, vcolor.c:104-110)
\* cover every colour, also when the colours do not divide by the threads:
\* the build returns NULL, and write_colors leaves a colour unwritten, only
\* when a call failed.
OnlyFaultsLoseColours ==
    /\ result = "NULL" => faults # {}
    /\ pc = "enable" /\ faults = {} => tagged = Sets
=============================================================================
