------------------------------- MODULE Vtop --------------------------------
(***************************************************************************)
(* The vCPU topology prober (vm_tools/vtop.c) and the code that places     *)
(* threads by its answer (utils.c, evset_para.c, vset_ops.c).              *)
(*                                                                         *)
(* detect_vcpu_topology measures the latency of a cache line bouncing      *)
(* between two vCPUs, sorts it into one of four classes, groups the vCPUs  *)
(* round their leaders, fills the rest of the matrix by inference and      *)
(* turns the matrix into sockets, cores and a relation per pair.  Its      *)
(* users pick a main and a helper vCPU from that relation; the parallel    *)
(* builder probes again while it runs and moves its pairs.                 *)
(*                                                                         *)
(* The host is part of the model: truth[i][j] is the class the placement   *)
(* of vCPUs i and j on hardware threads gives.  A measurement answers with *)
(* a latency in the band of that class, or fails.  The ping-pong itself is *)
(* the module PingPong.                                                    *)
(***************************************************************************)
EXTENDS Integers, Sequences, FiniteSets, SequencesExt

CONSTANTS
    NrCpus,         \* get_nprocs(): the vCPUs of the guest
    HostSockets,    \* sockets of the host,
    HostCores,      \*   cores of a socket,
    HostThreads,    \*   hardware threads of a core
    NRequested,     \* the n_pairs the parallel builder asks for
    Users,          \* the callers explored: "para", "single", "sockets"
    MaxFailed,      \* bound: measurements of the first detection that fail
    MaxChecks,      \* bound: topology checks of the monitor loop
    AllocMayFail    \* whether calloc and realloc may return NULL

MAX_CPUS == 192     \* vtop.h:14
ret_vtop == 3       \* utils.c:328

ASSUME /\ NrCpus \in 1..MAX_CPUS
       /\ HostSockets \in Nat \ {0} /\ HostCores \in Nat \ {0}
       /\ HostThreads \in Nat \ {0}
       /\ NRequested \in Nat /\ MaxFailed \in Nat /\ MaxChecks \in Nat
       /\ Users \subseteq {"para", "single", "sockets"}
       /\ AllocMayFail \in BOOLEAN

VARIABLES
    truth,          \* truth[i][j]: the class the host gives vCPUs i and j
    user,           \* the caller of get_vcpu_topo
    pc,             \* where the caller is
    r,              \* the tries of get_vcpu_topo so far
    top_stack,      \* the class matrix, 0 for a cell not yet known
    cpu_group_id, nr_numa_groups,
    cpu_pair_id, nr_pair_groups,
    cpu_tt_id, nr_tt_groups,
    to_test,        \* all_pairs_to_test: the pairs left to the workers
    topo,           \* the cpu_topology_t the caller holds, NoTopo for NULL
    pairs,          \* the placements in use: <<main, helper>> each
    checks,         \* topology checks started
    failed,         \* history: failed measurements of this detection
    stale           \* history: a check left a placement unexamined

detectv == <<top_stack, cpu_group_id, nr_numa_groups, cpu_pair_id,
             nr_pair_groups, cpu_tt_id, nr_tt_groups, to_test>>
vars == <<truth, user, pc, r, detectv, topo, pairs, checks, failed, stale>>

LAST_CPU_ID == IF NrCpus < MAX_CPUS THEN NrCpus ELSE MAX_CPUS   \* vtop.c:45
Cpus == 0..(LAST_CPU_ID - 1)
CpuSeq == [n \in 1..LAST_CPU_ID |-> n - 1]
NoTopo == [nr_cpus |-> 0]
Unset == [c \in Cpus |-> -1]
Matrix(cell(_, _)) == [i \in Cpus |-> [j \in Cpus |-> cell(i, j)]]

-----------------------------------------------------------------------------
(* The host *)

Places == (1..HostSockets) \X (1..HostCores) \X (1..HostThreads)

\* 1: one hardware thread (stacked), 2: one core, 3: one socket, 4: apart.
TrueClass(p, q) ==
    CASE p = q -> 1
      [] p # q /\ p[1] = q[1] /\ p[2] = q[2] -> 2
      [] p[1] = q[1] /\ p[2] # q[2] -> 3
      [] OTHER -> 4

Truths == {Matrix(LAMBDA i, j : TrueClass(f[i], f[j])) : f \in [Cpus -> Places]}

\* The hypervisor moves at most one vCPU between two probes.
Moved(t) ==
    {u \in Truths : \E c \in Cpus :
        \A i, j \in Cpus \ {c} : u[i][j] = t[i][j]}

\* The latencies, in hundredths of a nanosecond, that a pair of each class
\* shows when the measurement works: the bands get_latency_class assumes,
\* at their edges.  -1 is measure_latency_pair giving up (vtop.c:328), which
\* is what two vCPUs stacked on one hardware thread mostly get.
LatencyBand(c) ==
    CASE c = 1 -> {-1, 90001}
      [] c = 2 -> {0, 1999}
      [] c = 3 -> {2000, 8499}
      [] c = 4 -> {8500, 90000}

Latency(c, upper) ==
    IF upper THEN Max(LatencyBand(c)) ELSE Min(LatencyBand(c))

-----------------------------------------------------------------------------
(* vtop.c: the matrix *)

threefour_latency_class == 8500

get_latency_class(latency) ==
    CASE latency < 0 \/ latency > 90000 -> 1
      [] latency >= 0 /\ latency < 2000 -> 2
      [] latency >= 2000 /\ latency < threefour_latency_class -> 3
      [] OTHER -> 4

set_latency_pair(top, x, y, latency_class) ==
    [top EXCEPT ![x][y] = latency_class, ![y][x] = latency_class]

\* The innermost statement of the version the source keeps in a comment
\* (vtop.c:369-401): a cell is inferred only from a strictly closer one.
relax_strictly(top, k, i, j) ==
    IF top[k][j] # 0 /\ top[k][j] < top[i][k] /\ top[i][j] = 0
    THEN set_latency_pair(top, i, j, top[i][k])
    ELSE top

\* The innermost statement of apply_optimization: the pair <<i, j>> is no
\* further apart than the worse of its two legs over k.
relax(top, k, i, j) ==
    LET via == IF top[i][k] > top[k][j] THEN top[i][k] ELSE top[k][j]
    IN  IF top[k][j] # 0 /\ (top[i][j] = 0 \/ top[i][j] > via)
        THEN set_latency_pair(top, i, j, via)
        ELSE top

\* The three loops from their n-th round on, k outermost and j innermost; a
\* row i that has no leg to k is skipped.
RECURSIVE relax_from(_, _)
relax_from(top, n) ==
    LET k == n \div (LAST_CPU_ID * LAST_CPU_ID)
        i == (n \div LAST_CPU_ID) % LAST_CPU_ID
        j == n % LAST_CPU_ID
    IN  IF n = LAST_CPU_ID * LAST_CPU_ID * LAST_CPU_ID THEN top
        ELSE IF top[i][k] = 0 THEN relax_from(top, n + 1)
        ELSE relax_from(relax(top, k, i, j), n + 1)

apply_optimization(top) == relax_from(top, 0)

-----------------------------------------------------------------------------
(* vtop.c: detection *)

reset_groups ==
    /\ nr_numa_groups' = 0
    /\ cpu_group_id' = Unset

\* calloc of the topology and of the matrix, its diagonal, and the first
\* lines of perform_probing and find_numa_groups.
detect_begin ==
    /\ pc = "detect" /\ r < ret_vtop
    /\ top_stack' = Matrix(LAMBDA i, j : IF i = j THEN 1 ELSE 0)
    /\ reset_groups
    /\ failed' = 0
    /\ pc' = "groups"
    /\ UNCHANGED <<truth, user, r, cpu_pair_id, nr_pair_groups, cpu_tt_id,
                   nr_tt_groups, to_test, topo, pairs, checks, stale>>

\* calloc returns NULL: detect_vcpu_topology returns NULL and get_vcpu_topo
\* sleeps and tries again.
detect_fails ==
    /\ pc = "detect" /\ r < ret_vtop
    /\ AllocMayFail
    /\ r' = r + 1
    /\ UNCHANGED <<truth, user, pc, detectv, topo, pairs, checks, failed,
                   stale>>

\* One round of the outer loop of find_numa_groups: the first vCPU without
\* a group leads a new one, is measured against every vCPU still without a
\* group, and takes those of class 1 to 3 into its group.
numa_leader ==
    /\ pc = "groups"
    /\ \E i \in Cpus :
        /\ cpu_group_id[i] = -1
        /\ \A h \in Cpus : h < i => cpu_group_id[h] # -1
        /\ LET J == {j \in Cpus \ {i} : cpu_group_id[j] = -1}
               M == {j \in J : top_stack[i][j] = 0}
           IN  \E missed \in SUBSET M, upper \in BOOLEAN :
                 LET latency == [j \in M |->
                                   IF j \in missed THEN -1
                                   ELSE Latency(truth[i][j], upper)]
                     top == [x \in Cpus |-> [y \in Cpus |->
                               CASE x = i /\ y \in M ->
                                        get_latency_class(latency[y])
                                 [] y = i /\ x \in M ->
                                        get_latency_class(latency[x])
                                 [] OTHER -> top_stack[x][y]]]
                     wrong == {j \in M : top[i][j] # truth[i][j]}
                 IN  /\ failed + Cardinality(wrong) <= MaxFailed
                     /\ checks = 0 \/ wrong = {}
                     /\ failed' = failed + Cardinality(wrong)
                     /\ top_stack' = top
                     /\ cpu_group_id' =
                            [j \in Cpus |->
                                IF j = i \/ (j \in J /\ top[i][j] < 4)
                                THEN nr_numa_groups ELSE cpu_group_id[j]]
    /\ nr_numa_groups' = nr_numa_groups + 1
    /\ UNCHANGED <<truth, user, pc, r, cpu_pair_id, nr_pair_groups,
                   cpu_tt_id, nr_tt_groups, to_test, topo, pairs, checks,
                   stale>>

\* Every vCPU has a group: find_numa_groups ends with apply_optimization,
\* and perform_probing calls it once more.
propagate ==
    /\ pc = "groups"
    /\ \A c \in Cpus : cpu_group_id[c] # -1
    /\ top_stack' = apply_optimization(apply_optimization(top_stack))
    /\ pc' = "probe"
    /\ UNCHANGED <<truth, user, r, cpu_group_id, nr_numa_groups, cpu_pair_id,
                   nr_pair_groups, cpu_tt_id, nr_tt_groups, to_test, topo,
                   pairs, checks, failed, stale>>

\* The pairs perform_probing hands to MT_find_topology: the cells of a group
\* that are still 0.  A group without such a pair gets no thread.
pairs_to_test ==
    IF nr_numa_groups <= 0 THEN {}
    ELSE {p \in Cpus \X Cpus :
            /\ p[1] < p[2]
            /\ top_stack[p[1]][p[2]] = 0
            /\ cpu_group_id[p[1]] \in 0..(nr_numa_groups - 1)
            /\ cpu_group_id[p[2]] \in 0..(nr_numa_groups - 1)
            /\ cpu_group_id[p[1]] = cpu_group_id[p[2]]}

perform_probing ==
    /\ pc = "probe"
    /\ to_test' = pairs_to_test
    /\ pc' = "parse"
    /\ UNCHANGED <<truth, user, r, top_stack, cpu_group_id, nr_numa_groups,
                   cpu_pair_id, nr_pair_groups, cpu_tt_id, nr_tt_groups,
                   topo, pairs, checks, failed, stale>>

\* One round of the loop of parse_topology, for vCPU i.
parse_cpu(st, i) ==
    LET named ==
            [st EXCEPT
                !.pair[i] = IF @ = -1 THEN st.nr_pair ELSE @,
                !.nr_pair = IF st.pair[i] = -1 THEN @ + 1 ELSE @,
                !.tt[i] = IF @ = -1 THEN st.nr_tt ELSE @,
                !.nr_tt = IF st.tt[i] = -1 THEN @ + 1 ELSE @]
    IN  [named EXCEPT
            !.pair = [j \in Cpus |->
                         IF top_stack[i][j] < 3 THEN named.pair[i] ELSE @[j]],
            !.tt = [j \in Cpus |->
                       IF top_stack[i][j] < 2 THEN named.tt[i] ELSE @[j]]]

parse_topology ==
    /\ pc = "parse"
    /\ LET st == FoldLeft(parse_cpu,
                          [pair |-> Unset, nr_pair |-> 0,
                           tt |-> Unset, nr_tt |-> 0], CpuSeq)
       IN  /\ cpu_pair_id' = st.pair /\ nr_pair_groups' = st.nr_pair
           /\ cpu_tt_id' = st.tt /\ nr_tt_groups' = st.nr_tt
    /\ pc' = "assemble"
    /\ UNCHANGED <<truth, user, r, top_stack, cpu_group_id, nr_numa_groups,
                   to_test, topo, pairs, checks, failed, stale>>

\* realloc or calloc returns NULL in find_numa_groups or parse_topology:
\* exit(1).
out_of_memory ==
    /\ pc \in {"groups", "parse"}
    /\ AllocMayFail
    /\ pc' = "exited"
    /\ UNCHANGED <<truth, user, r, detectv, topo, pairs, checks, failed,
                   stale>>

relation(i, j) ==
    CASE cpu_tt_id[i] = cpu_tt_id[j] -> "SMT"
      [] cpu_tt_id[i] # cpu_tt_id[j] /\ cpu_group_id[i] = cpu_group_id[j] ->
             "SOCKET"
      [] OTHER -> "REMOTE"

\* The rest of detect_vcpu_topology: the structure is filled, the matrix
\* freed, and get_vcpu_topo hands the structure to its caller.
detect_returns ==
    /\ pc = "assemble"
    /\ topo' = [nr_cpus |-> NrCpus,
                nr_sockets |-> nr_numa_groups,
                nr_cores |-> nr_tt_groups,
                cpu_to_socket |-> cpu_group_id,
                cpu_to_core |-> cpu_tt_id,
                relation_matrix |-> Matrix(relation)]
    /\ top_stack' = Matrix(LAMBDA i, j : 0)
    /\ pc' = IF pairs = <<>> THEN "have_topo" ELSE "check"
    /\ UNCHANGED <<truth, user, r, cpu_group_id, nr_numa_groups, cpu_pair_id,
                   nr_pair_groups, cpu_tt_id, nr_tt_groups, to_test, pairs,
                   checks, failed, stale>>

\* Three tries failed: get_vcpu_topo returns NULL.  The builders fall back
\* to the build without topology; the monitor loop of the parallel builder
\* goes on with the placements it has.
get_vcpu_topo_fails ==
    /\ pc = "detect" /\ r = ret_vtop
    /\ IF pairs = <<>>
       THEN pc' = "done" /\ topo' = NoTopo /\ UNCHANGED stale
       ELSE pc' = "pinned" /\ stale' = TRUE /\ UNCHANGED topo
    /\ UNCHANGED <<truth, user, r, detectv, pairs, checks, failed>>

-----------------------------------------------------------------------------
(* The users of the topology *)

\* socket_vcpus of find_optimal_vcpu_pairs.
socket_vcpus(t, socket, used) ==
    SelectSeq(CpuSeq, LAMBDA c : t.cpu_to_socket[c] = socket /\ c \notin used)

Swap(s, a, b) == [s EXCEPT ![a] = s[b], ![b] = s[a]]

\* The inner loop of find_optimal_vcpu_pairs from position i (counted from
\* 0) of sv, with the pairs found so far.
RECURSIVE pair_up(_, _, _, _, _)
pair_up(t, n_requested, sv, i, found) ==
    IF i >= Len(sv) \/ Len(found) >= n_requested \/ i + 1 >= Len(sv)
    THEN found
    ELSE LET vcpu1 == sv[i + 1]
             partners == {j \in (i + 2)..Len(sv) :
                            t.relation_matrix[vcpu1][sv[j]] # "SMT"}
         IN  IF partners = {}
             THEN pair_up(t, n_requested, sv, i + 2, found)
             ELSE pair_up(t, n_requested, Swap(sv, i + 2, Min(partners)),
                          i + 2, Append(found, <<vcpu1, sv[Min(partners)]>>))

find_optimal_vcpu_pairs(t, n_requested) ==
    LET socket_pairs(found, socket) ==
            IF Len(found) >= n_requested THEN found
            ELSE pair_up(t, n_requested,
                         socket_vcpus(t, socket,
                                      UNION {{p[1], p[2]} : p \in Range(found)}),
                         0, found)
    IN  IF n_requested = 0 THEN <<>>
        ELSE FoldLeft(socket_pairs, <<>>, [s \in 1..t.nr_sockets |-> s - 1])

\* The first pair, in the order of the two loops, whose relation is SOCKET.
find_same_socket_nonSMT_vcpu_pair(t) ==
    LET fit == {p \in (0..(t.nr_cpus - 1)) \X (0..(t.nr_cpus - 1)) :
                  p[1] # p[2] /\ t.relation_matrix[p[1]][p[2]] = "SOCKET"}
        main == Min({p[1] : p \in fit})
    IN  IF fit = {} THEN <<>>
        ELSE <<<<main, Min({p[2] : p \in {q \in fit : q[1] = main}})>>>>

\* get_socket_info: the sockets in the order their first vCPU has, each with
\* its vCPUs in rising order.
get_socket_info(t) ==
    LET add(info, c) ==
            LET at == {s \in DOMAIN info :
                          info[s].socket_id = t.cpu_to_socket[c]}
            IN  IF at = {}
                THEN Append(info, [socket_id |-> t.cpu_to_socket[c],
                                   vcpus |-> <<c>>])
                ELSE [info EXCEPT ![Min(at)].vcpus = Append(@, c)]
    IN  FoldLeft(add, <<>>, [n \in 1..t.nr_cpus |-> n - 1])

\* select_vcpu_pair: the first two vCPUs of the socket, in the order of the
\* two loops, that are not SMT by the relation; <<-1, -1>> when none is.
select_vcpu_pair(si, t) ==
    LET fit == {p \in (DOMAIN si.vcpus) \X (DOMAIN si.vcpus) :
                  /\ p[1] < p[2]
                  /\ t.relation_matrix[si.vcpus[p[1]]][si.vcpus[p[2]]] # "SMT"}
        i == Min({p[1] : p \in fit})
        j == Min({p[2] : p \in {q \in fit : q[1] = i}})
    IN  IF fit = {} THEN <<-1, -1>> ELSE <<si.vcpus[i], si.vcpus[j]>>

\* The sockets of the two vCPUs are not compared.
is_topo_change_harmless_any_socket(curr_topo, main_vcpu, helper_vcpu) ==
    curr_topo.relation_matrix[main_vcpu][helper_vcpu] # "SMT"

is_topo_change_harmless(curr_topo, main_vcpu, helper_vcpu) ==
    /\ curr_topo.cpu_to_socket[main_vcpu] =
           curr_topo.cpu_to_socket[helper_vcpu]
    /\ curr_topo.relation_matrix[main_vcpu][helper_vcpu] # "SMT"

\* build_l3_evsets_para_vtop and build_l3_evsets_para_gran: the pairs of the
\* build; none found is the build without topology.
place_pairs ==
    /\ pc = "have_topo" /\ user = "para"
    /\ pairs' = find_optimal_vcpu_pairs(topo, NRequested)
    /\ pc' = IF pairs' = <<>> THEN "done" ELSE "pinned"
    /\ UNCHANGED <<truth, user, r, detectv, topo, checks, failed, stale>>

\* build_single_l3_evset: one pair, or no pinning.
place_single ==
    /\ pc = "have_topo" /\ user = "single"
    /\ pairs' = find_same_socket_nonSMT_vcpu_pair(topo)
    /\ pc' = IF pairs' = <<>> THEN "done" ELSE "pinned"
    /\ UNCHANGED <<truth, user, r, detectv, topo, checks, failed, stale>>

\* The monitors: one pair for every socket that has two vCPUs and a pair.
place_per_socket ==
    /\ pc = "have_topo" /\ user = "sockets"
    /\ LET info == get_socket_info(topo)
           chosen == [s \in DOMAIN info |-> select_vcpu_pair(info[s], topo)]
       IN  pairs' = SelectSeq(chosen, LAMBDA p : p # <<-1, -1>>)
    /\ pc' = IF pairs' = <<>> THEN "done" ELSE "pinned"
    /\ UNCHANGED <<truth, user, r, detectv, topo, checks, failed, stale>>

\* The monitor loop of build_l3_evsets_para_vtop probes again; the
\* hypervisor may have moved a vCPU since the last probe.
topo_check_begins ==
    /\ pc = "pinned" /\ user = "para"
    /\ checks < MaxChecks
    /\ checks' = checks + 1
    /\ truth' \in Moved(truth)
    /\ r' = 0
    /\ pc' = "detect"
    /\ UNCHANGED <<user, detectv, topo, pairs, failed, stale>>

\* With the new topology: a pair that is no longer on one socket, or is SMT
\* now, makes the change harmful; then new pairs are found and replace the
\* first new_valid_pairs placements, the others stay.  Nothing is replaced
\* when the array for the new pairs cannot be allocated.
topo_check ==
    /\ pc = "check"
    /\ LET harmful == \E k \in DOMAIN pairs :
                         ~is_topo_change_harmless(topo, pairs[k][1],
                                                  pairs[k][2])
           new_assignments == find_optimal_vcpu_pairs(topo, Len(pairs))
       IN  \/ /\ pairs' = IF harmful
                          THEN [k \in DOMAIN pairs |->
                                   IF k <= Len(new_assignments)
                                   THEN new_assignments[k] ELSE pairs[k]]
                          ELSE pairs
              /\ stale' = (stale \/ (harmful /\
                                     Len(new_assignments) < Len(pairs)))
           \/ /\ harmful /\ AllocMayFail
              /\ stale' = TRUE
              /\ UNCHANGED pairs
    /\ pc' = "pinned"
    /\ UNCHANGED <<truth, user, r, detectv, topo, checks, failed>>

\* The caller goes on with its placements, or without any; the process is
\* gone after exit(1).
returned ==
    /\ \/ pc \in {"done", "exited"}
       \/ pc = "pinned" /\ (user # "para" \/ checks = MaxChecks)
    /\ UNCHANGED vars

-----------------------------------------------------------------------------
Init ==
    /\ truth \in Truths
    /\ user \in Users
    /\ pc = "detect" /\ r = 0
    /\ top_stack = Matrix(LAMBDA i, j : 0)
    /\ cpu_group_id = Unset /\ nr_numa_groups = 0
    /\ cpu_pair_id = Unset /\ nr_pair_groups = 0
    /\ cpu_tt_id = Unset /\ nr_tt_groups = 0
    /\ to_test = {}
    /\ topo = NoTopo
    /\ pairs = <<>>
    /\ checks = 0 /\ failed = 0 /\ stale = FALSE

find_numa_groups == numa_leader \/ propagate
detect_vcpu_topology ==
    \/ detect_begin \/ detect_fails \/ find_numa_groups \/ perform_probing
    \/ parse_topology \/ out_of_memory \/ detect_returns

Next ==
    \/ detect_vcpu_topology \/ get_vcpu_topo_fails
    \/ place_pairs \/ place_single \/ place_per_socket
    \/ topo_check_begins \/ topo_check
    \/ returned

Spec == Init /\ [][Next]_vars

-----------------------------------------------------------------------------
\* The type of every variable.
TypeOK ==
    /\ truth \in [Cpus -> [Cpus -> 1..4]]
    /\ user \in Users
    /\ pc \in {"detect", "groups", "probe", "parse", "assemble", "have_topo",
               "pinned", "check", "done", "exited"}
    /\ r \in 0..ret_vtop
    /\ top_stack \in [Cpus -> [Cpus -> 0..4]]
    /\ cpu_group_id \in [Cpus -> -1..(LAST_CPU_ID - 1)]
    /\ cpu_pair_id \in [Cpus -> -1..(LAST_CPU_ID - 1)]
    /\ cpu_tt_id \in [Cpus -> -1..(LAST_CPU_ID - 1)]
    /\ nr_numa_groups \in 0..LAST_CPU_ID
    /\ nr_pair_groups \in 0..LAST_CPU_ID
    /\ nr_tt_groups \in 0..LAST_CPU_ID
    /\ to_test \subseteq Cpus \X Cpus
    /\ topo = NoTopo \/
         /\ topo.nr_sockets \in 1..LAST_CPU_ID
         /\ topo.nr_cores \in 1..LAST_CPU_ID
         /\ topo.cpu_to_socket \in [Cpus -> 0..(topo.nr_sockets - 1)]
         /\ topo.cpu_to_core \in [Cpus -> 0..(topo.nr_cores - 1)]
         /\ topo.relation_matrix \in
                [Cpus -> [Cpus -> {"SMT", "SOCKET", "REMOTE"}]]
    /\ pairs \in Seq(Cpus \X Cpus) /\ Len(pairs) <= LAST_CPU_ID
    /\ checks \in 0..MaxChecks /\ failed \in 0..MaxFailed
    /\ stale \in BOOLEAN

\* The topology the caller holds is the one of the host now.
Fresh == pc \in {"have_topo", "check", "pinned"} /\ topo # NoTopo /\ ~stale

\* When every measurement of the last detection answered, the sockets of
\* the structure detect_vcpu_topology returns are the sockets of the host:
\* two vCPUs have one cpu_to_socket exactly when the host has them on one
\* socket, and nr_sockets counts them.  Every pair the three users then pin
\* (find_optimal_vcpu_pairs, find_same_socket_nonSMT_vcpu_pair,
\* select_vcpu_pair), and every pair a topology check of the parallel
\* builder leaves in place or puts there, is of two vCPUs on one socket of
\* the host, and no vCPU is in two pairs.  A check that could not replace
\* every pair (evset_para.c:1224-1232) is the exception.
PlacementFollowsSockets ==
    Fresh /\ failed = 0 =>
        /\ \A i, j \in Cpus :
              topo.cpu_to_socket[i] = topo.cpu_to_socket[j] <=>
                  truth[i][j] < 4
        /\ topo.nr_sockets =
              Cardinality({{j \in Cpus : truth[i][j] < 4} : i \in Cpus})
        /\ pc = "pinned" =>
              /\ \A k \in DOMAIN pairs :
                    pairs[k][1] # pairs[k][2] /\
                    truth[pairs[k][1]][pairs[k][2]] < 4
              /\ \A k, l \in DOMAIN pairs :
                    k # l => {pairs[k][1], pairs[k][2]} \cap
                             {pairs[l][1], pairs[l][2]} = {}

\* perform_probing never has a pair for its worker threads: after the
\* leaders' rounds of find_numa_groups and apply_optimization no cell of the
\* matrix is 0, whatever the measurements answered (vtop.c:608-650).  The
\* classes of the pairs that no leader measured are therefore all inferred.
NothingLeftToProbe == to_test = {}

\* Between two vCPUs of which neither leads a group, the class parse_topology
\* reads is the larger of their classes to the leader, and never smaller
\* than the class the host gives them.
InferredNeverCloser ==
    pc \in {"probe", "parse", "assemble"} /\ failed = 0 =>
        \A i, j \in Cpus : top_stack[i][j] >= truth[i][j]
=============================================================================
