---------------------------- MODULE HelperThread ----------------------------
(***************************************************************************)
(* The helper-thread engine: one controlling thread ("main") and one       *)
(* helper thread that share a helper_thread_ctrl and talk through its      *)
(* volatile words waiting, action and payload                              *)
(* (include/helper_thread.h, src/helper_thread.c, src/cache_ops.c).        *)
(*                                                                         *)
(* Every store and every load of a shared word is a step of its own, in    *)
(* program order: the words are volatile, the stores are separated by      *)
(* compiler barriers and x86 keeps stores and loads of one thread in       *)
(* order, so the interleavings of these steps are the executions.          *)
(*                                                                         *)
(* Data is abstracted to identities: a target line is a member of Targets, *)
(* a heap-allocated command structure (helper_thread_read_array,           *)
(* helper_thread_traverse_cands) a member of Blocks, and a measured        *)
(* latency is named by the target it was measured on.  Pinning changes no  *)
(* word of the protocol and is left out.                                   *)
(***************************************************************************)
EXTENDS Naturals, FiniteSets

CONSTANTS Targets,  \* cache lines a command can name
          Blocks    \* heap blocks malloc can return for a command structure

ASSUME Targets # {} /\ Blocks # {} /\ Targets \cap Blocks = {}

Payloads == Targets \cup Blocks

\* enum helper_thread_action
Actions == {"HELPER_STOP", "READ_SINGLE", "TIME_SINGLE", "READ_ARRAY", "TRAVERSE_CANDS"}

TargetActions == {"READ_SINGLE", "TIME_SINGLE"}     \* payload is the line itself
BlockActions  == {"READ_ARRAY", "TRAVERSE_CANDS"}   \* payload points to a heap block

Commands     == [act : Actions, arg : Payloads]
StopCommands == {c \in Commands : c.act = "HELPER_STOP"}

VARIABLES
    \* struct helper_thread_ctrl
    running, waiting, action, payload, lat,
    \* the heap blocks that are allocated
    heap,
    \* the controlling thread: where it is, the call it is in, what
    \* helper_thread_time_single returned
    mpc, call, ret,
    \* the helper thread: where it is, the action its switch read
    hpc, hact,
    \* history: the command last released to the helper, whether the helper
    \* has carried it out, what the helper carried out last, and the number
    \* of commands carried out, modulo 2
    cur, curDone, lastExec, nexec

ctrl  == <<running, waiting, action, payload, lat>>
mainv == <<mpc, call, ret>>
hist  == <<cur, curDone, lastExec, nexec>>
vars  == <<ctrl, heap, mainv, hpc, hact, hist>>

MainPcs == {"idle", "create", "start_wait", "pub_action", "pub_payload",
            "release", "overlap", "await", "finish", "stop_release", "join"}
HelperPcs == {"none", "announce", "spin", "switch", "exec", "done"}

OneOrNone(S) == {{}} \cup {{x} : x \in S}

TypeOK ==
    /\ running \in BOOLEAN /\ waiting \in BOOLEAN
    /\ action \in Actions /\ payload \in Payloads /\ lat \in Payloads
    /\ heap \in OneOrNone(Blocks)    \* at most one command structure is alive
    /\ mpc \in MainPcs /\ hpc \in HelperPcs
    /\ call \in [act : Actions, arg : Payloads]
    /\ ret \in OneOrNone(Payloads)
    /\ hact \in Actions
    /\ cur \in OneOrNone(Commands) /\ curDone \in BOOLEAN
    /\ lastExec \in OneOrNone(Commands) /\ nexec \in 0..1

\* The control block is a stack variable or part of a larger allocation; the
\* words the code does not initialise hold whatever was there.
Init ==
    /\ running = FALSE /\ waiting \in BOOLEAN
    /\ action \in Actions /\ payload \in Targets /\ lat \in Targets
    /\ heap = {}
    /\ mpc = "idle" /\ call = [act |-> "HELPER_STOP", arg |-> payload] /\ ret = {}
    /\ hpc = "none" /\ hact = "HELPER_STOP"
    /\ cur = {} /\ curDone = FALSE /\ lastExec = {} /\ nexec = 0

-----------------------------------------------------------------------------
(* Forms the code could have had by mistake; none is part of the           *)
(* specification.                                                          *)

\* the controller does not wait for the helper before it returns
wait_helper_thread_absent ==
    /\ mpc = "await"
    /\ mpc' = "finish"
    /\ UNCHANGED <<ctrl, heap, call, ret, hpc, hact, hist>>

\* the command structure is freed as soon as the command is released
release_and_free ==
    /\ mpc = "release"
    /\ waiting' = FALSE
    /\ heap' = heap \ {call.arg}
    /\ cur' = {[act |-> call.act, arg |-> call.arg]}
    /\ curDone' = FALSE
    /\ mpc' = IF call.act = "READ_ARRAY" THEN "overlap" ELSE "await"
    /\ UNCHANGED <<running, action, payload, lat, call, ret, hpc, hact, lastExec, nexec>>

\* the command structure is never freed
finish_without_free ==
    /\ mpc = "finish"
    /\ ret' = IF call.act = "TIME_SINGLE" THEN {lat} ELSE ret
    /\ mpc' = "idle"
    /\ UNCHANGED <<ctrl, heap, call, hpc, hact, hist>>

\* the helper leaves its spin loop whatever the flag says
worker_wake_unguarded ==
    /\ hpc = "spin"
    /\ hpc' = "switch"
    /\ UNCHANGED <<ctrl, heap, mainv, hact, hist>>

\* the helper goes back to spinning without setting the flag
worker_announce_forgotten ==
    /\ hpc = "announce"
    /\ hpc' = "spin"
    /\ UNCHANGED <<ctrl, heap, mainv, hact, hist>>

-----------------------------------------------------------------------------
(* The controlling thread                                                  *)

\* start_helper_thread and start_helper_thread_pinned, up to pthread_create
start_helper_thread ==
    /\ mpc = "idle" /\ ~running
    /\ waiting' = FALSE
    /\ mpc' = "create"
    /\ UNCHANGED <<running, action, payload, lat, heap, call, ret, hpc, hact, hist>>

\* pthread_create: the helper starts, or the call fails and start returns true
pthread_create ==
    /\ mpc = "create"
    /\ \/ hpc' = "announce" /\ mpc' = "start_wait"
       \/ hpc' = hpc /\ mpc' = "idle"
    /\ UNCHANGED <<ctrl, heap, call, ret, hact, hist>>

\* the tail of start: wait_helper_thread, then running = true
start_wait ==
    /\ mpc = "start_wait"
    /\ waiting
    /\ running' = TRUE
    /\ mpc' = "idle"
    /\ UNCHANGED <<waiting, action, payload, lat, heap, call, ret, hpc, hact, hist>>

\* Entry of a command function on a started helper.  The two functions that
\* pass a structure allocate it first.
Call(act, arg) ==
    /\ mpc = "idle" /\ running
    /\ \/ act \in TargetActions /\ arg \in Targets /\ heap' = heap
       \/ act \in BlockActions /\ arg \in Blocks \ heap /\ heap' = heap \cup {arg}
    /\ call' = [act |-> act, arg |-> arg]
    /\ ret' = {}
    /\ mpc' = "pub_action"
    /\ UNCHANGED <<ctrl, hpc, hact, hist>>

helper_thread_read_single(t)    == Call("READ_SINGLE", t)
helper_thread_time_single(t)    == Call("TIME_SINGLE", t)
traverse_cands_mt(b)            == Call("READ_ARRAY", b)
helper_thread_traverse_cands(b) == Call("TRAVERSE_CANDS", b)

\* ctrl->action = ...
publish_action ==
    /\ mpc = "pub_action"
    /\ action' = call.act
    /\ mpc' = "pub_payload"
    /\ UNCHANGED <<running, waiting, payload, lat, heap, call, ret, hpc, hact, hist>>

\* ctrl->payload = ...
publish_payload ==
    /\ mpc = "pub_payload"
    /\ payload' = call.arg
    /\ mpc' = "release"
    /\ UNCHANGED <<running, waiting, action, lat, heap, call, ret, hpc, hact, hist>>

\* ctrl->waiting = false: the command is the helper's
release ==
    /\ mpc = "release"
    /\ waiting' = FALSE
    /\ cur' = {[act |-> call.act, arg |-> call.arg]}
    /\ curDone' = FALSE
    /\ mpc' = IF call.act = "READ_ARRAY" THEN "overlap" ELSE "await"
    /\ UNCHANGED <<running, action, payload, lat, heap, call, ret, hpc, hact, lastExec, nexec>>

\* traverse_cands_mt: the controller primes the same candidates itself while
\* the helper does
overlap ==
    /\ mpc = "overlap"
    /\ mpc' = "await"
    /\ UNCHANGED <<ctrl, heap, call, ret, hpc, hact, hist>>

\* while (!ctrl->waiting);
wait_helper_thread ==
    /\ mpc = "await"
    /\ waiting
    /\ mpc' = "finish"
    /\ UNCHANGED <<ctrl, heap, call, ret, hpc, hact, hist>>

\* what follows the wait: the latency is read, the structure is freed
finish ==
    /\ mpc = "finish"
    /\ ret' = IF call.act = "TIME_SINGLE" THEN {lat} ELSE ret
    /\ heap' = IF call.act \in BlockActions THEN heap \ {call.arg} ELSE heap
    /\ mpc' = "idle"
    /\ UNCHANGED <<ctrl, call, hpc, hact, hist>>

\* stop_helper_thread of a running helper: ctrl->action = HELPER_STOP
stop_helper_thread ==
    /\ mpc = "idle" /\ running
    /\ action' = "HELPER_STOP"
    /\ call' = [act |-> "HELPER_STOP", arg |-> payload]
    /\ mpc' = "stop_release"
    /\ UNCHANGED <<running, waiting, payload, lat, heap, ret, hpc, hact, hist>>

\* ctrl->waiting = false of stop_helper_thread
stop_release ==
    /\ mpc = "stop_release"
    /\ waiting' = FALSE
    /\ cur' = {call}
    /\ curDone' = FALSE
    /\ mpc' = "join"
    /\ UNCHANGED <<running, action, payload, lat, heap, call, ret, hpc, hact, lastExec, nexec>>

\* pthread_join, then running = false
pthread_join ==
    /\ mpc = "join"
    /\ hpc = "done"
    /\ running' = FALSE
    /\ cur' = {}
    /\ mpc' = "idle"
    /\ UNCHANGED <<waiting, action, payload, lat, heap, call, ret, hpc, hact, curDone, lastExec, nexec>>

\* The steps the controller takes once it is inside a function.
MainStep ==
    \/ pthread_create \/ start_wait
    \/ publish_action \/ publish_payload \/ release \/ overlap
    \/ wait_helper_thread \/ finish
    \/ stop_release \/ pthread_join

\* The functions the owner of the control block may call.
MainCall ==
    \/ start_helper_thread
    \/ \E t \in Targets : helper_thread_read_single(t) \/ helper_thread_time_single(t)
    \/ \E b \in Blocks : traverse_cands_mt(b) \/ helper_thread_traverse_cands(b)
    \/ stop_helper_thread

-----------------------------------------------------------------------------
(* The helper thread: helper_thread_worker                                 *)

\* ctrl->waiting = true
worker_announce ==
    /\ hpc = "announce"
    /\ waiting' = TRUE
    /\ hpc' = "spin"
    /\ UNCHANGED <<running, action, payload, lat, heap, mainv, hact, hist>>

\* while (ctrl->waiting);
worker_wake ==
    /\ hpc = "spin"
    /\ ~waiting
    /\ hpc' = "switch"
    /\ UNCHANGED <<ctrl, heap, mainv, hact, hist>>

\* switch (ctrl->action); HELPER_STOP returns
worker_switch ==
    /\ hpc = "switch"
    /\ hact' = action
    /\ hpc' = IF action = "HELPER_STOP" THEN "done" ELSE "exec"
    /\ UNCHANGED <<ctrl, heap, mainv, hist>>

\* The body of the case: ctrl->payload is read and used; TIME_SINGLE stores
\* the latency of the line it timed.
worker_exec ==
    /\ hpc = "exec"
    /\ lat' = IF hact = "TIME_SINGLE" THEN payload ELSE lat
    /\ lastExec' = {[act |-> hact, arg |-> payload]}
    /\ curDone' = TRUE
    /\ nexec' = 1 - nexec
    /\ hpc' = "announce"
    /\ UNCHANGED <<running, waiting, action, payload, heap, mainv, hact, cur>>

helper_thread_worker ==
    \/ worker_announce
    \/ worker_wake
    \/ worker_switch
    \/ worker_exec

-----------------------------------------------------------------------------

Next ==
    \/ MainCall
    \/ MainStep
    \/ helper_thread_worker

\* Both threads are runnable threads of one process: the scheduler runs each
\* of them again and again.  Which function the controller calls next, and
\* whether it calls one at all, is up to the program around it.
Fairness ==
    /\ WF_vars(MainStep)
    /\ WF_vars(helper_thread_worker)

Spec == Init /\ [][Next]_vars /\ Fairness

-----------------------------------------------------------------------------
(* Properties                                                              *)

\* While the helper is about to use the payload of READ_ARRAY or
\* TRAVERSE_CANDS, the structure the payload points to is still allocated:
\* the free(arr) of traverse_cands_mt and the free(tcands) of
\* helper_thread_traverse_cands come after the helper has read the structure.
PayloadAliveWhileUsed ==
    (hpc = "exec" /\ hact \in BlockActions) => payload \in heap

\* When a command function has returned, the helper has carried its command
\* out, and the latency helper_thread_time_single returned is the one of the
\* line it was asked to time: test_eviction relies on the helper's load
\* having happened before its own.
DoneBeforeReturn ==
    (mpc = "idle" /\ call.act # "HELPER_STOP" /\ running) =>
        /\ cur = {call} /\ curDone
        /\ call.act = "TIME_SINGLE" => ret = {call.arg}

\* The three words of the control block implement the one-place command
\* channel of HelperService: every command released with waiting = false is
\* carried out exactly once, with the action and payload that were published,
\* and a stop command ends the helper.
Up == hpc \notin {"none", "done"}

Service == INSTANCE HelperService WITH
    svc     <- IF ~Up THEN "down" ELSE IF cur # {} /\ ~curDone THEN "busy" ELSE "idle",
    pending <- IF Up /\ ~curDone THEN cur ELSE {},
    served  <- lastExec,
    count   <- nexec

ImplementsService == Service!SvcSpec

\* Every call of the engine returns: no start, command or stop leaves the
\* controller spinning in wait_helper_thread or blocked in pthread_join.
EveryCallReturns == (mpc # "idle") ~> (mpc = "idle")

=============================================================================
