--------------------------- MODULE HelperService ---------------------------
(***************************************************************************)
(* What the helper-thread engine promises the thread that controls it: a   *)
(* one-place command channel.  A command handed over while the helper is   *)
(* idle is carried out exactly once, with exactly the action and payload   *)
(* handed over, before the next command can be handed over; a stop         *)
(* command takes the helper down instead of being carried out.             *)
(*                                                                         *)
(* The module HelperThread shows that the volatile waiting flag and the    *)
(* action and payload words of helper_thread_ctrl implement this channel.  *)
(***************************************************************************)

EXTENDS Naturals

CONSTANTS Commands,     \* everything a controller can hand over
          StopCommands  \* the commands that end the helper

ASSUME StopCommands \subseteq Commands

VARIABLES svc,      \* "down", "idle" or "busy"
          pending,  \* the command handed over and not yet carried out
          served,   \* the command carried out last
          count     \* the number of commands carried out, modulo 2

svars == <<svc, pending, served, count>>

SvcTypeOK ==
    /\ svc \in {"down", "idle", "busy"}
    /\ pending \in {{}} \cup {{c} : c \in Commands}
    /\ served \in {{}} \cup {{c} : c \in Commands \ StopCommands}
    /\ count \in 0..1
    /\ (svc = "busy") <=> (pending # {})

SvcInit ==
    /\ svc = "down"
    /\ pending = {}
    /\ served = {}
    /\ count = 0

\* The helper thread comes up and waits for its first command.
Up ==
    /\ svc = "down"
    /\ svc' = "idle"
    /\ UNCHANGED <<pending, served, count>>

\* The controller hands a command over; only an idle helper takes one.
Submit(c) ==
    /\ svc = "idle"
    /\ svc' = "busy"
    /\ pending' = {c}
    /\ UNCHANGED <<served, count>>

\* The helper carries out the pending command, and nothing else.
Serve ==
    /\ svc = "busy"
    /\ pending \cap StopCommands = {}
    /\ served' = pending
    /\ count' = 1 - count
    /\ pending' = {}
    /\ svc' = "idle"

\* The helper obeys a stop command and ends.
Halt ==
    /\ svc = "busy"
    /\ pending \subseteq StopCommands
    /\ svc' = "down"
    /\ pending' = {}
    /\ UNCHANGED <<served, count>>

SvcNext ==
    \/ Up
    \/ \E c \in Commands : Submit(c)
    \/ Serve
    \/ Halt

SvcSpec == SvcInit /\ [][SvcNext]_svars

=============================================================================
