----------------------------- MODULE CommandFifo -----------------------------
(***************************************************************************)
(* What the command queue of the Control4 driver promises its callers      *)
(* (control4/dmp168/src/connection.lua, queue API and _pump), with no      *)
(* mention of the link: commands are written once each, in the order they  *)
(* were accepted; a reconnect may only put the whole greeting, in its      *)
(* order, ahead of what waits, and writes its first command at once.       *)
(***************************************************************************)
EXTENDS Sequences

CONSTANTS Commands, Greeting

VARIABLES pending,    \* commands accepted and not written yet
          lastWrite   \* the latest command written, <<>> before the first

fifoVars == <<pending, lastWrite>>

FifoInit == pending = <<>> /\ lastWrite = <<>>

WriteFrom(q) ==
    /\ q # <<>>
    /\ lastWrite' = Head(q)
    /\ pending' = Tail(q)

Accept(cmd) == pending' = Append(pending, cmd) /\ UNCHANGED lastWrite
AcceptAndWrite(cmd) == WriteFrom(Append(pending, cmd))
Write == WriteFrom(pending)
Greet == WriteFrom(Greeting \o pending)

FifoNext ==
    \/ \E cmd \in Commands : Accept(cmd) \/ AcceptAndWrite(cmd)
    \/ Write
    \/ Greet

FifoSpec == FifoInit /\ [][FifoNext]_fifoVars
=============================================================================
