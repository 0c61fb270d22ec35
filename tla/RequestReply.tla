----------------------------- MODULE RequestReply -----------------------------
(***************************************************************************)
(* What BlustreamDevice.send_command promises its callers (base/device.py: *)
(* 91-140, "The lock makes transactions atomic"): the matrix obeys one     *)
(* command at a time, each at most once; a call returns only after its own *)
(* command was obeyed, and the next command is not obeyed before that call *)
(* has ended.  A call that fails may have been obeyed, may not, or may     *)
(* leave behind commands that the matrix obeys later, but before any       *)
(* command of a later call.  DeviceSession implements this, and            *)
(* DeviceOperations is built on it.                                        *)
(***************************************************************************)
CONSTANT Tasks

VARIABLES
    phase,   \* of each task's last call: "none", "calling", "served" by the
             \* matrix, "lost" with the link, "ok" or "failed"
    stray    \* abandoned commands may still be obeyed

callVars == <<phase, stray>>

RequestReplyTypeOK ==
    /\ phase \in [Tasks -> {"none", "calling", "served", "lost", "ok", "failed"}]
    /\ stray \in BOOLEAN

InCall(t) == phase[t] \in {"calling", "served", "lost"}

RequestReplyInit == phase = [t \in Tasks |-> "none"] /\ stray = FALSE

Call(t) ==
    /\ ~InCall(t)
    /\ phase' = [phase EXCEPT ![t] = "calling"]
    /\ UNCHANGED stray

\* ConnectionError, raised before the lock is asked for.
Reject(t) ==
    /\ ~InCall(t)
    /\ phase' = [phase EXCEPT ![t] = "failed"]
    /\ UNCHANGED stray

Serve(t) ==
    /\ phase[t] = "calling" /\ ~stray
    /\ \A u \in Tasks : phase[u] # "served"
    /\ phase' = [phase EXCEPT ![t] = "served"]
    /\ UNCHANGED stray

Return(t) ==
    /\ phase[t] = "served"
    /\ phase' = [phase EXCEPT ![t] = "ok"]
    /\ UNCHANGED stray

Fail(t) ==
    /\ InCall(t)
    /\ phase' = [phase EXCEPT ![t] = "failed"]
    /\ stray' \in IF phase[t] = "calling" THEN {stray, TRUE} ELSE {stray}

\* The last of what was abandoned is obeyed.
ServeStray ==
    /\ stray
    /\ \A u \in Tasks : phase[u] # "served"
    /\ stray' = FALSE
    /\ UNCHANGED phase

\* A link that goes takes with it what is on the way; Reset, what is left of
\* one that is given up.
LoseLink ==
    /\ stray' = FALSE
    /\ \/ UNCHANGED phase
       \/ \E t \in Tasks : /\ phase[t] \in {"calling", "served"}
                           /\ phase' = [phase EXCEPT ![t] = "lost"]

Reset(t) ==
    /\ ~InCall(t)
    /\ phase' = [phase EXCEPT ![t] = "none"]
    /\ stray' \in {stray, FALSE}

RequestReplyNext ==
    \/ \E t \in Tasks :
          Call(t) \/ Reject(t) \/ Serve(t) \/ Return(t) \/ Fail(t) \/ Reset(t)
    \/ ServeStray
    \/ LoseLink

RequestReplySpec == RequestReplyInit /\ [][RequestReplyNext]_callVars
=============================================================================
