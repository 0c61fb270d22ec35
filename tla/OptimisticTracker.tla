-------------------------- MODULE OptimisticTracker --------------------------
(***************************************************************************)
(* The OptimisticStateTracker of the Control4 driver                       *)
(* (control4/dmp168/src/optimistic_tracker.lua): the routing the driver    *)
(* believes in, and for each output how long ago it was commanded.         *)
(*                                                                         *)
(* The code stores the time of the last command and is handed the present  *)
(* time.  It only ever uses their difference, compared with lockout_ms, so *)
(* the model keeps the difference, counted in ticks and not beyond Lockout,*)
(* where it no longer matters.  An output never commanded has that value.  *)
(*                                                                         *)
(* Some operators are preceded by a wrong variant of themselves, which no  *)
(* action uses: put in its place, it makes a property fail (README.md).    *)
(***************************************************************************)
EXTENDS Integers

CONSTANTS Outputs, Inputs, Lockout
ASSUME TrackerAssumption ==
    /\ 0 \notin Inputs       \* 0 stands for nil, an unrouted output
    /\ Lockout \in Nat

VARIABLES routing, sinceCommand
trackerVars == <<routing, sinceCommand>>

Routing == [Outputs -> Inputs \cup {0}]

TrackerTypeOK == routing \in Routing /\ sinceCommand \in [Outputs -> 0 .. Lockout]

TrackerInit ==
    /\ routing = [o \in Outputs |-> 0]
    /\ sinceCommand = [o \in Outputs |-> Lockout]

\* is_locked: the window is half-open, a sample at exactly Lockout is outside.
IsLocked(o) == sinceCommand[o] < Lockout

NoteCommand(o, i) ==
    /\ routing' = [routing EXCEPT ![o] = i]
    /\ sinceCommand' = [sinceCommand EXCEPT ![o] = 0]

\* The outputs for which reconcile(polled) reports a change.
ChangesUnlocked(polled) == { o \in Outputs : polled[o] # routing[o] }
ChangesRouted(polled) ==
    { o \in Outputs : ~IsLocked(o) /\ polled[o] # routing[o] /\ polled[o] # 0 }
Changes(polled) == { o \in Outputs : ~IsLocked(o) /\ polled[o] # routing[o] }

Reconcile(polled) ==
    /\ routing' = [o \in Outputs |->
                      IF o \in Changes(polled) THEN polled[o] ELSE routing[o]]
    /\ UNCHANGED sinceCommand

\* A tick of now_ms.
Tick ==
    /\ \E o \in Outputs : IsLocked(o)
    /\ sinceCommand' = [o \in Outputs |->
                           IF IsLocked(o) THEN sinceCommand[o] + 1 ELSE Lockout]
    /\ UNCHANGED routing
=============================================================================
