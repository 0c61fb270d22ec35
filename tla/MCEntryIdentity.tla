-------------------------- MODULE MCEntryIdentity --------------------------
(* Instances of EntryIdentity for TLC.                                     *)
EXTENDS EntryIdentity

MCFirstAddress ==
    CHOOSE a \in [Macs -> Addresses] : \A m, n \in Macs : a[m] = a[n] => m = n

MCLimit(started, submitted, repaired, moves, removals, restarts) ==
    [k \in EventKind |-> CASE k = "flow" -> started [] k = "submit" -> submitted
                           [] k = "repair" -> repaired
                           [] k = "move" -> moves [] k = "remove" -> removals
                           [] k = "restart" -> restarts]
LimitForms == MCLimit(2, 2, 1, 1, 1, 1)
LimitConflict == MCLimit(1, 1, 1, 0, 0, 0)
=============================================================================
