------------------------ MODULE EntryIdentity_proofs ------------------------
(***************************************************************************)
(* Proofs about the identity of config entries, for any matrices,          *)
(* addresses, entries, number of flows and bounds, and in every order of   *)
(* events.                                                                 *)
(***************************************************************************)
EXTENDS EntryIdentity, FiniteSetTheorems, TLAPS

\* What the flows of each kind hold.
FlowShape ==
    \A f \in Open :
        /\ flows[f].kind = "discovery" =>
              /\ flows[f].step = "form"
              /\ flows[f].host \in Addresses /\ flows[f].mac \in Macs
              /\ flows[f].uid = flows[f].mac
        /\ flows[f].kind = "reconfigure" =>
              flows[f].uid = None /\ flows[f].entry \in Entries
        /\ flows[f].step = "testing" => flows[f].host \in Addresses

TypeInv == IdentityTypeOK /\ FlowShape

(* A flow that starts fills a free place and leaves the others alone.      *)
LEMMA StartsOne ==
    ASSUME TypeInv, NEW flow, Starts(flow)
    PROVE  \E f \in FlowIds : f \notin Open /\ flows' = [flows EXCEPT ![f] = flow]
<1> DEFINE f == CHOOSE f \in FlowIds : f \notin Open
<1>1. \E g \in FlowIds : g \notin Open
  BY DEF Starts, Open
<1>2. f \in FlowIds /\ f \notin Open
  BY <1>1
<1>3. QED BY <1>2 DEF Starts

\* What Creates(f, data) comes down to: the new entry e takes the place of the
\* entries in gone.
CreatesAs(f, data, e, gone) ==
    /\ e \in Entries \ made
    /\ gone \subseteq Present
    /\ \A d \in gone : data.uid # None /\ entries[d].uid = data.uid
    /\ \A d \in Present : data.uid # None /\ entries[d].uid = data.uid => gone # {}
    /\ made' = made \cup {e}
    /\ entries' = [d \in Entries |-> IF d = e THEN data
                                     ELSE IF d \in gone THEN None ELSE entries[d]]
    /\ pending' = (pending \ gone) \cup {e}
    /\ running' = [d \in Entries |-> IF d \in gone THEN None ELSE running[d]]
    /\ overtaken' = overtaken \ gone
    /\ gone \cap starting = {} /\ astray' \subseteq astray \cup {e}
    /\ UNCHANGED <<starting, contested, withdrawn>>
    /\ flows' = [g \in FlowIds |->
                    IF g = f \/ (data.uid # None /\ g \in ClaimedBy(data.uid))
                    THEN None ELSE flows[g]]

(* An entry that is created has an id never used before, and replaces what *)
(* holds its unique id.                                                    *)
LEMMA CreatesOne ==
    ASSUME TypeInv, NEW f, NEW data, Creates(f, data)
    PROVE  \E e, gone : CreatesAs(f, data, e, gone)
<1> DEFINE replaced == IF data.uid = None THEN {} ELSE HeldBy(data.uid)
           e == CHOOSE e \in Entries : e \notin made
<1>1. e \in Entries \ made
  <2>1. \E g \in Entries : g \notin made
    BY DEF Creates, TypeInv, IdentityTypeOK
  <2>2. QED BY <2>1
<1>2. PICK gone \in SUBSET replaced :
         /\ Cardinality(gone) = IF replaced = {} THEN 0 ELSE 1
         /\ entries' = [d \in Entries |->
                           IF d = e THEN data
                           ELSE IF d \in gone THEN None ELSE entries[d]]
         /\ pending' = (pending \ gone) \cup {e}
         /\ running' = [d \in Entries |-> IF d \in gone THEN None ELSE running[d]]
         /\ overtaken' = overtaken \ gone /\ gone \cap starting = {}
  BY DEF Creates
<1>3. replaced # {} => gone # {}
  BY <1>2, FS_EmptySet
<1>4. /\ made' = made \cup {e}
      /\ flows' = [g \in FlowIds |->
                       IF g = f \/ (data.uid # None /\ g \in ClaimedBy(data.uid))
                       THEN None ELSE flows[g]]
      /\ astray' \subseteq astray \cup {e}
      /\ UNCHANGED <<starting, contested, withdrawn>>
  BY DEF Creates
<1>5. replaced = { d \in Present : data.uid # None /\ entries[d].uid = data.uid }
  BY DEF HeldBy
<1> HIDE DEF e, replaced
<1>6. CreatesAs(f, data, e, gone)
  BY <1>1, <1>2, <1>3, <1>4, <1>5 DEF CreatesAs
<1>7. QED BY <1>6

-----------------------------------------------------------------------------
(* Types.  First, what the updates of an entry and of a flow make.         *)
LEMMA EntryForms ==
    ASSUME NEW x \in Entry
    PROVE  /\ \A h \in Addresses :
                /\ [x EXCEPT !.host = h] \in Entry
                /\ [x EXCEPT !.host = h].uid = x.uid
                /\ [x EXCEPT !.host = h].mac = x.mac
                /\ [x EXCEPT !.host = h].host = h
           /\ \A m \in Macs :
                /\ Anchored(x, m) \in Entry /\ Anchored(x, m).host = x.host
                /\ Anchored(x, m).mac = m /\ Anchored(x, m).uid = m
  BY DEF Entry, Anchored

\* The flow of _async_step_dhcp.
Discovery(m) ==
    [NewFlow("discovery") EXCEPT !.uid = m, !.host = address[m], !.mac = m]

(* What a form holds that is submitted to be tested.                       *)
LEMMA TestForm ==
    ASSUME NEW g \in Flow, NEW h \in Addresses, NEW m \in Macs \cup {None}
    PROVE  /\ OnTest(g, h, m) \in Flow
           /\ OnTest(g, h, m).kind = g.kind /\ OnTest(g, h, m).entry = g.entry
           /\ OnTest(g, h, m).step = "testing" /\ OnTest(g, h, m).uid = g.uid
           /\ OnTest(g, h, m).host = h /\ OnTest(g, h, m).mac = m
<1>1. OnTest(g, h, m) \in Flow
  BY DEF OnTest, Flow
<1>2. /\ OnTest(g, h, m).kind = g.kind /\ OnTest(g, h, m).entry = g.entry
      /\ OnTest(g, h, m).step = "testing" /\ OnTest(g, h, m).uid = g.uid
  BY DEF OnTest, Flow
<1>3. OnTest(g, h, m).host = h /\ OnTest(g, h, m).mac = m
  BY DEF OnTest, Flow
<1>4. QED BY <1>1, <1>2, <1>3

(* And one of a user form, which sets its own unique id as well.           *)
LEMMA FlowForms ==
    ASSUME NEW g \in Flow, NEW h \in Addresses, NEW m \in Macs \cup {None}
    PROVE  /\ Submitted(g, h, m) \in Flow
           /\ Submitted(g, h, m).kind = g.kind /\ Submitted(g, h, m).entry = g.entry
           /\ Submitted(g, h, m).step = "testing"
           /\ Submitted(g, h, m).host = h /\ Submitted(g, h, m).mac = m
           /\ Submitted(g, h, m).uid = IF m = None THEN g.uid ELSE m
<1> DEFINE t == OnTest(g, h, m)
<1>1. /\ t \in Flow /\ t.kind = g.kind /\ t.entry = g.entry /\ t.uid = g.uid
      /\ t.step = "testing" /\ t.host = h /\ t.mac = m
  BY TestForm
<1> HIDE DEF t
<1>2. Submitted(g, h, m) = [t EXCEPT !.uid = IF m = None THEN t.uid ELSE m]
  BY DEF Submitted, t
<1>3. Submitted(g, h, m) \in Flow
  BY <1>1, <1>2 DEF Flow
<1>4. QED BY <1>1, <1>2, <1>3 DEF Flow

(* So is the flow of a discovery.                                          *)
LEMMA DiscoveryForm ==
    ASSUME NEW m \in Macs, address \in [Macs -> Addresses]
    PROVE  LET d == Discovery(m) IN
           /\ d \in Flow
           /\ d.kind = "discovery" /\ d.step = "form" /\ d.entry = None
           /\ d.uid = m /\ d.host = address[m] /\ d.mac = m
<1>1. Discovery(m) \in Flow
  BY DEF Discovery, NewFlow, Flow
<1>2. /\ Discovery(m).kind = "discovery" /\ Discovery(m).step = "form"
      /\ Discovery(m).entry = None
  BY DEF Discovery, NewFlow
<1>3. Discovery(m).uid = m /\ Discovery(m).host = address[m] /\ Discovery(m).mac = m
  BY DEF Discovery, NewFlow
<1>4. QED BY <1>1, <1>2, <1>3

(* What an update of one entry leaves alone.                               *)
LEMMA EntryUpdate ==
    ASSUME TypeInv, NEW e \in Present, NEW x \in Entry,
           entries' = [entries EXCEPT ![e] = x]
    PROVE  /\ Present' = Present /\ entries'[e] = x
           /\ \A d \in Present \ {e} : entries'[d] = entries[d]
  BY NoneAssumption DEF Present, TypeInv, IdentityTypeOK

\* An entry as async_setup_entry leaves it.
Fallen(e) ==
    [entries[e] EXCEPT !.uid = IF entries[e].uid = None THEN e ELSE entries[e].uid]

(* What it is.                                                             *)
LEMMA FallenForm ==
    ASSUME TypeInv, NEW e \in Present
    PROVE  /\ Fallen(e) \in Entry
           /\ Fallen(e).host = entries[e].host /\ Fallen(e).mac = entries[e].mac
           /\ Fallen(e).uid = IF entries[e].uid = None THEN e ELSE entries[e].uid
<1>1. entries[e] \in Entry /\ e \in Entries
  BY DEF TypeInv, IdentityTypeOK, Present
<1>2. Fallen(e) \in Entry
  BY <1>1 DEF Fallen, Entry
<1>3. QED BY <1>1, <1>2 DEF Fallen, Entry

(* Every step keeps the types and the shape of the flows.                  *)
LEMMA TypeStep ==
    ASSUME TypeInv, [IdentityNext]_identityVars
    PROVE  TypeInv'
<1> USE IdentityAssumption, NoneAssumption
    DEF TypeInv, IdentityTypeOK, FlowShape, Present, Open, registry, repairs, network,
        history
<1>0. ASSUME NEW kind, Counted(kind), kind \in EventKind
      PROVE  events' \in [EventKind -> Nat]
  BY <1>0 DEF Counted
<1>1. ASSUME NEW flow \in Flow, Starts(flow),
             UNCHANGED <<registry, issues, fixes, address, withdrawn, astray, overtaken>>,
             events' \in [EventKind -> Nat],
             seen' \in [Macs -> Addresses \cup {None}], contested' \subseteq Macs,
             flow.step = "form",
             flow.kind = "reconfigure" => flow.uid = None /\ flow.entry \in Entries,
             flow.kind = "discovery" => /\ flow.host \in Addresses /\ flow.mac \in Macs
                                        /\ flow.uid = flow.mac
      PROVE  TypeInv'
  BY <1>1, StartsOne
<1>2. ASSUME NEW f \in FlowIds, NEW data \in Entry, Creates(f, data),
             UNCHANGED <<repairs, network, events>>
      PROVE  TypeInv'
  <2>1. PICK e, gone : CreatesAs(f, data, e, gone)
    BY <1>2, CreatesOne
  <2>2. QED BY <1>2, <2>1 DEF CreatesAs
<1>a. ASSUME NEW e \in Present, NEW x \in Entry, entries' = [entries EXCEPT ![e] = x]
      PROVE  entries' \in [Entries -> Entry \cup {None}] /\ Present' = Present
  BY <1>a
<1>b. ASSUME NEW f \in Open, NEW g \in Flow, flows' = [flows EXCEPT ![f] = g],
             g.kind = flows[f].kind, g.entry = flows[f].entry,
             g.kind = "discovery" => g = flows[f],
             g.kind = "reconfigure" => g.uid = None,
             g.step = "testing" => g.host \in Addresses
      PROVE  flows' \in [FlowIds -> Flow \cup {None}] /\ FlowShape'
  BY <1>b
<1>3. ASSUME NEW m \in Macs, DhcpDiscovers(m) PROVE TypeInv'
  <2>1. /\ seen' \in [Macs -> Addresses \cup {None}]
        /\ UNCHANGED <<made, starting, running, fixes, address, events, withdrawn>>
    BY <1>3 DEF DhcpDiscovers
  <2>2. CASE \E e \in HeldBy(m) : /\ Moves(e, address[m])
                                 /\ astray' = (astray \cup HeldBy(m)) \ {e}
                                 /\ UNCHANGED <<flows, issues, contested>>
    <3>1. PICK e \in HeldBy(m) : /\ Moves(e, address[m])
                                 /\ astray' = (astray \cup HeldBy(m)) \ {e}
                                 /\ UNCHANGED <<flows, issues, contested>>
      BY <2>2
    <3>2. /\ e \in Present /\ [entries[e] EXCEPT !.host = address[m]] \in Entry
          /\ HeldBy(m) \subseteq Entries
      BY DEF HeldBy, Entry
    <3>3. entries' = [entries EXCEPT ![e] = [entries[e] EXCEPT !.host = address[m]]]
      BY <3>1 DEF Moves
    <3>4. entries' \in [Entries -> Entry \cup {None}] /\ Present' = Present
      BY <1>a, <3>2, <3>3
    <3>5. /\ pending' \subseteq Present /\ overtaken' \subseteq Entries
          /\ astray' \subseteq Entries
      BY <3>1, <3>2 DEF Moves
    <3>6. QED BY <2>1, <3>1, <3>4, <3>5
  <2>3. CASE \E e \in Present : /\ ReportsMismatch(e, m)
                               /\ UNCHANGED <<pending, flows, contested, astray, overtaken>>
    BY <2>1, <2>3 DEF ReportsMismatch
  <2>4. CASE /\ Starts(Discovery(m)) /\ Asked(m, TestedBy(m) = {})
             /\ UNCHANGED <<entries, pending, issues, astray, overtaken>>
    <3> DEFINE d == Discovery(m)
    <3>1. /\ d \in Flow /\ d.step = "form" /\ d.kind = "discovery"
          /\ d.host \in Addresses /\ d.mac \in Macs /\ d.uid = d.mac
      BY DiscoveryForm
    <3>2. contested' \subseteq Macs
      BY <2>4 DEF Asked
    <3>3. Starts(d)
      BY <2>4
    <3> HIDE DEF d
    <3>4. QED BY <1>1, <2>1, <2>4, <3>1, <3>2, <3>3
  <2>5. CASE /\ astray' = astray \cup HeldBy(m)
             /\ UNCHANGED <<entries, pending, flows, issues, contested, overtaken>>
    BY <2>1, <2>5 DEF HeldBy
  <2>6. QED BY <1>3, <2>2, <2>3, <2>4, <2>5 DEF DhcpDiscovers, Discovery
<1>4. ASSUME NEW f \in FlowIds, DiscoveryConfirmed(f) PROVE TypeInv'
  BY <1>4, <1>2 DEF DiscoveryConfirmed, Flow, Entry
<1>5. CASE UserFlowStarts
  BY <1>5, <1>0, <1>1 DEF UserFlowStarts, NewFlow, Flow, EventKind
<1>6. ASSUME NEW f \in FlowIds, NEW h \in Addresses, NEW m \in Macs \cup {None},
             UserSubmits(f, h, m)
      PROVE  TypeInv'
  <2>1. /\ f \in Open /\ flows[f].kind = "user" /\ events' \in [EventKind -> Nat]
        /\ UNCHANGED <<registry, repairs, network, astray, overtaken>>
    BY <1>6, <1>0 DEF UserSubmits, EventKind
  <2>a. contested' \subseteq Macs /\ withdrawn' \subseteq Macs
    <3>1. flows[f] \in Flow
      BY <2>1
    <3>2. flows[f].uid \in Macs \cup {None}
      BY <3>1 DEF Flow
    <3>3. QED BY <1>6, <3>2 DEF UserSubmits, Asked
  <2>2. CASE Finishes(f)
    BY <2>1, <2>a, <2>2 DEF Finishes
  <2> DEFINE g == Submitted(flows[f], h, m)
  <2>3. CASE flows' = [flows EXCEPT ![f] = g]
    <3>1. flows[f] \in Flow
      BY <2>1
    <3>2. /\ g \in Flow /\ g.kind = flows[f].kind /\ g.entry = flows[f].entry
          /\ g.host = h
      BY <3>1, FlowForms
    <3> HIDE DEF g
    <3>3. flows' \in [FlowIds -> Flow \cup {None}] /\ FlowShape'
      BY <1>b, <2>1, <2>3, <3>2
    <3>4. QED BY <2>1, <2>a, <3>3
  <2>4. Finishes(f) \/ flows' = [flows EXCEPT ![f] = g]
    BY <1>6 DEF UserSubmits
  <2>5. QED BY <2>2, <2>3, <2>4
<1>7. ASSUME NEW f \in FlowIds, NEW h \in Addresses, NEW m \in Macs \cup {None},
             ReconfigureSubmits(f, h, m)
      PROVE  TypeInv'
  <2>1. /\ f \in Open /\ flows[f].kind = "reconfigure" /\ flows[f] \in Flow
        /\ events' \in [EventKind -> Nat]
        /\ UNCHANGED <<registry, fixes, network, withdrawn, astray, overtaken>>
        /\ issues' \in [Entries -> Macs \cup {None}] /\ contested' \subseteq Macs
    BY <1>7, <1>0 DEF ReconfigureSubmits, Asked, EventKind
  <2>2. CASE Finishes(f)
    BY <2>1, <2>2 DEF Finishes
  <2> DEFINE g == OnTest(flows[f], h, m)
  <2>3. CASE flows' = [flows EXCEPT ![f] = g]
    <3>1. /\ g \in Flow /\ g.kind = flows[f].kind /\ g.entry = flows[f].entry
          /\ g.host = h /\ g.uid = flows[f].uid
      <4>1. flows[f] \in Flow
        BY <2>1
      <4>2. QED BY <4>1, TestForm
    <3> HIDE DEF g
    <3>2. flows' \in [FlowIds -> Flow \cup {None}] /\ FlowShape'
      BY <1>b, <2>1, <2>3, <3>1
    <3>3. QED BY <2>1, <3>2
  <2>4. Finishes(f) \/ flows' = [flows EXCEPT ![f] = g]
    BY <1>7 DEF ReconfigureSubmits
  <2>5. QED BY <2>2, <2>3, <2>4
<1>8. ASSUME NEW f \in FlowIds, UserTestSucceeds(f) PROVE TypeInv'
  BY <1>8, <1>2 DEF UserTestSucceeds, Flow, Entry
<1>9. ASSUME NEW f \in FlowIds, ReconfigureTestSucceeds(f) PROVE TypeInv'
  <2>1. /\ f \in Open /\ flows[f].kind = "reconfigure" /\ flows[f].step = "testing"
        /\ Finishes(f) /\ UNCHANGED <<made, starting, running, repairs, network, events>>
        /\ UNCHANGED <<contested, withdrawn, overtaken>>
    BY <1>9 DEF ReconfigureTestSucceeds
  <2> DEFINE e == flows[f].entry
             moved == [entries[e] EXCEPT !.host = flows[f].host]
             x == IF flows[f].mac = None THEN moved ELSE Anchored(moved, flows[f].mac)
  <2>2. /\ e \in Present /\ entries' = [entries EXCEPT ![e] = x]
        /\ pending' = pending \cup {e} /\ astray' = astray \cup {e}
    BY <1>9 DEF ReconfigureTestSucceeds
  <2>3. flows[f].host \in Addresses /\ flows[f].mac \in Macs \cup {None}
    BY <2>1 DEF Flow
  <2>4. x \in Entry
    <3>1. entries[e] \in Entry
      BY <2>2
    <3>2. moved \in Entry
      BY <2>3, <3>1, EntryForms
    <3> HIDE DEF moved
    <3>3. QED BY <2>3, <3>2, EntryForms
  <2> HIDE DEF x, e
  <2>5. entries' \in [Entries -> Entry \cup {None}] /\ Present' = Present
    BY <1>a, <2>2, <2>4
  <2>6. QED BY <2>1, <2>2, <2>5 DEF Finishes
<1>10. ASSUME NEW f \in FlowIds, TestFails(f) PROVE TypeInv'
  BY <1>10 DEF TestFails, Flow
<1>11. ASSUME NEW f \in FlowIds, FormClosed(f) PROVE TypeInv'
  BY <1>11 DEF FormClosed, Finishes
<1>12. ASSUME NEW e \in Entries, ReconfigureStarts(e) PROVE TypeInv'
  BY <1>12, <1>0, <1>1 DEF ReconfigureStarts, NewFlow, Flow, EventKind
<1>13. ASSUME NEW e \in Entries, FixOpens(e) \/ Restore(e) PROVE TypeInv'
  BY <1>13 DEF FixOpens, Restore, FixEnds
<1>14. ASSUME NEW e \in Entries, ConfirmReplacement(e) PROVE TypeInv'
  <2>1. /\ FixEnds(e) /\ fixes[e] \in Macs /\ events' \in [EventKind -> Nat]
        /\ UNCHANGED <<made, starting, running, flows, network, withdrawn, overtaken>>
        /\ contested' \subseteq Macs /\ astray' \subseteq Entries
    BY <1>14, <1>0 DEF ConfirmReplacement, Asked, EventKind
  <2>2. CASE e \in Present /\ entries' = [entries EXCEPT ![e] = Anchored(@, fixes[e])]
             /\ pending' = pending \cup {e}
    <3>1. Anchored(entries[e], fixes[e]) \in Entry
      <4>1. entries[e] \in Entry
        BY <2>2
      <4>2. QED BY <2>1, <4>1, EntryForms
    <3>2. entries' \in [Entries -> Entry \cup {None}] /\ Present' = Present
      BY <1>a, <2>2, <3>1
    <3>3. QED BY <2>1, <2>2, <3>2 DEF FixEnds
  <2>3. CASE UNCHANGED <<entries, pending>>
    BY <2>1, <2>3 DEF FixEnds
  <2>4. QED BY <1>14, <2>2, <2>3 DEF ConfirmReplacement
<1>15. ASSUME NEW e \in Entries, SetUpStarts(e) \/ SetUpSucceeds(e) \/ SetUpFails(e)
       PROVE  TypeInv'
  <2>1. CASE SetUpStarts(e)
    <3>1. /\ e \in Present /\ entries' = [entries EXCEPT ![e] = Fallen(e)]
          /\ Fallen(e) \in Entry
      BY <2>1, FallenForm DEF SetUpStarts, FallsBack, Fallen
    <3>2. entries' \in [Entries -> Entry \cup {None}] /\ Present' = Present
      BY <1>a, <3>1
    <3>3. entries[e].host \in Addresses
      BY <3>1 DEF Entry
    <3>4. QED BY <2>1, <3>1, <3>2, <3>3 DEF SetUpStarts
  <2>2. CASE SetUpSucceeds(e) \/ SetUpFails(e)
    BY <2>2 DEF SetUpSucceeds, SetUpFails
  <2>3. QED BY <1>15, <2>1, <2>2
<1>16. ASSUME NEW e \in Entries, UserRemoves(e) PROVE TypeInv'
  BY <1>16, <1>0 DEF UserRemoves, EventKind
<1>17. CASE Restarts
  BY <1>17, <1>0 DEF Restarts, EventKind
<1>18. ASSUME NEW m \in Macs, NEW h \in Addresses, MatrixMoves(m, h) PROVE TypeInv'
  BY <1>18, <1>0 DEF MatrixMoves, EventKind
<1>19. CASE UNCHANGED identityVars
  BY <1>19 DEF identityVars
<1>20. QED
  BY <1>3, <1>4, <1>5, <1>6, <1>7, <1>8, <1>9, <1>10, <1>11, <1>12, <1>13, <1>14,
     <1>15, <1>16, <1>17, <1>18, <1>19
  DEF IdentityNext, DiscoveryStep, FormStep, RepairStep
-----------------------------------------------------------------------------
\* The entry that a reconfigure flow leaves behind.
Reconfigured(f) ==
    LET moved == [entries[flows[f].entry] EXCEPT !.host = flows[f].host]
    IN IF flows[f].mac = None THEN moved ELSE Anchored(moved, flows[f].mac)

(* What a reconfigure flow does at its end.                                *)
LEMMA ReconfiguresOne ==
    ASSUME TypeInv, NEW f \in FlowIds, ReconfigureTestSucceeds(f)
    PROVE  /\ f \in Open /\ flows[f].kind = "reconfigure" /\ flows[f].step = "testing"
           /\ flows[f].entry \in Present
           /\ Reconfigured(f) \in Entry
           /\ Reconfigured(f).host = flows[f].host
           /\ flows[f].mac = None =>
                 /\ Reconfigured(f).uid = entries[flows[f].entry].uid
                 /\ Reconfigured(f).mac = entries[flows[f].entry].mac
           /\ flows[f].mac # None => /\ Reconfigured(f).uid = flows[f].mac
                                     /\ Reconfigured(f).mac = flows[f].mac
           /\ entries' = [entries EXCEPT ![flows[f].entry] = Reconfigured(f)]
           /\ pending' = pending \cup {flows[f].entry}
           /\ Finishes(f)
           /\ UNCHANGED <<made, starting, running, repairs, network, events>>
           /\ UNCHANGED <<contested, withdrawn, overtaken>>
<1> DEFINE e == flows[f].entry
           moved == [entries[e] EXCEPT !.host = flows[f].host]
<1>1. /\ f \in Open /\ flows[f].kind = "reconfigure" /\ flows[f].step = "testing"
      /\ e \in Present
      /\ entries' = [entries EXCEPT ![e] = Reconfigured(f)]
      /\ pending' = pending \cup {e}
      /\ Finishes(f)
      /\ UNCHANGED <<made, starting, running, repairs, network, events>>
      /\ UNCHANGED <<contested, withdrawn, overtaken>>
  BY DEF ReconfigureTestSucceeds, Reconfigured
<1>2. /\ flows[f] \in Flow /\ flows[f].host \in Addresses
      /\ flows[f].mac \in Macs \cup {None}
  BY <1>1 DEF TypeInv, IdentityTypeOK, FlowShape, Flow, Open
<1>3. entries[e] \in Entry
  BY <1>1 DEF Present, TypeInv, IdentityTypeOK
<1>4. moved \in Entry /\ moved.host = flows[f].host /\ moved.uid = entries[e].uid
      /\ moved.mac = entries[e].mac
  BY <1>2, <1>3, EntryForms
<1> HIDE DEF moved, e
<1>5. Reconfigured(f) = IF flows[f].mac = None THEN moved
                        ELSE Anchored(moved, flows[f].mac)
  BY DEF Reconfigured, moved, e
<1>6. CASE flows[f].mac = None
  BY <1>1, <1>4, <1>5, <1>6 DEF e
<1>7. CASE flows[f].mac # None
  BY <1>1, <1>2, <1>4, <1>5, <1>7, EntryForms DEF e
<1>8. QED BY <1>6, <1>7

(* An entry that is to be set up again is pending, one that a discovery    *)
(* reached too late is overtaken, and any other talks to the host it       *)
(* stores.                                                                 *)
LEMMA ServesStep ==
    ASSUME TypeInv, ServesItsHost, [IdentityNext]_identityVars
    PROVE  ServesItsHost'
<1> USE DEF ServesItsHost, registry, history
<1>0. /\ Present \subseteq Entries /\ pending \subseteq Present
      /\ \A e \in Present : entries[e] \in Entry
      /\ running \in [Entries -> Addresses \cup {None}]
  BY DEF Present, TypeInv, IdentityTypeOK
<1>1. ASSUME NEW e \in Present, NEW x \in Entry, entries' = [entries EXCEPT ![e] = x],
             UNCHANGED running, pending \subseteq pending', overtaken \subseteq overtaken',
             e \in pending' \cup overtaken' \/ x.host = entries[e].host
      PROVE  ServesItsHost'
  <2>1. /\ Present' = Present /\ entries'[e] = x
        /\ \A d \in Present \ {e} : entries'[d] = entries[d]
    BY <1>1, EntryUpdate
  <2>2. ASSUME NEW d \in Present \ (pending' \cup overtaken')
        PROVE  running[d] = entries'[d].host
    BY <1>1, <2>1, <2>2
  <2>3. QED BY <1>1, <2>1, <2>2
<1>2. ASSUME NEW f, NEW data, Creates(f, data) PROVE ServesItsHost'
  <2>1. PICK e, gone : CreatesAs(f, data, e, gone)
    BY <1>2, CreatesOne
  <2>2. ASSUME NEW d \in Present' \ (pending' \cup overtaken')
        PROVE  running'[d] = entries'[d].host
    <3>1. d \in Entries /\ d # e /\ d \notin gone
      BY <2>1, <2>2 DEF CreatesAs, Present
    <3>2. d \in Present \ (pending \cup overtaken)
      BY <2>1, <2>2, <3>1 DEF CreatesAs, Present
    <3>3. QED BY <2>1, <3>1, <3>2 DEF CreatesAs
  <2>3. QED BY <2>2
<1>3. ASSUME NEW m \in Macs, DhcpDiscovers(m) PROVE ServesItsHost'
  <2>1. CASE \E e \in HeldBy(m) : Moves(e, address[m])
    <3>1. PICK e \in HeldBy(m) : Moves(e, address[m])
      BY <2>1
    <3>2. e \in Present /\ address[m] \in Addresses
      BY DEF HeldBy, TypeInv, IdentityTypeOK
    <3> DEFINE x == [entries[e] EXCEPT !.host = address[m]]
    <3>3. x \in Entry /\ x.host = address[m]
      BY <1>0, <3>2, EntryForms
    <3>4. /\ entries' = [entries EXCEPT ![e] = x] /\ UNCHANGED running
          /\ pending \subseteq pending' /\ overtaken \subseteq overtaken'
          /\ e \in pending' \cup overtaken' \/ entries[e].host = address[m]
      BY <1>3, <3>1 DEF DhcpDiscovers, Moves
    <3> HIDE DEF x
    <3>5. QED BY <1>1, <3>2, <3>3, <3>4
  <2>2. CASE UNCHANGED <<entries, pending, overtaken>>
    BY <1>3, <2>2 DEF DhcpDiscovers, Present
  <2>3. QED BY <1>3, <2>1, <2>2 DEF DhcpDiscovers, ReportsMismatch
<1>4. ASSUME NEW f \in FlowIds, ReconfigureTestSucceeds(f) PROVE ServesItsHost'
  <2> DEFINE e == flows[f].entry
  <2>1. \E x \in Entry : e \in Present /\ entries' = [entries EXCEPT ![e] = x]
                         /\ pending' = pending \cup {e}
                         /\ UNCHANGED <<running, overtaken>>
    BY <1>4, ReconfiguresOne
  <2>2. QED BY <1>1, <2>1
<1>5. ASSUME NEW e \in Entries, ConfirmReplacement(e) PROVE ServesItsHost'
  <2>1. CASE e \in Present /\ entries' = [entries EXCEPT ![e] = Anchored(@, fixes[e])]
             /\ pending' = pending \cup {e}
    <3>1. fixes[e] \in Macs /\ UNCHANGED <<running, overtaken>>
      BY <1>5 DEF ConfirmReplacement, TypeInv, IdentityTypeOK
    <3>2. Anchored(entries[e], fixes[e]) \in Entry
      BY <1>0, <2>1, <3>1, EntryForms
    <3>3. QED BY <1>1, <2>1, <3>1, <3>2
  <2>2. CASE UNCHANGED <<entries, pending>>
    BY <1>5, <2>2 DEF ConfirmReplacement, Present
  <2>3. QED BY <1>5, <2>1, <2>2 DEF ConfirmReplacement
<1>6. ASSUME NEW e \in Entries, SetUpStarts(e) PROVE ServesItsHost'
  <2>1. e \in Present /\ entries' = [entries EXCEPT ![e] = Fallen(e)]
    BY <1>0, <1>6 DEF SetUpStarts, FallsBack, Fallen
  <2>2. /\ Present' = Present /\ entries'[e].host = entries[e].host
        /\ \A d \in Present \ {e} : entries'[d] = entries[d]
    BY <2>1, EntryUpdate, FallenForm
  <2>3. QED BY <1>0, <1>6, <2>1, <2>2 DEF SetUpStarts
<1>a. ASSUME NEW e \in Entries, SetUpSucceeds(e) \/ SetUpFails(e) PROVE ServesItsHost'
  BY <1>0, <1>a DEF SetUpSucceeds, SetUpFails, Present
<1>7. ASSUME NEW e \in Entries, UserRemoves(e) PROVE ServesItsHost'
  BY <1>0, <1>7 DEF UserRemoves, Present, TypeInv, IdentityTypeOK
<1>8. CASE Restarts
  BY <1>8 DEF Restarts, Present
<1>9. ASSUME UNCHANGED <<registry, overtaken>> PROVE ServesItsHost'
  BY <1>9 DEF Present
<1>10. CASE \/ \E f \in FlowIds : DiscoveryConfirmed(f) \/ UserTestSucceeds(f)
  BY <1>10, <1>2 DEF DiscoveryConfirmed, UserTestSucceeds
<1>11. CASE \/ UserFlowStarts
            \/ \E f \in FlowIds, h \in Addresses, m \in Macs \cup {None} :
                  UserSubmits(f, h, m) \/ ReconfigureSubmits(f, h, m)
            \/ \E f \in FlowIds : TestFails(f) \/ FormClosed(f)
            \/ \E e \in Entries : ReconfigureStarts(e) \/ FixOpens(e) \/ Restore(e)
            \/ \E m \in Macs, h \in Addresses : MatrixMoves(m, h)
            \/ UNCHANGED identityVars
  BY <1>9, <1>11, ZenonT(30) DEF UserFlowStarts, UserSubmits, ReconfigureSubmits, TestFails,
     FormClosed, ReconfigureStarts, FixOpens, Restore, MatrixMoves, identityVars
<1>12. QED
  BY <1>3, <1>4, <1>5, <1>6, <1>a, <1>7, <1>8, <1>10, <1>11
  DEF IdentityNext, DiscoveryStep, FormStep, RepairStep

-----------------------------------------------------------------------------
(* Once a unique id is set, only the two confirmations change it.          *)
LEMMA RewriteStep ==
    ASSUME TypeInv, [IdentityNext]_identityVars, NEW e \in Present,
           entries'[e] # None, entries[e].uid \notin {None, entries'[e].uid}
    PROVE  \/ ConfirmReplacement(e)
           \/ \E f \in Open : flows[f].entry = e /\ ReconfigureTestSucceeds(f)
<1>0. e \in Entries /\ entries[e] \in Entry
  BY DEF Present, TypeInv, IdentityTypeOK
<1>1. entries'[e] # entries[e]
  OBVIOUS
<1>2. ASSUME NEW f, NEW data, Creates(f, data) PROVE FALSE
  <2>1. PICK d, gone : CreatesAs(f, data, d, gone)
    BY <1>2, CreatesOne
  <2>2. e # d
    BY <2>1 DEF CreatesAs, TypeInv, IdentityTypeOK
  <2>3. QED BY <1>0, <1>1, <2>1, <2>2 DEF CreatesAs
<1>3. ASSUME NEW m \in Macs, DhcpDiscovers(m) PROVE FALSE
  <2>1. PICK d \in HeldBy(m) : Moves(d, address[m])
    BY <1>1, <1>3 DEF DhcpDiscovers, ReportsMismatch
  <2>2. d = e
    BY <1>0, <1>1, <2>1 DEF Moves, TypeInv, IdentityTypeOK
  <2>3. address[m] \in Addresses
    BY DEF TypeInv, IdentityTypeOK
  <2>4. entries'[e] = [entries[e] EXCEPT !.host = address[m]]
    BY <1>0, <2>1, <2>2 DEF Moves, TypeInv, IdentityTypeOK
  <2>5. entries'[e].uid = entries[e].uid
    BY <1>0, <2>3, <2>4, EntryForms
  <2>6. QED BY <2>5
<1>4. ASSUME NEW f \in FlowIds, ReconfigureTestSucceeds(f)
      PROVE  f \in Open /\ flows[f].entry = e
  BY <1>0, <1>1, <1>4, ReconfiguresOne DEF TypeInv, IdentityTypeOK
<1>5. ASSUME NEW d \in Entries, ConfirmReplacement(d) PROVE ConfirmReplacement(e)
  BY <1>0, <1>1, <1>5 DEF ConfirmReplacement, TypeInv, IdentityTypeOK
<1>6. ASSUME NEW d \in Entries, SetUpStarts(d) PROVE FALSE
  <2>1. entries' = [entries EXCEPT ![d] = Fallen(d)] /\ d \in Present
    BY <1>6 DEF SetUpStarts, FallsBack, Fallen, TypeInv, IdentityTypeOK
  <2>2. d = e /\ entries'[e] = Fallen(e)
    BY <1>0, <1>1, <2>1 DEF TypeInv, IdentityTypeOK
  <2>3. QED BY <2>2, FallenForm
<1>7. ASSUME NEW d \in Entries, UserRemoves(d) PROVE FALSE
  BY <1>0, <1>1, <1>7 DEF UserRemoves, TypeInv, IdentityTypeOK
<1>8. CASE \E f \in FlowIds : DiscoveryConfirmed(f) \/ UserTestSucceeds(f)
  BY <1>8, <1>2 DEF DiscoveryConfirmed, UserTestSucceeds
<1>9. CASE UNCHANGED entries
  BY <1>1, <1>9
<1>10. QED
  BY <1>3, <1>4, <1>5, <1>6, <1>7, <1>8, <1>9
  DEF IdentityNext, DiscoveryStep, FormStep, RepairStep, UserFlowStarts, UserSubmits,
      ReconfigureSubmits, TestFails, FormClosed, ReconfigureStarts, FixOpens, Restore,
      SetUpSucceeds, SetUpFails, Restarts, MatrixMoves, identityVars, registry

-----------------------------------------------------------------------------
(* The ways in which a step may change the entries.                        *)
NewEntry(f) == [host |-> flows[f].host, mac |-> flows[f].mac, uid |-> flows[f].uid]
Creation(f, e, gone) ==
    /\ f \in Open /\ flows[f].kind # "reconfigure" /\ NewEntry(f) \in Entry
    /\ CreatesAs(f, NewEntry(f), e, gone)
KeepsIdentity(e, x) == x.uid = entries[e].uid /\ x.mac = entries[e].mac
Anchors(x) == x.mac \in Macs /\ x.uid = x.mac
FallsBackTo(e, x) == entries[e].uid = None /\ x.uid = e /\ x.mac = entries[e].mac
Rewriting(e, x) ==
    /\ e \in Present /\ x \in Entry /\ entries' = [entries EXCEPT ![e] = x]
    /\ KeepsIdentity(e, x) \/ Anchors(x) \/ FallsBackTo(e, x)

(* A new entry is a discovery's, or a user form's.                         *)
LEMMA CreationOne ==
    ASSUME TypeInv, NEW f \in FlowIds, DiscoveryConfirmed(f) \/ UserTestSucceeds(f)
    PROVE  \E e, gone : Creation(f, e, gone)
<1>1. f \in Open /\ flows[f].kind # "reconfigure" /\ Creates(f, NewEntry(f))
  BY DEF DiscoveryConfirmed, UserTestSucceeds, NewEntry
<1>2. NewEntry(f) \in Entry
  <2>1. flows[f] \in Flow /\ flows[f].host \in Addresses
    BY DEF DiscoveryConfirmed, UserTestSucceeds, TypeInv, IdentityTypeOK, FlowShape, Open
  <2>2. QED BY <2>1 DEF NewEntry, Flow, Entry
<1>3. QED BY <1>1, <1>2, CreatesOne DEF Creation

(* Every step does one of them, or leaves the entries alone.               *)
LEMMA EntriesChange ==
    ASSUME TypeInv, [IdentityNext]_identityVars
    PROVE  \/ UNCHANGED entries
           \/ \E f, e, gone : Creation(f, e, gone)
           \/ \E e, x : Rewriting(e, x)
           \/ \E e \in Entries : entries' = [entries EXCEPT ![e] = None]
<1>0. /\ Present \subseteq Entries /\ \A e \in Present : entries[e] \in Entry
      /\ fixes \in [Entries -> Macs \cup {None}] /\ address \in [Macs -> Addresses]
  BY DEF Present, TypeInv, IdentityTypeOK
<1> DEFINE Goal == \/ UNCHANGED entries
                   \/ \E f, e, gone : Creation(f, e, gone)
                   \/ \E e, x : Rewriting(e, x)
                   \/ \E e \in Entries : entries' = [entries EXCEPT ![e] = None]
<1>1. ASSUME NEW f \in FlowIds, DiscoveryConfirmed(f) \/ UserTestSucceeds(f) PROVE Goal
  BY <1>1, CreationOne
<1>2. ASSUME NEW m \in Macs, DhcpDiscovers(m) PROVE Goal
  <2>1. CASE \E e \in HeldBy(m) : Moves(e, address[m])
    <3>1. PICK e \in HeldBy(m) : Moves(e, address[m])
      BY <2>1
    <3> DEFINE x == [entries[e] EXCEPT !.host = address[m]]
    <3>2. e \in Present /\ entries' = [entries EXCEPT ![e] = x]
      BY <3>1 DEF Moves, HeldBy
    <3>3. x \in Entry /\ x.uid = entries[e].uid /\ x.mac = entries[e].mac
      BY <1>0, <3>2, EntryForms
    <3> HIDE DEF x
    <3>4. Rewriting(e, x)
      BY <3>2, <3>3 DEF Rewriting, KeepsIdentity
    <3>5. QED BY <3>4
  <2>2. QED BY <1>2, <2>1 DEF DhcpDiscovers, ReportsMismatch
<1>3. ASSUME NEW f \in FlowIds, ReconfigureTestSucceeds(f) PROVE Goal
  <2>1. flows[f].mac \in Macs \cup {None}
    BY <1>3, ReconfiguresOne DEF Open, TypeInv, IdentityTypeOK, Flow
  <2>2. Rewriting(flows[f].entry, Reconfigured(f))
    BY <1>3, <2>1, ReconfiguresOne DEF Rewriting, KeepsIdentity, Anchors
  <2>3. QED BY <2>2
<1>4. ASSUME NEW e \in Entries, ConfirmReplacement(e) PROVE Goal
  <2>1. CASE e \in Present /\ entries' = [entries EXCEPT ![e] = Anchored(@, fixes[e])]
    <3>1. fixes[e] \in Macs
      BY <1>0, <1>4 DEF ConfirmReplacement
    <3>2. Rewriting(e, Anchored(entries[e], fixes[e]))
      BY <1>0, <2>1, <3>1, EntryForms DEF Rewriting, Anchors
    <3>3. QED BY <3>2
  <2>2. QED BY <1>4, <2>1 DEF ConfirmReplacement
<1>5. ASSUME NEW e \in Entries, SetUpStarts(e) PROVE Goal
  <2>1. e \in Present /\ entries' = [entries EXCEPT ![e] = Fallen(e)]
    BY <1>5 DEF SetUpStarts, FallsBack, Fallen, TypeInv, IdentityTypeOK
  <2>2. Rewriting(e, Fallen(e))
    BY <2>1, FallenForm DEF Rewriting, KeepsIdentity, FallsBackTo
  <2>3. QED BY <2>2
<1>6. ASSUME NEW e \in Entries, UserRemoves(e) PROVE Goal
  BY <1>6 DEF UserRemoves
<1>7. CASE UNCHANGED entries
  BY <1>7
<1>8. QED
  BY <1>1, <1>2, <1>3, <1>4, <1>5, <1>6, <1>7, ZenonT(30)
  DEF IdentityNext, DiscoveryStep, FormStep, RepairStep, UserFlowStarts, UserSubmits,
      ReconfigureSubmits, TestFails, FormClosed, ReconfigureStarts, FixOpens, Restore,
      SetUpSucceeds, SetUpFails, Restarts, MatrixMoves, identityVars, registry

-----------------------------------------------------------------------------
\* What has happened is not forgotten.
HistoryGrows == contested \subseteq contested' /\ withdrawn \subseteq withdrawn'

(* It never is.                                                            *)
LEMMA HistoryStep ==
    ASSUME [IdentityNext]_identityVars
    PROVE  HistoryGrows
<1> USE DEF HistoryGrows, history
<1>1. ASSUME NEW f, NEW data, Creates(f, data) PROVE HistoryGrows
  BY <1>1 DEF Creates
<1>2. ASSUME NEW f \in FlowIds, NEW h, NEW m, UserSubmits(f, h, m) PROVE HistoryGrows
  BY <1>2 DEF UserSubmits, Asked
<1>3. ASSUME NEW f \in FlowIds, NEW h, NEW m, ReconfigureSubmits(f, h, m)
      PROVE  HistoryGrows
  BY <1>3 DEF ReconfigureSubmits, Asked
<1>4. ASSUME NEW m \in Macs, DhcpDiscovers(m) PROVE HistoryGrows
  BY <1>4 DEF DhcpDiscovers, Asked
<1>5. ASSUME NEW e \in Entries, ConfirmReplacement(e) PROVE HistoryGrows
  BY <1>5 DEF ConfirmReplacement, Asked
<1>6. CASE \E f \in FlowIds : DiscoveryConfirmed(f) \/ UserTestSucceeds(f)
  BY <1>1, <1>6 DEF DiscoveryConfirmed, UserTestSucceeds
<1>7. CASE \/ \E e \in Entries : \/ SetUpStarts(e) \/ SetUpSucceeds(e) \/ SetUpFails(e)
                                \/ UserRemoves(e)
           \/ \E e \in Entries : ReconfigureStarts(e) \/ FixOpens(e) \/ Restore(e)
           \/ \E f \in FlowIds : \/ ReconfigureTestSucceeds(f) \/ TestFails(f)
                                 \/ FormClosed(f)
  BY <1>7 DEF SetUpStarts, SetUpSucceeds, SetUpFails, UserRemoves, ReconfigureStarts,
     FixOpens, Restore, ReconfigureTestSucceeds, TestFails, FormClosed
<1>8. CASE \/ UserFlowStarts \/ Restarts
           \/ \E m \in Macs, h \in Addresses : MatrixMoves(m, h)
           \/ UNCHANGED identityVars
  BY <1>8 DEF UserFlowStarts, Restarts, MatrixMoves, identityVars
<1>9. QED
  BY <1>2, <1>3, <1>4, <1>5, <1>6, <1>7, <1>8
  DEF IdentityNext, DiscoveryStep, FormStep, RepairStep

\* The unique id of an entry is a MAC, its own id, or not set.
OwnIds == \A e \in Present : entries[e].uid \in Entries => entries[e].uid = e

\* The unique id that a flow has set for itself is the MAC it will store, or one
\* that its user has withdrawn.
FlowsAgree ==
    \A f \in Open : flows[f].kind # "reconfigure" =>
        \/ flows[f].uid = flows[f].mac
        \/ flows[f].mac = None /\ flows[f].uid \in withdrawn

(* No entry is given the id of another for its unique id.                  *)
LEMMA OwnIdsStep ==
    ASSUME TypeInv, OwnIds, [IdentityNext]_identityVars
    PROVE  OwnIds'
<1> USE IdentityAssumption DEF OwnIds
<1>0. /\ Present \subseteq Entries /\ \A e \in Present : entries[e] \in Entry
      /\ \A f \in Open : flows[f] \in Flow
  BY DEF Present, Open, TypeInv, IdentityTypeOK
<1>1. ASSUME NEW f, NEW e, NEW gone, Creation(f, e, gone) PROVE OwnIds'
  <2>1. NewEntry(f).uid \in Macs \cup {None}
    BY <1>0, <1>1 DEF Creation, NewEntry, Flow
  <2>2. NewEntry(f).uid \notin Entries
    BY <2>1
  <2>3. QED BY <1>1, <2>2 DEF Creation, CreatesAs, Present
<1>2. ASSUME NEW e, NEW x, Rewriting(e, x) PROVE OwnIds'
  <2>1. /\ e \in Present /\ Present' = Present /\ entries'[e] = x
        /\ \A d \in Present \ {e} : entries'[d] = entries[d]
    BY <1>2, EntryUpdate DEF Rewriting
  <2>2. x.uid \in Entries => x.uid = e
    BY <1>2, <2>1 DEF Rewriting, KeepsIdentity, Anchors, FallsBackTo
  <2>3. QED BY <2>1, <2>2
<1>3. ASSUME NEW e \in Entries, entries' = [entries EXCEPT ![e] = None] PROVE OwnIds'
  BY <1>3 DEF Present, TypeInv, IdentityTypeOK
<1>4. CASE UNCHANGED entries
  BY <1>4 DEF Present
<1>5. QED BY <1>1, <1>2, <1>3, <1>4, EntriesChange

(* A flow's unique id follows its MAC, or is withdrawn.                    *)
LEMMA FlowsAgreeStep ==
    ASSUME TypeInv, FlowsAgree, [IdentityNext]_identityVars
    PROVE  FlowsAgree'
<1> USE DEF FlowsAgree, Open
<1>0. flows \in [FlowIds -> Flow \cup {None}] /\ address \in [Macs -> Addresses]
  BY DEF TypeInv, IdentityTypeOK
<1>h. withdrawn \subseteq withdrawn'
  BY HistoryStep DEF HistoryGrows
<1>1. ASSUME \A f \in FlowIds : flows'[f] = flows[f] \/ flows'[f] = None
      PROVE  FlowsAgree'
  BY <1>h, <1>1
<1>2. ASSUME NEW flow, Starts(flow), flow.uid = flow.mac PROVE FlowsAgree'
  BY <1>0, <1>h, <1>2, StartsOne
<1>3. ASSUME NEW m \in Macs, DhcpDiscovers(m) PROVE FlowsAgree'
  <2>1. CASE Starts(Discovery(m))
    BY <1>0, <1>2, <2>1, DiscoveryForm
  <2>2. QED BY <1>1, <1>3, <2>1 DEF DhcpDiscovers, Discovery
<1>4. ASSUME NEW f \in FlowIds, NEW h \in Addresses, NEW m \in Macs \cup {None},
             UserSubmits(f, h, m)
      PROVE  FlowsAgree'
  <2>1. CASE Finishes(f)
    BY <1>0, <1>1, <2>1 DEF Finishes
  <2>2. CASE flows' = [flows EXCEPT ![f] = Submitted(@, h, m)]
    <3> DEFINE g == Submitted(flows[f], h, m)
    <3>1. /\ flows[f] \in Flow
          /\ m = None => flows[f].uid = None \/ flows[f].uid \in withdrawn'
      BY <1>0, <1>4, <2>2 DEF UserSubmits
    <3>2. g.mac = m /\ g.uid = IF m = None THEN flows[f].uid ELSE m
      BY <3>1, FlowForms
    <3> HIDE DEF g
    <3>3. g.uid = g.mac \/ (g.mac = None /\ g.uid \in withdrawn')
      BY <3>1, <3>2
    <3>4. /\ flows'[f] = g
          /\ \A d \in FlowIds \ {f} : flows'[d] = flows[d]
      BY <1>0, <2>2 DEF g
    <3>5. QED BY <1>h, <3>3, <3>4
  <2>3. QED BY <1>4, <2>1, <2>2 DEF UserSubmits
<1>5. ASSUME NEW f \in FlowIds, NEW h \in Addresses, NEW m \in Macs \cup {None},
             ReconfigureSubmits(f, h, m)
      PROVE  FlowsAgree'
  <2>1. CASE Finishes(f)
    BY <1>0, <1>1, <2>1 DEF Finishes
  <2>2. CASE flows' = [flows EXCEPT ![f] = OnTest(@, h, m)]
    <3>1. flows[f] \in Flow /\ flows[f].kind = "reconfigure"
      BY <1>0, <1>5 DEF ReconfigureSubmits
    <3>2. flows'[f].kind = "reconfigure" /\ \A g \in FlowIds \ {f} : flows'[g] = flows[g]
      BY <1>0, <2>2, <3>1, TestForm
    <3>3. QED BY <1>h, <3>2
  <2>3. QED BY <1>5, <2>1, <2>2 DEF ReconfigureSubmits
<1>6. ASSUME NEW f \in FlowIds, TestFails(f) PROVE FlowsAgree'
  <2>1. flows[f] \in Flow /\ flows' = [flows EXCEPT ![f].step = "form"]
    BY <1>0, <1>6 DEF TestFails
  <2>2. /\ flows'[f].kind = flows[f].kind /\ flows'[f].uid = flows[f].uid
        /\ flows'[f].mac = flows[f].mac /\ \A g \in FlowIds \ {f} : flows'[g] = flows[g]
    BY <1>0, <2>1 DEF Flow
  <2>3. QED BY <1>h, <1>6, <2>2 DEF TestFails
<1>7. CASE UserFlowStarts \/ \E e \in Entries : ReconfigureStarts(e)
  BY <1>2, <1>7 DEF UserFlowStarts, ReconfigureStarts, NewFlow
<1>8. ASSUME NEW f \in FlowIds, DiscoveryConfirmed(f) \/ UserTestSucceeds(f)
      PROVE  FlowsAgree'
  BY <1>1, <1>8 DEF DiscoveryConfirmed, UserTestSucceeds, Creates
<1>9. ASSUME NEW f \in FlowIds, ReconfigureTestSucceeds(f) \/ FormClosed(f)
      PROVE  FlowsAgree'
  BY <1>0, <1>1, <1>9 DEF ReconfigureTestSucceeds, FormClosed, Finishes
<1>10. CASE Restarts
  BY <1>10 DEF Restarts
<1>11. CASE UNCHANGED flows
  BY <1>h, <1>11
<1>12. QED
  BY <1>3, <1>4, <1>5, <1>6, <1>7, <1>8, <1>9, <1>10, <1>11
  DEF IdentityNext, DiscoveryStep, FormStep, RepairStep, FixOpens, ConfirmReplacement,
      Restore, SetUpStarts, SetUpSucceeds, SetUpFails, UserRemoves, MatrixMoves,
      identityVars

(* The data and the unique id of an entry change together.                 *)
LEMMA AnchorsStep ==
    ASSUME TypeInv, FlowsAgree, AnchorsAgree, [IdentityNext]_identityVars
    PROVE  AnchorsAgree'
<1> USE IdentityAssumption DEF AnchorsAgree
<1>0. /\ Present \subseteq Entries /\ \A e \in Present : entries[e] \in Entry
      /\ \A f \in Open : flows[f] \in Flow
  BY DEF Present, Open, TypeInv, IdentityTypeOK
<1>h. withdrawn \subseteq withdrawn'
  BY HistoryStep DEF HistoryGrows
<1>1. ASSUME NEW f, NEW e, NEW gone, Creation(f, e, gone) PROVE AnchorsAgree'
  <2>1. \/ NewEntry(f).uid = NewEntry(f).mac
        \/ NewEntry(f).mac = None /\ NewEntry(f).uid \in withdrawn
    BY <1>1 DEF Creation, NewEntry, FlowsAgree
  <2>2. QED BY <1>h, <1>1, <2>1 DEF Creation, CreatesAs, Present
<1>2. ASSUME NEW e, NEW x, Rewriting(e, x) PROVE AnchorsAgree'
  <2>1. /\ e \in Present /\ Present' = Present /\ entries'[e] = x
        /\ \A d \in Present \ {e} : entries'[d] = entries[d]
    BY <1>2, EntryUpdate DEF Rewriting
  <2>2. x.uid \in IF x.mac = None THEN {None, e} \cup withdrawn ELSE {x.mac}
    <3>1. CASE KeepsIdentity(e, x)
      BY <2>1, <3>1 DEF KeepsIdentity
    <3>2. CASE Anchors(x)
      BY <3>2 DEF Anchors
    <3>3. CASE FallsBackTo(e, x)
      BY <1>0, <2>1, <3>3 DEF FallsBackTo
    <3>4. QED BY <1>2, <3>1, <3>2, <3>3 DEF Rewriting
  <2>3. QED BY <1>h, <2>1, <2>2
<1>3. ASSUME NEW e \in Entries, entries' = [entries EXCEPT ![e] = None]
      PROVE  AnchorsAgree'
  BY <1>h, <1>3 DEF Present, TypeInv, IdentityTypeOK
<1>4. CASE UNCHANGED entries
  BY <1>h, <1>4 DEF Present
<1>5. QED BY <1>1, <1>2, <1>3, <1>4, EntriesChange

-----------------------------------------------------------------------------
\* One entry has the MAC m; or flows are after it, which no entry has and no
\* reconfigure form tests; or one such form tests it, for the entry that has it.
Alone(m) ==
    /\ \A d, e \in HeldBy(m) : d = e
    /\ ClaimedBy(m) # {} => HeldBy(m) = {} /\ TestedBy(m) = {}
    /\ \A f \in TestedBy(m) :
          HeldBy(m) \subseteq {flows[f].entry} /\ TestedBy(m) \subseteq {f}

AloneInv == \A m \in Macs \ contested : Alone(m)

\* A step brings nothing to m.
Shrinks(m) ==
    /\ HeldBy(m)' \subseteq HeldBy(m)
    /\ ClaimedBy(m)' \subseteq ClaimedBy(m)
    /\ \A f \in TestedBy(m)' : f \in TestedBy(m) /\ flows'[f].entry = flows[f].entry

(* What is left is as alone as before.                                     *)
LEMMA AloneShrinks ==
    ASSUME NEW m, Alone(m), Shrinks(m)
    PROVE  Alone(m)'
  BY DEF Alone, Shrinks

(* Who has a MAC after one entry is written.                               *)
LEMMA HeldAfter ==
    ASSUME TypeInv, NEW e \in Present, NEW x \in Entry,
           entries' = [entries EXCEPT ![e] = x], NEW m \in Macs
    PROVE  HeldBy(m)' = (HeldBy(m) \ {e}) \cup (IF x.uid = m THEN {e} ELSE {})
<1>1. /\ Present' = Present /\ entries'[e] = x
      /\ \A d \in Present \ {e} : entries'[d] = entries[d]
  BY EntryUpdate
<1>2. HeldBy(m)' = { d \in Present : entries'[d].uid = m }
  BY <1>1 DEF HeldBy
<1>3. QED BY <1>1, <1>2 DEF HeldBy

(* Who is after it once one flow is.                                       *)
LEMMA FlowAfter ==
    ASSUME TypeInv, NEW f \in FlowIds, NEW g \in Flow,
           flows' = [flows EXCEPT ![f] = g], NEW m \in Macs
    PROVE  /\ ClaimedBy(m)' = (ClaimedBy(m) \ {f}) \cup (IF g.uid = m THEN {f} ELSE {})
           /\ TestedBy(m)' = (TestedBy(m) \ {f})
                 \cup (IF /\ g.kind = "reconfigure" /\ g.step = "testing"
                          /\ g.mac = m THEN {f} ELSE {})
           /\ flows'[f] = g /\ \A d \in FlowIds \ {f} : flows'[d] = flows[d]
<1>1. /\ flows'[f] = g /\ \A d \in FlowIds \ {f} : flows'[d] = flows[d]
      /\ Open' = Open \cup {f} /\ Open \subseteq FlowIds
  BY NoneAssumption DEF TypeInv, IdentityTypeOK, Open
<1>2. ClaimedBy(m)' = { d \in Open \cup {f} : flows'[d].uid = m }
  BY <1>1 DEF ClaimedBy
<1>3. TestedBy(m)' = { d \in Open \cup {f} : /\ flows'[d].kind = "reconfigure"
                                            /\ flows'[d].step = "testing"
                                            /\ flows'[d].mac = m }
  BY <1>1 DEF TestedBy
<1>4. QED BY <1>1, <1>2, <1>3 DEF ClaimedBy, TestedBy

\* Each flow goes on as it is, or ends.
FlowsEnd ==
    \A f \in FlowIds : flows'[f] = None \/ (f \in Open /\ flows'[f] = flows[f])

(* Then no MAC gets another flow.                                          *)
LEMMA EndingShrinks ==
    ASSUME FlowsEnd, NEW m \in Macs, HeldBy(m)' \subseteq HeldBy(m)
    PROVE  Shrinks(m)
  BY DEF FlowsEnd, Shrinks, ClaimedBy, TestedBy, Open

(* An entry that is created takes the MAC of its flow with it.             *)
LEMMA AloneCreates ==
    ASSUME TypeInv, NEW f, NEW e, NEW gone, Creation(f, e, gone),
           NEW m \in Macs, Alone(m)
    PROVE  Alone(m)'
<1> DEFINE data == NewEntry(f)
<1>1. /\ f \in Open /\ data.uid = flows[f].uid /\ data \in Entry
      /\ CreatesAs(f, data, e, gone) /\ e \notin Present
  BY DEF Creation, NewEntry, CreatesAs, TypeInv, IdentityTypeOK
<1> HIDE DEF data
<1>2. Present' = (Present \ gone) \cup {e}
  BY <1>1, NoneAssumption DEF CreatesAs, Present
<1>3. /\ entries'[e] = data
      /\ \A d \in Present \ gone : entries'[d] = entries[d]
  BY <1>1 DEF CreatesAs, Present
<1>4. FlowsEnd
  BY <1>1 DEF FlowsEnd, CreatesAs, Open
<1>5. CASE data.uid = m
  <2>1. HeldBy(m) = {} /\ TestedBy(m) = {}
    BY <1>1, <1>5 DEF Alone, ClaimedBy
  <2>2. HeldBy(m)' = {e}
    BY <1>2, <1>3, <1>5, <2>1 DEF HeldBy
  <2>3. m # None
    BY IdentityAssumption
  <2>4. ClaimedBy(m)' = {}
    BY <1>1, <1>5, <2>3 DEF CreatesAs, ClaimedBy, Open
  <2>5. TestedBy(m)' = {}
    BY <1>4, <2>1 DEF FlowsEnd, TestedBy, Open
  <2>6. QED BY <2>2, <2>4, <2>5 DEF Alone
<1>6. CASE data.uid # m
  <2>1. HeldBy(m)' \subseteq HeldBy(m)
    BY <1>2, <1>3, <1>6 DEF HeldBy
  <2>2. QED BY <1>4, <2>1, EndingShrinks, AloneShrinks
<1>7. QED BY <1>5, <1>6

(* A flow may take up a MAC that no entry has and none tests, or a test of *)
(* one that no other flow has, and no entry but its own.                   *)
LEMMA AloneClaims ==
    ASSUME TypeInv, UNCHANGED entries, NEW f \in FlowIds, NEW g \in Flow,
           flows' = [flows EXCEPT ![f] = g], NEW m \in Macs, Alone(m),
           g.uid = m => \/ f \in ClaimedBy(m)
                        \/ HeldBy(m) = {} /\ TestedBy(m) = {},
           g.uid = m => g.kind # "reconfigure",
           g.kind = "reconfigure" /\ g.step = "testing" /\ g.mac = m =>
              /\ TestedBy(m) = {} /\ ClaimedBy(m) = {} /\ HeldBy(m) \subseteq {g.entry}
    PROVE  Alone(m)'
<1>1. HeldBy(m)' = HeldBy(m)
  BY DEF HeldBy, Present
<1>2. /\ ClaimedBy(m)' = (ClaimedBy(m) \ {f}) \cup (IF g.uid = m THEN {f} ELSE {})
      /\ TestedBy(m)' = (TestedBy(m) \ {f})
            \cup (IF /\ g.kind = "reconfigure" /\ g.step = "testing"
                     /\ g.mac = m THEN {f} ELSE {})
      /\ flows'[f] = g /\ \A d \in FlowIds \ {f} : flows'[d] = flows[d]
  BY FlowAfter
<1>3. TestedBy(m) \subseteq FlowIds
  BY DEF TestedBy, Open
<1>4. CASE g.uid = m
  <2>1. HeldBy(m) = {} /\ TestedBy(m) = {}
    BY <1>4 DEF Alone
  <2>2. QED BY <1>1, <1>2, <1>4, <2>1 DEF Alone
<1>5. CASE g.kind = "reconfigure" /\ g.step = "testing" /\ g.mac = m
  <2>1. TestedBy(m)' = {f} /\ ClaimedBy(m)' = {} /\ HeldBy(m)' \subseteq {flows'[f].entry}
    BY <1>1, <1>2, <1>5
  <2>2. QED BY <1>1, <2>1 DEF Alone
<1>6. CASE g.uid # m /\ ~(g.kind = "reconfigure" /\ g.step = "testing" /\ g.mac = m)
  <2>1. Shrinks(m)
    BY <1>1, <1>2, <1>3, <1>6 DEF Shrinks
  <2>2. QED BY <2>1, AloneShrinks
<1>7. QED BY <1>4, <1>5, <1>6

(* A MAC that nothing has contested is alone.                              *)
LEMMA AloneStep ==
    ASSUME TypeInv, AloneInv, [IdentityNext]_identityVars
    PROVE  AloneInv'
<1> SUFFICES ASSUME NEW m \in Macs, m \notin contested' PROVE Alone(m)'
  BY DEF AloneInv
<1>0. /\ flows \in [FlowIds -> Flow \cup {None}] /\ address \in [Macs -> Addresses]
      /\ Present \subseteq Entries /\ \A e \in Present : entries[e] \in Entry
      /\ fixes \in [Entries -> Macs \cup {None}] /\ m # None
      /\ \A f \in Open : f \in FlowIds /\ flows[f] \in Flow
  BY IdentityAssumption DEF TypeInv, IdentityTypeOK, Present, Open
<1>a. Alone(m)
  BY HistoryStep DEF AloneInv, HistoryGrows
<1>b. ASSUME FlowsEnd, HeldBy(m)' \subseteq HeldBy(m) PROVE Alone(m)'
  BY <1>a, <1>b, EndingShrinks, AloneShrinks
<1>c. ASSUME UNCHANGED flows PROVE FlowsEnd
  BY <1>c DEF FlowsEnd, Open
<1>d. ASSUME NEW f \in FlowIds, Finishes(f) PROVE FlowsEnd
  BY <1>0, <1>d DEF FlowsEnd, Finishes, Open
<1>e. ASSUME UNCHANGED entries PROVE HeldBy(m)' = HeldBy(m)
  BY <1>e DEF HeldBy, Present
<1>f. ASSUME NEW e \in Present, NEW x \in Entry, entries' = [entries EXCEPT ![e] = x],
             x.uid \in {entries[e].uid, e}
      PROVE  HeldBy(m)' \subseteq HeldBy(m)
  <2>1. HeldBy(m)' = (HeldBy(m) \ {e}) \cup (IF x.uid = m THEN {e} ELSE {})
    BY <1>f, HeldAfter
  <2>2. e # m
    BY <1>0, IdentityAssumption
  <2>3. QED BY <1>f, <2>1, <2>2 DEF HeldBy
<1>1. ASSUME NEW f \in FlowIds, DiscoveryConfirmed(f) \/ UserTestSucceeds(f)
      PROVE  Alone(m)'
  BY <1>1, <1>a, CreationOne, AloneCreates
<1>2. ASSUME NEW n \in Macs, DhcpDiscovers(n) PROVE Alone(m)'
  <2>1. CASE \E e \in HeldBy(n) : Moves(e, address[n]) /\ UNCHANGED flows
    <3>1. PICK e \in HeldBy(n) : Moves(e, address[n]) /\ UNCHANGED flows
      BY <2>1
    <3> DEFINE x == [entries[e] EXCEPT !.host = address[n]]
    <3>2. e \in Present /\ entries' = [entries EXCEPT ![e] = x]
      BY <3>1 DEF Moves, HeldBy
    <3>3. x \in Entry /\ x.uid = entries[e].uid
      BY <1>0, <3>2, EntryForms
    <3> HIDE DEF x
    <3>4. QED BY <1>b, <1>c, <1>f, <3>1, <3>2, <3>3
  <2>2. CASE UNCHANGED <<entries, flows>>
    BY <1>b, <1>c, <1>e, <2>2
  <2>3. CASE /\ HeldBy(n) = {} /\ Starts(Discovery(n)) /\ UNCHANGED entries
             /\ Asked(n, TestedBy(n) = {})
    <3> DEFINE g == Discovery(n)
    <3>1. PICK f \in FlowIds : flows' = [flows EXCEPT ![f] = g]
      BY <2>3, StartsOne
    <3>2. g \in Flow /\ g.kind = "discovery" /\ g.uid = n
      BY <1>0, DiscoveryForm
    <3> HIDE DEF g
    <3>3. m = n => HeldBy(m) = {} /\ TestedBy(m) = {}
      BY <2>3 DEF Asked
    <3>4. QED BY <1>a, <2>3, <3>1, <3>2, <3>3, AloneClaims
  <2>4. QED BY <1>2, <2>1, <2>2, <2>3 DEF DhcpDiscovers, ReportsMismatch, Discovery
<1>3. ASSUME NEW f \in FlowIds, NEW h \in Addresses, NEW n \in Macs \cup {None},
             UserSubmits(f, h, n)
      PROVE  Alone(m)'
  <2>1. UNCHANGED entries /\ f \in Open /\ flows[f].kind = "user"
    BY <1>3 DEF UserSubmits, registry
  <2>2. CASE Finishes(f)
    BY <1>b, <1>d, <1>e, <2>1, <2>2
  <2>3. CASE /\ flows' = [flows EXCEPT ![f] = Submitted(@, h, n)]
             /\ n = None \/ (~AlreadyConfigured(f, n) /\ Asked(n, TestedBy(n) = {}))
    <3> DEFINE g == Submitted(flows[f], h, n)
    <3>1. /\ g \in Flow /\ g.kind = "user"
          /\ g.uid = IF n = None THEN flows[f].uid ELSE n
          /\ flows' = [flows EXCEPT ![f] = g]
      BY <1>0, <2>1, <2>3, FlowForms
    <3>2. n # None /\ m = n => HeldBy(m) = {} /\ TestedBy(m) = {}
      BY <2>3 DEF Asked, AlreadyConfigured
    <3> HIDE DEF g
    <3>3. g.uid = m => f \in ClaimedBy(m) \/ (HeldBy(m) = {} /\ TestedBy(m) = {})
      BY <2>1, <3>1, <3>2 DEF ClaimedBy
    <3>4. QED BY <1>a, <2>1, <3>1, <3>3, AloneClaims
  <2>4. QED BY <1>3, <2>2, <2>3 DEF UserSubmits
<1>4. ASSUME NEW f \in FlowIds, NEW h \in Addresses, NEW n \in Macs \cup {None},
             ReconfigureSubmits(f, h, n)
      PROVE  Alone(m)'
  <2> DEFINE e == flows[f].entry
             conflict == n \notin {None, entries[e].uid} /\ Conflict(e, n)
  <2>1. /\ UNCHANGED entries /\ f \in Open /\ flows[f].kind = "reconfigure"
        /\ e \in Present
    BY <1>4 DEF ReconfigureSubmits, registry
  <2>2. CASE Finishes(f)
    BY <1>b, <1>d, <1>e, <2>1, <2>2
  <2>3. CASE /\ ~conflict /\ flows' = [flows EXCEPT ![f] = OnTest(@, h, n)]
             /\ Asked(n, n = None \/ TestedBy(n) \cup ClaimedBy(n) = {})
    <3> DEFINE g == OnTest(flows[f], h, n)
    <3>1. /\ g \in Flow /\ g.kind = "reconfigure" /\ g.uid = flows[f].uid
          /\ g.mac = n /\ g.entry = e /\ flows' = [flows EXCEPT ![f] = g]
      BY <1>0, <2>1, <2>3, TestForm
    <3> HIDE DEF g
    <3>2. m = n => TestedBy(m) = {} /\ ClaimedBy(m) = {}
      BY <1>0, <2>3 DEF Asked
    <3>3. m = n => HeldBy(m) \subseteq {e}
      BY <1>0, <1>a, <2>1, <2>3 DEF Conflict, HeldBy, Alone
    <3>4. flows[f].uid = None
      BY <2>1 DEF TypeInv, FlowShape
    <3>5. QED BY <1>0, <1>a, <2>1, <3>1, <3>2, <3>3, <3>4, AloneClaims
  <2>4. QED BY <1>4, <2>2, <2>3 DEF ReconfigureSubmits
<1>5. ASSUME NEW f \in FlowIds, ReconfigureTestSucceeds(f) PROVE Alone(m)'
  <2> DEFINE e == flows[f].entry
             n == flows[f].mac
             x == Reconfigured(f)
  <2>1. /\ f \in Open /\ flows[f].kind = "reconfigure" /\ flows[f].step = "testing"
        /\ e \in Present /\ x \in Entry /\ entries' = [entries EXCEPT ![e] = x]
        /\ Finishes(f) /\ n \in Macs \cup {None}
        /\ n = None => x.uid = entries[e].uid
        /\ n # None => x.uid = n
    BY <1>0, <1>5, ReconfiguresOne DEF Flow
  <2> HIDE DEF x
  <2>2. CASE n = None
    BY <1>b, <1>d, <1>f, <2>1, <2>2
  <2>a. HeldBy(m)' = (HeldBy(m) \ {e}) \cup (IF x.uid = m THEN {e} ELSE {})
    <3> HIDE DEF e, n
    <3>1. QED BY <2>1, HeldAfter
  <2>3. CASE n \in Macs \ {m}
    <3>1. HeldBy(m)' \subseteq HeldBy(m)
      BY <2>1, <2>a, <2>3, IdentityAssumption
    <3>2. QED BY <1>b, <1>d, <2>1, <3>1
  <2>4. CASE n = m
    <3>1. f \in TestedBy(m)
      BY <2>1, <2>4 DEF TestedBy
    <3>2. HeldBy(m) \subseteq {e} /\ TestedBy(m) = {f} /\ ClaimedBy(m) = {}
      BY <1>a, <3>1 DEF Alone
    <3>3. HeldBy(m)' \subseteq {e}
      BY <2>a, <3>2
    <3>4. TestedBy(m)' = {} /\ ClaimedBy(m)' = {}
      <4>1. Open' \subseteq Open \ {f} /\ \A g \in Open' : flows'[g] = flows[g]
        BY <1>0, <2>1 DEF Finishes, Open
      <4>2. QED BY <3>2, <4>1 DEF TestedBy, ClaimedBy
    <3>5. QED BY <3>3, <3>4 DEF Alone
  <2>5. QED BY <2>1, <2>2, <2>3, <2>4
<1>6. ASSUME NEW e \in Entries, ConfirmReplacement(e) PROVE Alone(m)'
  <2> DEFINE n == fixes[e]
             x == Anchored(entries[e], n)
  <2>1. UNCHANGED flows /\ n \in Macs
    BY <1>0, <1>6 DEF ConfirmReplacement
  <2>2. CASE UNCHANGED entries
    BY <1>b, <1>c, <1>e, <2>1, <2>2
  <2>3. CASE /\ e \in Present /\ entries' = [entries EXCEPT ![e] = Anchored(@, n)]
             /\ Asked(n, (HeldBy(n) \ {e}) \cup ClaimedBy(n) \cup TestedBy(n) = {})
    <3>1. x \in Entry /\ x.uid = n /\ entries' = [entries EXCEPT ![e] = x]
      BY <1>0, <2>1, <2>3, EntryForms
    <3> HIDE DEF x
    <3>a. HeldBy(m)' = (HeldBy(m) \ {e}) \cup (IF x.uid = m THEN {e} ELSE {})
      BY <2>3, <3>1, HeldAfter
    <3>2. CASE n # m
      <4>1. HeldBy(m)' \subseteq HeldBy(m)
        BY <3>1, <3>2, <3>a
      <4>2. QED BY <1>b, <1>c, <2>1, <4>1
    <3>3. CASE n = m
      <4>1. HeldBy(m) \subseteq {e} /\ ClaimedBy(m) = {} /\ TestedBy(m) = {}
        BY <2>3, <3>3 DEF Asked
      <4>2. HeldBy(m)' \subseteq {e}
        BY <3>a, <4>1
      <4>3. ClaimedBy(m)' = {} /\ TestedBy(m)' = {}
        BY <2>1, <4>1 DEF ClaimedBy, TestedBy, Open
      <4>4. QED BY <4>2, <4>3 DEF Alone
    <3>4. QED BY <3>2, <3>3
  <2>4. QED BY <1>6, <2>2, <2>3 DEF ConfirmReplacement
<1>7. ASSUME NEW e \in Entries, SetUpStarts(e) PROVE Alone(m)'
  <2>1. UNCHANGED flows /\ e \in Present /\ entries' = [entries EXCEPT ![e] = Fallen(e)]
    BY <1>7 DEF SetUpStarts, FallsBack, Fallen, TypeInv, IdentityTypeOK
  <2>2. Fallen(e) \in Entry /\ Fallen(e).uid \in {entries[e].uid, e}
    BY <2>1, FallenForm
  <2>3. QED BY <1>b, <1>c, <1>f, <2>1, <2>2
<1>8. ASSUME NEW e \in Entries, UserRemoves(e) PROVE Alone(m)'
  <2>1. UNCHANGED flows /\ entries' = [entries EXCEPT ![e] = None]
    BY <1>8 DEF UserRemoves
  <2>2. HeldBy(m)' \subseteq HeldBy(m)
    BY <2>1 DEF HeldBy, Present, TypeInv, IdentityTypeOK
  <2>3. QED BY <1>b, <1>c, <2>1, <2>2
<1>9. CASE UserFlowStarts \/ \E e \in Entries : ReconfigureStarts(e)
  <2>1. \E g \in Flow : /\ g.uid = None /\ g.step = "form" /\ Starts(g)
                        /\ UNCHANGED entries
    BY <1>9 DEF UserFlowStarts, ReconfigureStarts, NewFlow, Flow, registry
  <2>2. PICK g \in Flow : /\ g.uid = None /\ g.step = "form" /\ Starts(g)
                          /\ UNCHANGED entries
    BY <2>1
  <2>3. PICK f \in FlowIds : flows' = [flows EXCEPT ![f] = g]
    BY <2>2, StartsOne
  <2>4. QED BY <1>0, <1>a, <2>2, <2>3, AloneClaims
<1>10. ASSUME NEW f \in FlowIds, TestFails(f) PROVE Alone(m)'
  <2> DEFINE g == [flows[f] EXCEPT !.step = "form"]
  <2>1. UNCHANGED entries /\ flows' = [flows EXCEPT ![f] = g] /\ f \in Open
    BY <1>10 DEF TestFails, registry
  <2>2. g \in Flow /\ g.step = "form" /\ g.uid = flows[f].uid /\ g.kind = flows[f].kind
    BY <1>0, <2>1 DEF Flow
  <2> HIDE DEF g
  <2>3. g.uid = m => f \in ClaimedBy(m) /\ g.kind # "reconfigure"
    BY <1>0, <2>1, <2>2 DEF ClaimedBy, TypeInv, FlowShape
  <2>4. QED BY <1>a, <2>1, <2>2, <2>3, AloneClaims
<1>11. ASSUME NEW f \in FlowIds, FormClosed(f) PROVE Alone(m)'
  BY <1>b, <1>d, <1>e, <1>11 DEF FormClosed, registry
<1>12. CASE Restarts
  BY <1>b, <1>e, <1>12 DEF Restarts, FlowsEnd
<1>13. CASE \/ \E e \in Entries : \/ FixOpens(e) \/ Restore(e)
                                 \/ SetUpSucceeds(e) \/ SetUpFails(e)
            \/ \E n \in Macs, h \in Addresses : MatrixMoves(n, h)
            \/ UNCHANGED identityVars
  BY <1>b, <1>c, <1>e, <1>13 DEF FixOpens, Restore, SetUpSucceeds, SetUpFails,
     MatrixMoves, identityVars, registry
<1>14. QED
  BY <1>1, <1>2, <1>3, <1>4, <1>5, <1>6, <1>7, <1>8, <1>9, <1>10, <1>11, <1>12, <1>13
  DEF IdentityNext, DiscoveryStep, FormStep, RepairStep

(* Then only a contested MAC is shared.                                    *)
LEMMA AloneIsShared ==
    ASSUME TypeInv, OwnIds, AloneInv
    PROVE  SharedOnlyIfContested
<1> SUFFICES ASSUME NEW d \in Present, NEW e \in Present, entries[d].uid # None,
                    entries[d].uid = entries[e].uid, entries[e].uid \notin contested
             PROVE  d = e
  BY DEF SharedOnlyIfContested
<1>1. entries[d] \in Entry
  BY DEF TypeInv, IdentityTypeOK, Present
<1>2. entries[d].uid \in Macs \cup Entries
  BY <1>1 DEF Entry
<1>3. CASE entries[d].uid \in Entries
  BY <1>3 DEF OwnIds
<1>4. CASE entries[d].uid \in Macs
  BY <1>4 DEF AloneInv, Alone, HeldBy
<1>5. QED BY <1>2, <1>3, <1>4

(* And an entry that goes was removed by the user, or contested.           *)
LEMMA RemovalStep ==
    ASSUME TypeInv, AloneInv, [IdentityNext]_identityVars,
           NEW e \in Present, entries'[e] = None
    PROVE  UserRemoves(e) \/ entries[e].uid \in contested
<1>0. e \in Entries /\ entries[e] # None
  BY DEF Present
<1>1. ASSUME NEW f \in FlowIds, DiscoveryConfirmed(f) \/ UserTestSucceeds(f)
      PROVE  entries[e].uid \in contested
  <2>1. PICK d, gone : Creation(f, d, gone)
    BY <1>1, CreationOne
  <2> DEFINE m == flows[f].uid
  <2>2. /\ f \in Open /\ e \in gone /\ m # None /\ entries[e].uid = m
    <3>1. d # e
      BY <2>1 DEF Creation, CreatesAs, TypeInv, IdentityTypeOK
    <3>2. e \in gone
      BY <1>0, <2>1, <3>1 DEF Creation, CreatesAs
    <3>3. QED BY <2>1, <3>2 DEF Creation, CreatesAs, NewEntry
  <2>3. m \in Macs
    BY <2>2 DEF TypeInv, IdentityTypeOK, Open, Flow
  <2>4. f \in ClaimedBy(m) /\ e \in HeldBy(m)
    BY <2>2 DEF ClaimedBy, HeldBy
  <2>5. QED BY <2>2, <2>3, <2>4 DEF AloneInv, Alone
<1>2. ASSUME NEW d, NEW x \in Entry, entries' = [entries EXCEPT ![d] = x] PROVE FALSE
  BY <1>0, <1>2, NoneAssumption DEF TypeInv, IdentityTypeOK
<1>3. ASSUME NEW d \in Entries, UserRemoves(d) PROVE d = e
  BY <1>0, <1>3 DEF UserRemoves, TypeInv, IdentityTypeOK
<1>4. ASSUME NEW m \in Macs, DhcpDiscovers(m) PROVE FALSE
  <2>1. PICK d \in HeldBy(m) : Moves(d, address[m])
    BY <1>0, <1>4 DEF DhcpDiscovers, ReportsMismatch
  <2>2. entries[d] \in Entry /\ address[m] \in Addresses
    BY DEF HeldBy, Present, TypeInv, IdentityTypeOK
  <2>3. [entries[d] EXCEPT !.host = address[m]] \in Entry
    BY <2>2, EntryForms
  <2>4. QED BY <1>2, <2>1, <2>3 DEF Moves
<1>5. ASSUME NEW f \in FlowIds, ReconfigureTestSucceeds(f) PROVE FALSE
  BY <1>2, <1>5, ReconfiguresOne, SMTT(30)
<1>6. ASSUME NEW d \in Entries, ConfirmReplacement(d) PROVE FALSE
  <2>1. d \in Present /\ entries' = [entries EXCEPT ![d] = Anchored(@, fixes[d])]
    BY <1>0, <1>6 DEF ConfirmReplacement
  <2>2. entries[d] \in Entry /\ fixes[d] \in Macs
    BY <1>6, <2>1 DEF ConfirmReplacement, Present, TypeInv, IdentityTypeOK
  <2>3. Anchored(entries[d], fixes[d]) \in Entry
    BY <2>2, EntryForms
  <2>4. QED BY <1>2, <2>1, <2>3
<1>7. ASSUME NEW d \in Entries, SetUpStarts(d) PROVE FALSE
  <2>1. d \in Present /\ entries' = [entries EXCEPT ![d] = Fallen(d)]
    BY <1>7 DEF SetUpStarts, FallsBack, Fallen, TypeInv, IdentityTypeOK
  <2>2. QED BY <1>2, <2>1, FallenForm
<1>8. CASE UNCHANGED entries
  BY <1>0, <1>8
<1>9. QED
  BY <1>1, <1>3, <1>4, <1>5, <1>6, <1>7, <1>8
  DEF IdentityNext, DiscoveryStep, FormStep, RepairStep, UserFlowStarts, UserSubmits,
      ReconfigureSubmits, TestFails, FormClosed, ReconfigureStarts, FixOpens, Restore,
      SetUpSucceeds, SetUpFails, Restarts, MatrixMoves, identityVars, registry

-----------------------------------------------------------------------------
(* It all holds before anything happens.                                   *)
LEMMA StartsWell ==
    ASSUME IdentityInit
    PROVE  /\ TypeInv /\ FlowsAgree /\ AnchorsAgree /\ ServesItsHost
           /\ OwnIds /\ AloneInv
<1>1. Present = {} /\ Open = {}
  BY DEF IdentityInit, Present, Open
<1>2. IdentityTypeOK
  BY <1>1, IdentityAssumption DEF IdentityInit, IdentityTypeOK, Present, EventKind
<1>3. QED
  BY <1>1, <1>2 DEF TypeInv, FlowShape, FlowsAgree, AnchorsAgree, ServesItsHost, OwnIds,
     AloneInv, Alone, HeldBy, ClaimedBy, TestedBy

(* Every variable keeps its type: entry ids are not used twice, and only   *)
(* entries that exist are to be set up (whatever the order of events).     *)
THEOREM IdentityTypeCorrect == IdentitySpec => []TypeInv
<1>1. IdentityInit => TypeInv
  BY StartsWell
<1>2. TypeInv /\ [IdentityNext]_identityVars => TypeInv'
  BY TypeStep
<1>3. QED BY <1>1, <1>2, PTL DEF IdentitySpec

(* The unique id of an entry and the MAC in its data say the same, but for *)
(* an entry whose form came back and was submitted again without its MAC,  *)
(* in every order of events (identity.py:4-15, config_flow.py:180).        *)
THEOREM IdentitiesAgree == IdentitySpec => []IdentityInv
<1> DEFINE Inv == TypeInv /\ FlowsAgree /\ AnchorsAgree
<1>1. IdentityInit => Inv
  BY StartsWell
<1>2. Inv /\ [IdentityNext]_identityVars => Inv'
  BY TypeStep, FlowsAgreeStep, AnchorsStep
<1>3. Inv => IdentityInv
  BY DEF TypeInv, IdentityInv
<1>4. QED BY <1>1, <1>2, <1>3, PTL DEF IdentitySpec

(* Once set up, an entry talks to the host it stores, whoever changes it   *)
(* (config_flow.py:97-98, 303-311).                                        *)
THEOREM EntriesServeTheirHost == IdentitySpec => []ServesItsHost
<1>1. IdentityInit => ServesItsHost
  BY StartsWell
<1>2. TypeInv /\ ServesItsHost /\ [IdentityNext]_identityVars => ServesItsHost'
  BY ServesStep
<1>3. QED BY <1>1, <1>2, IdentityTypeCorrect, PTL DEF IdentitySpec

(* Once set, a unique id is rewritten only when the user confirms a repair *)
(* or a reconfigure form, in every order of events (ADR 0010).             *)
THEOREM NoSilentRewrite == IdentitySpec => NeverSilentlyRewritten
<1>1. TypeInv /\ [IdentityNext]_identityVars =>
         [\A e \in Present :
             entries'[e] # None /\ entries[e].uid \notin {None, entries'[e].uid} =>
                \/ ConfirmReplacement(e)
                \/ \E f \in Open : flows[f].entry = e /\ ReconfigureTestSucceeds(f)
         ]_identityVars
  BY RewriteStep
<1>2. QED BY <1>1, IdentityTypeCorrect, PTL DEF IdentitySpec, NeverSilentlyRewritten

(* Two entries come to carry one identity only if it was asked for while a *)
(* reconfigure form was being tested with it, or by one while another flow *)
(* was after it, or by a repair while something else had it or was after   *)
(* it: in every order of events, those awaits and repairs included         *)
(* (config_flow.py:240-244, 263-268, repairs.py:107).                      *)
THEOREM OneEntryEach == IdentitySpec => []SharedOnlyIfContested
<1> DEFINE Inv == TypeInv /\ OwnIds /\ AloneInv
<1>1. IdentityInit => Inv
  BY StartsWell
<1>2. Inv /\ [IdentityNext]_identityVars => Inv'
  BY TypeStep, OwnIdsStep, AloneStep
<1>3. Inv => SharedOnlyIfContested
  BY AloneIsShared
<1>4. QED BY <1>1, <1>2, <1>3, PTL DEF IdentitySpec

(* And only then does an entry, and its history, make way for a new one:   *)
(* else the user removes it (config_flow.py:97-100, 234).                  *)
THEOREM HistoryIsKept == IdentitySpec => NoHistoryLost
<1>1. IdentityInit => AloneInv
  BY StartsWell
<1>2. TypeInv /\ AloneInv /\ [IdentityNext]_identityVars => AloneInv'
  BY AloneStep
<1>3. TypeInv /\ AloneInv /\ [IdentityNext]_identityVars =>
         [\A e \in Present : entries'[e] = None =>
             UserRemoves(e) \/ entries[e].uid \in contested]_identityVars
  BY RemovalStep
<1>4. QED
  BY <1>1, <1>2, <1>3, IdentityTypeCorrect, PTL DEF IdentitySpec, NoHistoryLost
=============================================================================
