--------------------------- MODULE EntryIdentity ---------------------------
(***************************************************************************)
(* How the Home Assistant integration ties a config entry to a matrix:     *)
(* discovery, the user and reconfigure forms (config_flow.py), the repair  *)
(* of a MAC mismatch (repairs.py) and the set-up of an entry (__init__.py).*)
(* A flow goes on from one await to the next; forms stay open as long as   *)
(* the user likes.  The config entries, flows and issues themselves are    *)
(* Home Assistant's.                                                       *)
(*                                                                         *)
(* Some operators are preceded by a wrong variant of themselves, which no  *)
(* action uses: put in its place, it makes a property fail (README.md).    *)
(***************************************************************************)
EXTENDS Integers, FiniteSets

CONSTANTS
    Macs,       \* the matrices, each known by its normalised MAC
    Addresses,  \* what a host may be
    Entries,    \* entry ids; none is used twice
    FlowIds,    \* as many flows as may be in progress at a time
    None,
    FirstAddress,   \* where the matrices are at first
    Limit,      \* bound: how often each kind of event may happen,
    MaxEvents   \* and how many there may be in all

EventKind == {"flow", "submit", "repair", "move", "remove", "restart"}

ASSUME IdentityAssumption ==
    /\ None \notin Macs \cup Addresses \cup Entries \cup FlowIds
    /\ Macs \cap Entries = {}
    /\ FirstAddress \in [Macs -> Addresses]
    /\ \A m, n \in Macs : FirstAddress[m] = FirstAddress[n] => m = n
    /\ Limit \in [EventKind -> Nat] /\ MaxEvents \in Nat

\* data[CONF_HOST], data[CONF_MAC] and unique_id.
Entry == [host : Addresses, mac : Macs \cup {None}, uid : Macs \cup Entries \cup {None}]

\* step: a form waits for the user, or the connectivity test is awaited.  uid is
\* the unique id the flow has set for itself, host and mac what it will store.
Flow == [kind : {"discovery", "user", "reconfigure"}, step : {"form", "testing"},
         uid : Macs \cup {None}, host : Addresses \cup {None},
         mac : Macs \cup {None}, entry : Entries \cup {None}]

ASSUME NoneAssumption == None \notin Entry \cup Flow

VARIABLES
    entries,    \* the config entries
    made,       \* the entry ids used so far
    pending,    \* entries to be set up or reloaded
    starting,   \* entries whose first refresh is awaited
    running,    \* the host that the DMP168 object of each entry talks to
    flows,      \* the flows in progress
    issues,     \* the discovered_mac of the mismatch issue of each entry
    fixes,      \* the discovered_mac of the repair flow that is open for it
    address,    \* where each matrix is on the network
    seen,       \* the address of each that Home Assistant last dispatched
    events,     \* how often each kind of bounded event has happened
    \* What has happened, for the properties:
    contested,  \* MACs asked for while something else had or was after them
    withdrawn,  \* MACs of new entries whose form was submitted again without one
    astray,     \* entries whose host is not that of their matrix's last dispatch
    overtaken   \* entries whose host a discovery has written during a set-up

registry == <<entries, made, pending, starting, running>>
repairs == <<issues, fixes>>
network == <<address, seen>>
history == <<contested, withdrawn, astray, overtaken>>
identityVars == <<registry, flows, repairs, network, events, history>>

Present == { e \in Entries : entries[e] # None }
Open == { f \in FlowIds : flows[f] # None }
HeldBy(mac) == { e \in Present : entries[e].uid = mac }
ClaimedBy(mac) == { f \in Open : flows[f].uid = mac }

IdentityTypeOK ==
    /\ entries \in [Entries -> Entry \cup {None}]
    /\ made \subseteq Entries /\ Present \subseteq made
    /\ pending \subseteq Present /\ starting \subseteq Present
    /\ running \in [Entries -> Addresses \cup {None}]
    /\ flows \in [FlowIds -> Flow \cup {None}]
    /\ issues \in [Entries -> Macs \cup {None}]
    /\ fixes \in [Entries -> Macs \cup {None}]
    /\ address \in [Macs -> Addresses]
    /\ seen \in [Macs -> Addresses \cup {None}]
    /\ events \in [EventKind -> Nat]
    /\ contested \subseteq Macs /\ withdrawn \subseteq Macs
    /\ astray \subseteq Entries /\ overtaken \subseteq Entries

IdentityInit ==
    /\ entries = [e \in Entries |-> None]
    /\ made = {} /\ pending = {} /\ starting = {}
    /\ running = [e \in Entries |-> None]
    /\ flows = [f \in FlowIds |-> None]
    /\ issues = [e \in Entries |-> None]
    /\ fixes = [e \in Entries |-> None]
    /\ address = FirstAddress
    /\ seen = [m \in Macs |-> None]
    /\ events = [k \in EventKind |-> 0]
    /\ contested = {} /\ withdrawn = {} /\ astray = {} /\ overtaken = {}

Happened == events.flow + events.submit + events.repair
               + events.move + events.remove + events.restart
Counted(kind) ==
    /\ events[kind] < Limit[kind] /\ Happened < MaxEvents
    /\ events' = [events EXCEPT ![kind] = @ + 1]

TestedBy(mac) == { f \in Open : /\ flows[f].kind = "reconfigure"
                               /\ flows[f].step = "testing" /\ flows[f].mac = mac }

\* mac is asked for: alone, or while something else has it or is after it.
Asked(mac, alone) == contested' = IF alone THEN contested ELSE contested \cup {mac}

-----------------------------------------------------------------------------
(* Flows.                                                                  *)
Starts(flow) ==
    /\ Open # FlowIds
    /\ LET f == CHOOSE f \in FlowIds : f \notin Open
       IN flows' = [flows EXCEPT ![f] = flow]
Finishes(f) == flows' = [flows EXCEPT ![f] = None]
NewFlow(kind) == [kind |-> kind, step |-> "form", uid |-> None, host |-> None,
                  mac |-> None, entry |-> None]

\* async_create_entry: the new entry takes the place of one that has its unique
\* id, once that one is not being set up, and other flows for that unique id end.
Creates(f, data) ==
    LET replaced == IF data.uid = None THEN {} ELSE HeldBy(data.uid)
        e == CHOOSE e \in Entries : e \notin made
    IN /\ made # Entries
       /\ made' = made \cup {e}
       /\ \E gone \in SUBSET replaced :
             /\ Cardinality(gone) = IF replaced = {} THEN 0 ELSE 1
             /\ gone \cap starting = {}
             /\ entries' = [d \in Entries |->
                               IF d = e THEN data ELSE IF d \in gone THEN None
                               ELSE entries[d]]
             /\ pending' = (pending \ gone) \cup {e}
             /\ running' = [d \in Entries |-> IF d \in gone THEN None ELSE running[d]]
             /\ overtaken' = overtaken \ gone
       /\ flows' = [g \in FlowIds |->
                       IF g = f \/ (data.uid # None /\ g \in ClaimedBy(data.uid))
                       THEN None ELSE flows[g]]
       /\ astray' = IF data.uid # None /\ seen[data.uid] = data.host
                    THEN astray ELSE astray \cup {e}
       /\ UNCHANGED <<starting, contested, withdrawn>>

\* _async_step_dhcp.  A flow for the same MAC in progress ends this one; an entry
\* that has the MAC gets the new host and is reloaded, unless it is just being set
\* up: Home Assistant reloads what is loaded or waits to be set up again.
MovesQuietly(e, host) ==
    /\ entries' = [entries EXCEPT ![e].host = host]
    /\ UNCHANGED <<pending, overtaken>>
Moves(e, host) ==
    /\ entries' = [entries EXCEPT ![e].host = host]
    /\ pending' = IF entries[e].host = host \/ e \in starting
                  THEN pending ELSE pending \cup {e}
    /\ overtaken' = IF entries[e].host # host /\ e \in starting
                    THEN overtaken \cup {e} ELSE overtaken

RenamesTheLodger(e, mac) ==
    /\ entries' = [entries EXCEPT ![e].mac = mac, ![e].uid = mac]
    /\ UNCHANGED issues
ReportsMismatch(e, mac) ==
    /\ issues' = [issues EXCEPT ![e] = mac]
    /\ UNCHANGED entries

\* Home Assistant dispatches an address that it has not seen yet.
DhcpDiscovers(mac) ==
    LET host == address[mac]
        lodgers == { e \in Present : entries[e].host = host }
    IN /\ seen[mac] # host
       /\ seen' = [seen EXCEPT ![mac] = host]
       /\ \/ /\ ClaimedBy(mac) # {}
             /\ astray' = astray \cup HeldBy(mac)
             /\ UNCHANGED <<entries, pending, flows, issues, contested, overtaken>>
          \/ /\ ClaimedBy(mac) = {}
             /\ \E e \in HeldBy(mac) :
                   /\ Moves(e, host)
                   /\ astray' = (astray \cup HeldBy(mac)) \ {e}
             /\ UNCHANGED <<flows, issues, contested>>
          \/ /\ ClaimedBy(mac) = {} /\ HeldBy(mac) = {}
             /\ \E e \in lodgers : ReportsMismatch(e, mac)
             /\ UNCHANGED <<pending, flows, contested, astray, overtaken>>
          \/ /\ ClaimedBy(mac) = {} /\ HeldBy(mac) = {} /\ lodgers = {}
             /\ Starts([NewFlow("discovery") EXCEPT
                           !.uid = mac, !.host = host, !.mac = mac])
             /\ Asked(mac, TestedBy(mac) = {})
             /\ UNCHANGED <<entries, pending, issues, astray, overtaken>>
       /\ UNCHANGED <<made, starting, running, fixes, address, events, withdrawn>>

DiscoveryConfirmed(f) ==
    /\ f \in Open /\ flows[f].kind = "discovery"
    /\ Creates(f, [host |-> flows[f].host, mac |-> flows[f].mac,
                   uid |-> flows[f].uid])
    /\ UNCHANGED <<repairs, network, events>>

\* The manual form, asked for by the user or offered by async_step_zeroconf,
\* which gives up when an entry has the host it found.
UserFlowStarts ==
    /\ Counted("flow")
    /\ Starts(NewFlow("user"))
    /\ UNCHANGED <<registry, repairs, network, history>>

\* async_step_user: the unique id is set, and looked up, only when a MAC is given.
AlreadyClaimed(f, mac) == ClaimedBy(mac) \ {f} # {}
AlreadyConfigured(f, mac) == HeldBy(mac) # {} \/ AlreadyClaimed(f, mac)
OnTest(flow, host, mac) ==
    [flow EXCEPT !.step = "testing", !.host = host, !.mac = mac]
Submitted(flow, host, mac) ==
    [OnTest(flow, host, mac) EXCEPT !.uid = IF mac = None THEN @ ELSE mac]
UserSubmits(f, host, mac) ==
    /\ f \in Open /\ flows[f].kind = "user" /\ flows[f].step = "form"
    /\ Counted("submit")
    /\ \/ /\ mac # None /\ AlreadyConfigured(f, mac)
          /\ Finishes(f)
          /\ UNCHANGED <<contested, withdrawn>>
       \/ /\ mac # None /\ ~AlreadyConfigured(f, mac)
          /\ flows' = [flows EXCEPT ![f] = Submitted(@, host, mac)]
          /\ Asked(mac, TestedBy(mac) = {})
          /\ UNCHANGED withdrawn
       \/ /\ mac = None
          /\ flows' = [flows EXCEPT ![f] = Submitted(@, host, mac)]
          /\ withdrawn' = withdrawn \cup ({flows[f].uid} \ {None})
          /\ UNCHANGED contested
    /\ UNCHANGED <<registry, repairs, network, astray, overtaken>>

\* _validate_connectivity asks whatever answers at the host for its uptime.
Answers(host) == \E m \in Macs : address[m] = host

UserTestSucceeds(f) ==
    /\ f \in Open /\ flows[f].kind = "user" /\ flows[f].step = "testing"
    /\ Answers(flows[f].host)
    /\ Creates(f, [host |-> flows[f].host, mac |-> flows[f].mac,
                   uid |-> flows[f].uid])
    /\ UNCHANGED <<repairs, network, events>>

TestFails(f) ==
    /\ f \in Open /\ flows[f].step = "testing"
    /\ flows' = [flows EXCEPT ![f].step = "form"]
    /\ UNCHANGED <<registry, repairs, network, events, history>>

ReconfigureStarts(e) ==
    /\ e \in Present /\ Counted("flow")
    /\ Starts([NewFlow("reconfigure") EXCEPT !.entry = e])
    /\ UNCHANGED <<registry, repairs, network, history>>

\* async_step_reconfigure, up to the await: no MAC leaves the identity alone.
ConflictUnseen(e, mac) == FALSE
Conflict(e, mac) == HeldBy(mac) \ {e} # {}
ReconfigureSubmits(f, host, mac) ==
    /\ f \in Open /\ flows[f].kind = "reconfigure" /\ flows[f].step = "form"
    /\ Counted("submit")
    /\ LET e == flows[f].entry
           conflict == mac \notin {None, entries[e].uid} /\ Conflict(e, mac)
       IN /\ e \in Present
          /\ \/ /\ conflict
                /\ Finishes(f)
                /\ issues' = [issues EXCEPT ![e] = mac]
                /\ UNCHANGED contested
             \/ /\ ~conflict
                /\ flows' = [flows EXCEPT ![f] = OnTest(@, host, mac)]
                /\ Asked(mac, mac = None \/ TestedBy(mac) \cup ClaimedBy(mac) = {})
                /\ UNCHANGED issues
    /\ UNCHANGED <<registry, fixes, network, withdrawn, astray, overtaken>>

\* ... and from there on.
AnchoredLoosely(entry, mac) == [entry EXCEPT !.uid = mac]
Anchored(entry, mac) == [entry EXCEPT !.mac = mac, !.uid = mac]
ReconfigureTestSucceeds(f) ==
    /\ f \in Open /\ flows[f].kind = "reconfigure" /\ flows[f].step = "testing"
    /\ Answers(flows[f].host)
    /\ LET e == flows[f].entry
           mac == flows[f].mac
           moved == [entries[e] EXCEPT !.host = flows[f].host]
       IN /\ e \in Present
          /\ entries' = [entries EXCEPT ![e] =
                            IF mac = None THEN moved ELSE Anchored(moved, mac)]
          /\ pending' = pending \cup {e}
          /\ astray' = astray \cup {e}
    /\ Finishes(f)
    /\ UNCHANGED <<made, starting, running, repairs, network, events>>
    /\ UNCHANGED <<contested, withdrawn, overtaken>>

\* The user closes the dialogue of a form.
FormClosed(f) ==
    /\ f \in Open /\ flows[f].kind # "discovery" /\ flows[f].step = "form"
    /\ Finishes(f)
    /\ UNCHANGED <<registry, repairs, network, events, history>>

-----------------------------------------------------------------------------
(* Repairs.                                                                *)
FixOpens(e) ==
    /\ issues[e] # None /\ fixes[e] = None
    /\ fixes' = [fixes EXCEPT ![e] = issues[e]]
    /\ UNCHANGED <<registry, flows, issues, network, events, history>>

FixEnds(e) ==
    /\ fixes' = [fixes EXCEPT ![e] = None]
    /\ issues' = [issues EXCEPT ![e] = None]

ConfirmReplacement(e) ==
    /\ fixes[e] # None /\ Counted("repair")
    /\ \/ /\ e \in Present
          /\ entries' = [entries EXCEPT ![e] = Anchored(@, fixes[e])]
          /\ pending' = pending \cup {e}
          /\ astray' = astray \cup {e}
          /\ Asked(fixes[e],
                   (HeldBy(fixes[e]) \ {e}) \cup ClaimedBy(fixes[e])
                      \cup TestedBy(fixes[e]) = {})
       \/ e \notin Present /\ UNCHANGED <<entries, pending, astray, contested>>
    /\ FixEnds(e)
    /\ UNCHANGED <<made, starting, running, flows, network, withdrawn, overtaken>>

Restore(e) ==
    /\ fixes[e] # None
    /\ FixEnds(e)
    /\ UNCHANGED <<registry, flows, network, events, history>>

-----------------------------------------------------------------------------
(* Entries, Home Assistant and the network.  async_setup_entry falls back  *)
(* to the entry's own id, makes a DMP168 for the host of the moment and    *)
(* awaits a first refresh, which anything at that host may answer; when it *)
(* fails, the entry is set up again later.                                 *)
FallsBack(e) == [entries EXCEPT ![e].uid = IF @ = None THEN e ELSE @]
SetUpStarts(e) ==
    /\ e \in pending \ starting
    /\ entries' = FallsBack(e)
    /\ running' = [running EXCEPT ![e] = entries[e].host]
    /\ pending' = pending \ {e}
    /\ starting' = starting \cup {e}
    /\ overtaken' = overtaken \ {e}
    /\ UNCHANGED <<made, flows, repairs, network, events, contested, withdrawn, astray>>

SetUpSucceeds(e) ==
    /\ e \in starting /\ Answers(running[e])
    /\ starting' = starting \ {e}
    /\ UNCHANGED <<entries, made, pending, running, flows, repairs, network, events>>
    /\ UNCHANGED history

SetUpFails(e) ==
    /\ e \in starting
    /\ starting' = starting \ {e}
    /\ running' = [running EXCEPT ![e] = None]
    /\ pending' = pending \cup {e}
    /\ UNCHANGED <<entries, made, flows, repairs, network, events, history>>

\* Home Assistant waits for a set-up under way.
UserRemoves(e) ==
    /\ e \in Present \ starting /\ Counted("remove")
    /\ entries' = [entries EXCEPT ![e] = None]
    /\ pending' = pending \ {e}
    /\ running' = [running EXCEPT ![e] = None]
    /\ overtaken' = overtaken \ {e}
    /\ UNCHANGED <<made, starting, flows, repairs, network>>
    /\ UNCHANGED <<contested, withdrawn, astray>>

\* Flows and issues (is_persistent=False) do not outlive Home Assistant, nor does
\* what its watcher of DHCP has seen.
Restarts ==
    /\ Counted("restart")
    /\ flows' = [f \in FlowIds |-> None]
    /\ issues' = [e \in Entries |-> None] /\ fixes' = [e \in Entries |-> None]
    /\ pending' = Present /\ starting' = {} /\ overtaken' = {}
    /\ running' = [e \in Entries |-> None]
    /\ seen' = [m \in Macs |-> None]
    /\ UNCHANGED <<entries, made, address, contested, withdrawn, astray>>

MatrixMoves(mac, host) ==
    /\ Counted("move")
    /\ \A m \in Macs : address[m] # host
    /\ address' = [address EXCEPT ![mac] = host]
    /\ UNCHANGED <<registry, flows, repairs, seen, history>>

DiscoveryStep ==
    \/ \E m \in Macs : DhcpDiscovers(m)
    \/ \E f \in FlowIds : DiscoveryConfirmed(f)
FormStep ==
    \/ UserFlowStarts
    \/ \E f \in FlowIds, h \in Addresses, m \in Macs \cup {None} :
          UserSubmits(f, h, m) \/ ReconfigureSubmits(f, h, m)
    \/ \E f \in FlowIds : \/ UserTestSucceeds(f) \/ ReconfigureTestSucceeds(f)
                          \/ TestFails(f) \/ FormClosed(f)
    \/ \E e \in Entries : ReconfigureStarts(e)
RepairStep == \E e \in Entries : FixOpens(e) \/ ConfirmReplacement(e) \/ Restore(e)

IdentityNext ==
    \/ DiscoveryStep
    \/ FormStep
    \/ RepairStep
    \/ \E e \in Entries : \/ SetUpStarts(e) \/ SetUpSucceeds(e) \/ SetUpFails(e)
                         \/ UserRemoves(e)
    \/ Restarts
    \/ \E m \in Macs, h \in Addresses : MatrixMoves(m, h)

IdentitySpec == IdentityInit /\ [][IdentityNext]_identityVars

(* Home Assistant dispatches what it sees and sets an entry up again until *)
(* it succeeds; a refresh ends, if only by a timeout, and one of a host    *)
(* where a matrix stays does not fail for ever.                            *)
IdentityFairness ==
    /\ \A m \in Macs : WF_identityVars(DhcpDiscovers(m))
    /\ \A e \in Entries : /\ WF_identityVars(SetUpStarts(e))
                          /\ WF_identityVars(SetUpSucceeds(e) \/ SetUpFails(e))
                          /\ SF_identityVars(SetUpSucceeds(e))
IdentityFairSpec == IdentitySpec /\ IdentityFairness

-----------------------------------------------------------------------------
(* The unique id of an entry and the MAC in its data say the same: the     *)
(* MAC, or, without one, the entry's own id (identity.py:4-15); but an     *)
(* entry whose form was submitted with a MAC and, when it came back,       *)
(* without one may have that MAC for its unique id (config_flow.py:180).   *)
AnchorsAgree ==
    \A e \in Present :
        entries[e].uid \in IF entries[e].mac = None THEN {None, e} \cup withdrawn
                           ELSE {entries[e].mac}
IdentityInv == IdentityTypeOK /\ AnchorsAgree

(* No two entries carry one identity: a MAC that another entry has is not  *)
(* given to a second one (config_flow.py:240-244, 263-267).                *)
OneEntryPerIdentity ==
    \A d, e \in Present :
        entries[d].uid # None /\ entries[d].uid = entries[e].uid => d = e

(* How far that holds: two entries come to carry one identity only if it   *)
(* was asked for while a reconfigure form with it was being tested, or by  *)
(* such a form while another flow was after it (config_flow.py:268-307),   *)
(* or by a confirmed repair that asks no one (repairs.py:107).             *)
SharedOnlyIfContested ==
    \A d, e \in Present :
        entries[d].uid # None /\ entries[d].uid = entries[e].uid =>
            d = e \/ entries[e].uid \in contested

(* Once set up, an entry talks to the host it stores: whoever changes the  *)
(* host, it is reloaded (config_flow.py:97-98, 303-311), but for a         *)
(* discovery that comes while its first refresh is awaited                 *)
(* (__init__.py:28-30).                                                    *)
ServesItsHost ==
    \A e \in Present \ (pending \cup overtaken) : running[e] = entries[e].host

(* The history of an entry ends only with the user's removing it: a new    *)
(* entry takes its place only if its identity was contested, as above      *)
(* (config_flow.py:97-100, 234).                                           *)
NoHistoryLost ==
    [][\A e \in Present : entries'[e] = None =>
          UserRemoves(e) \/ entries[e].uid \in contested]_identityVars

(* Once set, a unique id is rewritten only when the user confirms a repair *)
(* or a reconfigure form: no discovery, however it falls between the steps *)
(* of a form, does it (ADR 0010).                                          *)
NeverSilentlyRewritten ==
    [][\A e \in Present :
          entries'[e] # None /\ entries[e].uid \notin {None, entries'[e].uid} =>
             \/ ConfirmReplacement(e)
             \/ \E f \in Open : flows[f].entry = e /\ ReconfigureTestSucceeds(f)
      ]_identityVars

(* An entry anchored to a matrix ends up talking to it, wherever the       *)
(* matrix goes (config_flow.py:95-99).  What is dispatched is a change of  *)
(* address, and it comes once: an entry may be left behind until the next  *)
(* one if that dispatch met another flow for the MAC, if a form or a       *)
(* repair has written the entry since, or if it came during a set-up.      *)
FollowsItsMatrix ==
    \A e \in Entries, m \in Macs :
        <>[](e \in HeldBy(m) \ (astray \cup overtaken) => running[e] = address[m])
=============================================================================
