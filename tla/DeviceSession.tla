--------------------------- MODULE DeviceSession ---------------------------
(***************************************************************************)
(* The Python library's session with the matrix, as the Home Assistant     *)
(* integration uses it: TCPConnection (blustream/connection/tcp.py) under  *)
(* BlustreamDevice (blustream/base/device.py), one coordinator that polls  *)
(* (custom_components/blustream/coordinator.py) and any number of tasks    *)
(* that send commands, on one asyncio event loop.  An action is what runs  *)
(* between two awaits.  The awaits of writer.write/drain and wait_closed   *)
(* are taken with the step before or after them.                           *)
(*                                                                         *)
(* Lines are kept whole and reduced to what read_until and its predicates  *)
(* tell apart.  The field "of" of a line or a command names the task whose *)
(* present call it belongs to, or Nobody; it is history, no action of the  *)
(* library reads it.                                                       *)
(*                                                                         *)
(* Some operators are preceded by a wrong variant of themselves, which no  *)
(* action uses: put in its place, it makes a property fail (README.md).    *)
(***************************************************************************)
EXTENDS Integers, Sequences, SequencesExt, FiniteSets

CONSTANTS
    Poller,         \* the coordinator's refresh
    Users,          \* tasks of entities, sending plain commands
    Nobody,         \* no task; also the owner of lines no present call waits for
    SplitBanners,   \* a chunk may end inside a banner
    LateReplies,    \* what comes of an abandoned call may come after the drain
    Limit           \* bound: how often each kind of event may happen

Tasks == Users \cup {Poller}
EventKind == {"refusal", "drop", "banner", "timeout", "cancel"}

ASSUME SessionAssumption ==
    /\ Poller \notin Users /\ Nobody \notin Tasks
    /\ SplitBanners \in BOOLEAN /\ LateReplies \in BOOLEAN
    /\ Limit \in [EventKind -> Nat]

\* Lines: an "=" rule, the line "Welcome to DMP168 ...", a [SUCCESS] or
\* [ERROR] marker, the "Power  Baud ..." header of STATUS.
LineKind == {"rule", "welcome", "marker", "header"}
Line == [kind : LineKind, of : Tasks \cup {Nobody}]
Banner == << [kind |-> "rule", of |-> Nobody],
             [kind |-> "welcome", of |-> Nobody],
             [kind |-> "rule", of |-> Nobody] >>

\* What the matrix answers to the call of t: STATUS ends with a rule.
ReplyKinds(t) == IF t = Poller THEN <<"header", "rule">> ELSE <<"marker">>
Reply(command) == [k \in DOMAIN ReplyKinds(command.by) |->
                      [kind |-> ReplyKinds(command.by)[k], of |-> command.of]]
CommandOf(t) == [by |-> t, of |-> t]

VARIABLES
    tcpConnected,   \* TCPConnection._connected
    attached,       \* TCPConnection._reader and _writer are set
    buffer,         \* TCPConnection._buffer
    devConnected,   \* BlustreamDevice._connected
    lock,           \* who holds BlustreamDevice._command_lock
    waiters,        \* who waits for it, in order
    pc,             \* where each task stands
    got,            \* what a read has accumulated for each task
    outcome,        \* how the last call of each task ended; "cancelled", when it
                    \* was cancelled as it drained and read on nevertheless
    entry,          \* the config entry that owns the device object
    socket,         \* the stream: "none", "open", "eof" or "reset"
    inbound,        \* lines the reader can return
    inbox,          \* commands the matrix has not taken yet
    replying,       \* what is left of the reply it is sending
    events          \* how often each kind of bounded event has happened

library == <<tcpConnected, attached, buffer, devConnected>>
calls == <<lock, waiters, pc, got, outcome>>
peer == <<socket, inbound, inbox, replying>>
sessionVars == <<library, calls, entry, peer, events>>

SessionTypeOK ==
    /\ tcpConnected \in BOOLEAN /\ attached \in BOOLEAN /\ devConnected \in BOOLEAN
    /\ buffer \in Seq(Line)
    /\ lock \in Tasks \cup {Nobody}
    /\ waiters \in Seq(Tasks)
    /\ pc \in [Tasks -> {"idle", "opening", "discarding",
                         "waiting", "draining", "reading", "straying"}]
    /\ got \in [Tasks -> Seq(Line)]
    /\ outcome \in [Tasks -> {"none", "ok", "failed", "cancelled"}]
    /\ entry \in {"setup", "loaded", "closing", "unloaded"}
    /\ socket \in {"none", "open", "eof", "reset"}
    /\ inbound \in Seq(Line)
    /\ inbox \in Seq([by : Tasks, of : Tasks \cup {Nobody}])
    /\ replying \in Seq(Line)
    /\ events \in [EventKind -> Nat]

SessionInit ==
    /\ tcpConnected = FALSE /\ attached = FALSE /\ devConnected = FALSE
    /\ buffer = <<>>
    /\ lock = Nobody /\ waiters = <<>>
    /\ pc = [t \in Tasks |-> "idle"]
    /\ got = [t \in Tasks |-> <<>>]
    /\ outcome = [t \in Tasks |-> "none"]
    /\ entry = "setup"
    /\ socket = "none" /\ inbound = <<>> /\ inbox = <<>> /\ replying = <<>>
    /\ events = [k \in EventKind |-> 0]

Counted(kind) ==
    events[kind] < Limit[kind] /\ events' = [events EXCEPT ![kind] = @ + 1]

-----------------------------------------------------------------------------
(* Framing.  _strip_banner_broadcasts removes the blocks that are whole:   *)
(* a rule, the welcome line and everything to the next rule.               *)
InBanner(text, k) ==
    \E i \in 1 .. k :
        /\ i < Len(text) /\ text[i].kind = "rule" /\ text[i + 1].kind = "welcome"
        /\ \E j \in i + 2 .. Len(text) :
               /\ text[j].kind = "rule" /\ k <= j
               /\ \A m \in i + 2 .. j - 1 : text[m].kind # "rule"
NothingStripped(text) == text
StripBanners(text) ==
    LET kept == { k \in DOMAIN text : ~InBanner(text, k) }
    IN [n \in 1 .. Cardinality(kept) |->
           text[CHOOSE k \in kept : Cardinality({ m \in kept : m <= k }) = n]]

\* The predicates: is_simple_marker, and _status_terminator, which is armed by
\* the header.  before holds the lines the predicate has seen.
Terminates(t, before, line) ==
    IF t = Poller
    THEN line.kind = "rule" /\ \E k \in DOMAIN before : before[k].kind = "header"
    ELSE line.kind = "marker"

\* _consume_lines: where in text the read of t ends.
EndsAt(t, text) ==
    { k \in DOMAIN text : Terminates(t, got[t] \o SubSeq(text, 1, k - 1), text[k]) }

\* History: a call that is given up no longer owns what is still to come.
Disowned(t, seq) == [k \in DOMAIN seq |-> IF seq[k].of = t
                                          THEN [seq[k] EXCEPT !.of = Nobody] ELSE seq[k]]
GiveUp(t) ==
    /\ inbound' = Disowned(t, inbound)
    /\ replying' = Disowned(t, replying)
    /\ inbox' = Disowned(t, inbox)

-----------------------------------------------------------------------------
(* send_command.  Tasks get the lock in the order they asked for it; the   *)
(* one it is handed to goes on when the loop next runs it.                 *)
IsConnected == devConnected /\ tcpConnected /\ attached

EntersUnlocked(t) ==
    /\ pc' = [pc EXCEPT ![t] = "draining"] /\ lock' = t
    /\ buffer' = <<>> /\ UNCHANGED waiters
Enters(t) ==
    \/ /\ lock = Nobody /\ waiters = <<>>
       /\ lock' = t
       /\ pc' = [pc EXCEPT ![t] = "draining"]
       /\ buffer' = <<>>
       /\ UNCHANGED waiters
    \/ /\ lock # Nobody \/ waiters # <<>>
       /\ waiters' = Append(waiters, t)
       /\ pc' = [pc EXCEPT ![t] = "waiting"]
       /\ UNCHANGED <<lock, buffer>>

ReleaseOnSuccess(t, result) ==
    /\ lock' = IF result = "failed" THEN lock
               ELSE IF waiters = <<>> THEN Nobody ELSE Head(waiters)
    /\ waiters' = IF result = "failed" \/ waiters = <<>> THEN waiters ELSE Tail(waiters)
Release(t, result) ==
    /\ lock' = IF waiters = <<>> THEN Nobody ELSE Head(waiters)
    /\ waiters' = IF waiters = <<>> THEN <<>> ELSE Tail(waiters)

\* The end of a call inside the lock, and of one that never asked for it.
Ends(t, result) ==
    /\ Release(t, result)
    /\ pc' = [pc EXCEPT ![t] = "idle"]
    /\ outcome' = [outcome EXCEPT ![t] = result]
FailsOutside(t) ==
    /\ pc' = [pc EXCEPT ![t] = "idle"]
    /\ outcome' = [outcome EXCEPT ![t] = "failed"]
    /\ UNCHANGED <<lock, waiters>>

CommandStarts(t) ==
    /\ entry = "loaded" /\ t \in Users /\ pc[t] = "idle"
    /\ \/ /\ IsConnected
          /\ Enters(t)
          /\ outcome' = [outcome EXCEPT ![t] = "none"]
       \/ /\ ~IsConnected
          /\ FailsOutside(t)
          /\ UNCHANGED buffer
    /\ UNCHANGED <<tcpConnected, attached, devConnected, got, entry, peer, events>>

\* The lock is handed over; TCPConnection.send checks the connection again.
Acquires(t) ==
    /\ pc[t] = "waiting" /\ lock = t
    /\ \/ /\ tcpConnected /\ attached
          /\ pc' = [pc EXCEPT ![t] = "draining"]
          /\ buffer' = <<>>
          /\ UNCHANGED <<lock, waiters, outcome>>
       \/ /\ ~(tcpConnected /\ attached)
          /\ Ends(t, "failed")
          /\ UNCHANGED buffer
    /\ UNCHANGED <<tcpConnected, attached, devConnected, got, entry, peer, events>>

\* _drain_pending: what can be read now is dropped, until a read finds nothing.
DrainReads(t) ==
    /\ pc[t] = "draining" /\ inbound # <<>>
    /\ inbound' = <<>>
    /\ UNCHANGED <<library, calls, entry, socket, inbox, replying, events>>

\* ... and the command is written.  A dead stream may raise OSError or take the
\* bytes for nothing; a disconnect that came meanwhile has left no writer.
Writes(t, command, then) ==
    \/ /\ attached /\ socket \in {"open", "eof"}
       /\ inbox' = IF socket = "open" THEN Append(inbox, command) ELSE inbox
       /\ pc' = [pc EXCEPT ![t] = then]
       /\ got' = [got EXCEPT ![t] = <<>>]
       /\ UNCHANGED <<lock, waiters, outcome, tcpConnected>>
    \/ /\ ~attached \/ socket \in {"eof", "reset"}
       /\ tcpConnected' = FALSE
       /\ Ends(t, "failed")
       /\ UNCHANGED <<got, inbox>>
DrainEnds(t) ==
    /\ pc[t] = "draining" /\ inbound = <<>>
    /\ LateReplies \/ (inbox = <<>> /\ replying = <<>>)
    /\ Writes(t, CommandOf(t), "reading")
    /\ UNCHANGED <<attached, devConnected, buffer, entry, socket, inbound,
                   replying, events>>

\* A cancelled drain takes CancelledError for the end of the data: whatever is
\* still to come stays, the command is written and a reply is read, that of
\* an earlier call perhaps.  Who cancelled the call waits for none.
DrainCancelled(t) ==
    /\ t \in Users /\ pc[t] = "draining" /\ Counted("cancel")
    /\ Writes(t, [by |-> t, of |-> Nobody], "straying")
    /\ UNCHANGED <<attached, devConnected, buffer, entry, socket, inbound, replying>>

\* read_until, for a chunk of n lines.
Reading(t) == pc[t] \in {"reading", "straying"}
BannerUncut(n) ==
    n = Len(inbound) \/ \A i \in 1 .. n :
        inbound[i].kind # "welcome" \/ InBanner(SubSeq(inbound, 1, n), i)
CutAllowed(n) ==
    \/ SplitBanners
    \/ /\ BannerUncut(n)
       /\ n < Len(inbound) => inbound[n + 1].kind # "welcome"
ReadChunk(t, n) ==
    /\ Reading(t) /\ n \in 1 .. Len(inbound) /\ CutAllowed(n)
    /\ inbound' = SubSeq(inbound, n + 1, Len(inbound))
    /\ LET text == StripBanners(buffer \o SubSeq(inbound, 1, n))
           ends == EndsAt(t, text)
       IN \/ /\ ends = {}
             /\ got' = [got EXCEPT ![t] = @ \o text]
             /\ buffer' = <<>>
             /\ UNCHANGED <<lock, waiters, pc, outcome, entry>>
          \/ \E k \in ends :
             /\ \A m \in ends : k <= m
             /\ got' = [got EXCEPT ![t] = @ \o SubSeq(text, 1, k)]
             /\ buffer' = SubSeq(text, k + 1, Len(text))
             /\ Ends(t, IF pc[t] = "reading" THEN "ok" ELSE "cancelled")
             /\ entry' = IF t = Poller /\ entry = "setup" THEN "loaded" ELSE entry
    /\ UNCHANGED <<tcpConnected, attached, devConnected, socket, inbox,
                   replying, events>>

\* The read fails: the peer has closed, the link was reset, or no line ended
\* the reply in time.  Only a reset clears _connected.
ReadFails(t) ==
    /\ Reading(t) /\ inbound = <<>> /\ socket \in {"eof", "reset"}
    /\ tcpConnected' = (tcpConnected /\ socket = "eof")
    /\ Ends(t, "failed")
    /\ UNCHANGED <<attached, devConnected, buffer, got, entry, peer, events>>

ReadTimesOutAndResends(t) ==
    /\ Reading(t) /\ Counted("timeout")
    /\ pc' = [pc EXCEPT ![t] = "draining"]
    /\ GiveUp(t)
    /\ UNCHANGED <<library, lock, waiters, got, outcome, entry, socket>>
ReadTimesOut(t) ==
    /\ Reading(t) /\ Counted("timeout")
    /\ Ends(t, "failed")
    /\ GiveUp(t)
    /\ UNCHANGED <<library, got, entry, socket>>

(* Home Assistant cancels a task.  One that waits for the lock leaves the  *)
(* queue, or hands the lock on if it was just given it; one that awaits    *)
(* its reply ends like one whose time is up.  One that drains goes on:     *)
(* DrainCancelled.                                                         *)
Cancelled(t) ==
    /\ t \in Users /\ Counted("cancel")
    /\ \/ /\ pc[t] = "waiting" /\ lock # t
          /\ \E k \in DOMAIN waiters :
                waiters[k] = t /\ waiters' = RemoveAt(waiters, k)
          /\ pc' = [pc EXCEPT ![t] = "idle"]
          /\ outcome' = [outcome EXCEPT ![t] = "failed"]
          /\ UNCHANGED <<lock, inbound, inbox, replying>>
       \/ /\ pc[t] = "waiting" /\ lock = t
          /\ Ends(t, "failed")
          /\ UNCHANGED <<inbound, inbox, replying>>
       \/ /\ Reading(t)
          /\ Ends(t, "failed")
          /\ GiveUp(t)
    /\ UNCHANGED <<library, got, entry, socket>>

-----------------------------------------------------------------------------
(* _async_update_data: connect if need be, then get_status.  connect()     *)
(* does nothing when _connected says it is connected, at either level.     *)
PollStarts ==
    /\ pc[Poller] = "idle"
    /\ entry = "loaded" \/ (entry = "setup" /\ outcome[Poller] = "none")
    /\ \/ /\ IsConnected
          /\ Enters(Poller)
          /\ outcome' = [outcome EXCEPT ![Poller] = "none"]
          /\ UNCHANGED devConnected
       \/ /\ ~IsConnected /\ devConnected
          /\ FailsOutside(Poller)
          /\ UNCHANGED <<devConnected, buffer>>
       \/ /\ ~devConnected /\ tcpConnected
          /\ devConnected' = TRUE
          /\ Enters(Poller)
          /\ outcome' = [outcome EXCEPT ![Poller] = "none"]
       \/ /\ ~devConnected /\ ~tcpConnected
          /\ pc' = [pc EXCEPT ![Poller] = "opening"]
          /\ outcome' = [outcome EXCEPT ![Poller] = "none"]
          /\ UNCHANGED <<lock, waiters, buffer, devConnected>>
    /\ UNCHANGED <<tcpConnected, attached, got, entry, peer, events>>

Opens ==
    /\ pc[Poller] = "opening"
    /\ pc' = [pc EXCEPT ![Poller] = "discarding"]
    /\ tcpConnected' = TRUE /\ attached' = TRUE /\ buffer' = <<>>
    /\ got' = [got EXCEPT ![Poller] = <<>>]
    /\ socket' = "open" /\ inbound' \in {<<>>, Banner}
    /\ inbox' = <<>> /\ replying' = <<>>
    /\ UNCHANGED <<devConnected, lock, waiters, outcome, entry, events>>

Refused ==
    /\ pc[Poller] = "opening" /\ Counted("refusal")
    /\ FailsOutside(Poller)
    /\ UNCHANGED <<library, got, entry, peer>>

\* _discard_initial_data: until two rules were read, banner_timeout is over or
\* the peer has closed.  A reset raises out of connect(), _connected set.
DiscardReads(n) ==
    /\ pc[Poller] = "discarding" /\ n \in 1 .. Len(inbound)
    /\ Cardinality({ k \in DOMAIN got[Poller] : got[Poller][k].kind = "rule" }) < 2
    /\ got' = [got EXCEPT ![Poller] = @ \o SubSeq(inbound, 1, n)]
    /\ inbound' = SubSeq(inbound, n + 1, Len(inbound))
    /\ UNCHANGED <<library, lock, waiters, pc, outcome, entry, socket, inbox,
                   replying, events>>

DiscardEnds ==
    /\ pc[Poller] = "discarding"
    /\ \/ /\ socket # "reset"
          /\ devConnected' = TRUE
          /\ Enters(Poller)
          /\ UNCHANGED outcome
       \/ /\ socket = "reset"
          /\ FailsOutside(Poller)
          /\ UNCHANGED <<devConnected, buffer>>
    /\ got' = [got EXCEPT ![Poller] = <<>>]
    /\ UNCHANGED <<tcpConnected, attached, entry, peer, events>>

(* async_setup_entry: a first refresh that fails ends the set-up, and Home *)
(* Assistant tries again later, with a new DMP168.                         *)
SetsUpAgain ==
    /\ entry = "setup" /\ pc[Poller] = "idle" /\ outcome[Poller] = "failed"
    /\ tcpConnected' = FALSE /\ attached' = FALSE /\ devConnected' = FALSE
    /\ buffer' = <<>>
    /\ socket' = "none" /\ inbound' = <<>> /\ inbox' = <<>> /\ replying' = <<>>
    /\ outcome' = [outcome EXCEPT ![Poller] = "none"]
    /\ UNCHANGED <<lock, waiters, pc, got, entry, events>>

(* async_unload_entry: device.disconnect() takes no lock.                  *)
UnloadStarts ==
    /\ entry = "loaded"
    /\ \/ /\ devConnected
          /\ entry' = "closing"
          /\ socket' = IF socket = "open" THEN "eof" ELSE socket
          /\ inbox' = <<>> /\ replying' = <<>>
       \/ /\ ~devConnected
          /\ entry' = "unloaded"
          /\ UNCHANGED <<socket, inbox, replying>>
    /\ UNCHANGED <<library, calls, inbound, events>>

UnloadEnds ==
    /\ entry = "closing"
    /\ entry' = "unloaded"
    /\ tcpConnected' = FALSE /\ attached' = FALSE /\ devConnected' = FALSE
    /\ buffer' = <<>>
    /\ UNCHANGED <<calls, peer, events>>

-----------------------------------------------------------------------------
(* The matrix answers commands in order, a line at a time; its banner goes *)
(* to every client whenever another one connects; the link may go.         *)
MatrixTakes ==
    /\ inbox # <<>> /\ replying = <<>> /\ socket = "open"
    /\ inbox' = Tail(inbox)
    /\ replying' = Reply(Head(inbox))
    /\ UNCHANGED <<library, calls, entry, socket, inbound, events>>

MatrixSends ==
    /\ replying # <<>> /\ socket = "open"
    /\ inbound' = Append(inbound, Head(replying))
    /\ replying' = Tail(replying)
    /\ UNCHANGED <<library, calls, entry, socket, inbox, events>>

Broadcast ==
    /\ socket = "open" /\ Counted("banner")
    /\ inbound' = inbound \o Banner
    /\ UNCHANGED <<library, calls, entry, socket, inbox, replying>>

LinkGoes ==
    /\ socket = "open" /\ Counted("drop")
    /\ inbox' = <<>> /\ replying' = <<>>
    /\ \/ socket' = "eof" /\ UNCHANGED inbound
       \/ socket' = "reset" /\ inbound' = <<>>
    /\ UNCHANGED <<library, calls, entry>>

TaskStep(t) ==
    \/ Acquires(t)
    \/ DrainReads(t)
    \/ DrainEnds(t)
    \/ \E n \in 1 .. Len(inbound) : ReadChunk(t, n)
    \/ ReadFails(t)
    \/ ReadTimesOut(t)

ConnectStep ==
    \/ Opens
    \/ Refused
    \/ \E n \in 1 .. Len(inbound) : DiscardReads(n)
    \/ DiscardEnds

MatrixStep == MatrixTakes \/ MatrixSends

SessionNext ==
    \/ PollStarts
    \/ \E t \in Users : CommandStarts(t)
    \/ \E t \in Tasks : TaskStep(t)
    \/ \E t \in Users : Cancelled(t) \/ DrainCancelled(t)
    \/ ConnectStep
    \/ SetsUpAgain
    \/ UnloadStarts
    \/ UnloadEnds
    \/ MatrixStep
    \/ Broadcast
    \/ LinkGoes

SessionSpec == SessionInit /\ [][SessionNext]_sessionVars

(* The event loop runs every task that can go on, waits have timeouts, the *)
(* coordinator polls every 30 s and the matrix answers while it is there.  *)
SessionFairness ==
    /\ WF_sessionVars(PollStarts)
    /\ \A t \in Tasks : WF_sessionVars(TaskStep(t))
    /\ WF_sessionVars(ConnectStep)
    /\ WF_sessionVars(SetsUpAgain \/ UnloadEnds)
    /\ WF_sessionVars(MatrixStep)

SessionFairSpec == SessionSpec /\ SessionFairness

-----------------------------------------------------------------------------
(* The command lock is held by the task whose transaction is on the wire,  *)
(* or to which it was just handed, and by nobody else; whoever waits is in *)
(* the queue (base/device.py:129-132).                                     *)
OnTheWire(t) == pc[t] \in {"draining", "reading", "straying"}
LockDiscipline ==
    /\ \A t \in Tasks : OnTheWire(t) => lock = t
    /\ lock # Nobody => pc[lock] = "waiting" \/ OnTheWire(lock)
    /\ \A t \in Tasks :
          pc[t] = "waiting" <=> \/ lock = t /\ ~OnTheWire(t)
                              \/ t \in ToSet(waiters)
    /\ lock = Nobody => waiters = <<>>
    /\ lock \notin ToSet(waiters)
    /\ IsInjective(waiters)
SessionInv == SessionTypeOK /\ LockDiscipline

(* base/device.py:40-45: a second read of the stream while one is waiting  *)
(* raises RuntimeError.  No two tasks read it, the banner discard of       *)
(* connect() included, which holds no lock.                                *)
OneReader ==
    \A t, u \in Tasks :
        /\ pc[t] = "discarding" \/ OnTheWire(t)
        /\ pc[u] = "discarding" \/ OnTheWire(u)
        => t = u

(* A call that succeeds returns the whole reply to its own command and     *)
(* nothing else, whoever connects to the matrix meanwhile and whatever     *)
(* became of the calls before it (tcp.py:45-49, 202-212, 269-338).  A call *)
(* that was cancelled as it drained is excepted: it may return the reply   *)
(* to an earlier one (tcp.py:254), but those after it return their own.    *)
RepliesAreClean ==
    \A t \in Tasks : outcome[t] = "ok" => got[t] = Reply(CommandOf(t))

(* send_command keeps its promise, RequestReply: one command at a time on  *)
(* the matrix, each at most once, none behind a stray one, and a call that *)
(* succeeds was obeyed (base/device.py:91-140, tcp.py:202-267).  A call    *)
(* that is cancelled as it drains counts as failed from then on.           *)
OwnIn(t, seq) == \E k \in DOMAIN seq : seq[k].of = t
Phase(t) ==
    IF pc[t] = "idle" /\ outcome[t] # "cancelled" THEN outcome[t]
    ELSE IF pc[t] \in {"idle", "straying"} THEN "failed"
    ELSE IF pc[t] \in {"opening", "discarding"} THEN "none"
    ELSE IF pc[t] # "reading" \/ OwnIn(t, inbox) THEN "calling"
    ELSE IF OwnIn(t, replying) \/ OwnIn(t, inbound) \/ OwnIn(t, got[t]) THEN "served"
    ELSE "lost"
Abstract == INSTANCE RequestReply WITH phase <- [t \in Tasks |-> Phase(t)],
                                       stray <- OwnIn(Nobody, inbox)
KeepsItsPromise == Abstract!RequestReplySpec

(* Every call returns or raises: no task waits for good for the lock or    *)
(* for the stream, whichever call before it failed or was given up.        *)
EveryCallReturns == \A t \in Tasks : pc[t] # "idle" ~> pc[t] = "idle"

(* custom_components/blustream/README.md:111-112: every entity "recovers   *)
(* within one polling cycle (~30 s) once the device returns".  The link is *)
(* lost a bounded number of times, so from some time on polls succeed.     *)
PollsSucceedAgain == []<>(entry \in {"closing", "unloaded"} \/ outcome[Poller] = "ok")
=============================================================================
