# A TLA+ model of blustream

blustream talks to a Blustream DMP168 audio matrix over a line-oriented TCP
protocol. The repository holds two independent clients of that protocol, a Lua
driver for Control4 and a Python library with a Home Assistant integration on
top. Both keep a long-lived connection, a queue or a lock in front of it, and a
cached view of the matrix. This directory models the parts of them that react
to events in an order nobody controls, checks them with TLC and proves what
matters most with TLAPS. Paths below are relative to the repository.

## 1. The system

### A. Control4 driver (`control4/dmp168/src/`)

One Lua thread in Composer; every callback runs to its end before the next.

| Part | State | Operations | Talks to |
|---|---|---|---|
| ConnectionStateMachine, `connection.lua` | link state, command queue, in-flight flag, backoff index, reconnect timer, host, port | start, stop, link status, timer, received bytes, send, host and port edits | Composer's network binding |
| `driver.lua` | `status_buffer`, the objects below | Composer's callbacks | everything |
| OptimisticStateTracker, `optimistic_tracker.lua` | routing believed, time of the last command per output | note a command, reconcile with a poll | PollingCoordinator, ProxyHandler |
| PollingCoordinator, `polling_coordinator.lua` | poll timer | start, stop, fire, refresh now, status received | connection, tracker, Rooms |
| ProxyHandler, `proxy_handler.lua` | none | SELECT_AUDIO_DEVICE and ignored commands | connection, tracker |
| STATUS parser, `status_parser.lua` | none | parse | |

*Hard:* a link that drops, is refused or is reported lost twice, at any moment;
commands queued meanwhile; no response timeout; STATUS replies that arrive in
chunks; polls that race with Room requests and other controllers.
*Correct when:* the reconnect loop and the in-flight slot are never lost; the
queue is a FIFO; Rooms are told the truth, a poll does not undo a fresh command,
and the view ends up being the matrix's.

### B. Python library (`blustream/`)

| Part | State | Operations |
|---|---|---|
| TCPConnection, `connection/tcp.py` | reader and writer, `_connected`, line buffer | connect with banner discard, send with drain, read_until, disconnect |
| BlustreamDevice, `base/device.py` | `_connected`, the command lock | connect, disconnect, send_command |
| DMP168, `devices/dmp168/device.py` | none | one method per command: validate, build, send, frame and parse the reply; `set_output_source` reads before it writes |
| registry, validator, formatters, `devices/dmp168/commands.py`, `base/validator.py`, `devices/dmp168/_generated.py` | the registry, fixed at construction | which arguments a command takes, and what it is on the wire |
| STATUS parsers, `devices/dmp168/parser.py`, `status_parser.py` | none | parse |
| command line, `cli/` | one command and a connection of its own | extract, validate, confirm, connect, execute, disconnect |

*Hard:* several tasks on one stream; banners broadcast into the middle of
replies; timeouts whose reply comes later; a stream that ends or is reset between
any two awaits; two flags that both mean "connected"; a task cancelled in the
middle of a call; three tables that must agree on every argument.
*Correct when:* one task at a time reads the stream, a call returns its own
reply or raises, its command is obeyed at most once, a lost connection is
replaced, and no connection is made for a command that cannot be built.

### C. Home Assistant integration (`custom_components/blustream/`)

| Part | State | Operations |
|---|---|---|
| set-up, unload, coordinator | the device object, last update | first refresh, poll, reconnect, unload |
| entities (media player, switch, button, sensor) | none of their own; they show `coordinator.data` | services: one or two commands, then a refresh |
| config flow, repairs, identity | config entries, repair issues | DHCP, zeroconf, user and reconfigure steps, confirm or restore |

*Hard:* polls against service calls; checks made before an await and relied on
after it; identities that move between entries.
*Correct when:* the poll recovers with the device; an entity shows the matrix or
is unavailable; clearing an output clears it; no two entries share an
identity, and it changes only on the user's word (ADR 0010).

### D. The rest

Code generation (`spec/`), packaging, release tools, workflows, example scripts,
diagnostics and constants have no run-time state whose order matters. They are
not modelled.

## 2. The modules

| Module | What it is |
|---|---|
| `CommandFifo` | What the driver's command queue promises: a FIFO that a new session greets with the init sequence. |
| `C4Connection` | ConnectionStateMachine, Composer's link and the matrix. |
| `C4Connection_proofs` | Theorems about it, with whatever commands it is used. |
| `OptimisticTracker` | The tracker, with time counted in ticks. |
| `StatusParser` | The three STATUS parsers as operators over abstract lines. |
| `StatusParser_proofs` | What its operators return, for texts of any length. |
| `StatusText` | Every text those parsers can meet, ending anywhere, inside a line too. |
| `StatusText_proofs` | That the parsers agree on such texts, of any length, and which row of a parse more text may change. |
| `C4Driver` | The whole driver: the four above, proxy handler, coordinator, buffer, Rooms and the routing of the matrix. |
| `C4Driver_proofs` | Theorems about it, and that it uses the connection as `C4Connection_proofs` allows. |
| `DeviceSession` | TCPConnection, BlustreamDevice, the coordinator with set-up and unload, and any number of commanding tasks. |
| `DeviceSession_proofs` | Theorems about who reads and who holds the lock, and lemmas about lines and banners. |
| `SessionPromise_proofs` | That replies are their callers' own, and the refinement of `RequestReply`. |
| `RequestReply` | What `send_command` promises its callers. |
| `Commands` | The command registry, the validator, the formatters' checks, the methods of `DMP168` and the command line's arguments. |
| `DeviceOperations` | The entities' services and what they show, the poll, `set_output_source` and the command line, over `RequestReply`, `Commands` and `StatusParser`. |
| `DeviceOperations_proofs` | That the tables of `Commands` agree, and theorems about the operations. |
| `EntryIdentity` | Config entries, config flows, repairs, set-up, DHCP and the matrices' addresses. |
| `EntryIdentity_proofs` | Theorems about it. |
| `MC...` | Values of the constants for TLC. |

`C4Driver` extends `C4Connection`, `OptimisticTracker` and `StatusParser`; its
actions are conjunctions of theirs, one per Composer callback. `C4Connection`
instantiates `CommandFifo` with `pending <- queue`. `StatusText` extends
`StatusParser`. `DeviceSession` instantiates `RequestReply`, with the phase of a
call computed from where its task and its lines are, and implements it;
`DeviceOperations` extends `RequestReply` and so is about operations over what
the session was shown to promise, without its lines and locks.

### How they correspond to the code

*C4Connection.* Variables are the fields of the Lua object. `destroyed` stands for
`cs = nil`. The link is `net` with the status changes Composer has yet to call
back about (`notices`); `inbox` and `stream` hold what is in transit each way.
`StatusOnline`, `StatusOffline`, `ReconnectTimerFires`, `OnReceived(n)`, `Send`,
`SetHost`, `SetPort`, `LateInit` and `DriverDestroyed` are the callbacks. `_pump`
is called with the values its handler has just assigned, so it takes them as
parameters. `WireInit` is the state of the connection alone; `ConnInit` adds the
counters that bound a run. `_buffer` is left out: it never holds a newline, so only the number
`n` of lines a chunk completes matters.

*OptimisticTracker.* The code stores times and compares differences with the
lockout; the model keeps the difference, up to `Lockout`.

*StatusParser.* A line is a kind and the fields the parsers tell apart. Which
kinds pass for the system data line is in `LuaReadable`, `PyReadable` and
`StatusReadable`: the parser behind `get_status` takes any line of eight fields.
`SourceToken` is its token for a source; `Column` what the library writes in a
route command.

*C4Driver.* `Kept` reduces `status_buffer` to what can still affect a parse, which
keeps it finite: text before the first header never matters, a header followed by
anything but a data line spoils every later parse, and a readable header waits
only for routing rows, whose title may already have come. Chunks consist of whole
lines; what a parse makes of a text that ends inside one is in `StatusText`. The
coordinator's timer is `pollTimer`, the token it holds, and `pollTimers`, how many
timers Composer runs for it: `Arm` is `_arm`, with its cancel.

*StatusText.* A text is a sequence of lines, of which the last may be there in part:
`Growths` lists what a parser takes a line for as its characters arrive (the row
`Out1 L` has no source yet, `In1` may become `In12`), and `toCome` is what it will
read like later. A link lost inside a line joins what there is of it to the
first line of the next connection (`RunsOn`).

*DeviceSession.* An action is what runs between two awaits: asking for the lock,
being handed it, draining, writing, each chunk read, each way a read can end, the
two halves of `disconnect`. `pc` says where each task is; `got` is what its read
has accumulated. The field `of` of lines and commands is history that says whose
reply a line is. The awaits of `writer.drain` and `wait_closed` are merged with
their neighbours. What a dead stream does to a write is up to telnetlib3 and the
operating system: either outcome is possible. Home Assistant serialises the
refreshes of a coordinator, so there is one `Poller`; a failed first refresh ends
the set-up and the next one uses a new `DMP168` (`SetsUpAgain`). After an unload
no new call begins.

A cancellation (`Cancelled`) ends a call that awaits the lock or its reply. The
drain takes it for the end of the data (`tcp.py:254`), whatever is still to come
(`DrainCancelled`): the task goes on, sends its command and reads a reply, which
may be that of an earlier call (`pc` is then `"straying"`, and the call ends as
`"cancelled"`). Whoever cancelled it does not wait for the result.

*RequestReply.* A call is `"calling"` until the matrix has obeyed its command,
`"served"` until it ends, and `"lost"` when the link went with its reply. `stray`
says that a command of a call that was given up may still be obeyed. `LoseLink`
and `Reset` are what the end of a stream and of a device object do to it.

*Commands.* Each command is written twice, as the code does: the parameters
`_register_commands` gives it, and what its formatter checks. `Accepts` is
`validate`; `Builds` says that a handler and its formatter take the arguments
without raising. Values are abstract (a level is `<<"abs", n>>` or a step), and
the text that a formatter builds is taken as given. A method of `DMP168` is the
command and the arguments it executes.

*DeviceOperations.* `doing` is where a service is between its calls; a clear is
`"read"`, then `"remove"`, then `"cleared"`. `matrix` and `Obey` are external:
what the methods' docstrings say of the device. `CallFails` is a timeout, a
cancellation or a dead stream; `data` and `available` are the coordinator's `data`
and `last_update_success`. A refresh that a service asks for is one of the polls
that may happen at any time. Once lost, the link stays lost, as `session_recovers`
shows. The assumptions on the constants say what the code does: an output is a
number up to 8, a source one of the 24 columns of `SOURCE_LIST`, a volume a
percentage, and a command line what argparse made of it. Label strings are taken
apart, and only those of `SOURCE_LIST` are selected.

*EntryIdentity.* `entries` holds host, MAC and unique id; `flows` what is in
progress, `"form"` while the user has it and `"testing"` while
`_validate_connectivity` is awaited, which is the one await of a step that can
suspend. `starting` are entries whose first refresh `async_setup_entry` awaits.
`seen` is the address of each matrix that Home Assistant last dispatched: it
dispatches a change, once. `uid` of a flow is what `async_set_unique_id` stored. What Home
Assistant does is modelled from how the integration relies on it: a flow for a
unique id in progress turns others away, a new entry takes the place of one with
its unique id, other flows for it then end, a write of `unique_id` is not
checked, repairs and flows do not survive a restart. `pending` are entries to be
set up or reloaded, `running` the host their `DMP168` was made for. A malformed
MAC only brings the form back and is left out, as are ports, names, ignored
discoveries and which of several entries at one host comes first. Zeroconf
starts the manual form (`UserFlowStarts`), with its host filled in. Four variables
are history, which no step reads; the properties name their exceptions with them.
A MAC is `contested` once it was asked for while something else had it or was after
it, unnoticed: by a discovery or a manual form while a reconfigure form with it was
being tested; by a reconfigure form while a flow claimed or tested it; by a
confirmed repair while an entry had it or a flow was after it. It is `withdrawn` if
a manual form that was submitted with it was submitted again without. An entry is
`astray` when its matrix's last dispatch was not applied to it or was overwritten
since, and `overtaken` when a discovery wrote its host during a set-up, which Home
Assistant does not reload then.

## 3. The checks

Bounds are the constants named `Limit...` (how often each kind of event nothing
in the program limits may happen), `MaxLines`, `MaxOutstanding`, `MaxOutOfBand` and
`Lockout` (in ticks). Deadlock is checked for `operations` only, which polls for
ever: once the bounded events are used up and the driver or the entry is
unloaded, the other systems stop.

| Run | Question | Answer and bounds |
|---|---|---|
| `c4_connection` | Is anything of the connection ever lost: the reconnect loop, the slot, a command, the order? | No, but for the slot of a command written to an edited Port (section 5). One send, one poll, one drop, five failed attempts (with the drop, one more than the backoff table has entries), one edit of Host or Port. The theorems below remove the bounds for the safety part. |
| `status_text` | How far can a parse after every chunk be relied on, and do the three parsers agree? | A parse errs only in the row the text ends inside of. The Lua parser and its mirror agree on replies that stop before the equaliser sections, the two Python parsers on all replies: every text of up to ten lines, ending anywhere, which is enough for a row of every section, or a cut reply followed by another. Input 12, whose number may end after its first digit, and one bus. |
| `c4_driver` | Does the view follow requests and polls under any order of events, and end up being the matrix's? | Yes, two outputs, one input, one request, one drop, one failed attempt, one refresh, one out-of-band change, no more than two commands open when the poll timer fires, when no chunk ends inside the routing report (`WholeReports`) and reports have no Output Settings section. |
| `c4_full_report` | ... and with the replies the fixtures record? | **No**: Output Settings rows are read as routing rows, and every poll unroutes every output. |
| `c4_partial_report` | ... and when a chunk ends between routing rows? | **No**: outputs not yet listed are reported unrouted. |
| `c4_leftover_header` | Is `status_buffer` emptied again, whatever happens to the link? | **No**: a header whose data line was lost with the link spoils it for good. |
| `session` | Do tasks share the stream correctly, through refusals, a drop, a banner, a timeout, a cancellation and an unload, one of each? | Yes: one reader, clean replies (what a call that was cancelled in its drain returns excepted), every call ends, and the session implements `RequestReply`. Two users and the poll: two can wait for the lock while one holds it. |
| `session_banner` | Are replies clean wherever a banner is cut, as `tcp.py:57-64` says? | **No**: the complete lines of half a banner are consumed, and its rule ends a STATUS reply early. |
| `session_recovers` | Do polls succeed again after a lost stream, as the integration's README says? | **No**: `BlustreamDevice._connected` stays set, and `connect()` does nothing. |
| `operations` | Does a clear clear, is every command built, and do the entities end up showing the matrix or unavailable? | Yes: two service tasks and two services of any kind (so a clear meets a route), and one command line or one fault among them, at any moment. One output, no source, an input and a bus. |
| `identity` | Does each identity stay with one entry, change only on the user's word, and follow its matrix? | Only as far as the properties say: two entries share an identity, and a new one takes an entry's place, only if it was contested, and an entry is left behind only if a dispatch was turned away, overwritten or missed by a set-up. Two matrices, three addresses, two entries, two flows at a time; up to four in all of two forms started, two submissions, a repair, a move, a removal and a restart. |
| `identity_repaired` | Is the path from one entry's MAC to another's blocked, as `config_flow.py:240-244` says? | **No**: confirming the issue that the block raises takes it. |

The last column's "no" is a counterexample TLC prints; each is listed as a
finding with the sentence of the repository it contradicts.

### Why each property is there

`NeverStranded` says a started driver always has a timer, an attempt or a notice
pending; `SlotWillBeReleased` that a taken slot is owed a line or an OFFLINE,
there being no response timeout. `NoIdleQueue` is what `_pump` being called in the
right handlers means. `IsFifo` is a refinement: each command written once, in
order, the greeting first in each session. `BackoffFollowsTheLink` gives every
step of the backoff index its one cause: one place on with each reconnect
scheduled, to the end of the table; back to the start with an ONLINE that is
heard. `GetsBackOnline` and `QueueDrains` are liveness: the second excepts a slot
that is never released again because its command went to an edited Port
(`SlotLost`). `OnePollTimer` counts Composer's timers through every arming.
`RoomsFollowTheTracker`, `LockoutHolds` and `NotificationsWereTrue` relate
Composer's view, the tracker and what the matrix ever had. `ReportsShowInRooms` is
the safety half of `SettlesOnMatrix`: a poll that ends with the report of the
present routing shows all of it in the Rooms out of their lockout.
`OnlyTheCutRowChanges` says what a chunk that ends anywhere can spoil.
`TypedRowsAgree` says that what the entities read is what the mirror of the Lua
parser reads, sections of any later part of the reply included. `SessionInv` is
the discipline of the command lock, `OneReader` what it is for, including the
banner discard that takes no lock; `RepliesAreClean` compares what a call returned
with what the matrix sent for it, and `KeepsItsPromise` compares it with what the
matrix did: a command is obeyed at most once, before its call returns and never
inside another's, whatever was given up before. `ClearsWhatFeedsIt` relates a
finished clear to the matrix: the source it names in REM was read in another call,
and only a route by somebody else may have come between. `CommandsAreBuilt` looks
for a drift between registry and formatters through the calls that are made.
`ViewSettles` follows a change of the matrix, by whomever, through report, parser,
labels and collapsed channels to what is shown, and asks for unavailability when
polls fail. `IdentityInv` says that an entry's unique id and the MAC in its data
agree, `ServesItsHost` that the running device object has the stored host,
`FollowsItsMatrix` that both end up being the matrix's address;
`SharedOnlyIfContested` says how much it takes for two entries to share an
identity. `NeverSilentlyRewritten` is ADR 0010; `NoHistoryLost` says the same of a
new entry that replaces an old one.

Several operators have a wrong variant above them, for example
`ScheduleReconnectAfterDrops` above `ScheduleReconnect`. With the variant in its
place the property it is paired with in `PROJECT.json` fails, so the property does
depend on that code.

### Assumptions of the environment

* Composer delivers every status change and runs every timer; a NetConnect has
  an outcome; the matrix answers what reaches it; lines arrive (weak fairness of
  those actions). No fairness for drops, requests, edits or unloading.
* asyncio runs every task that can go on; reads and connection attempts have
  timeouts; the coordinator polls every 30 s; Home Assistant retries a set-up.
* `WholeReports` (passing driver runs): no chunk ends inside the routing report.
  `c4_partial_report` shows why it is needed.
* `FullReports = FALSE` (passing driver runs): `c4_full_report` shows why.
* `SplitBanners = FALSE` (`session`): `session_banner` shows why.
* `LateReplies = FALSE` (`session`): what the matrix still sends for an abandoned
  command arrives before the next command is written. The protocol has no
  request identifiers; with `TRUE`, a late `[SUCCESS]` is taken for the reply to the
  next command, and `RepliesAreClean` fails.

* `operations`: the matrix obeys what it was sent, and answers STATUS whole. A task
  is served eventually (weak fairness): `EveryCallReturns` and the queue of the
  lock justify it. No fairness for services, command lines or faults.
* `identity`: Home Assistant dispatches an address when it is not the one it saw
  last, not every renewal of a lease; a set-up is retried until it succeeds, and a
  first refresh that could succeed does not fail for ever (`IdentityFairness`, with
  strong fairness of `SetUpSucceeds`). No fairness for the user. No order of events
  is excluded, but the properties have exceptions, which the code has too. A MAC
  that is contested can end up with two entries, or replace an entry by a new one
  (`SharedOnlyIfContested`, `NoHistoryLost`). A form that is submitted with a MAC,
  brought back by a failed test and submitted without, makes an entry whose unique
  id is a MAC its data do not have, as `async_set_unique_id` is not undone
  (`AnchorsAgree`). `FollowsItsMatrix` excepts entries that are astray or overtaken,
  `ServesItsHost` those overtaken.

## 4. The proofs

TLAPS proves, for all values of the constants and without the bounds of the runs:

| Theorem | Statement |
|---|---|
| `ConnTypeCorrect` | `ConnSpec => []ConnTypeOK` |
| `ReconnectLoopSurvives` | `ConnSpec => []NeverStranded` |
| `OnePathBackOnline` | `ConnSpec => []TimerOnlyWhileOffline` |
| `QueueKeepsMoving` | `ConnSpec => []NoIdleQueue` |
| `SlotIsOwedARelease` | `ConnSpec => []SlotWillBeReleased` |
| `BackoffReset` | `ConnSpec => BackoffFollowsTheLink` |
| `ConnectionIsFifo` | `ConnSpec => IsFifo`: the connection implements `CommandFifo` |
| `DriverTypeCorrect` | `DriverSpec => []DriverTypeOK` |
| `RoomsShowTheBelief` | `DriverSpec => []RoomsFollowTheTracker` |
| `LockoutIsKept` | `DriverSpec => LockoutHolds` |
| `PollingGoesOn` | `DriverSpec => []OnePollTimer` |
| `PollsTellTheTruth` | `DriverSpec => NotificationsWereTrue`, if `WholeReports` and not `FullReports` |
| `PollsShowTheMatrix` | `DriverSpec => ReportsShowInRooms`, under the same condition |
| `DriverUsesTheConnection` | `DriverSpec => WireSpec`: the driver's steps are the connection's, used and answered by the rest |
| `DriverKeepsTheLink` | `DriverSpec => []` of `NeverStranded`, `TimerOnlyWhileOffline`, `NoIdleQueue` and `SlotWillBeReleased` |
| `DriverIsFifo` | `DriverSpec => IsFifo` |
| `DriverBacksOff` | `DriverSpec => BackoffFollowsTheLink` |
| `ShortRepliesAgree` | `TextSpec => []AgreeOnShortReplies` |
| `ParsersReportTheSame` | `TextSpec => []TypedRowsAgree` |
| `CompleteRowsStay` | `TextSpec => OnlyTheCutRowChanges` |
| `SessionReadsOneAtATime` | `SessionSpec => []OneReader` |
| `LockIsHandedOn` | `SessionSpec => []SessionInv` |
| `RepliesAreTheirOwn` | `SessionSpec => []RepliesAreClean`, if neither `SplitBanners` nor `LateReplies` |
| `SendCommandKeepsItsPromise` | `SessionSpec => KeepsItsPromise`, under the same condition: the session implements `RequestReply` |
| `AcceptedIsBuilt` | arguments of any command that `validate` accepts, and that give no optional parameter as `None`, its formatter builds |
| `CliIsBuilt` | so does every command line that argparse and `validate` let through |
| `ApiIsAccepted` | so are the arguments of every method of `DMP168`, in the ranges it documents, which `validate` accepts as well |
| `OperationsTypeCorrect` | `OpsSpec => []OpsTypeOK` |
| `OnlyBuiltCommands` | `OpsSpec => []CommandsAreBuilt` |
| `ClearsAreHeld` | `OpsSpec => []ClearsWhatFeedsIt` |
| `ReportsAreShown` | `ShowsTheMatrix` for any settings of the matrix, when `data` is the parse of its report of them |
| `IdentityTypeCorrect` | `IdentitySpec => []TypeInv` |
| `IdentitiesAgree` | `IdentitySpec => []IdentityInv` |
| `OneEntryEach` | `IdentitySpec => []SharedOnlyIfContested` |
| `HistoryIsKept` | `IdentitySpec => NoHistoryLost` |
| `EntriesServeTheirHost` | `IdentitySpec => []ServesItsHost` |
| `NoSilentRewrite` | `IdentitySpec => NeverSilentlyRewritten` |

*The connection.* `NeverStranded` alone is not inductive: a machine that is ONLINE
over a closed link is saved only by an OFFLINE still to be delivered. The
invariant `NoticesTellTheLink` adds that the pending notices end with the state
the link is in, and alternate with it; with it each callback preserves the loop.
`SlotWillBeReleased` follows from the same facts about notices, and from replies
not being empty (`RepliesAssumption`): the reply to a command in `inbox` becomes
lines in `stream`. The refinement maps each pump to the write or the arrival it
is, and every other step to a stutter.

All of it is proved of `WireSpec`, the connection as its users know it: any
commands, edits and events, as often as they like. `ConnSpec` implements it by
leaving out its counters, and so does the driver.

*The driver.* `DriverStepIsWireStep` goes through the callbacks of the whole
driver and finds in each the step of the connection it takes: what the proxy
handler and the coordinator enqueue are commands, and what the matrix answers is
one of its replies, which takes `DriverTypeOK` to know. `UseAssumption` says what
`C4Driver` asks of the constants of `C4Connection`: that they contain the commands
and the reports the driver deals in. With that the connection's four invariants,
its refinement and its action property hold of the driver, whose queue is filled
by its own parts. The other proofs go over the driver's own callbacks, each a step
of the connection and what the other parts do in the same callback.
`RoomsFollowTheTracker` and `LockoutHolds` need only that tables have the outputs
for their domain (`ViewShape`): each change of belief and its notification are one
callback. `OnePollTimer` rests on `PollerInv`: the coordinator holds its token
exactly while it polls, and as many of Composer's timers run as it holds tokens,
whether a timer is armed by a start, by its own firing or by an ONLINE that comes
while one is running. `DriverTypeOK` needs the shape of what is on the wire
(`WireShape`: known commands, lines of a report) and that the matrix always has
the routings it is said to have had (`MatrixShape`), since a parsed row becomes a
tracker entry and a binding. `NotificationsWereTrue` follows from `WireIsTrue`:
the buffer is empty between chunks, every routing line on the wire was true when
it was sent, and behind each header comes its whole report. A chunk then is some
whole reports, and the lemmas of `StatusParser_proofs` say which rows of it the
collapse keeps. Its two hypotheses are those that `c4_partial_report` and
`c4_full_report` show to be needed. `ReportsShowInRooms` follows from the same
invariant. The rows parsed are those of the reports in the chunk, in order
(`PollReads`), of which the collapse keeps the last for each output
(`LastReportDecides`), and these are the last report's. The tracker takes them
over where no lockout holds, and each change is notified; a Room that no change
concerns shows it already, by `RoomsFollowTheTracker`.

*The parsers.* A text is what the matrix has sent so far, cut anywhere, inside a line
too, and followed by another reply or not. `TextInv` is all that is needed of it:
behind a system header, if anything, comes its data line or, where the reply was
cut there, text outside any section (`FitsAt`), and while the last line is not whole,
what there is of it is no title and no data (`CutLine`). So the parsers, which tell
readable data lines apart differently, agree whether there is one
(`DataFollowsTheHeader`, `ReadableAlike`), and then differ only in where they end a
section. `ShortRepliesAgree` needs the absence of the rows on which they part;
`ParsersReportTheSame` does not, but needs that a column names one source
(`ColumnsNameSources`): inputs are numbered within the 16 columns that are not
buses', which is what `TextAssumption` says. `CompleteRowsStay` is about one more piece
of text: the last line reads differently, or a line is appended, and the section it
falls into changes there only (`RestGrows`). A readable section stays readable, so
every row of the lines that are whole (`CompleteLines`) is parsed as before
(`RowsStay`). What a parse after a chunk can get wrong is one row.

*The session.* `OneReader` is about program counters only. It follows from the
discipline of the lock and from the fact that a banner is discarded only while
the device does not count itself connected, which is when no command can have
entered; this needs the life cycle of the entry in the invariant. `SessionInv` adds
that the lock is free only when nobody waits (`LockMoves` is all that a step may do
to the lock, its queue and the program counters).

`RepliesAreClean` is far from inductive. `CallInv` adds where a reply is on its
way: of the task that reads, `got` has the first lines of its reply, the stream
the next ones, and the matrix the rest, unless the link is gone (`Exchange`). The
stream may hold whole banners between them (`Carries`), which `StripBanners` takes
out however the chunks fall. When nobody reads, nothing on the way belongs to a
call (`Unowned`), because an abandoned reply is relabelled as nobody's and drained
before the next write. A call that was cancelled in its drain is `"straying"`: its
command and all that travels meanwhile is nobody's (`NothingAwaited`), what it
reads may be any reply (`ReadsAnyReply`), and for `RequestReply` it has failed
already; only `"reading"` calls have a reply of their own (`ReadsItsReply`). The
refinement is proved step by step from `CallInv`: `Phase` of a task changes only
when its own position does, and `AbstractSteps` says which step of `RequestReply`
each change is. Both conditions are needed: `session_banner` shows one, and with
`LateReplies` a late `[SUCCESS]` is taken for the next reply.

*The commands.* `KindsCovered` shows, once for each kind of parameter, that its
choices or its validation lie within what a formatter checks, and that only
required parameters have steps; `TablesAgree` applies it to all 24 commands. The
hypothesis about `None` is needed: `validate` lets `channel=None` pass, and the
formatters reject it. For `ApiIsAccepted`, `KindsPass` and `KindsDepend` show that
a value in the range of a kind passes `validate`, whatever the other arguments are:
only a unit depends on another, and the methods leave it out of a step.

*The operations.* `OpsShape` says that what any task, abandoned call or command line
asks for is `Sendable` (accepted, built, its level on the matrix's scale), that
the settings of the matrix stay settings when it is obeyed, and that a reply is
nothing or the report of some settings. The three need each other: the REM of a
clear is made of a reply, and can be sent only because each route in a report of
settings is a column (`ReportIsParsed`, `SourcesHaveColumns`). `ReportIsParsed` follows
from where each line of a report is, for any number of outputs up to 8, and from
where the sections the parser cuts begin and end; `ReportsAreShown` is the same fact
carried through labels and collapsed channels, and is the safety half of
`ViewSettles`. `ClearsWhatFeedsIt` is about the last of three steps; `ClearAt` follows a
clear from its STATUS on: unless others have routed the output since (`moved`), the
source its reply names feeds it, then so does the one its REM names, then none does.
What others do in between, a command line or an abandoned command that is obeyed
late included, either leaves the channel alone or is recorded (`OthersObeyed`).

*Identity.* `EntriesChange` lists what any step may do to the entries: create one,
remove one, or rewrite one by keeping its identity, anchoring it to a MAC or
falling back to its own id. `ServesItsHost` and `NeverSilentlyRewritten` need no
more. `IdentityInv` also needs that a flow's unique id is the MAC it will store or
was withdrawn (`FlowsAgree`). `SharedOnlyIfContested` is not inductive. It needs what
else may be after a MAC that is not contested: one entry has it; or flows claim
it, which no entry has and no reconfigure form tests; or one reconfigure form tests
it, for the entry that has it or for one where none has (`Alone`). `AloneStep` takes
each step that brings something to a MAC and finds that either nothing else was
there or the step contests it, which is remembered (`HistoryStep`); it also needs
that only an entry itself falls back to its id (`OwnIds`). An entry that is created
with a MAC that is alone replaces none, which is `NoHistoryLost` (`RemovalStep`). No
interleaving is excluded by a hypothesis: the orders in which the code does share
or replace an identity are the conclusions' own exceptions.

The auxiliary invariants were checked by TLC on the runs' instances before they
were proved. Every invariant and every safety action property of the passing runs
is proved. Model-checked only: the liveness properties `GetsBackOnline`,
`QueueDrains`, `SettlesOnMatrix`, `EveryCallReturns`, `ViewSettles` and `FollowsItsMatrix`,
which rest on fairness, beyond the prover's reach; and what a run refutes is
refuted on its instance.

## 5. Left out

* Chunks that end inside a line, in `C4Driver`: `StatusText` says what they do to one
  parse.
* R rows of the routing table in the driver (ignored by `collapse_routing`).
* Poll interval values, debug properties and logging.
* A wall clock set back (it would lengthen a lockout, `driver.lua:47`).
* The ceiling on the size of a response, the command log file.
* Presets, groups, inputs, delays and mixes as settings of the matrix: the commands
  for them are in `Commands`, but no action of `DeviceOperations` sends them.
* The text of a command and of results; sensors and diagnostics, which show fields
  of the report.
* An unload while a refresh is connecting (`__init__.py:40`): whether the refresh is
  cancelled is up to Home Assistant.
* Code generation, packaging and release tools, and the example scripts: they run
  once, in one thread, and keep no state.
* The queue's length while OFFLINE, which the code does not limit.

Known and not claimed:

* An edit of Host or Port reaches an open link only with a reload (`start` creates
  the binding once), although `driver.lua:204-206` says "changes take effect
  without a driver reload". After an edit of Port while ONLINE the next command goes
  to a port with no connection: it is lost, no reply will free its slot, and
  nothing more is written until the link is lost (`SlotLost`, the exception in
  `SlotWillBeReleased` and `QueueDrains`).
* Entries can share a MAC, or be replaced, when it was contested (section 3).
* An entry does not follow its matrix while it is astray (a stale host typed after
  the discovery, or a dispatch turned away by a flow that is open for the MAC)
  until the matrix's address changes again; nor one that is overtaken, until its
  next reload.
* A call that is cancelled in its drain may return another's reply; whoever
  cancelled it does not use it.
* The in-flight slot is freed by any line of a reply, so a command may be written
  while a STATUS reply is still coming.
* A command that waits for the link longer than the lockout is undone in
  Composer's view by the STATUS of the init sequence, until the next poll.
* `button.py:76` catches `ConnectionError` only, but a link lost during the call
  arrives as `CommandError` (`base/device.py:133-136`): the entities then stay
  available until the next poll, and the raw exception reaches the user.
* Clearing an output whose L channel has no source does nothing, also when its R
  channel has one (`device.py:350-352`).
* `media_player.py:188-194` calls the collapse lossless: the levels are, but not
  which of two channels is muted.
* A reply of `[ERROR]` returns like one of `[SUCCESS]` (`parse_simple_response`), so a
  command the matrix refuses does not raise.
* `label_to_source` takes labels outside `SOURCE_LIST`, such as "Input 20", which the
  library then routes as a bus.

## 6. Plan

1. Done: `C4Connection` and its proofs, the parsers, the driver as a whole, the
   device session and the promise it keeps, the commands and their proofs, the
   operations over them, entry identity.
2. Presets as a saved copy of the matrix's settings, recalled by the command line.
3. Proofs: all safety properties are proved. What is left is liveness, for another
   prover: `SettlesOnMatrix` from `ReportsShowInRooms`, the FIFO and the connection's
   getting back on line.
