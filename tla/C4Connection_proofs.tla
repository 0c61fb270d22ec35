------------------------ MODULE C4Connection_proofs ------------------------
(***************************************************************************)
(* Proofs about the connection state machine, for any set of commands,     *)
(* hosts and ports, any replies and any bounds.                            *)
(***************************************************************************)
EXTENDS C4Connection, SequenceTheorems, TLAPS

\* The helpers of the handlers are expanded wherever a handler is.
USE DEF CancelReconnect, ScheduleReconnect, NextBackoff, PrependInitSequence,
        StillInFlight

Notice == {"ONLINE", "OFFLINE"}

(* The connection as those who use it know it: any commands, edits and     *)
(* events, as often as they like.  What is proved of it holds for          *)
(* C4Connection on its own and inside the driver.                          *)
WireNext ==
    \/ LateInit \/ DriverDestroyed
    \/ StatusOnline \/ StatusOffline \/ ReconnectTimerFires
    \/ \E n \in 0 .. Len(stream) : OnReceived(n)
    \/ \E cmd \in Command : Send(cmd)
    \/ \E h \in Hosts : SetHost(h)
    \/ \E p \in Ports : SetPort(p)
    \/ NetOpens \/ NetFails \/ NetDrops \/ NetReportsOfflineAgain
    \/ DeviceStep

WireSpec == WireInit /\ [][WireNext]_wireVars

(* The empty sequence, for every set of elements.                          *)
LEMMA EmptyIsSeq == Len(<<>>) = 0 /\ \A S : <<>> \in Seq(S)
  OBVIOUS

(* Sequence facts the pending status notices rest on.                      *)
LEMMA NoticeAppended ==
    ASSUME NEW s \in Seq(Notice), NEW e \in Notice
    PROVE  /\ Append(s, e) \in Seq(Notice) /\ Append(s, e) # <<>>
           /\ Last(Append(s, e)) = e
           /\ ToSet(Append(s, e)) = ToSet(s) \cup {e}
  BY DEF Last, ToSet

(* The same of the notice taken from the front.                            *)
LEMMA NoticeTaken ==
    ASSUME NEW s \in Seq(Notice), s # <<>>
    PROVE  /\ Tail(s) \in Seq(Notice) /\ Last(s) \in ToSet(s)
           /\ Tail(s) # <<>> => Last(Tail(s)) = Last(s)
           /\ Head(s) # Last(s) => Tail(s) # <<>>
           /\ ToSet(s) = {Head(s)} \cup ToSet(Tail(s))
<1>1. /\ Len(s) \in Nat \ {0} /\ DOMAIN s = 1 .. Len(s)
      /\ Tail(s) \in Seq(Notice) /\ Len(Tail(s)) = Len(s) - 1
      /\ DOMAIN Tail(s) = 1 .. Len(s) - 1
      /\ \A i \in 1 .. Len(s) - 1 : Tail(s)[i] = s[i + 1]
      /\ Head(s) = s[1]
  OBVIOUS
<1>2. Last(s) \in ToSet(s)
  BY <1>1 DEF Last, ToSet
<1>3. Tail(s) # <<>> => Last(Tail(s)) = Last(s)
  BY <1>1 DEF Last
<1>4. Head(s) # Last(s) => Tail(s) # <<>>
  <2>1. Tail(s) = <<>> => Len(Tail(s)) = 0
    BY EmptyIsSeq, Zenon
  <2>2. QED BY <2>1, <1>1 DEF Last
<1>5. \A x : x \in ToSet(s) <=> x = Head(s) \/ x \in ToSet(Tail(s))
  <2>1. ASSUME NEW i \in 2 .. Len(s) PROVE s[i] \in ToSet(Tail(s))
    <3>1. i - 1 \in 1 .. Len(s) - 1 /\ Tail(s)[i - 1] = s[i]
      BY <1>1
    <3>2. QED BY <3>1, <1>1 DEF ToSet
  <2>2. ASSUME NEW i \in 1 .. Len(s) - 1 PROVE Tail(s)[i] \in ToSet(s)
    <3>1. i + 1 \in 1 .. Len(s) /\ Tail(s)[i] = s[i + 1]
      BY <1>1
    <3>2. QED BY <3>1, <1>1 DEF ToSet
  <2>3. QED BY <1>1, <2>1, <2>2 DEF ToSet
<1>6. QED BY <1>1, <1>2, <1>3, <1>4, <1>5

-----------------------------------------------------------------------------
(* The backoff schedule has five steps.                                    *)
LEMMA BackoffLength ==
    Len(BACKOFF_SCHEDULE_MS) = 5 /\ 0 \in 0 .. Len(BACKOFF_SCHEDULE_MS)
  BY DEF BACKOFF_SCHEDULE_MS

(* The init sequence is a nonempty sequence of commands.                   *)
LEMMA InitCommands ==
    /\ INIT_SEQUENCE \in Seq(Command) /\ INIT_SEQUENCE # <<>>
    /\ StatusCommand \in Command
<1>1. INIT_SEQUENCE \in Seq({<<"PON">>, <<"STANDBY 0">>, <<"AUTO STB 0">>, <<"STATUS">>})
  BY DEF INIT_SEQUENCE, StatusCommand
<1>2. Len(INIT_SEQUENCE) = 4 /\ INIT_SEQUENCE[4] = StatusCommand
  BY DEF INIT_SEQUENCE
<1>3. INIT_SEQUENCE \in [1 .. 4 -> {<<"PON">>, <<"STANDBY 0">>, <<"AUTO STB 0">>, <<"STATUS">>}]
  BY <1>1, <1>2, LenProperties
<1>4. \A i \in 1 .. 4 : INIT_SEQUENCE[i] \in Command
  BY <1>3 DEF ToSet, Command
<1>5. INIT_SEQUENCE \in Seq(Command)
  <2>1. INIT_SEQUENCE \in [1 .. 4 -> Command]
    BY <1>3, <1>4
  <2>2. QED BY <2>1, SeqDef
<1>6. INIT_SEQUENCE # <<>>
  BY <1>2
<1>7. QED BY <1>2, <1>4, <1>5, <1>6

(* _pump keeps the types, whatever state, queue and flag it is run with.   *)
LEMMA PumpTypes ==
    ASSUME WireTypeOK, NEW st, NEW q \in Seq(Command), NEW busy \in BOOLEAN,
           Pump(st, q, busy)
    PROVE  /\ queue' \in Seq(Command) /\ inflight' \in BOOLEAN
           /\ inbox' \in Seq(Command) /\ misdirected' \in BOOLEAN
           /\ lastWrite' \in Command \cup {<<>>}
<1>1. CASE st = "ONLINE" /\ ~busy /\ q # <<>>
  <2>1. Head(q) \in Command /\ Tail(q) \in Seq(Command)
    BY <1>1
  <2>2. queue' = Tail(q) /\ inflight' = TRUE /\ SendToNetwork(Head(q))
    BY <1>1 DEF Pump
  <2>3. QED BY <2>1, <2>2 DEF SendToNetwork, WireTypeOK
<1>2. CASE st # "ONLINE" \/ busy \/ q = <<>>
  BY <1>2 DEF Pump, WireTypeOK
<1>3. QED BY <1>1, <1>2 DEF Pump

(* A connection starts with every variable of its type.                    *)
LEMMA WireTypeStarts == WireInit => WireTypeOK
<1>1. WireInit => reconnectIdx \in 0 .. Len(BACKOFF_SCHEDULE_MS)
  BY BackoffLength DEF WireInit
<1>2. WireInit =>
          /\ queue \in Seq(Command) /\ inbox \in Seq(Command)
          /\ stream \in Seq(Line) /\ notices \in Seq({"ONLINE", "OFFLINE"})
          /\ lastWrite \in Command \cup {<<>>}
  BY EmptyIsSeq DEF WireInit
<1>3. WireInit =>
          /\ state \in {"OFFLINE", "CONNECTING", "ONLINE"}
          /\ net \in {"closed", "opening", "open"}
          /\ inflight \in BOOLEAN /\ created \in BOOLEAN
          /\ reconnectTimer \in BOOLEAN /\ destroyed \in BOOLEAN
          /\ misdirected \in BOOLEAN
          /\ host \in Hosts /\ port \in Ports
          /\ boundHost \in Hosts /\ connPort \in Ports
  BY Zenon DEF WireInit
<1>4. QED BY <1>1, <1>2, <1>3 DEF WireTypeOK

(* Every step keeps the types.                                             *)
LEMMA WireTypeStep ==
    ASSUME WireTypeOK, [WireNext]_wireVars
    PROVE  WireTypeOK'
<1> USE DEF csm, link, device
<1>1. CASE LateInit
  BY <1>1 DEF LateInit, StartConnection, WireTypeOK
<1>2. CASE DriverDestroyed
  BY <1>2, EmptyIsSeq DEF DriverDestroyed, WireTypeOK
<1>3. CASE StatusOnline
  <2>0. notices' \in Seq(Notice)
    BY <1>3, NoticeTaken DEF StatusOnline, WireTypeOK, Notice
  <2>1. CASE state = "ONLINE"
    BY <1>3, <2>0, <2>1 DEF StatusOnline, WireTypeOK, Notice
  <2>2. CASE state # "ONLINE"
    <3>1. INIT_SEQUENCE \o queue \in Seq(Command)
      BY InitCommands DEF WireTypeOK
    <3>2. Pump("ONLINE", PrependInitSequence(queue), FALSE)
      BY <1>3, <2>2 DEF StatusOnline
    <3>3. /\ queue' \in Seq(Command) /\ inflight' \in BOOLEAN
          /\ inbox' \in Seq(Command) /\ misdirected' \in BOOLEAN
          /\ lastWrite' \in Command \cup {<<>>}
      BY <3>1, <3>2, PumpTypes
    <3>4. /\ state' = "ONLINE" /\ reconnectIdx' = 0 /\ reconnectTimer' = FALSE
          /\ UNCHANGED <<created, host, port, destroyed, stream, boundHost,
                         net, connPort>>
      BY <1>3, <2>2 DEF StatusOnline
    <3>5. reconnectIdx' \in 0 .. Len(BACKOFF_SCHEDULE_MS)
      BY <3>4, BackoffLength
    <3>6. QED BY <2>0, <3>3, <3>4, <3>5 DEF WireTypeOK, Notice
  <2>3. QED BY <2>1, <2>2
<1>4. CASE StatusOffline
  <2>1. reconnectIdx' \in 0 .. Len(BACKOFF_SCHEDULE_MS)
    BY <1>4, BackoffLength DEF StatusOffline, WireTypeOK
  <2>2. notices' \in Seq(Notice)
    BY <1>4, NoticeTaken DEF StatusOffline, WireTypeOK, Notice
  <2>3. QED BY <1>4, <2>1, <2>2 DEF StatusOffline, WireTypeOK, Notice
<1>5. CASE ReconnectTimerFires
  BY <1>5 DEF ReconnectTimerFires, StartConnection, WireTypeOK
<1>6. ASSUME NEW n \in 0 .. Len(stream), OnReceived(n)
      PROVE  WireTypeOK'
  <2>1. Pump(state, queue, inflight /\ n = 0) /\ (inflight /\ n = 0) \in BOOLEAN
    BY <1>6 DEF OnReceived
  <2>2. /\ queue' \in Seq(Command) /\ inflight' \in BOOLEAN
        /\ inbox' \in Seq(Command) /\ misdirected' \in BOOLEAN
        /\ lastWrite' \in Command \cup {<<>>}
    BY <2>1, PumpTypes DEF WireTypeOK
  <2>3. stream' \in Seq(Line)
    BY <1>6 DEF OnReceived, WireTypeOK
  <2>4. QED BY <1>6, <2>2, <2>3 DEF OnReceived, WireTypeOK
<1>7. ASSUME NEW cmd \in Command, Send(cmd)
      PROVE  WireTypeOK'
  <2>1. Pump(state, Append(queue, cmd), inflight)
    BY <1>7 DEF Send
  <2>2. Append(queue, cmd) \in Seq(Command) /\ inflight \in BOOLEAN
    BY <1>7 DEF WireTypeOK
  <2>3. /\ queue' \in Seq(Command) /\ inflight' \in BOOLEAN
        /\ inbox' \in Seq(Command) /\ misdirected' \in BOOLEAN
        /\ lastWrite' \in Command \cup {<<>>}
    BY <2>1, <2>2, PumpTypes
  <2>4. QED BY <1>7, <2>3 DEF Send, WireTypeOK
<1>8. ASSUME NEW h \in Hosts, SetHost(h)
      PROVE  WireTypeOK'
  BY <1>8 DEF SetHost, WireTypeOK
<1>9. ASSUME NEW p \in Ports, SetPort(p)
      PROVE  WireTypeOK'
  BY <1>9 DEF SetPort, WireTypeOK
<1>10. CASE NetOpens
  <2>1. notices' \in Seq(Notice)
    BY <1>10, NoticeAppended DEF NetOpens, WireTypeOK, Notice
  <2>2. QED BY <1>10, <2>1, EmptyIsSeq DEF NetOpens, WireTypeOK, Notice
<1>11. CASE NetFails
  BY <1>11 DEF NetFails, WireTypeOK
<1>12. CASE NetDrops
  BY <1>12 DEF NetDrops, WireTypeOK
<1>13. CASE NetReportsOfflineAgain
  BY <1>13 DEF NetReportsOfflineAgain, WireTypeOK
<1>14. CASE DeviceStep
  <2>1. PICK reply \in Replies[Head(inbox)] : DeviceAnswers(reply)
    BY <1>14 DEF DeviceStep
  <2>2. inbox # <<>> /\ Head(inbox) \in Command /\ Tail(inbox) \in Seq(Command)
    BY <1>14 DEF DeviceStep, WireTypeOK
  <2>3. reply \in Seq(Line)
    BY <2>2, RepliesAssumption
  <2>4. QED BY <2>1, <2>2, <2>3 DEF DeviceAnswers, WireTypeOK
<1>15. CASE UNCHANGED wireVars
  BY <1>15 DEF wireVars, WireTypeOK
<1>16. QED
  BY <1>1, <1>2, <1>3, <1>4, <1>5, <1>6, <1>7, <1>8, <1>9, <1>10, <1>11,
     <1>12, <1>13, <1>14, <1>15, InitCommands
     DEF WireNext

-----------------------------------------------------------------------------
(* What makes NeverStranded and TimerOnlyWhileOffline inductive: the       *)
(* notices Composer still owes end with the truth about the link, and a    *)
(* machine with none pending has caught up with it.                        *)
NoticesTellTheLink ==
    /\ ~created => /\ net = "closed" /\ state = "OFFLINE"
                   /\ notices = <<>> /\ ~reconnectTimer
    /\ notices # <<>> =>
           Last(notices) = IF net = "open" THEN "ONLINE" ELSE "OFFLINE"
    /\ notices = <<>> /\ created /\ ~destroyed =>
           /\ net = "open" <=> state = "ONLINE"
           /\ net = "closed" => state = "OFFLINE"

LinkInv == NeverStranded /\ TimerOnlyWhileOffline /\ NoticesTellTheLink

(* A pending OFFLINE stays pending while another notice is delivered, and  *)
(* is there whenever the last notice is one.                               *)
LEMMA NoticeDelivered ==
    ASSUME WireTypeOK, notices # <<>>, notices' = Tail(notices)
    PROVE  /\ notices' # <<>> => Last(notices') = Last(notices)
           /\ Head(notices) # Last(notices) => notices' # <<>>
           /\ notices' # <<>> => Last(notices) \in ToSet(notices')
           /\ "OFFLINE" \in ToSet(notices) /\ Head(notices) = "ONLINE"
                  => "OFFLINE" \in ToSet(notices')
<1>1. notices \in Seq(Notice) /\ notices' \in Seq(Notice)
  BY NoticeTaken DEF WireTypeOK, Notice
<1>2. QED BY <1>1, NoticeTaken

(* A notice added is the last one, and is pending with the others.         *)
LEMMA NoticeAdded ==
    ASSUME WireTypeOK, NEW e \in Notice, notices' = Append(notices, e)
    PROVE  /\ notices' # <<>> /\ Last(notices') = e
           /\ ToSet(notices') = ToSet(notices) \cup {e}
  BY NoticeAppended DEF WireTypeOK, Notice

(* Every step keeps the facts about the link.                              *)
LEMMA LinkInvStep ==
    ASSUME WireTypeOK, LinkInv, [WireNext]_wireVars
    PROVE  LinkInv'
<1> USE DEF LinkInv, NeverStranded, TimerOnlyWhileOffline, NoticesTellTheLink,
            csm, link, device
<1>1. CASE LateInit
  BY <1>1 DEF LateInit, StartConnection, WireTypeOK
<1>2. CASE DriverDestroyed
  BY <1>2 DEF DriverDestroyed, WireTypeOK
<1>3. CASE StatusOnline
  <2>1. /\ notices # <<>> /\ Head(notices) = "ONLINE" /\ notices' = Tail(notices)
        /\ UNCHANGED <<created, destroyed, net>> /\ state' = "ONLINE"
        /\ state = "ONLINE" => reconnectTimer' = reconnectTimer
        /\ state # "ONLINE" => reconnectTimer' = FALSE
    BY <1>3 DEF StatusOnline
  <2>2. /\ notices' # <<>> => Last(notices') = Last(notices)
        /\ Head(notices) # Last(notices) => notices' # <<>>
        /\ notices' # <<>> => Last(notices) \in ToSet(notices')
    BY <2>1, NoticeDelivered
  <2>3. created /\ ~destroyed
    BY <1>3, <2>1 DEF StatusOnline
  <2>4. net # "open" => notices' # <<>> /\ "OFFLINE" \in ToSet(notices')
    BY <2>1, <2>2
  <2>5. ~reconnectTimer'
    BY <2>1
  <2>6. QED BY <2>1, <2>2, <2>3, <2>4, <2>5
<1>4. CASE StatusOffline
  <2>1. /\ notices # <<>> /\ Head(notices) = "OFFLINE" /\ notices' = Tail(notices)
        /\ UNCHANGED <<created, destroyed, net>>
        /\ state' = "OFFLINE" /\ reconnectTimer' = TRUE /\ ~destroyed
    BY <1>4 DEF StatusOffline
  <2>2. /\ notices' # <<>> => Last(notices') = Last(notices)
        /\ Head(notices) # Last(notices) => notices' # <<>>
    BY <2>1, NoticeDelivered
  <2>3. created
    BY <2>1
  <2>4. QED BY <2>1, <2>2, <2>3
<1>5. CASE ReconnectTimerFires
  <2>1. state = "OFFLINE" /\ StartConnection /\ notices' = notices /\ ~destroyed
    BY <1>5 DEF ReconnectTimerFires
  <2>2. UNCHANGED destroyed
    BY <1>5 DEF ReconnectTimerFires
  <2>3. created
    BY <1>5, <2>1 DEF ReconnectTimerFires
  <2>4. QED BY <2>1, <2>2, <2>3 DEF StartConnection, WireTypeOK
<1>6. ASSUME NEW n \in 0 .. Len(stream), OnReceived(n)
      PROVE  LinkInv'
  BY <1>6 DEF OnReceived
<1>7. ASSUME NEW cmd \in Command, Send(cmd)
      PROVE  LinkInv'
  BY <1>7 DEF Send
<1>9. ASSUME NEW h \in Hosts, SetHost(h)
      PROVE  LinkInv'
  BY <1>9 DEF SetHost
<1>10. ASSUME NEW p \in Ports, SetPort(p)
       PROVE  LinkInv'
  BY <1>10 DEF SetPort
<1>11. CASE NetOpens
  <2>1. net = "opening" /\ net' = "open" /\ notices' = Append(notices, "ONLINE")
        /\ UNCHANGED <<state, created, destroyed, reconnectTimer>>
    BY <1>11 DEF NetOpens
  <2>2. notices' # <<>> /\ Last(notices') = "ONLINE"
        /\ ToSet(notices') = ToSet(notices) \cup {"ONLINE"}
    BY <2>1, NoticeAdded DEF Notice
  <2>3. QED BY <2>1, <2>2
<1>12. CASE NetFails
  <2>1. net = "opening" /\ net' = "closed" /\ notices' = Append(notices, "OFFLINE")
        /\ UNCHANGED <<state, created, destroyed, reconnectTimer>>
    BY <1>12 DEF NetFails
  <2>2. notices' # <<>> /\ Last(notices') = "OFFLINE"
        /\ ToSet(notices') = ToSet(notices) \cup {"OFFLINE"}
    BY <2>1, NoticeAdded DEF Notice
  <2>3. QED BY <2>1, <2>2
<1>13. CASE NetDrops
  <2>1. net = "open" /\ net' = "closed" /\ notices' = Append(notices, "OFFLINE")
        /\ UNCHANGED <<state, created, destroyed, reconnectTimer>>
    BY <1>13 DEF NetDrops
  <2>2. notices' # <<>> /\ Last(notices') = "OFFLINE"
        /\ ToSet(notices') = ToSet(notices) \cup {"OFFLINE"}
    BY <2>1, NoticeAdded DEF Notice
  <2>3. QED BY <2>1, <2>2
<1>14. CASE NetReportsOfflineAgain
  <2>1. /\ net = "closed" /\ notices = <<>> /\ notices' = <<"OFFLINE">>
        /\ state = "OFFLINE" /\ reconnectTimer /\ ~destroyed
        /\ UNCHANGED <<state, created, destroyed, reconnectTimer, net>>
    BY <1>14 DEF NetReportsOfflineAgain
  <2>2. Last(<<"OFFLINE">>) = "OFFLINE" /\ <<"OFFLINE">> # <<>>
    BY DEF Last
  <2>3. QED BY <2>1, <2>2
<1>15. CASE DeviceStep
  BY <1>15 DEF DeviceStep, DeviceAnswers
<1>16. CASE UNCHANGED wireVars
  BY <1>16 DEF wireVars
<1>17. QED
  BY <1>1, <1>2, <1>3, <1>4, <1>5, <1>6, <1>7, <1>9, <1>10, <1>11, <1>12,
     <1>13, <1>14, <1>15, <1>16, InitCommands
     DEF WireNext

-----------------------------------------------------------------------------
(* The in-flight slot and the queue.                                       *)
SlotInv == NoIdleQueue /\ SlotWillBeReleased

(* What was appended to is not empty.                                      *)
LEMMA NonEmptyAppend ==
    ASSUME NEW S, NEW s \in Seq(S), NEW e \in S
    PROVE  Append(s, e) # <<>>
  BY AppendProperties

(* Whatever _pump was run with, afterwards no command waits for a free     *)
(* slot, and a slot it took belongs to a command the matrix has, or to one *)
(* written to a dead link or to the wrong port.                            *)
LEMMA PumpTakesTheSlot ==
    ASSUME WireTypeOK, NEW st, NEW q \in Seq(Command), NEW busy \in BOOLEAN,
           Pump(st, q, busy)
    PROVE  /\ st = "ONLINE" /\ queue' # <<>> => inflight'
           /\ inflight' /\ ~busy =>
                  st = "ONLINE" /\ (inbox' # <<>> \/ net # "open" \/ misdirected')
           /\ busy => UNCHANGED <<inbox, misdirected>> /\ inflight'
<1>1. CASE st = "ONLINE" /\ ~busy /\ q # <<>>
  <2>1. inflight' = TRUE /\ SendToNetwork(Head(q)) /\ Head(q) \in Command
    BY <1>1 DEF Pump
  <2>2. net = "open" /\ port = connPort => inbox' # <<>>
    BY <2>1, NonEmptyAppend DEF SendToNetwork, WireTypeOK
  <2>3. port # connPort => misdirected'
    BY <2>1 DEF SendToNetwork
  <2>4. QED BY <1>1, <2>1, <2>2, <2>3
<1>2. CASE st # "ONLINE" \/ busy \/ q = <<>>
  <2>1. queue' = q /\ inflight' = busy /\ UNCHANGED <<inbox, misdirected>>
    BY <1>2 DEF Pump
  <2>2. QED BY <1>2, <2>1
<1>3. QED BY <1>1, <1>2 DEF Pump

(* While the machine believes it is ONLINE on a link that is not open, the *)
(* OFFLINE that will free the slot is pending.                             *)
LEMMA DeadLinkIsReported ==
    ASSUME LinkInv, state = "ONLINE", net # "open"
    PROVE  "OFFLINE" \in ToSet(notices)
  BY DEF LinkInv, NeverStranded, TimerOnlyWhileOffline, NoticesTellTheLink

(* Every step keeps the facts about the slot.                              *)
LEMMA SlotInvStep ==
    ASSUME WireTypeOK, LinkInv, LinkInv', SlotInv, [WireNext]_wireVars
    PROVE  SlotInv'
<1> USE DEF SlotInv, NoIdleQueue, SlotWillBeReleased,
            csm, link, device
<1>1. CASE LateInit
  BY <1>1 DEF LateInit, StartConnection, LinkInv, NoticesTellTheLink
<1>2. CASE DriverDestroyed
  BY <1>2 DEF DriverDestroyed
<1>3. CASE StatusOnline
  <2>1. CASE state = "ONLINE"
    <3>1. /\ UNCHANGED <<state, queue, inflight, inbox, stream, misdirected>>
          /\ notices # <<>> /\ Head(notices) = "ONLINE" /\ notices' = Tail(notices)
      BY <1>3, <2>1 DEF StatusOnline
    <3>2. QED BY <3>1, NoticeDelivered
  <2>2. CASE state # "ONLINE"
    <3>1. /\ Pump("ONLINE", PrependInitSequence(queue), FALSE)
          /\ state' = "ONLINE" /\ net' = net
      BY <1>3, <2>2 DEF StatusOnline
    <3>2. INIT_SEQUENCE \o queue \in Seq(Command)
      BY InitCommands DEF WireTypeOK
    <3>3. /\ queue' # <<>> => inflight'
          /\ inflight' => inbox' # <<>> \/ net # "open" \/ misdirected'
      BY <3>1, <3>2, PumpTakesTheSlot
    <3>4. net' # "open" => "OFFLINE" \in ToSet(notices')
      BY <3>1, DeadLinkIsReported
         DEF LinkInv, NeverStranded, TimerOnlyWhileOffline, NoticesTellTheLink
    <3>5. QED BY <3>1, <3>3, <3>4
  <2>3. QED BY <2>1, <2>2
<1>4. CASE StatusOffline
  BY <1>4 DEF StatusOffline
<1>5. CASE ReconnectTimerFires
  BY <1>5 DEF ReconnectTimerFires, StartConnection, LinkInv, TimerOnlyWhileOffline
<1>6. ASSUME NEW n \in 0 .. Len(stream), OnReceived(n)
      PROVE  SlotInv'
  <2>1. /\ Pump(state, queue, inflight /\ n = 0) /\ net = "open"
        /\ UNCHANGED <<state, net, notices>> /\ queue \in Seq(Command)
    BY <1>6 DEF OnReceived, WireTypeOK
  <2>2. CASE inflight /\ n = 0
    <3>1. /\ (inflight /\ n = 0) \in BOOLEAN
          /\ state = "ONLINE"
      BY <2>2
    <3>2. inflight' /\ UNCHANGED <<inbox, misdirected>>
      BY <2>1, <2>2, <3>1, PumpTakesTheSlot
    <3>3. stream' = stream
      BY <1>6, <2>2 DEF OnReceived, WireTypeOK
    <3>4. QED BY <2>1, <2>2, <3>1, <3>2, <3>3
  <2>3. CASE ~(inflight /\ n = 0)
    <3>1. Pump(state, queue, FALSE)
      BY <2>1, <2>3
    <3>2. /\ state = "ONLINE" /\ queue' # <<>> => inflight'
          /\ inflight' => state = "ONLINE" /\ (inbox' # <<>> \/ misdirected')
      BY <2>1, <3>1, PumpTakesTheSlot
    <3>3. QED BY <2>1, <3>2
  <2>4. QED BY <2>2, <2>3
<1>7. ASSUME NEW cmd \in Command, Send(cmd)
      PROVE  SlotInv'
  <2>1. /\ Pump(state, Append(queue, cmd), inflight)
        /\ UNCHANGED <<state, net, notices, stream>>
    BY <1>7 DEF Send
  <2>2. Append(queue, cmd) \in Seq(Command) /\ inflight \in BOOLEAN
    BY DEF WireTypeOK
  <2>3. /\ state = "ONLINE" /\ queue' # <<>> => inflight'
        /\ inflight' /\ ~inflight =>
               state = "ONLINE" /\ (inbox' # <<>> \/ net # "open" \/ misdirected')
        /\ inflight => UNCHANGED <<inbox, misdirected>> /\ inflight'
    BY <2>1, <2>2, PumpTakesTheSlot
  <2>4. QED BY <2>1, <2>3, DeadLinkIsReported
<1>10. ASSUME NEW h \in Hosts, SetHost(h)
       PROVE  SlotInv'
  BY <1>10 DEF SetHost
<1>11. ASSUME NEW p \in Ports, SetPort(p)
       PROVE  SlotInv'
  BY <1>11 DEF SetPort
<1>12. CASE NetOpens
  <2>1. UNCHANGED <<state, queue, inflight>> /\ net = "opening"
        /\ notices' = Append(notices, "ONLINE")
    BY <1>12 DEF NetOpens
  <2>2. ToSet(notices') = ToSet(notices) \cup {"ONLINE"}
    BY <2>1, NoticeAdded DEF Notice
  <2>3. QED BY <2>1, <2>2, DeadLinkIsReported
<1>13. CASE NetFails
  <2>1. UNCHANGED <<state, queue, inflight, inbox, stream, misdirected>>
        /\ notices' = Append(notices, "OFFLINE")
    BY <1>13 DEF NetFails
  <2>2. ToSet(notices') = ToSet(notices) \cup {"OFFLINE"}
    BY <2>1, NoticeAdded DEF Notice
  <2>3. QED BY <2>1, <2>2
<1>14. CASE NetDrops
  <2>1. UNCHANGED <<state, queue, inflight>>
        /\ notices' = Append(notices, "OFFLINE")
    BY <1>14 DEF NetDrops
  <2>2. ToSet(notices') = ToSet(notices) \cup {"OFFLINE"}
    BY <2>1, NoticeAdded DEF Notice
  <2>3. QED BY <2>1, <2>2
<1>15. CASE NetReportsOfflineAgain
  BY <1>15 DEF NetReportsOfflineAgain
<1>16. CASE DeviceStep
  <2>1. PICK reply \in Replies[Head(inbox)] : DeviceAnswers(reply)
    BY <1>16 DEF DeviceStep
  <2>2. Head(inbox) \in Command /\ stream \in Seq(Line)
    BY <1>16 DEF DeviceStep, WireTypeOK
  <2>3. reply \in Seq(Line) /\ reply # <<>>
    BY <2>2, RepliesAssumption
  <2>4. stream \o reply # <<>>
    BY <2>2, <2>3, ConcatSimplifications
  <2>5. UNCHANGED <<state, queue, inflight, notices, misdirected>> /\ stream' # <<>>
    BY <2>1, <2>4 DEF DeviceAnswers
  <2>6. QED BY <2>5
<1>17. CASE UNCHANGED wireVars
  BY <1>17 DEF wireVars
<1>18. QED
  BY <1>1, <1>2, <1>3, <1>4, <1>5, <1>6, <1>7, <1>10, <1>11, <1>12, <1>13,
     <1>14, <1>15, <1>16, <1>17, InitCommands
     DEF WireNext

-----------------------------------------------------------------------------
(* Together they hold throughout, whoever uses the connection.             *)
WireInv == WireTypeOK /\ LinkInv /\ SlotInv

(* It holds from the start and no step breaks it.                          *)
LEMMA WireIsSound == WireSpec => []WireInv
<1>1. WireInit => WireInv
  BY WireTypeStarts
  DEF WireInit, WireInv, LinkInv, SlotInv, NeverStranded, TimerOnlyWhileOffline,
      NoticesTellTheLink, NoIdleQueue, SlotWillBeReleased
<1>2. WireInv /\ [WireNext]_wireVars => WireInv'
  BY WireTypeStep, LinkInvStep, SlotInvStep DEF WireInv
<1>3. QED BY <1>1, <1>2, PTL DEF WireSpec

(* What the invariant says of the reconnect loop, the slot and the queue.  *)
LEMMA WireInvSays ==
    WireInv => /\ NeverStranded /\ TimerOnlyWhileOffline
               /\ NoIdleQueue /\ SlotWillBeReleased
  BY DEF WireInv, LinkInv, SlotInv

(* C4Connection on its own is a use of the connection.                     *)
LEMMA ConnStepIsWireStep == [ConnNext]_connVars => [WireNext]_wireVars
<1>1. StatusCommand \in Command /\ UserCommands \subseteq Command
  BY InitCommands DEF Command
<1>2. QED
  BY <1>1
  DEF ConnNext, Callback, Request, Environment, RefreshMatrixState, WireNext, connVars

(* So what holds of any use holds of it.                                   *)
LEMMA ConnUsesTheWire == ConnSpec => WireSpec
<1>1. ConnInit => WireInit
  BY DEF ConnInit
<1>2. QED BY <1>1, ConnStepIsWireStep, PTL DEF ConnSpec, WireSpec

(* Every variable keeps its type.                                          *)
THEOREM ConnTypeCorrect == ConnSpec => []ConnTypeOK
<1> DEFINE Counts == events \in [EventKind -> Nat]
<1>1. ConnInit => Counts
  BY DEF ConnInit
<1>2. Counts /\ [ConnNext]_connVars => Counts'
  <2> SUFFICES ASSUME Counts, [ConnNext]_connVars PROVE Counts'
    OBVIOUS
  <2>1. ASSUME NEW kind \in EventKind, Counted(kind) PROVE Counts'
    BY <2>1 DEF Counted
  <2>2. CASE UNCHANGED events
    BY <2>2
  <2>3. QED
    BY <2>1, <2>2 DEF ConnNext, Callback, Request, Environment, EventKind, connVars
<1>3. ConnSpec => []Counts
  BY <1>1, <1>2, PTL DEF ConnSpec
<1>4. WireInv /\ Counts => ConnTypeOK
  BY DEF WireInv, ConnTypeOK
<1>5. QED BY <1>3, <1>4, ConnUsesTheWire, WireIsSound, PTL

(* The reconnect loop is never lost, for any number of drops and failures  *)
(* (connection.lua:183-248).                                               *)
THEOREM ReconnectLoopSurvives == ConnSpec => []NeverStranded
  BY ConnUsesTheWire, WireIsSound, WireInvSays, PTL

(* At most one path leads back ONLINE, and none once the driver is         *)
(* unloaded (connection.lua:154-201, driver.lua:190-202).                  *)
THEOREM OnePathBackOnline == ConnSpec => []TimerOnlyWhileOffline
  BY ConnUsesTheWire, WireIsSound, WireInvSays, PTL

(* No command waits behind a free slot (connection.lua:138-146).           *)
THEOREM QueueKeepsMoving == ConnSpec => []NoIdleQueue
  BY ConnUsesTheWire, WireIsSound, WireInvSays, PTL

(* A taken slot is owed a release (connection.lua:183-216).                *)
THEOREM SlotIsOwedARelease == ConnSpec => []SlotWillBeReleased
  BY ConnUsesTheWire, WireIsSound, WireInvSays, PTL

-----------------------------------------------------------------------------
(* While ONLINE the index is at its start, so a repeated ONLINE finds it   *)
(* there.                                                                  *)
BackoffInv == state = "ONLINE" => reconnectIdx = 0

LEMMA BackoffInvStep ==
    ASSUME BackoffInv, [WireNext]_wireVars PROVE BackoffInv'
<1>1. CASE StatusOnline
  BY <1>1 DEF BackoffInv, StatusOnline, csm
<1>2. CASE state' = "OFFLINE" \/ state' = "CONNECTING"
  BY <1>2 DEF BackoffInv
<1>3. CASE UNCHANGED <<state, reconnectIdx>>
  BY <1>3 DEF BackoffInv
<1>4. QED
  BY <1>1, <1>2, <1>3
  DEF WireNext, LateInit, DriverDestroyed, StatusOffline, ReconnectTimerFires,
      StartConnection, OnReceived, Send, SetHost, SetPort, NetOpens, NetFails,
      NetDrops, NetReportsOfflineAgain, DeviceStep, DeviceAnswers, wireVars, csm

(* A notice is heard by its handler, and in no other way.                  *)
LEMMA HeardByItsHandler ==
    ASSUME WireTypeOK, [WireNext]_wireVars, NEW e \in Notice, Hears(e)
    PROVE  (StatusOnline /\ e = "ONLINE") \/ (StatusOffline /\ e = "OFFLINE")
<1>1. /\ notices \in Seq(Notice) /\ notices # <<>>
      /\ notices' = Tail(notices) /\ Head(notices) = e /\ ~destroyed'
  BY DEF Hears, WireTypeOK, Notice
<1>2. Len(Tail(notices)) = Len(notices) - 1 /\ Len(notices) \in Nat
  BY <1>1
<1>3. notices' # notices
  <2>1. notices' = notices => Len(Tail(notices)) = Len(notices)
    BY <1>1, Zenon
  <2>2. QED BY <2>1, <1>2
<1>4. ASSUME NEW x \in Notice PROVE notices' # Append(notices, x)
  <2>1. Len(Append(notices, x)) = Len(notices) + 1
    BY <1>1
  <2>2. notices' = Append(notices, x) => Len(Tail(notices)) = Len(Append(notices, x))
    BY <1>1, Zenon
  <2>3. QED BY <2>1, <2>2, <1>2
<1>5. ~(NetOpens \/ NetFails \/ NetDrops)
  BY <1>4 DEF NetOpens, NetFails, NetDrops, Notice
<1>6. ~(DriverDestroyed \/ NetReportsOfflineAgain)
  BY <1>1 DEF DriverDestroyed, NetReportsOfflineAgain
<1>7. StatusOnline \/ StatusOffline
  BY <1>3, <1>5, <1>6
  DEF WireNext, LateInit, ReconnectTimerFires, OnReceived, Send, SetHost, SetPort,
      DeviceStep, DeviceAnswers, wireVars, link
<1>8. QED
  BY <1>1, <1>7 DEF StatusOnline, StatusOffline

(* So in any use of the connection the backoff follows the link.           *)
LEMMA BackoffStep ==
    ASSUME WireTypeOK, BackoffInv, [WireNext]_wireVars
    PROVE  BackoffMove
<1>1. reconnectIdx \in 0 .. 5 /\ Len(BACKOFF_SCHEDULE_MS) = 5
  BY BackoffLength DEF WireTypeOK
<1>2. ASSUME Hears("OFFLINE")
      PROVE  \/ reconnectIdx' = reconnectIdx + 1
             \/ /\ reconnectIdx = Len(BACKOFF_SCHEDULE_MS)
                /\ reconnectIdx' = reconnectIdx
  <2>1. StatusOffline
    BY <1>2, HeardByItsHandler DEF Notice
  <2>2. QED BY <1>1, <2>1 DEF StatusOffline
<1>3. ASSUME Hears("ONLINE") PROVE reconnectIdx' = 0
  <2>1. StatusOnline
    BY <1>3, HeardByItsHandler DEF Notice
  <2>2. QED BY <2>1 DEF StatusOnline, BackoffInv, csm
<1>4. ASSUME reconnectIdx' # reconnectIdx
      PROVE  Hears("ONLINE") \/ Hears("OFFLINE")
  <2>1. StatusOnline \/ StatusOffline
    BY <1>4
    DEF WireNext, LateInit, DriverDestroyed, ReconnectTimerFires, StartConnection,
        OnReceived, Send, SetHost, SetPort, NetOpens, NetFails, NetDrops,
        NetReportsOfflineAgain, DeviceStep, DeviceAnswers, wireVars, csm
  <2>2. QED BY <1>4, <2>1 DEF StatusOnline, StatusOffline, Hears, csm
<1>5. QED BY <1>2, <1>3, <1>4 DEF BackoffMove

LEMMA WireBacksOff == WireSpec => BackoffFollowsTheLink
<1>1. WireInit => BackoffInv
  BY DEF WireInit, BackoffInv
<1>2. BackoffInv /\ [WireNext]_wireVars => BackoffInv'
  BY BackoffInvStep
<1>3. WireInv /\ BackoffInv /\ [WireNext]_wireVars => [BackoffMove]_connVars
  BY BackoffStep DEF WireInv
<1>4. QED BY <1>1, <1>2, <1>3, WireIsSound, PTL DEF WireSpec, BackoffFollowsTheLink

(* The index moves with the reports of the link, one step at a time up to  *)
(* the last, back to the first when the link is up (connection.lua:186,    *)
(* 236-240).                                                               *)
THEOREM BackoffReset == ConnSpec => BackoffFollowsTheLink
  BY ConnUsesTheWire, WireBacksOff, PTL

-----------------------------------------------------------------------------
(* _pump either writes the head of the queue it was run with or stores     *)
(* that queue.                                                             *)
LEMMA PumpWrites ==
    ASSUME NEW st, NEW q, NEW busy, Pump(st, q, busy)
    PROVE  Fifo!WriteFrom(q) \/ (queue' = q /\ lastWrite' = lastWrite)
  BY DEF Pump, SendToNetwork, Fifo!WriteFrom

(* On a link that is up, with the slot free, it does write.                *)
LEMMA PumpOnlineWrites ==
    ASSUME NEW q, q # <<>>, Pump("ONLINE", q, FALSE)
    PROVE  Fifo!WriteFrom(q)
  BY DEF Pump, SendToNetwork, Fifo!WriteFrom

(* Every step of the machine is a step of the FIFO or leaves it alone.     *)
LEMMA FifoStep ==
    ASSUME WireTypeOK, [WireNext]_wireVars
    PROVE  [Fifo!FifoNext]_(Fifo!fifoVars)
<1> USE DEF Fifo!FifoNext, Fifo!fifoVars
<1>1. CASE StatusOnline
  <2>1. CASE state = "ONLINE"
    BY <1>1, <2>1 DEF StatusOnline, csm
  <2>2. CASE state # "ONLINE"
    <3>1. Pump("ONLINE", PrependInitSequence(queue), FALSE)
      BY <1>1, <2>2 DEF StatusOnline
    <3>2. INIT_SEQUENCE \o queue # <<>>
      BY InitCommands, ConcatProperties DEF WireTypeOK
    <3>3. Fifo!WriteFrom(INIT_SEQUENCE \o queue)
      BY <3>1, <3>2, PumpOnlineWrites, Zenon
    <3>4. QED BY <3>3 DEF Fifo!Greet
  <2>3. QED BY <2>1, <2>2
<1>2. ASSUME NEW n \in 0 .. Len(stream), OnReceived(n)
      PROVE  [Fifo!FifoNext]_(Fifo!fifoVars)
  <2>1. Pump(state, queue, inflight /\ n = 0)
    BY <1>2 DEF OnReceived
  <2>2. Fifo!WriteFrom(queue) \/ (queue' = queue /\ lastWrite' = lastWrite)
    BY <2>1, PumpWrites, Zenon
  <2>3. QED BY <2>2 DEF Fifo!Write
<1>3. ASSUME NEW cmd \in Command, Send(cmd)
      PROVE  [Fifo!FifoNext]_(Fifo!fifoVars)
  <2>1. Pump(state, Append(queue, cmd), inflight)
    BY <1>3 DEF Send
  <2>2. \/ Fifo!WriteFrom(Append(queue, cmd))
        \/ queue' = Append(queue, cmd) /\ lastWrite' = lastWrite
    BY <2>1, PumpWrites, Zenon
  <2>3. QED BY <2>2 DEF Fifo!Accept, Fifo!AcceptAndWrite
<1>4. CASE \/ LateInit \/ StatusOffline \/ ReconnectTimerFires \/ DriverDestroyed
           \/ NetOpens \/ NetFails \/ NetDrops \/ NetReportsOfflineAgain
           \/ DeviceStep \/ UNCHANGED wireVars
           \/ \E h \in Hosts : SetHost(h)
           \/ \E p \in Ports : SetPort(p)
  <2>1. UNCHANGED <<queue, lastWrite>>
    BY <1>4 DEF LateInit, StatusOffline, ReconnectTimerFires, DriverDestroyed,
                NetOpens, NetFails, NetDrops, NetReportsOfflineAgain, DeviceStep,
                DeviceAnswers, SetHost, SetPort, csm, wireVars
  <2>2. QED BY <2>1
<1>5. QED
  BY <1>1, <1>2, <1>3, <1>4, InitCommands
     DEF WireNext

(* Whoever uses the connection, its queue is the FIFO.                      *)
LEMMA WireIsFifo == WireSpec => IsFifo
<1>1. WireInit => Fifo!FifoInit
  BY DEF WireInit, Fifo!FifoInit
<1>2. WireInv /\ [WireNext]_wireVars => [Fifo!FifoNext]_(Fifo!fifoVars)
  BY FifoStep DEF WireInv
<1>3. QED BY <1>1, <1>2, WireIsSound, PTL DEF WireSpec, IsFifo, Fifo!FifoSpec

(* The connection implements the FIFO its callers rely on.                 *)
THEOREM ConnectionIsFifo == ConnSpec => IsFifo
  BY ConnUsesTheWire, WireIsFifo, PTL
=============================================================================
