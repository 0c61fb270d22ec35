------------------------ MODULE DeviceSession_proofs ------------------------
(***************************************************************************)
(* Proofs about the device session, for any set of commanding tasks, any   *)
(* cutting of the stream and any bounds.                                   *)
(***************************************************************************)
EXTENDS DeviceSession, SequenceTheorems, FiniteSetTheorems, NaturalsInduction,
        WellFoundedInduction, TLAPS

PcType == pc \in [Tasks -> {"idle", "opening", "discarding",
                            "waiting", "draining", "reading", "straying"}]

\* Whoever has a transaction on the wire holds the lock.
HolderInv == \A t \in Tasks : OnTheWire(t) => lock = t

\* The life of the entry: nobody commands before the first refresh is through,
\* connections are opened only until then, and from then on the device counts
\* as connected until it is unloaded.
LifeInv ==
    /\ entry = "setup" => \A t \in Users : pc[t] = "idle"
    /\ \A t \in Users : pc[t] \notin {"opening", "discarding"}
    /\ pc[Poller] \in {"opening", "discarding"} => entry = "setup"
    /\ entry = "setup" /\ (pc[Poller] = "waiting" \/ OnTheWire(Poller))
           => devConnected
    /\ entry = "loaded" => devConnected

ReaderInv ==
    /\ PcType
    /\ HolderInv
    /\ LifeInv

-----------------------------------------------------------------------------
(* What the invariant says of readers.                                     *)
LEMMA OneReaderFromInv == ReaderInv => OneReader
<1> SUFFICES ASSUME ReaderInv, NEW t \in Tasks, NEW u \in Tasks,
                    pc[t] = "discarding" \/ OnTheWire(t),
                    pc[u] = "discarding" \/ OnTheWire(u)
             PROVE  t = u
  BY DEF OneReader
<1>1. ASSUME NEW v \in Tasks, NEW w \in Tasks, pc[v] = "discarding", pc[w] # "idle"
      PROVE  v = Poller /\ w = Poller
  BY <1>1 DEF ReaderInv, LifeInv, Tasks
<1>2. CASE OnTheWire(t) /\ OnTheWire(u)
  BY <1>2 DEF ReaderInv, HolderInv
<1>3. CASE ~OnTheWire(t) \/ ~OnTheWire(u)
  BY <1>1, <1>3 DEF OnTheWire
<1>4. QED BY <1>2, <1>3

(* The lock moves only from a task whose transaction is over, so whoever   *)
(* else is on the wire would have to hold it too.                          *)
LEMMA HolderStep ==
    ASSUME ReaderInv, [SessionNext]_sessionVars
    PROVE  HolderInv'
<1> USE DEF ReaderInv, HolderInv, OnTheWire, PcType
<1>1. ASSUME NEW t \in Tasks, Enters(t) PROVE HolderInv'
  BY <1>1, SessionAssumption DEF Enters
<1>2. ASSUME NEW t \in Tasks, NEW r, lock = t, Ends(t, r) PROVE HolderInv'
  BY <1>2 DEF Ends, Release
<1>3. ASSUME NEW t \in Tasks, ~OnTheWire(t), FailsOutside(t) PROVE HolderInv'
  BY <1>3 DEF FailsOutside
<1>4. ASSUME UNCHANGED <<lock, pc>> PROVE HolderInv'
  BY <1>4
<1>12. ASSUME NEW t \in Tasks, NEW c, NEW then, pc[t] = "draining", Writes(t, c, then)
      PROVE  HolderInv'
  <2>1. lock = t
    BY <1>12
  <2>2. CASE pc' = [pc EXCEPT ![t] = then] /\ UNCHANGED lock
    BY <2>1, <2>2
  <2>3. QED BY <1>12, <2>1, <2>2, <1>2 DEF Writes
<1>5. CASE PollStarts
  <2>1. Poller \in Tasks
    BY DEF Tasks
  <2>2. CASE Enters(Poller)
    BY <1>1, <2>1, <2>2
  <2>3. CASE FailsOutside(Poller)
    BY <1>5, <1>3, <2>1, <2>3 DEF PollStarts
  <2>4. CASE pc' = [pc EXCEPT ![Poller] = "opening"] /\ UNCHANGED lock
    BY <2>1, <2>4
  <2>5. QED BY <1>5, <2>2, <2>3, <2>4 DEF PollStarts
<1>6. ASSUME NEW t \in Users, CommandStarts(t) PROVE HolderInv'
  BY <1>6, <1>1, <1>3 DEF CommandStarts, Tasks
<1>7. ASSUME NEW t \in Tasks, TaskStep(t) PROVE HolderInv'
  <2>1. CASE Acquires(t)
    <3>1. CASE Ends(t, "failed")
      BY <2>1, <3>1, <1>2 DEF Acquires
    <3>2. CASE pc' = [pc EXCEPT ![t] = "draining"] /\ UNCHANGED lock
      BY <2>1, <3>2 DEF Acquires
    <3>3. QED BY <2>1, <3>1, <3>2 DEF Acquires
  <2>2. CASE DrainReads(t)
    BY <2>2, <1>4 DEF DrainReads, calls
  <2>3. CASE DrainEnds(t)
    <3>1. pc[t] = "draining" /\ Writes(t, CommandOf(t), "reading")
      BY <2>3 DEF DrainEnds
    <3>2. QED BY <3>1, <1>12
  <2>4. ASSUME NEW n \in 1 .. Len(inbound), ReadChunk(t, n) PROVE HolderInv'
    <3>1. lock = t
      BY <2>4 DEF ReadChunk, Reading
    <3>2. UNCHANGED <<lock, pc>> \/ Ends(t, "ok") \/ Ends(t, "cancelled")
      BY <2>4 DEF ReadChunk
    <3>3. QED BY <3>1, <3>2, <1>2, <1>4
  <2>5. CASE ReadFails(t)
    BY <2>5, <1>2 DEF ReadFails, Reading
  <2>6. CASE ReadTimesOut(t)
    BY <2>6, <1>2 DEF ReadTimesOut, Reading
  <2>7. QED BY <1>7, <2>1, <2>2, <2>3, <2>4, <2>5, <2>6 DEF TaskStep
<1>8. CASE ConnectStep
  <2>1. Poller \in Tasks
    BY DEF Tasks
  <2>2. CASE Opens
    BY <2>1, <2>2 DEF Opens
  <2>3. CASE Refused
    BY <2>1, <2>3, <1>3 DEF Refused
  <2>4. ASSUME NEW n \in 1 .. Len(inbound), DiscardReads(n) PROVE HolderInv'
    BY <2>4, <1>4 DEF DiscardReads
  <2>5. CASE DiscardEnds
    BY <2>1, <2>5, <1>1, <1>3 DEF DiscardEnds
  <2>6. QED BY <1>8, <2>2, <2>3, <2>4, <2>5 DEF ConnectStep
<1>9. CASE SetsUpAgain \/ UnloadStarts \/ UnloadEnds \/ MatrixStep \/ Broadcast
           \/ LinkGoes \/ UNCHANGED sessionVars
  BY <1>9, <1>4 DEF SetsUpAgain, UnloadStarts, UnloadEnds, MatrixStep, MatrixTakes,
     MatrixSends, Broadcast, LinkGoes, sessionVars, calls
<1>10. ASSUME NEW t \in Users, Cancelled(t) PROVE HolderInv'
  <2>1. CASE pc[t] = "waiting" /\ pc' = [pc EXCEPT ![t] = "idle"] /\ UNCHANGED lock
    BY <2>1 DEF Tasks
  <2>2. CASE pc[t] = "waiting" /\ lock = t /\ Ends(t, "failed")
    BY <2>2, <1>2 DEF Tasks
  <2>3. CASE Reading(t) /\ Ends(t, "failed")
    BY <2>3, <1>2 DEF Tasks, Reading
  <2>4. QED BY <1>10, <2>1, <2>2, <2>3 DEF Cancelled
<1>13. ASSUME NEW t \in Users, DrainCancelled(t) PROVE HolderInv'
  BY <1>13, <1>12 DEF DrainCancelled, Tasks
<1>11. QED BY <1>5, <1>6, <1>7, <1>8, <1>9, <1>10, <1>13 DEF SessionNext

(* A task that takes a step keeps to its own program counter.              *)
LEMMA PcMoves ==
    ASSUME ReaderInv, NEW t \in Tasks, NEW r,
           Enters(t) \/ Ends(t, r) \/ FailsOutside(t)
    PROVE  /\ \A u \in Tasks \ {t} : pc'[u] = pc[u]
           /\ pc'[t] \in {"draining", "waiting", "idle"}
           /\ PcType'
  BY DEF Enters, Ends, FailsOutside, ReaderInv, PcType

(* Calls end or go on without leaving the life of the entry.               *)
LEMMA LifeStep ==
    ASSUME ReaderInv, [SessionNext]_sessionVars
    PROVE  LifeInv' /\ PcType'
<1> USE DEF ReaderInv, LifeInv
<1>0. Poller \in Tasks /\ Users \subseteq Tasks /\ Poller \notin Users
  BY SessionAssumption DEF Tasks
<1>1. ASSUME NEW t \in Tasks, NEW r, Enters(t) \/ Ends(t, r) \/ FailsOutside(t),
             entry' = entry, entry = "setup" => t = Poller,
             entry # "setup" => devConnected' = devConnected,
             entry = "setup" => devConnected' \/ pc'[Poller] = "idle"
      PROVE  LifeInv' /\ PcType'
  <2>1. /\ \A u \in Tasks \ {t} : pc'[u] = pc[u]
        /\ pc'[t] \in {"draining", "waiting", "idle"}
        /\ PcType'
    BY <1>1, PcMoves, Zenon
  <2>2. LifeInv'
    BY <1>0, <1>1, <2>1 DEF OnTheWire
  <2>3. QED BY <2>1, <2>2
<1>2. ASSUME UNCHANGED <<pc, devConnected, entry>> PROVE LifeInv' /\ PcType'
  BY <1>2 DEF PcType, OnTheWire
<1>3. CASE PollStarts
  <2>1. entry \in {"setup", "loaded"} /\ entry' = entry /\ pc[Poller] = "idle"
    BY <1>3 DEF PollStarts
  <2>2. CASE Enters(Poller) /\ devConnected'
    BY <1>0, <1>1, <2>1, <2>2
  <2>3. CASE FailsOutside(Poller) /\ UNCHANGED devConnected
    <3>1. pc'[Poller] = "idle"
      BY <1>0, <2>3 DEF FailsOutside, PcType
    <3>2. QED BY <1>0, <1>1, <2>1, <2>3, <3>1
  <2>4. CASE ~devConnected /\ UNCHANGED devConnected
             /\ pc' = [pc EXCEPT ![Poller] = "opening"]
    BY <1>0, <2>1, <2>4 DEF PcType, OnTheWire
  <2>5. devConnected' \/ UNCHANGED devConnected
    BY <1>3 DEF PollStarts
  <2>6. QED BY <1>3, <2>2, <2>3, <2>4, <2>5 DEF PollStarts, IsConnected
<1>4. ASSUME NEW t \in Users, CommandStarts(t) PROVE LifeInv' /\ PcType'
  <2>1. /\ entry = "loaded" /\ UNCHANGED <<entry, devConnected>>
        /\ Enters(t) \/ FailsOutside(t)
    BY <1>4 DEF CommandStarts
  <2>2. QED BY <1>0, <1>1, <2>1
<1>5. ASSUME NEW t \in Tasks, TaskStep(t) PROVE LifeInv' /\ PcType'
  <2>1. (pc[t] = "waiting" \/ OnTheWire(t)) /\ UNCHANGED devConnected
    BY <1>5 DEF TaskStep, Acquires, DrainReads, DrainEnds, ReadChunk, ReadFails,
       ReadTimesOut, Reading, OnTheWire, library
  <2>2. entry = "setup" => t = Poller /\ devConnected'
    BY <2>1 DEF Tasks, OnTheWire
  <2>3. ASSUME NEW r, Ends(t, r), entry' = entry PROVE LifeInv' /\ PcType'
    BY <1>1, <2>1, <2>2, <2>3
  <2>4. CASE Acquires(t)
    <3>1. CASE pc' = [pc EXCEPT ![t] = "draining"] /\ UNCHANGED entry
      BY <1>0, <2>1, <2>2, <3>1 DEF PcType, OnTheWire
    <3>2. QED BY <2>4, <2>3, <3>1 DEF Acquires
  <2>5. CASE DrainReads(t)
    BY <2>5, <1>2 DEF DrainReads, library, calls
  <2>6. CASE DrainEnds(t)
    <3>1. CASE pc' = [pc EXCEPT ![t] = "reading"] /\ UNCHANGED entry
      BY <1>0, <2>1, <2>2, <3>1 DEF PcType, OnTheWire
    <3>2. QED BY <2>6, <2>3, <3>1 DEF DrainEnds, Writes
  <2>7. ASSUME NEW n \in 1 .. Len(inbound), ReadChunk(t, n)
        PROVE  LifeInv' /\ PcType'
    <3>1. CASE UNCHANGED <<pc, entry>>
      BY <1>2, <2>1, <3>1
    <3>2. ASSUME NEW r, Ends(t, r), UNCHANGED entry PROVE LifeInv' /\ PcType'
      BY <2>3, <3>2
    <3>3. ASSUME NEW r, Ends(t, r), t = Poller, entry = "setup", entry' = "loaded"
          PROVE  LifeInv' /\ PcType'
      <4>1. /\ \A u \in Tasks \ {t} : pc'[u] = pc[u]
            /\ pc'[t] = "idle" /\ PcType'
        BY <3>3 DEF Ends, PcType
      <4>2. QED BY <1>0, <2>2, <3>3, <4>1
    <3>4. QED BY <2>7, <3>1, <3>2, <3>3 DEF ReadChunk
  <2>8. CASE ReadFails(t)
    BY <2>8, <2>3 DEF ReadFails
  <2>9. CASE ReadTimesOut(t)
    BY <2>9, <2>3 DEF ReadTimesOut
  <2>10. QED BY <1>5, <2>4, <2>5, <2>6, <2>7, <2>8, <2>9 DEF TaskStep
<1>6. CASE ConnectStep
  <2>1. pc[Poller] \in {"opening", "discarding"} /\ entry = "setup" /\ entry' = entry
    BY <1>6 DEF ConnectStep, Opens, Refused, DiscardReads, DiscardEnds
  <2>2. CASE Opens
    BY <1>0, <2>1, <2>2 DEF Opens, PcType, OnTheWire
  <2>3. CASE FailsOutside(Poller)
    <3>1. pc'[Poller] = "idle"
      BY <1>0, <2>3 DEF FailsOutside, PcType
    <3>2. QED BY <1>0, <1>1, <2>1, <2>3, <3>1
  <2>4. CASE Enters(Poller) /\ devConnected'
    BY <1>0, <1>1, <2>1, <2>4
  <2>5. ASSUME NEW n \in 1 .. Len(inbound), DiscardReads(n)
        PROVE  LifeInv' /\ PcType'
    BY <1>2, <2>5 DEF DiscardReads, library
  <2>6. QED BY <1>6, <2>2, <2>3, <2>4, <2>5 DEF ConnectStep, Refused, DiscardEnds
<1>7. CASE SetsUpAgain
  BY <1>0, <1>7 DEF SetsUpAgain, PcType, OnTheWire
<1>8. CASE UnloadStarts \/ UnloadEnds
  BY <1>0, <1>8 DEF UnloadStarts, UnloadEnds, library, calls, PcType,
     OnTheWire
<1>9. CASE MatrixStep \/ Broadcast \/ LinkGoes \/ UNCHANGED sessionVars
  BY <1>9, <1>2 DEF MatrixStep, MatrixTakes, MatrixSends, Broadcast, LinkGoes,
     sessionVars, library, calls
<1>10. ASSUME NEW t \in Users, Cancelled(t) PROVE LifeInv' /\ PcType'
  <2>1. /\ pc[t] = "waiting" \/ Reading(t)
        /\ entry # "setup" /\ UNCHANGED <<devConnected, entry>>
    BY <1>10 DEF Cancelled, Reading, library
  <2>2. CASE Ends(t, "failed")
    BY <1>0, <1>1, <2>1, <2>2
  <2>3. CASE pc' = [pc EXCEPT ![t] = "idle"]
    BY <1>0, <2>1, <2>3 DEF PcType, OnTheWire
  <2>4. QED BY <1>10, <2>2, <2>3 DEF Cancelled
<1>12. ASSUME NEW t \in Users, DrainCancelled(t) PROVE LifeInv' /\ PcType'
  <2>1. pc[t] = "draining" /\ entry # "setup" /\ UNCHANGED <<devConnected, entry>>
    BY <1>12 DEF DrainCancelled
  <2>2. CASE Ends(t, "failed")
    BY <1>0, <1>1, <2>1, <2>2
  <2>3. CASE pc' = [pc EXCEPT ![t] = "straying"]
    BY <1>0, <2>1, <2>3 DEF PcType, OnTheWire
  <2>4. QED BY <1>12, <2>2, <2>3 DEF DrainCancelled, Writes
<1>11. QED BY <1>3, <1>4, <1>5, <1>6, <1>7, <1>8, <1>9, <1>10, <1>12 DEF SessionNext

-----------------------------------------------------------------------------
(* The stream of a session never has two readers: a read under the command *)
(* lock excludes the others, and connect(), which reads the banner without *)
(* the lock, runs only before anybody else may command.                    *)
THEOREM SessionReadsOneAtATime == SessionSpec => []OneReader
<1>1. SessionInit => ReaderInv
  BY SessionAssumption DEF SessionInit, ReaderInv, PcType, HolderInv, LifeInv,
     OnTheWire, Tasks
<1>2. ReaderInv /\ [SessionNext]_sessionVars => ReaderInv'
  BY HolderStep, LifeStep DEF ReaderInv
<1>3. ReaderInv => OneReader
  BY OneReaderFromInv
<1>4. QED BY <1>1, <1>2, <1>3, PTL DEF SessionSpec

-----------------------------------------------------------------------------
\* Lemmas about the queue of the lock and about lines.

(* A task joins the queue of the lock at its end.                          *)
LEMMA ToSetOfAppend ==
    ASSUME NEW S, NEW s \in Seq(S), NEW e \in S
    PROVE  /\ ToSet(Append(s, e)) = ToSet(s) \cup {e}
           /\ IsInjective(s) /\ e \notin ToSet(s) => IsInjective(Append(s, e))
<1> DEFINE a == Append(s, e)
<1>1. /\ a \in Seq(S) /\ Len(a) = Len(s) + 1 /\ Len(s) \in Nat
      /\ \A i \in 1 .. Len(s) : a[i] = s[i]
      /\ a[Len(s) + 1] = e
  BY AppendProperties
<1>2. DOMAIN a = 1 .. Len(s) + 1 /\ DOMAIN s = 1 .. Len(s)
  BY <1>1
<1> HIDE DEF a
<1>3. ToSet(a) \subseteq ToSet(s) \cup {e}
  BY <1>1, <1>2 DEF ToSet
<1>4. ToSet(s) \cup {e} \subseteq ToSet(a)
  BY <1>1, <1>2 DEF ToSet
<1>5. ASSUME IsInjective(s), e \notin ToSet(s) PROVE IsInjective(a)
  <2>1. \A i \in 1 .. Len(s) : s[i] # e
    BY <1>2, <1>5 DEF ToSet
  <2>2. QED BY <1>1, <1>2, <1>5, <2>1 DEF IsInjective
<1>6. QED BY <1>3, <1>4, <1>5 DEF a

(* One that leaves it, from wherever it stands, leaves the others in it.   *)
LEMMA ToSetOfRemoveAt ==
    ASSUME NEW S, NEW s \in Seq(S), NEW k \in DOMAIN s
    PROVE  /\ RemoveAt(s, k) \in Seq(S)
           /\ IsInjective(s) => /\ ToSet(RemoveAt(s, k)) = ToSet(s) \ {s[k]}
                                /\ IsInjective(RemoveAt(s, k))
<1> DEFINE l == SubSeq(s, 1, k - 1)
           r == SubSeq(s, k + 1, Len(s))
           a == RemoveAt(s, k)
<1>1. Len(s) \in Nat /\ DOMAIN s = 1 .. Len(s) /\ k \in 1 .. Len(s)
      /\ \A i \in 1 .. Len(s) : s[i] \in S
  OBVIOUS
<1>2. l \in Seq(S) /\ Len(l) = k - 1 /\ \A i \in 1 .. k - 1 : l[i] = s[i]
  <2>1. k - 1 \in Int /\ 1 \in Int /\ \A i \in 1 .. k - 1 : s[i] \in S
    BY <1>1
  <2>2. /\ l \in Seq(S)
        /\ Len(l) = IF 1 <= k - 1 THEN k - 1 - 1 + 1 ELSE 0
        /\ \A i \in 1 .. k - 1 - 1 + 1 : l[i] = s[1 + i - 1]
    BY <2>1, SubSeqProperties
  <2>3. QED BY <1>1, <2>2
<1>3. r \in Seq(S) /\ Len(r) = Len(s) - k /\ \A i \in 1 .. Len(s) - k : r[i] = s[k + i]
  <2>1. k + 1 \in Int /\ Len(s) \in Int /\ \A i \in k + 1 .. Len(s) : s[i] \in S
    BY <1>1
  <2>2. /\ r \in Seq(S)
        /\ Len(r) = IF k + 1 <= Len(s) THEN Len(s) - (k + 1) + 1 ELSE 0
        /\ \A i \in 1 .. Len(s) - (k + 1) + 1 : r[i] = s[k + 1 + i - 1]
    BY <2>1, SubSeqProperties
  <2>3. Len(r) = Len(s) - k
    BY <1>1, <2>2
  <2>4. ASSUME NEW i \in 1 .. Len(s) - k PROVE r[i] = s[k + i]
    <3>1. i \in 1 .. Len(s) - (k + 1) + 1 /\ k + 1 + i - 1 = k + i
      BY <1>1
    <3>2. QED BY <2>2, <3>1
  <2>5. QED BY <2>2, <2>3, <2>4
<1>4. a = l \o r
  BY DEF RemoveAt
<1> HIDE DEF a, l, r
<1>5. /\ a \in Seq(S) /\ Len(a) = Len(s) - 1
      /\ \A i \in 1 .. Len(s) - 1 : a[i] = IF i < k THEN s[i] ELSE s[i + 1]
  <2>1. /\ a \in Seq(S) /\ Len(a) = k - 1 + (Len(s) - k)
        /\ \A i \in 1 .. (k - 1) + (Len(s) - k) :
              a[i] = IF i <= k - 1 THEN l[i] ELSE r[i - (k - 1)]
    BY <1>2, <1>3, <1>4, ConcatProperties
  <2>2. Len(a) = Len(s) - 1
    BY <1>1, <2>1
  <2>3. ASSUME NEW i \in 1 .. Len(s) - 1 PROVE a[i] = IF i < k THEN s[i] ELSE s[i + 1]
    <3>1. i \in 1 .. (k - 1) + (Len(s) - k)
      BY <1>1
    <3>2. CASE i < k
      <4>1. i <= k - 1 /\ i \in 1 .. k - 1
        BY <1>1, <3>2
      <4>2. QED BY <1>2, <2>1, <3>1, <3>2, <4>1
    <3>3. CASE ~(i < k)
      <4>1. ~(i <= k - 1) /\ i - (k - 1) \in 1 .. Len(s) - k /\ k + (i - (k - 1)) = i + 1
        BY <1>1, <3>3
      <4>2. QED BY <1>3, <2>1, <3>1, <3>3, <4>1
    <3>4. QED BY <3>2, <3>3
  <2>4. QED BY <2>1, <2>2, <2>3
<1>6. DOMAIN a = 1 .. Len(s) - 1
  BY <1>5
<1>7. ASSUME IsInjective(s) PROVE ToSet(a) = ToSet(s) \ {s[k]} /\ IsInjective(a)
  <2>1. ASSUME NEW i \in 1 .. Len(s) - 1 PROVE a[i] \in ToSet(s) /\ a[i] # s[k]
    <3>1. PICK j \in 1 .. Len(s) : j # k /\ a[i] = s[j]
      BY <1>1, <1>5
    <3>2. QED BY <1>1, <1>7, <3>1 DEF ToSet, IsInjective
  <2>2. \A j \in 1 .. Len(s) : j # k => \E i \in 1 .. Len(s) - 1 : a[i] = s[j]
    <3>1. ASSUME NEW j \in 1 .. Len(s), j < k PROVE \E i \in 1 .. Len(s) - 1 : a[i] = s[j]
      BY <1>1, <1>5, <3>1
    <3>2. ASSUME NEW j \in 1 .. Len(s), j > k PROVE \E i \in 1 .. Len(s) - 1 : a[i] = s[j]
      <4>1. j - 1 \in 1 .. Len(s) - 1 /\ ~(j - 1 < k) /\ (j - 1) + 1 = j
        BY <1>1, <3>2
      <4>2. a[j - 1] = s[j]
        BY <1>5, <4>1
      <4>3. QED BY <4>1, <4>2
    <3>3. QED BY <1>1, <3>1, <3>2
  <2>3. ToSet(a) \subseteq ToSet(s) \ {s[k]}
    BY <1>6, <2>1 DEF ToSet
  <2>4. ToSet(s) \ {s[k]} \subseteq ToSet(a)
    BY <1>1, <1>6, <2>2 DEF ToSet
  <2>5. ASSUME NEW i \in 1 .. Len(s) - 1, NEW j \in 1 .. Len(s) - 1, a[i] = a[j]
        PROVE  i = j
    <3>1. CASE i < k /\ j < k
      BY <1>1, <1>5, <1>7, <2>5, <3>1 DEF IsInjective
    <3>2. CASE ~(i < k) /\ ~(j < k)
      <4>1. i + 1 \in DOMAIN s /\ j + 1 \in DOMAIN s /\ s[i + 1] = s[j + 1]
        BY <1>1, <1>5, <2>5, <3>2
      <4>2. i + 1 = j + 1
        BY <1>7, <4>1 DEF IsInjective
      <4>3. QED BY <4>2
    <3>3. CASE i < k /\ ~(j < k)
      <4>1. i \in DOMAIN s /\ j + 1 \in DOMAIN s /\ s[i] = s[j + 1]
        BY <1>1, <1>5, <2>5, <3>3
      <4>2. i = j + 1
        BY <1>7, <4>1 DEF IsInjective
      <4>3. QED BY <3>3, <4>2
    <3>4. CASE ~(i < k) /\ j < k
      <4>1. i + 1 \in DOMAIN s /\ j \in DOMAIN s /\ s[i + 1] = s[j]
        BY <1>1, <1>5, <2>5, <3>4
      <4>2. i + 1 = j
        BY <1>7, <4>1 DEF IsInjective
      <4>3. QED BY <3>4, <4>2
    <3>5. QED BY <3>1, <3>2, <3>3, <3>4
  <2>6. QED BY <1>6, <2>3, <2>4, <2>5 DEF IsInjective
<1>8. QED BY <1>5, <1>7 DEF a

(* The first of the queue, who is handed the lock, leaves it likewise.     *)
LEMMA ToSetOfTail ==
    ASSUME NEW S, NEW s \in Seq(S), s # <<>>, IsInjective(s)
    PROVE  /\ Head(s) \in ToSet(s) /\ Tail(s) \in Seq(S)
           /\ ToSet(Tail(s)) = ToSet(s) \ {Head(s)}
           /\ IsInjective(Tail(s))
<1>1. 1 \in DOMAIN s /\ Head(s) = s[1] /\ Tail(s) \in Seq(S)
  OBVIOUS
<1>2. SubSeq(s, 1, 1 - 1) = <<>>
  BY SubSeqEmpty
<1>3. Tail(s) = SubSeq(s, 2, Len(s)) /\ 1 + 1 = 2
  BY TailIsSubSeq
<1>4. <<>> \o Tail(s) = Tail(s)
  BY <1>1, ConcatEmptySeq
<1>5. RemoveAt(s, 1) = Tail(s)
  BY <1>2, <1>3, <1>4 DEF RemoveAt
<1>6. Head(s) \in ToSet(s)
  BY <1>1 DEF ToSet
<1>7. ToSet(RemoveAt(s, 1)) = ToSet(s) \ {s[1]} /\ IsInjective(RemoveAt(s, 1))
  BY <1>1, ToSetOfRemoveAt
<1>8. QED BY <1>1, <1>5, <1>6, <1>7

(* Among finitely many numbers there is one of every rank.                 *)
LEMMA OneOfEachRank ==
    ASSUME NEW n \in Nat, NEW T, T \subseteq 1 .. n, NEW r \in 1 .. Cardinality(T)
    PROVE  \E k \in T : Cardinality({ m \in T : m <= k }) = r
<1> DEFINE upTo(k) == { m \in T : m <= k }
           far == { k \in 0 .. n : Cardinality(upTo(k)) >= r }
<1>1. IsFiniteSet(1 .. n)
  BY FS_Interval
<1>2. IsFiniteSet(T) /\ Cardinality(T) \in Nat
  BY <1>1, FS_Subset, FS_CardinalityType
<1>3. \A k \in 0 .. n : IsFiniteSet(upTo(k)) /\ Cardinality(upTo(k)) \in Nat
  <2>1. \A k \in 0 .. n : upTo(k) \in SUBSET T
    OBVIOUS
  <2>2. QED BY <1>2, <2>1, FS_Subset, FS_CardinalityType
<1>0. \A m \in T : m \in Nat /\ 1 <= m /\ m <= n
  OBVIOUS
<1>4. /\ \A k \in 0 .. n : k \in far <=> Cardinality(upTo(k)) >= r
      /\ \A k \in far : k \in 0 .. n
  OBVIOUS
<1>5. upTo(n) = T /\ upTo(0) = {}
  <2>1. \A m \in T : m <= n /\ ~(m <= 0)
    BY <1>0
  <2>2. QED BY <2>1, Zenon
<1>6. ASSUME NEW k \in 1 .. n
      PROVE  /\ k \in T => upTo(k) = upTo(k - 1) \cup {k}
             /\ k \notin T => upTo(k) = upTo(k - 1)
  <2>1. \A m \in T : m <= k <=> m <= k - 1 \/ m = k
    BY <1>0
  <2>2. k <= k
    OBVIOUS
  <2>3. QED BY <2>1, <2>2, Zenon
<1>7. \A k \in 1 .. n : k \notin upTo(k - 1)
  OBVIOUS
<1> HIDE DEF upTo, far
<1>8. n \in far
  BY <1>2, <1>4, <1>5
<1>9. PICK k \in far : \A y \in far : ~(y < k)
  <2>1. far \subseteq Nat /\ far # {}
    BY <1>4, <1>8
  <2>2. \E k \in far : \A y \in far : ~(<<y, k>> \in OpToRel(<, Nat))
    BY <2>1, NatLessThanWellFounded, WFMin
  <2>3. PICK k \in far : \A y \in far : ~(<<y, k>> \in OpToRel(<, Nat))
    BY <2>2
  <2>4. \A y \in far : <<y, k>> \in Nat \X Nat
    BY <2>1
  <2>5. \A y \in far : ~(y < k)
    BY <2>3, <2>4 DEF OpToRel
  <2>6. QED BY <2>5
<1>10. k \in 0 .. n /\ Cardinality(upTo(k)) >= r
  BY <1>4, <1>9
<1>11. k \in 1 .. n
  <2>1. Cardinality(upTo(0)) = 0
    BY <1>5, FS_EmptySet
  <2>2. k # 0
    BY <1>2, <1>10, <2>1
  <2>3. QED BY <1>10, <2>2
<1>12. Cardinality(upTo(k - 1)) < r
  <2>1. k - 1 \in 0 .. n /\ k - 1 < k
    BY <1>11
  <2>2. ~(Cardinality(upTo(k - 1)) >= r)
    BY <1>4, <1>9, <2>1
  <2>3. Cardinality(upTo(k - 1)) \in Nat
    BY <1>3, <2>1
  <2>4. QED BY <1>2, <2>2, <2>3
<1>13. k \in T
  <2>1. ASSUME k \notin T PROVE FALSE
    <3>1. upTo(k) = upTo(k - 1)
      BY <1>6, <1>11, <2>1
    <3>2. Cardinality(upTo(k)) \in Nat
      BY <1>3, <1>10
    <3>3. QED BY <1>2, <1>10, <1>12, <3>1, <3>2
  <2>2. QED BY <2>1
<1>14. Cardinality(upTo(k)) = Cardinality(upTo(k - 1)) + 1
  <2>1. upTo(k) = upTo(k - 1) \cup {k} /\ k \notin upTo(k - 1)
    BY <1>6, <1>7, <1>11, <1>13
  <2>2. IsFiniteSet(upTo(k - 1))
    <3>1. k - 1 \in 0 .. n
      BY <1>11
    <3>2. QED BY <1>3, <3>1
  <2>3. QED BY <2>1, <2>2, FS_AddElement
<1>15. Cardinality(upTo(k)) = r
  <2>1. Cardinality(upTo(k - 1)) \in Nat
    <3>1. k - 1 \in 0 .. n
      BY <1>11
    <3>2. QED BY <1>3, <3>1
  <2>2. QED BY <1>2, <1>10, <1>12, <1>14, <2>1
<1>16. QED BY <1>13, <1>15 DEF upTo

\* The lines of a text that are in no whole banner.
Kept(text) == { k \in DOMAIN text : ~InBanner(text, k) }

(* What is left of a text when the banners are stripped is lines of it.    *)
LEMMA StrippedIsText ==
    ASSUME NEW S, NEW text \in Seq(S)
    PROVE  StripBanners(text) \in Seq(S)
<1> DEFINE kept == Kept(text)
           pick(i) == CHOOSE k \in kept : Cardinality({ m \in kept : m <= k }) = i
<1>0. Len(text) \in Nat /\ DOMAIN text = 1 .. Len(text)
  OBVIOUS
<1>1. kept \subseteq 1 .. Len(text) /\ Len(text) \in Nat
  BY <1>0, Zenon DEF Kept
<1>2. Cardinality(kept) \in Nat
  <2>1. IsFiniteSet(1 .. Len(text))
    BY <1>1, FS_Interval
  <2>2. IsFiniteSet(kept)
    BY <1>1, <2>1, FS_Subset, Zenon
  <2>3. QED BY <2>2, FS_CardinalityType, Zenon
<1>3. \A i \in 1 .. Cardinality(kept) :
         \E k \in kept : Cardinality({ m \in kept : m <= k }) = i
  BY <1>1, OneOfEachRank
<1>4. ASSUME NEW i \in 1 .. Cardinality(kept) PROVE pick(i) \in kept
  BY <1>3, Zenon
<1>5. \A i \in 1 .. Cardinality(kept) : text[pick(i)] \in S
  <2>1. \A k \in 1 .. Len(text) : text[k] \in S
    OBVIOUS
  <2>2. QED BY <1>1, <1>4, <2>1, Zenon
<1>6. StripBanners(text) = [i \in 1 .. Cardinality(kept) |-> text[pick(i)]]
  BY DEF StripBanners, Kept
<1> HIDE DEF kept, pick
<1>7. [i \in 1 .. Cardinality(kept) |-> text[pick(i)]] \in Seq(S)
  BY <1>2, <1>5
<1>8. QED BY <1>6, <1>7

(* Giving up a call changes whose the lines are and nothing else.          *)
LEMMA DisownedLines ==
    ASSUME NEW t \in Tasks, NEW s \in Seq(Line)
    PROVE  /\ Disowned(t, s) \in Seq(Line)
           /\ Len(Disowned(t, s)) = Len(s)
           /\ \A k \in 1 .. Len(s) : Disowned(t, s)[k].of =
                 IF s[k].of = t THEN Nobody ELSE s[k].of
<1>1. \A k \in 1 .. Len(s) : s[k] \in Line
  OBVIOUS
<1>2. \A k \in 1 .. Len(s) : [s[k] EXCEPT !.of = Nobody] \in Line
  BY <1>1 DEF Line
<1>3. \A k \in 1 .. Len(s) : [s[k] EXCEPT !.of = Nobody].of = Nobody
  BY <1>1 DEF Line
<1>4. DOMAIN s = 1 .. Len(s) /\ Len(s) \in Nat
  OBVIOUS
<1>5. QED BY <1>1, <1>2, <1>3, <1>4 DEF Disowned

Command == [by : Tasks, of : Tasks \cup {Nobody}]

(* And whose the commands are.                                             *)
LEMMA DisownedCommands ==
    ASSUME NEW t \in Tasks, NEW s \in Seq(Command)
    PROVE  /\ Disowned(t, s) \in Seq(Command)
           /\ Len(Disowned(t, s)) = Len(s)
           /\ \A k \in 1 .. Len(s) : Disowned(t, s)[k].of =
                 IF s[k].of = t THEN Nobody ELSE s[k].of
<1>1. \A k \in 1 .. Len(s) : s[k] \in Command
  OBVIOUS
<1>2. \A k \in 1 .. Len(s) : [s[k] EXCEPT !.of = Nobody] \in Command
  BY <1>1 DEF Command
<1>3. \A k \in 1 .. Len(s) : [s[k] EXCEPT !.of = Nobody].of = Nobody
  BY <1>1 DEF Command
<1>4. DOMAIN s = 1 .. Len(s) /\ Len(s) \in Nat
  OBVIOUS
<1>5. QED BY <1>1, <1>2, <1>3, <1>4 DEF Disowned

(* The lines of the matrix are lines.                                      *)
LEMMA ReplyLines ==
    ASSUME NEW c \in Command
    PROVE  /\ Reply(c) \in Seq(Line)
           /\ Len(Reply(c)) = Len(ReplyKinds(c.by))
           /\ Len(Reply(c)) \in {1, 2}
           /\ \A k \in 1 .. Len(Reply(c)) :
                 Reply(c)[k] = [kind |-> ReplyKinds(c.by)[k], of |-> c.of]
<1>1. /\ ReplyKinds(c.by) \in Seq(LineKind)
      /\ Len(ReplyKinds(c.by)) \in {1, 2}
  <2>1. CASE c.by = Poller
    BY <2>1 DEF ReplyKinds, LineKind
  <2>2. CASE c.by # Poller
    BY <2>2 DEF ReplyKinds, LineKind
  <2>3. QED BY <2>1, <2>2
<1>2. \A k \in 1 .. Len(ReplyKinds(c.by)) :
         [kind |-> ReplyKinds(c.by)[k], of |-> c.of] \in Line
  BY <1>1 DEF Line, Command
<1>3. DOMAIN ReplyKinds(c.by) = 1 .. Len(ReplyKinds(c.by))
      /\ Len(ReplyKinds(c.by)) \in Nat
  BY <1>1
<1> HIDE DEF ReplyKinds
<1>4. QED BY <1>1, <1>2, <1>3 DEF Reply

(* The banner is three lines of nobody's.                                  *)
LEMMA BannerLines ==
    /\ Banner \in Seq(Line) /\ Len(Banner) = 3
    /\ Banner[1] = [kind |-> "rule", of |-> Nobody]
    /\ Banner[2] = [kind |-> "welcome", of |-> Nobody]
    /\ Banner[3] = [kind |-> "rule", of |-> Nobody]
BY DEF Banner, Line, LineKind

-----------------------------------------------------------------------------
\* The lock, its queue and the program counters.

LockTypes == lock \in Tasks \cup {Nobody} /\ waiters \in Seq(Tasks)

Outside == {"idle", "opening", "discarding"}
Inside == {"waiting", "draining", "reading", "straying"}

\* What a step may do to them: nothing; a call begins or ends; a task that has
\* the lock goes on to its drain or its read; the poller moves outside of the
\* lock; a task that waits for it is cancelled.
LockMoves ==
    \/ UNCHANGED <<lock, waiters, pc>>
    \/ \E t \in Tasks : pc[t] \in Outside /\ Enters(t)
    \/ \E t \in Tasks, r \in {"ok", "failed", "cancelled"} :
          lock = t /\ pc[t] \in Inside /\ Ends(t, r)
    \/ \E t \in Tasks, step \in {"draining", "reading", "straying"} :
          /\ lock = t /\ pc[t] \in Inside
          /\ pc' = [pc EXCEPT ![t] = step] /\ UNCHANGED <<lock, waiters>>
    \/ \E t \in Tasks, step \in Outside :
          /\ pc[t] \in Outside
          /\ pc' = [pc EXCEPT ![t] = step] /\ UNCHANGED <<lock, waiters>>
    \/ \E t \in Tasks, k \in DOMAIN waiters :
          /\ pc[t] = "waiting" /\ lock # t /\ waiters[k] = t
          /\ pc' = [pc EXCEPT ![t] = "idle"]
          /\ waiters' = RemoveAt(waiters, k) /\ UNCHANGED lock

(* Every action is one of these moves.                                     *)
LEMMA StepsMoveTheLock ==
    ASSUME ReaderInv, [SessionNext]_sessionVars
    PROVE  LockMoves
<1>0. Poller \in Tasks /\ Users \subseteq Tasks
  BY DEF Tasks
<1>1. ASSUME NEW t \in Tasks, pc[t] \in Outside, Enters(t) PROVE LockMoves
  BY <1>1, Zenon DEF LockMoves
<1>2. ASSUME NEW t \in Tasks, NEW r \in {"ok", "failed", "cancelled"}, lock = t, pc[t] \in Inside,
             Ends(t, r)
      PROVE  LockMoves
  BY <1>2, Zenon DEF LockMoves
<1>3. ASSUME NEW t \in Tasks, pc[t] \in Outside, NEW step \in Outside,
             pc' = [pc EXCEPT ![t] = step], UNCHANGED <<lock, waiters>>
      PROVE  LockMoves
  BY <1>3 DEF LockMoves
<1>4. ASSUME NEW t \in Tasks, pc[t] \in Outside, FailsOutside(t) PROVE LockMoves
  BY <1>3, <1>4 DEF FailsOutside, Outside
<1>5. ASSUME NEW t \in Tasks, lock = t, pc[t] \in Inside, NEW step \in {"draining", "reading", "straying"},
             pc' = [pc EXCEPT ![t] = step], UNCHANGED <<lock, waiters>>
      PROVE  LockMoves
  BY <1>5 DEF LockMoves
<1>6. CASE PollStarts
  <2>1. pc[Poller] \in Outside
    BY <1>6 DEF PollStarts, Outside
  <2>2. \/ Enters(Poller) \/ FailsOutside(Poller)
        \/ pc' = [pc EXCEPT ![Poller] = "opening"] /\ UNCHANGED <<lock, waiters>>
    BY <1>6 DEF PollStarts
  <2>3. "opening" \in Outside
    BY DEF Outside
  <2>4. QED BY <1>0, <1>1, <1>3, <1>4, <2>1, <2>2, <2>3
<1>7. ASSUME NEW t \in Users, CommandStarts(t) PROVE LockMoves
  <2>1. t \in Tasks /\ pc[t] \in Outside /\ (Enters(t) \/ FailsOutside(t))
    BY <1>0, <1>7 DEF CommandStarts, Outside
  <2>2. QED BY <1>1, <1>4, <2>1
<1>8. ASSUME NEW t \in Tasks, TaskStep(t) PROVE LockMoves
  <2>1. pc[t] \in Inside
    BY <1>8 DEF TaskStep, Acquires, DrainReads, DrainEnds, ReadChunk, ReadFails,
       ReadTimesOut, Reading, Inside
  <2>2. CASE DrainReads(t)
    BY <2>2 DEF DrainReads, calls, LockMoves
  <2>3. CASE ~DrainReads(t)
    <3>1. lock = t
      BY <1>8, <2>3 DEF TaskStep, Acquires, DrainReads, DrainEnds, ReadChunk, ReadFails,
         ReadTimesOut, Reading, ReaderInv, HolderInv, OnTheWire
    <3>2. \/ Ends(t, "ok") \/ Ends(t, "failed") \/ Ends(t, "cancelled")
          \/ UNCHANGED <<lock, waiters, pc>>
          \/ pc' = [pc EXCEPT ![t] = "draining"] /\ UNCHANGED <<lock, waiters>>
          \/ pc' = [pc EXCEPT ![t] = "reading"] /\ UNCHANGED <<lock, waiters>>
      <4>1. CASE Acquires(t)
        BY <4>1 DEF Acquires
      <4>2. CASE DrainEnds(t)
        BY <4>2 DEF DrainEnds, Writes
      <4>3. ASSUME NEW n \in 1 .. Len(inbound), ReadChunk(t, n)
            PROVE  \/ Ends(t, "ok") \/ Ends(t, "cancelled")
                   \/ UNCHANGED <<lock, waiters, pc>>
        BY <4>3 DEF ReadChunk
      <4>4. CASE ReadFails(t) \/ ReadTimesOut(t)
        BY <4>4 DEF ReadFails, ReadTimesOut
      <4>5. QED BY <1>8, <2>3, <4>1, <4>2, <4>3, <4>4 DEF TaskStep
    <3>3. CASE UNCHANGED <<lock, waiters, pc>>
      BY <3>3 DEF LockMoves
    <3>4. QED BY <1>2, <1>5, <2>1, <3>1, <3>2, <3>3
  <2>4. QED BY <2>2, <2>3
<1>9. CASE ConnectStep
  <2>1. pc[Poller] \in Outside
    BY <1>9 DEF ConnectStep, Opens, Refused, DiscardReads, DiscardEnds, Outside
  <2>2. \/ Enters(Poller) \/ FailsOutside(Poller) \/ UNCHANGED <<lock, waiters, pc>>
        \/ pc' = [pc EXCEPT ![Poller] = "discarding"] /\ UNCHANGED <<lock, waiters>>
    BY <1>9 DEF ConnectStep, Opens, Refused, DiscardReads, DiscardEnds
  <2>3. "discarding" \in Outside
    BY DEF Outside
  <2>4. CASE UNCHANGED <<lock, waiters, pc>>
    BY <2>4 DEF LockMoves
  <2>5. QED BY <1>0, <1>1, <1>3, <1>4, <2>1, <2>2, <2>3, <2>4
<1>10. ASSUME NEW t \in Users, Cancelled(t) PROVE LockMoves
  <2>1. CASE pc[t] = "waiting" /\ lock # t
    <3>1. PICK k \in DOMAIN waiters : waiters[k] = t /\ waiters' = RemoveAt(waiters, k)
      BY <1>10, <2>1 DEF Cancelled, Reading
    <3>2. pc' = [pc EXCEPT ![t] = "idle"] /\ UNCHANGED lock
      BY <1>10, <2>1 DEF Cancelled, Reading
    <3>3. QED BY <1>0, <2>1, <3>1, <3>2 DEF LockMoves
  <2>2. CASE ~(pc[t] = "waiting" /\ lock # t)
    <3>1. lock = t /\ pc[t] \in Inside /\ Ends(t, "failed")
      BY <1>0, <1>10, <2>2 DEF Cancelled, Inside, Reading, ReaderInv, HolderInv, OnTheWire
    <3>2. QED BY <1>0, <1>2, <3>1
  <2>3. QED BY <2>1, <2>2
<1>13. ASSUME NEW t \in Users, DrainCancelled(t) PROVE LockMoves
  <2>1. t \in Tasks /\ lock = t /\ pc[t] \in Inside
    BY <1>0, <1>13 DEF DrainCancelled, Inside, ReaderInv, HolderInv, OnTheWire
  <2>2. \/ Ends(t, "failed")
        \/ pc' = [pc EXCEPT ![t] = "straying"] /\ UNCHANGED <<lock, waiters>>
    BY <1>13 DEF DrainCancelled, Writes
  <2>3. QED BY <1>2, <1>5, <2>1, <2>2
<1>11. CASE SetsUpAgain \/ UnloadStarts \/ UnloadEnds \/ MatrixStep \/ Broadcast
            \/ LinkGoes \/ UNCHANGED sessionVars
  BY <1>11 DEF SetsUpAgain, UnloadStarts, UnloadEnds, MatrixStep, MatrixTakes,
     MatrixSends, Broadcast, LinkGoes, sessionVars, calls, LockMoves
<1>12. QED BY <1>6, <1>7, <1>8, <1>9, <1>10, <1>11, <1>13 DEF SessionNext

(* And every move keeps the discipline.                                    *)
LEMMA LockStep ==
    ASSUME PcType, LockTypes, LockDiscipline, LockMoves
    PROVE  LockTypes' /\ LockDiscipline'
<1> USE SessionAssumption DEF LockTypes, PcType, Outside, Inside, OnTheWire
<1>0. /\ \A t \in Tasks : t # Nobody
      /\ \A u \in ToSet(waiters) : u \in Tasks /\ pc[u] = "waiting"
      /\ <<>> \in Seq(Tasks) /\ ToSet(<<>>) = {} /\ IsInjective(<<>>)
  BY DEF LockDiscipline, ToSet, IsInjective
<1>1. CASE UNCHANGED <<lock, waiters, pc>>
  BY <1>1 DEF LockDiscipline
<1>2. ASSUME NEW t \in Tasks, pc[t] \in Outside, Enters(t)
      PROVE  LockTypes' /\ LockDiscipline'
  <2>1. t # lock /\ t \notin ToSet(waiters)
    BY <1>0, <1>2 DEF LockDiscipline
  <2>2. CASE lock = Nobody /\ waiters = <<>>
    <3>1. lock' = t /\ pc' = [pc EXCEPT ![t] = "draining"] /\ waiters' = <<>>
      BY <1>2, <2>2 DEF Enters
    <3>2. QED BY <1>0, <2>2, <3>1 DEF LockDiscipline
  <2>3. CASE ~(lock = Nobody /\ waiters = <<>>)
    <3>1. /\ lock # Nobody
          /\ lock' = lock /\ pc' = [pc EXCEPT ![t] = "waiting"]
          /\ waiters' = Append(waiters, t)
      BY <1>2, <2>3 DEF Enters, LockDiscipline
    <3>2. /\ ToSet(waiters') = ToSet(waiters) \cup {t} /\ IsInjective(waiters')
          /\ waiters' \in Seq(Tasks)
      BY <2>1, <3>1, ToSetOfAppend DEF LockDiscipline
    <3>3. QED BY <1>0, <1>2, <2>1, <3>1, <3>2 DEF LockDiscipline
  <2>4. QED BY <2>2, <2>3
<1>3. ASSUME NEW t \in Tasks, NEW r, lock = t, pc[t] \in Inside, Ends(t, r)
      PROVE  LockTypes' /\ LockDiscipline'
  <2>1. pc' = [pc EXCEPT ![t] = "idle"]
    BY <1>3 DEF Ends
  <2>2. t \notin ToSet(waiters)
    BY <1>3 DEF LockDiscipline
  <2>3. CASE waiters = <<>>
    <3>1. lock' = Nobody /\ waiters' = <<>>
      BY <1>3, <2>3 DEF Ends, Release
    <3>2. QED BY <1>0, <1>3, <2>1, <2>3, <3>1 DEF LockDiscipline
  <2>4. CASE waiters # <<>>
    <3>1. lock' = Head(waiters) /\ waiters' = Tail(waiters)
      BY <1>3, <2>4 DEF Ends, Release
    <3>2. /\ lock' \in ToSet(waiters) /\ waiters' \in Seq(Tasks)
          /\ ToSet(waiters') = ToSet(waiters) \ {lock'} /\ IsInjective(waiters')
      BY <2>4, <3>1, ToSetOfTail DEF LockDiscipline
    <3>3. lock' \in Tasks /\ lock' # t /\ pc[lock'] = "waiting" /\ lock' # Nobody
      BY <1>0, <2>2, <3>2
    <3>4. QED BY <1>0, <1>3, <2>1, <2>2, <3>2, <3>3 DEF LockDiscipline
  <2>5. QED BY <2>3, <2>4
<1>4. ASSUME NEW t \in Tasks, NEW step \in {"draining", "reading", "straying"}, lock = t,
             pc[t] \in Inside, pc' = [pc EXCEPT ![t] = step], UNCHANGED <<lock, waiters>>
      PROVE  LockTypes' /\ LockDiscipline'
  BY <1>0, <1>4 DEF LockDiscipline
<1>5. ASSUME NEW t \in Tasks, NEW step \in Outside, pc[t] \in Outside,
             pc' = [pc EXCEPT ![t] = step], UNCHANGED <<lock, waiters>>
      PROVE  LockTypes' /\ LockDiscipline'
  <2>1. t # lock /\ t \notin ToSet(waiters)
    BY <1>0, <1>5 DEF LockDiscipline
  <2>2. QED BY <1>0, <1>5, <2>1 DEF LockDiscipline
<1>6. ASSUME NEW t \in Tasks, NEW k \in DOMAIN waiters, pc[t] = "waiting", lock # t,
             waiters[k] = t, pc' = [pc EXCEPT ![t] = "idle"],
             waiters' = RemoveAt(waiters, k), UNCHANGED lock
      PROVE  LockTypes' /\ LockDiscipline'
  <2>1. /\ ToSet(waiters') = ToSet(waiters) \ {t} /\ IsInjective(waiters')
        /\ waiters' \in Seq(Tasks)
    BY <1>6, ToSetOfRemoveAt DEF LockDiscipline
  <2>2. lock # Nobody
    BY <1>0, <1>6 DEF LockDiscipline, ToSet
  <2>3. QED BY <1>0, <1>6, <2>1, <2>2 DEF LockDiscipline
<1>7. QED BY <1>1, <1>2, <1>3, <1>4, <1>5, <1>6 DEF LockMoves

-----------------------------------------------------------------------------
\* The types of everything else.

(* A stream that is cut in two.                                            *)
LEMMA TwoParts ==
    ASSUME NEW S, NEW s \in Seq(S), NEW n \in 0 .. Len(s)
    PROVE  /\ SubSeq(s, 1, n) \in Seq(S) /\ Len(SubSeq(s, 1, n)) = n
           /\ \A k \in 1 .. n : SubSeq(s, 1, n)[k] = s[k]
           /\ SubSeq(s, n + 1, Len(s)) \in Seq(S)
           /\ Len(SubSeq(s, n + 1, Len(s))) = Len(s) - n
           /\ \A k \in 1 .. Len(s) - n : SubSeq(s, n + 1, Len(s))[k] = s[n + k]
<1>1. Len(s) \in Nat /\ n \in Nat /\ \A k \in 1 .. Len(s) : s[k] \in S
  OBVIOUS
<1>2. /\ SubSeq(s, 1, n) \in Seq(S)
      /\ Len(SubSeq(s, 1, n)) = IF 1 <= n THEN n - 1 + 1 ELSE 0
      /\ \A k \in 1 .. n - 1 + 1 : SubSeq(s, 1, n)[k] = s[1 + k - 1]
  <2>1. 1 \in Int /\ n \in Int /\ \A k \in 1 .. n : s[k] \in S
    BY <1>1
  <2>2. QED BY <2>1, SubSeqProperties
<1>3. /\ SubSeq(s, n + 1, Len(s)) \in Seq(S)
      /\ Len(SubSeq(s, n + 1, Len(s)))
            = IF n + 1 <= Len(s) THEN Len(s) - (n + 1) + 1 ELSE 0
      /\ \A k \in 1 .. Len(s) - (n + 1) + 1 :
            SubSeq(s, n + 1, Len(s))[k] = s[n + 1 + k - 1]
  <2>1. n + 1 \in Int /\ Len(s) \in Int /\ \A k \in n + 1 .. Len(s) : s[k] \in S
    BY <1>1
  <2>2. QED BY <2>1, SubSeqProperties
<1>4. Len(SubSeq(s, 1, n)) = n /\ \A k \in 1 .. n : SubSeq(s, 1, n)[k] = s[k]
  <2>1. \A k \in 1 .. n : 1 + k - 1 = k
    BY <1>1
  <2>2. n - 1 + 1 = n /\ (1 <= n \/ n = 0)
    BY <1>1
  <2>3. QED BY <1>2, <2>1, <2>2
<1>5. Len(SubSeq(s, n + 1, Len(s))) = Len(s) - n
  BY <1>1, <1>3
<1>6. ASSUME NEW k \in 1 .. Len(s) - n PROVE SubSeq(s, n + 1, Len(s))[k] = s[n + k]
  <2>1. k \in 1 .. Len(s) - (n + 1) + 1 /\ n + 1 + k - 1 = n + k
    BY <1>1
  <2>2. QED BY <1>3, <2>1
<1>7. QED BY <1>2, <1>3, <1>4, <1>5, <1>6

CommandTypes == inbox \in Seq(Command)
LineTypes ==
    /\ buffer \in Seq(Line) /\ inbound \in Seq(Line) /\ replying \in Seq(Line)
    /\ got \in [Tasks -> Seq(Line)]
FlagTypes ==
    /\ tcpConnected \in BOOLEAN /\ attached \in BOOLEAN /\ devConnected \in BOOLEAN
    /\ outcome \in [Tasks -> {"none", "ok", "failed", "cancelled"}]
    /\ entry \in {"setup", "loaded", "closing", "unloaded"}
    /\ socket \in {"none", "open", "eof", "reset"}
    /\ events \in [EventKind -> Nat]

(* Together they are the type invariant.                                   *)
LEMMA TypesAreAll ==
    SessionTypeOK <=> PcType /\ LockTypes /\ CommandTypes /\ LineTypes /\ FlagTypes
BY DEF SessionTypeOK, PcType, LockTypes, CommandTypes, LineTypes, FlagTypes, Command

(* Commands are appended, taken from the front, given up or dropped.       *)
LEMMA CommandTypesStep ==
    ASSUME CommandTypes, [SessionNext]_sessionVars
    PROVE  CommandTypes'
<1> USE DEF CommandTypes
<1>0. Poller \in Tasks /\ Users \subseteq Tasks
  BY DEF Tasks
<1>1. ASSUME UNCHANGED inbox \/ inbox' = <<>> PROVE CommandTypes'
  <2>1. <<>> \in Seq(Command)
    OBVIOUS
  <2>2. QED BY <1>1, <2>1
<1>2. ASSUME NEW t \in Tasks, DrainEnds(t) \/ DrainCancelled(t) PROVE CommandTypes'
  <2>1. CommandOf(t) \in Command /\ [by |-> t, of |-> Nobody] \in Command
    BY DEF CommandOf, Command
  <2>2. /\ Append(inbox, CommandOf(t)) \in Seq(Command)
        /\ Append(inbox, [by |-> t, of |-> Nobody]) \in Seq(Command)
    BY <2>1
  <2>3. QED BY <1>2, <2>2 DEF DrainEnds, DrainCancelled, Writes
<1>3. ASSUME NEW t \in Tasks, GiveUp(t) PROVE CommandTypes'
  BY <1>3, DisownedCommands DEF GiveUp
<1>4. CASE MatrixTakes
  BY <1>4 DEF MatrixTakes
<1>5. CASE PollStarts \/ (\E t \in Users : CommandStarts(t)) \/ ConnectStep
           \/ SetsUpAgain \/ UnloadStarts \/ UnloadEnds \/ MatrixSends \/ Broadcast
           \/ LinkGoes \/ UNCHANGED sessionVars
  <2>1. UNCHANGED inbox \/ inbox' = <<>>
    BY <1>5 DEF PollStarts, CommandStarts, ConnectStep, Opens, Refused, DiscardReads,
       DiscardEnds, SetsUpAgain, UnloadStarts, UnloadEnds, MatrixSends, Broadcast,
       LinkGoes, sessionVars, peer
  <2>2. QED BY <1>1, <2>1
<1>6. ASSUME NEW t \in Tasks, TaskStep(t) PROVE CommandTypes'
  BY <1>1, <1>2, <1>3, <1>6 DEF TaskStep, Acquires, DrainReads, ReadChunk, ReadFails,
     ReadTimesOut, peer
<1>7. ASSUME NEW t \in Users, Cancelled(t) \/ DrainCancelled(t) PROVE CommandTypes'
  BY <1>0, <1>1, <1>2, <1>3, <1>7 DEF Cancelled
<1>8. QED BY <1>4, <1>5, <1>6, <1>7 DEF SessionNext, MatrixStep

(* Lines come from replies and banners, and are cut and stripped.          *)
LEMMA LineTypesStep ==
    ASSUME CommandTypes, LineTypes, [SessionNext]_sessionVars
    PROVE  LineTypes'
<1> USE DEF LineTypes
<1>0. Poller \in Tasks /\ Users \subseteq Tasks /\ <<>> \in Seq(Line)
  BY DEF Tasks
<1>1. ASSUME UNCHANGED <<inbound, replying, got>>, UNCHANGED buffer \/ buffer' = <<>>
      PROVE  LineTypes'
  BY <1>0, <1>1
<1>2. ASSUME NEW t \in Tasks, GiveUp(t), UNCHANGED <<buffer, got>> PROVE LineTypes'
  BY <1>2, DisownedLines DEF GiveUp
<1>3. ASSUME NEW t \in Tasks, NEW n \in 1 .. Len(inbound), ReadChunk(t, n)
      PROVE  LineTypes'
  <2> DEFINE text == StripBanners(buffer \o SubSeq(inbound, 1, n))
  <2>1. n \in 0 .. Len(inbound)
    OBVIOUS
  <2>2. SubSeq(inbound, 1, n) \in Seq(Line)
        /\ SubSeq(inbound, n + 1, Len(inbound)) \in Seq(Line)
    BY <2>1, TwoParts
  <2>3. buffer \o SubSeq(inbound, 1, n) \in Seq(Line)
    BY <2>2, ConcatProperties
  <2>4. text \in Seq(Line)
    BY <2>3, StrippedIsText
  <2> HIDE DEF text
  <2>5. got[t] \o text \in Seq(Line)
    BY <2>4, ConcatProperties
  <2>6. ASSUME NEW k \in DOMAIN text
        PROVE  got[t] \o SubSeq(text, 1, k) \in Seq(Line)
               /\ SubSeq(text, k + 1, Len(text)) \in Seq(Line)
    <3>1. k \in 0 .. Len(text)
      BY <2>4
    <3>2. SubSeq(text, 1, k) \in Seq(Line) /\ SubSeq(text, k + 1, Len(text)) \in Seq(Line)
      BY <2>4, <3>1, TwoParts
    <3>3. QED BY <3>2, ConcatProperties
  <2>7. UNCHANGED replying /\ inbound' = SubSeq(inbound, n + 1, Len(inbound))
    BY <1>3 DEF ReadChunk
  <2>8. EndsAt(t, text) \subseteq DOMAIN text
    BY DEF EndsAt
  <2>9. \/ got' = [got EXCEPT ![t] = @ \o text] /\ buffer' = <<>>
        \/ \E k \in EndsAt(t, text) :
              /\ got' = [got EXCEPT ![t] = @ \o SubSeq(text, 1, k)]
              /\ buffer' = SubSeq(text, k + 1, Len(text))
    BY <1>3 DEF ReadChunk, text
  <2>10. QED BY <1>0, <2>2, <2>5, <2>6, <2>7, <2>8, <2>9
<1>4. ASSUME NEW n \in 1 .. Len(inbound), DiscardReads(n) PROVE LineTypes'
  <2>1. n \in 0 .. Len(inbound)
    OBVIOUS
  <2>2. SubSeq(inbound, 1, n) \in Seq(Line)
        /\ SubSeq(inbound, n + 1, Len(inbound)) \in Seq(Line)
    BY <2>1, TwoParts
  <2>3. got[Poller] \o SubSeq(inbound, 1, n) \in Seq(Line)
    BY <1>0, <2>2, ConcatProperties
  <2>4. QED BY <1>0, <1>4, <2>2, <2>3 DEF DiscardReads, library
<1>5. CASE MatrixTakes
  <2>1. Head(inbox) \in Command
    BY <1>5 DEF MatrixTakes, CommandTypes
  <2>2. Reply(Head(inbox)) \in Seq(Line)
    BY <2>1, ReplyLines
  <2>3. QED BY <1>5, <2>2 DEF MatrixTakes, library, calls
<1>6. CASE MatrixSends
  <2>1. Head(replying) \in Line /\ Tail(replying) \in Seq(Line)
    BY <1>6 DEF MatrixSends
  <2>2. Append(inbound, Head(replying)) \in Seq(Line)
    BY <2>1
  <2>3. QED BY <1>6, <2>1, <2>2 DEF MatrixSends, library, calls
<1>7. CASE Broadcast
  <2>1. inbound \o Banner \in Seq(Line)
    BY BannerLines, ConcatProperties
  <2>2. QED BY <1>7, <2>1 DEF Broadcast, library, calls
<1>8. CASE PollStarts \/ (\E t \in Users : CommandStarts(t)) \/ Refused
           \/ UnloadEnds \/ UNCHANGED sessionVars
  <2>1. UNCHANGED <<inbound, replying, got>> /\ (UNCHANGED buffer \/ buffer' = <<>>)
    <3>1. ASSUME NEW t, Enters(t) PROVE UNCHANGED buffer \/ buffer' = <<>>
      BY <3>1 DEF Enters
    <3>2. QED BY <1>8, <3>1 DEF PollStarts, CommandStarts, Refused, UnloadEnds,
       sessionVars, peer, calls, library
  <2>2. QED BY <1>1, <2>1
<1>9. CASE DiscardEnds
  <2>1. UNCHANGED buffer \/ buffer' = <<>>
    BY <1>9 DEF DiscardEnds, Enters
  <2>2. QED BY <1>0, <1>9, <2>1 DEF DiscardEnds, peer
<1>10. CASE Opens
  BY <1>0, <1>10, BannerLines DEF Opens
<1>11. CASE SetsUpAgain \/ UnloadStarts \/ LinkGoes
  BY <1>0, <1>11 DEF SetsUpAgain, UnloadStarts, LinkGoes, library, calls
<1>12. ASSUME NEW t \in Tasks, TaskStep(t) PROVE LineTypes'
  <2>1. CASE Acquires(t) \/ ReadFails(t)
    BY <1>1, <2>1 DEF Acquires, ReadFails, peer
  <2>2. CASE DrainReads(t) \/ DrainEnds(t)
    BY <1>0, <2>2 DEF DrainReads, DrainEnds, Writes, library, calls
  <2>3. CASE ReadTimesOut(t)
    BY <1>2, <2>3 DEF ReadTimesOut, library
  <2>4. QED BY <1>3, <1>12, <2>1, <2>2, <2>3 DEF TaskStep
<1>13. ASSUME NEW t \in Users, Cancelled(t) \/ DrainCancelled(t) PROVE LineTypes'
  BY <1>0, <1>1, <1>2, <1>13 DEF Cancelled, DrainCancelled, Writes, library
<1>14. QED BY <1>4, <1>5, <1>6, <1>7, <1>8, <1>9, <1>10, <1>11, <1>12, <1>13
       DEF SessionNext, MatrixStep, ConnectStep

(* The flags, the outcomes and the counters.                               *)
LEMMA FlagTypesStep ==
    ASSUME FlagTypes, [SessionNext]_sessionVars
    PROVE  FlagTypes'
<1> USE DEF FlagTypes
<1>1. ASSUME NEW kind \in EventKind, Counted(kind) PROVE events' \in [EventKind -> Nat]
  BY <1>1 DEF Counted
<1>2. events' \in [EventKind -> Nat]
  <2>1. {"refusal", "drop", "banner", "timeout", "cancel"} = EventKind
    BY DEF EventKind
  <2>2. QED BY <1>1, <2>1 DEF SessionNext, PollStarts, CommandStarts, TaskStep, Acquires,
     DrainReads, DrainEnds, Writes, ReadChunk, ReadFails, ReadTimesOut, Cancelled,
     DrainCancelled, ConnectStep,
     Opens, Refused, DiscardReads, DiscardEnds, SetsUpAgain, UnloadStarts, UnloadEnds,
     MatrixStep, MatrixTakes, MatrixSends, Broadcast, LinkGoes, sessionVars
<1>3. tcpConnected' \in BOOLEAN /\ attached' \in BOOLEAN /\ devConnected' \in BOOLEAN
  BY ZenonT(30) DEF SessionNext, PollStarts, CommandStarts, TaskStep, Acquires,
     DrainReads, DrainEnds, Writes, ReadChunk, ReadFails, ReadTimesOut, Cancelled,
     DrainCancelled, ConnectStep,
     Opens, Refused, DiscardReads, DiscardEnds, SetsUpAgain, UnloadStarts, UnloadEnds,
     MatrixStep, MatrixTakes, MatrixSends, Broadcast, LinkGoes, sessionVars, library, peer,
     calls
<1>6. socket' \in {"none", "open", "eof", "reset"}
  BY DEF SessionNext, PollStarts, CommandStarts, TaskStep, Acquires,
     DrainReads, DrainEnds, Writes, ReadChunk, ReadFails, ReadTimesOut, Cancelled,
     DrainCancelled, ConnectStep,
     Opens, Refused, DiscardReads, DiscardEnds, SetsUpAgain, UnloadStarts, UnloadEnds,
     MatrixStep, MatrixTakes, MatrixSends, Broadcast, LinkGoes, sessionVars, library, peer,
     calls
<1>7. entry' \in {"setup", "loaded", "closing", "unloaded"}
  <2>1. ASSUME NEW t \in Tasks, TaskStep(t) PROVE entry' \in {entry, "loaded"}
    <3>1. ASSUME NEW n \in 1 .. Len(inbound), ReadChunk(t, n)
          PROVE  entry' \in {entry, "loaded"}
      <4>1. entry' = entry \/ entry' = IF t = Poller /\ entry = "setup" THEN "loaded" ELSE entry
        BY <3>1 DEF ReadChunk
      <4>2. QED BY <4>1
    <3>2. QED BY <2>1, <3>1 DEF TaskStep, Acquires, DrainReads, DrainEnds, ReadFails,
       ReadTimesOut
  <2>2. UNCHANGED entry \/ entry' \in {entry, "loaded", "closing", "unloaded"}
    BY <2>1 DEF SessionNext, PollStarts, CommandStarts, Cancelled, DrainCancelled, ConnectStep,
       Opens, Refused, DiscardReads, DiscardEnds, SetsUpAgain, UnloadStarts, UnloadEnds,
       MatrixStep, MatrixTakes, MatrixSends, Broadcast, LinkGoes, sessionVars
  <2>3. QED BY <2>2
<1>4. outcome' \in [Tasks -> {"none", "ok", "failed", "cancelled"}]
  <2>1. ASSUME NEW t \in Tasks, Ends(t, "ok") \/ Ends(t, "failed") \/ Ends(t, "cancelled")
           \/ FailsOutside(t)
        PROVE  outcome' \in [Tasks -> {"none", "ok", "failed", "cancelled"}]
    BY <2>1 DEF Ends, FailsOutside
  <2>2. ASSUME NEW t \in Tasks, outcome' = [outcome EXCEPT ![t] = "none"]
        PROVE  outcome' \in [Tasks -> {"none", "ok", "failed", "cancelled"}]
    BY <2>2
  <2>3. Poller \in Tasks /\ Users \subseteq Tasks
    BY DEF Tasks
  <2>4. UNCHANGED outcome \/ \E t \in Tasks :
           \/ Ends(t, "ok") \/ Ends(t, "failed") \/ Ends(t, "cancelled")
           \/ FailsOutside(t)
           \/ outcome' = [outcome EXCEPT ![t] = "none"]
           \/ outcome' = [outcome EXCEPT ![t] = "failed"]
    BY <2>3 DEF SessionNext, PollStarts, CommandStarts, TaskStep, Acquires,
     DrainReads, DrainEnds, Writes, ReadChunk, ReadFails, ReadTimesOut, Cancelled,
     DrainCancelled, ConnectStep,
     Opens, Refused, DiscardReads, DiscardEnds, SetsUpAgain, UnloadStarts, UnloadEnds,
     MatrixStep, MatrixTakes, MatrixSends, Broadcast, LinkGoes, sessionVars, calls
  <2>5. QED BY <2>1, <2>2, <2>4
<1>5. QED BY <1>2, <1>3, <1>4, <1>6, <1>7

(* It holds at first.                                                      *)
LEMMA SessionStarts == SessionInit => ReaderInv /\ SessionInv
<1>1. SessionInit => ReaderInv
  BY SessionAssumption DEF SessionInit, ReaderInv, PcType, HolderInv, LifeInv,
     OnTheWire, Tasks
<1>2. SessionInit => LockTypes /\ CommandTypes /\ LineTypes /\ FlagTypes
  <2>1. <<>> \in Seq(Line) /\ <<>> \in Seq(Command) /\ <<>> \in Seq(Tasks)
    OBVIOUS
  <2>2. SessionInit => LockTypes /\ CommandTypes /\ LineTypes
    BY <2>1 DEF SessionInit, LockTypes, CommandTypes, LineTypes
  <2>3. SessionInit => FlagTypes
    <3>1. [t \in Tasks |-> "none"] \in [Tasks -> {"none", "ok", "failed", "cancelled"}]
          /\ [k \in EventKind |-> 0] \in [EventKind -> Nat]
      OBVIOUS
    <3>2. QED BY <3>1 DEF SessionInit, FlagTypes
  <2>4. QED BY <2>2, <2>3
<1>3. SessionInit => LockDiscipline
  BY SessionAssumption DEF SessionInit, LockDiscipline, OnTheWire, ToSet, IsInjective
<1>4. QED BY <1>1, <1>2, <1>3, TypesAreAll DEF SessionInv, ReaderInv

(* With what holds of the readers it is inductive.                          *)
LEMMA SessionInvStep ==
    ReaderInv /\ SessionInv /\ [SessionNext]_sessionVars => ReaderInv' /\ SessionInv'
<1> SUFFICES ASSUME ReaderInv, SessionInv, [SessionNext]_sessionVars
             PROVE  ReaderInv' /\ SessionInv'
  OBVIOUS
<1>1. PcType /\ LockTypes /\ CommandTypes /\ LineTypes /\ FlagTypes /\ LockDiscipline
  BY TypesAreAll DEF SessionInv
<1>2. ReaderInv'
  BY HolderStep, LifeStep DEF ReaderInv
<1>3. LockMoves
  BY StepsMoveTheLock
<1>4. LockTypes' /\ LockDiscipline'
  BY <1>1, <1>3, LockStep
<1>5. CommandTypes' /\ LineTypes' /\ FlagTypes' /\ PcType'
  BY <1>1, <1>2, CommandTypesStep, LineTypesStep, FlagTypesStep DEF ReaderInv
<1>6. SessionTypeOK'
  BY <1>4, <1>5 DEF SessionTypeOK, PcType, LockTypes, CommandTypes, LineTypes,
     FlagTypes, Command
<1>7. QED BY <1>2, <1>4, <1>6 DEF SessionInv

(* The command lock is held, asked for and handed over as asyncio's lock   *)
(* is, and every variable keeps its type (base/device.py:129-132).         *)
THEOREM LockIsHandedOn == SessionSpec => []SessionInv
<1>1. SessionInit => ReaderInv /\ SessionInv
  BY SessionStarts
<1>2. ReaderInv /\ SessionInv /\ [SessionNext]_sessionVars => ReaderInv' /\ SessionInv'
  BY SessionInvStep
<1>3. QED BY <1>1, <1>2, PTL DEF SessionSpec
=============================================================================
