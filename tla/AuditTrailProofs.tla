-------------------------- MODULE AuditTrailProofs --------------------------
(* Proofs about AuditTrail, for a buffer of any capacity, and about what the *)
(* portal shows of it (PortalTelemetry).                                     *)
EXTENDS PortalTelemetry, SequenceTheorems, FiniteSetTheorems, WellFoundedInduction, TLAPS

-----------------------------------------------------------------------------
\* Sequences of records.

\* The entries of a sequence of records are records and have numbers.
LEMMA RecordSeq ==
    ASSUME NEW s \in Seq(Record)
    PROVE  /\ Len(s) \in Nat /\ DOMAIN s = 1 .. Len(s)
           /\ \A i \in DOMAIN s : s[i] \in Record /\ s[i].id \in Nat
  <1>1. Len(s) \in Nat /\ DOMAIN s = 1 .. Len(s) /\ s \in [1 .. Len(s) -> Record]
    BY LenProperties
  <1>2. \A r \in Record : r.id \in Nat
    BY DEF Record
  <1> QED
    BY <1>1, <1>2

\* A send puts the record behind the ones that are there.
LEMMA Sent ==
    ASSUME NEW s \in Seq(Record), NEW e \in Record
    PROVE  /\ Append(s, e) \in Seq(Record)
           /\ Len(Append(s, e)) = Len(s) + 1
           /\ DOMAIN Append(s, e) = DOMAIN s \cup {Len(s) + 1}
           /\ \A i \in DOMAIN s : Append(s, e)[i] = s[i] /\ i < Len(s) + 1
           /\ Append(s, e)[Len(s) + 1] = e
  <1>1. Len(s) \in Nat /\ DOMAIN s = 1 .. Len(s)
    BY RecordSeq
  <1>2. /\ Append(s, e) \in Seq(Record) /\ Len(Append(s, e)) = Len(s) + 1
        /\ \A i \in 1 .. Len(s) : Append(s, e)[i] = s[i]
        /\ Append(s, e)[Len(s) + 1] = e
    BY AppendProperties
  <1>3. DOMAIN Append(s, e) = 1 .. (Len(s) + 1)
    BY <1>2, RecordSeq
  <1> QED
    BY <1>1, <1>2, <1>3

\* A receive takes the first record and moves the others up by one.
LEMMA Received ==
    ASSUME NEW s \in Seq(Record), s # <<>>
    PROVE  /\ Head(s) = s[1] /\ Head(s) \in Record /\ Tail(s) \in Seq(Record)
           /\ Len(Tail(s)) = Len(s) - 1
           /\ 1 \in DOMAIN s
           /\ \A i \in DOMAIN Tail(s) : i + 1 \in DOMAIN s /\ Tail(s)[i] = s[i + 1] /\ i \in Nat /\ i >= 1
           /\ \A j \in DOMAIN s : j = 1 \/ j - 1 \in DOMAIN Tail(s)
  <1>1. /\ Len(s) \in Nat \ {0} /\ DOMAIN s = 1 .. Len(s)
    BY RecordSeq, EmptySeq
  <1>2. /\ Head(s) \in Record /\ Tail(s) \in Seq(Record)
        /\ Len(Tail(s)) = Len(s) - 1
        /\ \A i \in 1 .. Len(Tail(s)) : Tail(s)[i] = s[i + 1]
    BY HeadTailProperties
  <1>3. DOMAIN Tail(s) = 1 .. (Len(s) - 1)
    BY <1>2, RecordSeq
  <1>4. Head(s) = s[1]
    OBVIOUS
  <1> QED
    BY <1>1, <1>2, <1>3, <1>4

-----------------------------------------------------------------------------
\* The channel, the worker's record and the table stay well-formed and the
\* buffer within its capacity: a send to a full channel drops the record.
LEMMA TypeStep == TypeOK /\ [Next]_vars => TypeOK'
  <1> SUFFICES ASSUME TypeOK, [Next]_vars PROVE TypeOK'
    OBVIOUS
  <1>0. /\ issued \in Nat /\ Len(auditCh) \in Nat /\ Cap \in Nat /\ Len(auditCh) <= Cap
        /\ auditCh \in Seq(Record) /\ auditLog \in Seq(Record)
        /\ dropped \subseteq Nat /\ failed \subseteq Nat /\ lost \subseteq Nat
        /\ worker # NoRecord => worker \in Record /\ worker.id \in Nat
    BY AuditAssumption, RecordSeq DEF TypeOK, Record
  <1>1. ASSUME NEW info \in Infos, LogAuditAsync(info)
        PROVE  TypeOK'
    <2> DEFINE e == [id |-> issued + 1, info |-> info]
    <2>1. e \in Record
      BY <1>0 DEF Record
    <2>2. CASE Len(auditCh) < Cap
      <3>1. auditCh' = Append(auditCh, e) /\ dropped' = dropped
        BY <1>1, <2>2 DEF LogAuditAsync
      <3> HIDE DEF e
      <3>2. auditCh' \in Seq(Record) /\ Len(auditCh') <= Cap
        BY <1>0, <2>1, <2>2, <3>1, Sent
      <3> QED
        BY <1>0, <1>1, <3>1, <3>2 DEF LogAuditAsync, TypeOK
    <2>3. CASE ~ (Len(auditCh) < Cap)
      <3>1. dropped' = dropped \cup {issued + 1} /\ auditCh' = auditCh
        BY <1>1, <2>3 DEF LogAuditAsync
      <3>2. issued' = issued + 1 /\ issued + 1 \in Nat
        BY <1>0, <1>1 DEF LogAuditAsync
      <3>3. UNCHANGED <<worker, auditLog, failed, lost>>
        BY <1>1 DEF LogAuditAsync
      <3> QED
        BY <1>0, <3>1, <3>2, <3>3 DEF TypeOK
    <2> QED
      BY <2>2, <2>3
  <1>2. CASE WorkerTake
    <2>1. Head(auditCh) \in Record /\ Tail(auditCh) \in Seq(Record)
          /\ Len(Tail(auditCh)) <= Cap
      BY <1>0, <1>2, Received DEF WorkerTake
    <2> QED
      BY <1>0, <1>2, <2>1 DEF WorkerTake, TypeOK
  <1>3. CASE WorkerInsert
    <2>1. Append(auditLog, worker) \in Seq(Record)
      BY <1>0, <1>3, Sent DEF WorkerInsert
    <2> QED
      BY <1>0, <1>3, <2>1 DEF WorkerInsert, TypeOK
  <1>4. CASE WorkerFails
    BY <1>0, <1>4 DEF WorkerFails, TypeOK
  <1>5. CASE ProcessEnds
    <2>1. {auditCh[i].id : i \in DOMAIN auditCh} \subseteq Nat
      BY <1>0, RecordSeq
    <2>2. InFlight \subseteq Nat
      BY <1>0, <2>1 DEF InFlight
    <2>3. <<>> \in Seq(Record) /\ Len(<<>>) = 0
      BY EmptySeq
    <2> QED
      BY <1>0, <1>5, <2>2, <2>3 DEF ProcessEnds, TypeOK
  <1>6. CASE UNCHANGED vars
    BY <1>6 DEF vars, TypeOK
  <1> QED
    BY <1>1, <1>2, <1>3, <1>4, <1>5, <1>6 DEF Next

\* Type correctness of the audit trail, the bound on auditCh included.
THEOREM TypeCorrect == Spec => []TypeOK
  <1>1. Init => TypeOK
    BY AuditAssumption DEF Init, TypeOK
  <1> QED
    BY <1>1, TypeStep, PTL DEF Spec

-----------------------------------------------------------------------------
\* The records in the table, the one in the worker's hands and those on the
\* channel are, in this order, numbered upwards, and no number is beyond the
\* last one issued.
ChannelInOrder ==
    /\ \A i, j \in DOMAIN auditCh : i < j => auditCh[i].id < auditCh[j].id
    /\ \A i \in DOMAIN auditCh : auditCh[i].id <= issued

WorkerBefore ==
    worker # NoRecord =>
        /\ worker.id <= issued
        /\ \A j \in DOMAIN auditCh : worker.id < auditCh[j].id

LogBefore ==
    \A i \in DOMAIN auditLog :
        /\ auditLog[i].id <= issued
        /\ worker # NoRecord => auditLog[i].id < worker.id
        /\ \A j \in DOMAIN auditCh : auditLog[i].id < auditCh[j].id

OrderInv == ChannelInOrder /\ WorkerBefore /\ LogBefore /\ LoggedInOrder

LEMMA OrderStep == TypeOK /\ OrderInv /\ [Next]_vars => OrderInv'
  <1> SUFFICES ASSUME TypeOK, OrderInv, [Next]_vars PROVE OrderInv'
    OBVIOUS
  <1> USE DEF OrderInv
  <1>0. /\ auditCh \in Seq(Record) /\ auditLog \in Seq(Record)
        /\ issued \in Nat
        /\ worker # NoRecord => worker \in Record /\ worker.id \in Nat
    BY DEF TypeOK, Record
  <1>a. /\ \A i \in DOMAIN auditCh : auditCh[i].id \in Nat /\ i \in Nat
        /\ \A i \in DOMAIN auditLog : auditLog[i].id \in Nat /\ i \in Nat
        /\ Len(auditCh) \in Nat /\ Len(auditLog) \in Nat
    BY <1>0, RecordSeq
  <1>1. ASSUME NEW info \in Infos, LogAuditAsync(info)
        PROVE  OrderInv'
    <2> DEFINE e == [id |-> issued + 1, info |-> info]
               n == Len(auditCh) + 1
    <2>1. e \in Record /\ e.id = issued + 1
      BY <1>0 DEF Record
    <2>2. issued' = issued + 1 /\ UNCHANGED <<worker, auditLog>>
      BY <1>1 DEF LogAuditAsync
    <2>3. CASE auditCh' = auditCh
      BY <1>0, <1>a, <2>2, <2>3 DEF ChannelInOrder, WorkerBefore, LogBefore, LoggedInOrder
    <2>4. CASE auditCh' = Append(auditCh, e)
      <3> HIDE DEF e
      <3>1. /\ DOMAIN auditCh' = DOMAIN auditCh \cup {n}
            /\ \A i \in DOMAIN auditCh : auditCh'[i] = auditCh[i] /\ i < n
            /\ auditCh'[n] = e
        BY <1>0, <2>1, <2>4, Sent
      <3> HIDE DEF n
      <3>2. ChannelInOrder'
        <4>1. ASSUME NEW i \in DOMAIN auditCh', NEW j \in DOMAIN auditCh', i < j
              PROVE  auditCh'[i].id < auditCh'[j].id
          <5>1. i \in DOMAIN auditCh
            BY <1>a, <3>1, <4>1 DEF n
          <5>2. CASE j \in DOMAIN auditCh
            BY <3>1, <4>1, <5>1, <5>2 DEF ChannelInOrder
          <5>3. CASE j = n
            BY <1>0, <1>a, <2>1, <3>1, <5>1, <5>3 DEF ChannelInOrder
          <5> QED
            BY <3>1, <5>2, <5>3
        <4>2. ASSUME NEW i \in DOMAIN auditCh'
              PROVE  auditCh'[i].id <= issued'
          <5>1. CASE i \in DOMAIN auditCh
            BY <1>0, <1>a, <2>2, <3>1, <5>1 DEF ChannelInOrder
          <5>2. CASE i = n
            BY <1>0, <2>1, <2>2, <3>1, <5>2
          <5> QED
            BY <3>1, <5>1, <5>2
        <4> QED
          BY <4>1, <4>2 DEF ChannelInOrder
      <3>3. WorkerBefore'
        BY <1>0, <1>a, <2>1, <2>2, <3>1 DEF WorkerBefore
      <3>4. LogBefore'
        BY <1>0, <1>a, <2>1, <2>2, <3>1 DEF LogBefore
      <3>5. LoggedInOrder'
        BY <2>2 DEF LoggedInOrder
      <3> QED
        BY <3>2, <3>3, <3>4, <3>5
    <2> QED
      BY <1>1, <2>3, <2>4 DEF LogAuditAsync
  <1>2. CASE WorkerTake
    <2>1. /\ worker = NoRecord /\ worker' = auditCh[1] /\ 1 \in DOMAIN auditCh
          /\ \A i \in DOMAIN auditCh' : /\ i + 1 \in DOMAIN auditCh
                                        /\ auditCh'[i] = auditCh[i + 1]
                                        /\ i \in Nat /\ i >= 1
          /\ UNCHANGED <<issued, auditLog>>
      BY <1>0, <1>2, Received DEF WorkerTake
    <2>2. ChannelInOrder'
      <3>1. ASSUME NEW i \in DOMAIN auditCh', NEW j \in DOMAIN auditCh', i < j
            PROVE  auditCh'[i].id < auditCh'[j].id
        <4>1. i + 1 < j + 1 /\ i + 1 \in DOMAIN auditCh /\ j + 1 \in DOMAIN auditCh
          BY <2>1, <3>1
        <4> QED
          BY <2>1, <4>1 DEF ChannelInOrder
      <3>2. ASSUME NEW i \in DOMAIN auditCh'
            PROVE  auditCh'[i].id <= issued'
        BY <2>1 DEF ChannelInOrder
      <3> QED
        BY <3>1, <3>2 DEF ChannelInOrder
    <2>3. WorkerBefore'
      BY <1>a, <2>1 DEF WorkerBefore, ChannelInOrder
    <2>4. LogBefore'
      BY <1>a, <2>1 DEF LogBefore
    <2>5. LoggedInOrder'
      BY <2>1 DEF LoggedInOrder
    <2> QED
      BY <2>2, <2>3, <2>4, <2>5
  <1>3. CASE WorkerInsert
    <2> DEFINE n == Len(auditLog) + 1
    <2>1. /\ DOMAIN auditLog' = DOMAIN auditLog \cup {n}
          /\ \A i \in DOMAIN auditLog : auditLog'[i] = auditLog[i] /\ i < n
          /\ auditLog'[n] = worker
      BY <1>0, <1>3, Sent DEF WorkerInsert
    <2>2. /\ worker # NoRecord /\ worker' = NoRecord
          /\ UNCHANGED <<issued, auditCh>>
      BY <1>3 DEF WorkerInsert
    <2>n. n \in Nat
      BY <1>a
    <2> HIDE DEF n
    <2>3. ChannelInOrder'
      BY <2>2 DEF ChannelInOrder
    <2>4. WorkerBefore'
      BY <2>2 DEF WorkerBefore
    <2>5. LogBefore'
      BY <1>0, <1>a, <2>1, <2>2 DEF WorkerBefore, LogBefore
    <2>6. LoggedInOrder'
      BY <1>0, <1>a, <2>1, <2>2, <2>n DEF LogBefore, LoggedInOrder
    <2> QED
      BY <2>3, <2>4, <2>5, <2>6
  <1>4. CASE WorkerFails
    BY <1>4 DEF WorkerFails, ChannelInOrder, WorkerBefore, LogBefore, LoggedInOrder
  <1>5. CASE ProcessEnds
    BY <1>5 DEF ProcessEnds, ChannelInOrder, WorkerBefore, LogBefore, LoggedInOrder
  <1>6. CASE UNCHANGED vars
    BY <1>6 DEF vars, ChannelInOrder, WorkerBefore, LogBefore, LoggedInOrder
  <1> QED
    BY <1>1, <1>2, <1>3, <1>4, <1>5, <1>6 DEF Next

\* OrderInv holds in every reachable state.
LEMMA OrderCorrect == Spec => []OrderInv
  <1>1. Init => OrderInv
    BY DEF Init, OrderInv, ChannelInOrder, WorkerBefore, LogBefore, LoggedInOrder
  <1> QED
    BY <1>1, OrderStep, TypeCorrect, PTL DEF Spec

\* audit_logs holds the records in the order of the logAuditAsync calls.
THEOREM AuditLogInOrder == Spec => []LoggedInOrder
  <1>1. OrderInv => LoggedInOrder
    BY DEF OrderInv
  <1> QED
    BY <1>1, OrderCorrect, PTL

-----------------------------------------------------------------------------
\* The numbers of the records on the channel and of the one in the worker's hands.
ChannelIds == {auditCh[i].id : i \in DOMAIN auditCh}
WorkerIds == IF worker = NoRecord THEN {} ELSE {worker.id}

\* What a step does to the numbers in flight.
LEMMA FlightStep ==
    ASSUME TypeOK, OrderInv
    PROVE  /\ \A info \in Infos : LogAuditAsync(info) =>
                 \/ InFlight' = InFlight /\ dropped' = dropped \cup {issued + 1}
                 \/ InFlight' = InFlight \cup {issued + 1} /\ dropped' = dropped
           /\ WorkerTake => InFlight' = InFlight /\ worker' # NoRecord
           /\ WorkerInsert \/ WorkerFails =>
                 InFlight = InFlight' \cup {worker.id} /\ worker.id \notin InFlight'
           /\ ProcessEnds => InFlight' = {}
  <1>0. /\ auditCh \in Seq(Record) /\ auditLog \in Seq(Record) /\ issued \in Nat
        /\ worker # NoRecord => worker \in Record /\ worker.id \in Nat
    BY DEF TypeOK, Record
  <1>a. \A i \in DOMAIN auditCh : auditCh[i].id \in Nat
    BY <1>0, RecordSeq
  <1>b. InFlight = ChannelIds \cup WorkerIds /\ InFlight' = ChannelIds' \cup WorkerIds'
    BY DEF InFlight, ChannelIds, WorkerIds
  <1>c. worker # NoRecord => worker.id \notin ChannelIds
    <2> SUFFICES ASSUME worker # NoRecord, NEW i \in DOMAIN auditCh, auditCh[i].id = worker.id
                 PROVE  FALSE
      BY DEF ChannelIds
    <2> QED
      BY <1>0, <1>a DEF OrderInv, WorkerBefore
  <1>1. ASSUME NEW info \in Infos, LogAuditAsync(info)
        PROVE  \/ InFlight' = InFlight /\ dropped' = dropped \cup {issued + 1}
               \/ InFlight' = InFlight \cup {issued + 1} /\ dropped' = dropped
    <2> DEFINE e == [id |-> issued + 1, info |-> info]
    <2>1. e \in Record /\ e.id = issued + 1
      BY <1>0 DEF Record
    <2>3. WorkerIds' = WorkerIds
      BY <1>1 DEF LogAuditAsync, WorkerIds
    <2>4. CASE auditCh' = auditCh /\ dropped' = dropped \cup {issued + 1}
      BY <1>b, <2>3, <2>4 DEF ChannelIds
    <2>5. CASE auditCh' = Append(auditCh, e) /\ dropped' = dropped
      <3> HIDE DEF e
      <3>1. ChannelIds' = ChannelIds \cup {issued + 1}
        BY <1>0, <2>1, <2>5, Sent DEF ChannelIds
      <3> QED
        BY <1>b, <2>3, <2>5, <3>1
    <2> QED
      BY <1>1, <2>4, <2>5 DEF LogAuditAsync
  <1>2. ASSUME WorkerTake PROVE InFlight' = InFlight /\ worker' # NoRecord
    <2>1. /\ worker = NoRecord /\ worker' = auditCh[1] /\ worker' \in Record
          /\ 1 \in DOMAIN auditCh /\ auditCh' = Tail(auditCh)
          /\ \A i \in DOMAIN auditCh' : i + 1 \in DOMAIN auditCh /\ auditCh'[i] = auditCh[i + 1]
          /\ \A j \in DOMAIN auditCh : j = 1 \/ j - 1 \in DOMAIN auditCh'
      BY <1>0, <1>2, Received DEF WorkerTake
    <2>2. \A j \in DOMAIN auditCh : j \in Nat
      BY <1>0, RecordSeq
    <2>3. ChannelIds = ChannelIds' \cup {worker'.id}
      <3>1. ASSUME NEW j \in DOMAIN auditCh
            PROVE  auditCh[j].id \in ChannelIds' \cup {worker'.id}
        <4>1. CASE j # 1
          <5>1. j - 1 \in DOMAIN auditCh' /\ auditCh'[j - 1] = auditCh[j]
            BY <2>1, <2>2, <4>1
          <5> QED
            BY <5>1 DEF ChannelIds
        <4> QED
          BY <2>1, <4>1
      <3>2. ASSUME NEW i \in DOMAIN auditCh'
            PROVE  auditCh'[i].id \in ChannelIds
        BY <2>1 DEF ChannelIds
      <3>3. worker'.id \in ChannelIds
        BY <2>1 DEF ChannelIds
      <3> QED
        BY <3>1, <3>2, <3>3 DEF ChannelIds
    <2>4. WorkerIds = {} /\ WorkerIds' = {worker'.id}
      BY <2>1, NoRecordAssumption DEF WorkerIds
    <2> QED
      BY <1>b, <2>1, <2>3, <2>4, NoRecordAssumption
  <1>3. ASSUME WorkerInsert \/ WorkerFails
        PROVE  InFlight = InFlight' \cup {worker.id} /\ worker.id \notin InFlight'
    <2>1. worker # NoRecord /\ ChannelIds' = ChannelIds
          /\ WorkerIds = {worker.id} /\ WorkerIds' = {}
      BY <1>3 DEF WorkerInsert, WorkerFails, ChannelIds, WorkerIds
    <2> QED
      BY <1>b, <1>c, <2>1
  <1>4. ASSUME ProcessEnds PROVE InFlight' = {}
    BY <1>4 DEF ProcessEnds, InFlight
  <1> QED
    BY <1>1, <1>2, <1>3, <1>4

\* A step moves each number from one place to the next, and to one place only.
LEMMA OnceStep == TypeOK /\ OrderInv /\ EachRecordOnce /\ [Next]_vars => EachRecordOnce'
  <1> SUFFICES ASSUME TypeOK, OrderInv, EachRecordOnce, [Next]_vars PROVE EachRecordOnce'
    OBVIOUS
  <1>0. /\ auditCh \in Seq(Record) /\ auditLog \in Seq(Record) /\ issued \in Nat
        /\ worker # NoRecord => worker \in Record /\ worker.id \in Nat
    BY DEF TypeOK, Record
  <1>d. InFlight \subseteq 1 .. issued
    BY DEF EachRecordOnce
  <1>1. ASSUME NEW info \in Infos, LogAuditAsync(info)
        PROVE  EachRecordOnce'
    <2>1. /\ 1 .. issued' = (1 .. issued) \cup {issued + 1} /\ issued + 1 \notin 1 .. issued
          /\ Logged' = Logged /\ UNCHANGED <<failed, lost>>
      BY <1>0, <1>1 DEF LogAuditAsync, Logged
    <2>2. CASE InFlight' = InFlight /\ dropped' = dropped \cup {issued + 1}
      BY <2>1, <2>2 DEF EachRecordOnce
    <2>3. CASE InFlight' = InFlight \cup {issued + 1} /\ dropped' = dropped
      BY <2>1, <2>3 DEF EachRecordOnce
    <2> QED
      BY <1>1, <2>2, <2>3, FlightStep
  <1>2. CASE WorkerTake
    <2>1. UNCHANGED <<issued, Logged, dropped, failed, lost>>
      BY <1>2 DEF WorkerTake, Logged
    <2> QED
      BY <1>2, <2>1, FlightStep DEF EachRecordOnce
  <1>3. CASE WorkerInsert
    <2>1. UNCHANGED <<issued, dropped, failed, lost>>
      BY <1>3 DEF WorkerInsert
    <2>2. Logged' = Logged \cup {worker.id}
      BY <1>0, <1>3, Sent DEF WorkerInsert, Logged
    <2>3. InFlight = InFlight' \cup {worker.id} /\ worker.id \notin InFlight'
      BY <1>3, FlightStep
    <2> QED
      BY <2>1, <2>2, <2>3 DEF EachRecordOnce
  <1>4. CASE WorkerFails
    <2>1. failed' = failed \cup {worker.id} /\ UNCHANGED <<issued, Logged, dropped, lost>>
      BY <1>4 DEF WorkerFails, Logged
    <2>2. InFlight = InFlight' \cup {worker.id} /\ worker.id \notin InFlight'
      BY <1>4, FlightStep
    <2> QED
      BY <2>1, <2>2 DEF EachRecordOnce
  <1>5. CASE ProcessEnds
    <2>1. lost' = lost \cup InFlight /\ UNCHANGED <<issued, Logged, dropped, failed>>
      BY <1>5 DEF ProcessEnds, Logged
    <2>2. InFlight' = {}
      BY <1>5, FlightStep
    <2> QED
      BY <2>1, <2>2 DEF EachRecordOnce
  <1>6. CASE UNCHANGED vars
    <2>1. UNCHANGED <<issued, Logged, InFlight, dropped, failed, lost>>
      BY <1>6 DEF vars, Logged, InFlight
    <2> QED
      BY <2>1 DEF EachRecordOnce
  <1> QED
    BY <1>1, <1>2, <1>3, <1>4, <1>5, <1>6 DEF Next

\* No record of logAuditAsync is lost without trace or stored twice, whatever the
\* drops, the failed inserts and the restarts.
THEOREM EveryRecordOnce == Spec => []EachRecordOnce
  <1>1. Init => EachRecordOnce
    BY DEF Init, EachRecordOnce, InFlight, Logged
  <1> QED
    BY <1>1, OnceStep, OrderCorrect, TypeCorrect, PTL DEF Spec

\* The steps the worker takes before record n is stored or failed: two for each record
\* that is not behind n, or one if it has taken that record already.
TurnsLeft(n) ==
    2 * Cardinality({m \in InFlight : m <= n}) - IF worker = NoRecord THEN 0 ELSE 1

\* A record on its way is at most a full channel and the worker's record away from the
\* table ...
TurnsBounded == \A n \in InFlight : TurnsLeft(n) \in 1 .. 2 * Cap + 1

\* ... no later call gets in front of it, and every step of the worker brings it closer.
RecordsAdvance ==
    [][\A n \in InFlight : n \in InFlight' =>
          /\ TurnsLeft(n)' <= TurnsLeft(n)
          /\ worker' # worker => TurnsLeft(n)' < TurnsLeft(n)]_vars

LEMMA FlightBounded ==
    ASSUME TypeOK, OrderInv
    PROVE  /\ InFlight \subseteq Nat /\ \A n \in InFlight : n <= issued
           /\ IsFiniteSet(InFlight)
           /\ Cardinality(InFlight) <= Cap + IF worker = NoRecord THEN 0 ELSE 1
           /\ worker # NoRecord => worker.id \in InFlight /\ \A n \in InFlight : worker.id <= n
  <1>0. /\ auditCh \in Seq(Record) /\ issued \in Nat /\ Len(auditCh) \in Nat /\ Len(auditCh) <= Cap
        /\ worker # NoRecord => worker \in Record /\ worker.id \in Nat
        /\ DOMAIN auditCh = 1 .. Len(auditCh) /\ Cap \in Nat
        /\ \A i \in DOMAIN auditCh : auditCh[i].id \in Nat
    BY RecordSeq, AuditAssumption DEF TypeOK, Record
  <1>1. InFlight = ChannelIds \cup WorkerIds
    BY DEF InFlight, ChannelIds, WorkerIds
  <1>2. \A n \in ChannelIds : /\ n \in Nat /\ n <= issued
                              /\ worker # NoRecord => worker.id <= n
    BY <1>0 DEF OrderInv, ChannelInOrder, WorkerBefore, ChannelIds
  <1>3. \A n \in WorkerIds : worker # NoRecord /\ n = worker.id /\ n \in Nat /\ n <= issued
    BY <1>0 DEF OrderInv, WorkerBefore, WorkerIds
  <1>4. worker # NoRecord => worker.id \in WorkerIds
    BY DEF WorkerIds
  <1> DEFINE f == [i \in DOMAIN auditCh |-> auditCh[i].id]
  <1>5. f \in Surjection(DOMAIN auditCh, ChannelIds)
    BY DEF Surjection, ChannelIds
  <1>6. IsFiniteSet(DOMAIN auditCh) /\ Cardinality(DOMAIN auditCh) = Len(auditCh)
    <2>1. PICK k \in Nat : k = Len(auditCh) /\ DOMAIN auditCh = 1 .. k
      BY <1>0
    <2>2. IsFiniteSet(1 .. k) /\ Cardinality(1 .. k) = IF 1 > k THEN 0 ELSE k - 1 + 1
      BY FS_Interval
    <2> QED
      BY <2>1, <2>2
  <1>7. IsFiniteSet(ChannelIds) /\ Cardinality(ChannelIds) <= Len(auditCh)
    BY <1>5, <1>6, FS_Surjection
  <1>8. Cardinality(ChannelIds) \in Nat
    BY <1>7, FS_CardinalityType
  <1>9. IsFiniteSet(InFlight) /\ Cardinality(InFlight) <= Cap + IF worker = NoRecord THEN 0 ELSE 1
    <2>1. CASE worker = NoRecord
      <3>1. InFlight = ChannelIds
        BY <1>1, <2>1 DEF WorkerIds
      <3> QED
        BY <1>0, <1>7, <1>8, <2>1, <3>1
    <2>2. CASE worker # NoRecord
      <3>1. InFlight = ChannelIds \cup {worker.id}
        BY <1>1, <2>2 DEF WorkerIds
      <3>2. /\ IsFiniteSet(ChannelIds \cup {worker.id})
            /\ Cardinality(ChannelIds \cup {worker.id}) \in {Cardinality(ChannelIds), Cardinality(ChannelIds) + 1}
        BY <1>7, FS_AddElement
      <3> QED
        BY <1>0, <1>7, <1>8, <2>2, <3>1, <3>2
    <2> QED
      BY <2>1, <2>2
  <1> QED
    BY <1>0, <1>1, <1>2, <1>3, <1>4, <1>9

\* The records that are not behind n.
LEMMA UpToFinite ==
    ASSUME TypeOK, OrderInv, NEW n
    PROVE  /\ IsFiniteSet({m \in InFlight : m <= n})
           /\ Cardinality({m \in InFlight : m <= n}) \in Nat
           /\ Cardinality({m \in InFlight : m <= n}) <= Cardinality(InFlight)
  <1> DEFINE U == {m \in InFlight : m <= n}
  <1>1. U \in SUBSET InFlight
    OBVIOUS
  <1>2. IsFiniteSet(InFlight)
    BY FlightBounded
  <1> HIDE DEF U
  <1>3. IsFiniteSet(U) /\ Cardinality(U) <= Cardinality(InFlight)
    BY <1>1, <1>2, FS_Subset
  <1>4. Cardinality(U) \in Nat
    BY <1>3, FS_CardinalityType
  <1> QED
    BY <1>3, <1>4 DEF U

LEMMA TurnsStep ==
    ASSUME TypeOK, OrderInv, [Next]_vars, NEW n \in InFlight, n \in InFlight'
    PROVE  /\ TurnsLeft(n)' <= TurnsLeft(n)
           /\ worker' # worker => TurnsLeft(n)' < TurnsLeft(n)
  <1> DEFINE U == {m \in InFlight : m <= n}
             w == IF worker = NoRecord THEN 0 ELSE 1
  <1>1. IsFiniteSet(U) /\ Cardinality(U) \in Nat /\ n \in Nat /\ n <= issued /\ issued \in Nat
    BY UpToFinite, FlightBounded DEF TypeOK
  <1>2. TurnsLeft(n) = 2 * Cardinality(U) - w /\ TurnsLeft(n)' = 2 * Cardinality(U') - w'
    BY DEF TurnsLeft
  <1>3. ASSUME NEW info \in Infos, LogAuditAsync(info)
        PROVE  U' = U /\ worker' = worker
    <2>1. worker' = worker
      BY <1>3 DEF LogAuditAsync
    <2>2. ~ (issued + 1 <= n)
      BY <1>1
    <2>3. InFlight' \in {InFlight, InFlight \cup {issued + 1}}
      BY <1>3, FlightStep
    <2> QED
      BY <2>1, <2>2, <2>3
  <1>4. CASE WorkerTake
    <2>1. InFlight' = InFlight /\ worker' # NoRecord /\ worker = NoRecord
      BY <1>4, FlightStep DEF WorkerTake
    <2>2. U' = U
      BY <2>1
    <2>3. w = 0 /\ w' = 1
      BY <2>1
    <2> HIDE DEF U, w
    <2> QED
      BY <1>1, <1>2, <2>2, <2>3
  <1>5. CASE WorkerInsert \/ WorkerFails
    <2>1. /\ InFlight = InFlight' \cup {worker.id} /\ worker.id \notin InFlight'
          /\ worker # NoRecord /\ worker' = NoRecord
      BY <1>5, FlightStep DEF WorkerInsert, WorkerFails
    <2>2. worker.id <= n /\ worker.id \in U
      BY <2>1, FlightBounded
    <2>3. U' = U \ {worker.id}
      BY <2>1
    <2>4. w = 1 /\ w' = 0
      BY <2>1
    <2> HIDE DEF U, w
    <2>5. Cardinality(U \ {worker.id}) = Cardinality(U) - 1
      BY <1>1, <2>2, FS_RemoveElement
    <2>6. Cardinality(U') = Cardinality(U) - 1
      BY <2>3, <2>5
    <2> QED
      BY <1>1, <1>2, <2>4, <2>6
  <1>6. CASE ProcessEnds
    BY <1>6, FlightStep
  <1>7. ASSUME UNCHANGED vars PROVE U' = U /\ worker' = worker
    BY <1>7 DEF vars, InFlight
  <1>8. CASE U' = U /\ worker' = worker
    <2>1. w' = w /\ w \in {0, 1}
      BY <1>8
    <2> HIDE DEF U, w
    <2>2. TurnsLeft(n)' = TurnsLeft(n) /\ TurnsLeft(n) \in Int
      BY <1>1, <1>2, <1>8, <2>1
    <2> QED
      BY <1>8, <2>2
  <1> QED
    BY <1>3, <1>4, <1>5, <1>6, <1>7, <1>8 DEF Next

\* A record on the channel is stored or failed within 2 * Cap + 1 steps of the worker
\* (1000 is the channel's capacity), however many calls follow: with the worker's
\* fairness this is why every record settles (RecordsSettle).
THEOREM RecordsComeToTheirTurn == Spec => []TurnsBounded /\ RecordsAdvance
  <1>1. TypeOK /\ OrderInv => TurnsBounded
    <2> SUFFICES ASSUME TypeOK, OrderInv, NEW n \in InFlight
                 PROVE  TurnsLeft(n) \in 1 .. 2 * Cap + 1
      BY DEF TurnsBounded
    <2> DEFINE U == {m \in InFlight : m <= n}
               w == IF worker = NoRecord THEN 0 ELSE 1
    <2>1. /\ IsFiniteSet(U) /\ Cardinality(U) \in Nat /\ Cardinality(U) <= Cardinality(InFlight)
          /\ IsFiniteSet(InFlight) /\ Cardinality(InFlight) <= Cap + w /\ n \in Nat
      BY UpToFinite, FlightBounded
    <2>2. n \in U
      BY <2>1
    <2>3. Cardinality(InFlight) \in Nat
      BY <2>1, FS_CardinalityType
    <2>4. w \in {0, 1} /\ Cap \in Nat /\ TurnsLeft(n) = 2 * Cardinality(U) - w
      BY AuditAssumption DEF TurnsLeft
    <2> HIDE DEF U, w
    <2>5. Cardinality(U) # 0
      BY <2>1, <2>2, FS_EmptySet
    <2> QED
      BY <2>1, <2>3, <2>4, <2>5
  <1>2. TypeOK /\ OrderInv /\ [Next]_vars =>
          [\A n \in InFlight : n \in InFlight' =>
              /\ TurnsLeft(n)' <= TurnsLeft(n)
              /\ worker' # worker => TurnsLeft(n)' < TurnsLeft(n)]_vars
    BY TurnsStep
  <1> QED
    BY <1>1, <1>2, TypeCorrect, OrderCorrect, PTL DEF Spec, RecordsAdvance

-----------------------------------------------------------------------------
(* PortalTelemetry.                                                         *)

\* The portal only reads: the trail's part of its behaviours is a behaviour of the
\* trail.
LEMMA TelemetryOfTrail == TelemetrySpec => Spec
  <1>1. TelemetryInit => Init
    BY DEF TelemetryInit
  <1>2. [TelemetryNext]_telemetryVars => [Next]_vars
    BY DEF TelemetryNext, TrailStep, Tick, LoadTelemetry, telemetryVars, vars
  <1> QED
    BY <1>1, <1>2, PTL DEF TelemetrySpec, Spec

\* Every row has its stamp, and later rows have later stamps or the same.
StampsInOrder ==
    /\ clock \in Nat /\ stamps \in Seq(Nat) /\ Len(stamps) = Len(auditLog)
    /\ \A i \in 1 .. Len(stamps) : stamps[i] <= clock
    /\ \A i, j \in 1 .. Len(stamps) : i < j => stamps[i] <= stamps[j]

\* What was loaded stays the newest part of what the table held then.
LoadedNewest ==
    /\ tableLen \in Nat /\ tableLen <= Len(stamps)
    /\ loaded \in Seq(1 .. tableLen)
    /\ \A i, j \in DOMAIN loaded : i < j =>
          loaded[i] # loaded[j] /\ stamps[loaded[i]] >= stamps[loaded[j]]
    /\ \A k \in (1 .. tableLen) \ Range(loaded) : \A i \in DOMAIN loaded :
          stamps[k] <= stamps[loaded[i]]

\* Min of two numbers.
LEMMA MinOfTwo ==
    ASSUME NEW a \in Nat, NEW b \in Nat
    PROVE  /\ Min({a, b}) \in Nat /\ Min({a, b}) <= a
           /\ Min({a, b}) = IF a <= b THEN a ELSE b
  <1>1. CASE a <= b
    <2>1. \A x \in {a, b} : (\A y \in {a, b} : x =< y) <=> x = a
      BY <1>1
    <2> QED
      BY <1>1, <2>1 DEF Min
  <1>2. CASE ~ (a <= b)
    <2>1. \A x \in {a, b} : (\A y \in {a, b} : x =< y) <=> x = b
      BY <1>2
    <2> QED
      BY <1>2, <2>1 DEF Min
  <1> QED
    BY <1>1, <1>2

\* An insert appends the row and its stamp; nothing else changes either.
LEMMA RowsOnlyAppended ==
    ASSUME TypeOK, [Next]_vars
    PROVE  \/ UNCHANGED auditLog
           \/ /\ worker # NoRecord /\ auditLog' = Append(auditLog, worker)
              /\ Len(auditLog') = Len(auditLog) + 1
  <1>1. CASE WorkerInsert
    <2>1. auditLog \in Seq(Record) /\ worker \in Record
      BY <1>1 DEF TypeOK, WorkerInsert
    <2> QED
      BY <1>1, <2>1, Sent DEF WorkerInsert
  <1>2. CASE ~ WorkerInsert
    BY <1>2 DEF Next, LogAuditAsync, WorkerTake, WorkerFails, ProcessEnds, vars
  <1> QED
    BY <1>1, <1>2

LEMMA StampsStep == TypeOK /\ StampsInOrder /\ [TelemetryNext]_telemetryVars => StampsInOrder'
  <1> SUFFICES ASSUME TypeOK, StampsInOrder, [TelemetryNext]_telemetryVars PROVE StampsInOrder'
    OBVIOUS
  <1>0. /\ clock \in Nat /\ stamps \in Seq(Nat) /\ Len(stamps) = Len(auditLog)
        /\ Len(stamps) \in Nat /\ \A i \in 1 .. Len(stamps) : stamps[i] \in Nat
    BY LenProperties, ElementOfSeq DEF StampsInOrder
  <1>1. CASE TrailStep
    <2>0. clock' = clock
      BY <1>1 DEF TrailStep
    <2>1. CASE UNCHANGED auditLog
      <3>1. stamps' = stamps
        BY <1>0, <1>1, <2>1 DEF TrailStep
      <3> QED
        BY <2>0, <2>1, <3>1 DEF StampsInOrder
    <2>2. CASE Len(auditLog') = Len(auditLog) + 1
      <3>1. stamps' = Append(stamps, clock)
        BY <1>0, <1>1, <2>2 DEF TrailStep
      <3>2. /\ stamps' \in Seq(Nat) /\ Len(stamps') = Len(stamps) + 1
            /\ \A i \in 1 .. Len(stamps) : stamps'[i] = stamps[i]
            /\ stamps'[Len(stamps) + 1] = clock
        BY <1>0, <3>1, AppendProperties
      <3>3. \A i \in 1 .. Len(stamps') : i \in 1 .. Len(stamps) \/ i = Len(stamps) + 1
        BY <1>0, <3>2
      <3>4. \A i \in 1 .. Len(stamps') : stamps'[i] <= clock'
        BY <1>0, <2>0, <3>2, <3>3 DEF StampsInOrder
      <3>5. ASSUME NEW i \in 1 .. Len(stamps'), NEW j \in 1 .. Len(stamps'), i < j
            PROVE  stamps'[i] <= stamps'[j]
        <4>1. i \in 1 .. Len(stamps)
          BY <1>0, <3>2, <3>3, <3>5
        <4>2. CASE j \in 1 .. Len(stamps)
          BY <3>2, <3>5, <4>1, <4>2 DEF StampsInOrder
        <4>3. CASE j = Len(stamps) + 1
          BY <3>2, <4>1, <4>3 DEF StampsInOrder
        <4> QED
          BY <3>3, <4>2, <4>3
      <3> QED
        BY <1>0, <2>0, <2>2, <3>2, <3>4, <3>5 DEF StampsInOrder
    <2> QED
      BY <1>1, <2>1, <2>2, RowsOnlyAppended DEF TrailStep
  <1>2. CASE Tick
    <2>1. clock' = clock + 1 /\ UNCHANGED <<stamps, auditLog>>
      BY <1>2 DEF Tick, vars
    <2> QED
      BY <1>0, <2>1 DEF StampsInOrder
  <1>3. CASE LoadTelemetry \/ UNCHANGED telemetryVars
    <2>1. UNCHANGED <<clock, stamps, auditLog>>
      BY <1>3 DEF LoadTelemetry, telemetryVars, vars
    <2> QED
      BY <2>1 DEF StampsInOrder
  <1> QED
    BY <1>1, <1>2, <1>3 DEF TelemetryNext
\* A load replaces the list by the newest rows of the table; rows added later do not
\* disturb it.
LEMMA LoadedStep ==
    TypeOK /\ StampsInOrder /\ LoadedNewest /\ [TelemetryNext]_telemetryVars => LoadedNewest'
  <1> SUFFICES ASSUME TypeOK, StampsInOrder, LoadedNewest, [TelemetryNext]_telemetryVars
               PROVE  LoadedNewest'
    OBVIOUS
  <1>0. /\ stamps \in Seq(Nat) /\ Len(stamps) \in Nat /\ Len(stamps) = Len(auditLog)
        /\ auditLog \in Seq(Record) /\ DOMAIN auditLog = 1 .. Len(auditLog)
    BY LenProperties DEF StampsInOrder, TypeOK
  <1>1. CASE TrailStep \/ Tick \/ UNCHANGED telemetryVars
    <2>1. /\ UNCHANGED <<loaded, tableLen>>
          /\ stamps' = stamps \/ stamps' = Append(stamps, clock)
      BY <1>1 DEF TrailStep, Tick, telemetryVars
    <2>2. clock \in Nat
      BY DEF StampsInOrder
    <2>3. Len(stamps') \in Nat /\ Len(stamps) <= Len(stamps')
          /\ \A i \in 1 .. Len(stamps) : stamps'[i] = stamps[i]
      <3>1. CASE stamps' = stamps
        BY <1>0, <3>1
      <3>2. CASE stamps' = Append(stamps, clock)
        <4>1. /\ Len(Append(stamps, clock)) = Len(stamps) + 1
              /\ \A i \in 1 .. Len(stamps) : Append(stamps, clock)[i] = stamps[i]
          BY <1>0, <2>2, AppendProperties
        <4> QED
          BY <1>0, <3>2, <4>1
      <3> QED
        BY <2>1, <3>1, <3>2
    <2>4. /\ \A i \in DOMAIN loaded : loaded[i] \in 1 .. tableLen
          /\ tableLen \in Nat /\ tableLen <= Len(stamps)
      BY LenProperties, ElementOfSeq DEF LoadedNewest
    <2>5. \A k \in 1 .. tableLen : stamps'[k] = stamps[k]
      BY <1>0, <2>3, <2>4
    <2>6. tableLen' <= Len(stamps')
      BY <1>0, <2>1, <2>3, <2>4
    <2> QED
      BY <2>1, <2>4, <2>5, <2>6 DEF LoadedNewest
  <1>2. CASE LoadTelemetry
    <2> DEFINE n == Min({Len(auditLog), LogLimit})
    <2>1. n \in Nat
      BY <1>0, MinOfTwo, TelemetryAssumption
    <2>2. /\ loaded' \in [1 .. n -> 1 .. Len(auditLog)]
          /\ \A i, j \in 1 .. n : i < j =>
                loaded'[i] # loaded'[j] /\ stamps[loaded'[i]] >= stamps[loaded'[j]]
          /\ \A k \in (1 .. Len(auditLog)) \ Range(loaded') : \A i \in 1 .. n :
                stamps[k] <= stamps[loaded'[i]]
      BY <1>0, <1>2 DEF LoadTelemetry, GetAuditLogs
    <2>3. tableLen' = Len(auditLog) /\ stamps' = stamps
      BY <1>2 DEF LoadTelemetry
    <2> HIDE DEF n
    <2>4. loaded' \in Seq(1 .. tableLen') /\ DOMAIN loaded' = 1 .. n
      BY <2>1, <2>2, <2>3, SeqDef
    <2> QED
      BY <1>0, <2>2, <2>3, <2>4 DEF LoadedNewest
  <1> QED
    BY <1>1, <1>2 DEF TelemetryNext

\* The points of the latency chart are the first rows of the answer, backwards.
LEMMA LatencyPoints ==
    ASSUME NEW S, NEW logs \in Seq(S)
    PROVE  \E n \in Nat :
             /\ n <= Len(logs)
             /\ DOMAIN LatencyData(logs) = 1 .. n
             /\ \A i \in 1 .. n : LatencyData(logs)[i] = logs[n - i + 1]
  <1> DEFINE n == Min({Len(logs), ChartPoints})
             first == SubSeq(logs, 1, n)
  <1>1. Len(logs) \in Nat /\ \A i \in 1 .. Len(logs) : logs[i] \in S
    BY LenProperties, ElementOfSeq
  <1>2. n \in Nat /\ n <= Len(logs)
    BY <1>1, MinOfTwo, TelemetryAssumption
  <1>3. LatencyData(logs) = Reverse(first)
    BY DEF LatencyData
  <1> HIDE DEF n
  <1>4. Len(first) = n /\ \A i \in 1 .. n : first[i] = logs[i]
    <2>1. \A i \in 1 .. n : logs[i] \in S
      BY <1>1, <1>2
    <2>2. Len(first) = (IF 1 <= n THEN n - 1 + 1 ELSE 0)
          /\ \A i \in 1 .. n - 1 + 1 : first[i] = logs[1 + i - 1]
      BY <1>2, <2>1, SubSeqProperties
    <2> QED
      BY <1>2, <2>2
  <1> HIDE DEF first
  <1>5. Reverse(first) = [i \in 1 .. n |-> first[(n - i) + 1]]
    BY <1>4 DEF Reverse
  <1>6. ASSUME NEW i \in 1 .. n
        PROVE  Reverse(first)[i] = logs[n - i + 1]
    <2>1. (n - i) + 1 \in 1 .. n
      BY <1>2
    <2> QED
      BY <1>4, <1>5, <2>1
  <1> QED
    BY <1>2, <1>3, <1>5, <1>6

\* Rows whose stamps differ are numbered in the order of their stamps.
LEMMA StampsFollowNumbers ==
    ASSUME TypeOK, OrderInv, StampsInOrder,
           NEW a \in 1 .. Len(stamps), NEW b \in 1 .. Len(stamps), stamps[a] < stamps[b]
    PROVE  auditLog[a].id < auditLog[b].id
  <1>0. /\ stamps \in Seq(Nat) /\ Len(stamps) \in Nat /\ Len(stamps) = Len(auditLog)
        /\ \A i \in 1 .. Len(stamps) : stamps[i] \in Nat
        /\ DOMAIN auditLog = 1 .. Len(auditLog)
    BY LenProperties, ElementOfSeq DEF StampsInOrder, TypeOK
  <1>1. a < b
    <2>1. CASE b < a
      BY <1>0, <2>1 DEF StampsInOrder
    <2> QED
      BY <1>0, <2>1
  <1> QED
    BY <1>0, <1>1 DEF OrderInv, LoggedInOrder

\* The invariants give the property.
LEMMA ChartFollows ==
    TypeOK /\ OrderInv /\ StampsInOrder /\ LoadedNewest => ChartIsTheRecentPast
  <1> SUFFICES ASSUME TypeOK, OrderInv, StampsInOrder, LoadedNewest
               PROVE  ChartIsTheRecentPast
    OBVIOUS
  <1> DEFINE data == LatencyData(loaded)
  <1>0. /\ Len(stamps) \in Nat /\ tableLen \in Nat /\ tableLen <= Len(stamps)
        /\ \A i \in 1 .. Len(stamps) : stamps[i] \in Nat
        /\ Len(loaded) \in Nat /\ DOMAIN loaded = 1 .. Len(loaded)
        /\ \A i \in DOMAIN loaded : loaded[i] \in 1 .. tableLen
    BY LenProperties, ElementOfSeq DEF StampsInOrder, LoadedNewest
  <1>1. PICK n \in Nat : /\ n <= Len(loaded) /\ DOMAIN data = 1 .. n
                        /\ \A i \in 1 .. n : data[i] = loaded[n - i + 1]
    BY LatencyPoints DEF LoadedNewest
  <1>2. \A k \in 1 .. tableLen : k \in 1 .. Len(stamps)
    BY <1>0
  <1>3. \A i \in 1 .. n : n - i + 1 \in DOMAIN loaded /\ n - i + 1 \in 1 .. n
    BY <1>0, <1>1
  <1>4. \A i \in 1 .. n : data[i] \in 1 .. tableLen
    BY <1>0, <1>1, <1>3
  <1> HIDE DEF data
  <1>5. ASSUME NEW i \in DOMAIN data, NEW j \in DOMAIN data, i < j
        PROVE  \/ auditLog[data[i]].id < auditLog[data[j]].id
               \/ stamps[data[i]] = stamps[data[j]]
    <2>1. n - j + 1 < n - i + 1
      BY <1>1, <1>5
    <2>2. stamps[data[j]] >= stamps[data[i]]
      BY <1>1, <1>3, <2>1 DEF LoadedNewest
    <2>3. data[i] \in 1 .. Len(stamps) /\ data[j] \in 1 .. Len(stamps)
      BY <1>1, <1>2, <1>4
    <2> QED
      BY <1>0, <2>2, <2>3, StampsFollowNumbers
  <1>6. ASSUME NEW k \in (1 .. tableLen) \ Range(data), NEW i \in DOMAIN data
        PROVE  auditLog[k].id < auditLog[data[i]].id \/ stamps[k] = stamps[data[i]]
    <2>1. stamps[k] <= stamps[data[i]]
      <3>1. CASE k \notin Range(loaded)
        BY <1>1, <1>3, <3>1 DEF LoadedNewest
      <3>2. CASE k \in Range(loaded)
        <4>1. PICK m \in DOMAIN loaded : k = loaded[m]
          BY <3>2 DEF Range
        <4>2. m > n
          <5>1. CASE m <= n
            <6>1. n - m + 1 \in 1 .. n /\ n - (n - m + 1) + 1 = m
              BY <1>0, <1>1, <4>1, <5>1
            <6>2. data[n - m + 1] = k /\ n - m + 1 \in DOMAIN data
              BY <1>1, <4>1, <6>1
            <6> QED
              BY <6>2 DEF Range
          <5> QED
            BY <1>0, <1>1, <5>1
        <4>3. n - i + 1 < m /\ n - i + 1 \in DOMAIN loaded /\ data[i] = loaded[n - i + 1]
          BY <1>0, <1>1, <1>3, <4>2
        <4> QED
          BY <4>1, <4>3 DEF LoadedNewest
      <3> QED
        BY <3>1, <3>2
    <2>2. data[i] \in 1 .. Len(stamps) /\ k \in 1 .. Len(stamps)
      BY <1>1, <1>2, <1>4
    <2> QED
      BY <1>0, <2>1, <2>2, StampsFollowNumbers
  <1> QED
    BY <1>5, <1>6 DEF ChartIsTheRecentPast, data

\* The invariants of the telemetry view.
LEMMA LoadedCorrect ==
    TelemetrySpec => []TypeOK /\ []OrderInv /\ []StampsInOrder /\ []LoadedNewest
  <1>1. TelemetryInit => StampsInOrder /\ LoadedNewest
    <2> SUFFICES ASSUME TelemetryInit PROVE StampsInOrder /\ LoadedNewest
      OBVIOUS
    <2>1. /\ clock = 0 /\ stamps = <<>> /\ auditLog = <<>> /\ loaded = <<>> /\ tableLen = 0
      BY DEF TelemetryInit, Init
    <2>2. Len(<<>>) = 0 /\ <<>> \in Seq(Nat) /\ <<>> \in Seq(1 .. 0) /\ DOMAIN <<>> = {}
      BY EmptySeq
    <2> QED
      BY <2>1, <2>2 DEF StampsInOrder, LoadedNewest
  <1>2. TelemetrySpec => []TypeOK /\ []OrderInv
    BY TelemetryOfTrail, TypeCorrect, OrderCorrect, PTL
  <1>3. TelemetrySpec => []StampsInOrder
    BY <1>1, <1>2, StampsStep, PTL DEF TelemetrySpec
  <1>4. TelemetrySpec => []LoadedNewest
    BY <1>1, <1>2, <1>3, LoadedStep, PTL DEF TelemetrySpec
  <1> QED
    BY <1>2, <1>3, <1>4, PTL

\* The latency chart is drawn from the most recent calls, oldest first, but for the
\* calls of one second: whatever was dropped, failed or lost in a restart, and however
\* long ago the view was loaded.
THEOREM ChartShowsTheRecentPast == TelemetrySpec => []ChartIsTheRecentPast
  BY LoadedCorrect, ChartFollows, PTL

-----------------------------------------------------------------------------
(* Largest members and ranks.                                               *)

\* A set of naturals with a member has a least one.
LEMMA LeastNatural ==
    ASSUME NEW T \in SUBSET Nat, T # {}
    PROVE  \E m \in T : \A y \in T : m <= y
  <1>1. PICK m \in T : \A y \in T : ~ (<<y, m>> \in OpToRel(<, Nat))
    BY NatLessThanWellFounded, WFMin
  <1>2. \A y \in T : ~ (y < m)
    BY <1>1 DEF OpToRel
  <1> QED
    BY <1>2

HasLargest(S) == \E m \in S : \A y \in S : m >= y

\* The sizes of the finite sets without a largest member.
Topless == {n \in Nat : \E S \in SUBSET Nat :
               IsFiniteSet(S) /\ S # {} /\ Cardinality(S) = n /\ ~ HasLargest(S)}

\* A finite set of naturals with a member has a largest one: a smallest set without
\* one would still have none after losing a member.
LEMMA LargestNatural ==
    ASSUME NEW S \in SUBSET Nat, IsFiniteSet(S), S # {}
    PROVE  HasLargest(S)
  <1>1. Topless = {}
    <2> SUFFICES ASSUME Topless # {} PROVE FALSE
      OBVIOUS
    <2>1. PICK n \in Topless : \A k \in Topless : n <= k
      BY LeastNatural DEF Topless
    <2>2. PICK U \in SUBSET Nat : IsFiniteSet(U) /\ U # {} /\ Cardinality(U) = n /\ ~ HasLargest(U)
      BY DEF Topless
    <2>3. PICK x \in U : TRUE
      BY <2>2
    <2> DEFINE V == U \ {x}
    <2>4. IsFiniteSet(V) /\ Cardinality(V) = n - 1 /\ n \in Nat
      BY <2>2, <2>3, FS_RemoveElement, FS_CardinalityType
    <2>5. CASE V = {}
      BY <2>2, <2>3, <2>5 DEF HasLargest
    <2>6. CASE V # {}
      <3>1. n - 1 \in Nat
        BY <2>4, FS_CardinalityType
      <3>2. n - 1 \notin Topless
        BY <2>1, <2>4
      <3>3. HasLargest(V)
        BY <2>4, <2>6, <3>1, <3>2 DEF Topless
      <3>4. PICK m \in V : \A y \in V : m >= y
        BY <3>3 DEF HasLargest
      <3>5. CASE m >= x
        BY <2>2, <2>3, <3>4, <3>5 DEF HasLargest
      <3>6. CASE ~ (m >= x)
        BY <2>2, <2>3, <3>4, <3>6 DEF HasLargest
      <3> QED
        BY <3>5, <3>6
    <2> QED
      BY <2>5, <2>6
  <1> QED
    BY <1>1, FS_CardinalityType DEF Topless

\* Max finds it.
LEMMA MaxOfFinite ==
    ASSUME NEW S \in SUBSET Nat, IsFiniteSet(S), S # {}
    PROVE  Max(S) \in S /\ \A y \in S : y <= Max(S)
  <1>1. \E m \in S : \A y \in S : m >= y
    BY LargestNatural DEF HasLargest
  <1>2. Max(S) \in S /\ \A y \in S : Max(S) >= y
    BY <1>1 DEF Max
  <1> QED
    BY <1>2

\* The members of S with fewer than k others ahead of them in R.
Firsts(S, R, k) == {a \in S : Cardinality({b \in S : <<b, a>> \in R}) < k}

\* In a finite set with a strict total order R, as many members have fewer than k others
\* ahead of them as there are, but at most k: the ranks are 0, 1, 2 and so on.
LEMMA FirstOfTheOrder ==
    ASSUME NEW S, IsFiniteSet(S), NEW R, NEW k \in Nat,
           \A a \in S : <<a, a>> \notin R,
           \A a, b, c \in S : <<a, b>> \in R /\ <<b, c>> \in R => <<a, c>> \in R,
           \A a, b \in S : a # b => <<a, b>> \in R \/ <<b, a>> \in R
    PROVE  Cardinality(Firsts(S, R, k)) = Min({Cardinality(S), k})
  <1> DEFINE Ahead(a) == {b \in S : <<b, a>> \in R}
             r == [a \in S |-> Cardinality(Ahead(a))]
             N == Cardinality(S)
             m == Min({N, k})
             T == {a \in S : r[a] < k}
  <1>1. N \in Nat
    BY FS_CardinalityType
  <1>2. m \in Nat /\ m = IF N <= k THEN N ELSE k
    BY <1>1, MinOfTwo
  <1>3. \A a \in S : IsFiniteSet(Ahead(a)) /\ r[a] \in 0 .. N - 1
    <2> TAKE a \in S
    <2>1. Ahead(a) \in SUBSET S /\ Ahead(a) # S
      OBVIOUS
    <2>2. IsFiniteSet(Ahead(a)) /\ Cardinality(Ahead(a)) <= N /\ Cardinality(Ahead(a)) # N
      BY <2>1, FS_Subset
    <2>3. Cardinality(Ahead(a)) \in Nat
      BY <2>2, FS_CardinalityType
    <2> HIDE DEF Ahead, N
    <2> QED
      BY <1>1, <2>2, <2>3
  <1>4. ASSUME NEW a \in S, NEW b \in S, <<a, b>> \in R
        PROVE  r[a] < r[b]
    <2>1. Ahead(a) \in SUBSET Ahead(b) /\ a \in Ahead(b) /\ a \notin Ahead(a)
      BY <1>4
    <2>2. /\ Cardinality(Ahead(a)) <= Cardinality(Ahead(b))
          /\ Cardinality(Ahead(a)) # Cardinality(Ahead(b))
      BY <1>3, <2>1, FS_Subset
    <2>3. Cardinality(Ahead(a)) \in Nat /\ Cardinality(Ahead(b)) \in Nat
      BY <1>3, FS_CardinalityType
    <2>4. r[a] = Cardinality(Ahead(a)) /\ r[b] = Cardinality(Ahead(b))
      OBVIOUS
    <2> HIDE DEF Ahead, r
    <2> QED
      BY <2>2, <2>3, <2>4
  <1> HIDE DEF r, N, m
  <1>5. r \in [S -> 0 .. N - 1]
    BY <1>3 DEF r
  <1>6. \A a, b \in S : r[a] = r[b] => a = b
    <2> TAKE a, b \in S
    <2>1. r[a] \in Nat /\ r[b] \in Nat
      BY <1>1, <1>5
    <2>2. a # b => r[a] < r[b] \/ r[b] < r[a]
      BY <1>4
    <2> QED
      BY <2>1, <2>2
  <1>7. r \in Injection(S, 0 .. N - 1)
    BY <1>5, <1>6 DEF Injection, IsInjective
  <1>8. IsFiniteSet(0 .. N - 1) /\ Cardinality(0 .. N - 1) = N
    BY <1>1, FS_Interval
  <1>9. r \in Surjection(S, 0 .. N - 1)
    BY <1>7, <1>8, FS_Injection DEF N
  <1>10. \A i \in 0 .. N - 1 : \E a \in S : r[a] = i
    BY <1>9 DEF Surjection
  <1> DEFINE f == [a \in T |-> r[a]]
  <1>11. f \in Bijection(T, 0 .. m - 1)
    <2>1. \A a \in T : r[a] \in 0 .. m - 1
      BY <1>1, <1>2, <1>5
    <2>2. f \in [T -> 0 .. m - 1] /\ \A a, b \in T : f[a] = f[b] => a = b
      BY <1>6, <2>1
    <2>3. \A i \in 0 .. m - 1 : \E a \in T : f[a] = i
      <3> TAKE i \in 0 .. m - 1
      <3>1. i \in 0 .. N - 1 /\ i < k
        BY <1>1, <1>2
      <3> QED
        BY <1>10, <3>1
    <2> QED
      BY <2>2, <2>3 DEF Bijection, Injection, Surjection, IsInjective
  <1>12. IsFiniteSet(T) /\ IsFiniteSet(0 .. m - 1) /\ Cardinality(0 .. m - 1) = m
    <2>1. T \in SUBSET S
      OBVIOUS
    <2>2. IsFiniteSet(T)
      BY <2>1, FS_Subset
    <2>3. IsFiniteSet(0 .. m - 1) /\ Cardinality(0 .. m - 1) = m
      BY <1>2, FS_Interval
    <2> QED
      BY <2>2, <2>3
  <1>13. Cardinality(T) = m
    BY <1>11, <1>12, FS_Bijection DEF ExistsBijection
  <1>14. T = Firsts(S, R, k)
    BY DEF r, Firsts
  <1> QED
    BY <1>13, <1>14 DEF m, N

-----------------------------------------------------------------------------
(* The figures of the telemetry view.                                       *)

\* Dividing rounds down.
LEMMA Quotient ==
    ASSUME NEW a \in Nat, NEW b \in Nat, b > 0
    PROVE  a \div b \in Nat /\ b * (a \div b) <= a /\ a < b * ((a \div b) + 1)
  OBVIOUS

\* Products grow with their factors.
LEMMA ProductGrows ==
    ASSUME NEW a \in Nat, NEW b \in Nat, NEW c \in Nat, b <= c
    PROVE  a * b <= a * c
  OBVIOUS

\* The share of successes is rounded to 100% or 0% for no other than all or none, as
\* one of up to 100 rows is at least one percent.
LEMMA RatesAreFit ==
    ASSUME NEW n \in 1 .. 100
    PROVE  RatesFit(n)
  <1> SUFFICES ASSUME NEW s \in 0 .. n
               PROVE  (SuccessRate(s, n) = 100 <=> s = n) /\ (SuccessRate(s, n) = 0 <=> s = 0)
    BY DEF RatesFit
  <1>1. CASE 40 * s = 23 * n
    BY <1>1 DEF SuccessRate
  <1>2. CASE 40 * s # 23 * n
    <2> DEFINE a == 200 * s + n
               b == 2 * n
               q == a \div b
    <2>1. SuccessRate(s, n) = q
      BY <1>2 DEF SuccessRate
    <2>2. a \in Nat /\ b \in Nat /\ b > 0
      OBVIOUS
    <2>3. q \in Nat /\ b * q <= a /\ a < b * (q + 1)
      <3> HIDE DEF a, b
      <3> QED
        BY <2>2, Quotient
    <2> HIDE DEF q
    <2>4. CASE q = 100
      BY <2>1, <2>3, <2>4
    <2>5. CASE q = 0
      BY <2>1, <2>3, <2>5
    <2>6. CASE q > 0 /\ q < 100
      <3>1. b * (q + 1) <= b * 100
        BY <2>2, <2>3, <2>6, ProductGrows
      <3>2. b * 1 <= b * q
        BY <2>2, <2>3, <2>6, ProductGrows
      <3>3. a < 200 * n /\ 2 * n <= a
        <4> DEFINE x == b * (q + 1)
                   y == b * q
        <4>1. x \in Nat /\ y \in Nat
          BY <2>2, <2>3
        <4>2. a < x /\ y <= a /\ x <= b * 100 /\ b * 1 <= y
          BY <2>3, <3>1, <3>2
        <4> HIDE DEF x, y
        <4> QED
          BY <2>2, <4>1, <4>2
      <3> QED
        BY <2>1, <2>6, <3>3
    <2>7. CASE q > 100
      <3>1. b * 101 <= b * q
        BY <2>2, <2>3, <2>7, ProductGrows
      <3>2. 202 * n <= a
        <4> DEFINE y == b * q
        <4>1. y \in Nat /\ y <= a /\ b * 101 <= y
          BY <2>2, <2>3, <3>1
        <4> HIDE DEF y
        <4> QED
          BY <2>2, <4>1
      <3> QED
        BY <3>2
    <2> QED
      BY <2>3, <2>4, <2>5, <2>6, <2>7
  <1> QED
    BY <1>1, <1>2

\* The place of the 95th percentile is a place of the sorted durations.
LEMMA PercentileFits ==
    ASSUME NEW n \in 1 .. 100
    PROVE  P95Fits(n)
  BY DEF P95Fits, P95Idx

\* What is drawn against the largest value stays in the chart.
LEMMA DrawnInside ==
    ASSUME NEW V \in SUBSET Nat, IsFiniteSet(V), NEW v \in V,
           NEW least \in Nat, least > 0, NEW extent \in Nat
    PROVE  Drawn(v, V, least, extent) \in 0 .. extent
  <1> DEFINE m == Max(V \cup {least})
             a == v * extent
             q == a \div m
  <1>1. IsFiniteSet(V \cup {least})
    BY FS_AddElement
  <1>2. m \in Nat /\ v <= m /\ least <= m
    BY <1>1, MaxOfFinite
  <1>3. Drawn(v, V, least, extent) = q
    BY DEF Drawn
  <1> HIDE DEF m
  <1>4. v \in Nat /\ a \in Nat /\ m > 0
    BY <1>2
  <1>5. a <= m * extent
    BY <1>2, <1>4, ProductGrows
  <1>6. q \in Nat /\ m * q <= a
    <2> HIDE DEF a
    <2> QED
      BY <1>2, <1>4, Quotient
  <1> HIDE DEF a, q
  <1>7. CASE q > extent
    <2>1. m * (extent + 1) <= m * q
      BY <1>2, <1>6, <1>7, ProductGrows
    <2>2. m * (extent + 1) = m * extent + m
      BY <1>2
    <2> DEFINE x == m * extent
               y == m * q
    <2>3. x \in Nat /\ y \in Nat /\ a <= x /\ y <= a /\ x + m <= y
      BY <1>2, <1>5, <1>6, <2>1, <2>2
    <2> HIDE DEF x, y
    <2> QED
      BY <1>2, <1>4, <2>3
  <1> QED
    BY <1>3, <1>6, <1>7

\* The rows of the page are rows of the table; what they hold.
LEMMA LoadedRows ==
    ASSUME TypeOK, StampsInOrder, LoadedNewest
    PROVE  /\ Len(loaded) \in Nat /\ DOMAIN loaded = 1 .. Len(loaded)
           /\ \A i \in DOMAIN loaded : auditLog[loaded[i]].info.ms \in Nat
           /\ IsFiniteSet(DOMAIN loaded)
  <1>1. /\ Len(loaded) \in Nat /\ DOMAIN loaded = 1 .. Len(loaded)
        /\ tableLen \in Nat /\ tableLen <= Len(stamps) /\ Len(stamps) = Len(auditLog)
        /\ \A i \in DOMAIN loaded : loaded[i] \in 1 .. tableLen
    BY LenProperties, ElementOfSeq DEF LoadedNewest, StampsInOrder
  <1>2. auditLog \in Seq(Record) /\ Len(auditLog) \in Nat
        /\ \A k \in 1 .. Len(auditLog) : auditLog[k] \in Record
    BY LenProperties, ElementOfSeq DEF TypeOK
  <1>3. \A r \in Record : r.info.ms \in Nat
    BY TelemetryAssumption DEF Record
  <1>4. \A i \in DOMAIN loaded : auditLog[loaded[i]] \in Record
    BY <1>1, <1>2
  <1>5. IsFiniteSet(1 .. Len(loaded))
    BY <1>1, FS_Interval
  <1> QED
    BY <1>1, <1>3, <1>4, <1>5

\* The points of the latency chart.
LEMMA PointsInside ==
    ASSUME TypeOK, StampsInOrder, LoadedNewest, NEW i \in DOMAIN LatencyData(loaded)
    PROVE  Drawn(auditLog[LatencyData(loaded)[i]].info.ms,
                 {auditLog[LatencyData(loaded)[j]].info.ms : j \in DOMAIN LatencyData(loaded)},
                 50, 170) \in 0 .. 170
  <1> DEFINE points == DOMAIN LatencyData(loaded)
             f == [j \in points |-> auditLog[LatencyData(loaded)[j]].info.ms]
             V == {f[j] : j \in points}
  <1>1. PICK n \in Nat : /\ n <= Len(loaded) /\ points = 1 .. n
                        /\ \A j \in 1 .. n : LatencyData(loaded)[j] = loaded[n - j + 1]
    BY LatencyPoints DEF LoadedNewest
  <1>2. \A j \in points : f[j] \in Nat
    <2>1. \A j \in 1 .. n : n - j + 1 \in DOMAIN loaded
      BY <1>1, LoadedRows
    <2> QED
      BY <1>1, <2>1, LoadedRows
  <1>3. IsFiniteSet(points)
    BY <1>1, FS_Interval
  <1> HIDE DEF points
  <1>4. f \in Surjection(points, V)
    BY DEF Surjection
  <1>5. IsFiniteSet(V)
    BY <1>3, <1>4, FS_Surjection
  <1>6. V \in SUBSET Nat /\ f[i] \in V
    <2>1. i \in points
      BY DEF points
    <2> HIDE DEF f
    <2> QED
      BY <1>2, <2>1
  <1>7. Drawn(f[i], V, 50, 170) \in 0 .. 170
    <2>1. 50 \in Nat /\ 50 > 0 /\ 170 \in Nat
      OBVIOUS
    <2> HIDE DEF V, f
    <2> QED
      BY <1>5, <1>6, <2>1, DrawnInside
  <1>8. /\ f[i] = auditLog[LatencyData(loaded)[i]].info.ms
        /\ V = {auditLog[LatencyData(loaded)[j]].info.ms : j \in points}
    BY DEF points
  <1> QED
    BY <1>7, <1>8 DEF points

\* The tools of the page, and how often it names each.
LEMMA ToolsAreFinite ==
    ASSUME TypeOK, StampsInOrder, LoadedNewest
    PROVE  /\ IsFiniteSet(ToolsOf(loaded))
           /\ \A a : Count(loaded, a) \in Nat
  <1> DEFINE f == [i \in DOMAIN loaded |-> auditLog[loaded[i]].info.tool]
  <1>1. f \in Surjection(DOMAIN loaded, ToolsOf(loaded))
    BY DEF Surjection, ToolsOf
  <1>2. IsFiniteSet(DOMAIN loaded)
    BY LoadedRows
  <1>3. IsFiniteSet(ToolsOf(loaded))
    BY <1>1, <1>2, FS_Surjection
  <1>4. ASSUME NEW a PROVE Count(loaded, a) \in Nat
    <2>1. {i \in DOMAIN loaded : auditLog[loaded[i]].info.tool = a} \in SUBSET DOMAIN loaded
      OBVIOUS
    <2>2. IsFiniteSet({i \in DOMAIN loaded : auditLog[loaded[i]].info.tool = a})
      BY <1>2, <2>1, FS_Subset
    <2> QED
      BY <2>2, FS_CardinalityType DEF Count
  <1> QED
    BY <1>3, <1>4

\* The order of the frequency chart is a strict total order of the page's tools.
LEMMA NamedInOrder ==
    ASSUME TypeOK, StampsInOrder, LoadedNewest
    PROVE  /\ \A a : ~ NamedFirst(loaded, a, a)
           /\ \A a, b, c : NamedFirst(loaded, a, b) /\ NamedFirst(loaded, b, c)
                              => NamedFirst(loaded, a, c)
           /\ \A a, b \in ToolsOf(loaded) :
                 a # b => NamedFirst(loaded, a, b) \/ NamedFirst(loaded, b, a)
  <1> DEFINE Named(i) == auditLog[loaded[i]].info.tool
  <1>1. Len(loaded) \in Nat /\ DOMAIN loaded = 1 .. Len(loaded)
    BY LoadedRows
  <1>2. \A a, b : NamedFirst(loaded, a, b) <=>
           \E i \in DOMAIN loaded : Named(i) = a /\ \A j \in 1 .. i : Named(j) # b
    BY DEF NamedFirst
  <1>3. \A a : a \in ToolsOf(loaded) <=> \E i \in DOMAIN loaded : Named(i) = a
    BY DEF ToolsOf
  <1> HIDE DEF Named
  <1>4. ASSUME NEW a, NamedFirst(loaded, a, a) PROVE FALSE
    BY <1>1, <1>2, <1>4
  <1>5. ASSUME NEW a, NEW b, NEW c, NamedFirst(loaded, a, b), NamedFirst(loaded, b, c)
        PROVE  NamedFirst(loaded, a, c)
    <2>1. PICK i \in DOMAIN loaded : Named(i) = a /\ \A j \in 1 .. i : Named(j) # b
      BY <1>2, <1>5
    <2>2. PICK k \in DOMAIN loaded : Named(k) = b /\ \A j \in 1 .. k : Named(j) # c
      BY <1>2, <1>5
    <2>3. i < k
      BY <1>1, <2>1, <2>2
    <2>4. \A j \in 1 .. i : j \in 1 .. k
      BY <1>1, <2>3
    <2> QED
      BY <1>2, <2>1, <2>2, <2>4
  <1>6. ASSUME NEW a \in ToolsOf(loaded), NEW b \in ToolsOf(loaded), a # b
        PROVE  NamedFirst(loaded, a, b) \/ NamedFirst(loaded, b, a)
    <2> DEFINE T == {i \in DOMAIN loaded : Named(i) = a \/ Named(i) = b}
    <2>1. T \in SUBSET Nat /\ T # {}
      BY <1>1, <1>3
    <2>2. PICK m \in T : \A y \in T : m <= y
      BY <2>1, LeastNatural
    <2>3. \A j \in 1 .. m : j = m \/ (Named(j) # a /\ Named(j) # b)
      BY <1>1, <2>2
    <2> QED
      BY <1>2, <1>6, <2>2, <2>3
  <1> QED
    BY <1>4, <1>5, <1>6

\* The frequency chart has room for ChartTools tools, leaves none out while it has, and
\* leaves none out in favour of one called less often.
LEMMA BusiestShown ==
    ASSUME TypeOK, StampsInOrder, LoadedNewest
    PROVE  /\ Cardinality(FrequencyData(loaded)) = Min({Cardinality(ToolsOf(loaded)), ChartTools})
           /\ FrequencyData(loaded) \in SUBSET ToolsOf(loaded)
           /\ IsFiniteSet(FrequencyData(loaded))
           /\ \A a \in FrequencyData(loaded) : \A b \in ToolsOf(loaded) \ FrequencyData(loaded) :
                 Count(loaded, a) >= Count(loaded, b)
  <1> DEFINE S == ToolsOf(loaded)
             C(a) == Count(loaded, a)
             F(a, b) == NamedFirst(loaded, a, b)
             B(a, b) == Busier(loaded, a, b)
             R == {p \in S \X S : B(p[1], p[2])}
  <1>0. ChartTools \in Nat
    BY TelemetryAssumption
  <1>1. IsFiniteSet(S) /\ \A a : C(a) \in Nat
    BY ToolsAreFinite
  <1>2. /\ \A a : ~ F(a, a)
        /\ \A a, b, c : F(a, b) /\ F(b, c) => F(a, c)
        /\ \A a, b \in S : a # b => F(a, b) \/ F(b, a)
    BY NamedInOrder
  <1>3. \A a, b : B(a, b) <=> C(a) > C(b) \/ (C(a) = C(b) /\ F(a, b))
    BY DEF Busier
  <1>4. FrequencyData(loaded) = {a \in S : Cardinality({b \in S : B(b, a)}) < ChartTools}
    BY DEF FrequencyData
  <1> HIDE DEF S, C, F, B
  <1>5. /\ \A a \in S : ~ B(a, a)
        /\ \A a, b \in S : a # b => B(a, b) \/ B(b, a)
    BY <1>1, <1>2, <1>3
  <1>6. ASSUME NEW a \in S, NEW b \in S, NEW c \in S, B(a, b), B(b, c)
        PROVE  B(a, c)
    <2>1. C(a) \in Nat /\ C(b) \in Nat /\ C(c) \in Nat
      BY <1>1
    <2>2. (C(a) > C(b) \/ (C(a) = C(b) /\ F(a, b))) /\ (C(b) > C(c) \/ (C(b) = C(c) /\ F(b, c)))
      BY <1>3, <1>6
    <2>3. C(a) > C(c) \/ (C(a) = C(c) /\ F(a, b) /\ F(b, c))
      BY <2>1, <2>2
    <2> QED
      BY <1>2, <1>3, <2>3
  <1>7. \A a, b \in S : <<a, b>> \in R <=> B(a, b)
    OBVIOUS
  <1>8. \A a \in S : {b \in S : B(b, a)} = {b \in S : <<b, a>> \in R}
    BY <1>7
  <1> HIDE DEF R
  <1>9. FrequencyData(loaded) = Firsts(S, R, ChartTools)
    BY <1>4, <1>8 DEF Firsts
  <1>10. /\ \A a \in S : <<a, a>> \notin R
         /\ \A a, b, c \in S : <<a, b>> \in R /\ <<b, c>> \in R => <<a, c>> \in R
         /\ \A a, b \in S : a # b => <<a, b>> \in R \/ <<b, a>> \in R
    BY <1>5, <1>6, <1>7
  <1>11. Cardinality(FrequencyData(loaded)) = Min({Cardinality(S), ChartTools})
    BY <1>0, <1>1, <1>9, <1>10, FirstOfTheOrder
  <1>12. FrequencyData(loaded) \in SUBSET S
    BY <1>4
  <1>13. IsFiniteSet(FrequencyData(loaded))
    BY <1>1, <1>12, FS_Subset
  <1>14. ASSUME NEW a \in FrequencyData(loaded), NEW b \in S \ FrequencyData(loaded),
                ~ (C(a) >= C(b))
         PROVE  FALSE
    <2> DEFINE P == {c \in S : B(c, a)}
               Q == {c \in S : B(c, b)}
    <2>1. Q \in SUBSET P
      <3>1. B(b, a)
        BY <1>1, <1>3, <1>14
      <3> QED
        BY <1>6, <1>12, <3>1
    <2>2. P \in SUBSET S
      OBVIOUS
    <2>3. IsFiniteSet(P) /\ IsFiniteSet(Q)
      BY <1>1, <2>1, <2>2, FS_Subset
    <2>4. Cardinality(Q) <= Cardinality(P) /\ Cardinality(P) \in Nat /\ Cardinality(Q) \in Nat
      BY <2>1, <2>3, FS_Subset, FS_CardinalityType
    <2>5. Cardinality(P) < ChartTools
      BY <1>4
    <2>6. Cardinality(Q) < ChartTools
      <3> HIDE DEF P, Q
      <3> QED
        BY <1>0, <2>4, <2>5
    <2> QED
      BY <1>4, <2>6
  <1> QED
    BY <1>11, <1>12, <1>13, <1>14 DEF S, C

\* The bars of the frequency chart.
LEMMA BarsInside ==
    ASSUME TypeOK, StampsInOrder, LoadedNewest, NEW a \in FrequencyData(loaded)
    PROVE  Drawn(Count(loaded, a), {Count(loaded, b) : b \in FrequencyData(loaded)}, 5, 240)
              \in 0 .. 240
  <1> DEFINE tools == FrequencyData(loaded)
             f == [b \in tools |-> Count(loaded, b)]
             V == {f[b] : b \in tools}
  <1>1. IsFiniteSet(tools)
    BY BusiestShown
  <1>2. \A b \in tools : f[b] \in Nat
    BY ToolsAreFinite
  <1>3. /\ f[a] = Count(loaded, a)
        /\ V = {Count(loaded, b) : b \in tools}
    OBVIOUS
  <1>4. a \in tools
    OBVIOUS
  <1> HIDE DEF tools
  <1>5. f \in Surjection(tools, V)
    BY DEF Surjection
  <1>6. IsFiniteSet(V)
    BY <1>1, <1>5, FS_Surjection
  <1> HIDE DEF f
  <1>7. V \in SUBSET Nat /\ f[a] \in V
    BY <1>2, <1>4
  <1>8. Drawn(f[a], V, 5, 240) \in 0 .. 240
    <2>1. 5 \in Nat /\ 5 > 0 /\ 240 \in Nat
      OBVIOUS
    <2> HIDE DEF V
    <2> QED
      BY <1>6, <1>7, <2>1, DrawnInside
  <1> QED
    BY <1>3, <1>8 DEF tools

\* The figures and charts of the telemetry view say what they seem to, for every page
\* of the audit trail: no rate of 100% or 0% by rounding, a 95th percentile that is one
\* of the durations, nothing drawn outside its chart, and the busiest tools.
THEOREM FiguresAreFit == TelemetrySpec => []FiguresFit
  <1>1. TypeOK /\ StampsInOrder /\ LoadedNewest => FiguresFit
    <2> SUFFICES ASSUME TypeOK, StampsInOrder, LoadedNewest PROVE FiguresFit
      OBVIOUS
    <2>1. PageFits
      BY RatesAreFit, PercentileFits DEF PageFits
    <2>2. \A i \in DOMAIN LatencyData(loaded) :
             Drawn(auditLog[LatencyData(loaded)[i]].info.ms,
                   {auditLog[LatencyData(loaded)[j]].info.ms : j \in DOMAIN LatencyData(loaded)},
                   50, 170) \in 0 .. 170
      BY PointsInside, Zenon
    <2>3. \A a \in FrequencyData(loaded) :
             Drawn(Count(loaded, a), {Count(loaded, b) : b \in FrequencyData(loaded)}, 5, 240)
                \in 0 .. 240
      BY BarsInside, Zenon
    <2>4. Cardinality(FrequencyData(loaded)) = Min({Cardinality(ToolsOf(loaded)), ChartTools})
      BY BusiestShown, Zenon
    <2>5. \A a \in FrequencyData(loaded) : \A b \in ToolsOf(loaded) \ FrequencyData(loaded) :
             Count(loaded, a) >= Count(loaded, b)
      BY BusiestShown, Zenon
    <2>6. \A a \in FrequencyData(loaded) :
             /\ Drawn(Count(loaded, a), {Count(loaded, b) : b \in FrequencyData(loaded)}, 5, 240)
                   \in 0 .. 240
             /\ \A b \in ToolsOf(loaded) \ FrequencyData(loaded) :
                   Count(loaded, a) >= Count(loaded, b)
      BY <2>3, <2>5, Zenon
    <2> QED
      BY <2>1, <2>2, <2>4, <2>6, Zenon DEF FiguresFit
  <1> QED
    BY <1>1, LoadedCorrect, PTL
=============================================================================
