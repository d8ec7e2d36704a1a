------------------------ MODULE WorkerRuntime_proofs ------------------------
(***************************************************************************)
(* The pace of a worker stays within its settings, two instances never     *)
(* work at once while their lock connections live, and only the pidfile of *)
(* a running or of a crashed instance refuses a start: for every set of    *)
(* processes and hosts, and every setting of the paces.                    *)
(***************************************************************************)
EXTENDS WorkerRuntime, TLAPS

----------------------------------------------------------------------------
(* Paces *)

LEMMA Bounds ==
  /\ MaxPage \in Nat /\ MinPage \in 1..MaxPage /\ NominalPage \in 1..MaxPage
  /\ Batch \in Nat /\ MinBatch \in 1..Batch
  BY PacingAssumption DEF MaxPage, Upper

\* Among the levels above a page there is a lowest one.
LEMMA NextLevel ==
  ASSUME NEW current \in Nat
  PROVE  NextHigherPageSize(current) \in MinPage..MaxPage
<1>1. PageSizeLevels \subseteq MinPage..MaxPage
  BY Bounds DEF PageSizeLevels
<1>2. \E l \in PageSizeLevels :
        /\ l > current \/ l = MaxPage
        /\ \A m \in PageSizeLevels : m > current => l <= m
  <2> DEFINE Above(l) == l \in PageSizeLevels /\ l > current
  <2>1. CASE Above(MinPage)
    BY <2>1, Bounds, <1>1
  <2>2. CASE ~Above(MinPage) /\ Above(5)
    <3>1. \A m \in PageSizeLevels : m > current => 5 <= m
      BY <2>2, Bounds DEF PageSizeLevels
    <3> QED  BY <2>2, <3>1
  <2>3. CASE ~Above(MinPage) /\ ~Above(5) /\ Above(10)
    <3>1. \A m \in PageSizeLevels : m > current => 10 <= m
      BY <2>3, Bounds DEF PageSizeLevels
    <3> QED  BY <2>3, <3>1
  <2>4. CASE ~Above(MinPage) /\ ~Above(5) /\ ~Above(10)
    <3>1. \A m \in PageSizeLevels : m > current => MaxPage <= m
      BY <2>4, Bounds DEF PageSizeLevels
    <3>2. MaxPage \in PageSizeLevels
      BY DEF PageSizeLevels
    <3> QED  BY <3>1, <3>2
  <2> QED  BY <2>1, <2>2, <2>3, <2>4
<1> QED  BY <1>1, <1>2 DEF NextHigherPageSize

LEMMA ClampedPage ==
  ASSUME NEW value \in Nat
  PROVE  ClampPageSize(value) \in MinPage..MaxPage
  BY Bounds DEF ClampPageSize, Upper, Lower

\* Whatever the capacity of the chain, the page stays within its settings.
LEMMA AdaptType ==
  ASSUME NEW old \in Paces["chain"], NEW c \in Capacity
  PROVE  AdaptPage(old, c) \in Paces["chain"]
<1> DEFINE target == ClampPageSize(c.recommended)
           calm   == Count(old.calm, GrowAfter)
           lowest == Lower(NominalPage, MinPage)
<1>1. old \in [size : lowest..MaxPage, calm : 0..GrowAfter]
  BY DEF Paces
<1>2. lowest \in Nat /\ lowest <= MinPage
  BY Bounds, PacingAssumption DEF Lower
<1>3. target \in MinPage..MaxPage
  BY ClampedPage, Bounds DEF Capacity
<1>4. calm \in 0..GrowAfter
  BY <1>1, PacingAssumption DEF Count
<1>5. NextHigherPageSize(old.size) \in MinPage..MaxPage
  BY <1>1, <1>2, NextLevel
<1>6. /\ Lower(old.size, target) \in lowest..MaxPage
      /\ Lower(target, NextHigherPageSize(old.size)) \in lowest..MaxPage
  BY <1>1, <1>2, <1>3, <1>5, Bounds DEF Lower
<1>7. AdaptPage(old, c) \in [size : lowest..MaxPage, calm : 0..GrowAfter]
  <2> HIDE DEF target, calm, lowest
  <2>1. /\ [size |-> Lower(old.size, target), calm |-> 0]
              \in [size : lowest..MaxPage, calm : 0..GrowAfter]
        /\ [size |-> Lower(target, NextHigherPageSize(old.size)), calm |-> 0]
              \in [size : lowest..MaxPage, calm : 0..GrowAfter]
        /\ [old EXCEPT !.calm = calm] \in [size : lowest..MaxPage, calm : 0..GrowAfter]
    BY <1>1, <1>4, <1>6, PacingAssumption
  <2> QED  BY <2>1 DEF AdaptPage, target, calm
<1> QED  BY <1>7 DEF Paces

\* Whatever the pressure, the budget stays within its settings.
LEMMA BudgetType ==
  ASSUME NEW old \in Paces["replication"], NEW r \in Pressure
  PROVE  UpdatePromotionBudget(old, r) \in Paces["replication"]
<1> DEFINE P == [size : MinBatch..Batch, calm : 0..CalmCycles]
<1>1. old \in P
  BY DEF Paces
<1>2. Upper(MinBatch, Batch \div 2) \in MinBatch..Batch
  BY Bounds DEF Upper
<1>3. Count(old.calm, CalmCycles) \in 0..CalmCycles
  BY <1>1 DEF Count, CalmCycles
<1>4. UpdatePromotionBudget(old, r) \in P
  BY <1>1, <1>2, <1>3, Bounds DEF UpdatePromotionBudget, CalmCycles
<1> QED  BY <1>4 DEF Paces

LEMMA StartType ==
  ASSUME NEW k \in Kind
  PROVE  StartPace(k) \in Paces[k]
<1>1. CASE k = "chain"
  BY <1>1, Bounds, PacingAssumption DEF StartPace, Paces, Lower
<1>2. CASE k = "replication"
  BY <1>2, Bounds DEF StartPace, Paces, FullPace, CalmCycles
<1>3. CASE k = "metadata"
  BY <1>3 DEF StartPace, Paces, FullPace
<1> QED  BY <1>1, <1>2, <1>3 DEF Kind

LEMMA CollapseType == CollapsePage \in Paces["chain"]
  BY Bounds, PacingAssumption DEF CollapsePage, Paces, Lower

----------------------------------------------------------------------------
(* Types *)

\* A heartbeat leaves a row behind.
LEMMA RowType ==
  ASSUME TypeOK, NEW p \in Process, NEW status \in Status, NEW outcome \in Outcome
  PROVE  /\ UpsertStatus(p, status, outcome) \in Row
         /\ Persist(p, status, outcome) => row' \in Row \cup {None}
<1>1. row # None => row.fruitless \in 0..StallAfter
  BY DEF TypeOK, Row
<1>2. UpsertStatus(p, status, outcome) \in Row
  BY <1>1 DEF UpsertStatus, Row, Count, StallAfter
<1> QED  BY <1>2 DEF Persist, TypeOK

LEMMA StartTyped == TypeOK => StartPace(kind) \in Paces[kind]
  BY StartType, RuntimeAssumption DEF TypeOK

LEMMA TypeStep == TypeOK /\ [Next]_vars => TypeOK'
<1> SUFFICES ASSUME TypeOK, [Next]_vars PROVE TypeOK'
  OBVIOUS
<1> USE DEF TypeOK, Step, Starting, Looping, Waiting, Status, Outcome
<1>1. CASE UNCHANGED vars
  BY <1>1 DEF vars
<1>2. CASE HeartbeatAges
  <2>1. row' \in Row
    BY <1>2 DEF HeartbeatAges, Row
  <2> QED  BY <1>2, <2>1 DEF HeartbeatAges
<1>3. ASSUME NEW p \in Process, Start(p) PROVE TypeOK'
  BY <1>3 DEF Start, Goto
<1>4. ASSUME NEW p \in Process, CreatePid(p) PROVE TypeOK'
  <2>1. pidfile' \in [Host -> {None} \cup [by : Process \cup {None}, written : BOOLEAN]]
    <3>1. \/ pidfile' = [pidfile EXCEPT ![host[p]] = [by |-> p, written |-> FALSE]]
          \/ pidfile' = pidfile
      BY <1>4 DEF CreatePid
    <3>2. [by |-> p, written |-> FALSE] \in [by : Process \cup {None}, written : BOOLEAN]
      OBVIOUS
    <3> QED  BY <3>1, <3>2
  <2> QED  BY <1>4, <2>1 DEF CreatePid, Goto
<1>5. ASSUME NEW p \in Process, CheckPid(p) PROVE TypeOK'
  BY <1>5 DEF CheckPid, Goto
<1>6. ASSUME NEW p \in Process, UnlinkPid(p) PROVE TypeOK'
  BY <1>6 DEF UnlinkPid, Goto
<1>7. ASSUME NEW p \in Process, RecreatePid(p) PROVE TypeOK'
  BY <1>7 DEF RecreatePid, Goto
<1>8. ASSUME NEW p \in Process, WritePid(p) PROVE TypeOK'
  <2>1. pidfile' \in [Host -> {None} \cup [by : Process \cup {None}, written : BOOLEAN]]
    BY <1>8 DEF WritePid
  <2> QED  BY <1>8, <2>1 DEF WritePid, Goto
<1>9. ASSUME NEW p \in Process, RefusedByPid(p) PROVE TypeOK'
  BY <1>9, StartTyped DEF RefusedByPid, Gone, Goto
<1>10. ASSUME NEW p \in Process, AcquireLock(p) PROVE TypeOK'
  BY <1>10 DEF AcquireLock, Goto
<1>11. ASSUME NEW p \in Process, RefusedByLock(p) PROVE TypeOK'
  BY <1>11 DEF RefusedByLock, Goto
<1>12. ASSUME NEW p \in Process, ReportStarting(p) PROVE TypeOK'
  <2>1. row' \in Row \cup {None}
    BY <1>12, RowType DEF ReportStarting, Goto
  <2> QED  BY <1>12, <2>1 DEF ReportStarting, Goto
<1>13. ASSUME NEW p \in Process, EnterLoop(p) PROVE TypeOK'
  <2>1. row' \in Row \cup {None}
    BY <1>13, RowType DEF EnterLoop, Goto
  <2> QED  BY <1>13, <2>1 DEF EnterLoop, Goto
<1>14. ASSUME NEW p \in Process, BeginCycle(p) PROVE TypeOK'
  <2>1. pace' \in [Process -> Paces[kind]]
    BY <1>14, AdaptType DEF BeginCycle
  <2> QED  BY <1>14, <2>1 DEF BeginCycle, Goto
<1>15. ASSUME NEW p \in Process, Pause(p) PROVE TypeOK'
  <2>1. row' \in Row \cup {None}
    BY <1>15, RowType DEF Pause, Goto
  <2> QED  BY <1>15, <2>1 DEF Pause, Goto
<1>16. ASSUME NEW p \in Process, EndCycle(p) PROVE TypeOK'
  <2>1. pace' \in [Process -> Paces[kind]]
    BY <1>16, BudgetType DEF EndCycle
  <2>2. PICK outcome \in Outcomes[kind] :
           FinishCycle(p, outcome) /\ Persist(p, "RUNNING", outcome)
    BY <1>16 DEF EndCycle
  <2>3. outcome \in Outcome
    BY RuntimeAssumption
  <2>4. row' \in Row \cup {None}
    BY <2>2, <2>3, RowType
  <2> QED  BY <1>16, <2>1, <2>2, <2>3, <2>4 DEF EndCycle, Goto, FinishCycle
<1>17. ASSUME NEW p \in Process, EndSaturatedCycle(p) PROVE TypeOK'
  <2>1. pace' \in [Process -> Paces[kind]]
    BY <1>17, CollapseType DEF EndSaturatedCycle
  <2>2. row' \in Row \cup {None}
    BY <1>17, RowType DEF EndSaturatedCycle
  <2> QED  BY <1>17, <2>1, <2>2 DEF EndSaturatedCycle, Goto, FinishCycle
<1>18. ASSUME NEW p \in Process, FallAsleep(p) PROVE TypeOK'
  <2>1. row' \in Row \cup {None}
    BY <1>18, RowType DEF FallAsleep, Goto
  <2> QED  BY <1>18, <2>1 DEF FallAsleep, Goto
<1>19. ASSUME NEW p \in Process, WaitBeat(p) PROVE TypeOK'
  <2>1. row' \in Row \cup {None}
    BY <1>19, RowType DEF WaitBeat
  <2> QED  BY <1>19, <2>1 DEF WaitBeat
<1>20. ASSUME NEW p \in Process, BeatBegin(p) PROVE TypeOK'
  BY <1>20 DEF BeatBegin
<1>21. ASSUME NEW p \in Process, BeatCommit(p) PROVE TypeOK'
  <2>1. row' \in Row \cup {None}
    BY <1>21, RowType DEF BeatCommit, EndBeat
  <2> QED  BY <1>21, <2>1 DEF BeatCommit, EndBeat
<1>22. ASSUME NEW p \in Process, BeatFails(p) PROVE TypeOK'
  BY <1>22 DEF BeatFails, EndBeat
<1>23. ASSUME NEW p \in Process, Raise(p) PROVE TypeOK'
  BY <1>23 DEF Raise, Goto
<1>24. ASSUME NEW p \in Process, ReportError(p) PROVE TypeOK'
  <2>1. row' \in Row \cup {None}
    BY <1>24, RowType DEF ReportError, Goto, StopBeats
  <2> QED  BY <1>24, <2>1 DEF ReportError, Goto, StopBeats
<1>25. ASSUME NEW p \in Process, ReportStopped(p) PROVE TypeOK'
  <2>1. row' \in Row \cup {None}
    BY <1>25, RowType DEF ReportStopped, Goto, StopBeats
  <2> QED  BY <1>25, <2>1 DEF ReportStopped, Goto, StopBeats
<1>26. ASSUME NEW p \in Process, ReleaseLock(p) PROVE TypeOK'
  BY <1>26 DEF ReleaseLock, Goto
<1>27. ASSUME NEW p \in Process, Exit(p) PROVE TypeOK'
  BY <1>27, StartTyped DEF Exit, Gone, Goto, OwnPid
<1>28. ASSUME NEW p \in Process, Crash(p) PROVE TypeOK'
  BY <1>28, StartTyped DEF Crash, Gone, Goto
<1>29. ASSUME NEW p \in Process, LoseLock(p) PROVE TypeOK'
  BY <1>29 DEF LoseLock
<1> QED  BY <1>1, <1>2, <1>3, <1>4, <1>5, <1>6, <1>7, <1>8, <1>9, <1>10, <1>11, <1>12, <1>13, <1>14, <1>15, <1>16, <1>17, <1>18, <1>19, <1>20, <1>21, <1>22, <1>23, <1>24, <1>25, <1>26, <1>27, <1>28, <1>29 DEF Next, MainStep

\* Every variable keeps its type; the pace of every process stays within the
\* settings of its worker.
THEOREM RuntimeTypes == Spec => []TypeOK
<1>1. Init => TypeOK
  BY StartType, RuntimeAssumption
  DEF Init, TypeOK, Step, Starting, Looping, Waiting, Status, Outcome
<1> QED  BY <1>1, TypeStep, PTL DEF Spec

----------------------------------------------------------------------------
(* Who works, and who is refused *)

\* A process that works has the lock, or had a connection that lost it.
Exclusive == \A p \in Process : Leading(p) => lock = p \/ p \in lost

\* A pidfile names a process of its host that has made it and still runs; the
\* pid is in it once the process went on.
Named ==
    \A h \in Host, q \in Process :
        pidfile[h] # None /\ pidfile[h].by = q
            => /\ host[q] = h
               /\ pc[q] \notin {"off", "create", "check", "unlink", "recreate"}
               /\ pidfile[h].written \/ pc[q] = "write"

WInv == TypeOK /\ Exclusive /\ Named

LEMMA FileOf ==
  ASSUME TypeOK, NEW h \in Host, NEW p \in Process,
         pidfile[h] # None, pidfile[h].by = p
  PROVE  /\ pidfile[h].written \in BOOLEAN
         /\ pidfile[h].written => pidfile[h] = [by |-> p, written |-> TRUE]
         /\ ~pidfile[h].written => pidfile[h] = [by |-> p, written |-> FALSE]
<1>1. pidfile[h] \in [by : Process \cup {None}, written : BOOLEAN]
  BY DEF TypeOK
<1> QED  BY <1>1

LEMMA WInvInit == Init => Exclusive /\ Named
  BY RuntimeAssumption DEF Init, Exclusive, Named, Leading, Looping, Waiting

LEMMA WInvStep == WInv /\ [Next]_vars => Exclusive' /\ Named'
<1> SUFFICES ASSUME WInv, [Next]_vars PROVE Exclusive' /\ Named'
  OBVIOUS
<1> USE DEF WInv, TypeOK, Exclusive, Named, Leading, Looping, Waiting
<1>1. CASE UNCHANGED vars
  BY <1>1 DEF vars
<1>2. CASE HeartbeatAges
  BY <1>2 DEF HeartbeatAges
<1>3. ASSUME NEW p \in Process, Start(p) PROVE Exclusive' /\ Named'
  BY <1>3, RuntimeAssumption DEF Start, Goto
<1>4. ASSUME NEW p \in Process, CreatePid(p) PROVE Exclusive' /\ Named'
  BY <1>4, RuntimeAssumption DEF CreatePid, Goto
<1>5. ASSUME NEW p \in Process, CheckPid(p) PROVE Exclusive' /\ Named'
  BY <1>5, RuntimeAssumption DEF CheckPid, Goto
<1>6. ASSUME NEW p \in Process, UnlinkPid(p) PROVE Exclusive' /\ Named'
  BY <1>6, RuntimeAssumption DEF UnlinkPid, Goto
<1>7. ASSUME NEW p \in Process, RecreatePid(p) PROVE Exclusive' /\ Named'
  BY <1>7, RuntimeAssumption DEF RecreatePid, Goto
<1>8. ASSUME NEW p \in Process, WritePid(p) PROVE Exclusive' /\ Named'
  <2>1. Exclusive'
    BY <1>8 DEF WritePid, Goto
  <2>2. ASSUME NEW h \in Host, NEW q \in Process, pidfile'[h] # None, pidfile'[h].by = q
        PROVE  /\ host'[q] = h
               /\ pidfile'[h].written \/ pc'[q] = "write"
               /\ pc'[q] \notin {"off", "create", "check", "unlink", "recreate"}
    <3>1. CASE h = host[p] /\ pidfile[h] = [by |-> p, written |-> FALSE]
      BY <1>8, <2>2, <3>1 DEF WritePid, Goto
    <3>2. CASE ~(h = host[p] /\ pidfile[h] = [by |-> p, written |-> FALSE])
      <4>1. pidfile'[h] = pidfile[h]
        BY <1>8, <3>2 DEF WritePid
      <4>2. q = p => pidfile[h].written
        BY <2>2, <3>2, <4>1, FileOf
      <4> QED  BY <1>8, <2>2, <4>1, <4>2 DEF WritePid, Goto
    <3> QED  BY <3>1, <3>2
  <2> QED  BY <2>1, <2>2
<1>9. ASSUME NEW p \in Process, RefusedByPid(p) PROVE Exclusive' /\ Named'
  BY <1>9, RuntimeAssumption DEF RefusedByPid, Gone, Goto
<1>10. ASSUME NEW p \in Process, AcquireLock(p) PROVE Exclusive' /\ Named'
  BY <1>10, RuntimeAssumption DEF AcquireLock, Goto
<1>11. ASSUME NEW p \in Process, RefusedByLock(p) PROVE Exclusive' /\ Named'
  BY <1>11, RuntimeAssumption DEF RefusedByLock, Goto
<1>12. ASSUME NEW p \in Process, ReportStarting(p) PROVE Exclusive' /\ Named'
  BY <1>12, RuntimeAssumption DEF ReportStarting, Goto
<1>13. ASSUME NEW p \in Process, EnterLoop(p) PROVE Exclusive' /\ Named'
  BY <1>13, RuntimeAssumption DEF EnterLoop, Goto
<1>14. ASSUME NEW p \in Process, BeginCycle(p) PROVE Exclusive' /\ Named'
  BY <1>14, RuntimeAssumption DEF BeginCycle, Goto
<1>15. ASSUME NEW p \in Process, Pause(p) PROVE Exclusive' /\ Named'
  BY <1>15, RuntimeAssumption DEF Pause, Goto
<1>16. ASSUME NEW p \in Process, EndCycle(p) PROVE Exclusive' /\ Named'
  BY <1>16, RuntimeAssumption DEF EndCycle, Goto, FinishCycle
<1>17. ASSUME NEW p \in Process, EndSaturatedCycle(p) PROVE Exclusive' /\ Named'
  BY <1>17, RuntimeAssumption DEF EndSaturatedCycle, Goto, FinishCycle
<1>18. ASSUME NEW p \in Process, FallAsleep(p) PROVE Exclusive' /\ Named'
  BY <1>18, RuntimeAssumption DEF FallAsleep, Goto
<1>19. ASSUME NEW p \in Process, WaitBeat(p) PROVE Exclusive' /\ Named'
  BY <1>19, RuntimeAssumption DEF WaitBeat
<1>20. ASSUME NEW p \in Process, BeatBegin(p) PROVE Exclusive' /\ Named'
  BY <1>20, RuntimeAssumption DEF BeatBegin
<1>21. ASSUME NEW p \in Process, BeatCommit(p) PROVE Exclusive' /\ Named'
  BY <1>21, RuntimeAssumption DEF BeatCommit, EndBeat
<1>22. ASSUME NEW p \in Process, BeatFails(p) PROVE Exclusive' /\ Named'
  BY <1>22, RuntimeAssumption DEF BeatFails, EndBeat
<1>23. ASSUME NEW p \in Process, Raise(p) PROVE Exclusive' /\ Named'
  BY <1>23, RuntimeAssumption DEF Raise, Goto
<1>24. ASSUME NEW p \in Process, ReportError(p) PROVE Exclusive' /\ Named'
  BY <1>24, RuntimeAssumption DEF ReportError, Goto, StopBeats
<1>25. ASSUME NEW p \in Process, ReportStopped(p) PROVE Exclusive' /\ Named'
  BY <1>25, RuntimeAssumption DEF ReportStopped, Goto, StopBeats
<1>26. ASSUME NEW p \in Process, ReleaseLock(p) PROVE Exclusive' /\ Named'
  BY <1>26, RuntimeAssumption DEF ReleaseLock, Goto
<1>27. ASSUME NEW p \in Process, Exit(p) PROVE Exclusive' /\ Named'
  <2>1. Exclusive'
    BY <1>27 DEF Exit, Gone, Goto
  <2>2. ASSUME NEW h \in Host, NEW q \in Process, pidfile'[h] # None, pidfile'[h].by = q
        PROVE  /\ host'[q] = h
               /\ pidfile'[h].written \/ pc'[q] = "write"
               /\ pc'[q] \notin {"off", "create", "check", "unlink", "recreate"}
    <3>1. pidfile'[h] = pidfile[h]
      BY <1>27, <2>2 DEF Exit, OwnPid
    <3>2. q # p
      <4> SUFFICES ASSUME q = p PROVE FALSE
        OBVIOUS
      <4>1. h = host[p] /\ pidfile[h] = [by |-> p, written |-> TRUE]
        BY <1>27, <2>2, <3>1, FileOf DEF Exit
      <4>2. pidfile'[h] = None
        BY <1>27, <4>1 DEF Exit, OwnPid
      <4> QED  BY <2>2, <4>2
    <3> QED  BY <1>27, <2>2, <3>1, <3>2 DEF Exit, Gone, Goto
  <2> QED  BY <2>1, <2>2
<1>28. ASSUME NEW p \in Process, Crash(p) PROVE Exclusive' /\ Named'
  BY <1>28, RuntimeAssumption DEF Crash, Gone, Goto
<1>29. ASSUME NEW p \in Process, LoseLock(p) PROVE Exclusive' /\ Named'
  BY <1>29, RuntimeAssumption DEF LoseLock
<1> QED  BY <1>1, <1>2, <1>3, <1>4, <1>5, <1>6, <1>7, <1>8, <1>9, <1>10, <1>11, <1>12, <1>13, <1>14, <1>15, <1>16, <1>17, <1>18, <1>19, <1>20, <1>21, <1>22, <1>23, <1>24, <1>25, <1>26, <1>27, <1>28, <1>29 DEF Next, MainStep

\* Two instances that work at once have lost a lock connection: the lock lets
\* one in, whatever the pidfiles do.
THEOREM RuntimeSingleton == Spec => []Singleton
<1>1. Init => WInv
  BY StartType, RuntimeAssumption, WInvInit
  DEF WInv, Init, TypeOK, Step, Starting, Looping, Waiting, Status, Outcome
<1>2. WInv /\ [Next]_vars => WInv'
  BY TypeStep, WInvStep DEF WInv
<1>3. WInv => Singleton
  BY DEF WInv, Exclusive, Singleton
<1> QED  BY <1>1, <1>2, <1>3, PTL DEF Spec

\* The pidfile that refuses a start is that of another running instance on its
\* host, or was left by a crash: whoever bears the number in it by now.
THEOREM RuntimeRefusals == Spec => FalseRefusalsFollowCrashes
<1>1. Init => WInv
  BY StartType, RuntimeAssumption, WInvInit
  DEF WInv, Init, TypeOK, Step, Starting, Looping, Waiting, Status, Outcome
<1>2. WInv /\ [Next]_vars => WInv'
  BY TypeStep, WInvStep DEF WInv
<1> DEFINE Refused(p) ==
      RefusedByPid(p) /\ pc[p] = "check"
        => \/ pidfile[host[p]].by = None
           \/ \E q \in Process \ {p} :
                  pidfile[host[p]].by = q /\ host[q] = host[p] /\ pc[q] # "off"
<1>3. WInv /\ [Next]_vars => [\A p \in Process : Refused(p)]_vars
  <2> SUFFICES ASSUME WInv, NEW p \in Process, RefusedByPid(p), pc[p] = "check",
                      pidfile[host[p]].by # None
               PROVE  \E q \in Process \ {p} :
                        pidfile[host[p]].by = q /\ host[q] = host[p] /\ pc[q] # "off"
    OBVIOUS
  <2>1. pidfile[host[p]] # None
    BY DEF RefusedByPid, NamesRunning
  <2>2. /\ host[p] \in Host
        /\ pidfile[host[p]].by \in Process
    BY <2>1 DEF WInv, TypeOK
  <2>3. /\ host[pidfile[host[p]].by] = host[p]
        /\ pc[pidfile[host[p]].by] \notin {"off", "check"}
    BY <2>1, <2>2 DEF WInv, Named
  <2> QED  BY <2>2, <2>3
<1> QED  BY <1>1, <1>2, <1>3, PTL DEF Spec, FalseRefusalsFollowCrashes

=============================================================================
