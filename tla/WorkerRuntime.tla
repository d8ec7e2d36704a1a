---------------------------- MODULE WorkerRuntime ----------------------------
(***************************************************************************)
(* The processes of one worker (main_worker.py): run_worker from the       *)
(* pidfile to the shutdown, the thread that writes heartbeats, the row of  *)
(* worker_runtime_status that all instances of the worker share, and what  *)
(* the API makes of that row.                                              *)
(*                                                                         *)
(* A process stands for one start after the other.  A pidfile whose maker  *)
(* crashed is `by' None; the number in it may be anybody's by now.  A host *)
(* is whatever has a /tmp and process numbers of its own.                  *)
(***************************************************************************)
EXTENDS Pacing

CONSTANTS
    Process,   \* processes of this worker, on one or several hosts
    Host,
    Container, \* the hosts that are containers (/.dockerenv)
    Kinds,     \* bound: the kinds of worker that are tried
    Instances, \* bound: the processes that are started of each kind
    Outcomes,  \* bound: how the cycles of each kind end
    None

\* A cycle found nothing, processed something, or only deferred and failed.
Outcome == {"empty", "progress", "fruitless"}

ASSUME RuntimeAssumption ==
    /\ Kinds \subseteq Kind
    /\ Instances \in [Kinds -> SUBSET Process]
    /\ Outcomes \in [Kinds -> SUBSET Outcome]
    /\ Container \subseteq Host
    /\ None \notin Process

VARIABLES
    kind,      \* the worker: metadata, replication or chain
    host,      \* where each process runs: pidfiles are local
    pc,        \* the step each process is at
    pidfile,   \* of each host: None, or who made it and whether the pid is in it
    lock,      \* holder of the singleton advisory lock
    lost,      \* processes whose lock connection died without their notice
    beat,      \* heartbeat threads: "off", "idle", or the outcome they read and write
    last,      \* outcome of the last cycle of each process
    pace,      \* page or budget of each process
    row        \* the worker's row of worker_runtime_status

vars == <<kind, host, pc, pidfile, lock, lost, beat, last, pace, row>>

Starting == {"create", "check", "unlink", "recreate", "write", "lock"}
Waiting  == {"ready", "asleep"}
Looping  == Waiting \cup {"work", "worked"}
Step     == {"off"} \cup Starting \cup {"locked", "setup"} \cup Looping
                    \cup {"fail", "failed", "release", "unpid"}

\* RUNNING stands for all that a process in its loop reports: SLEEPING and
\* the PAUSED states too.  None of them is DOWN to the API.
Status == {"STARTING", "RUNNING", "ERROR", "STOPPED"}


\* From how many cycles without progress the API suspects a stall.  The
\* counter has no other reader; its bound in the code is 32767.
StallAfter == 3

Row == [by : Process, status : Status, fruitless : 0..StallAfter, fresh : BOOLEAN]

Init ==
    /\ kind \in Kinds
    /\ host \in [Process -> Host]
    /\ pc = [p \in Process |-> "off"]
    /\ pidfile = [h \in Host |-> None]
    /\ lock = None
    /\ lost = {}
    /\ beat = [p \in Process |-> "off"]
    /\ last = [p \in Process |-> "empty"]
    /\ pace = [p \in Process |-> StartPace(kind)]
    /\ row = None

Goto(p, step) == pc' = [pc EXCEPT ![p] = step]

----------------------------------------------------------------------------
(* Heartbeats *)

\* Seeded fault in UpsertStatus: progress does not end a row of fruitless cycles.
KeepCounting(p, status, outcome) ==
    [by |-> p, status |-> status, fresh |-> TRUE,
     fruitless |-> IF row = None THEN 0
                   ELSE IF outcome = "fruitless" THEN Count(row.fruitless, StallAfter)
                   ELSE row.fruitless]

\* Every write counts the last cycle, the row's first one excepted.
UpsertStatus(p, status, outcome) ==
    [by |-> p, status |-> status, fresh |-> TRUE,
     fruitless |-> IF row # None /\ outcome = "fruitless"
                   THEN Count(row.fruitless, StallAfter) ELSE 0]

\* An error of the database is logged and forgotten.
Persist(p, status, outcome) ==
    row' = UpsertStatus(p, status, outcome) \/ row' = row

\* Seeded fault in BeatFails: an error ends the thread.
BeatDies(p) ==
    /\ beat[p] \notin {"off", "idle"}
    /\ beat' = [beat EXCEPT ![p] = "off"]
    /\ UNCHANGED <<kind, host, pc, pidfile, lock, lost, last, pace, row>>

\* The thread reads the statistics, then writes them.  A thread that was told to
\* stop ends after the write it is in, whether it was still waited for or not.
BeatBegin(p) ==
    /\ beat[p] = "idle"
    /\ beat' = [beat EXCEPT ![p] = last[p]]
    /\ UNCHANGED <<kind, host, pc, pidfile, lock, lost, last, pace, row>>

EndBeat(p) ==
    /\ beat[p] \notin {"off", "idle"}
    /\ beat' = [beat EXCEPT ![p] = IF pc[p] \in Looping \cup {"fail"} THEN "idle" ELSE "off"]
    /\ UNCHANGED <<kind, host, pc, pidfile, lock, lost, last, pace>>

BeatCommit(p) ==
    /\ EndBeat(p)
    /\ row' = UpsertStatus(p, "RUNNING", beat[p])

BeatFails(p) == EndBeat(p) /\ UNCHANGED row

\* The event is set; the join ends with the thread, or after five seconds.
StopBeats(p) ==
    beat' = IF beat[p] = "idle" THEN [beat EXCEPT ![p] = "off"] ELSE beat

----------------------------------------------------------------------------
(* The pidfile *)

\* A process ends: its session unlocks, its threads die, its memory is lost.
Gone(p) ==
    /\ Goto(p, "off")
    /\ lock' = IF lock = p THEN None ELSE lock
    /\ lost' = lost \ {p}
    /\ beat' = [beat EXCEPT ![p] = "off"]
    /\ last' = [last EXCEPT ![p] = "empty"]
    /\ pace' = [pace EXCEPT ![p] = StartPace(kind)]
    /\ UNCHANGED <<kind, host, row>>

Start(p) ==
    /\ pc[p] = "off" /\ p \in Instances[kind]
    /\ Goto(p, "create")
    /\ UNCHANGED <<kind, host, pidfile, lock, lost, beat, last, pace, row>>

\* open(O_CREAT | O_EXCL) makes an empty file; the pid is written afterwards.
CreatePid(p) ==
    /\ pc[p] = "create"
    /\ IF pidfile[host[p]] = None
       THEN /\ pidfile' = [pidfile EXCEPT ![host[p]] = [by |-> p, written |-> FALSE]]
            /\ Goto(p, "write")
       ELSE Goto(p, "check") /\ UNCHANGED pidfile
    /\ UNCHANGED <<kind, host, lock, lost, beat, last, pace, row>>

\* Whose pid the number in the file is: its maker's as long as that runs, then
\* nobody's, or that of any process that came later, the one that reads it
\* included: a restarted container gives its processes the same numbers again.
Bearers(h) ==
    IF pidfile[h] # None /\ pidfile[h].by # None /\ pc[pidfile[h].by] # "off"
    THEN {"maker"} ELSE {"nobody", "another", "reader"}

SamePidInRestartedContainer(p, bearer) == bearer = "reader" /\ host[p] \in Container

\* The file has a number, and a process answers to it.
NamesRunning(p, bearer) ==
    /\ pidfile[host[p]] # None /\ pidfile[host[p]].written
    /\ bearer # "nobody"
    /\ ~SamePidInRestartedContainer(p, bearer)

\* The file is stale: gone by now, still empty, of a dead process, or of an
\* earlier life of the container.
CheckPid(p) ==
    /\ pc[p] = "check"
    /\ \E bearer \in Bearers(host[p]) : ~NamesRunning(p, bearer)
    /\ Goto(p, "unlink")
    /\ UNCHANGED <<kind, host, pidfile, lock, lost, beat, last, pace, row>>

\* Whatever is there by now is removed.
UnlinkPid(p) ==
    /\ pc[p] = "unlink"
    /\ pidfile' = [pidfile EXCEPT ![host[p]] = None]
    /\ Goto(p, "recreate")
    /\ UNCHANGED <<kind, host, lock, lost, beat, last, pace, row>>

RecreatePid(p) ==
    /\ pc[p] = "recreate"
    /\ pidfile[host[p]] = None
    /\ pidfile' = [pidfile EXCEPT ![host[p]] = [by |-> p, written |-> FALSE]]
    /\ Goto(p, "write")
    /\ UNCHANGED <<kind, host, lock, lost, beat, last, pace, row>>

\* The pid goes into the file that this process made, linked or not.
WritePid(p) ==
    /\ pc[p] = "write"
    /\ pidfile' = IF pidfile[host[p]] = [by |-> p, written |-> FALSE]
                  THEN [pidfile EXCEPT ![host[p]] = [by |-> p, written |-> TRUE]]
                  ELSE pidfile
    /\ Goto(p, "lock")
    /\ UNCHANGED <<kind, host, lock, lost, beat, last, pace, row>>

\* Refused before the try block: nothing is cleaned up, nothing reported.
RefusedByPid(p) ==
    /\ \/ /\ pc[p] = "check"
          /\ \E bearer \in Bearers(host[p]) : NamesRunning(p, bearer)
       \/ pc[p] = "recreate" /\ pidfile[host[p]] # None
    /\ Gone(p)
    /\ UNCHANGED pidfile

----------------------------------------------------------------------------
(* Startup *)

\* Seeded fault in AcquireLock: the answer of the lock is not looked at.
TakeLock(p) ==
    /\ pc[p] = "lock"
    /\ lock' = p
    /\ Goto(p, "locked")
    /\ UNCHANGED <<kind, host, pidfile, lost, beat, last, pace, row>>

AcquireLock(p) ==
    /\ pc[p] = "lock" /\ lock = None
    /\ lock' = p
    /\ Goto(p, "locked")
    /\ UNCHANGED <<kind, host, pidfile, lost, beat, last, pace, row>>

RefusedByLock(p) ==
    /\ pc[p] = "lock" /\ lock # None
    /\ Goto(p, "fail")
    /\ UNCHANGED <<kind, host, pidfile, lock, lost, beat, last, pace, row>>

ReportStarting(p) ==
    /\ pc[p] = "locked"
    /\ Persist(p, "STARTING", last[p])
    /\ Goto(p, "setup")
    /\ UNCHANGED <<kind, host, pidfile, lock, lost, beat, last, pace>>

\* Storage and publisher exist; RUNNING is written; the heartbeat thread starts.
EnterLoop(p) ==
    /\ pc[p] = "setup"
    /\ Persist(p, "RUNNING", last[p])
    /\ beat' = [beat EXCEPT ![p] = "idle"]
    /\ Goto(p, "ready")
    /\ UNCHANGED <<kind, host, pidfile, lock, lost, last, pace>>

----------------------------------------------------------------------------
(* The loop *)

\* The RPC node or the capacity of the chain, or the storage, is not there.
Pause(p) ==
    /\ pc[p] \in Waiting
    /\ Persist(p, "RUNNING", last[p])
    /\ Goto(p, "asleep")
    /\ UNCHANGED <<kind, host, pidfile, lock, lost, beat, last, pace>>

\* No heartbeat is written at the start of a cycle.
BeginCycle(p) ==
    /\ pc[p] \in Waiting
    /\ \/ /\ kind = "chain"
          /\ \E c \in Capacity : pace' = [pace EXCEPT ![p] = AdaptPage(@, c)]
       \/ kind # "chain" /\ UNCHANGED pace
    /\ Goto(p, "work")
    /\ UNCHANGED <<kind, host, pidfile, lock, lost, beat, last, row>>

FinishCycle(p, outcome) ==
    /\ pc[p] = "work"
    /\ last' = [last EXCEPT ![p] = outcome]
    /\ UNCHANGED <<kind, host, pidfile, lock, lost, beat>>

\* The cycle ends, and its statistics are written.
EndCycle(p) ==
    /\ \E outcome \in Outcomes[kind] : FinishCycle(p, outcome) /\ Persist(p, "RUNNING", outcome)
    /\ \/ /\ kind = "replication"
          /\ \E r \in Pressure : pace' = [pace EXCEPT ![p] = UpdatePromotionBudget(@, r)]
       \/ kind # "replication" /\ UNCHANGED pace
    /\ Goto(p, "worked")

\* The chain worker deferred a full page for infrastructure.
EndSaturatedCycle(p) ==
    /\ kind = "chain"
    /\ FinishCycle(p, "fruitless")
    /\ pace' = [pace EXCEPT ![p] = CollapsePage]
    /\ Persist(p, "RUNNING", "fruitless")
    /\ Goto(p, "asleep")

FallAsleep(p) ==
    /\ pc[p] = "worked"
    /\ Persist(p, "RUNNING", last[p])
    /\ Goto(p, "asleep")
    /\ UNCHANGED <<kind, host, pidfile, lock, lost, beat, last, pace>>

\* _wait_with_heartbeats: the main thread writes as well while it waits.
WaitBeat(p) ==
    /\ pc[p] = "asleep"
    /\ row' = UpsertStatus(p, "RUNNING", last[p])
    /\ UNCHANGED <<kind, host, pc, pidfile, lock, lost, beat, last, pace>>

----------------------------------------------------------------------------
(* The end *)

\* A step of the try block raises.
Raise(p) ==
    /\ pc[p] \in {"lock", "locked", "setup"} \cup Looping
    /\ Goto(p, "fail")
    /\ UNCHANGED <<kind, host, pidfile, lock, lost, beat, last, pace, row>>

ReportError(p) ==
    /\ pc[p] = "fail"
    /\ StopBeats(p)
    /\ Persist(p, "ERROR", last[p])
    /\ Goto(p, "failed")
    /\ UNCHANGED <<kind, host, pidfile, lock, lost, last, pace>>

\* The finally block, reached through an error, a signal the loop sees, or an
\* interrupt before the handlers are installed.
ReportStopped(p) ==
    /\ pc[p] \in Waiting \cup {"failed", "lock", "locked", "setup"}
    /\ StopBeats(p)
    /\ Persist(p, "STOPPED", last[p])
    /\ Goto(p, "release")
    /\ UNCHANGED <<kind, host, pidfile, lock, lost, last, pace>>

ReleaseLock(p) ==
    /\ pc[p] = "release"
    /\ lock' = IF lock = p THEN None ELSE lock
    /\ lost' = lost \ {p}
    /\ Goto(p, "unpid")
    /\ UNCHANGED <<kind, host, pidfile, beat, last, pace, row>>

\* Seeded fault in OwnPid: the file stays.
KeepPid(p) == pidfile

\* Only the own pidfile is removed.
OwnPid(p) ==
    IF pidfile[host[p]] = [by |-> p, written |-> TRUE]
    THEN [pidfile EXCEPT ![host[p]] = None] ELSE pidfile

\* The process ends, and with it a heartbeat thread that is still writing.
Exit(p) ==
    /\ pc[p] = "unpid"
    /\ pidfile' = OwnPid(p)
    /\ Gone(p)

----------------------------------------------------------------------------
(* The environment *)

Crash(p) ==
    /\ pc[p] # "off"
    /\ pidfile' = [h \in Host |-> IF pidfile[h] # None /\ pidfile[h].by = p
                                  THEN [pidfile[h] EXCEPT !.by = None] ELSE pidfile[h]]
    /\ Gone(p)

\* The dedicated session dies; PostgreSQL unlocks; the worker does not notice.
LoseLock(p) ==
    /\ lock = p
    /\ lock' = None
    /\ lost' = lost \cup {p}
    /\ UNCHANGED <<kind, host, pc, pidfile, beat, last, pace, row>>

\* stale_after seconds pass without a heartbeat.
HeartbeatAges ==
    /\ row # None /\ row.fresh
    /\ row' = [row EXCEPT !.fresh = FALSE]
    /\ UNCHANGED <<kind, host, pc, pidfile, lock, lost, beat, last, pace>>

MainStep(p) ==
    \/ CreatePid(p) \/ CheckPid(p) \/ UnlinkPid(p) \/ RecreatePid(p) \/ WritePid(p)
    \/ RefusedByPid(p) \/ AcquireLock(p) \/ RefusedByLock(p)
    \/ ReportStarting(p) \/ EnterLoop(p)
    \/ BeginCycle(p) \/ Pause(p) \/ EndCycle(p) \/ EndSaturatedCycle(p) \/ FallAsleep(p)
    \/ ReportError(p) \/ (pc[p] = "failed" /\ ReportStopped(p)) \/ ReleaseLock(p) \/ Exit(p)

Next ==
    \/ HeartbeatAges
    \/ \E p \in Process :
        \/ MainStep(p) \/ WaitBeat(p) \/ BeatBegin(p) \/ BeatCommit(p) \/ BeatFails(p)
        \/ Start(p) \/ ReportStopped(p) \/ Raise(p) \/ Crash(p) \/ LoseLock(p)

Spec == Init /\ [][Next]_vars

\* What slows a worker down: an unhealthy chain, a saturated page, pressure on
\* the cluster, an outage that pauses it.
Disturbance(p) ==
    \/ Pause(p) \/ EndSaturatedCycle(p)
    \/ /\ BeginCycle(p) /\ kind = "chain"
       /\ pace'[p] # AdaptPage(pace[p], [state |-> "healthy", recommended |-> MaxPage])
    \/ /\ EndCycle(p) /\ kind = "replication"
       /\ pace'[p] # UpdatePromotionBudget(pace[p], "low")

\* Faults and disturbances end; processes that run go on.  Starts and signals
\* may happen for ever.
FairSpec ==
    /\ Spec
    /\ <>[][\A p \in Process : ~(BeatFails(p) \/ Disturbance(p))]_vars
    /\ WF_vars(HeartbeatAges)
    /\ \A p \in Process : /\ WF_vars(MainStep(p))
                          /\ WF_vars(BeatBegin(p)) /\ WF_vars(BeatCommit(p))

----------------------------------------------------------------------------
(* What the API shows (api/worker.py) *)

\* Seeded fault in ProcessState: the age of the heartbeat is not looked at.
BelieveRow ==
    CASE row = None -> "DOWN"
      [] row # None /\ row.status \in {"ERROR", "STOPPED"} -> "DOWN"
      [] OTHER -> row.status

ProcessState ==
    CASE row = None -> "DOWN"
      [] row # None /\ (~row.fresh \/ row.status \in {"ERROR", "STOPPED"}) -> "DOWN"
      [] OTHER -> row.status

\* Shown for a process that is not DOWN.
StalledSuspected == row # None /\ row.fruitless >= StallAfter

----------------------------------------------------------------------------
(* Properties *)

\* Every variable has its type; in particular the page of the chain worker
\* never leaves the range of its settings, and the promotion budget never
\* falls below its minimum nor exceeds the batch.
TypeOK ==
    /\ kind \in Kinds
    /\ host \in [Process -> Host]
    /\ pc \in [Process -> Step]
    /\ pidfile \in [Host -> {None} \cup [by : Process \cup {None}, written : BOOLEAN]]
    /\ lock \in Process \cup {None}
    /\ lost \subseteq Process
    /\ beat \in [Process -> {"off", "idle"} \cup Outcome]
    /\ last \in [Process -> Outcome]
    /\ pace \in [Process -> Paces[kind]]
    /\ row \in Row \cup {None}

\* A process that works because it was given the singleton lock.
Leading(p) == pc[p] \in {"locked", "setup"} \cup Looping

\* Two instances work at once only after one of them lost its lock connection:
\* whatever the pidfiles let through, and in whatever order instances start,
\* fail and stop.
Singleton ==
    \A p, q \in Process :
        p # q /\ Leading(p) /\ Leading(q) => p \in lost \/ q \in lost

\* "Worker already running" may be wrong: the number in the file of an instance
\* that crashed may be that of another process by now.  A crash is the only way
\* to that: however instances raced, failed, were refused or stopped before, none
\* of them leaves a file behind that refuses a start later.  (A second
\* creation that fails asks for no number at all.)
FalseRefusalsFollowCrashes ==
    [][\A p \in Process :
        RefusedByPid(p) /\ pc[p] = "check" =>
            \/ pidfile[host[p]].by = None
            \/ \E q \in Process \ {p} :
                    pidfile[host[p]].by = q /\ host[q] = host[p] /\ pc[q] # "off"]_vars

\* However long a cycle lasts, and whoever else wrote the row (an instance that
\* was refused, a thread that was late), a working instance is shown alive
\* again under its own name.
WorkerIsShown ==
    \A p \in Process :
        (pc[p] \in Looping)
            ~> (pc[p] \notin Looping
                \/ (ProcessState # "DOWN" /\ row.by = p))

\* When no process is left, by whatever end, the API says so.
DeathIsNoticed ==
    (\A p \in Process : pc[p] = "off")
        ~> (ProcessState = "DOWN" \/ \E p \in Process : pc[p] # "off")

\* A suspected stall is withdrawn once a cycle made progress.
StallIsWithdrawn ==
    \A p \in Process :
        (pc[p] \in Looping /\ last[p] = "progress")
            ~> (~StalledSuspected \/ last[p] # "progress" \/ pc[p] \notin Looping)

\* Once nothing disturbs a worker any more, its page or its promotion budget
\* grows back to what is configured.
PaceRecovers ==
    \A p \in Process :
        (pc[p] \in Looping)
            ~> (pace[p].size = FullPace[kind] \/ pc[p] \notin Looping)

=============================================================================
