---------------------------- MODULE RunLifecycle ----------------------------
(***************************************************************************)
(* One run, from the claim of its thread to its finalized terminal state.  *)
(*                                                                         *)
(* The durable state is the run's row, its thread's status, the job queue  *)
(* (ready jobs, the in-flight lease, the cancel marker) and the event log. *)
(* Everything that works on it is a handler: an HTTP request, a runner RPC *)
(* served by the bridge, a tick of the reaper.  A handler is a sequence of *)
(* calls to the store, the queue or the broker; each call is one step, and *)
(* steps of different handlers interleave freely.  What a handler read in  *)
(* one call and uses in a later one is kept in its record.                 *)
(*                                                                         *)
(* A run is dispatched at generation 1; each reclaim of a stale lease      *)
(* raises the generation.  The generation is the fence: a completion only  *)
(* counts for the generation the row records.                              *)
(***************************************************************************)
EXTENDS Integers, Sequences, FiniteSets

CONSTANTS
    Clients,     \* slots for HTTP requests
    Bridge,      \* slots for runner RPCs
    Sweepers,    \* slots for the reclaim and the run-timeout loops
    Requests,    \* what may end the run besides its runner
    Outcomes,    \* statuses runners report
    Streams,     \* events runners stream before the terminal one
    MaxRetries,  \* reclaim.max_retries
    FaultKinds,  \* kinds of failures injected
    MaxFaults    \* bound on their number

ASSUME SlotsAssumption ==
    /\ Clients \cap Bridge = {}
    /\ Clients \cap Sweepers = {}
    /\ Bridge \cap Sweepers = {}

ASSUME EnvironmentAssumption ==
    /\ Requests \subseteq {"cancel", "timeout", "observe"}
    /\ Outcomes \subseteq {"success", "error", "interrupted"}
    /\ Streams \subseteq {"values"}
    /\ FaultKinds \subseteq {"insert", "enqueue", "getjob", "report", "crash"}

ASSUME RetriesAssumption == MaxRetries \in Nat \ {0}

ASSUME FaultsAssumption == MaxFaults \in Nat

Handlers == Clients \cup Bridge \cup Sweepers

Gens == 1 .. MaxRetries        \* generations the queue may dispatch
None == 0                      \* no lease, no attempt, no output
Incomplete == -1               \* no completion generation in the metadata

TerminalRunStatus == {"success", "error", "interrupted", "timeout"}
RunStatus == {"absent", "pending", "running"} \cup TerminalRunStatus
ThreadStatus == {"idle", "busy", "interrupted"}

VARIABLES
    \* the row of the run
    status,      \* "absent" before the INSERT
    attemptGen,  \* metadata[AttemptGenerationKey], None when missing
    completion,  \* metadata[CompletionGenerationKey], Incomplete when missing
    output,      \* generation whose values are the stored output, or None
    merges,      \* completion checkpoints written to the thread
    finalized,   \* usage, hold, cache, stream and hook of the terminal are done
    thread,      \* status of the run's thread
    \* the job queue
    ready,       \* generations of the ready jobs
    inflight,    \* generation of the leased job, None without a lease
    fresh,       \* there is a lease, younger than reclaim.max_age
    canceled,    \* the run is marked canceled in the queue
    \* the event log and the runners
    log,         \* published <<generation, "values" | "end">>
    attempt,     \* what the runner given a generation is doing
    outcome,     \* status a runner put in its terminal event
    \* handlers and history
    h,           \* the handlers
    enqueued,    \* history: the queue has taken the job
    rolledBack,  \* history: rollbackCreatedRun wrote the row
    discarded,   \* history: a GetJob lost the race to begin a terminal run
    unowned,     \* history: the thread was given back under an active run
    late,        \* history: attempts whose terminal event was published without
                 \* their lease
    faults       \* number of injected failures

rowVars == <<status, attemptGen, completion, output, merges, finalized, thread>>
queueVars == <<ready, inflight, fresh, canceled>>
runnerVars == <<log, attempt, outcome>>
historyVars == <<enqueued, rolledBack, discarded, unowned, late>>
vars == <<rowVars, queueVars, runnerVars, h, historyVars, faults>>

Ops == {"none", "create", "getjob", "stream", "report", "replay", "orphan",
        "poison", "exhaust", "cancel", "timeout", "observe"}
Labels == {"idle", "insert", "enqueue", "rollback", "release", "attempt",
           "recover", "begin", "deliver", "nack", "publish", "renew", "check",
           "replay", "commit", "final", "ack", "accepted", "superseded",
           "lookup", "pill", "bind", "recheck", "unqueue"}

AttemptState == {"none", "running", "valuing", "valued", "ending", "ended",
                 "reporting", "accepted", "superseded", "gone"}

(***************************************************************************)
(* A handler: its operation, the call it makes next, the generation of the *)
(* assignment it serves, and the completion it presents (generation,       *)
(* status, and the generation whose values it replayed from the log).      *)
(***************************************************************************)
HandlerState ==
    [op : Ops, pc : Labels, gen : {None} \cup Gens, cgen : {None} \cup Gens,
     cst : TerminalRunStatus \cup {"none", "values", "end"},
     vals : {None} \cup Gens]

Idle == [op |-> "none", pc |-> "idle", gen |-> None, cgen |-> None,
         cst |-> "none", vals |-> None]

TypeOK ==
    /\ status \in RunStatus
    /\ attemptGen \in {None} \cup Gens
    /\ completion \in {Incomplete, None} \cup Gens
    /\ output \in {None} \cup Gens
    /\ merges \in Nat
    /\ finalized \in BOOLEAN
    /\ thread \in ThreadStatus
    /\ ready \in Seq(Gens)
    /\ inflight \in {None} \cup Gens
    /\ fresh \in BOOLEAN
    /\ canceled \in BOOLEAN
    /\ log \subseteq Gens \X {"values", "end"}
    /\ attempt \in [Gens -> AttemptState]
    /\ outcome \in [Gens -> Outcomes \cup {"none"}]
    /\ h \in [Handlers -> HandlerState]
    /\ enqueued \in BOOLEAN
    /\ rolledBack \in BOOLEAN
    /\ discarded \in BOOLEAN
    /\ unowned \in BOOLEAN
    /\ late \subseteq Gens
    /\ faults \in 0 .. MaxFaults

Init ==
    /\ status = "absent" /\ attemptGen = None /\ completion = Incomplete
    /\ output = None /\ merges = 0 /\ finalized = FALSE /\ thread = "idle"
    /\ ready = <<>> /\ inflight = None /\ fresh = FALSE /\ canceled = FALSE
    /\ log = {}
    /\ attempt = [g \in Gens |-> "none"]
    /\ outcome = [g \in Gens |-> "none"]
    /\ h = [p \in Handlers |-> Idle]
    /\ enqueued = FALSE /\ rolledBack = FALSE /\ discarded = FALSE
    /\ unowned = FALSE /\ late = {}
    /\ faults = 0

Terminal == status \in TerminalRunStatus

Active_Running == status = "running"

Active == status \in {"pending", "running"}

(***************************************************************************)
(* Handler bookkeeping.                                                    *)
(***************************************************************************)
At(p, l) == h[p].pc = l

Goto(p, l) == h' = [h EXCEPT ![p].pc = l]

Return(p) == h' = [h EXCEPT ![p] = Idle]

\* Go to l as operation o, with a completion to present.
Carry(p, o, l, cg, s, v) ==
    h' = [h EXCEPT ![p] = [op |-> o, pc |-> l, gen |-> h[p].gen, cgen |-> cg,
                           cst |-> s, vals |-> v]]

\* Goto for a handler that is done with its completion.
Leave(p, l) == Carry(p, h[p].op, l, None, "none", None)

Start(p, o, l, g, cg, s) ==
    /\ h[p] = Idle
    /\ h' = [h EXCEPT ![p] = [op |-> o, pc |-> l, gen |-> g, cgen |-> cg,
                              cst |-> s, vals |-> None]]

Fault(kind) ==
    /\ kind \in FaultKinds
    /\ faults < MaxFaults
    /\ faults' = faults + 1

\* The job goes back to the ready list and the lease with it: Nack returns the
\* same generation, ReclaimStale the next one.
Requeue(g) ==
    /\ ready' = IF canceled THEN ready ELSE Append(ready, g)
    /\ inflight' = None
    /\ fresh' = FALSE

\* Where a caller of completeRunResult goes on when the completion is accepted
\* and finalized, and when it is rejected.
OnAccept(p) ==
    CASE h[p].op \in {"getjob", "poison", "exhaust", "report", "orphan"} ->
            Leave(p, "ack")
      [] h[p].op = "replay" -> Leave(p, "accepted")
      [] h[p].op \in {"cancel", "timeout"} -> Leave(p, "unqueue")
      [] OTHER -> Return(p)

OnReject(p) ==
    CASE h[p].op = "getjob" -> Leave(p, "begin")
      [] h[p].op = "poison" -> Goto(p, "bind")
      [] h[p].op \in {"report", "replay"} -> Leave(p, "superseded")
      [] h[p].op = "cancel" -> Leave(p, "recheck")
      [] OTHER -> Return(p)

-----------------------------------------------------------------------------
(***************************************************************************)
(* Creation: createRunCtx claims the thread and inserts the row, its       *)
(* caller enqueues the assignment, and rolls back when that fails.         *)
(***************************************************************************)
TryClaimThread(p) ==
    /\ status = "absent"
    /\ thread # "busy"
    /\ Start(p, "create", "insert", None, None, "none")
    /\ thread' = "busy"
    /\ UNCHANGED <<status, attemptGen, completion, output, merges, finalized,
                   queueVars, runnerVars, historyVars, faults>>

CreateRun(p) ==
    /\ At(p, "insert")
    /\ status' = "pending"
    /\ Goto(p, "enqueue")
    /\ UNCHANGED <<attemptGen, completion, output, merges, finalized, thread,
                   queueVars, runnerVars, historyVars, faults>>

\* The deferred SetThreadStatus gives the claim back, also when the commit of
\* the INSERT got through and only its answer was lost.
CreateRunFails(p, inserted) ==
    /\ At(p, "insert")
    /\ Fault("insert")
    /\ status' = IF inserted THEN "pending" ELSE status
    /\ thread' = "idle"
    /\ unowned' = (unowned \/ inserted)
    /\ Return(p)
    /\ UNCHANGED <<attemptGen, completion, output, merges, finalized, queueVars,
                   runnerVars, enqueued, rolledBack, discarded, late>>

Enqueue(p) ==
    /\ At(p, "enqueue")
    /\ ready' = IF canceled THEN ready ELSE Append(ready, 1)
    /\ enqueued' = TRUE
    /\ Return(p)
    /\ UNCHANGED <<rowVars, inflight, fresh, canceled, runnerVars, rolledBack,
                   discarded, unowned, late, faults>>

\* An error from Enqueue.  With a remote queue the job may have arrived.
EnqueueFails(p, arrived) ==
    /\ At(p, "enqueue")
    /\ Fault("enqueue")
    /\ ready' = IF arrived /\ ~canceled THEN Append(ready, 1) ELSE ready
    /\ enqueued' = arrived
    /\ Goto(p, "rollback")
    /\ UNCHANGED <<rowVars, inflight, fresh, canceled, runnerVars, rolledBack,
                   discarded, unowned, late>>

\* rollbackCreatedRun: an unconditional UpdateRunStatus, then the release.
RollbackRun(p) ==
    /\ At(p, "rollback")
    /\ status' = "error"
    /\ output' = None
    /\ rolledBack' = TRUE
    /\ Goto(p, "release")
    /\ UNCHANGED <<attemptGen, completion, merges, finalized, thread, queueVars,
                   runnerVars, enqueued, discarded, unowned, late, faults>>

\* The status write failed, and its retry; the result is ignored.
RollbackRunFails(p) ==
    /\ At(p, "rollback")
    /\ Goto(p, "release")
    /\ UNCHANGED <<rowVars, queueVars, runnerVars, historyVars, faults>>

\* ReleaseThreadIfNoOtherActive does not look at this run's own status.  The
\* finishRun after it persists no usage, so it finalizes no completion.
ReleaseThread(p) ==
    /\ At(p, "release")
    /\ thread' = IF thread = "busy" THEN "idle" ELSE thread
    /\ unowned' = (unowned \/ Active)
    /\ Return(p)
    /\ UNCHANGED <<status, attemptGen, completion, output, merges, finalized,
                   queueVars, runnerVars, enqueued, rolledBack, discarded, late,
                   faults>>

\* The rollback runs under the request's context.  When Enqueue failed because
\* that context is done (the only error of the in-process queue), both writes
\* fail, and so does their one retry.
RollbackContextDone(p) ==
    /\ At(p, "rollback")
    /\ Return(p)
    /\ UNCHANGED <<rowVars, queueVars, runnerVars, historyVars, faults>>

-----------------------------------------------------------------------------
(***************************************************************************)
(* GetJob: dequeue, record the attempt, deliver.                           *)
(***************************************************************************)
DropCanceled ==
    /\ ready # <<>>
    /\ canceled
    /\ ready' = Tail(ready)
    /\ UNCHANGED <<rowVars, inflight, fresh, canceled, runnerVars, h,
                   historyVars, faults>>

Dequeue(p) ==
    /\ ready # <<>>
    /\ ~canceled
    /\ Start(p, "getjob", "attempt", Head(ready), None, "none")
    /\ ready' = Tail(ready)
    /\ inflight' = Head(ready)
    /\ fresh' = TRUE
    /\ UNCHANGED <<rowVars, canceled, runnerVars, historyVars, faults>>

\* A terminal run is finalized again before its job is discarded.
TerminalCall_SkipsFinalize == "ack"

TerminalCall == IF completion # Incomplete THEN "final" ELSE "ack"

\* api.BeginRunAttempt reads the row.
AttemptCallback(p) ==
    /\ At(p, "attempt")
    /\ \/ /\ Terminal
          /\ Goto(p, TerminalCall)
       \/ /\ ~Terminal
          /\ attemptGen # None /\ h[p].gen > attemptGen
          /\ Carry(p, h[p].op, "recover", attemptGen, "none", None)
       \/ /\ ~Terminal
          /\ attemptGen = None \/ h[p].gen <= attemptGen
          /\ Goto(p, "begin")
    /\ UNCHANGED <<rowVars, queueVars, runnerVars, historyVars, faults>>

\* A terminal event of the recorded attempt is completed before redispatch.
RecoverDeliveredCompletion_Skips(p) ==
    /\ At(p, "recover")
    /\ OnReject(p)
    /\ UNCHANGED <<rowVars, queueVars, runnerVars, historyVars, faults>>

RecoverDeliveredCompletion(p) ==
    /\ At(p, "recover")
    /\ \/ /\ <<h[p].cgen, "end">> \in log
          /\ Carry(p, h[p].op, "check", h[p].cgen, outcome[h[p].cgen], None)
       \/ /\ <<h[p].cgen, "end">> \notin log
          /\ OnReject(p)
    /\ UNCHANGED <<rowVars, queueVars, runnerVars, historyVars, faults>>

\* The store transaction that advances the attempt.
BeginAccepted_NoFence(g) == ~Terminal

BeginAccepted_Terminal(g) == attemptGen <= g

BeginAccepted(g) == ~Terminal /\ attemptGen <= g

BeginRunAttempt(p) ==
    /\ At(p, "begin")
    /\ \/ /\ BeginAccepted(h[p].gen)
          /\ attemptGen' = h[p].gen
          /\ status' = "running"
          /\ Goto(p, "deliver")
          /\ UNCHANGED discarded
       \/ /\ ~BeginAccepted(h[p].gen)
          /\ Goto(p, "ack")
          /\ discarded' = (discarded \/ Terminal)
          /\ UNCHANGED <<attemptGen, status>>
    /\ UNCHANGED <<completion, output, merges, finalized, thread, queueVars,
                   runnerVars, enqueued, rolledBack, unowned, late, faults>>

Deliver(p) ==
    /\ At(p, "deliver")
    /\ attempt' = [attempt EXCEPT ![h[p].gen] = "running"]
    /\ Return(p)
    /\ UNCHANGED <<rowVars, queueVars, log, outcome, historyVars, faults>>

\* The client left, or the attempt callback failed: GetJob gives the job back.
GetJobFails(p) ==
    /\ h[p].op = "getjob"
    /\ h[p].pc \notin {"ack", "nack"}
    /\ Fault("getjob")
    /\ Goto(p, "nack")
    /\ UNCHANGED <<rowVars, queueVars, runnerVars, historyVars>>

Nack_Unfenced(p) ==
    /\ At(p, "nack")
    /\ Requeue(h[p].gen)
    /\ Return(p)
    /\ UNCHANGED <<rowVars, canceled, runnerVars, historyVars, faults>>

Nack(p) ==
    /\ At(p, "nack")
    /\ IF inflight = h[p].gen
         THEN Requeue(h[p].gen)
         ELSE UNCHANGED <<inflight, fresh, ready>>
    /\ Return(p)
    /\ UNCHANGED <<rowVars, canceled, runnerVars, historyVars, faults>>

-----------------------------------------------------------------------------
(***************************************************************************)
(* completeRunResult: check, replay the log, commit, finalize.             *)
(***************************************************************************)
CancelCurrentAttempt(p) == h[p].op \in {"cancel", "timeout"}

\* CheckCompletion for a completion of generation g with status s.
Applied_Again(g) == g = attemptGen

Applied(g) == g = attemptGen /\ completion = Incomplete /\ ~Terminal

Accepted_AnyStatus(g, s) == Applied(g) \/ (g = attemptGen /\ completion = g)

Accepted(g, s) ==
    \/ Applied(g)
    \/ g = attemptGen /\ completion = g /\ status = s

\* The read before the commit: replay-only reports stop here, cancellation
\* takes the current generation, everything else is checked early.
CheckCompletion(p) ==
    /\ At(p, "check")
    /\ LET c == h[p] IN
       \/ /\ c.op = "replay"
          /\ IF completion = c.cgen /\ status = c.cst
               THEN Leave(p, "final") ELSE OnReject(p)
       \/ /\ CancelCurrentAttempt(p)
          /\ Carry(p, c.op, "replay", attemptGen, c.cst, None)
       \/ /\ c.op # "replay" /\ ~CancelCurrentAttempt(p)
          /\ \/ Applied(c.cgen) /\ Goto(p, "replay")
             \/ /\ ~Applied(c.cgen) /\ Accepted(c.cgen, c.cst)
                /\ Leave(p, "final")
             \/ ~Accepted(c.cgen, c.cst) /\ OnReject(p)
    /\ UNCHANGED <<rowVars, queueVars, runnerVars, historyVars, faults>>

\* The last values event of the generation being completed.
Replayed_Assigned(p) ==
    IF <<h[p].gen, "values">> \in log THEN h[p].gen ELSE None

Replayed(p) == IF <<h[p].cgen, "values">> \in log THEN h[p].cgen ELSE None

\* A cancellation goes on without the usage when the replay is slow.
ReplayOutput(p) ==
    /\ At(p, "replay")
    /\ \E found \in {None, Replayed(p)} :
          /\ found = Replayed(p) \/ CancelCurrentAttempt(p)
          /\ Carry(p, h[p].op, "commit", h[p].cgen, h[p].cst, found)
    /\ UNCHANGED <<rowVars, queueVars, runnerVars, historyVars, faults>>

\* ResolveCompletion: cancellation binds to the attempt current at the commit
\* and drops usage captured from another one.
ResolvedGen(p) == IF CancelCurrentAttempt(p) THEN attemptGen ELSE h[p].cgen

ResolvedVals_Stale(p) == h[p].vals

ResolvedVals(p) == IF h[p].cgen = ResolvedGen(p) THEN h[p].vals ELSE None

ReleasedThread_NotOnError(s) ==
    IF thread = "busy" /\ s # "error" THEN "idle" ELSE thread

ReleasedThread(s) ==
    IF thread # "busy" THEN thread
    ELSE IF s = "interrupted" THEN "interrupted" ELSE "idle"

\* The transaction: output, checkpoint, status and thread together.
CompleteRun(p) ==
    /\ At(p, "commit")
    /\ LET g == ResolvedGen(p)
           s == h[p].cst IN
       \/ /\ Applied(g)
          /\ completion' = g
          /\ status' = s
          /\ output' = ResolvedVals(p)
          /\ merges' = IF ResolvedVals(p) # None /\ ~CancelCurrentAttempt(p)
                         THEN merges + 1 ELSE merges
          /\ thread' = ReleasedThread(s)
          /\ finalized' = FALSE
          /\ Leave(p, "final")
       \/ /\ ~Applied(g)
          /\ IF Accepted(g, s) THEN Leave(p, "final") ELSE OnReject(p)
          /\ UNCHANGED <<completion, status, output, merges, thread, finalized>>
    /\ UNCHANGED <<attemptGen, queueVars, runnerVars, historyVars, faults>>

FinalizeCommittedRun(p) ==
    /\ At(p, "final")
    /\ finalized' = TRUE
    /\ OnAccept(p)
    /\ UNCHANGED <<status, attemptGen, completion, output, merges, thread,
                   queueVars, runnerVars, historyVars, faults>>

Ack(p) ==
    /\ At(p, "ack")
    /\ IF inflight = h[p].gen
         THEN inflight' = None /\ fresh' = FALSE
         ELSE UNCHANGED <<inflight, fresh>>
    /\ IF h[p].op = "report" THEN Goto(p, "accepted") ELSE Return(p)
    /\ UNCHANGED <<rowVars, ready, canceled, runnerVars, historyVars,
                   faults>>

-----------------------------------------------------------------------------
(***************************************************************************)
(* The runner of generation g: StreamEvents, ReportStatus, Heartbeat.      *)
(***************************************************************************)
Renewed(g) == fresh' = IF inflight = g THEN TRUE ELSE fresh

\* The fence of StreamEvents; an event of a superseded attempt is dropped.
StreamValues(p, g) ==
    /\ "values" \in Streams
    /\ attempt[g] = "running"
    /\ h[p] = Idle
    /\ Renewed(g)
    /\ IF inflight = g
         THEN /\ Start(p, "stream", "publish", g, g, "values")
              /\ attempt' = [attempt EXCEPT ![g] = "valuing"]
         ELSE /\ attempt' = [attempt EXCEPT ![g] = "valued"]
              /\ UNCHANGED h
    /\ UNCHANGED <<rowVars, ready, inflight, canceled, log, outcome,
                   historyVars, faults>>

\* The terminal event.  No values need precede it, not even those of a success:
\* the client chooses the stream modes.
StreamEnd(p, g, s) ==
    /\ attempt[g] \in {"running", "valued"}
    /\ h[p] = Idle
    /\ Renewed(g)
    /\ outcome' = [outcome EXCEPT ![g] = s]
    /\ IF inflight = g
         THEN /\ Start(p, "stream", "publish", g, g, "end")
              /\ attempt' = [attempt EXCEPT ![g] = "ending"]
         ELSE /\ attempt' = [attempt EXCEPT ![g] = "ended"]
              /\ UNCHANGED h
    /\ UNCHANGED <<rowVars, ready, inflight, canceled, log, historyVars, faults>>

Publish(p) ==
    /\ At(p, "publish")
    /\ LET g == h[p].gen IN
       /\ log' = log \cup {<<g, h[p].cst>>}
       /\ attempt' = [attempt EXCEPT ![g] = CASE @ = "valuing" -> "valued"
                                              [] @ = "ending" -> "ended"
                                              [] OTHER -> @]
       /\ late' = IF h[p].cst = "end" /\ inflight # g THEN late \cup {g} ELSE late
    /\ Return(p)
    /\ UNCHANGED <<rowVars, queueVars, outcome, enqueued, rolledBack, discarded,
                   unowned, faults>>

\* The agent, or the job around it, raised an exception: status error is reported
\* without a terminal event.
RunRaises(g) ==
    /\ "error" \in Outcomes
    /\ attempt[g] \in {"running", "valued"}
    /\ attempt' = [attempt EXCEPT ![g] = "ended"]
    /\ outcome' = [outcome EXCEPT ![g] = "error"]
    /\ UNCHANGED <<rowVars, queueVars, log, h, historyVars, faults>>

\* finish_run reports once the plane acknowledged the stream.  Without a lease
\* the report may only replay a committed completion.
ReportStatus(p, g) ==
    /\ attempt[g] = "ended"
    /\ IF inflight = None
         THEN Start(p, "replay", "check", g, g, outcome[g])
         ELSE Start(p, "report", "renew", g, g, outcome[g])
    /\ attempt' = [attempt EXCEPT ![g] = "reporting"]
    /\ UNCHANGED <<rowVars, queueVars, log, outcome, historyVars, faults>>

FenceReport(p) ==
    /\ At(p, "renew")
    /\ Renewed(h[p].gen)
    /\ IF inflight = h[p].gen THEN Goto(p, "check") ELSE OnReject(p)
    /\ UNCHANGED <<rowVars, ready, inflight, canceled, runnerVars, historyVars,
                   faults>>

Respond(p) ==
    /\ h[p].pc \in {"accepted", "superseded"}
    /\ attempt' = [attempt EXCEPT ![h[p].gen] =
                      IF @ = "reporting" THEN h[p].pc ELSE @]
    /\ Return(p)
    /\ UNCHANGED <<rowVars, queueVars, log, outcome, historyVars, faults>>

\* The runner times out on a report and will repeat it; the call goes on.
ReportTimesOut(p) ==
    /\ h[p].op = "report"
    /\ h[p].pc \notin {"accepted", "superseded"}
    /\ attempt[h[p].gen] = "reporting"
    /\ Fault("report")
    /\ h' = [h EXCEPT ![p].op = "orphan"]
    /\ attempt' = [attempt EXCEPT ![h[p].gen] = "ended"]
    /\ UNCHANGED <<rowVars, queueVars, log, outcome, historyVars>>

Heartbeat(g) ==
    /\ attempt[g] \notin {"none", "accepted", "superseded", "gone"}
    /\ inflight = g
    /\ ~fresh
    /\ fresh' = TRUE
    /\ UNCHANGED <<rowVars, ready, inflight, canceled, runnerVars, h,
                   historyVars, faults>>

\* The runner crashes, gives up on its delivery, or discards a job whose run
\* is already terminal.
RunnerStops(g) ==
    /\ attempt[g] \notin {"none", "accepted", "superseded", "gone"}
    /\ attempt' = [attempt EXCEPT ![g] = "gone"]
    /\ UNCHANGED <<rowVars, queueVars, log, outcome, h, historyVars, faults>>

-----------------------------------------------------------------------------
(***************************************************************************)
(* The reaper: ReclaimStale, and CompleteReclaimedRun at the ceiling.      *)
(***************************************************************************)
LeaseExpires ==
    /\ inflight # None
    /\ fresh
    /\ fresh' = FALSE
    /\ UNCHANGED <<rowVars, ready, inflight, canceled, runnerVars, h,
                   historyVars, faults>>

Exhausted_OneMore(newGen) == newGen > MaxRetries + 1

Exhausted(newGen) == newGen > MaxRetries

\* A pill names the generation it was refused; the lease is of the one before.
RetainedGen_Pill(newGen) == newGen

RetainedGen(newGen) == newGen - 1

ReclaimStale(p) ==
    /\ inflight # None
    /\ ~fresh
    /\ h[p] = Idle
    /\ \/ /\ Exhausted(inflight + 1)
          /\ Start(p, "poison", "lookup", RetainedGen(inflight + 1), None, "none")
          /\ UNCHANGED <<ready, inflight, fresh>>
       \/ /\ ~Exhausted(inflight + 1)
          /\ Requeue(inflight + 1)
          /\ UNCHANGED h
    /\ UNCHANGED <<rowVars, canceled, runnerVars, historyVars, faults>>

LookupInflight(p) ==
    /\ At(p, "lookup")
    /\ IF inflight = h[p].gen THEN Goto(p, "pill") ELSE Return(p)
    /\ UNCHANGED <<rowVars, queueVars, runnerVars, historyVars, faults>>

\* CompleteReclaimedRun reads the row.
CompleteReclaimedRun(p) ==
    /\ At(p, "pill")
    /\ \/ /\ Terminal
          /\ Goto(p, TerminalCall)
       \/ /\ ~Terminal /\ attemptGen > h[p].gen
          /\ Return(p)
       \/ /\ ~Terminal /\ attemptGen <= h[p].gen
          /\ Carry(p, h[p].op, IF attemptGen # None THEN "recover" ELSE "bind",
                   attemptGen, "none", None)
    /\ UNCHANGED <<rowVars, queueVars, runnerVars, historyVars, faults>>

\* No delivered outcome: bind the retained lease if no dispatch recorded it,
\* then complete it with an error.
BindRetainedLease(p) ==
    /\ At(p, "bind")
    /\ LET g == h[p].gen
           fail == Carry(p, "exhaust", "check", g, "error", None) IN
       \/ /\ h[p].cgen = g
          /\ fail
          /\ UNCHANGED <<attemptGen, status>>
       \/ /\ h[p].cgen # g /\ BeginAccepted(g)
          /\ attemptGen' = g
          /\ status' = "running"
          /\ fail
       \/ /\ h[p].cgen # g /\ ~BeginAccepted(g)
          /\ Return(p)
          /\ UNCHANGED <<attemptGen, status>>
    /\ UNCHANGED <<completion, output, merges, finalized, thread, queueVars,
                   runnerVars, historyVars, faults>>

-----------------------------------------------------------------------------
(***************************************************************************)
(* Cancellation, the timeout sweep, and clients that see the terminal      *)
(* event before the runner reports it.                                     *)
(***************************************************************************)
CancelRun_QueueFirst(p) ==
    /\ "cancel" \in Requests
    /\ ~canceled
    /\ status \in {"pending", "running", "interrupted"}
    /\ Start(p, "cancel", "unqueue", None, None, "interrupted")
    /\ UNCHANGED <<rowVars, queueVars, runnerVars, historyVars, faults>>

\* A cancel of a run whose marker is already set changes nothing.
CancelRun(p) ==
    /\ "cancel" \in Requests
    /\ ~canceled
    /\ status \in {"pending", "running", "interrupted"}
    /\ Start(p, "cancel", "check", None, None, "interrupted")
    /\ UNCHANGED <<rowVars, queueVars, runnerVars, historyVars, faults>>

TimeoutOverdueRun(p) ==
    /\ "timeout" \in Requests
    /\ Active
    /\ Start(p, "timeout", "check", None, None, "timeout")
    /\ UNCHANGED <<rowVars, queueVars, runnerVars, historyVars, faults>>

\* A cancel that was not accepted still cleans up an interrupted run.
RecheckCanceled(p) ==
    /\ At(p, "recheck")
    /\ IF status = "interrupted" THEN Goto(p, "unqueue") ELSE Return(p)
    /\ UNCHANGED <<rowVars, queueVars, runnerVars, historyVars, faults>>

QueueCancel(p) ==
    /\ At(p, "unqueue")
    /\ canceled' = TRUE
    /\ inflight' = None
    /\ fresh' = FALSE
    /\ Return(p)
    /\ UNCHANGED <<rowVars, ready, runnerVars, historyVars, faults>>

CompleteObservedRun(p, g) ==
    /\ "observe" \in Requests
    /\ <<g, "end">> \in log
    /\ ~Terminal
    /\ Start(p, "observe", "check", None, g, outcome[g])
    /\ UNCHANGED <<rowVars, queueVars, runnerVars, historyVars, faults>>

(***************************************************************************)
(* A handler stops between two calls: its process died, or the call it was *)
(* about to make, or its answer, was lost and the handler returns an error *)
(* without further effect.  The runner of a failed RPC sees an error: it   *)
(* gives up on a broken stream and repeats a failed report.                *)
(***************************************************************************)
Crash(p) ==
    /\ h[p] # Idle
    /\ Fault("crash")
    /\ Return(p)
    /\ attempt' = CASE h[p].op = "stream" /\ attempt[h[p].gen] \in {"valuing", "ending"} ->
                          [attempt EXCEPT ![h[p].gen] = "gone"]
                    [] h[p].op \in {"report", "replay"} /\ attempt[h[p].gen] = "reporting" ->
                          [attempt EXCEPT ![h[p].gen] = "ended"]
                    [] OTHER -> attempt
    /\ UNCHANGED <<rowVars, queueVars, log, outcome, historyVars>>

-----------------------------------------------------------------------------
\* The next call of a handler.
Step(p) ==
    \/ CreateRun(p) \/ Enqueue(p) \/ RollbackRun(p) \/ ReleaseThread(p)
    \/ RollbackRunFails(p) \/ RollbackContextDone(p)
    \/ AttemptCallback(p) \/ RecoverDeliveredCompletion(p)
    \/ BeginRunAttempt(p) \/ Deliver(p) \/ Nack(p)
    \/ CheckCompletion(p) \/ ReplayOutput(p) \/ CompleteRun(p)
    \/ FinalizeCommittedRun(p) \/ Ack(p)
    \/ Publish(p) \/ FenceReport(p) \/ Respond(p)
    \/ LookupInflight(p) \/ CompleteReclaimedRun(p) \/ BindRetainedLease(p)
    \/ RecheckCanceled(p) \/ QueueCancel(p)

Failure(p) ==
    \/ \E inserted \in BOOLEAN : CreateRunFails(p, inserted)
    \/ \E arrived \in BOOLEAN : EnqueueFails(p, arrived)
    \/ GetJobFails(p)
    \/ ReportTimesOut(p)
    \/ Crash(p)

Request(p) ==
    \/ TryClaimThread(p) \/ CancelRun(p)
    \/ \E g \in Gens : CompleteObservedRun(p, g)

RunnerCall(p) ==
    \/ Dequeue(p)
    \/ \E g \in Gens :
          \/ StreamValues(p, g)
          \/ \E s \in Outcomes : StreamEnd(p, g, s)
          \/ ReportStatus(p, g)

Next ==
    \/ \E p \in Handlers : Step(p) \/ Failure(p)
    \/ \E p \in Clients : Request(p)
    \/ \E p \in Bridge : RunnerCall(p)
    \/ \E p \in Sweepers : ReclaimStale(p) \/ TimeoutOverdueRun(p)
    \/ DropCanceled
    \/ LeaseExpires
    \/ \E g \in Gens : Heartbeat(g) \/ RunnerStops(g) \/ RunRaises(g)

Spec == Init /\ [][Next]_vars
-----------------------------------------------------------------------------
(***************************************************************************)
(* Fairness.  A handler that was started makes its next call; runners keep *)
(* polling GetJob; a runner either gets on with its attempt or stops; the  *)
(* reclaim loop ticks.  Nothing is assumed of clients and failures.        *)
(***************************************************************************)
RunnerProgress(g) ==
    \/ RunnerStops(g) \/ RunRaises(g)
    \/ \E p \in Bridge : \/ StreamValues(p, g)
                         \/ \E s \in Outcomes : StreamEnd(p, g, s)
                         \/ ReportStatus(p, g)

Fairness ==
    /\ \A p \in Handlers : WF_vars(Step(p))
    /\ \A g \in Gens : WF_vars(RunnerProgress(g))
    /\ WF_vars(\E p \in Bridge : Dequeue(p))
    /\ WF_vars(\E p \in Sweepers : ReclaimStale(p))
    /\ WF_vars(DropCanceled)
    /\ WF_vars(LeaseExpires)

FairSpec == Spec /\ Fairness

\* With run_timeout configured the sweep ticks too; no runner need progress.
TimeoutSpec ==
    /\ Spec
    /\ \A p \in Handlers : WF_vars(Step(p))
    /\ WF_vars(\E p \in Sweepers : TimeoutOverdueRun(p))

-----------------------------------------------------------------------------
(***************************************************************************)
(* Properties.                                                             *)
(***************************************************************************)

\* A completion recorded in the row is the one of the attempt the row records,
\* and the run is terminal: no completion of a superseded dispatch is ever
\* committed, and no attempt begins after a completion (CheckCompletion and
\* BeginRunAttempt under the row lock).
FencedCompletion ==
    completion # Incomplete => Terminal /\ completion = attemptGen

\* The job exists at most once, as a ready job or as a lease: Nack and
\* ReclaimStale move it, they never copy it.
SingleCopy == ready = <<>> \/ (Len(ready) = 1 /\ inflight = None)

Settled == Terminal /\ (completion # Incomplete => finalized)

Recoverable == ready # <<>> \/ inflight # None

\* The queue keeps the job until the run is terminal and its bookkeeping is
\* done: whatever crashes, something is left that will be reclaimed.  The one
\* exception is a GetJob that read the row before a concurrent completion
\* committed: it acknowledges the lease without finalizing.
LeaseRetained == enqueued /\ ~Settled /\ ~discarded => Recoverable

\* The lease is retained "so ordinary reclaim retries that bookkeeping without
\* another caller request" (cancelRunSingle): while a committed terminal is not
\* finalized and no handler is finalizing it, the queue still has the job.
FinalizationRecoverable ==
    enqueued /\ Terminal /\ completion # Incomplete /\ ~finalized =>
        Recoverable \/ \E p \in Handlers : At(p, "final")

\* A cancel marker is only ever set on a terminal run, so a ready job that
\* Dequeue drops is never work that still had to be done.
CanceledIsTerminal == canceled => Terminal

\* A runner told that its report counts (not superseded) finds exactly its
\* outcome in the row, unless a failed creation overwrote the status.
AcceptedIsDurable ==
    \A g \in Gens : attempt[g] = "accepted" =>
        completion = g /\ (status = outcome[g] \/ rolledBack)

\* A successful run has the values its winning attempt streamed, and no output
\* only when it streamed none: whoever commits the success (the report, a watching
\* client, or a later GetJob or reaper that finds the terminal event), the replay
\* before the commit takes the values of that attempt.
SuccessHasOutput ==
    status = "success" =>
        output = IF <<completion, "values">> \in log THEN completion ELSE None

\* Work whose terminal event reached the log under its lease is not dispatched
\* again: the row moves on to another attempt only if the recorded one has not
\* ended, or ended too late (recoverDeliveredCompletion before BeginRunAttempt).
NotExecutedAgain ==
    [][attemptGen # None => <<attemptGen, "end">> \notin log \/ attemptGen \in late]_attemptGen

\* The stored output always comes from the completed attempt, also when a
\* cancellation captured usage and a reclaim advanced the attempt before it
\* committed (ResolveCompletion drops it).
OutputOfWinner == output \in {None, completion}

\* The thread gets at most one completion checkpoint from the run, and only
\* from the attempt that completed it.
MergedOnce == merges <= 1 /\ (merges = 1 => completion \in Gens)

\* While the run is not terminal it owns its thread, except where creation gave
\* the thread back under it: the status write of a rollback failed, or the answer
\* of the INSERT was lost.  Once a completion is committed the thread is free (one
\* transaction for both).
ThreadFollowsRun ==
    /\ Active /\ ~unowned => thread = "busy"
    /\ completion # Incomplete => thread # "busy"

\* "After CreateRun the pending run owns the claim" (createRunCtx), without
\* exception.
ActiveOwnsThread == Active => thread = "busy"

Contract == INSTANCE RunContract WITH attempt <- attemptGen

\* The handlers together keep the contract of RunContract: every step of every
\* handler is, on the row, a creation, a new attempt, the one completion of the
\* latest attempt, a failed creation, or nothing.
ContractSpec == Contract!Spec

\* A committed terminal is final: status, completion generation and output
\* never change again through any handler but rollbackCreatedRun.
TerminalIsFinal ==
    [][Terminal /\ (\A p \in Handlers : ~RollbackRun(p)) =>
          UNCHANGED <<status, completion, output, merges>>]_vars

\* "Once a run is success/error/interrupted/timeout, it stays that way
\* forever" (architecture-deep-dive.md), for every handler.
TerminalForever == [][Terminal => status' = status]_status

\* When rollbackCreatedRun returns, the thread can be claimed again.
RollbackFreesThread ==
    [][\A p \in Handlers :
          h[p].pc \in {"rollback", "release"} /\ h'[p] = Idle /\ faults' = faults
             => thread' # "busy"]_vars

\* Generations only grow: neither a late GetJob nor a late reaper takes the
\* row back to an earlier attempt.
AttemptsAdvance == [][attemptGen' >= attemptGen]_attemptGen

\* A job the queue took ends up terminal, finalized and out of the queue, for
\* good, after any finite number of failures (same exception as LeaseRetained).
EventuallySettled ==
    enqueued ~> [](Terminal /\ (Settled \/ discarded) /\ ~Recoverable)

\* With the timeout sweep every created run becomes terminal, also one whose
\* creator died before it enqueued the job or whose runner hangs.
EventuallyTerminal == status = "pending" ~> Terminal

=============================================================================
