------------------------- MODULE RunSafety_proofs -------------------------
(***************************************************************************)
(* The safety of one run.  The argument has three layers: which steps      *)
(* write the row, move the job and bring a handler to a decisive call      *)
(* (RowSteps, QueueSteps, PhaseSteps); the invariant SafetyInv, whose      *)
(* strengthening says that nothing has happened before the INSERT          *)
(* (Untouched), what holds at the decisive calls (PhaseOK), and that there *)
(* is one creator; and the properties that follow.                         *)
(***************************************************************************)
EXTENDS RunLifecycle_proofs

\* What the properties say about the row and its thread.
rowCore == <<status, attemptGen, completion, output, merges, thread, unowned>>

\* The store transaction of BeginRunAttempt, from GetJob or from the reaper.
Begins(p) ==
    /\ h[p].pc \in {"begin", "bind"}
    /\ BeginAccepted(h[p].gen)
    /\ attemptGen' = h[p].gen
    /\ status' = "running"
    /\ UNCHANGED <<completion, output, merges, thread, unowned>>

\* The completion transaction when it applies.
Commits(p) ==
    /\ At(p, "commit")
    /\ Applied(ResolvedGen(p))
    /\ completion' = ResolvedGen(p)
    /\ status' = h[p].cst
    /\ output' = ResolvedVals(p)
    /\ merges' = IF ResolvedVals(p) # None /\ ~CancelCurrentAttempt(p)
                   THEN merges + 1 ELSE merges
    /\ thread' = ReleasedThread(h[p].cst)
    /\ UNCHANGED <<attemptGen, unowned>>

\* An INSERT that failed, and one of which only the answer was lost.
InsertFails(p) == CreateRunFails(p, FALSE)

InsertLost(p) == CreateRunFails(p, TRUE)

RowStep ==
    \/ UNCHANGED rowCore
    \/ \E p \in Handlers :
          \/ TryClaimThread(p) \/ CreateRun(p) \/ InsertFails(p) \/ InsertLost(p)
          \/ RollbackRun(p) \/ ReleaseThread(p) \/ Begins(p) \/ Commits(p)

\* The handlers write the row and the thread in seven places only: the claim, the
\* INSERT and its failure, the two writes of rollbackCreatedRun, BeginRunAttempt
\* and the completion transaction.  The failure of the INSERT is two cases.
LEMMA RowSteps == [Next]_vars => RowStep
  <1> SUFFICES ASSUME [Next]_vars PROVE RowStep
    OBVIOUS
  <1> USE DEF RowStep
  <1>1. CASE UNCHANGED vars
    BY <1>1 DEF vars, rowVars, historyVars, rowCore
  <1>2. ASSUME NEW p \in Handlers, Step(p) PROVE RowStep
    <2>1. CASE CreateRun(p) \/ RollbackRun(p) \/ ReleaseThread(p)
      BY <2>1
    <2>2. CASE BeginRunAttempt(p)
      BY <2>2, ZenonT(60) DEF BeginRunAttempt, Begins, At, rowCore
    <2>3. CASE BindRetainedLease(p)
      BY <2>3, ZenonT(60) DEF BindRetainedLease, Begins, At, rowCore, historyVars
    <2>4. CASE CompleteRun(p)
      BY <2>4, ZenonT(60) DEF CompleteRun, Commits, rowCore, historyVars
    <2>5. CASE FinalizeCommittedRun(p)
      BY <2>5, ZenonT(60) DEF FinalizeCommittedRun, rowCore, historyVars
    <2>6. CASE \/ Enqueue(p) \/ RollbackRunFails(p) \/ RollbackContextDone(p)
               \/ AttemptCallback(p) \/ RecoverDeliveredCompletion(p)
               \/ Deliver(p) \/ Nack(p) \/ CheckCompletion(p) \/ ReplayOutput(p)
      BY <2>6, ZenonT(60) DEF Enqueue, RollbackRunFails, RollbackContextDone,
                  AttemptCallback, RecoverDeliveredCompletion, Deliver, Nack,
                  CheckCompletion, ReplayOutput, rowVars, historyVars, rowCore
    <2>7. CASE \/ Ack(p) \/ Publish(p) \/ FenceReport(p) \/ Respond(p)
               \/ LookupInflight(p) \/ CompleteReclaimedRun(p)
               \/ RecheckCanceled(p) \/ QueueCancel(p)
      BY <2>7, ZenonT(60) DEF Ack, Publish, FenceReport, Respond, LookupInflight,
                  CompleteReclaimedRun, RecheckCanceled, QueueCancel, rowVars,
                  historyVars, rowCore
    <2> QED BY <1>2, <2>1, <2>2, <2>3, <2>4, <2>5, <2>6, <2>7 DEF Step
  <1>3. ASSUME NEW p \in Handlers, Failure(p) PROVE RowStep
    <2>1. ASSUME NEW inserted \in BOOLEAN, CreateRunFails(p, inserted) PROVE RowStep
      <3>1. inserted = TRUE \/ inserted = FALSE
        OBVIOUS
      <3> QED BY <2>1, <3>1, ZenonT(60) DEF InsertFails, InsertLost
    <2>2. ASSUME NEW arrived \in BOOLEAN, EnqueueFails(p, arrived) PROVE RowStep
      BY <2>2, ZenonT(60) DEF EnqueueFails, rowVars, rowCore
    <2>3. CASE GetJobFails(p) \/ ReportTimesOut(p) \/ Crash(p)
      BY <2>3, ZenonT(60) DEF GetJobFails, ReportTimesOut, Crash, rowVars,
                  historyVars, rowCore
    <2> QED BY <1>3, <2>1, <2>2, <2>3, ZenonT(60) DEF Failure
  <1>4. ASSUME NEW p \in Handlers, Request(p) PROVE RowStep
    BY <1>4, ZenonT(60)
    DEF Request, CancelRun, CompleteObservedRun, rowVars, historyVars, rowCore
  <1>5. ASSUME NEW p \in Handlers, RunnerCall(p) PROVE RowStep
    BY <1>5, ZenonT(60) DEF RunnerCall, Dequeue, StreamValues, StreamEnd,
                ReportStatus, rowVars, historyVars, rowCore
  <1>6. ASSUME NEW p \in Handlers, ReclaimStale(p) \/ TimeoutOverdueRun(p)
        PROVE  RowStep
    BY <1>6, ZenonT(60)
    DEF ReclaimStale, TimeoutOverdueRun, rowVars, historyVars, rowCore
  <1>7. CASE \/ DropCanceled \/ LeaseExpires
             \/ \E g \in Gens : Heartbeat(g) \/ RunnerStops(g) \/ RunRaises(g)
    BY <1>7, ZenonT(60) DEF DropCanceled, LeaseExpires, Heartbeat, RunnerStops,
                RunRaises, rowVars, historyVars, rowCore
  <1> QED
    BY <1>1, <1>2, <1>3, <1>4, <1>5, <1>6, <1>7 DEF Next, Handlers

\* The creator hands the job to the queue, or fails to.
Enqueues(p) ==
    /\ At(p, "enqueue")
    /\ ready' = ready \/ ready' = Append(ready, 1)
    /\ UNCHANGED inflight
    /\ Return(p) \/ Goto(p, "rollback")

\* The lease goes, and its job with it or back to the ready list.
Unleases ==
    /\ inflight # None
    /\ inflight' = None
    /\ ready' = ready \/ \E g \in Gens : ready' = Append(ready, g)

\* The first ready job is leased or dropped.
Pops ==
    /\ ready # <<>>
    /\ ready' = Tail(ready)
    /\ inflight' \in {inflight, Head(ready)}

QueueStep ==
    \/ UNCHANGED <<ready, inflight>>
    \/ \E p \in Handlers : Enqueues(p)
    \/ Unleases
    \/ Pops

\* A job enters the queue once, by the Enqueue of its creator; Dequeue, Nack,
\* Ack, ReclaimStale and Cancel only move or remove it.
LEMMA QueueSteps == TypeInv /\ [Next]_vars => QueueStep
  <1> SUFFICES ASSUME TypeInv, [Next]_vars PROVE QueueStep
    OBVIOUS
  <1> USE DEF QueueStep
  <1>0. inflight \in {None} \cup Gens /\ None \notin Gens
    BY DEF TypeInv, TypeOK, None, Gens
  <1>1. CASE UNCHANGED vars
    BY <1>1 DEF vars, queueVars
  <1>2. ASSUME NEW p \in Handlers, Step(p) PROVE QueueStep
    <2>1. CASE Enqueue(p)
      BY <2>1 DEF Enqueue, Enqueues
    <2>2. CASE Nack(p)
      <3>1. h[p].gen \in Gens
        BY <2>2 DEF Nack, At, TypeInv, CallOK
      <3> QED BY <2>2, <3>1, <1>0 DEF Nack, Requeue, Unleases
    <2>3. CASE Ack(p)
      <3>1. CASE inflight = None
        BY <2>3, <3>1 DEF Ack
      <3> QED BY <2>3, <3>1 DEF Ack, Unleases
    <2>4. CASE QueueCancel(p)
      <3>1. CASE inflight = None
        BY <2>4, <3>1, ZenonT(60) DEF QueueCancel
      <3> QED BY <2>4, <3>1 DEF QueueCancel, Unleases
    <2>5. CASE \/ CreateRun(p) \/ RollbackRun(p) \/ ReleaseThread(p)
               \/ RollbackRunFails(p) \/ RollbackContextDone(p) \/ AttemptCallback(p)
               \/ RecoverDeliveredCompletion(p) \/ BeginRunAttempt(p)
               \/ Deliver(p) \/ CheckCompletion(p) \/ ReplayOutput(p)
      BY <2>5, ZenonT(60) DEF CreateRun, RollbackRun, ReleaseThread, RollbackRunFails,
                  RollbackContextDone, AttemptCallback, RecoverDeliveredCompletion, BeginRunAttempt,
                  Deliver, CheckCompletion, ReplayOutput, queueVars
    <2>6. CASE \/ CompleteRun(p) \/ FinalizeCommittedRun(p) \/ Publish(p)
               \/ FenceReport(p) \/ Respond(p) \/ LookupInflight(p)
               \/ CompleteReclaimedRun(p) \/ BindRetainedLease(p)
               \/ RecheckCanceled(p)
      BY <2>6 DEF CompleteRun, FinalizeCommittedRun, Publish, FenceReport,
                  Respond, LookupInflight, CompleteReclaimedRun,
                  BindRetainedLease, RecheckCanceled, queueVars
    <2> QED BY <1>2, <2>1, <2>2, <2>3, <2>4, <2>5, <2>6 DEF Step
  <1>3. ASSUME NEW p \in Handlers, Failure(p) PROVE QueueStep
    BY <1>3 DEF Failure, EnqueueFails, Enqueues, CreateRunFails, GetJobFails,
                ReportTimesOut, Crash, queueVars
  <1>4. ASSUME NEW p \in Handlers, Request(p) PROVE QueueStep
    BY <1>4, ZenonT(60) DEF Request, TryClaimThread, CancelRun, CompleteObservedRun, queueVars
  <1>5. ASSUME NEW p \in Handlers, RunnerCall(p) PROVE QueueStep
    BY <1>5 DEF RunnerCall, Dequeue, StreamValues, StreamEnd, ReportStatus,
                Pops, queueVars
  <1>6. ASSUME NEW p \in Handlers, ReclaimStale(p) PROVE QueueStep
    <2>1. CASE UNCHANGED <<ready, inflight, fresh>>
      BY <2>1
    <2>2. CASE ~Exhausted(inflight + 1) /\ Requeue(inflight + 1)
      <3>1. inflight + 1 \in Gens
        BY <1>6, <1>0, <2>2, RetriesAssumption DEF ReclaimStale, Exhausted, Gens, None
      <3> QED BY <1>6, <2>2, <3>1 DEF ReclaimStale, Requeue, Unleases
    <2> QED BY <1>6, <2>1, <2>2 DEF ReclaimStale
  <1>7. ASSUME NEW p \in Handlers, TimeoutOverdueRun(p) PROVE QueueStep
    BY <1>7 DEF TimeoutOverdueRun, queueVars
  <1>8. CASE \/ DropCanceled \/ LeaseExpires
             \/ \E g \in Gens : Heartbeat(g) \/ RunnerStops(g) \/ RunRaises(g)
    BY <1>8 DEF DropCanceled, LeaseExpires, Heartbeat, RunnerStops, RunRaises, Pops,
                queueVars
  <1> QED
    BY <1>1, <1>2, <1>3, <1>4, <1>5, <1>6, <1>7, <1>8 DEF Next, Handlers

\* The values a handler replayed are of the generation it completes.
Captured(q) == h[q].vals \in {None, h[q].cgen}

\* How a handler gets to the calls that matter below.
PhaseStep(q) ==
    /\ Captured(q)'
    /\ h'[q].pc = "insert" => h[q].pc = "insert" \/ TryClaimThread(q)
    /\ h'[q].pc = "enqueue" => h[q].pc = "enqueue" \/ CreateRun(q)
    /\ h'[q].pc = "rollback" => h[q].pc \in {"rollback", "enqueue"}
    /\ h'[q].pc = "release" => h[q].pc \in {"release", "rollback"}
    /\ h'[q].pc = "final" => h[q].pc = "final" \/ Terminal'
    /\ h'[q].pc = "unqueue" => h[q].pc \in {"unqueue", "final"} \/ Terminal'

Phases == \A q \in Handlers : PhaseStep(q)

\* No handler moved.
LEMMA PhasesSame ==
    ASSUME \A q \in Handlers : Captured(q), UNCHANGED h
    PROVE  Phases
  BY DEF Phases, PhaseStep, Captured

\* One handler moved and its own step is legal.
LEMMA PhasesMoved ==
    ASSUME NEW p \in Handlers, \A q \in Handlers : Captured(q),
           \A q \in Handlers : q # p => h'[q] = h[q], PhaseStep(p)
    PROVE  Phases
  BY DEF Phases, PhaseStep, Captured

\* A handler that returns enters none of the calls of PhaseStep.
LEMMA PhasesReturn ==
    ASSUME HTypeOK, NEW p \in Handlers, \A q \in Handlers : Captured(q), Return(p)
    PROVE  Phases
  <1>1. PhaseStep(p)
    BY ReturnFacts DEF PhaseStep, Captured, Idle
  <1> QED BY <1>1, ReturnFacts, PhasesMoved

\* A handler that goes to some other call enters none of those of PhaseStep.
LEMMA PhasesGoto ==
    ASSUME HTypeOK, NEW p \in Handlers, \A q \in Handlers : Captured(q),
           NEW l \in Labels \ {"insert", "enqueue", "rollback", "release", "final", "unqueue"},
           Goto(p, l)
    PROVE  Phases
  <1>1. PhaseStep(p)
    BY GotoFacts DEF PhaseStep, Captured
  <1> QED BY <1>1, GotoFacts, PhasesMoved

\* A handler that is done with its completion finalizes or cleans up the queue
\* only for a terminal run.
LEMMA PhasesLeave ==
    ASSUME HTypeOK, NEW p \in Handlers, \A q \in Handlers : Captured(q),
           NEW l \in Labels \ {"insert", "enqueue", "rollback", "release"},
           l = "final" => Terminal',
           l = "unqueue" => Terminal' \/ h[p].pc = "final",
           Leave(p, l)
    PROVE  Phases
  <1>1. h'[p].pc = l /\ h'[p].vals = None
    BY DEF HTypeOK, HandlerState, Leave, Carry
  <1>2. PhaseStep(p)
    BY <1>1 DEF PhaseStep, Captured
  <1> QED BY <1>2, LeaveFacts, PhasesMoved

\* A handler that takes a completion along enters none of the calls of PhaseStep,
\* and the values it captured are of the generation it completes.
LEMMA PhasesCarry ==
    ASSUME HTypeOK, NEW p \in Handlers, \A q \in Handlers : Captured(q),
           NEW l \in Labels \ {"insert", "enqueue", "rollback", "release", "final", "unqueue"},
           NEW o, NEW cg, NEW s, NEW v, v \in {None, cg}, Carry(p, o, l, cg, s, v)
    PROVE  Phases
  <1>1. /\ h'[p].pc = l /\ h'[p].vals = v /\ h'[p].cgen = cg
        /\ \A q \in Handlers : q # p => h'[q] = h[q]
    BY ZenonT(60) DEF HTypeOK, HandlerState, Carry
  <1>2. PhaseStep(p)
    BY <1>1, ZenonT(60) DEF PhaseStep, Captured
  <1> QED BY <1>1, <1>2, PhasesMoved

\* A handler that starts enters none of the calls of PhaseStep except the INSERT,
\* after it claimed the thread.
LEMMA PhasesStart ==
    ASSUME HTypeOK, NEW p \in Handlers, \A q \in Handlers : Captured(q),
           NEW l \in Labels \ {"enqueue", "rollback", "release", "final", "unqueue"},
           NEW o, NEW g, NEW cg, NEW s, Start(p, o, l, g, cg, s),
           l = "insert" => TryClaimThread(p)
    PROVE  Phases
  <1>1. /\ h'[p].pc = l /\ h'[p].vals = None /\ h'[p].cgen = cg
        /\ \A q \in Handlers : q # p => h'[q] = h[q]
    BY DEF HTypeOK, HandlerState, Start
  <1>2. PhaseStep(p)
    BY <1>1 DEF PhaseStep, Captured
  <1> QED BY <1>1, <1>2, PhasesMoved, ZenonT(60)

\* A rejected completion leads to none of the calls of PhaseStep.
LEMMA PhasesReject ==
    ASSUME HTypeOK, NEW p \in Handlers, \A q \in Handlers : Captured(q), OnReject(p)
    PROVE  Phases
  <1> USE DEF Labels
  <1>1. CASE Leave(p, "begin")
    BY <1>1, PhasesLeave
  <1>2. CASE Goto(p, "bind")
    BY <1>2, PhasesGoto
  <1>3. CASE Leave(p, "superseded")
    BY <1>3, PhasesLeave
  <1>4. CASE Leave(p, "recheck")
    BY <1>4, PhasesLeave
  <1>5. CASE Return(p)
    BY <1>5, PhasesReturn
  <1> QED BY <1>1, <1>2, <1>3, <1>4, <1>5 DEF OnReject

\* An accepted completion leads to the cleanup of the queue from the finalization
\* only.
LEMMA PhasesAccept ==
    ASSUME HTypeOK, NEW p \in Handlers, \A q \in Handlers : Captured(q),
           h[p].pc = "final", OnAccept(p)
    PROVE  Phases
  <1> USE DEF Labels
  <1>1. CASE Leave(p, "ack")
    BY <1>1, PhasesLeave
  <1>2. CASE Leave(p, "accepted")
    BY <1>2, PhasesLeave
  <1>3. CASE Leave(p, "unqueue")
    BY <1>3, PhasesLeave
  <1>4. CASE Return(p)
    BY <1>4, PhasesReturn
  <1> QED BY <1>1, <1>2, <1>3, <1>4 DEF OnAccept

\* Every step moves handlers into the calls of PhaseStep only as it says.
LEMMA PhaseSteps ==
    ASSUME TypeInv, \A q \in Handlers : Captured(q), [Next]_vars
    PROVE  Phases
  <1> USE DEF Labels
  <1>t. HTypeOK
    BY DEF TypeInv, TypeOK, HTypeOK
  <1>c. ASSUME NEW p \in Handlers,
               h[p].pc \in {"renew", "check", "replay", "commit"}
        PROVE  h[p].cst \in TerminalRunStatus
    BY <1>c DEF TypeInv, CallOK, Presents
  <1>1. CASE UNCHANGED vars
    BY <1>1, PhasesSame DEF vars
  <1>2. ASSUME NEW p \in Handlers, Step(p) PROVE Phases
    <2>1. CASE CreateRun(p)
      <3>1. PhaseStep(p)
        BY <1>t, <2>1, GotoFacts, ZenonT(60) DEF CreateRun, PhaseStep, Captured
      <3> QED BY <1>t, <2>1, <3>1, GotoFacts, PhasesMoved, ZenonT(60) DEF CreateRun
    <2>2. CASE RollbackRun(p) \/ RollbackRunFails(p)
      <3>0. At(p, "rollback") /\ Goto(p, "release")
        BY <2>2, ZenonT(60) DEF RollbackRun, RollbackRunFails
      <3>1. PhaseStep(p)
        BY <1>t, <3>0, GotoFacts DEF At, PhaseStep, Captured
      <3> QED BY <1>t, <3>0, <3>1, GotoFacts, PhasesMoved, ZenonT(60)
    <2>3. CASE \/ Enqueue(p) \/ ReleaseThread(p) \/ RollbackContextDone(p)
               \/ Deliver(p) \/ Nack(p) \/ Publish(p) \/ Respond(p)
               \/ QueueCancel(p)
      <3>1. Return(p)
        BY <2>3, ZenonT(60) DEF Enqueue, ReleaseThread, RollbackContextDone, Deliver, Nack,
                    Publish, Respond, QueueCancel
      <3> QED BY <1>t, <3>1, PhasesReturn
    <2>4. CASE AttemptCallback(p)
      <3>1. CASE Terminal /\ Goto(p, TerminalCall)
        <4>1. TerminalCall \in {"final", "ack"} /\ Terminal'
          BY <2>4, <3>1, ZenonT(60) DEF TerminalCall, AttemptCallback, Terminal, rowVars
        <4>2. PhaseStep(p)
          BY <1>t, <3>1, <4>1, GotoFacts DEF PhaseStep, Captured
        <4> QED BY <1>t, <3>1, <4>1, <4>2, GotoFacts, PhasesMoved, ZenonT(60)
      <3>2. CASE Carry(p, h[p].op, "recover", attemptGen, "none", None)
        BY <1>t, <3>2, PhasesCarry
      <3>3. CASE Goto(p, "begin")
        BY <1>t, <3>3, PhasesGoto
      <3> QED BY <2>4, <3>1, <3>2, <3>3, ZenonT(60) DEF AttemptCallback
    <2>5. CASE RecoverDeliveredCompletion(p)
      <3>1. CASE Carry(p, h[p].op, "check", h[p].cgen, outcome[h[p].cgen], None)
        BY <1>t, <3>1, PhasesCarry
      <3>2. CASE OnReject(p)
        BY <1>t, <3>2, PhasesReject
      <3> QED BY <2>5, <3>1, <3>2 DEF RecoverDeliveredCompletion
    <2>6. CASE BeginRunAttempt(p)
      BY <1>t, <2>6, PhasesGoto, ZenonT(60) DEF BeginRunAttempt
    <2>7. CASE CheckCompletion(p)
      <3>1. CASE OnReject(p)
        BY <1>t, <3>1, PhasesReject
      <3>2. CASE Goto(p, "replay")
        BY <1>t, <3>2, PhasesGoto
      <3>3. CASE Carry(p, h[p].op, "replay", attemptGen, h[p].cst, None)
        BY <1>t, <3>3, PhasesCarry
      <3>4. CASE status = h[p].cst /\ Leave(p, "final")
        <4>1. Terminal'
          BY <1>c, <2>7, <3>4 DEF CheckCompletion, At, Terminal, rowVars
        <4> QED BY <1>t, <3>4, <4>1, PhasesLeave, ZenonT(60)
      <3> QED BY <2>7, <3>1, <3>2, <3>3, <3>4 DEF CheckCompletion, Accepted
    <2>8. CASE ReplayOutput(p)
      <3>1. PICK v \in {None, h[p].cgen} :
              Carry(p, h[p].op, "commit", h[p].cgen, h[p].cst, v)
        BY <2>8 DEF ReplayOutput, Replayed
      <3> QED BY <1>t, <3>1, PhasesCarry
    <2>9. CASE CompleteRun(p)
      <3>1. CASE OnReject(p)
        BY <1>t, <3>1, PhasesReject
      <3>2. CASE status' = h[p].cst /\ Leave(p, "final")
        <4>1. Terminal'
          BY <1>c, <2>9, <3>2, ZenonT(60) DEF CompleteRun, At, Terminal
        <4> QED BY <1>t, <3>2, <4>1, PhasesLeave, ZenonT(60)
      <3> QED BY <2>9, <3>1, <3>2, ZenonT(60) DEF CompleteRun, Accepted
    <2>10. CASE FinalizeCommittedRun(p)
      BY <1>t, <2>10, PhasesAccept DEF FinalizeCommittedRun, At
    <2>11. CASE Ack(p)
      BY <1>t, <2>11, PhasesGoto, PhasesReturn DEF Ack
    <2>12. CASE FenceReport(p)
      BY <1>t, <2>12, PhasesGoto, PhasesReject DEF FenceReport
    <2>13. CASE LookupInflight(p)
      BY <1>t, <2>13, PhasesGoto, PhasesReturn, ZenonT(60) DEF LookupInflight
    <2>14. CASE CompleteReclaimedRun(p)
      <3>1. CASE Terminal /\ Goto(p, TerminalCall)
        <4>1. TerminalCall \in {"final", "ack"} /\ Terminal'
          BY <2>14, <3>1, ZenonT(60) DEF TerminalCall, CompleteReclaimedRun, Terminal, rowVars
        <4>2. PhaseStep(p)
          BY <1>t, <3>1, <4>1, GotoFacts DEF PhaseStep, Captured
        <4> QED BY <1>t, <3>1, <4>1, <4>2, GotoFacts, PhasesMoved
      <3>2. CASE Carry(p, h[p].op, IF attemptGen # None THEN "recover" ELSE "bind",
                       attemptGen, "none", None)
        <4>1. PICK l \in {"recover", "bind"} :
                Carry(p, h[p].op, l, attemptGen, "none", None)
          BY <3>2, ZenonT(60)
        <4> QED BY <1>t, <4>1, PhasesCarry
      <3>3. CASE Return(p)
        BY <1>t, <3>3, PhasesReturn
      <3> QED BY <2>14, <3>1, <3>2, <3>3, ZenonT(60) DEF CompleteReclaimedRun
    <2>15. CASE BindRetainedLease(p)
      <3>1. CASE Carry(p, "exhaust", "check", h[p].gen, "error", None)
        BY <1>t, <3>1, PhasesCarry
      <3>2. CASE Return(p)
        BY <1>t, <3>2, PhasesReturn
      <3> QED BY <2>15, <3>1, <3>2 DEF BindRetainedLease
    <2>16. CASE RecheckCanceled(p)
      <3>1. CASE status = "interrupted" /\ Goto(p, "unqueue")
        <4>1. Terminal'
          BY <2>16, <3>1, ZenonT(60) DEF RecheckCanceled, Terminal, TerminalRunStatus, rowVars
        <4>2. PhaseStep(p)
          BY <1>t, <3>1, <4>1, GotoFacts DEF PhaseStep, Captured
        <4> QED BY <1>t, <3>1, <4>2, GotoFacts, PhasesMoved
      <3>2. CASE Return(p)
        BY <1>t, <3>2, PhasesReturn
      <3> QED BY <2>16, <3>1, <3>2, ZenonT(60) DEF RecheckCanceled
    <2> QED BY <1>2, <2>1, <2>2, <2>3, <2>4, <2>5, <2>6, <2>7, <2>8, <2>9, <2>10,
               <2>11, <2>12, <2>13, <2>14, <2>15, <2>16, ZenonT(60) DEF Step
  <1>3. ASSUME NEW p \in Handlers, Failure(p) PROVE Phases
    <2>1. CASE Crash(p) \/ \E inserted \in BOOLEAN : CreateRunFails(p, inserted)
      BY <1>t, <2>1, PhasesReturn, ZenonT(60) DEF CreateRunFails, Crash
    <2>2. ASSUME NEW arrived \in BOOLEAN, EnqueueFails(p, arrived) PROVE Phases
      <3>1. PhaseStep(p)
        BY <1>t, <2>2, GotoFacts, ZenonT(60) DEF EnqueueFails, At, PhaseStep, Captured
      <3> QED BY <1>t, <2>2, <3>1, GotoFacts, PhasesMoved, ZenonT(60) DEF EnqueueFails
    <2>3. CASE GetJobFails(p)
      BY <1>t, <2>3, PhasesGoto DEF GetJobFails
    <2>4. CASE ReportTimesOut(p)
      <3>1. /\ \A q \in Handlers : q # p => h'[q] = h[q]
            /\ h'[p].pc = h[p].pc /\ h'[p].vals = h[p].vals
            /\ h'[p].cgen = h[p].cgen
        BY <1>t, <2>4, ZenonT(60) DEF ReportTimesOut, HTypeOK, HandlerState
      <3>2. PhaseStep(p)
        BY <3>1 DEF PhaseStep, Captured
      <3> QED BY <3>1, <3>2, PhasesMoved
    <2> QED BY <1>3, <2>1, <2>2, <2>3, <2>4 DEF Failure
  <1>4. ASSUME NEW p \in Handlers, Request(p) PROVE Phases
    BY <1>t, <1>4, PhasesStart, ZenonT(60) DEF Request, TryClaimThread, CancelRun, CompleteObservedRun
  <1>5. ASSUME NEW p \in Handlers, RunnerCall(p) PROVE Phases
    <2>1. CASE UNCHANGED h
      BY <2>1, PhasesSame
    <2> QED BY <1>t, <1>5, <2>1, PhasesStart
            DEF RunnerCall, Dequeue, StreamValues, StreamEnd, ReportStatus
  <1>6. ASSUME NEW p \in Handlers, ReclaimStale(p) PROVE Phases
    BY <1>t, <1>6, PhasesSame, PhasesStart DEF ReclaimStale
  <1>7. ASSUME NEW p \in Handlers, TimeoutOverdueRun(p) PROVE Phases
    BY <1>t, <1>7, PhasesStart DEF TimeoutOverdueRun
  <1>8. CASE \/ DropCanceled \/ LeaseExpires
             \/ \E g \in Gens : Heartbeat(g) \/ RunnerStops(g) \/ RunRaises(g)
    BY <1>8, PhasesSame, ZenonT(60)
    DEF DropCanceled, LeaseExpires, Heartbeat, RunnerStops, RunRaises
  <1> QED
    BY <1>1, <1>2, <1>3, <1>4, <1>5, <1>6, <1>7, <1>8, ZenonT(60) DEF Next, Handlers

-----------------------------------------------------------------------------
\* Nothing exists of a run that is not inserted.
Untouched ==
    /\ attemptGen = None /\ completion = Incomplete /\ output = None /\ merges = 0
    /\ ready = <<>> /\ inflight = None /\ ~canceled
    /\ log = {} /\ \A g \in Gens : attempt[g] = "none"
    /\ \A q \in Handlers : h[q] = Idle \/ (h[q].pc = "insert" /\ h[q].op = "create")

\* What holds when a handler is about to make a decisive call.
PhaseOK(q) ==
    /\ h[q].pc = "insert" => status = "absent" /\ thread = "busy"
    /\ h[q].pc = "enqueue" => status # "absent" /\ ready = <<>> /\ inflight = None
    /\ h[q].pc \in {"rollback", "release"} => status # "absent"
    /\ h[q].pc \in {"final", "unqueue"} => Terminal

\* One handler at a time creates the run.
OneCreator ==
    \A p, q \in Handlers :
        h[p].pc \in {"insert", "enqueue"} /\ h[q].pc \in {"insert", "enqueue"} => p = q

RowInv ==
    /\ FencedCompletion
    /\ OutputOfWinner
    /\ MergedOnce
    /\ completion = Incomplete => merges = 0
    /\ ThreadFollowsRun

SafetyInv ==
    /\ TypeInv
    /\ \A q \in Handlers : Captured(q)
    /\ status = "absent" => Untouched
    /\ \A q \in Handlers : PhaseOK(q)
    /\ OneCreator
    /\ RowInv
    /\ SingleCopy
    /\ CanceledIsTerminal

\* The initial state satisfies the safety invariant.
LEMMA SafetyInit == Init => SafetyInv
  <1> SUFFICES ASSUME Init PROVE SafetyInv
    OBVIOUS
  <1>1. TypeInv
    BY TypeInit
  <1>2. \A q \in Handlers : h[q] = Idle /\ h[q].pc = "idle" /\ Captured(q)
    BY DEF Init, Idle, Captured
  <1>3. Untouched
    BY <1>2 DEF Init, Untouched
  <1>4. ~Terminal /\ status = "absent"
    BY DEF Init, Terminal, TerminalRunStatus
  <1>5. RowInv
    BY <1>4 DEF Init, RowInv, FencedCompletion, OutputOfWinner, MergedOnce,
                ThreadFollowsRun, Active, None, Incomplete
  <1>6. SingleCopy
    BY ZenonT(60) DEF Init, SingleCopy
  <1> QED BY <1>1, <1>2, <1>3, <1>4, <1>5, <1>6
          DEF SafetyInv, PhaseOK, OneCreator, CanceledIsTerminal, Untouched

\* Before the row is inserted only its creator moves.
LEMMA FreshSteps ==
    ASSUME TypeInv, Untouched, status = "absent", [Next]_vars
    PROVE  \/ UNCHANGED vars
           \/ \E p \in Handlers :
                 \/ TryClaimThread(p) \/ CreateRun(p)
                 \/ InsertFails(p) \/ InsertLost(p)
                 \/ Crash(p) /\ h[p].pc = "insert" /\ h[p].op = "create"
  <1> DEFINE Goal == \/ UNCHANGED vars
                     \/ \E p \in Handlers :
                           \/ TryClaimThread(p) \/ CreateRun(p)
                           \/ InsertFails(p) \/ InsertLost(p)
                           \/ Crash(p) /\ h[p].pc = "insert" /\ h[p].op = "create"
  <1> SUFFICES Goal
    BY ZenonT(60)
  <1>1. \A q \in Handlers : \/ h[q] = Idle /\ h[q].pc = "idle" /\ h[q].op = "none"
                            \/ h[q].pc = "insert" /\ h[q].op = "create"
    BY SMTT(60) DEF Untouched, Idle
  <1>2. ASSUME NEW p \in Handlers, Step(p) PROVE CreateRun(p)
    BY <1>1, <1>2, ZenonT(60) DEF Step, At, Enqueue, RollbackRun, ReleaseThread,
       RollbackRunFails, RollbackContextDone, AttemptCallback, RecoverDeliveredCompletion, BeginRunAttempt, Deliver, Nack,
       CheckCompletion, ReplayOutput, CompleteRun, FinalizeCommittedRun, Ack, Publish,
       FenceReport, Respond, LookupInflight, CompleteReclaimedRun, BindRetainedLease,
       RecheckCanceled, QueueCancel
  <1>3. ASSUME NEW p \in Handlers, Failure(p) PROVE Goal
    <2>1. ASSUME NEW arrived \in BOOLEAN, EnqueueFails(p, arrived) PROVE FALSE
      BY <1>1, <2>1 DEF EnqueueFails, At
    <2>2. ~GetJobFails(p) /\ ~ReportTimesOut(p)
      BY <1>1 DEF GetJobFails, ReportTimesOut
    <2>3. Crash(p) => h[p].pc = "insert" /\ h[p].op = "create"
      BY <1>1, ZenonT(60) DEF Crash
    <2>4. ASSUME NEW inserted \in BOOLEAN, CreateRunFails(p, inserted)
          PROVE  InsertFails(p) \/ InsertLost(p)
      <3>1. inserted = TRUE \/ inserted = FALSE
        OBVIOUS
      <3> QED BY <2>4, <3>1, ZenonT(60) DEF InsertFails, InsertLost
    <2> QED BY <1>3, <2>1, <2>2, <2>3, <2>4, ZenonT(60) DEF Failure
  <1>4. ASSUME NEW p \in Handlers, Request(p) PROVE TryClaimThread(p)
    BY <1>4, ZenonT(60) DEF Request, CancelRun, CompleteObservedRun, Untouched
  <1>5. ASSUME NEW p \in Handlers, RunnerCall(p) PROVE FALSE
    BY <1>5, ZenonT(60) DEF RunnerCall, Dequeue, StreamValues, StreamEnd, ReportStatus, Untouched
  <1>6. ASSUME NEW p \in Handlers, ReclaimStale(p) \/ TimeoutOverdueRun(p) PROVE FALSE
    BY <1>6 DEF ReclaimStale, TimeoutOverdueRun, Active, Untouched
  <1>7. ~DropCanceled /\ ~LeaseExpires
    BY ZenonT(60) DEF DropCanceled, LeaseExpires, Untouched
  <1>8. ASSUME NEW g \in Gens, Heartbeat(g) \/ RunnerStops(g) \/ RunRaises(g)
        PROVE  FALSE
    BY <1>8 DEF Heartbeat, RunnerStops, RunRaises, Untouched
  <1> QED BY <1>2, <1>3, <1>4, <1>5, <1>6, <1>7, <1>8, ZenonT(60) DEF Next, Handlers

\* The cancel marker of the queue is set by QueueCancel only.
LEMMA CancelSteps ==
    [Next]_vars => canceled' = canceled \/ \E p \in Handlers : QueueCancel(p)
  <1> SUFFICES ASSUME [Next]_vars, \A p \in Handlers : ~QueueCancel(p)
               PROVE  canceled' = canceled
    OBVIOUS
  <1>1. CASE UNCHANGED vars
    BY <1>1, ZenonT(60) DEF vars, queueVars
  <1>2. ASSUME NEW p \in Handlers, Step(p) PROVE canceled' = canceled
    BY <1>2, ZenonT(60) DEF Step, CreateRun, Enqueue, RollbackRun, ReleaseThread,
       RollbackRunFails, RollbackContextDone, AttemptCallback,
       RecoverDeliveredCompletion, BeginRunAttempt, Deliver, Nack, CheckCompletion, ReplayOutput, CompleteRun,
       FinalizeCommittedRun, Ack, Publish, FenceReport, Respond, LookupInflight,
       CompleteReclaimedRun, BindRetainedLease, RecheckCanceled, queueVars
  <1>3. ASSUME NEW p \in Handlers, Failure(p) PROVE canceled' = canceled
    BY <1>3 DEF Failure, EnqueueFails, CreateRunFails, GetJobFails, ReportTimesOut,
                Crash, queueVars
  <1>4. ASSUME NEW p \in Handlers, Request(p) PROVE canceled' = canceled
    BY <1>4, ZenonT(60) DEF Request, TryClaimThread, CancelRun, CompleteObservedRun, queueVars
  <1>5. ASSUME NEW p \in Handlers, RunnerCall(p) PROVE canceled' = canceled
    BY <1>5 DEF RunnerCall, Dequeue, StreamValues, StreamEnd, ReportStatus, queueVars
  <1>6. ASSUME NEW p \in Handlers, ReclaimStale(p) \/ TimeoutOverdueRun(p)
        PROVE  canceled' = canceled
    BY <1>6 DEF ReclaimStale, TimeoutOverdueRun, queueVars
  <1>7. CASE \/ DropCanceled \/ LeaseExpires
             \/ \E g \in Gens : Heartbeat(g) \/ RunnerStops(g) \/ RunRaises(g)
    BY <1>7 DEF DropCanceled, LeaseExpires, Heartbeat, RunnerStops, RunRaises, queueVars
  <1> QED BY <1>1, <1>2, <1>3, <1>4, <1>5, <1>6, <1>7 DEF Next, Handlers

\* A row that exists is never removed, and a terminal status stays terminal
\* (rollbackCreatedRun may replace one terminal status by another).
LEMMA RowMonotone ==
    ASSUME SafetyInv, [Next]_vars
    PROVE  /\ status # "absent" => status' # "absent"
           /\ Terminal => Terminal'
  <1>1. CASE UNCHANGED rowCore
    BY <1>1 DEF rowCore, Terminal
  <1>2. ASSUME NEW p \in Handlers, TryClaimThread(p) \/ InsertFails(p) \/ ReleaseThread(p)
        PROVE  UNCHANGED status
    BY <1>2, ZenonT(60) DEF TryClaimThread, InsertFails, CreateRunFails, ReleaseThread
  <1>3. ASSUME NEW p \in Handlers, CreateRun(p) \/ InsertLost(p)
        PROVE  status = "absent" /\ ~Terminal /\ status' = "pending"
    <2>1. At(p, "insert") /\ status' = "pending"
      BY <1>3, ZenonT(60) DEF CreateRun, InsertLost, CreateRunFails
    <2> QED BY <2>1 DEF At, SafetyInv, PhaseOK, Terminal, TerminalRunStatus
  <1>4. ASSUME NEW p \in Handlers, RollbackRun(p) PROVE Terminal' /\ status' # "absent"
    BY <1>4 DEF RollbackRun, Terminal, TerminalRunStatus
  <1>5. ASSUME NEW p \in Handlers, Begins(p) PROVE ~Terminal /\ status' = "running"
    BY <1>5, ZenonT(60) DEF Begins, BeginAccepted
  <1>6. ASSUME NEW p \in Handlers, Commits(p) PROVE Terminal' /\ status' # "absent"
    BY <1>6, ZenonT(60)
    DEF Commits, At, SafetyInv, TypeInv, CallOK, Presents, Terminal, TerminalRunStatus
  <1> QED BY <1>1, <1>2, <1>3, <1>4, <1>5, <1>6, RowSteps, ZenonT(60) DEF RowStep, Terminal

\* Each of the seven writes preserves the invariants about the row.
LEMMA RowInvStep ==
    ASSUME SafetyInv, [Next]_vars PROVE RowInv'
  <1> USE DEF RowInv, FencedCompletion, OutputOfWinner, MergedOnce, ThreadFollowsRun
  <1>0. RowInv /\ TypeInv
    BY DEF SafetyInv
  <1>1. CASE UNCHANGED rowCore
    BY <1>0, <1>1, ZenonT(60) DEF rowCore, Terminal, Active
  <1>2. ASSUME NEW p \in Handlers, TryClaimThread(p) \/ InsertFails(p) PROVE RowInv'
    <2>1. status = "absent" /\ Untouched
      BY <1>2, ZenonT(60)
      DEF TryClaimThread, InsertFails, CreateRunFails, At, SafetyInv, PhaseOK
    <2> QED BY <1>0, <1>2, <2>1, ZenonT(60)
            DEF TryClaimThread, InsertFails, CreateRunFails, Untouched, Terminal, Active,
                TerminalRunStatus
  <1>8. ASSUME NEW p \in Handlers, InsertLost(p) PROVE RowInv'
    <2>1. Untouched
      BY <1>8, ZenonT(60) DEF InsertLost, CreateRunFails, At, SafetyInv, PhaseOK
    <2>2. /\ completion' = Incomplete /\ output' = None /\ merges' = 0
          /\ thread' = "idle" /\ unowned' = TRUE
      BY <1>8, <2>1, ZenonT(60) DEF InsertLost, CreateRunFails, Untouched
    <2> QED BY <2>2, SMTT(30)
  <1>3. ASSUME NEW p \in Handlers, CreateRun(p) PROVE RowInv'
    <2>1. status = "absent" /\ thread = "busy" /\ Untouched
      BY <1>3 DEF CreateRun, At, SafetyInv, PhaseOK
    <2> QED BY <1>0, <1>3, <2>1, ZenonT(60) DEF CreateRun, Untouched, Terminal, Active, None, Incomplete
  <1>4. ASSUME NEW p \in Handlers, RollbackRun(p) PROVE RowInv'
    BY <1>0, <1>4, ZenonT(60) DEF RollbackRun, Terminal, Active, TerminalRunStatus
  <1>5. ASSUME NEW p \in Handlers, ReleaseThread(p) PROVE RowInv'
    <2>1. UNCHANGED <<status, attemptGen, completion, output, merges>>
      BY <1>5, ZenonT(60) DEF ReleaseThread
    <2>2. (Active' => unowned') /\ thread' # "busy"
      BY <1>5, <2>1, ZenonT(60) DEF ReleaseThread, Active
    <2> QED BY <1>0, <2>1, <2>2, ZenonT(60) DEF Terminal
  <1>6. ASSUME NEW p \in Handlers, Begins(p) PROVE RowInv'
    <2>1. completion = Incomplete /\ ~Terminal
      BY <1>0, <1>6, ZenonT(60) DEF Begins, BeginAccepted
    <2>2. status # "absent"
      BY <1>6 DEF Begins, SafetyInv, Untouched, Idle
    <2>3. Active
      BY <1>0, <2>1, <2>2, ZenonT(60) DEF TypeInv, TypeOK, RunStatus, Terminal, Active
    <2> QED BY <1>0, <1>6, <2>1, <2>3 DEF Begins, Active, Terminal, TerminalRunStatus
  <1>7. ASSUME NEW p \in Handlers, Commits(p) PROVE RowInv'
    <2>1. /\ h[p].cst \in TerminalRunStatus
          /\ completion = Incomplete /\ completion' = attemptGen
          /\ attemptGen \in {None} \cup Gens
          /\ UNCHANGED attemptGen
      BY <1>0, <1>7, ZenonT(60) DEF Commits, At, Applied, TypeInv, CallOK, Presents, TypeOK
    <2>2. ResolvedVals(p) \in {None, completion'}
      BY <1>7, <2>1, ZenonT(60) DEF Commits, Applied, ResolvedVals, SafetyInv, Captured
    <2>3. merges = 0 /\ merges' \in {0, 1} /\ (merges' = 1 => completion' \in Gens)
      BY <1>0, <1>7, <2>1, <2>2, SMTT(60) DEF Commits
    <2>4. thread' # "busy"
      BY <1>7, ZenonT(60) DEF Commits, ReleasedThread
    <2>5. Terminal' /\ ~Active'
      BY <1>7, <2>1 DEF Commits, Terminal, Active, TerminalRunStatus
    <2>6. output' \in {None, completion'}
      BY <1>7, <2>2 DEF Commits
    <2>7. completion' # Incomplete
      BY <2>1 DEF Incomplete, None, Gens
    <2> QED BY <2>1, <2>3, <2>4, <2>5, <2>6, <2>7, SMTT(60)
  <1> QED BY <1>1, <1>2, <1>3, <1>4, <1>5, <1>6, <1>7, <1>8, RowSteps, ZenonT(60)
          DEF RowStep

\* SafetyInv is inductive.
LEMMA SafetyStep ==
    ASSUME SafetyInv, [Next]_vars PROVE SafetyInv'
  <1>1. TypeInv /\ TypeInv' /\ HTypeOK
    BY TypeInductive DEF SafetyInv, TypeInv, TypeOK, HTypeOK
  <1>2. Phases
    BY <1>1, PhaseSteps, ZenonT(60) DEF SafetyInv
  <1>3. \A q \in Handlers : Captured(q)'
    BY <1>2 DEF Phases, PhaseStep
  <1>4. RowInv'
    BY RowInvStep
  <1>5. status' = "absent" => status = "absent"
    BY RowMonotone, ZenonT(60)
  <1>6. status' = "absent" => Untouched'
    <2> SUFFICES ASSUME status' = "absent" PROVE Untouched'
      OBVIOUS
    <2>1. status = "absent" /\ Untouched
      BY <1>5, ZenonT(60) DEF SafetyInv
    <2>2. CASE UNCHANGED vars
      BY <2>1, <2>2, ZenonT(60) DEF vars, rowVars, queueVars, runnerVars, Untouched
    <2>3. ASSUME NEW p \in Handlers, TryClaimThread(p) PROVE Untouched'
      <3>1. /\ \A q \in Handlers : q # p => h'[q] = h[q]
            /\ h'[p].pc = "insert" /\ h'[p].op = "create"
        BY <1>1, <2>3, ZenonT(60) DEF TryClaimThread, Start, HTypeOK
      <3> QED BY <2>1, <2>3, <3>1, ZenonT(60) DEF TryClaimThread, queueVars, runnerVars, Untouched
    <2>4. ASSUME NEW p \in Handlers, InsertFails(p) PROVE Untouched'
      BY <1>1, <2>1, <2>4, ReturnFacts, ZenonT(60)
      DEF InsertFails, CreateRunFails, queueVars, runnerVars, Untouched
    <2>5. ASSUME NEW p \in Handlers, Crash(p), h[p].op = "create" PROVE Untouched'
      <3>1. UNCHANGED attempt
        BY <2>5 DEF Crash
      <3> QED BY <1>1, <2>1, <2>5, <3>1, ReturnFacts
              DEF Crash, rowVars, queueVars, Untouched
    <2>6. ASSUME NEW p \in Handlers, CreateRun(p) \/ InsertLost(p) PROVE FALSE
      BY <2>6, ZenonT(60) DEF CreateRun, InsertLost, CreateRunFails
    <2> QED BY <1>1, <2>1, <2>2, <2>3, <2>4, <2>5, <2>6, FreshSteps, ZenonT(60)
  <1>7. QueueStep
    BY <1>1, QueueSteps, ZenonT(60)
  <1>8. OneCreator'
    <2> SUFFICES ASSUME NEW p \in Handlers, NEW q \in Handlers, p # q,
                        h'[p].pc \in {"insert", "enqueue"},
                        h'[q].pc \in {"insert", "enqueue"}
                 PROVE  FALSE
      BY ZenonT(60) DEF OneCreator
    <2>1. /\ h[p].pc \in {"insert", "enqueue"} \/ TryClaimThread(p)
          /\ h[q].pc \in {"insert", "enqueue"} \/ TryClaimThread(q)
      BY <1>2, ZenonT(60) DEF Phases, PhaseStep, CreateRun, At
    <2>2. ASSUME NEW i \in Handlers, NEW j \in Handlers, i # j, TryClaimThread(i)
          PROVE  h[j].pc \notin {"insert", "enqueue"} /\ h'[j] = h[j]
      <3>1. status = "absent" /\ thread # "busy" /\ h'[j] = h[j]
        BY <1>1, <2>2, ZenonT(60) DEF TryClaimThread, Start, HTypeOK
      <3> QED BY <3>1, ZenonT(60) DEF SafetyInv, PhaseOK
    <2> QED BY <2>1, <2>2, ZenonT(60) DEF SafetyInv, OneCreator
  <1>9. ASSUME NEW q \in Handlers PROVE PhaseOK(q)'
    <2>1. PhaseStep(q)
      BY <1>2, ZenonT(60) DEF Phases
    <2>2. ASSUME h'[q].pc = "insert" PROVE status' = "absent" /\ thread' = "busy"
      <3>1. CASE TryClaimThread(q)
        BY <3>1, ZenonT(60) DEF TryClaimThread
      <3>2. CASE h[q].pc = "insert" /\ ~TryClaimThread(q)
        <4>1. status = "absent" /\ thread = "busy" /\ Untouched
          BY <3>2 DEF SafetyInv, PhaseOK
        <4>2. CASE UNCHANGED vars
          BY <4>1, <4>2 DEF vars, rowVars
        <4>3. ASSUME NEW p \in Handlers, TryClaimThread(p) PROVE FALSE
          BY <4>1, <4>3, ZenonT(60) DEF TryClaimThread
        <4>4. ASSUME NEW p \in Handlers, CreateRun(p) \/ InsertFails(p) \/ InsertLost(p)
              PROVE  FALSE
          <5>0. h[p].pc = "insert" /\ (Goto(p, "enqueue") \/ Return(p))
            BY <4>4, ZenonT(60) DEF CreateRun, InsertFails, InsertLost, CreateRunFails, At
          <5>1. p = q
            BY <3>2, <5>0, ZenonT(60) DEF SafetyInv, OneCreator
          <5>2. h'[p].pc \in {"enqueue", "idle"}
            BY <1>1, <5>0, GotoFacts, ReturnFacts, ZenonT(60) DEF Labels
          <5> QED BY <2>2, <5>1, <5>2, ZenonT(60)
        <4>5. ASSUME NEW p \in Handlers, Crash(p) PROVE status' = "absent" /\ thread' = "busy"
          BY <4>1, <4>5, ZenonT(60) DEF Crash, rowVars
        <4> QED BY <1>1, <4>1, <4>2, <4>3, <4>4, <4>5, FreshSteps, ZenonT(60)
      <3> QED BY <2>1, <2>2, <3>1, <3>2 DEF PhaseStep
    <2>3. ASSUME h'[q].pc = "enqueue"
          PROVE  status' # "absent" /\ ready' = <<>> /\ inflight' = None
      <3>1. CASE CreateRun(q)
        <4>1. Untouched
          BY <3>1, ZenonT(60) DEF CreateRun, At, SafetyInv, PhaseOK
        <4> QED BY <3>1, <4>1, ZenonT(60) DEF CreateRun, queueVars, Untouched
      <3>2. CASE h[q].pc = "enqueue"
        <4>1. status # "absent" /\ ready = <<>> /\ inflight = None
          BY <3>2, ZenonT(60) DEF SafetyInv, PhaseOK
        <4>2. ASSUME NEW p \in Handlers, Enqueues(p) PROVE FALSE
          <5>1. p = q
            BY <3>2, <4>2, ZenonT(60) DEF Enqueues, At, SafetyInv, OneCreator
          <5>2. h'[p].pc \in {"idle", "rollback"}
            BY <1>1, <4>2, GotoFacts, ReturnFacts DEF Enqueues, Labels
          <5> QED BY <2>3, <5>1, <5>2, ZenonT(60)
        <4> QED BY <1>5, <1>7, <4>1, <4>2, ZenonT(60) DEF QueueStep, Unleases, Pops
      <3> QED BY <2>1, <2>3, <3>1, <3>2, ZenonT(60) DEF PhaseStep
    <2>4. h'[q].pc \in {"rollback", "release"} => status' # "absent"
      BY <1>5, <2>1, ZenonT(60) DEF PhaseStep, SafetyInv, PhaseOK
    <2>5. h'[q].pc \in {"final", "unqueue"} => Terminal'
      BY <2>1, RowMonotone, ZenonT(60) DEF PhaseStep, SafetyInv, PhaseOK
    <2> QED BY <2>2, <2>3, <2>4, <2>5 DEF PhaseOK
  <1>10. SingleCopy'
    <2>0. ready \in Seq(Gens) /\ SingleCopy
      BY <1>1, ZenonT(60) DEF TypeInv, TypeOK, SafetyInv
    <2>1. CASE UNCHANGED <<ready, inflight>>
      BY <2>0, <2>1 DEF SingleCopy
    <2>2. ASSUME NEW p \in Handlers, Enqueues(p) PROVE SingleCopy'
      <3>1. ready = <<>> /\ inflight = None
        BY <2>2 DEF Enqueues, At, SafetyInv, PhaseOK
      <3>2. Len(Append(ready, 1)) = 1
        BY <3>1
      <3> QED BY <2>2, <3>1, <3>2, ZenonT(60) DEF Enqueues, SingleCopy
    <2>3. CASE Unleases
      <3>1. ready = <<>>
        BY <2>0, <2>3 DEF Unleases, SingleCopy
      <3>2. \A g \in Gens : Len(Append(ready, g)) = 1
        BY <3>1
      <3> QED BY <2>3, <3>1, <3>2 DEF Unleases, SingleCopy
    <2>4. CASE Pops
      <3>1. Len(ready) = 1
        BY <2>0, <2>4 DEF Pops, SingleCopy
      <3>2. Tail(ready) = <<>>
        BY <2>0, <2>4, <3>1 DEF Pops
      <3> QED BY <2>4, <3>2 DEF Pops, SingleCopy
    <2> QED BY <1>7, <2>1, <2>2, <2>3, <2>4, ZenonT(60) DEF QueueStep
  <1>11. CanceledIsTerminal'
    <2>1. ASSUME NEW p \in Handlers, QueueCancel(p) PROVE Terminal
      BY <2>1, ZenonT(60) DEF QueueCancel, At, SafetyInv, PhaseOK
    <2> QED BY <2>1, CancelSteps, RowMonotone, ZenonT(60) DEF CanceledIsTerminal, SafetyInv
  <1> QED BY <1>1, <1>3, <1>4, <1>6, <1>8, <1>9, <1>10, <1>11, ZenonT(60) DEF SafetyInv

\* The safety invariant holds in every reachable state.
LEMMA SafetyInvariant == Spec => []SafetyInv
  <1>1. SafetyInv /\ [Next]_vars => SafetyInv'
    BY SafetyStep
  <1> QED BY <1>1, SafetyInit, PTL DEF Spec

\* For any number of concurrent handlers, retries and failures: a completion in
\* the row is of the attempt in the row, whichever handlers raced for it (the fence
\* of CheckCompletion and BeginRunAttempt).
THEOREM CompletionIsFenced == Spec => []FencedCompletion
  <1>1. SafetyInv => FencedCompletion
    BY DEF SafetyInv, RowInv
  <1> QED BY <1>1, SafetyInvariant, PTL

\* However many reapers and GetJobs work on the queue, and whatever they give back
\* late, the job is never in it twice (Nack, Ack and ReclaimStale are fenced by the
\* lease).
THEOREM JobExistsOnce == Spec => []SingleCopy
  <1>1. SafetyInv => SingleCopy
    BY DEF SafetyInv
  <1> QED BY <1>1, SafetyInvariant, PTL

\* The stored output is of the completed attempt, also for a cancellation whose
\* usage was captured from another one (ResolveCompletion).
THEOREM OutputIsOfWinner == Spec => []OutputOfWinner
  <1>1. SafetyInv => OutputOfWinner
    BY DEF SafetyInv, RowInv
  <1> QED BY <1>1, SafetyInvariant, PTL

\* The thread gets at most one completion checkpoint, however often a completion
\* is presented (CheckCompletion under the row lock).
THEOREM CheckpointedOnce == Spec => []MergedOnce
  <1>1. SafetyInv => MergedOnce
    BY DEF SafetyInv, RowInv
  <1> QED BY <1>1, SafetyInvariant, PTL

\* queue.Cancel only ever marks a terminal run, so the jobs Dequeue drops are of
\* runs that have ended.
THEOREM CancelMarksTerminal == Spec => []CanceledIsTerminal
  <1>1. SafetyInv => CanceledIsTerminal
    BY DEF SafetyInv
  <1> QED BY <1>1, SafetyInvariant, PTL

\* A completed run has released its thread, and an active one owns it unless its
\* creation gave the thread back (the deferred SetThreadStatus of createRunCtx, and
\* rollbackCreatedRun).
THEOREM ThreadIsOwned == Spec => []ThreadFollowsRun
  <1>1. SafetyInv => ThreadFollowsRun
    BY DEF SafetyInv, RowInv
  <1> QED BY <1>1, SafetyInvariant, PTL

\* No handler but rollbackCreatedRun changes the status, the completion, the
\* output or the checkpoints of a terminal run, however many duplicate reports,
\* reclaims, cancels and timeouts race.
THEOREM TerminalStaysFinal == Spec => TerminalIsFinal
  <1>1. ASSUME SafetyInv, [Next]_vars, Terminal, \A p \in Handlers : ~RollbackRun(p)
        PROVE  UNCHANGED <<status, completion, output, merges>>
    <2>1. ASSUME NEW p \in Handlers,
                 CreateRun(p) \/ InsertLost(p) \/ Begins(p) \/ Commits(p)
          PROVE  FALSE
      <3>1. ~Begins(p) /\ ~Commits(p)
        BY <1>1, ZenonT(60) DEF Begins, BeginAccepted, Commits, Applied
      <3>2. At(p, "insert")
        BY <2>1, <3>1, ZenonT(60) DEF CreateRun, InsertLost, CreateRunFails
      <3> QED BY <1>1, <3>2, ZenonT(60)
              DEF At, SafetyInv, PhaseOK, Terminal, TerminalRunStatus
    <2>2. ASSUME NEW p \in Handlers,
                 TryClaimThread(p) \/ InsertFails(p) \/ ReleaseThread(p)
          PROVE  UNCHANGED <<status, completion, output, merges>>
      BY <2>2, ZenonT(60) DEF TryClaimThread, InsertFails, CreateRunFails, ReleaseThread
    <2>3. CASE UNCHANGED rowCore
      BY <2>3 DEF rowCore
    <2>4. RowStep
      BY <1>1, RowSteps
    <2> QED BY <1>1, <2>1, <2>2, <2>3, <2>4 DEF RowStep
  <1>2. SafetyInv /\ [Next]_vars =>
          [Terminal /\ (\A p \in Handlers : ~RollbackRun(p)) =>
             UNCHANGED <<status, completion, output, merges>>]_vars
    BY <1>1
  <1> QED BY <1>2, SafetyInvariant, PTL DEF Spec, TerminalIsFinal

\* Neither a late GetJob nor a late reaper takes the row back to an earlier
\* attempt: BeginRunAttempt compares generations under the row lock.
THEOREM AttemptsOnlyAdvance == Spec => AttemptsAdvance
  <1>1. SafetyInv /\ [Next]_vars => [attemptGen' >= attemptGen]_attemptGen
    <2> SUFFICES ASSUME SafetyInv, [Next]_vars PROVE [attemptGen' >= attemptGen]_attemptGen
      OBVIOUS
    <2>1. ASSUME NEW p \in Handlers, Begins(p) PROVE attemptGen' >= attemptGen
      <3>1. attemptGen <= h[p].gen /\ attemptGen' = h[p].gen
        BY <2>1, ZenonT(60) DEF Begins, BeginAccepted
      <3>2. attemptGen \in Int /\ h[p].gen \in Int
        BY DEF SafetyInv, TypeInv, TypeOK, HandlerState, Gens, None
      <3> QED BY <3>1, <3>2, ZenonT(60)
    <2> QED BY <2>1, RowSteps, ZenonT(60) DEF RowStep, rowCore, TryClaimThread, CreateRun,
               InsertFails, InsertLost, CreateRunFails, RollbackRun, ReleaseThread, Commits
  <1> QED BY <1>1, SafetyInvariant, PTL DEF Spec, AttemptsAdvance

\* What a completion transaction that applies does, as the contract sees it.
LEMMA CommitCompletes ==
    ASSUME SafetyInv, NEW p \in Handlers, Commits(p)
    PROVE  Contract!Complete(h[p].cst) /\ h[p].cst \in TerminalRunStatus
  <1>1. /\ TypeInv /\ CallOK(p) /\ Captured(p)
    BY DEF SafetyInv, TypeInv
  <1>2. Presents(h[p].op, h[p].cgen, h[p].cst)
    BY <1>1 DEF Commits, At, CallOK
  <1>3. /\ attemptGen = ResolvedGen(p) /\ completion = Incomplete /\ ~Terminal
    BY ZenonT(60) DEF Commits, Applied
  <1>4. status # "absent"
    BY DEF Commits, At, SafetyInv, Untouched, Idle
  <1>5. status \in {"pending", "running"}
    BY <1>1, <1>3, <1>4, ZenonT(60) DEF TypeInv, TypeOK, RunStatus, Terminal
  <1>6. ResolvedVals(p) \in {None, attemptGen}
    BY <1>1, <1>3 DEF ResolvedVals, Captured
  <1>7. h[p].cst = "success" => attemptGen \in Gens
    BY <1>2, <1>3 DEF Presents, ResolvedGen, CancelCurrentAttempt
  <1>8. /\ status' = h[p].cst /\ completion' = attemptGen
        /\ output' \in {0, attemptGen} /\ attemptGen' = attemptGen
    BY <1>3, <1>6, ZenonT(60) DEF Commits, None
  <1>9. completion = -1
    BY <1>3 DEF Incomplete
  <1> QED BY <1>2, <1>5, <1>7, <1>8, <1>9 DEF Contract!Complete, Contract!Active, Presents

\* A begin of an attempt, as the contract sees it.
LEMMA BeginBegins ==
    ASSUME SafetyInv, NEW p \in Handlers, Begins(p)
    PROVE  \E g \in Gens : Contract!BeginAttempt(g)
  <1>1. TypeInv /\ attemptGen <= h[p].gen /\ ~Terminal
    BY ZenonT(60) DEF SafetyInv, Begins, BeginAccepted
  <1>2. status # "absent"
    BY DEF Begins, SafetyInv, Untouched, Idle
  <1>3. status \in {"pending", "running"}
    BY <1>1, <1>2, ZenonT(60) DEF TypeInv, TypeOK, RunStatus, Terminal
  <1>4. h[p].gen \in Gens
    BY <1>1, ZenonT(60) DEF Begins, TypeInv, CallOK
  <1>5. /\ status' = "running" /\ attemptGen' = h[p].gen
        /\ UNCHANGED <<completion, output>>
    BY DEF Begins
  <1>6. h[p].gen >= attemptGen
    BY <1>1, <1>4 DEF TypeInv, TypeOK, Gens, None
  <1>7. Contract!BeginAttempt(h[p].gen)
    BY <1>3, <1>5, <1>6 DEF Contract!BeginAttempt, Contract!Active
  <1> QED BY <1>4, <1>7

\* For every instance, the row implements RunContract: attempts advance until one
\* completion, of the latest attempt and with its output or none, ends the run, and
\* nothing but the rollback of a failed creation changes it after that.
THEOREM RowKeepsContract == Spec => ContractSpec
  <1>1. Init => Contract!Init
    BY DEF Init, Contract!Init, None, Incomplete
  <1>2. ASSUME SafetyInv, [Next]_vars
        PROVE  [Contract!Next]_(Contract!contractVars)
    <2> DEFINE Keeps == UNCHANGED <<status, attemptGen, completion, output>>
    <2>0. Keeps => [Contract!Next]_(Contract!contractVars)
      BY DEF Contract!contractVars
    <2>1. CASE UNCHANGED rowCore
      BY <2>0, <2>1 DEF rowCore
    <2>2. ASSUME NEW p \in Handlers, TryClaimThread(p) \/ InsertFails(p) \/ ReleaseThread(p)
          PROVE  Keeps
      BY <2>2, ZenonT(60) DEF TryClaimThread, InsertFails, CreateRunFails, ReleaseThread
    <2>3. ASSUME NEW p \in Handlers, CreateRun(p) \/ InsertLost(p)
          PROVE  Contract!Next
      <3>1. /\ At(p, "insert") /\ status' = "pending"
            /\ UNCHANGED <<attemptGen, completion, output>>
        BY <2>3, ZenonT(60) DEF CreateRun, InsertLost, CreateRunFails
      <3>2. status = "absent"
        BY <1>2, <3>1 DEF At, SafetyInv, PhaseOK
      <3> QED BY <3>1, <3>2 DEF Contract!Next, Contract!Create
    <2>4. ASSUME NEW p \in Handlers, RollbackRun(p) PROVE Contract!Next
      <3>1. status # "absent"
        BY <1>2, <2>4, ZenonT(60) DEF RollbackRun, At, SafetyInv, PhaseOK
      <3>2. Contract!FailCreation
        BY <2>4, <3>1, ZenonT(60) DEF RollbackRun, None, Contract!FailCreation
      <3> QED BY <3>2 DEF Contract!Next
    <2>5. ASSUME NEW p \in Handlers, Begins(p) PROVE Contract!Next
      BY <1>2, <2>5, BeginBegins, ZenonT(60) DEF Contract!Next
    <2>6. ASSUME NEW p \in Handlers, Commits(p) PROVE Contract!Next
      <3>1. TerminalRunStatus = Contract!Terminals
        BY DEF TerminalRunStatus, Contract!Terminals
      <3> QED BY <1>2, <2>6, <3>1, CommitCompletes, ZenonT(60) DEF Contract!Next
    <2>7. RowStep
      BY <1>2, RowSteps
    <2> HIDE DEF Keeps
    <2> QED BY <2>0, <2>1, <2>2, <2>3, <2>4, <2>5, <2>6, <2>7, ZenonT(60) DEF RowStep
  <1>3. SafetyInv /\ [Next]_vars => [Contract!Next]_(Contract!contractVars)
    BY <1>2
  <1> QED BY <1>1, <1>3, SafetyInvariant, PTL DEF Spec, ContractSpec, Contract!Spec

=============================================================================
