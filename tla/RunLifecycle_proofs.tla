------------------------ MODULE RunLifecycle_proofs ------------------------
(***************************************************************************)
(* Type correctness of RunLifecycle.  TypeOK is not inductive: CompleteRun  *)
(* copies the status a handler carries into the row, and that status comes  *)
(* from an outcome a runner published earlier.  TypeInv adds what a handler *)
(* carries at each call (CallOK) and that every published terminal event    *)
(* has an outcome (EndedOK).                                                *)
(***************************************************************************)
EXTENDS RunLifecycle, TLAPS

\* The conjunct of TypeOK about the handlers.
HTypeOK == h \in [Handlers -> HandlerState]

\* A handler that goes on to another call keeps everything else it carries; no
\* other handler moves.
LEMMA GotoFacts ==
    ASSUME HTypeOK, NEW p \in Handlers, NEW l \in Labels, Goto(p, l)
    PROVE  /\ HTypeOK'
           /\ \A q \in Handlers : q # p => h'[q] = h[q]
           /\ h'[p].pc = l /\ h'[p].op = h[p].op /\ h'[p].gen = h[p].gen
           /\ h'[p].cgen = h[p].cgen /\ h'[p].cst = h[p].cst
           /\ h'[p].vals = h[p].vals
  BY DEF HTypeOK, Goto, HandlerState

\* The idle record is a handler record.
LEMMA IdleType == Idle \in HandlerState
  BY DEF Idle, HandlerState, Ops, Labels, None

\* A handler that returns becomes idle; no other handler moves.
LEMMA ReturnFacts ==
    ASSUME HTypeOK, NEW p \in Handlers, Return(p)
    PROVE  /\ HTypeOK'
           /\ \A q \in Handlers : q # p => h'[q] = h[q]
           /\ h'[p] = Idle
           /\ h'[p].op = "none" /\ h'[p].pc = "idle"
  BY IdleType DEF HTypeOK, Return, Idle

\* A handler that takes a completion along has exactly the fields it was given.
LEMMA CarryFacts ==
    ASSUME HTypeOK, NEW p \in Handlers, NEW o \in Ops, NEW l \in Labels,
           NEW cg \in {None} \cup Gens,
           NEW s \in TerminalRunStatus \cup {"none", "values", "end"},
           NEW v \in {None} \cup Gens, Carry(p, o, l, cg, s, v)
    PROVE  /\ HTypeOK'
           /\ \A q \in Handlers : q # p => h'[q] = h[q]
           /\ h'[p].pc = l /\ h'[p].op = o /\ h'[p].gen = h[p].gen
           /\ h'[p].cgen = cg /\ h'[p].cst = s /\ h'[p].vals = v
  BY DEF HTypeOK, Carry, HandlerState

\* A handler that is done with its completion keeps its operation and assignment.
LEMMA LeaveFacts ==
    ASSUME HTypeOK, NEW p \in Handlers, NEW l \in Labels, Leave(p, l)
    PROVE  /\ HTypeOK'
           /\ \A q \in Handlers : q # p => h'[q] = h[q]
           /\ h'[p].pc = l /\ h'[p].op = h[p].op /\ h'[p].gen = h[p].gen
  BY DEF HTypeOK, Leave, Carry, HandlerState, Idle, None

\* A request, RPC or tick starts in an idle slot with the fields it was given.
LEMMA StartFacts ==
    ASSUME HTypeOK, NEW p \in Handlers, NEW o \in Ops, NEW l \in Labels,
           NEW g \in {None} \cup Gens, NEW cg \in {None} \cup Gens,
           NEW s \in TerminalRunStatus \cup {"none", "values", "end"},
           Start(p, o, l, g, cg, s)
    PROVE  /\ HTypeOK'
           /\ h[p] = Idle
           /\ \A q \in Handlers : q # p => h'[q] = h[q]
           /\ h'[p].pc = l /\ h'[p].op = o /\ h'[p].gen = g
           /\ h'[p].cgen = cg /\ h'[p].cst = s
  BY DEF HTypeOK, Start, HandlerState

\* After an accepted completion a caller of completeRunResult acknowledges,
\* answers, cleans up the queue, or returns.
LEMMA OnAcceptFacts ==
    ASSUME HTypeOK, NEW p \in Handlers, OnAccept(p)
    PROVE  /\ HTypeOK'
           /\ \A q \in Handlers : q # p => h'[q] = h[q]
           /\ \/ h'[p] = Idle /\ h'[p].op = "none" /\ h'[p].pc = "idle"
              \/ /\ h'[p].op = h[p].op /\ h'[p].gen = h[p].gen
                 /\ h'[p].pc \in {"ack", "accepted", "unqueue"}
  <1> USE DEF Labels
  <1>1. CASE Leave(p, "ack")
    BY <1>1, LeaveFacts
  <1>2. CASE Leave(p, "accepted")
    BY <1>2, LeaveFacts
  <1>3. CASE Leave(p, "unqueue")
    BY <1>3, LeaveFacts
  <1>4. CASE Return(p)
    BY <1>4, ReturnFacts
  <1> QED BY <1>1, <1>2, <1>3, <1>4 DEF OnAccept

\* After a rejected completion a caller of completeRunResult begins the new
\* attempt, binds the lease, answers superseded, rechecks, or returns.
LEMMA OnRejectFacts ==
    ASSUME HTypeOK, NEW p \in Handlers, OnReject(p)
    PROVE  /\ HTypeOK'
           /\ \A q \in Handlers : q # p => h'[q] = h[q]
           /\ \/ h'[p] = Idle /\ h'[p].op = "none" /\ h'[p].pc = "idle"
              \/ /\ h'[p].op = h[p].op /\ h'[p].gen = h[p].gen
                 /\ h'[p].pc \in {"begin", "bind", "superseded", "recheck"}
                 /\ h'[p].pc \in {"begin", "bind"} => h'[p].op \in {"getjob", "poison"}
  <1> USE DEF Labels
  <1>1. CASE h[p].op = "getjob" /\ Leave(p, "begin")
    BY <1>1, LeaveFacts
  <1>2. CASE h[p].op = "poison" /\ Goto(p, "bind")
    BY <1>2, GotoFacts
  <1>3. CASE Leave(p, "superseded")
    BY <1>3, LeaveFacts
  <1>4. CASE Leave(p, "recheck")
    BY <1>4, LeaveFacts
  <1>5. CASE Return(p)
    BY <1>5, ReturnFacts
  <1> QED BY <1>1, <1>2, <1>3, <1>4, <1>5 DEF OnReject

\* What operation o may present as the completion of generation cg: a success is
\* always of a dispatched attempt, never of a cancellation.
Presents(o, cg, s) ==
    /\ s \in TerminalRunStatus
    /\ s = "success" => cg \in Gens /\ o \notin {"cancel", "timeout"}

\* What a handler carries when it is about to make a call.
CallOK(q) ==
    /\ h[q].pc \in {"renew", "check", "replay", "commit"} =>
          Presents(h[q].op, h[q].cgen, h[q].cst)
    /\ h[q].pc \in {"attempt", "lookup", "pill", "recover", "begin", "bind"} =>
          h[q].op \in {"getjob", "poison"}
    /\ h[q].pc = "recover" => h[q].cgen \in Gens
    /\ h[q].pc = "publish" =>
          /\ h[q].gen \in Gens
          /\ h[q].cst \in {"values", "end"}
          /\ h[q].cst = "end" => outcome[h[q].gen] \in Outcomes
    /\ h[q].op \in {"getjob", "stream", "report", "replay", "poison"} => h[q].gen \in Gens
    /\ h[q].pc = "nack" => h[q].op = "getjob"

\* The runner has sent its terminal event.
Ended == {"ending", "ended", "reporting", "accepted", "superseded"}

EndedOK(g) == <<g, "end">> \in log \/ attempt[g] \in Ended =>
                 outcome[g] \in Outcomes

\* The inductive strengthening of TypeOK.
TypeInv ==
    /\ TypeOK
    /\ \A q \in Handlers : CallOK(q)
    /\ \A g \in Gens : EndedOK(g)

\* The initial state satisfies the typing invariant.
LEMMA TypeInit == Init => TypeInv
  <1> SUFFICES ASSUME Init PROVE TypeInv
    OBVIOUS
  <1>1. 1 \in Gens
    BY RetriesAssumption DEF Gens
  <1>2. TypeOK
    <2>1. h \in [Handlers -> HandlerState]
      BY IdleType DEF Init
    <2>2. ready \in Seq(Gens)
      BY DEF Init
    <2>3. /\ finalized \in BOOLEAN /\ fresh \in BOOLEAN /\ canceled \in BOOLEAN
          /\ enqueued \in BOOLEAN /\ rolledBack \in BOOLEAN
          /\ discarded \in BOOLEAN /\ unowned \in BOOLEAN
      BY Zenon DEF Init
    <2>4. /\ status \in RunStatus /\ thread \in ThreadStatus
          /\ attemptGen \in {None} \cup Gens /\ output \in {None} \cup Gens
          /\ inflight \in {None} \cup Gens
          /\ completion \in {Incomplete, None} \cup Gens
      BY DEF Init, RunStatus, ThreadStatus
    <2>5. /\ merges \in Nat /\ faults \in 0 .. MaxFaults
      BY FaultsAssumption DEF Init
    <2>6. /\ attempt \in [Gens -> AttemptState]
      BY DEF Init, AttemptState
    <2>8.  outcome \in [Gens -> Outcomes \cup {"none"}]
      BY DEF Init
    <2>7. log \subseteq Gens \X {"values", "end"} /\ late \subseteq Gens
      BY DEF Init
    <2> QED
      BY <2>1, <2>2, <2>3, <2>4, <2>5, <2>6, <2>7, <2>8 DEF TypeOK
  <1>3. \A q \in Handlers : CallOK(q)
    BY DEF Init, CallOK, Idle
  <1>4. \A g \in Gens : EndedOK(g)
    BY DEF Init, EndedOK, Ended
  <1> QED BY <1>2, <1>3, <1>4 DEF TypeInv

\* The rest of TypeOK, by the kind of state.
RowType ==
    /\ status \in RunStatus /\ thread \in ThreadStatus
    /\ attemptGen \in {None} \cup Gens /\ output \in {None} \cup Gens
    /\ completion \in {Incomplete, None} \cup Gens
    /\ merges \in Nat /\ finalized \in BOOLEAN

QueueType ==
    /\ ready \in Seq(Gens) /\ inflight \in {None} \cup Gens
    /\ fresh \in BOOLEAN /\ canceled \in BOOLEAN

RunnerType ==
    /\ log \subseteq Gens \X {"values", "end"}
    /\ attempt \in [Gens -> AttemptState]
    /\ outcome \in [Gens -> Outcomes \cup {"none"}]
    /\ \A g \in Gens : EndedOK(g)

HistoryType ==
    /\ enqueued \in BOOLEAN /\ rolledBack \in BOOLEAN /\ discarded \in BOOLEAN
    /\ unowned \in BOOLEAN /\ late \subseteq Gens
    /\ faults \in 0 .. MaxFaults

CallType == HTypeOK /\ \A q \in Handlers : CallOK(q)

\* TypeInv is the conjunction of its five parts, in both states of a step.
LEMMA TypeParts ==
    /\ TypeInv <=> RowType /\ QueueType /\ RunnerType /\ HistoryType /\ CallType
    /\ TypeInv' <=> RowType' /\ QueueType' /\ RunnerType' /\ HistoryType' /\ CallType'
  BY DEF TypeInv, TypeOK, RowType, QueueType, RunnerType, HistoryType, CallType,
         HTypeOK

\* A step that writes no column keeps the row typed.
LEMMA RowUnchanged ==
    ASSUME RowType, UNCHANGED rowVars PROVE RowType'
  BY DEF RowType, rowVars

\* A step that leaves the queue alone keeps it typed.
LEMMA QueueUnchanged ==
    ASSUME QueueType, UNCHANGED queueVars PROVE QueueType'
  BY DEF QueueType, queueVars

\* A step that leaves log and runners alone keeps them typed.
LEMMA RunnerUnchanged ==
    ASSUME RunnerType, UNCHANGED runnerVars PROVE RunnerType'
  BY DEF RunnerType, runnerVars, EndedOK

\* A step that spends one fault.
SpendsFault == faults < MaxFaults /\ faults' = faults + 1

\* A step that at most spends a fault keeps the count within its bound.
LEMMA FaultsBounded ==
    ASSUME HistoryType, UNCHANGED faults \/ SpendsFault
    PROVE  faults' \in 0 .. MaxFaults
  BY FaultsAssumption DEF HistoryType, SpendsFault

\* A step that at most spends a fault keeps the history typed.
LEMMA HistoryUnchanged ==
    ASSUME HistoryType, UNCHANGED historyVars, UNCHANGED faults \/ SpendsFault
    PROVE  HistoryType'
  BY FaultsBounded DEF HistoryType, historyVars

\* One handler moved to a well-formed call: all calls are well formed.
LEMMA CallMoved ==
    ASSUME CallType, HTypeOK', NEW p \in Handlers,
           \A q \in Handlers : q # p => h'[q] = h[q],
           CallOK(p)', UNCHANGED outcome
    PROVE  CallType'
  BY DEF CallType, CallOK

\* Going on to another call leads to a well-formed call.
LEMMA GotoMoved ==
    ASSUME CallType, NEW p \in Handlers, NEW l \in Labels, Goto(p, l),
           l \notin {"publish", "renew", "commit", "attempt", "lookup", "recover"},
           l \in {"check", "replay"} => Presents(h[p].op, h[p].cgen, h[p].cst),
           l \in {"pill", "begin", "bind"} => h[p].op \in {"getjob", "poison"},
           l = "nack" => h[p].op = "getjob",
           UNCHANGED outcome
    PROVE  CallType'
  <1>1. HTypeOK
    BY DEF CallType
  <1>2. CallOK(p)'
    BY <1>1, GotoFacts DEF CallType, CallOK
  <1> QED BY <1>1, <1>2, GotoFacts, CallMoved

\* Returning leaves all calls well formed.
LEMMA ReturnMoved ==
    ASSUME CallType, NEW p \in Handlers, Return(p), UNCHANGED outcome
    PROVE  CallType'
  <1>1. HTypeOK
    BY DEF CallType
  <1>2. CallOK(p)'
    BY <1>1, ReturnFacts DEF CallOK
  <1> QED BY <1>1, <1>2, ReturnFacts, CallMoved

\* Dropping the completion leads to a well-formed call.
LEMMA LeaveMoved ==
    ASSUME CallType, NEW p \in Handlers, NEW l \in Labels, Leave(p, l),
           l \notin {"publish", "renew", "check", "replay", "commit", "nack",
                     "attempt", "lookup", "pill", "recover", "begin", "bind"},
           UNCHANGED outcome
    PROVE  CallType'
  <1>1. HTypeOK
    BY DEF CallType
  <1>2. CallOK(p)'
    BY <1>1, LeaveFacts DEF CallType, CallOK
  <1> QED BY <1>1, <1>2, LeaveFacts, CallMoved

\* A rejected completion leads to a well-formed call.
LEMMA RejectMoved ==
    ASSUME CallType, NEW p \in Handlers, OnReject(p), UNCHANGED outcome
    PROVE  CallType'
  <1>1. HTypeOK
    BY DEF CallType
  <1>2. CallOK(p)'
    BY <1>1, OnRejectFacts DEF CallType, CallOK
  <1> QED BY <1>1, <1>2, OnRejectFacts, CallMoved

\* An accepted completion leads to a well-formed call.
LEMMA AcceptMoved ==
    ASSUME CallType, NEW p \in Handlers, OnAccept(p), UNCHANGED outcome
    PROVE  CallType'
  <1>1. HTypeOK
    BY DEF CallType
  <1>2. CallOK(p)'
    BY <1>1, OnAcceptFacts DEF CallType, CallOK
  <1> QED BY <1>1, <1>2, OnAcceptFacts, CallMoved

\* Taking a completion along leads to a well-formed call.
LEMMA CarryMoved ==
    ASSUME CallType, NEW p \in Handlers, NEW o \in Ops, NEW l \in Labels,
           NEW cg \in {None} \cup Gens,
           NEW s \in TerminalRunStatus \cup {"none", "values", "end"},
           NEW v \in {None} \cup Gens, Carry(p, o, l, cg, s, v),
           o = h[p].op \/ o = "exhaust",
           l \notin {"publish", "nack", "attempt", "lookup", "pill", "begin"},
           l \in {"renew", "check", "replay", "commit"} => Presents(o, cg, s),
           l \in {"recover", "bind"} => o \in {"getjob", "poison"},
           l = "recover" => cg \in Gens,
           UNCHANGED outcome
    PROVE  CallType'
  <1>1. /\ HTypeOK' /\ \A q \in Handlers : q # p => h'[q] = h[q]
        /\ h'[p].pc = l /\ h'[p].op = o /\ h'[p].gen = h[p].gen
        /\ h'[p].cgen = cg /\ h'[p].cst = s
    BY DEF CallType, Carry, HTypeOK, HandlerState
  <1>2. CallOK(p)'
    BY <1>1 DEF CallType, CallOK
  <1> QED BY <1>1, <1>2, CallMoved

\* Starting a handler leads to a well-formed call.
LEMMA StartMoved ==
    ASSUME CallType, NEW p \in Handlers, NEW o \in Ops, NEW l \in Labels,
           NEW g \in {None} \cup Gens, NEW cg \in {None} \cup Gens,
           NEW s \in TerminalRunStatus \cup {"none", "values", "end"},
           Start(p, o, l, g, cg, s),
           o \in {"getjob", "stream", "report", "replay", "poison"} => g \in Gens,
           l \notin {"publish", "nack", "pill", "recover", "begin", "bind"},
           l \in {"renew", "check", "replay", "commit"} => Presents(o, cg, s),
           l \in {"attempt", "lookup"} => o \in {"getjob", "poison"},
           UNCHANGED outcome
    PROVE  CallType'
  <1>1. /\ HTypeOK' /\ \A q \in Handlers : q # p => h'[q] = h[q]
        /\ h'[p].pc = l /\ h'[p].op = o /\ h'[p].gen = g
        /\ h'[p].cgen = cg /\ h'[p].cst = s
    BY DEF CallType, Start, HTypeOK, HandlerState
  <1>2. CallOK(p)'
    BY <1>1 DEF CallType, CallOK
  <1> QED BY <1>1, <1>2, CallMoved

\* Runners report terminal statuses only.
LEMMA OutcomesTerminal == Outcomes \subseteq TerminalRunStatus
  BY EnvironmentAssumption DEF TerminalRunStatus

\* Every call of a handler preserves the typing invariant.
LEMMA TypeStep ==
    ASSUME TypeInv, NEW p \in Handlers, Step(p) PROVE TypeInv'
  <1> SUFFICES ASSUME RowType, QueueType, RunnerType, HistoryType, CallType
               PROVE  TypeInv'
    BY TypeParts
  <1>g. 1 \in Gens
    BY RetriesAssumption DEF Gens
  <1>1. CASE CreateRun(p)
    <2>1. QueueType' /\ RunnerType' /\ HistoryType'
      BY <1>1, QueueUnchanged, RunnerUnchanged, HistoryUnchanged DEF CreateRun
    <2>2. RowType'
      BY <1>1 DEF CreateRun, RowType, RunStatus
    <2>3. CallType'
      BY <1>1, GotoMoved DEF CreateRun, Labels, runnerVars
    <2> QED BY <2>1, <2>2, <2>3, TypeParts
  <1>2. CASE Enqueue(p)
    <2>1. RowType' /\ RunnerType'
      BY <1>2, RowUnchanged, RunnerUnchanged DEF Enqueue
    <2>2. QueueType'
      BY <1>2, <1>g DEF Enqueue, QueueType
    <2>3. HistoryType'
      BY <1>2 DEF Enqueue, HistoryType
    <2>4. CallType'
      BY <1>2, ReturnMoved DEF Enqueue, runnerVars
    <2> QED BY <2>1, <2>2, <2>3, <2>4, TypeParts
  <1>3. CASE RollbackRun(p)
    <2>1. QueueType' /\ RunnerType'
      BY <1>3, QueueUnchanged, RunnerUnchanged DEF RollbackRun
    <2>2. RowType'
      BY <1>3 DEF RollbackRun, RowType, RunStatus, TerminalRunStatus
    <2>3. HistoryType'
      BY <1>3 DEF RollbackRun, HistoryType
    <2>4. CallType'
      BY <1>3, GotoMoved DEF RollbackRun, Labels, runnerVars
    <2> QED BY <2>1, <2>2, <2>3, <2>4, TypeParts
  <1>4. CASE ReleaseThread(p)
    <2>1. QueueType' /\ RunnerType'
      BY <1>4, QueueUnchanged, RunnerUnchanged DEF ReleaseThread
    <2>2. RowType'
      BY <1>4 DEF ReleaseThread, RowType, ThreadStatus
    <2>3. CallType'
      BY <1>4, ReturnMoved DEF ReleaseThread, runnerVars
    <2>4. HistoryType'
      BY <1>4, ZenonT(30) DEF ReleaseThread, HistoryType
    <2> QED BY <2>1, <2>2, <2>3, <2>4, TypeParts
  <1>5. CASE RollbackContextDone(p)
    <2>1. RowType' /\ QueueType' /\ RunnerType' /\ HistoryType'
      BY <1>5, RowUnchanged, QueueUnchanged, RunnerUnchanged, HistoryUnchanged
      DEF RollbackContextDone
    <2>2. CallType'
      BY <1>5, ReturnMoved DEF RollbackContextDone, runnerVars
    <2> QED BY <2>1, <2>2, TypeParts
  <1>24. CASE RollbackRunFails(p)
    <2>1. RowType' /\ QueueType' /\ RunnerType' /\ HistoryType'
      BY <1>24, RowUnchanged, QueueUnchanged, RunnerUnchanged, HistoryUnchanged
      DEF RollbackRunFails
    <2>2. CallType'
      BY <1>24, GotoMoved DEF RollbackRunFails, Labels, runnerVars
    <2> QED BY <2>1, <2>2, TypeParts
  <1>6. CASE AttemptCallback(p)
    <2>1. RowType' /\ QueueType' /\ RunnerType' /\ HistoryType'
      BY <1>6, RowUnchanged, QueueUnchanged, RunnerUnchanged, HistoryUnchanged
      DEF AttemptCallback
    <2>2. CallType'
      <3>1. CASE Goto(p, TerminalCall)
        <4>1. TerminalCall \in {"final", "ack"}
          BY DEF TerminalCall
        <4> QED BY <1>6, <3>1, <4>1, GotoMoved
             DEF AttemptCallback, Labels, runnerVars
      <3>2. CASE Goto(p, "begin")
        <4>1. UNCHANGED outcome /\ h[p].op \in {"getjob", "poison"}
          BY <1>6, ZenonT(60) DEF AttemptCallback, At, CallType, CallOK, runnerVars
        <4> QED BY <3>2, <4>1, GotoMoved, ZenonT(60) DEF Labels
      <3>3. CASE /\ attemptGen # None
                 /\ Carry(p, h[p].op, "recover", attemptGen, "none", None)
        <4>1. UNCHANGED outcome /\ h[p].op \in Ops /\ attemptGen \in {None} \cup Gens
          BY <1>6
          DEF AttemptCallback, CallType, HTypeOK, HandlerState, runnerVars, RowType
        <4>2. h[p].op \in {"getjob", "poison"}
          BY <1>6, ZenonT(60) DEF AttemptCallback, At, CallType, CallOK
        <4> QED BY <3>3, <4>1, <4>2, CarryMoved, ZenonT(60) DEF Labels
      <3> QED BY <1>6, <3>1, <3>2, <3>3 DEF AttemptCallback
    <2> QED BY <2>1, <2>2, TypeParts
  <1>7. CASE RecoverDeliveredCompletion(p)
    <2>1. RowType' /\ QueueType' /\ RunnerType' /\ HistoryType'
      BY <1>7, RowUnchanged, QueueUnchanged, RunnerUnchanged, HistoryUnchanged
      DEF RecoverDeliveredCompletion
    <2>2. CallType'
      <3>1. CASE OnReject(p)
        BY <1>7, <3>1, RejectMoved
        DEF RecoverDeliveredCompletion, runnerVars
      <3>2. CASE /\ <<h[p].cgen, "end">> \in log
                 /\ Carry(p, h[p].op, "check", h[p].cgen, outcome[h[p].cgen], None)
        <4>1. h[p].cgen \in Gens
          BY <3>2 DEF RunnerType
        <4>2. outcome[h[p].cgen] \in TerminalRunStatus
          BY <3>2, <4>1, OutcomesTerminal DEF RunnerType, EndedOK
        <4>3. UNCHANGED outcome /\ h[p].op \in Ops
          BY <1>7
          DEF RecoverDeliveredCompletion, CallType, HTypeOK, HandlerState,
              runnerVars
        <4>4. h[p].op \in {"getjob", "poison"}
          BY <1>7, ZenonT(60) DEF RecoverDeliveredCompletion, At, CallType, CallOK
        <4>5. Presents(h[p].op, h[p].cgen, outcome[h[p].cgen])
          BY <4>1, <4>2, <4>4 DEF Presents
        <4> QED BY <3>2, <4>1, <4>2, <4>3, <4>5, CarryMoved, ZenonT(60) DEF Labels
      <3> QED BY <1>7, <3>1, <3>2 DEF RecoverDeliveredCompletion
    <2> QED BY <2>1, <2>2, TypeParts
  <1>8. CASE BeginRunAttempt(p)
    <2>1. QueueType' /\ RunnerType'
      BY <1>8, QueueUnchanged, RunnerUnchanged DEF BeginRunAttempt
    <2>2. RowType'
      BY <1>8
      DEF BeginRunAttempt, RowType, RunStatus, CallType, HTypeOK, HandlerState
    <2>3. HistoryType'
      BY <1>8, Zenon DEF BeginRunAttempt, HistoryType
    <2>4. CallType'
      BY <1>8, GotoMoved DEF BeginRunAttempt, Labels, runnerVars
    <2> QED BY <2>1, <2>2, <2>3, <2>4, TypeParts
  <1>9. CASE Deliver(p)
    <2>1. RowType' /\ QueueType' /\ HistoryType'
      BY <1>9, RowUnchanged, QueueUnchanged, HistoryUnchanged DEF Deliver
    <2>2. RunnerType'
      BY <1>9, Zenon DEF Deliver, RunnerType, EndedOK, Ended, AttemptState
    <2>3. CallType'
      BY <1>9, ReturnMoved DEF Deliver, runnerVars
    <2> QED BY <2>1, <2>2, <2>3, TypeParts
  <1>10. CASE Nack(p)
    <2>1. RowType' /\ RunnerType' /\ HistoryType'
      BY <1>10, RowUnchanged, RunnerUnchanged, HistoryUnchanged DEF Nack
    <2>2. QueueType'
      <3>1. h[p].gen \in Gens
        BY <1>10 DEF Nack, CallType, CallOK, At
      <3>2. Append(ready, h[p].gen) \in Seq(Gens)
        BY <3>1 DEF QueueType
      <3> QED BY <1>10, <3>2, ZenonT(30) DEF Nack, QueueType, Requeue
    <2>3. CallType'
      BY <1>10, ReturnMoved, ZenonT(60) DEF Nack, runnerVars
    <2> QED BY <2>1, <2>2, <2>3, TypeParts
  <1>11. CASE CheckCompletion(p)
    <2>1. RowType' /\ QueueType' /\ RunnerType' /\ HistoryType'
      BY <1>11, RowUnchanged, QueueUnchanged, RunnerUnchanged, HistoryUnchanged, ZenonT(60)
      DEF CheckCompletion
    <2>2. CallType'
      <3>1. CASE OnReject(p)
        BY <1>11, <3>1, RejectMoved, ZenonT(60)
        DEF CheckCompletion, CallType, CallOK, At, runnerVars
      <3>2. CASE Leave(p, "final")
        BY <1>11, <3>2, LeaveMoved, ZenonT(30)
        DEF CheckCompletion, CallType, CallOK, At, Labels, runnerVars
      <3>3. CASE Goto(p, "replay")
        BY <1>11, <3>3, GotoMoved, ZenonT(30)
        DEF CheckCompletion, CallType, CallOK, At, Labels, runnerVars
      <3>4. CASE /\ CancelCurrentAttempt(p)
                 /\ Carry(p, h[p].op, "replay", attemptGen, h[p].cst, None)
        <4>1. UNCHANGED outcome /\ h[p].op \in Ops /\ attemptGen \in {None} \cup Gens
          BY <1>11
          DEF CheckCompletion, CallType, HTypeOK, HandlerState, runnerVars, RowType
        <4>2. Presents(h[p].op, h[p].cgen, h[p].cst)
          BY <1>11, ZenonT(60) DEF CheckCompletion, At, CallType, CallOK
        <4>3. h[p].cst \in TerminalRunStatus /\ Presents(h[p].op, attemptGen, h[p].cst)
          BY <3>4, <4>2 DEF Presents, CancelCurrentAttempt
        <4> QED BY <3>4, <4>1, <4>3, CarryMoved, ZenonT(60) DEF Labels
      <3> QED BY <1>11, <3>1, <3>2, <3>3, <3>4, ZenonT(60) DEF CheckCompletion
    <2> QED BY <2>1, <2>2, TypeParts
  <1>12. CASE ReplayOutput(p)
    <2>1. RowType' /\ QueueType' /\ RunnerType' /\ HistoryType'
      BY <1>12, RowUnchanged, QueueUnchanged, RunnerUnchanged, HistoryUnchanged, ZenonT(60)
      DEF ReplayOutput
    <2>2. CallType'
      <3>1. PICK found \in {None} \cup Gens :
              Carry(p, h[p].op, "commit", h[p].cgen, h[p].cst, found)
        BY <1>12 DEF ReplayOutput, Replayed, RunnerType
      <3>2. /\ UNCHANGED outcome /\ h[p].op \in Ops
            /\ h[p].cgen \in {None} \cup Gens
        BY <1>12 DEF ReplayOutput, CallType, HTypeOK, HandlerState, runnerVars
      <3>3. Presents(h[p].op, h[p].cgen, h[p].cst)
        BY <1>12, ZenonT(60) DEF ReplayOutput, At, CallType, CallOK
      <3>4. h[p].cst \in TerminalRunStatus
        BY <3>3 DEF Presents
      <3> QED BY <3>1, <3>2, <3>3, <3>4, CarryMoved, ZenonT(60) DEF Labels
    <2> QED BY <2>1, <2>2, TypeParts
  <1>13. CASE CompleteRun(p)
    <2>1. QueueType' /\ RunnerType' /\ HistoryType'
      BY <1>13, QueueUnchanged, RunnerUnchanged, HistoryUnchanged DEF CompleteRun
    <2>2. RowType'
      <3>1. /\ h[p].cst \in TerminalRunStatus
            /\ h[p].cgen \in {None} \cup Gens
            /\ ResolvedGen(p) \in {None} \cup Gens
            /\ ResolvedVals(p) \in {None} \cup Gens
        <4>1. h[p].cst \in TerminalRunStatus
          BY <1>13, ZenonT(60) DEF CompleteRun, At, CallType, CallOK, Presents
        <4>2. /\ h[p].cgen \in {None} \cup Gens /\ h[p].vals \in {None} \cup Gens
              /\ attemptGen \in {None} \cup Gens
          BY DEF CallType, HTypeOK, HandlerState, RowType
        <4> QED BY <4>1, <4>2 DEF ResolvedGen, ResolvedVals
      <3>2. ReleasedThread(h[p].cst) \in ThreadStatus
        BY DEF ReleasedThread, ThreadStatus, RowType
      <3>3. CASE /\ completion' = ResolvedGen(p) /\ status' = h[p].cst
                 /\ output' = ResolvedVals(p) /\ merges' \in {merges, merges + 1}
                 /\ thread' = ReleasedThread(h[p].cst) /\ finalized' = FALSE
                 /\ attemptGen' = attemptGen
        <4>1. finalized' \in BOOLEAN
          BY <3>3, Zenon
        <4>2. completion' \in {Incomplete, None} \cup Gens
          BY <3>1, <3>3, ZenonT(60)
        <4>3. status' \in RunStatus
          BY <3>1, <3>3 DEF RunStatus
        <4>4. merges' \in Nat
          BY <3>3 DEF RowType
        <4> QED BY <3>1, <3>2, <3>3, <4>1, <4>2, <4>3, <4>4 DEF RowType
      <3>4. CASE UNCHANGED rowVars
        BY <3>4, RowUnchanged
      <3> QED BY <1>13, <3>3, <3>4, Zenon DEF CompleteRun, rowVars
    <2>3. CallType'
      <3>1. CASE OnReject(p)
        BY <1>13, <3>1, RejectMoved
        DEF CompleteRun, runnerVars
      <3>2. CASE Leave(p, "final")
        BY <1>13, <3>2, LeaveMoved
        DEF CompleteRun, Labels, runnerVars
      <3> QED BY <1>13, <3>1, <3>2 DEF CompleteRun
    <2> QED BY <2>1, <2>2, <2>3, TypeParts
  <1>14. CASE FinalizeCommittedRun(p)
    <2>1. QueueType' /\ RunnerType' /\ HistoryType'
      BY <1>14, QueueUnchanged, RunnerUnchanged, HistoryUnchanged
      DEF FinalizeCommittedRun
    <2>2. RowType'
      BY <1>14 DEF FinalizeCommittedRun, RowType
    <2>3. CallType'
      BY <1>14, AcceptMoved, ZenonT(60) DEF FinalizeCommittedRun, runnerVars
    <2> QED BY <2>1, <2>2, <2>3, TypeParts
  <1>15. CASE Ack(p)
    <2>1. RowType' /\ RunnerType' /\ HistoryType'
      BY <1>15, RowUnchanged, RunnerUnchanged, HistoryUnchanged DEF Ack
    <2>2. QueueType'
      BY <1>15, Zenon DEF Ack, QueueType
    <2>3. CallType'
      BY <1>15, ReturnMoved, GotoMoved DEF Ack, Labels, runnerVars
    <2> QED BY <2>1, <2>2, <2>3, TypeParts
  <1>16. CASE Publish(p)
    <2>1. RowType' /\ QueueType'
      BY <1>16, RowUnchanged, QueueUnchanged, ZenonT(60) DEF Publish
    <2>4. HistoryType'
      <3>1. h[p].gen \in Gens
        BY <1>16 DEF Publish, CallType, CallOK, At
      <3>2. late' \subseteq Gens
        BY <1>16, <3>1, ZenonT(60) DEF Publish, HistoryType
      <3> QED BY <1>16, <3>2, ZenonT(60) DEF Publish, HistoryType
    <2>2. RunnerType'
      BY <1>16
      DEF Publish, RunnerType, EndedOK, Ended, AttemptState, CallType, CallOK, At
    <2>3. CallType'
      BY <1>16, ReturnMoved DEF Publish, runnerVars
    <2> QED BY <2>1, <2>2, <2>3, <2>4, TypeParts
  <1>17. CASE FenceReport(p)
    <2>1. RowType' /\ RunnerType' /\ HistoryType'
      BY <1>17, RowUnchanged, RunnerUnchanged, HistoryUnchanged DEF FenceReport
    <2>2. QueueType'
      BY <1>17, Zenon DEF FenceReport, QueueType, Renewed
    <2>3. CallType'
      BY <1>17, GotoMoved, RejectMoved, ZenonT(30)
      DEF FenceReport, CallType, CallOK, At, Labels, runnerVars
    <2> QED BY <2>1, <2>2, <2>3, TypeParts
  <1>18. CASE Respond(p)
    <2>1. RowType' /\ QueueType' /\ HistoryType'
      BY <1>18, RowUnchanged, QueueUnchanged, HistoryUnchanged DEF Respond
    <2>2. RunnerType'
      BY <1>18, ZenonT(30) DEF Respond, RunnerType, EndedOK, Ended, AttemptState
    <2>3. CallType'
      BY <1>18, ReturnMoved DEF Respond, runnerVars
    <2> QED BY <2>1, <2>2, <2>3, TypeParts
  <1>19. CASE LookupInflight(p)
    <2>1. RowType' /\ QueueType' /\ RunnerType' /\ HistoryType'
      BY <1>19, RowUnchanged, QueueUnchanged, RunnerUnchanged, HistoryUnchanged, ZenonT(60)
      DEF LookupInflight
    <2>2. CallType'
      <3>1. UNCHANGED outcome /\ (Return(p) \/ Goto(p, "pill"))
        BY <1>19, ZenonT(60) DEF LookupInflight, runnerVars
      <3>2. h[p].op \in {"getjob", "poison"}
        BY <1>19, ZenonT(60) DEF LookupInflight, At, CallType, CallOK
      <3> QED BY <3>1, <3>2, ReturnMoved, GotoMoved, ZenonT(60) DEF Labels
    <2> QED BY <2>1, <2>2, TypeParts
  <1>20. CASE CompleteReclaimedRun(p)
    <2>1. RowType' /\ QueueType' /\ RunnerType' /\ HistoryType'
      BY <1>20, RowUnchanged, QueueUnchanged, RunnerUnchanged, HistoryUnchanged, ZenonT(60)
      DEF CompleteReclaimedRun
    <2>2. CallType'
      <3>1. CASE Goto(p, TerminalCall)
        <4>1. TerminalCall \in {"final", "ack"}
          BY DEF TerminalCall
        <4> QED BY <1>20, <3>1, <4>1, GotoMoved, ZenonT(60)
            DEF CompleteReclaimedRun, Labels, runnerVars
      <3>2. CASE Return(p)
        BY <1>20, <3>2, ReturnMoved
        DEF CompleteReclaimedRun, runnerVars
      <3>3. CASE Carry(p, h[p].op, IF attemptGen # None THEN "recover" ELSE "bind",
                       attemptGen, "none", None)
        <4>1. UNCHANGED outcome /\ h[p].op \in Ops /\ attemptGen \in {None} \cup Gens
          BY <1>20
          DEF CompleteReclaimedRun, CallType, HTypeOK, HandlerState, runnerVars,
              RowType
        <4>2. h[p].op \in {"getjob", "poison"}
          BY <1>20, ZenonT(60) DEF CompleteReclaimedRun, At, CallType, CallOK
        <4>3. CASE attemptGen # None
          <5>1. Carry(p, h[p].op, "recover", attemptGen, "none", None)
            BY <3>3, <4>3
          <5> QED BY <4>1, <4>2, <4>3, <5>1, CarryMoved, ZenonT(60) DEF Labels
        <4>4. CASE attemptGen = None
          <5>1. Carry(p, h[p].op, "bind", attemptGen, "none", None)
            BY <3>3, <4>4
          <5> QED BY <4>1, <4>2, <5>1, CarryMoved, ZenonT(60) DEF Labels
        <4> QED BY <4>3, <4>4
      <3> QED BY <1>20, <3>1, <3>2, <3>3, ZenonT(60) DEF CompleteReclaimedRun
    <2> QED BY <2>1, <2>2, TypeParts
  <1>21. CASE BindRetainedLease(p)
    <2>1. QueueType' /\ RunnerType' /\ HistoryType'
      BY <1>21, QueueUnchanged, RunnerUnchanged, HistoryUnchanged
      DEF BindRetainedLease
    <2>2. RowType'
      BY <1>21
      DEF BindRetainedLease, RowType, RunStatus, HandlerState, HTypeOK, CallType
    <2>3. CallType'
      <3>1. CASE Return(p)
        BY <1>21, <3>1, ReturnMoved, ZenonT(30)
        DEF BindRetainedLease, runnerVars
      <3>2. CASE Carry(p, "exhaust", "check", h[p].gen, "error", None)
        <4>1. UNCHANGED outcome /\ h[p].op \in Ops /\ h[p].gen \in {None} \cup Gens
          BY <1>21
          DEF BindRetainedLease, CallType, HTypeOK, HandlerState, runnerVars
        <4>2. Presents("exhaust", h[p].gen, "error")
          BY DEF Presents, TerminalRunStatus
        <4> QED BY <3>2, <4>1, <4>2, CarryMoved, ZenonT(60) DEF Labels, Ops, TerminalRunStatus
      <3> QED BY <1>21, <3>1, <3>2, ZenonT(30) DEF BindRetainedLease
    <2> QED BY <2>1, <2>2, <2>3, TypeParts
  <1>22. CASE RecheckCanceled(p)
    <2>1. RowType' /\ QueueType' /\ RunnerType' /\ HistoryType'
      BY <1>22, RowUnchanged, QueueUnchanged, RunnerUnchanged, HistoryUnchanged
      DEF RecheckCanceled
    <2>2. CallType'
      BY <1>22, ReturnMoved, GotoMoved, Zenon DEF RecheckCanceled, Labels, runnerVars
    <2> QED BY <2>1, <2>2, TypeParts
  <1>23. CASE QueueCancel(p)
    <2>1. RowType' /\ RunnerType' /\ HistoryType'
      BY <1>23, RowUnchanged, RunnerUnchanged, HistoryUnchanged DEF QueueCancel
    <2>2. QueueType'
      BY <1>23, Zenon DEF QueueCancel, QueueType
    <2>3. CallType'
      BY <1>23, ReturnMoved DEF QueueCancel, runnerVars
    <2> QED BY <2>1, <2>2, <2>3, TypeParts
  <1> QED BY <1>1, <1>2, <1>3, <1>4, <1>5, <1>6, <1>7, <1>8, <1>9, <1>10, <1>11,
      <1>12, <1>13, <1>14, <1>15, <1>16, <1>17, <1>18, <1>19, <1>20, <1>21, <1>22,
          <1>23, <1>24, ZenonT(60) DEF Step

\* Every injected failure preserves the typing invariant.
LEMMA TypeFailure ==
    ASSUME TypeInv, NEW p \in Handlers, Failure(p) PROVE TypeInv'
  <1> SUFFICES ASSUME RowType, QueueType, RunnerType, HistoryType, CallType
               PROVE  TypeInv'
    BY TypeParts
  <1>g. 1 \in Gens
    BY RetriesAssumption DEF Gens
  <1>1. ASSUME NEW inserted \in BOOLEAN, CreateRunFails(p, inserted) PROVE TypeInv'
    <2>1. QueueType' /\ RunnerType'
      BY <1>1, QueueUnchanged, RunnerUnchanged DEF CreateRunFails
    <2>2. RowType'
      BY <1>1 DEF CreateRunFails, RowType, ThreadStatus, RunStatus
    <2>3. CallType'
      BY <1>1, ReturnMoved DEF CreateRunFails, runnerVars
    <2>4. HistoryType'
      <3>1. SpendsFault
        BY <1>1 DEF CreateRunFails, Fault, SpendsFault
      <3>2. faults' \in 0 .. MaxFaults
        BY <3>1, FaultsBounded
      <3> QED BY <1>1, <3>2, ZenonT(30) DEF CreateRunFails, HistoryType
    <2> QED BY <2>1, <2>2, <2>3, <2>4, TypeParts
  <1>2. CASE GetJobFails(p)
    <2>1. RowType' /\ QueueType' /\ RunnerType' /\ HistoryType'
      BY <1>2, RowUnchanged, QueueUnchanged, RunnerUnchanged, HistoryUnchanged, ZenonT(60)
      DEF GetJobFails, Fault, SpendsFault
    <2>2. CallType'
      BY <1>2, GotoMoved DEF GetJobFails, Labels, runnerVars
    <2> QED BY <2>1, <2>2, TypeParts
  <1>3. CASE ReportTimesOut(p)
    <2>1. RowType' /\ QueueType' /\ HistoryType'
      BY <1>3, RowUnchanged, QueueUnchanged, HistoryUnchanged
      DEF ReportTimesOut, Fault, SpendsFault
    <2>2. RunnerType'
      BY <1>3, Zenon DEF ReportTimesOut, RunnerType, EndedOK, Ended, AttemptState
    <2>3. CallType'
      <3>1. /\ HTypeOK' /\ \A q \in Handlers : q # p => h'[q] = h[q]
            /\ h'[p].pc = h[p].pc /\ h'[p].op = "orphan" /\ h'[p].gen = h[p].gen
            /\ h'[p].cgen = h[p].cgen /\ h'[p].cst = h[p].cst
        BY <1>3 DEF ReportTimesOut, CallType, HTypeOK, HandlerState, Ops
      <3>2. CallOK(p) /\ h[p].op = "report" /\ UNCHANGED outcome
        BY <1>3, ZenonT(60) DEF ReportTimesOut, CallType
      <3>3. CallOK(p)'
        BY <3>1, <3>2 DEF CallOK, Presents
      <3> QED BY <3>1, <3>2, <3>3, CallMoved
    <2> QED BY <2>1, <2>2, <2>3, TypeParts
  <1>4. CASE Crash(p)
    <2>1. RowType' /\ QueueType' /\ HistoryType'
      BY <1>4, RowUnchanged, QueueUnchanged, HistoryUnchanged
      DEF Crash, Fault, SpendsFault
    <2>2. RunnerType'
      BY <1>4 DEF Crash, RunnerType, EndedOK, Ended, AttemptState, CallType, CallOK
    <2>3. CallType'
      BY <1>4, ReturnMoved DEF Crash, runnerVars
    <2> QED BY <2>1, <2>2, <2>3, TypeParts
  <1>5. ASSUME NEW arrived \in BOOLEAN, EnqueueFails(p, arrived) PROVE TypeInv'
    <2>1. RowType' /\ RunnerType'
      BY <1>5, RowUnchanged, RunnerUnchanged DEF EnqueueFails
    <2>2. QueueType'
      BY <1>5, <1>g DEF EnqueueFails, QueueType
    <2>3. HistoryType'
      <3>1. SpendsFault
        BY <1>5 DEF EnqueueFails, Fault, SpendsFault
      <3>2. faults' \in 0 .. MaxFaults
        BY <3>1, FaultsBounded
      <3> QED BY <1>5, <3>2, ZenonT(30) DEF EnqueueFails, HistoryType
    <2>4. CallType'
      BY <1>5, GotoMoved DEF EnqueueFails, Labels, runnerVars
    <2> QED BY <2>1, <2>2, <2>3, <2>4, TypeParts
  <1> QED BY <1>5, <1>1, <1>2, <1>3, <1>4, ZenonT(60) DEF Failure

\* HTTP requests and reaper ticks preserve the typing invariant.
LEMMA TypeRequest ==
    ASSUME TypeInv, NEW p \in Handlers,
           Request(p) \/ ReclaimStale(p) \/ TimeoutOverdueRun(p)
    PROVE  TypeInv'
  <1> SUFFICES ASSUME RowType, QueueType, RunnerType, HistoryType, CallType
               PROVE  TypeInv'
    BY TypeParts
  <1>1. CASE TryClaimThread(p)
    <2>1. QueueType' /\ RunnerType' /\ HistoryType'
      BY <1>1, QueueUnchanged, RunnerUnchanged, HistoryUnchanged DEF TryClaimThread
    <2>2. RowType'
      BY <1>1, ZenonT(60) DEF TryClaimThread, RowType, ThreadStatus
    <2>3. CallType'
      BY <1>1, StartMoved DEF TryClaimThread, Labels, Ops, TerminalRunStatus, runnerVars
    <2> QED BY <2>1, <2>2, <2>3, TypeParts
  <1>2. CASE CancelRun(p)
    <2>1. RowType' /\ QueueType' /\ RunnerType' /\ HistoryType'
      BY <1>2, RowUnchanged, QueueUnchanged, RunnerUnchanged, HistoryUnchanged, ZenonT(60)
      DEF CancelRun
    <2>2. CallType'
      <3>1. Presents("cancel", None, "interrupted")
        BY DEF Presents, TerminalRunStatus
      <3> QED BY <1>2, <3>1, StartMoved, ZenonT(60)
              DEF CancelRun, Labels, Ops, TerminalRunStatus, runnerVars
    <2> QED BY <2>1, <2>2, TypeParts
  <1>3. CASE TimeoutOverdueRun(p)
    <2>1. RowType' /\ QueueType' /\ RunnerType' /\ HistoryType'
      BY <1>3, RowUnchanged, QueueUnchanged, RunnerUnchanged, HistoryUnchanged
      DEF TimeoutOverdueRun
    <2>2. CallType'
      <3>1. Presents("timeout", None, "timeout")
        BY DEF Presents, TerminalRunStatus
      <3> QED BY <1>3, <3>1, StartMoved, ZenonT(60)
              DEF TimeoutOverdueRun, Labels, Ops, TerminalRunStatus, runnerVars
    <2> QED BY <2>1, <2>2, TypeParts
  <1>4. ASSUME NEW g \in Gens, CompleteObservedRun(p, g) PROVE TypeInv'
    <2>1. RowType' /\ QueueType' /\ RunnerType' /\ HistoryType'
      BY <1>4, RowUnchanged, QueueUnchanged, RunnerUnchanged, HistoryUnchanged
      DEF CompleteObservedRun
    <2>2. outcome[g] \in TerminalRunStatus
      BY <1>4, OutcomesTerminal DEF CompleteObservedRun, RunnerType, EndedOK
    <2>3. CallType'
      <3>1. Presents("observe", g, outcome[g])
        BY <2>2 DEF Presents
      <3> QED BY <1>4, <2>2, <3>1, StartMoved, ZenonT(60)
              DEF CompleteObservedRun, Labels, Ops, runnerVars
    <2> QED BY <2>1, <2>3, TypeParts
  <1>5. CASE ReclaimStale(p)
    <2>1. RowType' /\ RunnerType' /\ HistoryType'
      BY <1>5, RowUnchanged, RunnerUnchanged, HistoryUnchanged DEF ReclaimStale
    <2>2. CASE /\ Start(p, "poison", "lookup", RetainedGen(inflight + 1), None, "none")
               /\ UNCHANGED <<ready, inflight, fresh>>
      <3>1. PICK g \in Gens : Start(p, "poison", "lookup", g, None, "none")
        <4>1. RetainedGen(inflight + 1) \in Gens
          BY <1>5 DEF ReclaimStale, RetainedGen, QueueType, Gens, None
        <4> QED BY <2>2, <4>1
      <3>2. UNCHANGED queueVars /\ UNCHANGED outcome
        BY <1>5, <2>2 DEF ReclaimStale, queueVars, runnerVars
      <3>3. CallType'
        <4>1. /\ CallType /\ "poison" \in Ops /\ "lookup" \in Labels
              /\ None \in {None} \cup Gens
          BY DEF Labels, Ops
        <4> QED BY <3>1, <3>2, <4>1, StartMoved, ZenonT(60)
      <3> QED BY <2>1, <3>2, <3>3, QueueUnchanged, TypeParts
    <2>3. CASE /\ ~Exhausted(inflight + 1) /\ Requeue(inflight + 1)
               /\ UNCHANGED h
      <3>1. inflight + 1 \in Gens
        BY <1>5, <2>3, RetriesAssumption
        DEF ReclaimStale, Exhausted, QueueType, Gens, None
      <3>2. QueueType'
        <4>1. Append(ready, inflight + 1) \in Seq(Gens)
          BY <3>1 DEF QueueType
        <4> QED BY <1>5, <2>3, <4>1, Zenon DEF ReclaimStale, Requeue, QueueType
      <3>3. CallType'
        BY <1>5, <2>3, Zenon DEF ReclaimStale, CallType, CallOK, HTypeOK, runnerVars
      <3> QED BY <2>1, <3>2, <3>3, TypeParts
    <2> QED BY <1>5, <2>2, <2>3 DEF ReclaimStale
  <1> QED BY <1>4, <1>5, <1>1, <1>2, <1>3 DEF Request

\* Runner RPCs preserve the typing invariant.
LEMMA TypeRunnerCall ==
    ASSUME TypeInv, NEW p \in Handlers, RunnerCall(p) PROVE TypeInv'
  <1> SUFFICES ASSUME RowType, QueueType, RunnerType, HistoryType, CallType
               PROVE  TypeInv'
    BY TypeParts
  <1>1. CASE Dequeue(p)
    <2>1. RowType' /\ RunnerType' /\ HistoryType'
      BY <1>1, RowUnchanged, RunnerUnchanged, HistoryUnchanged DEF Dequeue
    <2>2. Head(ready) \in Gens /\ Tail(ready) \in Seq(Gens)
      BY <1>1 DEF Dequeue, QueueType
    <2>3. QueueType'
      BY <1>1, <2>2 DEF Dequeue, QueueType
    <2>4. CallType'
      BY <1>1, <2>2, StartMoved, Zenon DEF Dequeue, Labels, Ops, runnerVars
    <2> QED BY <2>1, <2>3, <2>4, TypeParts
  <1>2. ASSUME NEW g \in Gens, StreamValues(p, g) PROVE TypeInv'
    <2>1. RowType' /\ HistoryType'
      BY <1>2, RowUnchanged, HistoryUnchanged DEF StreamValues
    <2>2. QueueType'
      BY <1>2, Zenon DEF StreamValues, QueueType, Renewed
    <2>3. RunnerType'
      BY <1>2 DEF StreamValues, RunnerType, EndedOK, Ended, AttemptState
    <2>4. CallType'
      <3>1. CASE UNCHANGED h
        BY <1>2, <3>1, ZenonT(30) DEF StreamValues, CallType, CallOK, HTypeOK
      <3>2. CASE Start(p, "stream", "publish", g, g, "values")
        <4>1. /\ HTypeOK' /\ \A q \in Handlers : q # p => h'[q] = h[q]
              /\ h'[p].pc = "publish" /\ h'[p].op = "stream" /\ h'[p].gen = g
              /\ h'[p].cst = "values"
          BY <3>2 DEF CallType, HTypeOK, HandlerState, Start, Ops, Labels
        <4> QED BY <1>2, <4>1, CallMoved, ZenonT(30) DEF StreamValues, CallOK
      <3> QED BY <1>2, <3>1, <3>2 DEF StreamValues
    <2> QED BY <2>1, <2>2, <2>3, <2>4, TypeParts
  <1>3. ASSUME NEW g \in Gens, NEW s \in Outcomes, StreamEnd(p, g, s)
        PROVE  TypeInv'
    <2>1. RowType' /\ HistoryType'
      BY <1>3, RowUnchanged, HistoryUnchanged DEF StreamEnd
    <2>2. QueueType'
      BY <1>3, ZenonT(30) DEF StreamEnd, QueueType, Renewed
    <2>3. RunnerType'
      BY <1>3 DEF StreamEnd, RunnerType, EndedOK, Ended, AttemptState
    <2>4. \A i \in Gens : outcome'[i] = outcome[i] \/ outcome'[i] \in Outcomes
      BY <1>3 DEF StreamEnd, RunnerType
    <2>5. CallType'
      <3>1. CASE UNCHANGED h
        BY <2>4, <3>1, ZenonT(60) DEF CallType, CallOK, HTypeOK
      <3>2. CASE Start(p, "stream", "publish", g, g, "end")
        <4>1. /\ HTypeOK' /\ \A q \in Handlers : q # p => h'[q] = h[q]
              /\ h'[p].pc = "publish" /\ h'[p].op = "stream" /\ h'[p].gen = g
              /\ h'[p].cst = "end"
          BY <3>2 DEF CallType, HTypeOK, HandlerState, Start, Ops, Labels
        <4>2. outcome'[g] \in Outcomes
          BY <1>3 DEF StreamEnd, RunnerType
        <4> QED BY <2>4, <4>1, <4>2, ZenonT(60) DEF CallType, CallOK
      <3> QED BY <1>3, <3>1, <3>2, ZenonT(60) DEF StreamEnd
    <2> QED BY <2>1, <2>2, <2>3, <2>5, TypeParts
  <1>4. ASSUME NEW g \in Gens, ReportStatus(p, g) PROVE TypeInv'
    <2>1. RowType' /\ QueueType' /\ HistoryType'
      BY <1>4, RowUnchanged, QueueUnchanged, HistoryUnchanged, ZenonT(60) DEF ReportStatus
    <2>2. RunnerType'
      BY <1>4 DEF ReportStatus, RunnerType, EndedOK, Ended, AttemptState
    <2>3. outcome[g] \in TerminalRunStatus
      BY <1>4, OutcomesTerminal, Zenon DEF ReportStatus, RunnerType, EndedOK, Ended
    <2>4. CallType'
      <3>1. Presents("report", g, outcome[g]) /\ Presents("replay", g, outcome[g])
        BY <2>3 DEF Presents
      <3>2. UNCHANGED outcome
        BY <1>4, Zenon DEF ReportStatus
      <3>3. \/ Start(p, "replay", "check", g, g, outcome[g])
            \/ Start(p, "report", "renew", g, g, outcome[g])
        BY <1>4, ZenonT(60) DEF ReportStatus
      <3> QED BY <2>3, <3>1, <3>2, <3>3, StartMoved, ZenonT(60) DEF Labels, Ops
    <2> QED BY <2>1, <2>2, <2>4, TypeParts
  <1> QED BY <1>1, <1>2, <1>3, <1>4 DEF RunnerCall

\* Dropped jobs, expiring leases, heartbeats and runners that stop or fail
\* preserve the typing invariant.
LEMMA TypeEnvironment ==
    ASSUME TypeInv,
           \/ DropCanceled
           \/ LeaseExpires
           \/ \E g \in Gens : Heartbeat(g) \/ RunnerStops(g) \/ RunRaises(g)
    PROVE  TypeInv'
  <1> SUFFICES ASSUME RowType, QueueType, RunnerType, HistoryType, CallType
               PROVE  TypeInv'
    BY TypeParts
  <1>1. CASE DropCanceled
    <2>1. RowType' /\ RunnerType' /\ HistoryType'
      BY <1>1, RowUnchanged, RunnerUnchanged, HistoryUnchanged DEF DropCanceled
    <2>2. QueueType'
      <3>1. ready \in Seq(Gens) /\ ready # <<>> /\ ready' = Tail(ready)
        BY <1>1, ZenonT(60) DEF DropCanceled, QueueType
      <3>2. ready' \in Seq(Gens)
        BY <3>1
      <3> QED BY <1>1, <3>2, ZenonT(60) DEF DropCanceled, QueueType
    <2>3. CallType'
      BY <1>1 DEF DropCanceled, CallType, CallOK, HTypeOK, runnerVars
    <2> QED BY <2>1, <2>2, <2>3, TypeParts
  <1>2. CASE LeaseExpires
    <2>1. RowType' /\ RunnerType' /\ HistoryType'
      BY <1>2, RowUnchanged, RunnerUnchanged, HistoryUnchanged DEF LeaseExpires
    <2>2. QueueType'
      BY <1>2, Zenon DEF LeaseExpires, QueueType
    <2>3. CallType'
      BY <1>2 DEF LeaseExpires, CallType, CallOK, HTypeOK, runnerVars
    <2> QED BY <2>1, <2>2, <2>3, TypeParts
  <1>3. ASSUME NEW g \in Gens, Heartbeat(g) PROVE TypeInv'
    <2>1. RowType' /\ RunnerType' /\ HistoryType'
      BY <1>3, RowUnchanged, RunnerUnchanged, HistoryUnchanged DEF Heartbeat
    <2>2. QueueType'
      BY <1>3, ZenonT(60) DEF Heartbeat, QueueType
    <2>3. CallType'
      BY <1>3 DEF Heartbeat, CallType, CallOK, HTypeOK, runnerVars
    <2> QED BY <2>1, <2>2, <2>3, TypeParts
  <1>4. ASSUME NEW g \in Gens, RunnerStops(g) PROVE TypeInv'
    <2>1. RowType' /\ QueueType' /\ HistoryType'
      BY <1>4, RowUnchanged, QueueUnchanged, HistoryUnchanged DEF RunnerStops
    <2>2. RunnerType'
      BY <1>4, ZenonT(60) DEF RunnerStops, RunnerType, EndedOK, Ended, AttemptState
    <2>3. CallType'
      BY <1>4 DEF RunnerStops, CallType, CallOK, HTypeOK
    <2> QED BY <2>1, <2>2, <2>3, TypeParts
  <1>5. ASSUME NEW g \in Gens, RunRaises(g) PROVE TypeInv'
    <2>1. RowType' /\ QueueType' /\ HistoryType'
      BY <1>5, RowUnchanged, QueueUnchanged, HistoryUnchanged DEF RunRaises
    <2>2. RunnerType'
      BY <1>5 DEF RunRaises, RunnerType, EndedOK, Ended, AttemptState
    <2>3. \A i \in Gens : outcome'[i] = outcome[i] \/ outcome'[i] \in Outcomes
      BY <1>5 DEF RunRaises, RunnerType
    <2>4. UNCHANGED h
      BY <1>5 DEF RunRaises
    <2>5. CallType'
      BY <2>3, <2>4, ZenonT(60) DEF CallType, CallOK, HTypeOK
    <2> QED BY <2>1, <2>2, <2>5, TypeParts
  <1> QED BY <1>1, <1>2, <1>3, <1>4, <1>5

\* TypeInv is inductive.
LEMMA TypeInductive ==
    ASSUME TypeInv, [Next]_vars PROVE TypeInv'
  <1>1. CASE UNCHANGED vars
    BY <1>1, TypeParts, RowUnchanged, QueueUnchanged, RunnerUnchanged,
        HistoryUnchanged
    DEF vars, CallType, CallOK, HTypeOK, runnerVars
  <1>2. /\ Clients \subseteq Handlers /\ Bridge \subseteq Handlers
        /\ Sweepers \subseteq Handlers
    BY DEF Handlers
  <1> QED
    BY <1>1, <1>2, TypeStep, TypeFailure, TypeRequest, TypeRunnerCall,
        TypeEnvironment, ZenonT(60) DEF Next

\* Every reachable state is well typed, for any number of handler slots, retries
\* and faults: in particular a status written by CompleteRun is a terminal run
\* status whoever presented it, and no dispatched generation exceeds
\* reclaim.max_retries.
THEOREM TypeCorrect == Spec => []TypeOK
  <1>1. Spec => []TypeInv
    BY TypeInit, TypeInductive, PTL DEF Spec
  <1>2. TypeInv => TypeOK
    BY DEF TypeInv
  <1> QED BY <1>1, <1>2, PTL


=============================================================================
