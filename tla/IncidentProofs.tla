--------------------------- MODULE IncidentProofs ---------------------------
(***************************************************************************)
(* Proofs about IncidentLifecycle, for any alerts, any number of           *)
(* invocations in progress and any number of events.                       *)
(***************************************************************************)
EXTENDS IncidentLifecycle, TLAPS

-----------------------------------------------------------------------------
(* Type correctness.                                                       *)

\* An invocation that does nothing is well typed.
LEMMA IdleType == Idle \in Locals /\ Idle.pc = "idle"
<1>1. (CHOOSE a \in Alerts : TRUE) \in Alerts
  BY AlertsAssumption
<1>2. Idle \in Frames /\ Idle.pc = "idle"
  BY <1>1, BoundsAssumption
     DEF Idle, Enter, Frames, Refs, Items, Kinds, Absent, Reports
<1>3. QED
  BY <1>2 DEF Locals, MessagePC, AnalyzePC, WorkerPC, ResolvePC

\* An invocation that begins is well typed; on a message, if it works on one.
LEMMA EnterType ==
  ASSUME NEW pc \in BusyPC, NEW a \in Alerts, NEW n \in Refs, NEW i \in Items,
         pc \in MessagePC => n \in Msgs
  PROVE  Enter(pc, a, n, i) \in Locals
BY DEF Enter, Locals, Frames, Reports

\* The missing entry is well typed.
LEMMA AbsentType == Absent \in Items
BY DEF Items

\* The fields of an entry name messages, and only the missing one is absent.
LEMMA ItemFields ==
  ASSUME NEW i \in Items
  PROVE  /\ i.ts \in Refs
         /\ i.rc \in Refs
         /\ i.kind = "absent" <=> i = Absent
BY BoundsAssumption DEF Items, Absent, Kinds, Refs

\* The handlers' calls keep the types of the stores they write.
LEMMA PutItemType ==
  ASSUME TypeOK, NEW a \in Alerts, NEW i \in Items, PutItem(a, i)
  PROVE  item' \in [Alerts -> Items] /\ old' \in [Alerts -> Items]
BY DEF TypeOK, PutItem, Write

\* The upsert of a root cause leaves an entry, made or found.
LEMMA UpdateCauseType ==
  ASSUME TypeOK, NEW a \in Alerts, NEW n \in Refs, UpdateCause(a, n)
  PROVE  item' \in [Alerts -> Items] /\ old' \in [Alerts -> Items]
<1>1. WithCause(item[a], n) \in Items
  <2>1. item[a] \in Items
    BY DEF TypeOK
  <2>2. [kind |-> "bare", ts |-> 0, rc |-> n] \in Items
    BY BoundsAssumption DEF Items, Kinds, Refs
  <2>3. CASE item[a] = Absent
    BY <2>2, <2>3 DEF WithCause, Absent
  <2>4. CASE item[a] \in [kind : Kinds, ts : Refs, rc : Refs]
    <3>1. [item[a] EXCEPT !.rc = n] \in [kind : Kinds, ts : Refs, rc : Refs]
      BY <2>4
    <3>2. QED
      BY <2>2, <3>1 DEF WithCause, Items
  <2>5. QED
    BY <2>1, <2>3, <2>4 DEF Items
<1>2. QED
  BY <1>1 DEF TypeOK, UpdateCause, Write

\* Removing an entry leaves none, and notes which it was.
LEMMA RemoveType ==
  ASSUME TypeOK, NEW a \in Alerts, NEW how \in {"expired", "deleted"}, Remove(a, how)
  PROVE  /\ item' \in [Alerts -> Items]
         /\ old' \in [Alerts -> Items]
         /\ ended' \in [Alerts -> SUBSET (Refs \X {"expired", "deleted"})]
<1>1. item' \in [Alerts -> Items] /\ old' \in [Alerts -> Items]
  BY AbsentType DEF TypeOK, Remove, Write
<1>2. <<item[a].ts, how>> \in Refs \X {"expired", "deleted"}
  BY ItemFields DEF TypeOK
<1>3. QED
  BY <1>1, <1>2 DEF TypeOK, Remove

\* delete_ongoing_incident, whether or not the call fails.
LEMMA DeleteItemType ==
  ASSUME TypeOK, NEW a \in Alerts, DeleteItem(a)
  PROVE  /\ item' \in [Alerts -> Items]
         /\ old' \in [Alerts -> Items]
         /\ ended' \in [Alerts -> SUBSET (Refs \X {"expired", "deleted"})]
<1>1. CASE Remove(a, "deleted")
  BY <1>1, RemoveType
<1>2. CASE UNCHANGED <<item, old, ended>>
  BY <1>2 DEF TypeOK
<1>3. QED
  BY <1>1, <1>2 DEF DeleteItem

\* save_incident appends a record or loses it.
LEMMA SaveIncidentType ==
  ASSUME TypeOK, NEW a \in Alerts, NEW r \in Records, SaveIncident(a, r)
  PROVE  hist' \in [Alerts -> Seq(Records)]
<1>1. hist \in [Alerts -> Seq(Records)] /\ hist[a] \in Seq(Records)
  BY DEF TypeOK
<1>2. Append(hist[a], r) \in Seq(Records)
  BY <1>1
<1>3. QED
  BY <1>1, <1>2 DEF SaveIncident

\* chat.update writes the blocks of one message, or none.
LEMMA UpdateMessageType ==
  ASSUME TypeOK, NEW a \in Alerts, NEW n \in Msgs, NEW b \in SUBSET Sections,
         UpdateMessage(a, n, b)
  PROVE  blocks' \in [Alerts -> [Msgs -> SUBSET Sections]]
<1>1. /\ blocks \in [Alerts -> [Msgs -> SUBSET Sections]]
      /\ blocks[a] \in [Msgs -> SUBSET Sections]
  BY DEF TypeOK
<1>2. [blocks[a] EXCEPT ![n] = b] \in [Msgs -> SUBSET Sections]
  BY <1>1
<1>3. QED
  BY <1>1, <1>2 DEF UpdateMessage

\* An event that comes leaves fewer to come.
LEMMA SpendType ==
  ASSUME TypeOK, NEW e \in Events, Spend(e)
  PROVE  left' \in [Events -> Nat]
BY DEF TypeOK, Spend

\* An idle invocation takes up a well-typed frame.
LEMMA BeginType ==
  ASSUME TypeOK, NEW p \in Procs, NEW l \in Locals, Begin(p, l)
  PROVE  proc' \in [Procs -> Locals]
BY DEF TypeOK, Begin

\* An invocation that ends is idle again.
LEMMA ReturnType ==
  ASSUME TypeOK, NEW p \in Procs, Return(p)
  PROVE  proc' \in [Procs -> Locals]
BY IdleType DEF TypeOK, Return

\* Going on keeps the message an invocation works on.
LEMMA GotoType ==
  ASSUME TypeOK, NEW p \in Procs, NEW pc \in BusyPC, Goto(p, pc),
         pc \in MessagePC => proc[p].pc \in MessagePC
  PROVE  proc' \in [Procs -> Locals]
<1>1. [proc[p] EXCEPT !.pc = pc] \in Locals
  BY DEF TypeOK, Locals, Frames
<1>2. QED
  BY <1>1 DEF TypeOK, Goto

\* Whatever get_ongoing_incident answers is an entry or the missing one.
LEMMA GetsType ==
  ASSUME TypeOK, NEW a \in Alerts
  PROVE  Gets(a) \subseteq Items
BY AbsentType DEF TypeOK, Gets

\* What an invocation holds is well typed.
LEMMA ProcType ==
  ASSUME TypeOK, NEW p \in Procs
  PROVE  /\ proc[p].alert \in Alerts
         /\ proc[p].msg \in Refs
         /\ proc[p].seen \in Items
         /\ proc[p].blocks \in SUBSET Sections
         /\ proc[p].report \in Reports
         /\ proc[p].pc \in MessagePC => proc[p].msg \in Msgs
BY DEF TypeOK, Locals, Frames

\* A count of requested analyses goes up or down by one.
LEMMA JobType ==
  ASSUME TypeOK, NEW a \in Alerts, NEW n \in Msgs,
         \/ jobs' = [jobs EXCEPT ![a][n] = @ + 1]
         \/ jobs[a][n] > 0 /\ jobs' = [jobs EXCEPT ![a][n] = @ - 1]
         \/ UNCHANGED jobs
  PROVE  jobs' \in [Alerts -> [Msgs -> Nat]]
<1>1. /\ jobs \in [Alerts -> [Msgs -> Nat]]
      /\ jobs[a] \in [Msgs -> Nat]
      /\ jobs[a][n] \in Nat
  BY DEF TypeOK
<1>2. CASE jobs' = [jobs EXCEPT ![a][n] = @ + 1]
  <2>1. [jobs[a] EXCEPT ![n] = @ + 1] \in [Msgs -> Nat]
    BY <1>1
  <2>2. QED
    BY <1>1, <1>2, <2>1
<1>3. CASE jobs[a][n] > 0 /\ jobs' = [jobs EXCEPT ![a][n] = @ - 1]
  <2>1. jobs[a][n] - 1 \in Nat
    BY <1>1, <1>3
  <2>2. [jobs[a] EXCEPT ![n] = @ - 1] \in [Msgs -> Nat]
    BY <1>1, <2>1
  <2>3. QED
    BY <1>1, <1>3, <2>2
<1>4. QED
  BY <1>1, <1>2, <1>3

\* Likewise a count of open dialogs.
LEMMA ModalType ==
  ASSUME TypeOK, NEW a \in Alerts, NEW n \in Msgs,
         \/ modals' = [modals EXCEPT ![a][n] = @ + 1]
         \/ modals[a][n] > 0 /\ modals' = [modals EXCEPT ![a][n] = @ - 1]
         \/ UNCHANGED modals
  PROVE  modals' \in [Alerts -> [Msgs -> Nat]]
<1>1. /\ modals \in [Alerts -> [Msgs -> Nat]]
      /\ modals[a] \in [Msgs -> Nat]
      /\ modals[a][n] \in Nat
  BY DEF TypeOK
<1>2. CASE modals' = [modals EXCEPT ![a][n] = @ + 1]
  <2>1. [modals[a] EXCEPT ![n] = @ + 1] \in [Msgs -> Nat]
    BY <1>1
  <2>2. QED
    BY <1>1, <1>2, <2>1
<1>3. CASE modals[a][n] > 0 /\ modals' = [modals EXCEPT ![a][n] = @ - 1]
  <2>1. modals[a][n] - 1 \in Nat
    BY <1>1, <1>3
  <2>2. [modals[a] EXCEPT ![n] = @ - 1] \in [Msgs -> Nat]
    BY <1>1, <2>1
  <2>3. QED
    BY <1>1, <1>3, <2>2
<1>4. QED
  BY <1>1, <1>2, <1>3

\* A failed analysis may be requested once more.
LEMMA MaybeRetryType ==
  ASSUME TypeOK, NEW a \in Alerts, NEW n \in Msgs, MaybeRetry(a, n)
  PROVE  jobs' \in [Alerts -> [Msgs -> Nat]]
BY JobType DEF MaybeRetry

\* Reading a message leaves the reader with sections of it.
LEMMA ReadMessageType ==
  ASSUME TypeOK, NEW p \in Procs, NEW from \in MessagePC, NEW to \in MessagePC,
         ReadMessage(p, from, to)
  PROVE  proc' \in [Procs -> Locals]
<1>1. PICK b \in Reads(proc[p].alert, proc[p].msg) :
        proc' = [proc EXCEPT ![p].pc = to, ![p].blocks = Strip(b)]
  BY DEF ReadMessage
<1>2. proc[p].pc \in MessagePC /\ proc[p].msg \in Msgs
  BY ProcType DEF ReadMessage, At
<1>3. blocks[proc[p].alert][proc[p].msg] \subseteq Sections
  BY <1>2, ProcType DEF TypeOK
<1>4. b = blocks[proc[p].alert][proc[p].msg] \/ b = {}
  BY <1>1 DEF Reads
<1>5. Strip(b) \subseteq Sections
  BY <1>3, <1>4 DEF Strip
<1>6. [proc[p] EXCEPT !.pc = to, !.blocks = Strip(b)] \in Locals
  BY <1>2, <1>5 DEF TypeOK, Locals, Frames, BusyPC
<1>7. QED
  BY <1>1, <1>6 DEF TypeOK

\* The steps of an alarm handler keep the types.
LEMMA AlarmTypes ==
  ASSUME TypeOK, NEW p \in Procs, NEW a \in Alerts,
         AlarmSkip(p, a) \/ AlarmCheck(p, a) \/ AlarmPost(p) \/ AlarmPut(p)
  PROVE  TypeOK'
<1>1. CASE AlarmSkip(p, a)
  <2>1. left' \in [Events -> Nat]
    BY <1>1, SpendType DEF AlarmSkip, Events
  <2>2. QED
    BY <1>1, <2>1 DEF AlarmSkip, TypeOK
<1>2. CASE AlarmCheck(p, a)
  <2>1. left' \in [Events -> Nat]
    BY <1>2, SpendType DEF AlarmCheck, Events
  <2>2. Enter("alarm_post", a, 0, Absent) \in Locals
    BY BoundsAssumption, EnterType, AbsentType
       DEF BusyPC, AlarmPC, MessagePC, AnalyzePC, WorkerPC, ResolvePC, Refs
  <2>3. proc' \in [Procs -> Locals]
    BY <1>2, <2>2, BeginType DEF AlarmCheck
  <2>4. QED
    BY <1>2, <2>1, <2>3 DEF AlarmCheck, TypeOK
<1>3. CASE AlarmPost(p)
  <2> DEFINE b == proc[p].alert
             n == posted[b] + 1
  <2>1. b \in Alerts
    BY ProcType
  <2>2. CASE /\ n \in Msgs
             /\ posted' = [posted EXCEPT ![b] = n]
             /\ blocks' = [blocks EXCEPT ![b][n] = SimpleMessage]
             /\ proc' = [proc EXCEPT ![p].pc = "alarm_put", ![p].msg = n]
    <3>1. posted' \in [Alerts -> Refs]
      <4>1. n \in Refs
        BY <2>2, BoundsAssumption DEF Msgs, Refs
      <4>2. QED
        BY <2>1, <2>2, <4>1 DEF TypeOK
    <3>2. blocks' \in [Alerts -> [Msgs -> SUBSET Sections]]
      BY <2>1, <2>2, UpdateMessageType DEF UpdateMessage, SimpleMessage, Sections
    <3>3. [proc[p] EXCEPT !.pc = "alarm_put", !.msg = n] \in Locals
      <4>1. n \in Refs /\ proc[p] \in Frames
        BY <2>2, BoundsAssumption DEF Msgs, Refs, TypeOK, Locals
      <4>2. [proc[p] EXCEPT !.pc = "alarm_put", !.msg = n] \in Frames
        BY <4>1 DEF Frames, BusyPC, AlarmPC
      <4>3. [proc[p] EXCEPT !.pc = "alarm_put", !.msg = n].msg \in Msgs
        BY <2>2, <4>1 DEF Frames
      <4>4. QED
        BY <4>2, <4>3 DEF Locals
    <3>4. proc' \in [Procs -> Locals]
      BY <2>2, <3>3 DEF TypeOK
    <3>5. QED
      BY <1>3, <3>1, <3>2, <3>4 DEF AlarmPost, TypeOK
  <2>3. CASE Goto(p, "alarm_put") /\ UNCHANGED <<posted, blocks>>
    <3>1. proc' \in [Procs -> Locals]
      BY <2>3, GotoType
         DEF BusyPC, AlarmPC, MessagePC, AnalyzePC, WorkerPC, ResolvePC
    <3>2. QED
      BY <1>3, <2>3, <3>1 DEF AlarmPost, TypeOK
  <2>4. QED
    BY <1>3, <2>2, <2>3 DEF AlarmPost
<1>4. CASE AlarmPut(p)
  <2>1. [kind |-> "sns", ts |-> proc[p].msg, rc |-> 0] \in Items
    BY ProcType, BoundsAssumption DEF Items, Kinds, Refs
  <2>2. item' \in [Alerts -> Items] /\ old' \in [Alerts -> Items]
    BY <1>4, <2>1, ProcType, PutItemType DEF AlarmPut
  <2>3. proc' \in [Procs -> Locals]
    BY <1>4, ReturnType DEF AlarmPut
  <2>4. QED
    BY <1>4, <2>2, <2>3 DEF AlarmPut, TypeOK
<1>5. QED
  BY <1>1, <1>2, <1>3, <1>4

\* The steps of a recovery handler keep the types.
LEMMA OkTypes ==
  ASSUME TypeOK, NEW p \in Procs, NEW a \in Alerts,
         OkGet(p, a) \/ OkSave(p) \/ OkDelete(p)
  PROVE  TypeOK'
<1>1. CASE OkGet(p, a)
  <2>1. left' \in [Events -> Nat]
    BY <1>1, SpendType DEF OkGet, Events
  <2>2. proc' \in [Procs -> Locals]
    <3>1. PICK seen \in Gets(a) :
            IF seen = Absent THEN proc[p] = Idle /\ UNCHANGED proc
                             ELSE Begin(p, Enter("ok_save", a, 0, seen))
      BY <1>1 DEF OkGet
    <3>2. Enter("ok_save", a, 0, seen) \in Locals
      BY BoundsAssumption, EnterType, GetsType
         DEF BusyPC, OkPC, MessagePC, AnalyzePC, WorkerPC, ResolvePC, Refs
    <3>3. QED
      BY <3>1, <3>2, BeginType DEF TypeOK
  <2>3. QED
    BY <1>1, <2>1, <2>2 DEF OkGet, TypeOK
<1>2. CASE OkSave(p)
  <2> DEFINE r == [by |-> "auto", of |-> proc[p].seen.ts, rc |-> proc[p].seen.rc]
  <2>1. r \in Records
    BY ProcType, ItemFields DEF Records
  <2>2. hist' \in [Alerts -> Seq(Records)]
    BY <1>2, <2>1, ProcType, SaveIncidentType DEF OkSave
  <2>3. proc' \in [Procs -> Locals]
    BY <1>2, GotoType DEF OkSave, BusyPC, OkPC, MessagePC, AnalyzePC, WorkerPC, ResolvePC
  <2>4. QED
    BY <1>2, <2>2, <2>3 DEF OkSave, TypeOK
<1>3. CASE OkDelete(p)
  <2>1. proc' \in [Procs -> Locals]
    BY <1>3, ReturnType DEF OkDelete
  <2>2. QED
    BY <1>3, <2>1, ProcType, DeleteItemType DEF OkDelete, TypeOK
<1>4. QED
  BY <1>1, <1>2, <1>3

\* The steps of a click on the analysis button keep the types.
LEMMA AnalyzeTypes ==
  ASSUME TypeOK, NEW p \in Procs, NEW a \in Alerts, NEW n \in Msgs,
         \/ AnalyzeClick(p, a, n)
         \/ AnalyzeRead(p)
         \/ AnalyzeUpdate(p)
         \/ AnalyzeInvoke(p)
  PROVE  TypeOK'
<1> USE DEF BusyPC, MessagePC, AnalyzePC
<1>1. CASE AnalyzeClick(p, a, n)
  <2>1. left' \in [Events -> Nat]
    BY <1>1, SpendType DEF AnalyzeClick, Events
  <2>2. Enter("an_read", a, n, Absent) \in Locals
    <3>1. n \in Refs
      BY BoundsAssumption DEF Msgs, Refs
    <3>2. QED
      BY <3>1, EnterType, AbsentType
  <2>3. proc' \in [Procs -> Locals]
    BY <1>1, <2>2, BeginType DEF AnalyzeClick, TypeOK
  <2>4. QED
    BY <1>1, <2>1, <2>3 DEF AnalyzeClick, TypeOK
<1>2. CASE AnalyzeRead(p)
  <2>1. proc' \in [Procs -> Locals]
    BY <1>2, ReadMessageType DEF AnalyzeRead
  <2>2. QED
    BY <1>2, <2>1 DEF AnalyzeRead, ReadMessage, TypeOK
<1>3. CASE AnalyzeUpdate(p)
  <2>1. proc[p].blocks \union {"status"} \in SUBSET Sections
    BY ProcType DEF Sections
  <2>2. blocks' \in [Alerts -> [Msgs -> SUBSET Sections]]
    BY <1>3, <2>1, ProcType, UpdateMessageType DEF AnalyzeUpdate, At
  <2>3. proc' \in [Procs -> Locals]
    BY <1>3, GotoType DEF AnalyzeUpdate, At
  <2>4. QED
    BY <1>3, <2>2, <2>3 DEF AnalyzeUpdate, TypeOK
<1>4. CASE AnalyzeInvoke(p)
  <2>1. jobs' \in [Alerts -> [Msgs -> Nat]]
    <3>1. proc[p].alert \in Alerts /\ proc[p].msg \in Msgs
      BY <1>4, ProcType DEF AnalyzeInvoke, At
    <3>2. QED
      BY <1>4, <3>1, JobType DEF AnalyzeInvoke
  <2>2. proc' \in [Procs -> Locals]
    BY <1>4, ReturnType DEF AnalyzeInvoke
  <2>3. QED
    BY <1>4, <2>1, <2>2 DEF AnalyzeInvoke, TypeOK
<1>5. QED
  BY <1>1, <1>2, <1>3, <1>4

\* The steps of an analysis keep the types.
LEMMA WorkerTypes ==
  ASSUME TypeOK, NEW p \in Procs, NEW a \in Alerts, NEW n \in Msgs,
         \/ StartAnalysis(p, a, n) \/ Analyze(p) \/ AnalyzeRaise(p)
         \/ SaveNodeGet(p) \/ SaveNodePut(p)
         \/ ReportRead(p) \/ ReportUpdate(p) \/ ReportFallback(p) \/ ReportCause(p)
  PROVE  TypeOK'
<1> USE DEF BusyPC, MessagePC, WorkerPC
<1>1. CASE StartAnalysis(p, a, n)
  <2>1. Enter("rca", a, n, Absent) \in Locals
    <3>1. n \in Refs
      BY BoundsAssumption DEF Msgs, Refs
    <3>2. QED
      BY <3>1, EnterType, AbsentType
  <2>2. proc' \in [Procs -> Locals]
    BY <1>1, <2>1, BeginType DEF StartAnalysis
  <2>3. jobs' \in [Alerts -> [Msgs -> Nat]]
    BY <1>1, JobType DEF StartAnalysis
  <2>4. QED
    BY <1>1, <2>2, <2>3 DEF StartAnalysis, TypeOK
<1>2. CASE Analyze(p)
  <2>1. PICK r \in Reports \ {"none"} :
          proc' = [proc EXCEPT ![p].pc = "ms_get", ![p].report = r]
    BY <1>2 DEF Analyze
  <2>2. [proc[p] EXCEPT !.pc = "ms_get", !.report = r] \in Locals
    <3>1. proc[p] \in Frames /\ proc[p].msg \in Msgs
      BY <1>2, ProcType DEF Analyze, At, TypeOK, Locals
    <3>2. [proc[p] EXCEPT !.pc = "ms_get", !.report = r] \in Frames
      BY <2>1, <3>1 DEF Frames
    <3>3. [proc[p] EXCEPT !.pc = "ms_get", !.report = r].msg = proc[p].msg
      BY <3>1 DEF Frames
    <3>4. QED
      BY <3>1, <3>2, <3>3 DEF Locals
  <2>3. proc' \in [Procs -> Locals]
    BY <2>1, <2>2 DEF TypeOK
  <2>4. QED
    BY <1>2, <2>3 DEF Analyze, TypeOK
<1>3. CASE AnalyzeRaise(p)
  <2>1. proc' \in [Procs -> Locals]
    BY <1>3, ReturnType DEF AnalyzeRaise
  <2>2. jobs' \in [Alerts -> [Msgs -> Nat]]
    BY <1>3, ProcType, MaybeRetryType DEF AnalyzeRaise, At
  <2>3. QED
    BY <1>3, <2>1, <2>2 DEF AnalyzeRaise, TypeOK
<1>4. CASE SaveNodeGet(p)
  <2>1. proc' \in [Procs -> Locals]
    BY <1>4, GotoType DEF SaveNodeGet, At
  <2>2. QED
    BY <1>4, <2>1 DEF SaveNodeGet, TypeOK
<1>5. CASE SaveNodePut(p)
  <2>1. [kind |-> "analysis", ts |-> proc[p].msg, rc |-> Cause(p)] \in Items
    BY ProcType, BoundsAssumption DEF Items, Kinds, Refs, Cause
  <2>2. item' \in [Alerts -> Items] /\ old' \in [Alerts -> Items]
    BY <1>5, <2>1, ProcType, PutItemType DEF SaveNodePut
  <2>3. proc' \in [Procs -> Locals]
    BY <1>5, GotoType DEF SaveNodePut, At
  <2>4. QED
    BY <1>5, <2>2, <2>3 DEF SaveNodePut, TypeOK
<1>6. CASE ReportRead(p)
  <2>1. proc' \in [Procs -> Locals]
    BY <1>6, ReadMessageType DEF ReportRead
  <2>2. QED
    BY <1>6, <2>1 DEF ReportRead, ReadMessage, TypeOK
<1>7. CASE ReportUpdate(p)
  <2>1. proc[p].blocks \union AnalysisBlocks \in SUBSET Sections
    BY ProcType DEF Sections, AnalysisBlocks
  <2>2. blocks' \in [Alerts -> [Msgs -> SUBSET Sections]]
    BY <1>7, <2>1, ProcType, UpdateMessageType DEF ReportUpdate, At
  <2>3. proc' \in [Procs -> Locals]
    BY <1>7, GotoType, ReturnType DEF ReportUpdate, At
  <2>4. QED
    BY <1>7, <2>2, <2>3 DEF ReportUpdate, TypeOK
<1>8. CASE ReportFallback(p)
  <2>1. proc' \in [Procs -> Locals]
    BY <1>8, ReturnType DEF ReportFallback
  <2>2. QED
    BY <1>8, <2>1 DEF ReportFallback, TypeOK
<1>9. CASE ReportCause(p)
  <2>1. item' \in [Alerts -> Items] /\ old' \in [Alerts -> Items]
    BY <1>9, ProcType, UpdateCauseType DEF ReportCause
  <2>2. proc' \in [Procs -> Locals]
    BY <1>9, ReturnType DEF ReportCause
  <2>3. QED
    BY <1>9, <2>1, <2>2 DEF ReportCause, TypeOK
<1>10. QED
  BY <1>1, <1>2, <1>3, <1>4, <1>5, <1>6, <1>7, <1>8, <1>9

\* Opening a dialog keeps the types.
LEMMA OpenModalTypes ==
  ASSUME TypeOK, NEW a \in Alerts, NEW n \in Msgs, OpenModal(a, n)
  PROVE  TypeOK'
<1>1. left' \in [Events -> Nat]
  BY SpendType DEF OpenModal, Events
<1>2. modals' \in [Alerts -> [Msgs -> Nat]]
  BY ModalType DEF OpenModal
<1>3. QED
  BY <1>1, <1>2 DEF OpenModal, TypeOK

\* The steps of a resolution keep the types.
LEMMA ResolveTypes ==
  ASSUME TypeOK, NEW p \in Procs, NEW a \in Alerts, NEW n \in Msgs,
         \/ SubmitModal(p, a, n)
         \/ ResolveGet(p) \/ ResolveSave(p) \/ ResolveDelete(p)
         \/ ResolveRead(p) \/ ResolveUpdate(p)
  PROVE  TypeOK'
<1> USE DEF BusyPC, MessagePC, ResolvePC
<1>2. CASE SubmitModal(p, a, n)
  <2>1. left' \in [Events -> Nat]
    BY <1>2, SpendType DEF SubmitModal, Events, TypeOK
  <2>2. modals' \in [Alerts -> [Msgs -> Nat]]
    BY <1>2, ModalType DEF SubmitModal
  <2>3. Enter("rs_get", a, n, Absent) \in Locals
    <3>1. n \in Refs
      BY BoundsAssumption DEF Msgs, Refs
    <3>2. QED
      BY <3>1, EnterType, AbsentType
  <2>4. proc' \in [Procs -> Locals]
    BY <1>2, <2>3, BeginType DEF SubmitModal
  <2>5. QED
    BY <1>2, <2>1, <2>2, <2>4 DEF SubmitModal, TypeOK
<1>3. CASE ResolveGet(p)
  <2>1. PICK seen \in Gets(proc[p].alert) :
          proc' = [proc EXCEPT ![p].pc = "rs_save", ![p].seen = seen]
    BY <1>3 DEF ResolveGet
  <2>2. [proc[p] EXCEPT !.pc = "rs_save", !.seen = seen] \in Locals
    <3>1. proc[p] \in Frames /\ proc[p].msg \in Msgs /\ seen \in Items
      BY <1>3, ProcType, GetsType DEF ResolveGet, At, TypeOK, Locals
    <3>2. [proc[p] EXCEPT !.pc = "rs_save", !.seen = seen] \in Frames
      BY <2>1, <3>1 DEF Frames
    <3>3. [proc[p] EXCEPT !.pc = "rs_save", !.seen = seen].msg = proc[p].msg
      BY <3>1 DEF Frames
    <3>4. QED
      BY <3>1, <3>2, <3>3 DEF Locals
  <2>3. proc' \in [Procs -> Locals]
    BY <2>1, <2>2 DEF TypeOK
  <2>4. QED
    BY <1>3, <2>3 DEF ResolveGet, TypeOK
<1>4. CASE ResolveSave(p)
  <2> DEFINE r == [by |-> "human", of |-> proc[p].seen.ts, rc |-> proc[p].seen.rc]
  <2>1. r \in Records
    BY ProcType, ItemFields DEF Records
  <2>2. hist' \in [Alerts -> Seq(Records)]
    BY <1>4, <2>1, ProcType, SaveIncidentType DEF ResolveSave
  <2>3. proc' \in [Procs -> Locals]
    BY <1>4, GotoType DEF ResolveSave, At
  <2>4. QED
    BY <1>4, <2>2, <2>3 DEF ResolveSave, TypeOK
<1>5. CASE ResolveDelete(p)
  <2>1. proc' \in [Procs -> Locals]
    BY <1>5, GotoType DEF ResolveDelete, At
  <2>2. QED
    BY <1>5, <2>1, ProcType, DeleteItemType DEF ResolveDelete, TypeOK
<1>6. CASE ResolveRead(p)
  <2>1. proc' \in [Procs -> Locals]
    BY <1>6, ReadMessageType DEF ResolveRead
  <2>2. QED
    BY <1>6, <2>1 DEF ResolveRead, ReadMessage, TypeOK
<1>7. CASE ResolveUpdate(p)
  <2>1. proc[p].blocks \union ResolvedBlocks \in SUBSET Sections
    BY ProcType DEF Sections, ResolvedBlocks
  <2>2. blocks' \in [Alerts -> [Msgs -> SUBSET Sections]]
    BY <1>7, <2>1, ProcType, UpdateMessageType DEF ResolveUpdate, At
  <2>3. proc' \in [Procs -> Locals]
    BY <1>7, ReturnType DEF ResolveUpdate
  <2>4. QED
    BY <1>7, <2>2, <2>3 DEF ResolveUpdate, TypeOK
<1>8. QED
  BY <1>2, <1>3, <1>4, <1>5, <1>6, <1>7

\* Expiry and the death of an invocation keep the types.
LEMMA EnvironmentTypes ==
  ASSUME TypeOK, NEW p \in Procs, NEW a \in Alerts, Expire(a) \/ Crash(p)
  PROVE  TypeOK'
<1>1. CASE Expire(a)
  BY <1>1, RemoveType DEF Expire, TypeOK
<1>2. CASE Crash(p)
  <2>1. proc' \in [Procs -> Locals]
    BY <1>2, ReturnType DEF Crash
  <2>2. jobs' \in [Alerts -> [Msgs -> Nat]]
    BY <1>2, ProcType, MaybeRetryType DEF Crash, MessagePC, TypeOK
  <2>3. QED
    BY <1>2, <2>1, <2>2 DEF Crash, TypeOK
<1>3. QED
  BY <1>1, <1>2

\* Every step keeps the types.
LEMMA StepTypes == TypeOK /\ [Next]_vars => TypeOK'
<1> SUFFICES ASSUME TypeOK, [Next]_vars
             PROVE  TypeOK'
  OBVIOUS
<1>1. CASE UNCHANGED vars
  BY <1>1 DEF vars, TypeOK
<1>2. CASE Next
  <2>1. ASSUME NEW p \in Procs, Advance(p)
        PROVE  TypeOK'
    <3>1. PICK a \in Alerts : TRUE
      BY AlertsAssumption
    <3>2. CASE AlarmPost(p) \/ AlarmPut(p) \/ OkSave(p) \/ OkDelete(p)
      BY <3>1, <3>2, AlarmTypes, OkTypes
    <3>3. CASE AnalyzeRead(p) \/ AnalyzeUpdate(p) \/ AnalyzeInvoke(p)
      <4>1. proc[p].alert \in Alerts /\ proc[p].msg \in Msgs
        BY <3>3, ProcType DEF AnalyzeRead, ReadMessage, AnalyzeUpdate, AnalyzeInvoke,
                              At, MessagePC, AnalyzePC
      <4>2. QED
        BY <3>3, <4>1, AnalyzeTypes
    <3>4. CASE \/ Analyze(p) \/ SaveNodeGet(p) \/ SaveNodePut(p)
               \/ ReportRead(p) \/ ReportUpdate(p) \/ ReportCause(p)
      <4>1. proc[p].alert \in Alerts /\ proc[p].msg \in Msgs
        BY <3>4, ProcType DEF Analyze, SaveNodeGet, SaveNodePut, ReportRead, ReadMessage,
                              ReportUpdate, ReportCause, At, MessagePC, WorkerPC
      <4>2. QED
        BY <3>4, <4>1, WorkerTypes
    <3>5. CASE \/ ResolveGet(p) \/ ResolveSave(p) \/ ResolveDelete(p)
               \/ ResolveRead(p) \/ ResolveUpdate(p)
      <4>1. proc[p].alert \in Alerts /\ proc[p].msg \in Msgs
        BY <3>5, ProcType DEF ResolveGet, ResolveSave, ResolveDelete, ResolveRead,
                              ReadMessage, ResolveUpdate, At, MessagePC, ResolvePC
      <4>2. QED
        BY <3>5, <4>1, ResolveTypes
    <3>6. QED
      BY <2>1, <3>2, <3>3, <3>4, <3>5 DEF Advance
  <2>2. ASSUME NEW p \in Procs, Start(p)
        PROVE  TypeOK'
    BY <2>2, WorkerTypes DEF Start
  <2>3. ASSUME NEW p \in Procs, Arrive(p)
        PROVE  TypeOK'
    BY <2>3, AlarmTypes, OkTypes, AnalyzeTypes, ResolveTypes DEF Arrive
  <2>4. ASSUME NEW p \in Procs, Fail(p)
        PROVE  TypeOK'
    <3>1. PICK a \in Alerts : TRUE
      BY AlertsAssumption
    <3>2. CASE Crash(p)
      BY <3>1, <3>2, EnvironmentTypes
    <3>3. CASE AnalyzeRaise(p) \/ ReportFallback(p)
      <4>1. proc[p].alert \in Alerts /\ proc[p].msg \in Msgs
        BY <3>3, ProcType DEF AnalyzeRaise, ReportFallback, At, MessagePC, WorkerPC
      <4>2. QED
        BY <3>3, <4>1, WorkerTypes
    <3>4. QED
      BY <2>4, <3>2, <3>3 DEF Fail
  <2>5. ASSUME NEW a \in Alerts, Expire(a)
        PROVE  TypeOK'
    BY <2>5, RemoveType DEF Expire, TypeOK
  <2>6. ASSUME NEW a \in Alerts, NEW n \in Msgs, OpenModal(a, n)
        PROVE  TypeOK'
    BY <2>6, OpenModalTypes
  <2>7. QED
    BY <1>2, <2>1, <2>2, <2>3, <2>4, <2>5, <2>6 DEF Next
<1>3. QED
  BY <1>1, <1>2

\* The initial stores are well typed.
LEMMA InitTypes == Init => TypeOK
<1> SUFFICES ASSUME Init
             PROVE  TypeOK
  OBVIOUS
<1>1. 0 \in Refs
  BY BoundsAssumption DEF Refs
<1>2. left \in [Events -> Nat]
  BY BoundsAssumption DEF Init, Events
<1>3. <<>> \in Seq(Records)
  OBVIOUS
<1>4. QED
  BY <1>1, <1>2, <1>3, AbsentType, IdleType DEF Init, TypeOK

\* Whatever overlaps and whatever fails, the stores and what the invocations
\* hold have their types; one that works on a message knows a posted one.
THEOREM TypeCorrect == Spec => []TypeOK
BY InitTypes, StepTypes, PTL DEF Spec

-----------------------------------------------------------------------------
(* The shape of a message.  Inductive with what every handler has in hand: *)
(* the blocks it read, without the buttons and without the status.         *)

InHandStripped == \A p \in Procs : proc[p].blocks \intersect (Buttons \union {"status"}) = {}

ShapeInv == TypeOK /\ MessageShape /\ InHandStripped

\* What a rewrite adds to the blocks in hand, each by one handler.
Additions == {{"status"}, AnalysisBlocks, ResolvedBlocks}

\* p puts its blocks and an addition where it read them, and goes on; only a
\* resolution adds that the incident is resolved.
UpdatePC == {"an_update", "rp_update", "rs_update"}
Rewrites(p, x) ==
  /\ proc[p].pc \in UpdatePC
  /\ "resolved" \in x => At(p, "rs_update")
  /\ blocks' = [blocks EXCEPT ![proc[p].alert][proc[p].msg] = proc[p].blocks \union x]
  /\ proc'[p].pc \notin UpdatePC
  /\ UNCHANGED posted

\* The n-th message of a is posted.
Posts(a, n) ==
  /\ n = posted[a] + 1
  /\ posted' = [posted EXCEPT ![a] = n]
  /\ blocks' = [blocks EXCEPT ![a][n] = SimpleMessage]

\* A step writes at most one message: a new one, or one of a handler's blocks
\* and its addition; and what is in hand was stripped before.
LEMMA MessageSteps ==
  ASSUME TypeOK, [Next]_vars
  PROVE  /\ \/ UNCHANGED <<blocks, posted>>
            \/ \E a \in Alerts, n \in Msgs : Posts(a, n)
            \/ \E p \in Procs, x \in Additions : Rewrites(p, x)
         /\ \A q \in Procs : \/ proc'[q].blocks = proc[q].blocks
                             \/ proc'[q].blocks = {}
                             \/ \E b \in SUBSET Sections : proc'[q].blocks = Strip(b)
<1> DEFINE Stripped(q) == \/ proc'[q].blocks = proc[q].blocks
                          \/ proc'[q].blocks = {}
                          \/ \E b \in SUBSET Sections : proc'[q].blocks = Strip(b)
<1>1. proc \in [Procs -> Locals] /\ \A q \in Procs : proc[q] \in Frames
  BY DEF TypeOK, Locals
<1>2. ASSUME NEW p \in Procs, \/ Return(p)
                              \/ \E pc : Goto(p, pc)
                              \/ \E pc, a, n, i : Begin(p, Enter(pc, a, n, i))
                              \/ UNCHANGED proc
      PROVE  \A q \in Procs : Stripped(q)
  <2>1. CASE Return(p)
    BY <1>1, <2>1 DEF Return, Idle, Enter
  <2>2. ASSUME NEW pc, Goto(p, pc)
        PROVE  \A q \in Procs : Stripped(q)
    BY <1>1, <2>2 DEF Goto, Frames
  <2>3. ASSUME NEW pc, NEW a, NEW n, NEW i, Begin(p, Enter(pc, a, n, i))
        PROVE  \A q \in Procs : Stripped(q)
    BY <1>1, <2>3 DEF Begin, Enter
  <2>4. QED
    BY <1>2, <2>1, <2>2, <2>3
<1>3. ASSUME NEW p \in Procs, NEW from \in MessagePC, NEW to, ReadMessage(p, from, to)
      PROVE  \A q \in Procs : Stripped(q)
  <2>1. PICK b \in Reads(proc[p].alert, proc[p].msg) :
          proc' = [proc EXCEPT ![p].pc = to, ![p].blocks = Strip(b)]
    BY <1>3 DEF ReadMessage
  <2>2. blocks[proc[p].alert][proc[p].msg] \in SUBSET Sections
    BY <1>3, ProcType DEF ReadMessage, At, TypeOK
  <2>3. b \in SUBSET Sections
    BY <2>1, <2>2 DEF Reads
  <2>4. proc'[p].blocks = Strip(b)
    BY <1>1, <2>1 DEF Frames
  <2>5. \A q \in Procs \ {p} : proc'[q] = proc[q]
    BY <1>1, <2>1
  <2>6. QED
    BY <2>3, <2>4, <2>5
<1>4. ASSUME NEW p \in Procs, NEW x \in Additions, proc[p].pc \in UpdatePC,
             "resolved" \in x => At(p, "rs_update"),
             UpdateMessage(proc[p].alert, proc[p].msg, proc[p].blocks \union x),
             proc'[p].pc \notin UpdatePC, UNCHANGED posted
      PROVE  UNCHANGED <<blocks, posted>> \/ Rewrites(p, x)
  BY <1>4 DEF UpdateMessage, Rewrites
<1>5. CASE UNCHANGED vars
  BY <1>5 DEF vars
<1>6. ASSUME NEW p \in Procs, Advance(p)
      PROVE  /\ \A q \in Procs : Stripped(q)
             /\ \/ UNCHANGED <<blocks, posted>>
                \/ \E a \in Alerts, n \in Msgs : Posts(a, n)
                \/ \E x \in Additions : Rewrites(p, x)
  <2>1. CASE AlarmPost(p)
    <3> DEFINE a == proc[p].alert
               n == posted[a] + 1
    <3>1. CASE /\ n \in Msgs
               /\ Posts(a, n)
               /\ proc' = [proc EXCEPT ![p].pc = "alarm_put", ![p].msg = n]
      <4>1. \A q \in Procs : proc'[q].blocks = proc[q].blocks
        BY <1>1, <3>1 DEF Frames
      <4>2. a \in Alerts
        BY ProcType
      <4>3. QED
        BY <3>1, <4>1, <4>2
    <3>2. CASE Goto(p, "alarm_put") /\ UNCHANGED <<posted, blocks>>
      BY <1>2, <3>2
    <3>3. QED
      BY <2>1, <3>1, <3>2 DEF AlarmPost, Posts
  <2>2. CASE \/ AlarmPut(p) \/ OkSave(p) \/ OkDelete(p) \/ AnalyzeInvoke(p)
             \/ SaveNodeGet(p) \/ SaveNodePut(p) \/ ReportCause(p)
             \/ ResolveSave(p) \/ ResolveDelete(p)
    BY <1>2, <2>2 DEF AlarmPut, OkSave, OkDelete, AnalyzeInvoke, SaveNodeGet,
                      SaveNodePut, ReportCause, ResolveSave, ResolveDelete
  <2>3. CASE AnalyzeRead(p) \/ ReportRead(p) \/ ResolveRead(p)
    <3>1. \A q \in Procs : Stripped(q)
      BY <1>3, <2>3 DEF AnalyzeRead, ReportRead, ResolveRead,
                        MessagePC, AnalyzePC, WorkerPC, ResolvePC
    <3>2. UNCHANGED <<blocks, posted>>
      BY <2>3 DEF AnalyzeRead, ReportRead, ResolveRead, ReadMessage
    <3>3. QED
      BY <3>1, <3>2
  <2>4. CASE AnalyzeUpdate(p)
    <3>1. \A q \in Procs : Stripped(q)
      BY <1>2, <2>4 DEF AnalyzeUpdate
    <3>2. /\ {"status"} \in Additions
          /\ proc[p].pc \in UpdatePC
          /\ "resolved" \in {"status"} => At(p, "rs_update")
          /\ proc'[p].pc \notin UpdatePC
      BY <1>1, <2>4 DEF AnalyzeUpdate, At, Additions, UpdatePC, Goto, Frames
    <3>3. UNCHANGED <<blocks, posted>> \/ Rewrites(p, {"status"})
      BY <1>4, <2>4, <3>2 DEF AnalyzeUpdate
    <3>4. QED
      BY <3>1, <3>2, <3>3
  <2>5. CASE ReportUpdate(p)
    <3>1. \A q \in Procs : Stripped(q)
      BY <1>2, <2>5 DEF ReportUpdate
    <3>2. /\ AnalysisBlocks \in Additions
          /\ proc[p].pc \in UpdatePC
          /\ "resolved" \in AnalysisBlocks => At(p, "rs_update")
          /\ proc'[p].pc \notin UpdatePC
      BY <1>1, <2>5 DEF ReportUpdate, At, Additions, UpdatePC, Goto, Return, Idle, Enter, Frames, AnalysisBlocks
    <3>3. UNCHANGED <<blocks, posted>> \/ Rewrites(p, AnalysisBlocks)
      BY <1>4, <2>5, <3>2 DEF ReportUpdate
    <3>4. QED
      BY <3>1, <3>2, <3>3
  <2>6. CASE ResolveUpdate(p)
    <3>1. \A q \in Procs : Stripped(q)
      BY <1>2, <2>6 DEF ResolveUpdate
    <3>2. /\ ResolvedBlocks \in Additions
          /\ proc[p].pc \in UpdatePC
          /\ "resolved" \in ResolvedBlocks => At(p, "rs_update")
          /\ proc'[p].pc \notin UpdatePC
      BY <1>1, <2>6 DEF ResolveUpdate, At, Additions, UpdatePC, Return, Idle, Enter
    <3>3. UNCHANGED <<blocks, posted>> \/ Rewrites(p, ResolvedBlocks)
      BY <1>4, <2>6, <3>2 DEF ResolveUpdate
    <3>4. QED
      BY <3>1, <3>2, <3>3
  <2>7. CASE Analyze(p) \/ ResolveGet(p)
    <3>1. \A q \in Procs : proc'[q].blocks = proc[q].blocks
      BY <1>1, <2>7 DEF Analyze, ResolveGet, Frames
    <3>2. UNCHANGED <<blocks, posted>>
      BY <2>7 DEF Analyze, ResolveGet
    <3>3. QED
      BY <3>1, <3>2
  <2>8. QED
    BY <1>6, <2>1, <2>2, <2>3, <2>4, <2>5, <2>6, <2>7 DEF Advance
<1>7. ASSUME NEW p \in Procs, Start(p) \/ Arrive(p) \/ Fail(p)
      PROVE  UNCHANGED <<blocks, posted>> /\ \A q \in Procs : Stripped(q)
  <2>1. CASE Start(p)
    BY <1>2, <2>1 DEF Start, StartAnalysis
  <2>2. CASE Arrive(p)
    BY <1>2, <2>2 DEF Arrive, AlarmSkip, AlarmCheck, OkGet, AnalyzeClick, SubmitModal
  <2>3. CASE Fail(p)
    BY <1>2, <2>3 DEF Fail, AnalyzeRaise, ReportFallback, Crash
  <2>4. QED
    BY <1>7, <2>1, <2>2, <2>3
<1>8. ASSUME NEW a \in Alerts, Expire(a) \/ \E n \in Msgs : OpenModal(a, n)
      PROVE  UNCHANGED <<blocks, posted, proc>>
  BY <1>8 DEF Expire, OpenModal
<1>9. CASE Next
  BY <1>6, <1>7, <1>8, <1>9 DEF Next
<1>10. QED
  BY <1>5, <1>9

\* A step keeps what is in hand stripped, and the shape with it.
LEMMA ShapeStep == ShapeInv /\ [Next]_vars => ShapeInv'
<1> SUFFICES ASSUME TypeOK, MessageShape, InHandStripped, [Next]_vars
             PROVE  ShapeInv'
  BY DEF ShapeInv
<1>1. TypeOK'
  BY StepTypes
<1>2. InHandStripped'
  BY MessageSteps DEF InHandStripped, Strip
<1>3. MessageShape'
  <2> DEFINE Shape(b) == /\ "analyze" \in b => b = SimpleMessage
                         /\ "status" \in b => b \intersect Buttons = {}
                         /\ "resolve" \in b => "analyze" \in b \/ "report" \in b
  <2>1. \A a \in Alerts : \A n \in Msgs : Shape(blocks[a][n])
    BY DEF MessageShape
  <2>2. Shape(SimpleMessage)
    BY DEF SimpleMessage, Buttons
  <2>3. ASSUME NEW p \in Procs, NEW x \in Additions
        PROVE  Shape(proc[p].blocks \union x)
    BY DEF InHandStripped, Additions, AnalysisBlocks, ResolvedBlocks, Buttons
  <2>4. ASSUME NEW a \in Alerts, NEW n \in Msgs, NEW b, Shape(b),
               blocks' = [blocks EXCEPT ![a][n] = b]
        PROVE  \A c \in Alerts : \A m \in Msgs : Shape(blocks'[c][m])
    <3>1. \A c \in Alerts : \A m \in Msgs :
            blocks'[c][m] = IF c = a /\ m = n THEN b ELSE blocks[c][m]
      BY <2>4 DEF TypeOK
    <3>2. QED
      BY <2>1, <2>4, <3>1
  <2>5. \A c \in Alerts : \A m \in Msgs : Shape(blocks'[c][m])
    <3>1. CASE UNCHANGED blocks
      BY <2>1, <3>1
    <3>2. CASE \E a \in Alerts, n \in Msgs : Posts(a, n)
      BY <2>2, <2>4, <3>2 DEF Posts
    <3>3. CASE \E p \in Procs, x \in Additions : Rewrites(p, x)
      <4>1. PICK p \in Procs, x \in Additions : Rewrites(p, x)
        BY <3>3
      <4>2. proc[p].alert \in Alerts /\ proc[p].msg \in Msgs
        BY <4>1, ProcType DEF Rewrites, UpdatePC, MessagePC, AnalyzePC, WorkerPC, ResolvePC
      <4>3. QED
        BY <2>3, <2>4, <4>1, <4>2 DEF Rewrites
    <3>4. QED
      BY <3>1, <3>2, <3>3, MessageSteps
  <2>6. QED
    BY <2>5 DEF MessageShape
<1>4. QED
  BY <1>1, <1>2, <1>3 DEF ShapeInv

\* No overlap of handlers and no failure of a call shows a reader a message
\* whose buttons, status and report contradict each other.
THEOREM ShapeCorrect == Spec => []MessageShape
<1>1. Init => ShapeInv
  <2> SUFFICES ASSUME Init
               PROVE  ShapeInv
    OBVIOUS
  <2>1. TypeOK
    BY InitTypes
  <2>2. MessageShape
    BY DEF Init, MessageShape
  <2>3. InHandStripped
    BY DEF Init, InHandStripped, Idle, Enter
  <2>4. QED
    BY <2>1, <2>2, <2>3 DEF ShapeInv
<1>2. ShapeInv => MessageShape
  BY DEF ShapeInv
<1>3. QED
  BY <1>1, <1>2, ShapeStep, PTL DEF Spec

=============================================================================
