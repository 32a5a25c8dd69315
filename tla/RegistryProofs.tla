--------------------------- MODULE RegistryProofs ---------------------------
(***************************************************************************)
(* The table of ongoing incidents keeps the promise of OngoingRegistry, if *)
(* its reads neither fail nor miss the last write.  Every other call may   *)
(* fail, and any invocation may die, run twice or overlap with any other.  *)
(***************************************************************************)
EXTENDS IncidentProofs

\* The alert has an entry, or had one: what an analysis starts from.
Known(a) == item[a] # Absent \/ ended[a] # {}

\* Whoever analyses an alert was asked to by a handler that saw its entry; and
\* who is about to store an analysis saw that the entry is gone.
AnalysedWasKnown ==
  /\ \A a \in Alerts : \A n \in Msgs : jobs[a][n] > 0 => Known(a)
  /\ \A p \in Procs : proc[p].pc \in AnalyzePC \union WorkerPC => Known(proc[p].alert)
  /\ \A p \in Procs : proc[p].pc = "ms_put" => ended[proc[p].alert] # {}

LateInv == TypeOK /\ LateEntryAfterClose /\ AnalysedWasKnown

\* A step of the table: nothing, a notice's entry, an analysis' entry, a root
\* cause, or a removal.
TableStep(a) ==
  \/ UNCHANGED <<item, ended>>
  \/ /\ item' = [item EXCEPT ![a] = [kind |-> "sns", ts |-> item'[a].ts, rc |-> 0]]
     /\ UNCHANGED ended
  \/ /\ ended[a] # {}
     /\ item' = [item EXCEPT ![a] = item'[a]]
     /\ item'[a].kind = "analysis"
     /\ UNCHANGED ended
  \/ /\ Known(a)
     /\ \E n \in Refs : item' = [item EXCEPT ![a] = WithCause(item[a], n)]
     /\ UNCHANGED ended
  \/ \E how \in {"expired", "deleted"} : Remove(a, how)

\* Every step of the system is such a step of one alert's entry.
LEMMA TableSteps ==
  ASSUME LateInv, [Next]_vars
  PROVE  \E a \in Alerts : TableStep(a)
<1>1. TypeOK /\ AnalysedWasKnown
  BY DEF LateInv
<1>2. PICK d \in Alerts : TRUE
  BY AlertsAssumption
<1>3. ASSUME UNCHANGED <<item, ended>>
      PROVE  TableStep(d)
  BY <1>3 DEF TableStep
<1>4. ASSUME NEW p \in Procs, AlarmPut(p)
      PROVE  TableStep(proc[p].alert)
  <2>1. item \in [Alerts -> Items] /\ proc[p].alert \in Alerts
    BY <1>1, ProcType DEF TypeOK
  <2>2. QED
    BY <1>4, <2>1 DEF AlarmPut, PutItem, Write, TableStep
<1>5. ASSUME NEW p \in Procs, SaveNodePut(p)
      PROVE  TableStep(proc[p].alert)
  <2>1. item \in [Alerts -> Items] /\ proc[p].alert \in Alerts
    BY <1>1, ProcType DEF TypeOK
  <2>2. ended[proc[p].alert] # {}
    BY <1>1, <1>5 DEF AnalysedWasKnown, SaveNodePut, At
  <2>3. QED
    BY <1>5, <2>1, <2>2 DEF SaveNodePut, PutItem, Write, TableStep
<1>6. ASSUME NEW p \in Procs, ReportCause(p)
      PROVE  TableStep(proc[p].alert)
  <2>1. proc[p].alert \in Alerts /\ proc[p].msg \in Refs
    BY <1>1, ProcType
  <2>2. Known(proc[p].alert)
    BY <1>1, <1>6 DEF AnalysedWasKnown, ReportCause, At, WorkerPC
  <2>3. QED
    BY <1>6, <2>1, <2>2 DEF ReportCause, UpdateCause, Write, TableStep
<1>7. ASSUME NEW p \in Procs, OkDelete(p) \/ ResolveDelete(p)
      PROVE  TableStep(proc[p].alert)
  BY <1>7 DEF OkDelete, ResolveDelete, DeleteItem, TableStep
<1>8. ASSUME NEW a \in Alerts, Expire(a)
      PROVE  TableStep(a)
  BY <1>8 DEF Expire, TableStep
<1>9. ASSUME NEW p \in Procs,
             \/ AlarmPost(p) \/ OkSave(p)
             \/ AnalyzeRead(p) \/ AnalyzeUpdate(p) \/ AnalyzeInvoke(p)
             \/ Analyze(p) \/ SaveNodeGet(p) \/ ReportRead(p) \/ ReportUpdate(p)
             \/ ResolveGet(p) \/ ResolveSave(p) \/ ResolveRead(p) \/ ResolveUpdate(p)
             \/ Start(p) \/ Arrive(p) \/ Fail(p)
      PROVE  UNCHANGED <<item, ended>>
  <2>1. CASE Start(p) \/ Arrive(p) \/ Fail(p)
    BY <2>1 DEF Start, StartAnalysis, Arrive, AlarmSkip, AlarmCheck, OkGet,
                AnalyzeClick, SubmitModal, Fail, AnalyzeRaise, ReportFallback, Crash
  <2>2. CASE AlarmPost(p) \/ OkSave(p) \/ AnalyzeRead(p) \/ AnalyzeUpdate(p) \/ AnalyzeInvoke(p)
    BY <2>2 DEF AlarmPost, OkSave, AnalyzeRead, AnalyzeUpdate, AnalyzeInvoke, ReadMessage
  <2>3. CASE Analyze(p) \/ SaveNodeGet(p) \/ ReportRead(p) \/ ReportUpdate(p)
    BY <2>3 DEF Analyze, SaveNodeGet, ReportRead, ReportUpdate, ReadMessage
  <2>4. CASE ResolveGet(p) \/ ResolveSave(p) \/ ResolveRead(p) \/ ResolveUpdate(p)
    BY <2>4 DEF ResolveGet, ResolveSave, ResolveRead, ResolveUpdate, ReadMessage
  <2>5. QED
    BY <1>9, <2>1, <2>2, <2>3, <2>4
<1>10. ASSUME NEW p \in Procs
       PROVE  proc[p].alert \in Alerts
  BY <1>1, ProcType
<1>11. CASE UNCHANGED vars
  BY <1>2, <1>3, <1>11 DEF vars
<1>12. ASSUME NEW p \in Procs, Advance(p) \/ Start(p) \/ Arrive(p) \/ Fail(p)
       PROVE  \E a \in Alerts : TableStep(a)
  BY <1>2, <1>3, <1>4, <1>5, <1>6, <1>7, <1>9, <1>10, <1>12 DEF Advance
<1>13. ASSUME NEW a \in Alerts, NEW n \in Msgs, OpenModal(a, n)
       PROVE  UNCHANGED <<item, ended>>
  BY <1>13 DEF OpenModal
<1>14. CASE Next
  BY <1>2, <1>3, <1>8, <1>12, <1>13, <1>14 DEF Next
<1>15. QED
  BY <1>11, <1>14

\* What is known stays known, and what was removed once stays removed once.
LEMMA KnownStays ==
  ASSUME TypeOK, NEW a \in Alerts, TableStep(a), NEW b \in Alerts
  PROVE  /\ Known(b) => Known(b)'
         /\ ended[b] # {} => ended'[b] # {}
<1>1. item \in [Alerts -> Items] /\ item[a] \in Items
  BY DEF TypeOK
<1>2. ended \in [Alerts -> SUBSET (Refs \X {"expired", "deleted"})]
  BY DEF TypeOK
<1>3. CASE UNCHANGED <<item, ended>>
  BY <1>3 DEF Known
<1>4. CASE /\ item' = [item EXCEPT ![a] = item'[a]]
           /\ item'[a].kind # "absent"
           /\ UNCHANGED ended
  BY <1>1, <1>4 DEF Known, Absent
<1>5. ASSUME NEW n \in Refs
      PROVE  WithCause(item[a], n).kind # "absent"
  BY <1>1 DEF WithCause, Items, Kinds, Absent
<1>6. CASE \E how \in {"expired", "deleted"} : Remove(a, how)
  <2>1. item' = [item EXCEPT ![a] = Absent]
    BY <1>6 DEF Remove, Write
  <2>2. CASE item[a] = Absent
    BY <1>1, <1>6, <2>1, <2>2 DEF Remove, Known, Absent
  <2>3. CASE item[a] # Absent
    <3>1. PICK how \in {"expired", "deleted"} :
            ended' = [ended EXCEPT ![a] = @ \union {<<item[a].ts, how>>}]
      BY <1>1, <1>6, <2>3, ItemFields DEF Remove
    <3>2. ended'[a] # {}
      BY <1>2, <3>1
    <3>3. b # a => ended'[b] = ended[b] /\ item'[b] = item[b]
      BY <1>1, <1>2, <2>1, <3>1
    <3>4. QED
      BY <3>2, <3>3 DEF Known
  <2>4. QED
    BY <2>2, <2>3
<1>7. TableStep(a) => \/ UNCHANGED <<item, ended>>
                      \/ /\ item' = [item EXCEPT ![a] = item'[a]]
                         /\ item'[a].kind # "absent"
                         /\ UNCHANGED ended
                      \/ \E how \in {"expired", "deleted"} : Remove(a, how)
  BY <1>1, <1>5 DEF TableStep
<1>8. QED
  BY <1>3, <1>4, <1>6, <1>7

-----------------------------------------------------------------------------
(* The invariant behind the promise.                                       *)

\* get_item neither fails nor returns the entry before last.
ReliableReads == "get" \notin Faults /\ "stale" \notin Faults

\* With such reads a step keeps what is known of the analysed alerts.
LEMMA AnalysedStep ==
  ASSUME ReliableReads, LateInv, [Next]_vars
  PROVE  AnalysedWasKnown'
<1>1. TypeOK /\ AnalysedWasKnown /\ proc \in [Procs -> Locals]
  BY DEF LateInv, TypeOK
<1>2. \A q \in Procs : proc[q] \in Frames /\ proc[q].alert \in Alerts
  BY <1>1, ProcType DEF TypeOK, Locals
<1>3. \A b \in Alerts : /\ Known(b) => Known(b)'
                        /\ ended[b] # {} => ended'[b] # {}
  BY <1>1, TableSteps, KnownStays
<1>4. \A b \in Alerts : Gets(b) = {item[b]}
  BY DEF Gets, ReliableReads
<1> DEFINE ProcKnown(q) ==
             /\ proc'[q].pc \in AnalyzePC \union WorkerPC => Known(proc'[q].alert)
             /\ proc'[q].pc = "ms_put" => ended[proc'[q].alert] # {}
           JobsKnown == \A a \in Alerts : \A n \in Msgs : jobs'[a][n] > 0 => Known(a)
<1>5. ASSUME \A q \in Procs : ProcKnown(q), JobsKnown
      PROVE  AnalysedWasKnown'
  <2>1. \A q \in Procs : proc'[q].alert \in Alerts
    BY <1>1, StepTypes DEF TypeOK, Locals, Frames
  <2>2. QED
    BY <1>3, <1>5, <2>1 DEF AnalysedWasKnown
<1>6. UNCHANGED jobs => JobsKnown
  BY <1>1 DEF AnalysedWasKnown
<1>7. UNCHANGED proc => \A q \in Procs : ProcKnown(q)
  BY <1>1 DEF AnalysedWasKnown
<1>8. ASSUME NEW p \in Procs, proc[p].pc \in AnalyzePC \union WorkerPC,
             MaybeRetry(proc[p].alert, proc[p].msg)
      PROVE  JobsKnown
  <2>1. Known(proc[p].alert)
    BY <1>1, <1>8 DEF AnalysedWasKnown
  <2>2. QED
    BY <1>1, <1>2, <1>8, <2>1 DEF MaybeRetry, AnalysedWasKnown, TypeOK
<1>9. ASSUME NEW p \in Procs, Return(p)
      PROVE  \A q \in Procs : ProcKnown(q)
  BY <1>1, <1>9, IdleType DEF Return, AnalysedWasKnown, AnalyzePC, WorkerPC
<1>10. ASSUME NEW p \in Procs, NEW pc, Goto(p, pc),
              \/ pc \notin AnalyzePC \union WorkerPC
              \/ proc[p].pc \in AnalyzePC \union WorkerPC /\ pc # "ms_put"
       PROVE  \A q \in Procs : ProcKnown(q)
  <2>1. proc'[p].pc = pc /\ proc'[p].alert = proc[p].alert
    BY <1>1, <1>2, <1>10 DEF Goto, Frames
  <2>2. \A q \in Procs \ {p} : proc'[q] = proc[q]
    BY <1>1, <1>10 DEF Goto
  <2>3. QED
    BY <1>1, <1>10, <2>1, <2>2 DEF AnalysedWasKnown, AnalyzePC, WorkerPC
<1>11. ASSUME NEW p \in Procs, NEW pc, NEW a \in Alerts, NEW n, NEW i,
              Begin(p, Enter(pc, a, n, i)), pc # "ms_put",
              pc \in AnalyzePC \union WorkerPC => Known(a)
       PROVE  \A q \in Procs : ProcKnown(q)
  <2>1. proc'[p].pc = pc /\ proc'[p].alert = a
    BY <1>1, <1>11 DEF Begin, Enter
  <2>2. \A q \in Procs \ {p} : proc'[q] = proc[q]
    BY <1>1, <1>11 DEF Begin
  <2>3. QED
    BY <1>1, <1>11, <2>1, <2>2 DEF AnalysedWasKnown
<1>12. ASSUME NEW p \in Procs, NEW from, NEW to, ReadMessage(p, from, to),
              \/ to \notin AnalyzePC \union WorkerPC
              \/ from \in AnalyzePC \union WorkerPC /\ to # "ms_put"
       PROVE  \A q \in Procs : ProcKnown(q)
  <2>1. proc[p].pc = from /\ proc'[p].pc = to /\ proc'[p].alert = proc[p].alert
    BY <1>1, <1>2, <1>12 DEF ReadMessage, At, Frames
  <2>2. \A q \in Procs \ {p} : proc'[q] = proc[q]
    BY <1>1, <1>12 DEF ReadMessage
  <2>3. QED
    BY <1>1, <1>12, <2>1, <2>2 DEF AnalysedWasKnown, AnalyzePC, WorkerPC
<1>13. CASE UNCHANGED vars
  BY <1>5, <1>6, <1>7, <1>13 DEF vars
<1>14. ASSUME NEW p \in Procs, Advance(p)
       PROVE  AnalysedWasKnown'
  <2> USE DEF AnalyzePC, WorkerPC
  <2>1. CASE AlarmPost(p)
    <3>1. /\ proc'[p].pc = "alarm_put"
          /\ proc'[p].alert = proc[p].alert
          /\ \A q \in Procs \ {p} : proc'[q] = proc[q]
      BY <1>1, <1>2, <2>1 DEF AlarmPost, Goto, Frames
    <3>2. \A q \in Procs : ProcKnown(q)
      BY <1>1, <3>1 DEF AnalysedWasKnown
    <3>3. QED
      BY <1>5, <1>6, <2>1, <3>2 DEF AlarmPost
  <2>2. CASE AlarmPut(p) \/ OkDelete(p) \/ ReportCause(p) \/ ResolveUpdate(p)
    BY <1>5, <1>6, <1>9, <2>2 DEF AlarmPut, OkDelete, ReportCause, ResolveUpdate
  <2>3. CASE OkSave(p) \/ ResolveSave(p) \/ ResolveDelete(p)
    BY <1>5, <1>6, <1>10, <2>3 DEF OkSave, ResolveSave, ResolveDelete
  <2>4. CASE AnalyzeUpdate(p) \/ SaveNodePut(p)
    BY <1>5, <1>6, <1>10, <2>4 DEF AnalyzeUpdate, SaveNodePut, At
  <2>5. CASE AnalyzeRead(p) \/ ReportRead(p) \/ ResolveRead(p)
    <3>1. \A q \in Procs : ProcKnown(q)
      BY <1>12, <2>5 DEF AnalyzeRead, ReportRead, ResolveRead
    <3>2. UNCHANGED jobs
      BY <2>5 DEF AnalyzeRead, ReportRead, ResolveRead, ReadMessage
    <3>3. QED
      BY <1>5, <1>6, <3>1, <3>2
  <2>6. CASE AnalyzeInvoke(p)
    <3>1. Known(proc[p].alert)
      BY <1>1, <2>6 DEF AnalysedWasKnown, AnalyzeInvoke, At
    <3>2. JobsKnown
      BY <1>1, <1>2, <2>6, <3>1 DEF AnalyzeInvoke, AnalysedWasKnown, TypeOK
    <3>3. QED
      BY <1>5, <1>9, <2>6, <3>2 DEF AnalyzeInvoke
  <2>7. CASE Analyze(p)
    <3>1. /\ proc[p].pc = "rca"
          /\ proc'[p].pc = "ms_get"
          /\ proc'[p].alert = proc[p].alert
          /\ \A q \in Procs \ {p} : proc'[q] = proc[q]
      BY <1>1, <1>2, <2>7 DEF Analyze, At, Frames
    <3>2. \A q \in Procs : ProcKnown(q)
      BY <1>1, <3>1 DEF AnalysedWasKnown
    <3>3. QED
      BY <1>5, <1>6, <2>7, <3>2 DEF Analyze
  <2>8. CASE SaveNodeGet(p)
    <3>1. Known(proc[p].alert)
      BY <1>1, <2>8 DEF AnalysedWasKnown, SaveNodeGet, At
    <3>2. \A q \in Procs \ {p} : proc'[q] = proc[q]
      BY <1>1, <2>8 DEF SaveNodeGet, Goto
    <3>3. /\ proc'[p].alert = proc[p].alert
          /\ proc'[p].pc = IF item[proc[p].alert] = Absent THEN "ms_put" ELSE "rp_read"
      BY <1>1, <1>2, <1>4, <2>8 DEF SaveNodeGet, Goto, Frames
    <3>4. ProcKnown(p)
      BY <3>1, <3>3 DEF Known
    <3>5. \A q \in Procs : ProcKnown(q)
      BY <1>1, <3>2, <3>4 DEF AnalysedWasKnown
    <3>6. QED
      BY <1>5, <1>6, <2>8, <3>5 DEF SaveNodeGet
  <2>9. CASE ReportUpdate(p)
    <3>1. \A q \in Procs : ProcKnown(q)
      BY <1>9, <1>10, <2>9 DEF ReportUpdate, At
    <3>2. QED
      BY <1>5, <1>6, <2>9, <3>1 DEF ReportUpdate
  <2>10. CASE ResolveGet(p)
    <3>1. /\ proc'[p].pc = "rs_save"
          /\ \A q \in Procs \ {p} : proc'[q] = proc[q]
      BY <1>1, <1>2, <2>10 DEF ResolveGet, Frames
    <3>2. \A q \in Procs : ProcKnown(q)
      BY <1>1, <3>1 DEF AnalysedWasKnown
    <3>3. QED
      BY <1>5, <1>6, <2>10, <3>2 DEF ResolveGet
  <2>11. QED
    BY <1>14, <2>1, <2>2, <2>3, <2>4, <2>5, <2>6, <2>7, <2>8, <2>9, <2>10 DEF Advance
<1>15. ASSUME NEW p \in Procs, NEW a \in Alerts, NEW n \in Msgs, StartAnalysis(p, a, n)
       PROVE  AnalysedWasKnown'
  <2>1. Known(a)
    BY <1>1, <1>15 DEF StartAnalysis, AnalysedWasKnown
  <2>2. \A q \in Procs : ProcKnown(q)
    BY <1>11, <1>15, <2>1 DEF StartAnalysis
  <2>3. JobsKnown
    BY <1>1, <1>15, <2>1 DEF StartAnalysis, AnalysedWasKnown, TypeOK
  <2>4. QED
    BY <1>5, <2>2, <2>3
<1>16. ASSUME NEW p \in Procs, Arrive(p)
       PROVE  AnalysedWasKnown'
  <2>1. UNCHANGED jobs
    BY <1>16 DEF Arrive, AlarmSkip, AlarmCheck, OkGet, AnalyzeClick, SubmitModal
  <2>2. PICK a \in Alerts :
          \/ AlarmSkip(p, a) \/ AlarmCheck(p, a) \/ OkGet(p, a)
          \/ \E n \in Msgs : AnalyzeClick(p, a, n) \/ SubmitModal(p, a, n)
    BY <1>16 DEF Arrive
  <2>3. ASSUME AlarmSkip(p, a)
        PROVE  \A q \in Procs : ProcKnown(q)
    BY <1>7, <2>3 DEF AlarmSkip
  <2>4. ASSUME AlarmCheck(p, a) \/ OkGet(p, a) \/ \E n \in Msgs : SubmitModal(p, a, n)
        PROVE  \A q \in Procs : ProcKnown(q)
    BY <1>7, <1>11, <2>4 DEF AlarmCheck, OkGet, SubmitModal, AnalyzePC, WorkerPC
  <2>5. ASSUME NEW n \in Msgs, AnalyzeClick(p, a, n)
        PROVE  \A q \in Procs : ProcKnown(q)
    <3>1. CASE item[a] = Absent
      BY <1>4, <1>7, <2>5, <3>1 DEF AnalyzeClick
    <3>2. CASE item[a] # Absent
      BY <1>4, <1>11, <2>5, <3>2 DEF AnalyzeClick, Known
    <3>3. QED
      BY <3>1, <3>2
  <2>6. QED
    BY <1>5, <1>6, <2>1, <2>2, <2>3, <2>4, <2>5
<1>17. ASSUME NEW p \in Procs, Fail(p)
       PROVE  AnalysedWasKnown'
  <2>1. \A q \in Procs : ProcKnown(q)
    BY <1>9, <1>17 DEF Fail, AnalyzeRaise, ReportFallback, Crash
  <2>2. JobsKnown
    BY <1>6, <1>8, <1>17 DEF Fail, AnalyzeRaise, ReportFallback, Crash, At, WorkerPC
  <2>3. QED
    BY <1>5, <2>1, <2>2
<1>18. ASSUME NEW a \in Alerts, Expire(a) \/ \E n \in Msgs : OpenModal(a, n)
       PROVE  AnalysedWasKnown'
  BY <1>5, <1>6, <1>7, <1>18 DEF Expire, OpenModal
<1>19. CASE Next
  BY <1>14, <1>15, <1>16, <1>17, <1>18, <1>19 DEF Next, Start
<1>20. QED
  BY <1>13, <1>19

\* A step adds an entry no notice registered only after a removal.
LEMMA LateStep == ReliableReads /\ LateInv /\ [Next]_vars => LateInv'
<1> SUFFICES ASSUME ReliableReads, LateInv, [Next]_vars
             PROVE  LateInv'
  OBVIOUS
<1>1. TypeOK /\ LateEntryAfterClose /\ item \in [Alerts -> Items]
  BY DEF LateInv, TypeOK
<1>2. PICK a \in Alerts : TableStep(a)
  BY TableSteps
<1>3. \A b \in Alerts : ended[b] # {} => ended'[b] # {}
  BY <1>1, <1>2, KnownStays
<1>4. \A b \in Alerts : \/ item'[b] = item[b]
                        \/ item'[b].kind \in {"sns", "absent"}
                        \/ ended[b] # {}
  <2>1. CASE UNCHANGED <<item, ended>>
    BY <2>1
  <2>2. CASE item' = [item EXCEPT ![a] = [kind |-> "sns", ts |-> item'[a].ts, rc |-> 0]]
    BY <1>1, <2>2
  <2>3. CASE ended[a] # {} /\ item' = [item EXCEPT ![a] = item'[a]]
    BY <1>1, <2>3
  <2>4. ASSUME NEW n \in Refs, Known(a), item' = [item EXCEPT ![a] = WithCause(item[a], n)]
        PROVE  \A b \in Alerts : \/ item'[b] = item[b]
                                 \/ item'[b].kind \in {"sns", "absent"}
                                 \/ ended[b] # {}
    <3>1. \A b \in Alerts \ {a} : item'[b] = item[b]
      BY <1>1, <2>4
    <3>2. CASE item[a] = Absent
      BY <2>4, <3>1, <3>2 DEF Known
    <3>3. CASE item[a] # Absent
      <4>1. item[a] \in [kind : Kinds, ts : Refs, rc : Refs]
        BY <1>1, <3>3 DEF Items
      <4>2. item'[a] = [item[a] EXCEPT !.rc = n]
        BY <1>1, <2>4, <3>3, <4>1, ItemFields DEF WithCause
      <4>3. item'[a].kind = item[a].kind
        BY <4>1, <4>2
      <4>4. item[a].kind \in {"analysis", "bare"} => ended[a] # {}
        BY <1>1 DEF LateEntryAfterClose
      <4>5. QED
        BY <3>1, <4>1, <4>3, <4>4 DEF Kinds
    <3>4. QED
      BY <3>2, <3>3
  <2>5. CASE \E how \in {"expired", "deleted"} : Remove(a, how)
    BY <1>1, <2>5 DEF Remove, Write, Absent
  <2>6. QED
    BY <1>2, <2>1, <2>2, <2>3, <2>4, <2>5 DEF TableStep
<1>5. LateEntryAfterClose'
  BY <1>1, <1>3, <1>4 DEF LateEntryAfterClose
<1>6. QED
  BY <1>1, <1>5, StepTypes, AnalysedStep DEF LateInv

\* At the start no entry, no analysis and no removal.
LEMMA LateInit == Init => LateInv
<1> SUFFICES ASSUME Init
             PROVE  LateInv
  OBVIOUS
<1>1. LateEntryAfterClose
  BY DEF Init, LateEntryAfterClose, Absent
<1>2. AnalysedWasKnown
  <2>1. \A a \in Alerts : \A n \in Msgs : ~(jobs[a][n] > 0)
    BY DEF Init
  <2>2. \A p \in Procs : proc[p].pc = "idle"
    BY IdleType DEF Init
  <2>3. QED
    BY <2>1, <2>2 DEF AnalysedWasKnown, AnalyzePC, WorkerPC
<1>3. QED
  BY <1>1, <1>2, InitTypes DEF LateInv

\* An entry put by memory_save_node, or made by the upsert of a root cause,
\* appears only after an entry of its alert was removed.
THEOREM LateEntry ==
  ASSUME ReliableReads
  PROVE  Spec => []LateEntryAfterClose
<1>1. LateInv /\ [Next]_vars => LateInv'
  BY LateStep
<1>2. LateInv => LateEntryAfterClose
  BY DEF LateInv
<1>3. QED
  BY <1>1, <1>2, LateInit, PTL DEF Spec

-----------------------------------------------------------------------------
(* The table implements the abstract registry.                             *)

\* The state of an entry after each kind of write.
LEMMA StateAfter ==
  /\ StateOf(Absent) = "none"
  /\ \A i \in Items : /\ StateOf(i) \in {"none", "open", "revived", "bare"}
                      /\ StateOf(i) = "none" <=> i = Absent
                      /\ i.kind = "sns" => StateOf(i) = "open"
                      /\ i.kind = "analysis" => StateOf(i) = "revived"
                      /\ i.kind = "bare" => StateOf(i) = "bare"
BY DEF StateOf, Items, Absent, Kinds

\* A root cause creates a bare entry or leaves the state of the entry alone.
LEMMA StateWithCause ==
  ASSUME NEW i \in Items, NEW n \in Refs
  PROVE  StateOf(WithCause(i, n)) = IF i = Absent THEN "bare" ELSE StateOf(i)
<1>1. CASE i = Absent
  BY <1>1 DEF WithCause, Absent, StateOf
<1>2. CASE i \in [kind : Kinds, ts : Refs, rc : Refs]
  <2>1. i.kind # "absent" /\ i # Absent
    BY <1>2 DEF Kinds, Absent
  <2>2. [i EXCEPT !.rc = n].kind = i.kind
    BY <1>2
  <2>3. WithCause(i, n) = [i EXCEPT !.rc = n]
    BY <2>1, <1>2, ItemFields DEF WithCause, Items
  <2>4. WithCause(i, n).kind = i.kind /\ i.kind \in Kinds
    BY <1>2, <2>2, <2>3
  <2>5. QED
    BY <2>1, <2>4 DEF StateOf, Kinds
<1>3. QED
  BY <1>1, <1>2 DEF Items

\* Every step of the system is a step of the registry, or none.
LEMMA RegistryStep ==
  ASSUME ReliableReads, LateInv, [Next]_vars
  PROVE  [Registry!Next]_(Registry!vars)
<1> DEFINE reg == [b \in Alerts |-> StateOf(item[b])]
           closed == [b \in Alerts |-> ended[b] # {}]
<1>1. TypeOK /\ item \in [Alerts -> Items]
  BY DEF LateInv, TypeOK
<1>2. ended \in [Alerts -> SUBSET (Refs \X {"expired", "deleted"})]
  BY <1>1 DEF TypeOK
<1>3. PICK a \in Alerts : TableStep(a)
  BY TableSteps
<1>4. CASE UNCHANGED <<item, ended>>
  BY <1>4 DEF Registry!vars
<1>5. CASE /\ item' = [item EXCEPT ![a] = [kind |-> "sns", ts |-> item'[a].ts, rc |-> 0]]
           /\ UNCHANGED ended
  <2>1. reg' = [reg EXCEPT ![a] = "open"] /\ UNCHANGED closed
    <3>1. StateOf([kind |-> "sns", ts |-> item'[a].ts, rc |-> 0]) = "open"
      BY DEF StateOf
    <3>2. QED
      BY <1>1, <1>5, <3>1
  <2>2. Registry!Open(a)
    BY <2>1 DEF Registry!Open
  <2>3. QED
    BY <2>2 DEF Registry!Next
<1>6. CASE /\ ended[a] # {}
           /\ item' = [item EXCEPT ![a] = item'[a]]
           /\ item'[a].kind = "analysis"
           /\ UNCHANGED ended
  <2>1. StateOf(item'[a]) = "revived"
    BY <1>6 DEF StateOf
  <2>2. reg' = [reg EXCEPT ![a] = "revived"] /\ UNCHANGED closed
    BY <1>1, <1>6, <2>1
  <2>3. Registry!Revive(a)
    BY <1>6, <2>2 DEF Registry!Revive
  <2>4. QED
    BY <2>3 DEF Registry!Next
<1>7. ASSUME Known(a), NEW n \in Refs,
             item' = [item EXCEPT ![a] = WithCause(item[a], n)], UNCHANGED ended
      PROVE  [Registry!Next]_(Registry!vars)
  <2>1. \A b \in Alerts :
          StateOf(item'[b]) = IF b = a /\ item[a] = Absent THEN "bare" ELSE StateOf(item[b])
    BY <1>1, <1>7, StateWithCause
  <2>2. CASE item[a] = Absent
    <3>1. reg' = [reg EXCEPT ![a] = "bare"] /\ UNCHANGED closed
      BY <1>7, <2>1, <2>2
    <3>2. reg[a] = "none" /\ closed[a]
      BY <1>7, <2>2, StateAfter DEF Known
    <3>3. Registry!Scribble(a)
      BY <3>1, <3>2 DEF Registry!Scribble
    <3>4. QED
      BY <3>3 DEF Registry!Next
  <2>3. CASE item[a] # Absent
    <3>1. UNCHANGED <<reg, closed>>
      BY <1>7, <2>1, <2>3
    <3>2. QED
      BY <3>1 DEF Registry!vars
  <2>4. QED
    BY <2>2, <2>3
<1>8. ASSUME NEW how \in {"expired", "deleted"}, Remove(a, how)
      PROVE  [Registry!Next]_(Registry!vars)
  <2>1. item' = [item EXCEPT ![a] = Absent]
    BY <1>8 DEF Remove, Write
  <2>2. CASE item[a] = Absent
    <3>1. UNCHANGED <<item, ended>>
      BY <1>1, <1>8, <2>1, <2>2 DEF Remove, Absent
    <3>2. QED
      BY <3>1 DEF Registry!vars
  <2>3. CASE item[a] # Absent
    <3>1. ended' = [ended EXCEPT ![a] = @ \union {<<item[a].ts, how>>}]
      BY <1>1, <1>8, <2>3, ItemFields DEF Remove
    <3>2. closed' = [closed EXCEPT ![a] = TRUE]
      BY <1>2, <3>1
    <3>3. reg' = [reg EXCEPT ![a] = "none"]
      BY <1>1, <2>1, StateAfter
    <3>4. reg[a] # "none"
      BY <1>1, <2>3, StateAfter
    <3>5. Registry!Close(a)
      BY <3>2, <3>3, <3>4 DEF Registry!Close
    <3>6. QED
      BY <3>5 DEF Registry!Next
  <2>4. QED
    BY <2>2, <2>3
<1>9. QED
  BY <1>3, <1>4, <1>5, <1>6, <1>7, <1>8 DEF TableStep

\* The table of ongoing incidents implements the registry: only a notice opens
\* an incident, and what an analysis leaves there comes after a closing.
THEOREM RegistryCorrect ==
  ASSUME ReliableReads
  PROVE  Spec => RegistrySpec
<1>1. Init => Registry!Init
  BY StateAfter DEF Init, Registry!Init
<1>2. LateInv /\ [Next]_vars => LateInv'
  BY LateStep
<1>3. LateInv /\ [Next]_vars => [Registry!Next]_(Registry!vars)
  BY RegistryStep
<1>4. QED
  BY <1>1, <1>2, <1>3, LateInit, PTL DEF Spec, RegistrySpec, Registry!Spec

=============================================================================
