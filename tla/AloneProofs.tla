---------------------------- MODULE AloneProofs ----------------------------
(***************************************************************************)
(* What the alert's handlers keep when they do not get in each other's     *)
(* way.  Each theorem says which invocations must not overlap with which   *)
(* others, and which calls must not fail; nothing else is asked of the     *)
(* schedule, and any number of invocations may be in progress.             *)
(***************************************************************************)
EXTENDS RecordProofs

\* get_item does not fail and sees the last write.
ReliableReads == "get" \notin Faults /\ "stale" \notin Faults

-----------------------------------------------------------------------------
(* What a step does to one alert and to one invocation.                    *)

Acts(p) == Advance(p) \/ Start(p) \/ Arrive(p) \/ Fail(p)

\* The handlers that close an incident, from what they saw of it on.
SavePC == {"ok_save", "rs_save"}
RemovePC == {"ok_delete", "rs_delete"}
ClosePC == SavePC \union RemovePC

\* What becomes of the entry of a: nothing, or it expires, or p deletes it, or p
\* writes it and goes on.
EntryKept(a) == item'[a] = item[a] /\ ended'[a] = ended[a]
EntryRemoved(a, how) ==
  /\ item[a] # Absent
  /\ item'[a] = Absent
  /\ ended'[a] = ended[a] \union {<<item[a].ts, how>>}
EntryDeleted(p) == proc[p].pc \in RemovePC /\ EntryRemoved(proc[p].alert, "deleted")
EntryWritten(p) ==
  /\ \/ /\ proc[p].pc \in {"alarm_put", "ms_put"}
        /\ item'[proc[p].alert].ts = proc[p].msg
        /\ item'[proc[p].alert].rc \in {0, proc[p].msg}
     \/ /\ proc[p].pc = "rp_cause"
        /\ item'[proc[p].alert] = WithCause(item[proc[p].alert], proc[p].msg)
  /\ ended'[proc[p].alert] = ended[proc[p].alert]
  /\ proc'[p].pc \in {"idle", "rp_read"}

\* p saves a record of what it saw.
Saves(p) ==
  /\ proc[p].pc \in SavePC
  /\ \E by \in {"auto", "human"} :
       hist'[proc[p].alert] = Append(hist[proc[p].alert],
         [by |-> by, of |-> proc[p].seen.ts, rc |-> proc[p].seen.rc])

\* p posts the next message.
Announces(p) ==
  /\ proc[p].pc = "alarm_post"
  /\ posted'[proc[p].alert] = posted[proc[p].alert] + 1
  /\ proc'[p].pc = "alarm_put"
  /\ proc'[p].alert = proc[p].alert
  /\ proc'[p].msg = posted'[proc[p].alert]

\* An invocation that stays as it is does not act.
LEMMA ActsAlone ==
  ASSUME TypeOK, [Next]_vars, NEW q \in Procs
  PROVE  proc'[q] = proc[q] \/ Acts(q)
<1>1. proc \in [Procs -> Locals]
  BY DEF TypeOK
<1>2. ASSUME NEW p \in Procs, p # q, Acts(p)
      PROVE  proc'[q] = proc[q]
  <2> USE DEF Begin, Return, Goto
  <2>1. CASE \/ AlarmPost(p) \/ AlarmPut(p) \/ OkSave(p) \/ OkDelete(p)
             \/ AnalyzeRead(p) \/ AnalyzeUpdate(p) \/ AnalyzeInvoke(p)
    BY <1>1, <1>2, <2>1 DEF AlarmPost, AlarmPut, OkSave, OkDelete, AnalyzeRead, AnalyzeUpdate,
                            AnalyzeInvoke, ReadMessage
  <2>2. CASE \/ Analyze(p) \/ SaveNodeGet(p) \/ SaveNodePut(p)
             \/ ReportRead(p) \/ ReportUpdate(p) \/ ReportCause(p)
    BY <1>1, <1>2, <2>2 DEF Analyze, SaveNodeGet, SaveNodePut, ReportRead, ReportUpdate,
                            ReportCause, ReadMessage
  <2>3. CASE \/ ResolveGet(p) \/ ResolveSave(p) \/ ResolveDelete(p)
             \/ ResolveRead(p) \/ ResolveUpdate(p)
    BY <1>1, <1>2, <2>3 DEF ResolveGet, ResolveSave, ResolveDelete, ResolveRead,
                            ResolveUpdate, ReadMessage
  <2>4. CASE Start(p) \/ Fail(p)
    BY <1>1, <1>2, <2>4 DEF Start, StartAnalysis, Fail, AnalyzeRaise, ReportFallback, Crash
  <2>5. CASE Arrive(p)
    BY <1>1, <1>2, <2>5 DEF Arrive, AlarmSkip, AlarmCheck, OkGet, AnalyzeClick, SubmitModal
  <2>6. QED
    BY <1>2, <2>1, <2>2, <2>3, <2>4, <2>5 DEF Acts, Advance
<1>3. CASE UNCHANGED vars
  BY <1>3 DEF vars
<1>4. CASE \E a \in Alerts : Expire(a) \/ \E n \in Msgs : OpenModal(a, n)
  BY <1>4 DEF Expire, OpenModal
<1>5. CASE \E p \in Procs : Acts(p)
  BY <1>2, <1>5
<1>6. QED
  BY <1>3, <1>4, <1>5 DEF Next, Acts

\* The steps of the table, the records and the channel, of one alert.
LEMMA EntrySteps ==
  ASSUME TypeOK, [Next]_vars, NEW a \in Alerts
  PROVE  \/ EntryKept(a)
         \/ EntryRemoved(a, "expired")
         \/ \E p \in Procs : proc[p].alert = a /\ (EntryDeleted(p) \/ EntryWritten(p))
<1>1. /\ item \in [Alerts -> Items] /\ ended \in [Alerts -> SUBSET (Refs \X {"expired", "deleted"})]
      /\ proc \in [Procs -> Locals] /\ \A p \in Procs : proc[p] \in Frames
  BY DEF TypeOK, Locals
<1>2. \A p \in Procs : proc[p].alert \in Alerts
  BY ProcType
<1>3. ASSUME UNCHANGED <<item, ended>>
      PROVE  EntryKept(a)
  BY <1>3 DEF EntryKept
<1>4. ASSUME NEW b \in Alerts, NEW how, Remove(b, how)
      PROVE  EntryKept(a) \/ (a = b /\ EntryRemoved(a, how))
  <2>1. item' = [item EXCEPT ![b] = Absent]
    BY <1>4 DEF Remove, Write
  <2>2. CASE item[b].kind = "absent"
    <3>1. item[b] = Absent
      BY <1>1, <2>2 DEF Items, Kinds, Absent
    <3>2. QED
      BY <1>1, <1>4, <2>1, <2>2, <3>1 DEF EntryKept, Remove
  <2>3. CASE item[b].kind # "absent"
    <3>1. ended' = [ended EXCEPT ![b] = @ \union {<<item[b].ts, how>>}] /\ item[b] # Absent
      BY <1>4, <2>3 DEF Remove, Absent
    <3>2. QED
      BY <1>1, <2>1, <3>1 DEF EntryKept, EntryRemoved
  <2>4. QED
    BY <2>2, <2>3
<1>5. ASSUME NEW p \in Procs, NEW i, PutItem(proc[p].alert, i), UNCHANGED ended
      PROVE  EntryKept(a) \/ (a = proc[p].alert /\ item'[a] = i /\ ended'[a] = ended[a])
  BY <1>1, <1>2, <1>5 DEF PutItem, Write, EntryKept
<1>6. ASSUME NEW p \in Procs, AlarmPut(p) \/ SaveNodePut(p)
      PROVE  EntryKept(a) \/ (a = proc[p].alert /\ EntryWritten(p))
  <2>1. CASE AlarmPut(p)
    <3>1. proc[p].pc = "alarm_put" /\ proc'[p].pc = "idle"
      BY <1>1, <2>1 DEF AlarmPut, At, Return, Idle, Enter
    <3>2. QED
      BY <1>5, <2>1, <3>1 DEF AlarmPut, EntryWritten
  <2>2. CASE SaveNodePut(p)
    <3>1. proc[p].pc = "ms_put" /\ proc'[p].pc = "rp_read"
      BY <1>1, <2>2 DEF SaveNodePut, At, Goto, Frames
    <3>2. QED
      BY <1>5, <2>2, <3>1 DEF SaveNodePut, EntryWritten, Cause
  <2>3. QED
    BY <1>6, <2>1, <2>2
<1>7. ASSUME NEW p \in Procs, ReportCause(p)
      PROVE  EntryKept(a) \/ (a = proc[p].alert /\ EntryWritten(p))
  <2>1. proc[p].pc = "rp_cause" /\ proc'[p].pc = "idle"
    BY <1>1, <1>7 DEF ReportCause, At, Return, Idle, Enter
  <2>2. QED
    BY <1>1, <1>2, <1>7, <2>1 DEF ReportCause, UpdateCause, Write, EntryKept, EntryWritten
<1>8. ASSUME NEW p \in Procs, OkDelete(p) \/ ResolveDelete(p)
      PROVE  EntryKept(a) \/ (a = proc[p].alert /\ EntryDeleted(p))
  <2>1. proc[p].pc \in RemovePC /\ DeleteItem(proc[p].alert)
    BY <1>8 DEF OkDelete, ResolveDelete, At, RemovePC
  <2>2. QED
    BY <1>2, <1>3, <1>4, <2>1 DEF DeleteItem, EntryDeleted
<1>9. ASSUME NEW b \in Alerts, Expire(b)
      PROVE  EntryKept(a) \/ EntryRemoved(a, "expired")
  BY <1>4, <1>9 DEF Expire
<1>10. ASSUME NEW p \in Procs, Acts(p), ~ (AlarmPut(p) \/ SaveNodePut(p) \/ ReportCause(p)),
              ~ (OkDelete(p) \/ ResolveDelete(p))
       PROVE  EntryKept(a)
  <2>1. CASE Start(p) \/ Arrive(p) \/ Fail(p)
    BY <1>3, <2>1 DEF Start, StartAnalysis, Arrive, AlarmSkip, AlarmCheck, OkGet,
                AnalyzeClick, SubmitModal, Fail, AnalyzeRaise, ReportFallback, Crash
  <2>2. CASE AlarmPost(p) \/ OkSave(p) \/ AnalyzeRead(p) \/ AnalyzeUpdate(p) \/ AnalyzeInvoke(p)
    BY <1>3, <2>2 DEF AlarmPost, OkSave, AnalyzeRead, AnalyzeUpdate, AnalyzeInvoke, ReadMessage
  <2>3. CASE Analyze(p) \/ SaveNodeGet(p) \/ ReportRead(p) \/ ReportUpdate(p)
    BY <1>3, <2>3 DEF Analyze, SaveNodeGet, ReportRead, ReportUpdate, ReadMessage
  <2>4. CASE ResolveGet(p) \/ ResolveSave(p) \/ ResolveRead(p) \/ ResolveUpdate(p)
    BY <1>3, <2>4 DEF ResolveGet, ResolveSave, ResolveRead, ResolveUpdate, ReadMessage
  <2>5. QED
    BY <1>10, <2>1, <2>2, <2>3, <2>4 DEF Acts, Advance
<1>11. CASE UNCHANGED vars \/ \E b \in Alerts, n \in Msgs : OpenModal(b, n)
  BY <1>3, <1>11 DEF vars, OpenModal
<1>12. CASE \E p \in Procs : Acts(p)
  BY <1>6, <1>7, <1>8, <1>10, <1>12
<1>13. QED
  BY <1>9, <1>11, <1>12 DEF Next, Acts

LEMMA SaveSteps ==
  ASSUME TypeOK, [Next]_vars, NEW a \in Alerts
  PROVE  \/ hist'[a] = hist[a]
         \/ \E p \in Procs : proc[p].alert = a /\ Saves(p)
<1>1. hist \in [Alerts -> Seq(Records)] /\ \A p \in Procs : proc[p].alert \in Alerts
  BY ProcType DEF TypeOK
<1>2. ASSUME NEW p \in Procs, OkSave(p) \/ ResolveSave(p)
      PROVE  hist'[a] = hist[a] \/ (proc[p].alert = a /\ Saves(p))
  <2> DEFINE r(by) == [by |-> by, of |-> proc[p].seen.ts, rc |-> proc[p].seen.rc]
  <2>1. PICK by \in {"auto", "human"} : SaveIncident(proc[p].alert, r(by))
    BY <1>2 DEF OkSave, ResolveSave
  <2>2. proc[p].pc \in SavePC
    BY <1>2 DEF OkSave, ResolveSave, At, SavePC
  <2>3. QED
    BY <1>1, <2>1, <2>2 DEF SaveIncident, Saves
<1>3. ASSUME NEW p \in Procs, Acts(p), ~ (OkSave(p) \/ ResolveSave(p))
      PROVE  UNCHANGED hist
  <2>1. CASE Start(p) \/ Arrive(p) \/ Fail(p)
    BY <2>1 DEF Start, StartAnalysis, Arrive, AlarmSkip, AlarmCheck, OkGet,
                AnalyzeClick, SubmitModal, Fail, AnalyzeRaise, ReportFallback, Crash
  <2>2. CASE \/ AlarmPost(p) \/ AlarmPut(p) \/ OkDelete(p)
             \/ AnalyzeRead(p) \/ AnalyzeUpdate(p) \/ AnalyzeInvoke(p)
    BY <2>2 DEF AlarmPost, AlarmPut, OkDelete, AnalyzeRead, AnalyzeUpdate,
                AnalyzeInvoke, ReadMessage
  <2>3. CASE \/ Analyze(p) \/ SaveNodeGet(p) \/ SaveNodePut(p)
             \/ ReportRead(p) \/ ReportUpdate(p) \/ ReportCause(p)
    BY <2>3 DEF Analyze, SaveNodeGet, SaveNodePut, ReportRead, ReportUpdate,
                ReportCause, ReadMessage
  <2>4. CASE ResolveGet(p) \/ ResolveDelete(p) \/ ResolveRead(p) \/ ResolveUpdate(p)
    BY <2>4 DEF ResolveGet, ResolveDelete, ResolveRead, ResolveUpdate, ReadMessage
  <2>5. QED
    BY <1>3, <2>1, <2>2, <2>3, <2>4 DEF Acts, Advance
<1>4. CASE UNCHANGED vars \/ \E b \in Alerts : Expire(b) \/ \E n \in Msgs : OpenModal(b, n)
  BY <1>4 DEF vars, Expire, OpenModal
<1>5. QED
  BY <1>2, <1>3, <1>4 DEF Next, Acts

LEMMA PostSteps ==
  ASSUME TypeOK, [Next]_vars, NEW a \in Alerts
  PROVE  \/ posted'[a] = posted[a]
         \/ \E p \in Procs : proc[p].alert = a /\ Announces(p)
<1>1. /\ posted \in [Alerts -> Refs] /\ \A p \in Procs : proc[p].alert \in Alerts
      /\ proc \in [Procs -> Locals] /\ \A p \in Procs : proc[p] \in Frames
  BY ProcType DEF TypeOK, Locals
<1>2. ASSUME NEW p \in Procs, AlarmPost(p)
      PROVE  posted'[a] = posted[a] \/ (proc[p].alert = a /\ Announces(p))
  <2>1. CASE UNCHANGED posted
    BY <2>1
  <2> DEFINE n == posted[proc[p].alert] + 1
  <2>2. CASE /\ posted' = [posted EXCEPT ![proc[p].alert] = n]
             /\ proc' = [proc EXCEPT ![p].pc = "alarm_put", ![p].msg = n]
    <3>1. proc[p].pc = "alarm_post" /\ posted'[proc[p].alert] = n
      BY <1>1, <1>2, <2>2 DEF AlarmPost, At
    <3>2. proc'[p].pc = "alarm_put" /\ proc'[p].alert = proc[p].alert /\ proc'[p].msg = n
      <4> HIDE DEF n
      <4> QED
        BY <1>1, <2>2 DEF Frames
    <3>3. CASE proc[p].alert = a
      BY <3>1, <3>2, <3>3 DEF Announces
    <3>4. CASE proc[p].alert # a
      BY <1>1, <2>2, <3>4
    <3>5. QED
      BY <3>3, <3>4
  <2>3. QED
    BY <1>2, <2>1, <2>2 DEF AlarmPost
<1>3. ASSUME NEW p \in Procs, Acts(p), ~ AlarmPost(p)
      PROVE  UNCHANGED posted
  <2>1. CASE Start(p) \/ Arrive(p) \/ Fail(p)
    BY <2>1 DEF Start, StartAnalysis, Arrive, AlarmSkip, AlarmCheck, OkGet,
                AnalyzeClick, SubmitModal, Fail, AnalyzeRaise, ReportFallback, Crash
  <2>2. CASE \/ AlarmPut(p) \/ OkSave(p) \/ OkDelete(p)
             \/ AnalyzeRead(p) \/ AnalyzeUpdate(p) \/ AnalyzeInvoke(p)
    BY <2>2 DEF AlarmPut, OkSave, OkDelete, AnalyzeRead, AnalyzeUpdate,
                AnalyzeInvoke, ReadMessage
  <2>3. CASE \/ Analyze(p) \/ SaveNodeGet(p) \/ SaveNodePut(p)
             \/ ReportRead(p) \/ ReportUpdate(p) \/ ReportCause(p)
    BY <2>3 DEF Analyze, SaveNodeGet, SaveNodePut, ReportRead, ReportUpdate,
                ReportCause, ReadMessage
  <2>4. CASE \/ ResolveGet(p) \/ ResolveSave(p) \/ ResolveDelete(p)
             \/ ResolveRead(p) \/ ResolveUpdate(p)
    BY <2>4 DEF ResolveGet, ResolveSave, ResolveDelete, ResolveRead, ResolveUpdate, ReadMessage
  <2>5. QED
    BY <1>3, <2>1, <2>2, <2>3, <2>4 DEF Acts, Advance
<1>4. CASE UNCHANGED vars \/ \E b \in Alerts : Expire(b) \/ \E n \in Msgs : OpenModal(b, n)
  BY <1>4 DEF vars, Expire, OpenModal
<1>5. QED
  BY <1>2, <1>3, <1>4 DEF Next, Acts

\* An invocation comes to post, to put or to close only by these steps, which
\* leave the table alone: it looks and finds no entry, it looks and keeps what it
\* saw, its notice is posted, or it saves what it saw.
Checks(p) ==
  /\ proc'[p].pc \in {"alarm_post", "ms_put"}
  /\ Absent \in Gets(proc'[p].alert)
Sees(p) ==
  /\ proc'[p].pc \in SavePC
  /\ proc'[p].seen \in Gets(proc'[p].alert)
Registers(p) ==
  /\ proc[p].pc = "alarm_post" /\ proc'[p].pc = "alarm_put"
  /\ proc'[p].alert = proc[p].alert
HasSaved(p) ==
  /\ proc[p].pc \in SavePC /\ proc'[p].pc \in RemovePC
  /\ proc'[p].alert = proc[p].alert
  /\ "save" \in Faults \/ Saves(p)
WatchPC == {"alarm_post", "alarm_put", "ms_put"} \union ClosePC

LEMMA WatchSteps ==
  ASSUME TypeOK, [Next]_vars, NEW p \in Procs
  PROVE  \/ proc'[p] = proc[p]
         \/ proc'[p].pc \notin WatchPC
         \/ /\ UNCHANGED <<item, ended>>
            /\ Checks(p) \/ Sees(p) \/ Registers(p) \/ HasSaved(p)
<1> DEFINE Same == proc'[p] = proc[p]
           Elsewhere == proc'[p].pc \notin WatchPC
<1>1. /\ proc \in [Procs -> Locals] /\ proc[p] \in Frames
      /\ hist \in [Alerts -> Seq(Records)] /\ proc[p].alert \in Alerts
  BY ProcType DEF TypeOK, Locals
<1> USE DEF WatchPC, ClosePC, SavePC, RemovePC
<1>2. CASE Return(p)
  BY <1>1, <1>2 DEF Return, Idle, Enter
<1>3. ASSUME NEW pc, Goto(p, pc), pc \notin WatchPC
      PROVE  Elsewhere
  BY <1>1, <1>3 DEF Goto, Frames
<1>4. ASSUME NEW pc \in {"an_read", "rca", "rs_get"}, NEW a, NEW n, Begin(p, Enter(pc, a, n, Absent))
      PROVE  Elsewhere
  BY <1>1, <1>4 DEF Begin, Enter
<1>5. ASSUME NEW from, NEW to \in UpdatePC, ReadMessage(p, from, to)
      PROVE  Elsewhere
  BY <1>1, <1>5 DEF ReadMessage, UpdatePC, Frames
<1>6. CASE AlarmPost(p)
  BY <1>1, <1>6 DEF AlarmPost, At, Goto, Registers, Frames
<1>7. CASE \/ AlarmPut(p) \/ OkDelete(p) \/ AnalyzeInvoke(p) \/ ReportCause(p)
           \/ ResolveUpdate(p) \/ Fail(p)
  BY <1>2, <1>7 DEF AlarmPut, OkDelete, AnalyzeInvoke, ReportCause, ResolveUpdate,
                    Fail, AnalyzeRaise, ReportFallback, Crash
<1>8. CASE OkSave(p) \/ ResolveSave(p)
  <2>1. /\ UNCHANGED <<item, ended>> /\ proc[p].pc \in SavePC
        /\ \E pc \in RemovePC : Goto(p, pc)
    BY <1>8 DEF OkSave, ResolveSave, At
  <2>2. proc'[p].pc \in RemovePC /\ proc'[p].alert = proc[p].alert
    BY <1>1, <2>1 DEF Goto, Frames
  <2>3. "save" \in Faults \/ Saves(p)
    BY <1>1, <1>8, <2>1 DEF OkSave, ResolveSave, SaveIncident, Saves
  <2>4. QED
    BY <2>1, <2>2, <2>3 DEF HasSaved
<1>9. CASE AnalyzeRead(p) \/ ReportRead(p) \/ ResolveRead(p)
  BY <1>5, <1>9 DEF AnalyzeRead, ReportRead, ResolveRead, UpdatePC
<1>10. CASE AnalyzeUpdate(p) \/ SaveNodePut(p) \/ ReportUpdate(p) \/ ResolveDelete(p)
  BY <1>2, <1>3, <1>10 DEF AnalyzeUpdate, SaveNodePut, ReportUpdate, ResolveDelete
<1>11. CASE Analyze(p)
  BY <1>1, <1>11 DEF Analyze, Frames
<1>12. CASE SaveNodeGet(p)
  <2>1. PICK seen \in Gets(proc[p].alert) :
          Goto(p, IF seen = Absent THEN "ms_put" ELSE "rp_read")
    BY <1>12 DEF SaveNodeGet
  <2>2. CASE seen = Absent
    <3>1. Goto(p, "ms_put")
      BY <2>1, <2>2
    <3>2. proc'[p].pc = "ms_put" /\ proc'[p].alert = proc[p].alert
      BY <1>1, <3>1 DEF Goto, Frames
    <3>3. QED
      BY <1>12, <2>2, <3>2 DEF SaveNodeGet, Checks
  <2>3. CASE seen # Absent
    BY <1>3, <2>1, <2>3
  <2>4. QED
    BY <2>2, <2>3
<1>13. CASE ResolveGet(p)
  <2>1. PICK seen \in Gets(proc[p].alert) :
          proc' = [proc EXCEPT ![p].pc = "rs_save", ![p].seen = seen]
    BY <1>13 DEF ResolveGet
  <2>2. proc'[p].pc = "rs_save" /\ proc'[p].alert = proc[p].alert /\ proc'[p].seen = seen
    BY <1>1, <2>1 DEF Frames
  <2>3. QED
    BY <1>13, <2>2 DEF ResolveGet, Sees
<1>14. CASE Start(p)
  BY <1>4, <1>14 DEF Start, StartAnalysis
<1>15. CASE Arrive(p)
  <2>1. PICK a \in Alerts : \/ AlarmSkip(p, a) \/ AlarmCheck(p, a) \/ OkGet(p, a)
                            \/ \E n \in Msgs : AnalyzeClick(p, a, n) \/ SubmitModal(p, a, n)
    BY <1>15 DEF Arrive
  <2>2. CASE AlarmSkip(p, a)
    BY <2>2 DEF AlarmSkip
  <2>3. CASE AlarmCheck(p, a)
    <3>1. proc'[p] = Enter("alarm_post", a, 0, Absent)
      BY <1>1, <2>3 DEF AlarmCheck, Begin
    <3>2. proc'[p].pc = "alarm_post" /\ proc'[p].alert = a
      BY <3>1 DEF Enter
    <3>3. QED
      BY <2>3, <3>2 DEF AlarmCheck, Checks
  <2>4. CASE OkGet(p, a)
    <3>1. PICK seen \in Gets(a) : \/ UNCHANGED proc
                                  \/ Begin(p, Enter("ok_save", a, 0, seen))
      BY <2>4 DEF OkGet
    <3>2. CASE Begin(p, Enter("ok_save", a, 0, seen))
      <4>1. proc'[p] = Enter("ok_save", a, 0, seen)
        BY <1>1, <3>2 DEF Begin
      <4>2. proc'[p].pc = "ok_save" /\ proc'[p].alert = a /\ proc'[p].seen = seen
        BY <4>1 DEF Enter
      <4>3. QED
        BY <2>4, <4>2 DEF OkGet, Sees
    <3>3. QED
      BY <3>1, <3>2
  <2>5. CASE \E n \in Msgs : AnalyzeClick(p, a, n)
    BY <1>4, <2>5 DEF AnalyzeClick
  <2>6. CASE \E n \in Msgs : SubmitModal(p, a, n)
    BY <1>4, <2>6 DEF SubmitModal
  <2>7. QED
    BY <2>1, <2>2, <2>3, <2>4, <2>5, <2>6
<1>16. CASE Acts(p)
  BY <1>6, <1>7, <1>8, <1>9, <1>10, <1>11, <1>12, <1>13, <1>14, <1>15, <1>16 DEF Acts, Advance
<1>17. QED
  BY <1>16, ActsAlone

-----------------------------------------------------------------------------
(* One message per incident.                                               *)

\* An invocation at one of pcs is the only one in progress for its alert.
Alone(pcs) ==
  \A p, q \in Procs : p # q /\ proc[p].pc \in pcs /\ proc[q].pc # "idle"
                        => proc[p].alert # proc[q].alert

\* At first no invocation is in progress.
LEMMA NobodyAtFirst == Init => \A p \in Procs : proc[p].pc = "idle"
BY DEF Init, Idle, Enter

\* What a check of the handlers sees is the entry.
LEMMA GetsEntry ==
  ASSUME ReliableReads, NEW a
  PROVE  Gets(a) = {item[a]}
BY DEF Gets, ReliableReads

\* The check of a notice holds until its message is posted.
CheckHolds == \A p \in Procs : At(p, "alarm_post") => item[proc[p].alert] = Absent

LEMMA CheckStep ==
  ASSUME ReliableReads
  PROVE  TypeOK /\ CheckHolds /\ Alone({"alarm_post"}) /\ [Next]_vars => CheckHolds'
<1> SUFFICES ASSUME TypeOK, CheckHolds, Alone({"alarm_post"}), [Next]_vars,
                    NEW p \in Procs, proc'[p].pc = "alarm_post"
             PROVE  item'[proc'[p].alert] = Absent
  BY DEF CheckHolds, At
<1>1. CASE proc'[p] = proc[p]
  <2>1. PICK a \in Alerts : a = proc[p].alert
    BY ProcType
  <2>2. item[a] = Absent
    BY <1>1, <2>1 DEF CheckHolds, At
  <2>3. ASSUME NEW q \in Procs, proc[q].alert = a, EntryDeleted(q) \/ EntryWritten(q)
        PROVE  FALSE
    <3>1. proc[q].pc \notin {"idle", "alarm_post"}
      BY <2>3 DEF EntryDeleted, EntryWritten, RemovePC
    <3>2. QED
      BY <1>1, <2>1, <2>3, <3>1 DEF Alone
  <2>4. EntryKept(a) \/ EntryRemoved(a, "expired")
    BY <2>3, EntrySteps
  <2>5. QED
    BY <1>1, <2>1, <2>2, <2>4 DEF EntryKept, EntryRemoved
<1>2. CASE UNCHANGED <<item, ended>> /\ (Checks(p) \/ Sees(p) \/ Registers(p) \/ HasSaved(p))
  BY <1>2, GetsEntry DEF Checks, Sees, Registers, HasSaved, SavePC, RemovePC
<1>3. QED
  BY <1>1, <1>2, WatchSteps DEF WatchPC

\* An alert is announced only when the table holds no incident of it, if reads of
\* the table see the last write and no other invocation of the alert is in progress
\* between the check and the post.
THEOREM MessagesPerIncident ==
  ASSUME ReliableReads
  PROVE  Spec /\ []Alone({"alarm_post"}) => OneMessagePerIncident
<1>1. Init => TypeOK /\ CheckHolds
  <2>1. Init => CheckHolds
    BY DEF Init, CheckHolds, At, Idle, Enter
  <2>2. QED
    BY <2>1, InitTypes
<1>2. TypeOK /\ CheckHolds /\ Alone({"alarm_post"}) /\ [Next]_vars => (TypeOK /\ CheckHolds)'
  BY StepTypes, CheckStep
<1>3. TypeOK /\ CheckHolds /\ [Next]_vars
        => [\A a \in Alerts : posted'[a] # posted[a] => item[a] = Absent]_vars
  BY PostSteps DEF CheckHolds, Announces, At
<1>4. QED
  BY <1>1, <1>2, <1>3, PTL DEF Spec, OneMessagePerIncident

-----------------------------------------------------------------------------
(* What a message shows is not taken away.                                 *)

\* No two invocations hold the same message's blocks, read and not yet written.
OneRewriter ==
  \A p, q \in Procs : p # q /\ proc[p].pc \in UpdatePC /\ proc[q].pc \in UpdatePC
                        => <<proc[p].alert, proc[p].msg>> # <<proc[q].alert, proc[q].msg>>

Answers == {"report", "resolved"}

\* Whoever is about to rewrite a message has its answers in hand.
AnswersInHand ==
  \A p \in Procs : proc[p].pc \in UpdatePC =>
    blocks[proc[p].alert][proc[p].msg] \intersect Answers \subseteq proc[p].blocks

AnswersInv == TypeOK /\ NamedIsPosted /\ AnswersInHand

\* No step takes an answer away.
LEMMA AnswersKept ==
  ASSUME AnswersInv, [Next]_vars, NEW a \in Alerts, NEW n \in Msgs
  PROVE  blocks[a][n] \intersect Answers \subseteq blocks'[a][n]
<1>1. /\ blocks \in [Alerts -> [Msgs -> SUBSET Sections]]
      /\ posted \in [Alerts -> Refs] /\ Refs \subseteq Nat
  BY BoundsAssumption DEF AnswersInv, TypeOK, Refs
<1>2. CASE UNCHANGED <<blocks, posted>>
  BY <1>2
<1>3. ASSUME NEW b \in Alerts, NEW m \in Msgs, Posts(b, m)
      PROVE  blocks[a][n] \intersect Answers \subseteq blocks'[a][n]
  <2>1. CASE a = b /\ n = m
    <3>1. blocks[a][n] = {}
      <4>1. n = posted[a] + 1 /\ posted[a] \in Nat
        BY <1>1, <1>3, <2>1 DEF Posts
      <4>2. ~ (n <= posted[a])
        BY <4>1
      <4>3. QED
        BY <4>2 DEF AnswersInv, NamedIsPosted
    <3>2. QED
      BY <3>1
  <2>2. CASE ~ (a = b /\ n = m)
    BY <1>1, <1>3, <2>2 DEF Posts
  <2>3. QED
    BY <2>1, <2>2
<1>4. ASSUME NEW p \in Procs, NEW x \in Additions, Rewrites(p, x)
      PROVE  blocks[a][n] \intersect Answers \subseteq blocks'[a][n]
  <2>1. CASE a = proc[p].alert /\ n = proc[p].msg
    BY <1>1, <1>4, <2>1 DEF Rewrites, AnswersInv, AnswersInHand
  <2>2. CASE ~ (a = proc[p].alert /\ n = proc[p].msg)
    <3>1. proc[p].alert \in Alerts
      BY ProcType DEF AnswersInv
    <3>2. QED
      BY <1>1, <1>4, <2>2, <3>1 DEF Rewrites
  <2>3. QED
    BY <2>1, <2>2
<1>5. QED
  BY <1>2, <1>3, <1>4, MessageSteps DEF AnswersInv

LEMMA AnswersStep ==
  ASSUME ReadsBackWork
  PROVE  AnswersInv /\ OneRewriter /\ [Next]_vars => AnswersInv'
<1> SUFFICES ASSUME AnswersInv, OneRewriter, [Next]_vars
             PROVE  AnswersInv'
  OBVIOUS
<1> USE DEF AnswersInv
<1>1. TypeOK' /\ NamedIsPosted'
  BY StepTypes, NamedStep
<1>2. /\ blocks \in [Alerts -> [Msgs -> SUBSET Sections]]
      /\ posted \in [Alerts -> Refs] /\ Refs \subseteq Nat
  BY BoundsAssumption DEF TypeOK, Refs
<1>3. UpdatePC \subseteq MessagePC
  BY DEF UpdatePC, MessagePC, AnalyzePC, WorkerPC, ResolvePC
<1>4. ASSUME NEW p \in Procs, proc'[p].pc \in UpdatePC
      PROVE  blocks'[proc'[p].alert][proc'[p].msg] \intersect Answers \subseteq proc'[p].blocks
  <2>1. CASE proc'[p] = proc[p]
    <3> DEFINE a == proc[p].alert
               n == proc[p].msg
    <3>1. /\ a \in Alerts /\ n \in Msgs /\ n <= posted[a]
          /\ blocks[a][n] \intersect Answers \subseteq proc[p].blocks
      BY <1>3, <1>4, <2>1, ProcType DEF NamedIsPosted, AnswersInHand
    <3>2. CASE UNCHANGED <<blocks, posted>>
      BY <2>1, <3>1, <3>2
    <3>3. ASSUME NEW b \in Alerts, NEW m \in Msgs, Posts(b, m)
          PROVE  blocks'[a][n] = blocks[a][n]
      <4>1. m = posted[b] + 1 /\ posted[b] \in Nat
        BY <1>2, <3>3 DEF Posts
      <4>2. ~ (a = b /\ n = m)
        BY <3>1, <4>1
      <4>3. QED
        BY <1>2, <3>1, <3>3, <4>2 DEF Posts
    <3>4. ASSUME NEW q \in Procs, NEW x \in Additions, Rewrites(q, x)
          PROVE  blocks'[a][n] \intersect Answers \subseteq proc[p].blocks
      <4>1. CASE a = proc[q].alert /\ n = proc[q].msg
        <5>1. q = p
          BY <1>4, <2>1, <3>4, <4>1 DEF OneRewriter, Rewrites
        <5>2. QED
          BY <1>4, <3>4, <5>1 DEF Rewrites
      <4>2. CASE ~ (a = proc[q].alert /\ n = proc[q].msg)
        <5>1. proc[q].alert \in Alerts
          BY ProcType
        <5>2. blocks'[a][n] = blocks[a][n]
          BY <1>2, <3>1, <3>4, <4>2, <5>1 DEF Rewrites
        <5>3. QED
          BY <3>1, <5>2
      <4>3. QED
        BY <4>1, <4>2
    <3>5. QED
      BY <2>1, <3>1, <3>2, <3>3, <3>4, MessageSteps
  <2>2. CASE proc'[p] = Idle \/ Enters(p) \/ GoesOn(p)
    <3>1. \A pc, a, n, i : Enter(pc, a, n, i).pc = pc
      BY DEF Enter
    <3>2. proc'[p].pc \notin UpdatePC
      BY <2>2, <3>1 DEF Idle, Enters, GoesOn, StartPC, UpdatePC
    <3>3. QED
      BY <1>4, <3>2
  <2>3. CASE ReadsBack(p)
    <3>1. /\ proc'[p].blocks = Strip(blocks[proc[p].alert][proc[p].msg])
          /\ proc'[p].alert = proc[p].alert /\ proc'[p].msg = proc[p].msg
          /\ UNCHANGED blocks
      BY <2>3 DEF ReadsBack, Reads, ReadsBackWork
    <3>2. QED
      BY <3>1 DEF Strip, Buttons, Answers
  <2>4. QED
    BY <2>1, <2>2, <2>3, FrameSteps
<1>5. QED
  BY <1>1, <1>4 DEF AnswersInHand

LEMMA AnswersInit == Init => AnswersInv
BY InitTypes, NamedInit, NobodyAtFirst DEF AnswersInv, AnswersInHand, UpdatePC

\* No report and no resolution shown is taken away again, if messages can be read
\* back and no two handlers rewrite one message at a time.
THEOREM AnswersStay ==
  ASSUME ReadsBackWork
  PROVE  Spec /\ []OneRewriter => SectionsKept
<1>1. AnswersInv /\ [Next]_vars
        => [\A a \in Alerts : \A n \in Msgs :
              blocks[a][n] \intersect {"report", "resolved"} \subseteq blocks'[a][n]]_vars
  BY AnswersKept DEF Answers
<1>2. QED
  BY <1>1, AnswersInit, AnswersStep, PTL DEF Spec, SectionsKept

-----------------------------------------------------------------------------
(* What was deleted was recorded.                                          *)

Saved(h, n) == \E i \in DOMAIN h : h[i].of = n

\* Whoever is about to save saw the entry that is there, if one is; and whoever is
\* about to delete finds an entry that has its record.
ClosingInv ==
  /\ TypeOK
  /\ DeletedWasRecorded
  /\ \A p \in Procs :
       LET a == proc[p].alert
       IN /\ proc[p].pc \in SavePC => item[a] \in {Absent, proc[p].seen}
          /\ proc[p].pc \in RemovePC => item[a] = Absent \/ Saved(hist[a], item[a].ts)

\* A record once saved stays.
LEMMA SavedStays ==
  ASSUME TypeOK, [Next]_vars, NEW a \in Alerts, NEW n, Saved(hist[a], n)
  PROVE  Saved(hist'[a], n)
<1>1. hist[a] \in Seq(Records)
  BY DEF TypeOK
<1>2. PICK i \in DOMAIN hist[a] : hist[a][i].of = n
  BY DEF Saved
<1>3. ASSUME NEW r, hist'[a] = Append(hist[a], r)
      PROVE  Saved(hist'[a], n)
  <2>1. i \in DOMAIN hist'[a] /\ hist'[a][i] = hist[a][i]
    BY <1>1, <1>3
  <2>2. QED
    BY <1>2, <2>1 DEF Saved
<1>4. CASE hist'[a] = hist[a]
  BY <1>4 DEF Saved
<1>5. ASSUME NEW p \in Procs, proc[p].alert = a, Saves(p)
      PROVE  Saved(hist'[a], n)
  <2>1. PICK by : hist'[a] = Append(hist[a], [by |-> by, of |-> proc[p].seen.ts,
                                              rc |-> proc[p].seen.rc])
    BY <1>5 DEF Saves
  <2>2. QED
    BY <1>3, <2>1
<1>6. QED
  BY <1>4, <1>5, SaveSteps

\* What is saved is a record of the entry that was seen.
LEMMA SavingSaves ==
  ASSUME TypeOK, NEW p \in Procs, Saves(p),
         NEW a \in Alerts, a = proc[p].alert, NEW n, n = proc[p].seen.ts
  PROVE  Saved(hist'[a], n)
<1>1. hist[a] \in Seq(Records)
  BY DEF TypeOK
<1>2. \E by : hist'[a] = Append(hist[a], [by |-> by, of |-> n, rc |-> proc[p].seen.rc])
  BY DEF Saves
<1>3. PICK r : hist'[a] = Append(hist[a], r) /\ r.of = n
  BY <1>2
<1> DEFINE i == Len(hist[a]) + 1
<1>4. i \in DOMAIN hist'[a] /\ hist'[a][i] = r
  BY <1>1, <1>3
<1> HIDE DEF i
<1>5. QED
  BY <1>3, <1>4 DEF Saved

LEMMA ClosingStep ==
  ASSUME ReliableReads, SavesWork
  PROVE  ClosingInv /\ Alone(ClosePC) /\ [Next]_vars => ClosingInv'
<1> SUFFICES ASSUME ClosingInv, Alone(ClosePC), [Next]_vars
             PROVE  ClosingInv'
  OBVIOUS
<1> USE DEF ClosingInv
<1>1. TypeOK'
  BY StepTypes
<1>2. ASSUME NEW p \in Procs, NEW a \in Alerts, a = proc'[p].alert, proc'[p].pc \in ClosePC
      PROVE  /\ proc'[p].pc \in SavePC => item'[a] \in {Absent, proc'[p].seen}
             /\ proc'[p].pc \in RemovePC => item'[a] = Absent \/ Saved(hist'[a], item'[a].ts)
  <2>1. CASE proc'[p] = proc[p]
    <3>1. ASSUME NEW q \in Procs, proc[q].alert = a, EntryDeleted(q) \/ EntryWritten(q)
          PROVE  item'[a] = Absent
      <4>1. CASE q = p
        <5>1. ~ EntryWritten(p)
          BY <1>2, <2>1 DEF EntryWritten, ClosePC, SavePC, RemovePC
        <5>2. QED
          BY <3>1, <4>1, <5>1 DEF EntryDeleted, EntryRemoved
      <4>2. CASE q # p
        <5>1. proc[q].pc = "idle"
          BY <1>2, <2>1, <3>1, <4>2 DEF Alone
        <5>2. QED
          BY <3>1, <5>1 DEF EntryDeleted, EntryWritten, RemovePC
      <4>3. QED
        BY <4>1, <4>2
    <3>2. item'[a] \in {item[a], Absent}
      BY <3>1, EntrySteps DEF EntryKept, EntryRemoved
    <3>3. /\ proc[p].pc \in SavePC => item[a] \in {Absent, proc[p].seen}
          /\ proc[p].pc \in RemovePC => item[a] = Absent \/ Saved(hist[a], item[a].ts)
      BY <1>2, <2>1
    <3>4. CASE item'[a] = Absent
      BY <3>4
    <3>5. CASE item'[a] = item[a]
      <4>1. ASSUME NEW n, Saved(hist[a], n)
            PROVE  Saved(hist'[a], n)
        BY <4>1, SavedStays
      <4>2. QED
        BY <2>1, <3>3, <3>5, <4>1
    <3>6. QED
      BY <3>2, <3>4, <3>5
  <2>2. CASE UNCHANGED <<item, ended>> /\ Sees(p)
    <3>1. proc'[p].seen = item[a] /\ proc'[p].pc \notin RemovePC
      BY <1>2, <2>2, GetsEntry DEF Sees, SavePC, RemovePC
    <3>2. QED
      BY <2>2, <3>1
  <2>3. CASE UNCHANGED <<item, ended>> /\ HasSaved(p)
    <3> DEFINE n == proc[p].seen.ts
    <3>1. /\ a = proc[p].alert /\ item[a] \in {Absent, proc[p].seen}
          /\ proc'[p].pc \notin SavePC /\ Saves(p)
      BY <1>2, <2>3 DEF HasSaved, SavesWork, SavePC, RemovePC
    <3> HIDE DEF n
    <3>2. Saved(hist'[a], n)
      BY <3>1, SavingSaves DEF n
    <3>3. item'[a] = Absent \/ item'[a].ts = n
      BY <2>3, <3>1 DEF n
    <3>4. CASE item'[a].ts = n
      BY <3>1, <3>2, <3>4
    <3>5. QED
      BY <3>1, <3>3, <3>4
  <2>4. CASE Checks(p) \/ Registers(p)
    BY <1>2, <2>4 DEF Checks, Registers, ClosePC, SavePC, RemovePC
  <2>5. QED
    BY <1>2, <2>1, <2>2, <2>3, <2>4, WatchSteps DEF WatchPC
<1>3. ASSUME NEW a \in Alerts, NEW n \in Msgs, <<n, "deleted">> \in ended'[a]
      PROVE  Saved(hist'[a], n)
  <2>1. CASE <<n, "deleted">> \in ended[a]
    <3>1. Saved(hist[a], n)
      BY <2>1 DEF DeletedWasRecorded, Saved
    <3>2. QED
      BY <3>1, SavedStays
  <2>2. CASE <<n, "deleted">> \notin ended[a]
    <3>1. PICK p \in Procs : proc[p].alert = a /\ EntryDeleted(p)
      <4>1. ended'[a] # ended[a]
        BY <1>3, <2>2
      <4>2. ~ EntryRemoved(a, "expired")
        BY <1>3, <2>2 DEF EntryRemoved
      <4>3. ~ EntryKept(a)
        BY <4>1 DEF EntryKept
      <4>4. \A p \in Procs : proc[p].alert = a => ~ EntryWritten(p)
        BY <4>1 DEF EntryWritten
      <4>5. QED
        BY <4>2, <4>3, <4>4, EntrySteps
    <3>2. item[a].ts = n /\ item[a] # Absent /\ proc[p].pc \in RemovePC
      BY <1>3, <2>2, <3>1 DEF EntryDeleted, EntryRemoved
    <3>3. Saved(hist[a], n)
      BY <3>1, <3>2
    <3>4. QED
      BY <3>3, SavedStays
  <2>3. QED
    BY <2>1, <2>2
<1>4. DeletedWasRecorded'
  BY <1>3 DEF DeletedWasRecorded, Saved
<1>5. \A p \in Procs : proc'[p].alert \in Alerts
  BY <1>1, ProcType DEF TypeOK, Locals, Frames
<1>6. QED
  BY <1>1, <1>2, <1>4, <1>5 DEF ClosePC

LEMMA ClosingInit == Init => ClosingInv
<1>1. Init => DeletedWasRecorded
  BY DEF Init, DeletedWasRecorded
<1>2. QED
  BY <1>1, InitTypes, NobodyAtFirst DEF ClosingInv, SavePC, RemovePC

\* Whatever a handler deletes from the table has its record in memory, if reads of
\* the table see the last write, records are saved, and a handler that closes an
\* incident is from its read on the only one at work for its alert.
THEOREM DeletionsRecorded ==
  ASSUME ReliableReads, SavesWork
  PROVE  Spec /\ []Alone(ClosePC) => []DeletedWasRecorded
<1>1. ClosingInv => DeletedWasRecorded
  BY DEF ClosingInv
<1>2. QED
  BY <1>1, ClosingInit, ClosingStep, PTL DEF Spec

-----------------------------------------------------------------------------
(* A cause found for another incident is a late one.                       *)

\* put_item and update_item do not fail, and no invocation is killed.
WritesWork == "put" \notin Faults /\ "crash" \notin Faults

\* Incident n is among the ended ones; an entry's cause is its own, or of one that
\* has ended; p is about to register the message n of a.
Gone(e, n) == \E how \in {"expired", "deleted"} : <<n, how>> \in e
Late(i, e) == i.rc \in {0, i.ts} \/ Gone(e, i.rc)
Pending(p, a, n) == proc[p].pc = "alarm_put" /\ proc[p].alert = a /\ proc[p].msg = n

PutPC == {"alarm_post", "alarm_put", "ms_put"}
PutsFirst == \A p \in Procs : proc[p].pc \in PutPC => item[proc[p].alert] = Absent
SeenIsLate == \A p \in Procs : proc[p].pc \in SavePC => Late(proc[p].seen, ended[proc[p].alert])
EntryIsLate == \A a \in Alerts : Late(item[a], ended[a])
PostedIsKnown ==
  \A a \in Alerts : \A n \in Msgs : n <= posted[a] =>
    item[a].ts = n \/ Gone(ended[a], n) \/ \E p \in Procs : Pending(p, a, n)

\* Every message that was posted names the entry, an entry that has ended, or one
\* that is about to be put; so an analysis that outlives its entry writes the cause
\* of an incident that has ended.
CauseInv == /\ TypeOK
            /\ NamedIsPosted
            /\ PutsFirst
            /\ PostedIsKnown
            /\ EntryIsLate
            /\ SeenIsLate
            /\ ForeignCauseIsLate

\* What has ended stays so.
LEMMA EndedStays ==
  ASSUME TypeOK, [Next]_vars, NEW a \in Alerts
  PROVE  /\ ended[a] \subseteq ended'[a]
         /\ \A n : Gone(ended[a], n) => Gone(ended'[a], n)
         /\ \A i : Late(i, ended[a]) => Late(i, ended'[a])
<1>1. ended[a] \subseteq ended'[a]
  <2>1. \A how : EntryRemoved(a, how) => ended[a] \subseteq ended'[a]
    BY DEF EntryRemoved
  <2>2. \A p \in Procs : proc[p].alert = a /\ (EntryDeleted(p) \/ EntryWritten(p))
                           => ended[a] \subseteq ended'[a]
    BY <2>1 DEF EntryDeleted, EntryWritten
  <2>3. QED
    BY <2>1, <2>2, EntrySteps DEF EntryKept
<1>2. QED
  BY <1>1 DEF Gone, Late

\* An invocation that is about to register its message does so.
LEMMA PendingSteps ==
  ASSUME WritesWork, TypeOK, [Next]_vars, NEW p \in Procs, NEW a \in Alerts, NEW n,
         Pending(p, a, n)
  PROVE  proc'[p] = proc[p] \/ item'[a].ts = n
<1>1. item \in [Alerts -> Items] /\ proc[p].pc = "alarm_put" /\ proc[p].alert = a /\ proc[p].msg = n
  BY DEF TypeOK, Pending
<1>2. CASE AlarmPut(p)
  BY <1>1, <1>2 DEF AlarmPut, PutItem, Write, WritesWork
<1>3. CASE Fail(p)
  BY <1>1, <1>3 DEF Fail, AnalyzeRaise, ReportFallback, Crash, WritesWork, At
<1>4. CASE Start(p) \/ Arrive(p)
  <2>1. proc[p] # Idle
    BY <1>1 DEF Idle, Enter
  <2>2. QED
    BY <1>4, <2>1 DEF Start, StartAnalysis, Arrive, AlarmSkip, AlarmCheck, OkGet,
                      AnalyzeClick, SubmitModal, Begin
<1>5. CASE Advance(p) /\ ~ AlarmPut(p)
  BY <1>1, <1>5 DEF Advance, AlarmPost, OkSave, OkDelete, AnalyzeRead, AnalyzeUpdate,
                    AnalyzeInvoke, Analyze, SaveNodeGet, SaveNodePut, ReportRead, ReportUpdate,
                    ReportCause, ResolveGet, ResolveSave, ResolveDelete, ResolveRead,
                    ResolveUpdate, ReadMessage, At
<1>6. QED
  BY <1>2, <1>3, <1>4, <1>5, ActsAlone DEF Acts

LEMMA PutsFirstStep ==
  ASSUME ReliableReads
  PROVE  TypeOK /\ PutsFirst /\ Alone(BusyPC) /\ [Next]_vars => PutsFirst'
<1> SUFFICES ASSUME TypeOK, PutsFirst, Alone(BusyPC), [Next]_vars,
                    NEW p \in Procs, proc'[p].pc \in PutPC
             PROVE  item'[proc'[p].alert] = Absent
  BY DEF PutsFirst
<1>1. CASE proc'[p] = proc[p]
  <2>1. PICK a \in Alerts : a = proc[p].alert
    BY ProcType
  <2>2. item[a] = Absent /\ proc[p].pc \in BusyPC
    BY <1>1, <2>1 DEF PutsFirst, PutPC, BusyPC, AlarmPC, MessagePC, WorkerPC
  <2>3. ASSUME NEW q \in Procs, proc[q].alert = a, EntryDeleted(q) \/ EntryWritten(q)
        PROVE  FALSE
    <3>1. q # p
      BY <1>1, <2>3 DEF EntryDeleted, EntryWritten, RemovePC, PutPC
    <3>2. proc[q].pc # "idle"
      BY <2>3 DEF EntryDeleted, EntryWritten, RemovePC
    <3>3. QED
      BY <2>1, <2>2, <2>3, <3>1, <3>2 DEF Alone
  <2>4. EntryKept(a) \/ EntryRemoved(a, "expired")
    BY <2>3, EntrySteps
  <2>5. QED
    BY <1>1, <2>1, <2>2, <2>4 DEF EntryKept, EntryRemoved
<1>2. CASE UNCHANGED <<item, ended>> /\ (Checks(p) \/ Registers(p))
  BY <1>2, GetsEntry DEF Checks, Registers, PutsFirst, PutPC
<1>3. CASE Sees(p) \/ HasSaved(p)
  BY <1>3 DEF Sees, HasSaved, SavePC, RemovePC, PutPC
<1>4. QED
  BY <1>1, <1>2, <1>3, WatchSteps DEF WatchPC, PutPC

\* The cause an entry is given.
LEMMA EntryIsLateStep == CauseInv /\ Alone(BusyPC) /\ [Next]_vars => EntryIsLate'
<1> SUFFICES ASSUME CauseInv, Alone(BusyPC), [Next]_vars, NEW a \in Alerts
             PROVE  Late(item'[a], ended'[a])
  BY DEF EntryIsLate
<1>1. TypeOK /\ item[a] \in Items /\ Late(item[a], ended[a])
  BY DEF CauseInv, TypeOK, EntryIsLate
<1>2. CASE item'[a] = item[a]
  BY <1>1, <1>2, EndedStays
<1>3. CASE item'[a] = Absent
  BY <1>3 DEF Late, Absent
<1>4. ASSUME NEW p \in Procs, proc[p].alert = a, EntryWritten(p)
      PROVE  Late(item'[a], ended'[a])
  <2> DEFINE n == proc[p].msg
  <2>1. CASE item'[a].ts = n /\ item'[a].rc \in {0, n}
    BY <2>1 DEF Late
  <2>2. CASE proc[p].pc = "rp_cause" /\ item'[a] = WithCause(item[a], n)
    <3>1. proc[p].pc \in MessagePC /\ proc[p].pc \in BusyPC
      BY <2>2 DEF BusyPC, MessagePC, WorkerPC
    <3>2. n \in Msgs /\ n <= posted[a]
      BY <1>1, <1>4, <3>1, ProcType DEF CauseInv, NamedIsPosted
    <3> HIDE DEF n
    <3>3. item'[a].rc = n
      BY <1>1, <2>2 DEF WithCause, Items
    <3>4. CASE item[a].ts = n
      <4>1. item[a].kind # "absent" /\ item[a] # Absent
        BY <1>1, <3>2, <3>4, BoundsAssumption DEF Items, Kinds, Absent, Msgs
      <4>2. item'[a].ts = n
        BY <1>1, <2>2, <3>4, <4>1 DEF WithCause, Items
      <4>3. QED
        BY <3>3, <4>2 DEF Late
    <3>5. CASE Gone(ended[a], n)
      BY <1>1, <3>3, <3>5, EndedStays DEF Late
    <3>6. ASSUME NEW q \in Procs, Pending(q, a, n)
          PROVE  FALSE
      BY <1>4, <2>2, <3>1, <3>6 DEF Alone, Pending
    <3>7. QED
      BY <3>2, <3>4, <3>5, <3>6 DEF CauseInv, PostedIsKnown
  <2>3. QED
    BY <1>4, <2>1, <2>2 DEF EntryWritten
<1>5. QED
  BY <1>1, <1>2, <1>3, <1>4, EntrySteps DEF EntryKept, EntryRemoved, EntryDeleted

\* A posted message still names what it did, or what became of it.
LEMMA PostedIsKnownStep ==
  ASSUME WritesWork
  PROVE  CauseInv /\ [Next]_vars => PostedIsKnown'
<1> SUFFICES ASSUME CauseInv, [Next]_vars, NEW a \in Alerts, NEW n \in Msgs, n <= posted'[a]
             PROVE  \/ item'[a].ts = n
                    \/ Gone(ended'[a], n)
                    \/ \E p \in Procs : Pending(p, a, n)'
  BY DEF PostedIsKnown
<1>1. /\ TypeOK /\ item[a] \in Items /\ posted[a] \in Nat /\ n \in Nat /\ n # 0
      /\ proc \in [Procs -> Locals]
  BY BoundsAssumption DEF CauseInv, TypeOK, Refs, Msgs
<1>2. CASE ~ (n <= posted[a])
  <2>1. PICK p \in Procs : proc[p].alert = a /\ Announces(p)
    BY <1>1, <1>2, PostSteps
  <2>2. n = posted'[a]
    BY <1>1, <1>2, <2>1 DEF Announces
  <2>3. QED
    BY <2>1, <2>2 DEF Announces, Pending
<1>3. CASE n <= posted[a] /\ item[a].ts = n
  <2>1. item[a] # Absent
    BY <1>1, <1>3 DEF Absent
  <2>2. ASSUME NEW how \in {"expired", "deleted"}, EntryRemoved(a, how)
        PROVE  Gone(ended'[a], n)
    BY <1>3, <2>2 DEF EntryRemoved, Gone
  <2>3. ASSUME NEW p \in Procs, proc[p].alert = a, EntryWritten(p)
        PROVE  item'[a].ts = n
    <3>1. proc[p].pc = "rp_cause" /\ item'[a] = WithCause(item[a], proc[p].msg)
      BY <2>1, <2>3 DEF EntryWritten, CauseInv, PutsFirst, PutPC
    <3>2. item[a].kind # "absent"
      BY <1>1, <2>1 DEF Items, Kinds
    <3>3. QED
      BY <1>1, <1>3, <3>1, <3>2 DEF WithCause, Items
  <2>4. QED
    BY <1>1, <1>3, <2>2, <2>3, EntrySteps DEF EntryKept, EntryDeleted
<1>4. CASE Gone(ended[a], n)
  BY <1>1, <1>4, EndedStays
<1>5. ASSUME NEW p \in Procs, Pending(p, a, n)
      PROVE  item'[a].ts = n \/ Pending(p, a, n)'
  BY <1>1, <1>5, PendingSteps DEF Pending
<1>6. QED
  BY <1>2, <1>3, <1>4, <1>5 DEF CauseInv, PostedIsKnown

LEMMA SeenIsLateStep ==
  ASSUME ReliableReads
  PROVE  CauseInv /\ [Next]_vars => SeenIsLate'
<1> SUFFICES ASSUME CauseInv, [Next]_vars
             PROVE  SeenIsLate'
  OBVIOUS
<1>1. TypeOK /\ TypeOK'
  BY StepTypes DEF CauseInv
<1>2. \A p \in Procs : proc'[p].alert \in Alerts
  BY <1>1 DEF TypeOK, Locals, Frames
<1>3. ASSUME NEW p \in Procs, NEW a \in Alerts,
             a = proc'[p].alert, proc'[p].pc \in SavePC
      PROVE  Late(proc'[p].seen, ended'[a])
  <2>1. CASE proc'[p] = proc[p]
    BY <1>1, <1>3, <2>1, EndedStays DEF CauseInv, SeenIsLate
  <2>2. CASE UNCHANGED <<item, ended>> /\ Sees(p)
    BY <1>3, <2>2, GetsEntry DEF Sees, CauseInv, EntryIsLate
  <2>3. CASE Checks(p) \/ Registers(p) \/ HasSaved(p)
    BY <1>3, <2>3 DEF Checks, Registers, HasSaved, SavePC, RemovePC
  <2>4. QED
    BY <1>1, <1>3, <2>1, <2>2, <2>3, WatchSteps DEF WatchPC, ClosePC
<1>4. QED
  BY <1>2, <1>3 DEF SeenIsLate

LEMMA RecordsAreLateStep == CauseInv /\ [Next]_vars => ForeignCauseIsLate'
<1> SUFFICES ASSUME CauseInv, [Next]_vars, NEW a \in Alerts, NEW i \in DOMAIN hist'[a]
             PROVE  hist'[a][i].rc \in {0, hist'[a][i].of} \/ Gone(ended'[a], hist'[a][i].rc)
  BY DEF ForeignCauseIsLate, Gone
<1>1. TypeOK /\ hist[a] \in Seq(Records)
  BY DEF CauseInv, TypeOK
<1>2. \A j \in DOMAIN hist[a] : \/ hist[a][j].rc \in {0, hist[a][j].of}
                                \/ Gone(ended'[a], hist[a][j].rc)
  <2>1. \A j \in DOMAIN hist[a] : \/ hist[a][j].rc \in {0, hist[a][j].of}
                                  \/ Gone(ended[a], hist[a][j].rc)
    BY DEF CauseInv, ForeignCauseIsLate, Gone
  <2>2. QED
    BY <1>1, <2>1, EndedStays
<1>3. CASE hist'[a] = hist[a]
  BY <1>2, <1>3
<1>4. ASSUME NEW p \in Procs, proc[p].alert = a, Saves(p)
      PROVE  hist'[a][i].rc \in {0, hist'[a][i].of} \/ Gone(ended'[a], hist'[a][i].rc)
  <2>1. Late(proc[p].seen, ended'[a])
    BY <1>1, <1>4, EndedStays DEF Saves, CauseInv, SeenIsLate
  <2>2. PICK by : hist'[a] = Append(hist[a], [by |-> by, of |-> proc[p].seen.ts,
                                              rc |-> proc[p].seen.rc])
    BY <1>4 DEF Saves
  <2>3. CASE i \in DOMAIN hist[a]
    <3>1. hist'[a][i] = hist[a][i]
      BY <1>1, <2>2, <2>3
    <3>2. QED
      BY <1>2, <2>3, <3>1
  <2>4. CASE i \notin DOMAIN hist[a]
    <3>1. hist'[a][i] = [by |-> by, of |-> proc[p].seen.ts, rc |-> proc[p].seen.rc]
      BY <1>1, <2>2, <2>4
    <3>2. hist'[a][i].of = proc[p].seen.ts /\ hist'[a][i].rc = proc[p].seen.rc
      BY <3>1
    <3>3. QED
      BY <2>1, <3>2 DEF Late
  <2>5. QED
    BY <2>3, <2>4
<1>5. QED
  BY <1>1, <1>3, <1>4, SaveSteps

LEMMA CauseInit == Init => CauseInv
<1> SUFFICES ASSUME Init
             PROVE  CauseInv
  OBVIOUS
<1>1. \A p \in Procs : proc[p].pc = "idle"
  BY NobodyAtFirst
<1>2. PutsFirst /\ SeenIsLate
  BY <1>1 DEF PutsFirst, PutPC, SeenIsLate, SavePC
<1>3. EntryIsLate
  BY DEF Init, EntryIsLate, Late, Absent
<1>4. PostedIsKnown
  BY BoundsAssumption DEF Init, PostedIsKnown, Msgs
<1>5. ForeignCauseIsLate
  BY DEF Init, ForeignCauseIsLate
<1>6. QED
  BY <1>2, <1>3, <1>4, <1>5, InitTypes, NamedInit DEF CauseInv

\* A record names another incident's cause only if that incident had ended, when
\* the invocations of one alert do not overlap, reads of the table see the last
\* write, its writes do not fail and nothing is killed: only an analysis that
\* outlives its incident misplaces its cause.
THEOREM ForeignCausesLate ==
  ASSUME ReliableReads, WritesWork
  PROVE  Spec /\ []Alone(BusyPC) => []ForeignCauseIsLate
<1>1. CauseInv /\ Alone(BusyPC) /\ [Next]_vars => CauseInv'
  <2> SUFFICES ASSUME CauseInv, Alone(BusyPC), [Next]_vars
               PROVE  CauseInv'
    OBVIOUS
  <2>1. TypeOK' /\ NamedIsPosted'
    BY StepTypes, NamedStep DEF CauseInv
  <2>2. PutsFirst'
    BY PutsFirstStep DEF CauseInv
  <2>3. EntryIsLate' /\ PostedIsKnown'
    BY EntryIsLateStep, PostedIsKnownStep
  <2>4. SeenIsLate' /\ ForeignCauseIsLate'
    BY SeenIsLateStep, RecordsAreLateStep
  <2>5. QED
    BY <2>1, <2>2, <2>3, <2>4 DEF CauseInv
<1>2. CauseInv => ForeignCauseIsLate
  BY DEF CauseInv
<1>3. QED
  BY <1>1, <1>2, CauseInit, PTL DEF Spec

-----------------------------------------------------------------------------
(* One invocation of an alert at a time.                                   *)

OneAtATime == \A p, q \in Procs : p = q

LEMMA OneIsAlone ==
  ASSUME OneAtATime, NEW pcs
  PROVE  Alone(pcs) /\ OneRewriter
BY DEF OneAtATime, Alone, OneRewriter

\* Invocations that run one after the other announce no incident twice, take no
\* answer away, record what they delete, and misplace a cause only when the
\* incident it belongs to had ended, if no call fails and nothing is killed.
THEOREM OneAtATimeKeeps ==
  ASSUME OneAtATime, Faults = {}
  PROVE  Spec => /\ OneMessagePerIncident
                 /\ SectionsKept
                 /\ []DeletedWasRecorded
                 /\ []ForeignCauseIsLate
<1>1. /\ Alone({"alarm_post"}) /\ Alone(ClosePC) /\ Alone(BusyPC)
      /\ OneRewriter
  BY OneIsAlone
<1>2. ReliableReads /\ WritesWork /\ SavesWork /\ ReadsBackWork
  BY DEF ReliableReads, WritesWork, SavesWork, ReadsBackWork
<1>3. /\ Spec /\ []Alone({"alarm_post"}) => OneMessagePerIncident
      /\ Spec /\ []OneRewriter => SectionsKept
      /\ Spec /\ []Alone(ClosePC) => []DeletedWasRecorded
      /\ Spec /\ []Alone(BusyPC) => []ForeignCauseIsLate
  BY <1>2, MessagesPerIncident, AnswersStay, DeletionsRecorded, ForeignCausesLate
<1>4. QED
  BY <1>1, <1>3, PTL
=============================================================================
