---------------------------- MODULE RecordProofs ----------------------------
(***************************************************************************)
(* What a message shows is backed by the stores: a resolution by a record, *)
(* if records are saved, and an alert by its description, if messages can  *)
(* be read back.  Every other call may fail, and any invocation may die,   *)
(* run twice or overlap with any other.                                    *)
(***************************************************************************)
EXTENDS IncidentProofs

-----------------------------------------------------------------------------
(* What a step does to what an invocation holds.                           *)

\* It begins: on a message only where a button, a job or a dialog names one.
StartPC == {"alarm_post", "ok_save", "an_read", "rca", "rs_get"}
Enters(q) ==
  \E pc \in StartPC, a \in Alerts, n \in Refs, i \in Items :
    /\ proc'[q] = Enter(pc, a, n, i)
    /\ pc \in MessagePC =>
         n \in Msgs /\ (blocks[a][n] # {} \/ jobs[a][n] > 0 \/ modals[a][n] > 0)

\* It goes on with the same blocks, and past rs_save only by saving.
GoesOn(q) ==
  /\ proc'[q].alert = proc[q].alert
  /\ proc'[q].blocks = proc[q].blocks
  /\ proc'[q].pc \notin UpdatePC
  /\ proc'[q].pc = "rs_delete" => ResolveSave(q)
  /\ proc'[q].pc = "rs_read" => At(q, "rs_delete")
  /\ proc'[q].pc \in MessagePC => proc[q].pc \in MessagePC /\ proc'[q].msg = proc[q].msg

\* It reads its message back, to write it again.
ReadsBack(q) ==
  /\ proc[q].pc \in MessagePC
  /\ proc'[q].alert = proc[q].alert
  /\ proc'[q].msg = proc[q].msg
  /\ \E b \in Reads(proc[q].alert, proc[q].msg) : proc'[q].blocks = Strip(b)
  /\ proc'[q].pc \in UpdatePC
  /\ proc'[q].pc = "rs_update" => At(q, "rs_read")
  /\ UNCHANGED blocks

\* Every step does one of these to one invocation, or makes it idle.
LEMMA FrameSteps ==
  ASSUME TypeOK, [Next]_vars, NEW q \in Procs
  PROVE  \/ proc'[q] = proc[q]
         \/ proc'[q] = Idle
         \/ Enters(q) \/ GoesOn(q) \/ ReadsBack(q)
<1> DEFINE Same == proc'[q] = proc[q]
           Ends == proc'[q] = Idle
<1> USE DEF StartPC, UpdatePC
<1>1. /\ proc \in [Procs -> Locals]
      /\ \A p \in Procs : proc[p] \in Frames
  BY DEF TypeOK, Locals
<1>2. ASSUME NEW p \in Procs, Return(p)
      PROVE  Same \/ Ends
  BY <1>1, <1>2 DEF Return
<1>3. ASSUME NEW p \in Procs, NEW pc \in StartPC, NEW a \in Alerts, NEW n \in Refs,
             NEW i \in Items, Begin(p, Enter(pc, a, n, i)),
             pc \in MessagePC =>
               n \in Msgs /\ (blocks[a][n] # {} \/ jobs[a][n] > 0 \/ modals[a][n] > 0)
      PROVE  Same \/ Enters(q)
  BY <1>1, <1>3 DEF Begin, Enters
<1>4. ASSUME NEW p \in Procs, NEW pc \in BusyPC, Goto(p, pc), pc \notin UpdatePC,
             pc = "rs_delete" => ResolveSave(p),
             pc = "rs_read" => At(p, "rs_delete"),
             pc \in MessagePC => proc[p].pc \in MessagePC
      PROVE  Same \/ GoesOn(q)
  <2>1. q # p => Same
    BY <1>1, <1>4 DEF Goto
  <2>2. proc'[p] = [proc[p] EXCEPT !.pc = pc] /\ proc[p] \in Frames
    BY <1>1, <1>4 DEF Goto
  <2>3. /\ proc'[p].pc = pc
        /\ proc'[p].alert = proc[p].alert
        /\ proc'[p].blocks = proc[p].blocks
        /\ proc'[p].msg = proc[p].msg
    BY <2>2 DEF Frames
  <2>4. QED
    BY <1>4, <2>1, <2>3 DEF GoesOn
<1>5. ASSUME NEW p \in Procs, NEW from \in MessagePC, NEW to \in UpdatePC,
             to = "rs_update" => from = "rs_read", ReadMessage(p, from, to)
      PROVE  Same \/ ReadsBack(q)
  <2>1. PICK b \in Reads(proc[p].alert, proc[p].msg) :
          proc' = [proc EXCEPT ![p].pc = to, ![p].blocks = Strip(b)]
    BY <1>5 DEF ReadMessage
  <2>2. q # p => Same
    BY <1>1, <2>1
  <2>3. /\ proc'[p].pc = to
        /\ proc'[p].alert = proc[p].alert
        /\ proc'[p].msg = proc[p].msg
        /\ proc'[p].blocks = Strip(b)
    BY <1>1, <2>1 DEF Frames
  <2>4. QED
    BY <1>5, <2>1, <2>2, <2>3 DEF ReadsBack, ReadMessage, At
<1>6. CASE UNCHANGED vars
  BY <1>6 DEF vars
<1>7. ASSUME NEW p \in Procs, Advance(p)
      PROVE  Same \/ Ends \/ GoesOn(q) \/ ReadsBack(q)
  <2> USE DEF At, BusyPC, MessagePC, AlarmPC, OkPC, AnalyzePC, WorkerPC, ResolvePC
  <2>1. CASE AlarmPost(p)
    <3>1. CASE Goto(p, "alarm_put")
      BY <1>4, <3>1
    <3>2. CASE proc' = [proc EXCEPT ![p].pc = "alarm_put", ![p].msg = posted[proc[p].alert] + 1]
      <4>1. q # p => Same
        BY <1>1, <3>2
      <4>2. /\ proc'[p].pc = "alarm_put"
            /\ proc'[p].alert = proc[p].alert
            /\ proc'[p].blocks = proc[p].blocks
        BY <1>1, <3>2 DEF Frames
      <4>3. QED
        BY <4>1, <4>2 DEF GoesOn
    <3>3. QED
      BY <2>1, <3>1, <3>2 DEF AlarmPost
  <2>2. CASE AlarmPut(p) \/ OkDelete(p) \/ AnalyzeInvoke(p) \/ ReportCause(p) \/ ResolveUpdate(p)
    BY <1>2, <2>2 DEF AlarmPut, OkDelete, AnalyzeInvoke, ReportCause, ResolveUpdate
  <2>3. CASE OkSave(p) \/ AnalyzeUpdate(p) \/ SaveNodePut(p)
    BY <1>4, <2>3 DEF OkSave, AnalyzeUpdate, SaveNodePut
  <2>4. CASE SaveNodeGet(p)
    BY <1>4, <2>4 DEF SaveNodeGet
  <2>5. CASE ReportUpdate(p)
    BY <1>2, <1>4, <2>5 DEF ReportUpdate
  <2>6. CASE ResolveSave(p) \/ ResolveDelete(p)
    <3>1. CASE ResolveSave(p)
      BY <1>4, <3>1 DEF ResolveSave
    <3>2. CASE ResolveDelete(p)
      BY <1>4, <3>2 DEF ResolveDelete
    <3>3. QED
      BY <2>6, <3>1, <3>2
  <2>7. CASE AnalyzeRead(p) \/ ReportRead(p) \/ ResolveRead(p)
    BY <1>5, <2>7 DEF AnalyzeRead, ReportRead, ResolveRead
  <2>8. CASE Analyze(p)
    <3>1. PICK r \in Reports : proc' = [proc EXCEPT ![p].pc = "ms_get", ![p].report = r]
      BY <2>8 DEF Analyze
    <3>2. q # p => Same
      BY <1>1, <3>1
    <3>3. /\ proc'[p].pc = "ms_get"
          /\ proc'[p].alert = proc[p].alert
          /\ proc'[p].blocks = proc[p].blocks
          /\ proc'[p].msg = proc[p].msg
      BY <1>1, <3>1 DEF Frames
    <3>4. QED
      BY <2>8, <3>2, <3>3 DEF GoesOn, Analyze
  <2>9. CASE ResolveGet(p)
    <3>1. PICK i \in Gets(proc[p].alert) :
            proc' = [proc EXCEPT ![p].pc = "rs_save", ![p].seen = i]
      BY <2>9 DEF ResolveGet
    <3>2. q # p => Same
      BY <1>1, <3>1
    <3>3. /\ proc'[p].pc = "rs_save"
          /\ proc'[p].alert = proc[p].alert
          /\ proc'[p].blocks = proc[p].blocks
          /\ proc'[p].msg = proc[p].msg
      BY <1>1, <3>1 DEF Frames
    <3>4. QED
      BY <2>9, <3>2, <3>3 DEF GoesOn, ResolveGet
  <2>10. QED
    BY <1>7, <2>1, <2>2, <2>3, <2>4, <2>5, <2>6, <2>7, <2>8, <2>9 DEF Advance
<1>8. ASSUME NEW p \in Procs, Start(p) \/ Arrive(p)
      PROVE  Same \/ Enters(q)
  <2> USE DEF MessagePC, AnalyzePC, WorkerPC, ResolvePC
  <2>1. /\ Absent \in Items
        /\ 0 \in Refs
        /\ \A n \in Msgs : n \in Refs
        /\ \A a \in Alerts : \A i \in Gets(a) : i \in Items
    BY AbsentType, GetsType, BoundsAssumption DEF Msgs, Refs
  <2>2. CASE Start(p)
    BY <1>3, <2>1, <2>2 DEF Start, StartAnalysis
  <2>3. ASSUME NEW a \in Alerts, AlarmSkip(p, a) \/ AlarmCheck(p, a)
        PROVE  Same \/ Enters(q)
    BY <1>3, <2>1, <2>3 DEF AlarmSkip, AlarmCheck
  <2>4. ASSUME NEW a \in Alerts, OkGet(p, a)
        PROVE  Same \/ Enters(q)
    BY <1>3, <2>1, <2>4 DEF OkGet
  <2>5. ASSUME NEW a \in Alerts, NEW n \in Msgs, AnalyzeClick(p, a, n)
        PROVE  Same \/ Enters(q)
    BY <1>3, <2>1, <2>5 DEF AnalyzeClick
  <2>6. ASSUME NEW a \in Alerts, NEW n \in Msgs, SubmitModal(p, a, n)
        PROVE  Same \/ Enters(q)
    BY <1>3, <2>1, <2>6 DEF SubmitModal
  <2>7. QED
    BY <1>8, <2>2, <2>3, <2>4, <2>5, <2>6 DEF Arrive
<1>9. ASSUME NEW p \in Procs, Fail(p)
      PROVE  Same \/ Ends
  BY <1>2, <1>9 DEF Fail, AnalyzeRaise, ReportFallback, Crash
<1>10. ASSUME NEW a \in Alerts, Expire(a) \/ \E n \in Msgs : OpenModal(a, n)
       PROVE  Same
  BY <1>10 DEF Expire, OpenModal
<1>11. CASE Next
  BY <1>7, <1>8, <1>9, <1>10, <1>11 DEF Next
<1>12. QED
  BY <1>6, <1>11

-----------------------------------------------------------------------------
(* A resolution shown is a resolution recorded.                            *)

\* create_event does not fail.
SavesWork == "save" \notin Faults

Recorded(a) == \E i \in DOMAIN hist[a] : hist[a][i].by = "human"

\* Whoever is past saving, or has a resolution in hand, resolved an alert that
\* has a human's record.
ResolvingIsRecorded ==
  \A p \in Procs :
    proc[p].pc \in {"rs_delete", "rs_read", "rs_update"} \/ "resolved" \in proc[p].blocks
      => Recorded(proc[p].alert)

ResolvedInv == TypeOK /\ ResolvedIsRecorded /\ ResolvingIsRecorded

\* A record once saved stays.
LEMMA RecordedStays ==
  ASSUME TypeOK, [Next]_vars, NEW a \in Alerts, Recorded(a)
  PROVE  Recorded(a)'
<1>1. hist \in [Alerts -> Seq(Records)] /\ hist[a] \in Seq(Records)
  BY DEF TypeOK
<1>2. ASSUME UNCHANGED hist
      PROVE  Recorded(a)'
  BY <1>2 DEF Recorded
<1>3. ASSUME NEW b \in Alerts, NEW r \in Records, SaveIncident(b, r)
      PROVE  Recorded(a)'
  <2>1. CASE hist' = [hist EXCEPT ![b] = Append(@, r)]
    <3>1. CASE a = b
      <4>1. hist'[a] = Append(hist[a], r)
        BY <1>1, <2>1, <3>1
      <4>2. PICK i \in DOMAIN hist[a] : hist[a][i].by = "human"
        BY DEF Recorded
      <4>3. i \in DOMAIN hist'[a] /\ hist'[a][i] = hist[a][i]
        BY <1>1, <4>1
      <4>4. QED
        BY <4>2, <4>3 DEF Recorded
    <3>2. CASE a # b
      BY <1>1, <2>1, <3>2 DEF Recorded
    <3>3. QED
      BY <3>1, <3>2
  <2>2. QED
    BY <1>2, <1>3, <2>1 DEF SaveIncident
<1>4. ASSUME NEW p \in Procs, OkSave(p) \/ ResolveSave(p)
      PROVE  Recorded(a)'
  <2>1. /\ proc[p].alert \in Alerts
        /\ proc[p].seen.ts \in Refs
        /\ proc[p].seen.rc \in Refs
    BY ProcType, ItemFields
  <2>2. \A w \in {"auto", "human"} :
          [by |-> w, of |-> proc[p].seen.ts, rc |-> proc[p].seen.rc] \in Records
    BY <2>1 DEF Records
  <2>3. QED
    BY <1>3, <1>4, <2>1, <2>2 DEF OkSave, ResolveSave
<1>5. ASSUME NEW p \in Procs,
             \/ AlarmPost(p) \/ AlarmPut(p) \/ OkDelete(p)
             \/ AnalyzeRead(p) \/ AnalyzeUpdate(p) \/ AnalyzeInvoke(p)
             \/ Analyze(p) \/ SaveNodeGet(p) \/ SaveNodePut(p)
             \/ ReportRead(p) \/ ReportUpdate(p) \/ ReportCause(p)
             \/ ResolveGet(p) \/ ResolveDelete(p) \/ ResolveRead(p) \/ ResolveUpdate(p)
             \/ Start(p) \/ Arrive(p) \/ Fail(p)
      PROVE  UNCHANGED hist
  <2>1. CASE Start(p) \/ Arrive(p) \/ Fail(p)
    BY <2>1 DEF Start, StartAnalysis, Arrive, AlarmSkip, AlarmCheck, OkGet,
                AnalyzeClick, SubmitModal, Fail, AnalyzeRaise, ReportFallback, Crash
  <2>2. CASE \/ AlarmPost(p) \/ AlarmPut(p) \/ OkDelete(p)
             \/ AnalyzeRead(p) \/ AnalyzeUpdate(p) \/ AnalyzeInvoke(p)
    BY <2>2 DEF AlarmPost, AlarmPut, OkDelete, AnalyzeRead, AnalyzeUpdate,
                AnalyzeInvoke, ReadMessage
  <2>3. CASE \/ Analyze(p) \/ SaveNodeGet(p) \/ SaveNodePut(p)
             \/ ReportRead(p) \/ ReportUpdate(p) \/ ReportCause(p)
    BY <2>3 DEF Analyze, SaveNodeGet, SaveNodePut, ReportRead, ReportUpdate,
                ReportCause, ReadMessage
  <2>4. CASE ResolveGet(p) \/ ResolveDelete(p) \/ ResolveRead(p) \/ ResolveUpdate(p)
    BY <2>4 DEF ResolveGet, ResolveDelete, ResolveRead, ResolveUpdate, ReadMessage
  <2>5. QED
    BY <1>5, <2>1, <2>2, <2>3, <2>4
<1>6. ASSUME NEW b \in Alerts, Expire(b) \/ \E n \in Msgs : OpenModal(b, n)
      PROVE  UNCHANGED hist
  BY <1>6 DEF Expire, OpenModal
<1>7. CASE UNCHANGED vars
  BY <1>2, <1>7 DEF vars
<1>8. ASSUME NEW p \in Procs, Advance(p)
      PROVE  Recorded(a)'
  BY <1>2, <1>4, <1>5, <1>8 DEF Advance
<1>9. CASE Next
  BY <1>2, <1>5, <1>6, <1>8, <1>9 DEF Next
<1>10. QED
  BY <1>7, <1>9

\* A resolution that is saved leaves a human's record.
LEMMA SavedIsRecorded ==
  ASSUME TypeOK, SavesWork, NEW p \in Procs, NEW a \in Alerts, a = proc[p].alert,
         ResolveSave(p)
  PROVE  Recorded(a)'
<1> DEFINE r == [by |-> "human", of |-> proc[p].seen.ts, rc |-> proc[p].seen.rc]
<1>1. hist \in [Alerts -> Seq(Records)] /\ hist[a] \in Seq(Records)
  BY DEF TypeOK
<1>2. hist' = [hist EXCEPT ![a] = Append(@, r)]
  BY DEF ResolveSave, SaveIncident, SavesWork
<1>3. hist'[a] = Append(hist[a], r)
  BY <1>1, <1>2
<1> DEFINE n == Len(hist[a]) + 1
<1>4. n \in DOMAIN hist'[a] /\ hist'[a][n] = r
  BY <1>1, <1>3
<1> HIDE DEF n
<1>5. \E i \in DOMAIN hist'[a] : hist'[a][i].by = "human"
  BY <1>4
<1>6. QED
  BY <1>5 DEF Recorded

\* A step keeps both: what is in hand came from the message or from saving.
LEMMA ResolvedStep == SavesWork /\ ResolvedInv /\ [Next]_vars => ResolvedInv'
<1> SUFFICES ASSUME SavesWork, TypeOK, ResolvedIsRecorded, ResolvingIsRecorded, [Next]_vars
             PROVE  ResolvedInv'
  BY DEF ResolvedInv
<1>1. TypeOK'
  BY StepTypes
<1>2. \A p \in Procs : proc[p].alert \in Alerts
  BY ProcType
<1>3. ASSUME NEW q \in Procs,
             \/ proc'[q].pc \in {"rs_delete", "rs_read", "rs_update"}
             \/ "resolved" \in proc'[q].blocks
      PROVE  \E b \in Alerts : b = proc'[q].alert /\ Recorded(b)'
  <2>1. PICK a \in Alerts : a = proc[q].alert
    BY <1>2
  <2> USE <2>1
  <2>2. CASE proc'[q] = proc[q]
    BY <1>3, <2>1, <2>2, RecordedStays DEF ResolvingIsRecorded
  <2>3. CASE proc'[q] = Idle \/ Enters(q)
    <3>1. CASE proc'[q] = Idle
      BY <1>3, <3>1 DEF Idle, Enter
    <3>2. ASSUME NEW pc \in StartPC, NEW b, NEW n, NEW i, proc'[q] = Enter(pc, b, n, i)
          PROVE  FALSE
      BY <1>3, <3>2 DEF Enter, StartPC
    <3>3. QED
      BY <2>3, <3>1, <3>2 DEF Enters
  <2>4. CASE GoesOn(q)
    <3>1. CASE ResolveSave(q)
      <4>1. Recorded(a)'
        BY <2>1, <3>1, SavedIsRecorded
      <4>2. QED
        BY <2>1, <2>4, <4>1 DEF GoesOn
    <3>2. CASE ~ResolveSave(q)
      <4>1. At(q, "rs_delete") \/ "resolved" \in proc[q].blocks
        BY <1>3, <2>4, <3>2 DEF GoesOn, UpdatePC
      <4>2. QED
        BY <2>1, <2>4, <4>1, RecordedStays DEF GoesOn, ResolvingIsRecorded, At
    <3>3. QED
      BY <3>1, <3>2
  <2>5. CASE ReadsBack(q)
    <3>1. proc[q].msg \in Msgs /\ proc'[q].alert = a
      BY <2>5, ProcType DEF ReadsBack
    <3>2. CASE At(q, "rs_read")
      BY <2>1, <3>1, <3>2, RecordedStays DEF ResolvingIsRecorded, At
    <3>3. CASE ~At(q, "rs_read")
      <4>1. "resolved" \in proc'[q].blocks
        BY <1>3, <2>5, <3>3 DEF ReadsBack, UpdatePC
      <4>2. PICK b \in Reads(a, proc[q].msg) : proc'[q].blocks = Strip(b)
        BY <2>5 DEF ReadsBack
      <4>3. "resolved" \in blocks[a][proc[q].msg]
        BY <4>1, <4>2 DEF Strip, Reads
      <4>4. Recorded(a)
        BY <2>1, <3>1, <4>3 DEF ResolvedIsRecorded, Recorded
      <4>5. QED
        BY <2>1, <3>1, <4>4, RecordedStays
    <3>4. QED
      BY <3>2, <3>3
  <2>6. QED
    BY <2>2, <2>3, <2>4, <2>5, FrameSteps
<1>4. ResolvingIsRecorded'
  BY <1>1, <1>3 DEF ResolvingIsRecorded, Recorded
<1>5. ASSUME NEW c \in Alerts, NEW m \in Msgs, "resolved" \in blocks'[c][m]
      PROVE  Recorded(c)'
  <2>1. blocks \in [Alerts -> [Msgs -> SUBSET Sections]]
    BY DEF TypeOK
  <2>2. CASE "resolved" \in blocks[c][m]
    BY <2>2, RecordedStays DEF ResolvedIsRecorded, Recorded
  <2>3. CASE "resolved" \notin blocks[c][m]
    <3>1. CASE UNCHANGED blocks
      BY <1>5, <2>3, <3>1
    <3>2. CASE \E a \in Alerts, n \in Msgs : Posts(a, n)
      BY <1>5, <2>1, <2>3, <3>2 DEF Posts, SimpleMessage
    <3>3. ASSUME NEW p \in Procs, NEW x \in Additions, Rewrites(p, x)
          PROVE  Recorded(c)'
      <4>1. c = proc[p].alert /\ "resolved" \in proc[p].blocks \union x
        BY <1>5, <2>1, <2>3, <3>3 DEF Rewrites
      <4>2. Recorded(c)
        BY <3>3, <4>1 DEF Rewrites, At, ResolvingIsRecorded
      <4>3. QED
        BY <4>2, RecordedStays
    <3>4. QED
      BY <3>1, <3>2, <3>3, MessageSteps
  <2>4. QED
    BY <2>2, <2>3
<1>6. ResolvedIsRecorded'
  BY <1>5 DEF ResolvedIsRecorded, Recorded
<1>7. QED
  BY <1>1, <1>4, <1>6 DEF ResolvedInv

\* If saving works, whatever else fails or overlaps, "the resolution was stored
\* in long-term memory" is shown only for an alert that has a human's record.
THEOREM ResolutionsRecorded ==
  ASSUME SavesWork
  PROVE  Spec => []ResolvedIsRecorded
<1>1. ASSUME Init
      PROVE  ResolvedInv
  <2>1. TypeOK
    BY <1>1, InitTypes
  <2>2. \A p \in Procs : proc[p].pc = "idle" /\ proc[p].blocks = {}
    BY <1>1 DEF Init, Idle, Enter
  <2>3. \A a \in Alerts : \A n \in Msgs : blocks[a][n] = {}
    BY <1>1 DEF Init
  <2>4. QED
    BY <2>1, <2>2, <2>3 DEF ResolvedInv, ResolvedIsRecorded, ResolvingIsRecorded
<1>2. ResolvedInv /\ [Next]_vars => ResolvedInv'
  BY ResolvedStep
<1>3. ResolvedInv => ResolvedIsRecorded
  BY DEF ResolvedInv
<1>4. QED
  BY <1>1, <1>2, <1>3, PTL DEF Spec

-----------------------------------------------------------------------------
(* A posted message keeps the description of its alert.                    *)

\* Reading a message back does not fail.
ReadsBackWork == "read" \notin Faults

\* Buttons, jobs, dialogs and invocations name posted messages only.
NamedIsPosted ==
  /\ \A a \in Alerts : \A n \in Msgs :
       blocks[a][n] # {} \/ jobs[a][n] > 0 \/ modals[a][n] > 0 => n <= posted[a]
  /\ \A p \in Procs : proc[p].pc \in MessagePC => proc[p].msg <= posted[proc[p].alert]

\* Whoever is about to rewrite a message has its description in hand.
SummaryInHand == \A p \in Procs : proc[p].pc \in UpdatePC => "summary" \in proc[p].blocks

SummaryInv == TypeOK /\ SummaryKept /\ NamedIsPosted /\ SummaryInHand

\* An analysis is requested only by an invocation that works on its message.
LEMMA JobSteps ==
  ASSUME TypeOK, [Next]_vars, NEW a \in Alerts, NEW n \in Msgs, jobs'[a][n] > 0
  PROVE  \/ jobs[a][n] > 0
         \/ \E p \in Procs : /\ proc[p].pc \in MessagePC
                             /\ proc[p].alert = a
                             /\ proc[p].msg = n
<1>1. jobs \in [Alerts -> [Msgs -> Nat]] /\ \A b \in Alerts : jobs[b] \in [Msgs -> Nat]
  BY DEF TypeOK
<1> DEFINE Named == \E p \in Procs : /\ proc[p].pc \in MessagePC
                                     /\ proc[p].alert = a
                                     /\ proc[p].msg = n
<1>2. ASSUME UNCHANGED jobs
      PROVE  jobs[a][n] > 0
  BY <1>2
<1>3. ASSUME NEW p \in Procs, proc[p].pc \in MessagePC,
             jobs' = [jobs EXCEPT ![proc[p].alert][proc[p].msg] = @ + 1]
      PROVE  jobs[a][n] > 0 \/ Named
  <2>1. proc[p].alert \in Alerts /\ proc[p].msg \in Msgs
    BY <1>3, ProcType
  <2>2. CASE proc[p].alert = a /\ proc[p].msg = n
    BY <1>3, <2>2
  <2>3. CASE ~(proc[p].alert = a /\ proc[p].msg = n)
    BY <1>1, <1>3, <2>1, <2>3
  <2>4. QED
    BY <2>2, <2>3
<1>4. ASSUME NEW p \in Procs, AnalyzeInvoke(p)
      PROVE  jobs[a][n] > 0 \/ Named
  BY <1>2, <1>3, <1>4 DEF AnalyzeInvoke, At, MessagePC, AnalyzePC
<1>5. ASSUME NEW p \in Procs, Fail(p)
      PROVE  jobs[a][n] > 0 \/ Named
  <2>1. CASE UNCHANGED jobs
    BY <1>2, <2>1
  <2>2. CASE proc[p].pc \in MessagePC /\ MaybeRetry(proc[p].alert, proc[p].msg)
    BY <1>2, <1>3, <2>2 DEF MaybeRetry
  <2>3. QED
    BY <1>5, <2>1, <2>2
       DEF Fail, AnalyzeRaise, ReportFallback, Crash, MessagePC, WorkerPC
<1>6. ASSUME NEW p \in Procs, Start(p)
      PROVE  jobs[a][n] > 0
  <2>1. PICK b \in Alerts, m \in Msgs : StartAnalysis(p, b, m)
    BY <1>6 DEF Start
  <2>2. CASE jobs' = [jobs EXCEPT ![b][m] = @ - 1]
    <3>1. CASE b = a /\ m = n
      BY <2>1, <3>1 DEF StartAnalysis
    <3>2. CASE ~(b = a /\ m = n)
      BY <1>1, <2>2, <3>2
    <3>3. QED
      BY <3>1, <3>2
  <2>3. QED
    BY <1>2, <2>1, <2>2 DEF StartAnalysis
<1>7. ASSUME NEW p \in Procs, Arrive(p)
      PROVE  UNCHANGED jobs
  BY <1>7 DEF Arrive, AlarmSkip, AlarmCheck, OkGet, AnalyzeClick, SubmitModal
<1>8. ASSUME NEW p \in Procs, Advance(p), ~AnalyzeInvoke(p)
      PROVE  UNCHANGED jobs
  <2>1. CASE \/ AlarmPost(p) \/ AlarmPut(p) \/ OkSave(p) \/ OkDelete(p)
             \/ AnalyzeRead(p) \/ AnalyzeUpdate(p)
    BY <2>1 DEF AlarmPost, AlarmPut, OkSave, OkDelete, AnalyzeRead, AnalyzeUpdate, ReadMessage
  <2>2. CASE \/ Analyze(p) \/ SaveNodeGet(p) \/ SaveNodePut(p)
             \/ ReportRead(p) \/ ReportUpdate(p) \/ ReportCause(p)
    BY <2>2 DEF Analyze, SaveNodeGet, SaveNodePut, ReportRead, ReportUpdate,
                ReportCause, ReadMessage
  <2>3. CASE \/ ResolveGet(p) \/ ResolveSave(p) \/ ResolveDelete(p)
             \/ ResolveRead(p) \/ ResolveUpdate(p)
    BY <2>3 DEF ResolveGet, ResolveSave, ResolveDelete, ResolveRead, ResolveUpdate, ReadMessage
  <2>4. QED
    BY <1>8, <2>1, <2>2, <2>3 DEF Advance
<1>9. ASSUME NEW b \in Alerts, Expire(b) \/ \E m \in Msgs : OpenModal(b, m)
      PROVE  UNCHANGED jobs
  BY <1>9 DEF Expire, OpenModal
<1>10. CASE UNCHANGED vars
  BY <1>2, <1>10 DEF vars
<1>11. CASE Next
  BY <1>2, <1>4, <1>5, <1>6, <1>7, <1>8, <1>9, <1>11 DEF Next
<1>12. QED
  BY <1>10, <1>11

\* A dialog is opened only from a button of its message.
LEMMA ModalSteps ==
  ASSUME TypeOK, [Next]_vars, NEW a \in Alerts, NEW n \in Msgs, modals'[a][n] > 0
  PROVE  modals[a][n] > 0 \/ blocks[a][n] # {}
<1>1. modals \in [Alerts -> [Msgs -> Nat]] /\ \A b \in Alerts : modals[b] \in [Msgs -> Nat]
  BY DEF TypeOK
<1>2. ASSUME UNCHANGED modals
      PROVE  modals[a][n] > 0
  BY <1>2
<1>3. ASSUME NEW b \in Alerts, NEW m \in Msgs, OpenModal(b, m)
      PROVE  modals[a][n] > 0 \/ blocks[a][n] # {}
  <2>1. modals' = [modals EXCEPT ![b][m] = @ + 1] /\ blocks[b][m] # {}
    BY <1>3 DEF OpenModal
  <2>2. CASE ~(b = a /\ m = n)
    BY <1>1, <2>1, <2>2
  <2>3. QED
    BY <2>1, <2>2
<1>4. ASSUME NEW p \in Procs, NEW b \in Alerts, NEW m \in Msgs, SubmitModal(p, b, m)
      PROVE  modals[a][n] > 0
  <2>1. CASE modals' = [modals EXCEPT ![b][m] = @ - 1]
    <3>1. CASE ~(b = a /\ m = n)
      BY <1>1, <2>1, <3>1
    <3>2. QED
      BY <1>4, <3>1 DEF SubmitModal
  <2>2. QED
    BY <1>2, <1>4, <2>1 DEF SubmitModal
<1>5. ASSUME NEW p \in Procs, Start(p) \/ Arrive(p) \/ Fail(p)
      PROVE  modals[a][n] > 0
  <2>1. CASE Start(p) \/ Fail(p)
    BY <1>2, <2>1 DEF Start, StartAnalysis, Fail, AnalyzeRaise, ReportFallback, Crash
  <2>2. CASE Arrive(p)
    BY <1>2, <1>4, <2>2 DEF Arrive, AlarmSkip, AlarmCheck, OkGet, AnalyzeClick
  <2>3. QED
    BY <1>5, <2>1, <2>2
<1>6. ASSUME NEW p \in Procs, Advance(p)
      PROVE  UNCHANGED modals
  <2>1. CASE \/ AlarmPost(p) \/ AlarmPut(p) \/ OkSave(p) \/ OkDelete(p)
             \/ AnalyzeRead(p) \/ AnalyzeUpdate(p) \/ AnalyzeInvoke(p)
    BY <2>1 DEF AlarmPost, AlarmPut, OkSave, OkDelete, AnalyzeRead, AnalyzeUpdate,
                AnalyzeInvoke, ReadMessage
  <2>2. CASE \/ Analyze(p) \/ SaveNodeGet(p) \/ SaveNodePut(p)
             \/ ReportRead(p) \/ ReportUpdate(p) \/ ReportCause(p)
    BY <2>2 DEF Analyze, SaveNodeGet, SaveNodePut, ReportRead, ReportUpdate,
                ReportCause, ReadMessage
  <2>3. CASE \/ ResolveGet(p) \/ ResolveSave(p) \/ ResolveDelete(p)
             \/ ResolveRead(p) \/ ResolveUpdate(p)
    BY <2>3 DEF ResolveGet, ResolveSave, ResolveDelete, ResolveRead, ResolveUpdate, ReadMessage
  <2>4. QED
    BY <1>6, <2>1, <2>2, <2>3 DEF Advance
<1>7. ASSUME NEW b \in Alerts, Expire(b)
      PROVE  UNCHANGED modals
  BY <1>7 DEF Expire
<1>8. CASE UNCHANGED vars
  BY <1>2, <1>8 DEF vars
<1>9. CASE Next
  BY <1>2, <1>3, <1>5, <1>6, <1>7, <1>9 DEF Next
<1>10. QED
  BY <1>8, <1>9

\* Every step names posted messages only.
LEMMA NamedStep == TypeOK /\ NamedIsPosted /\ [Next]_vars => NamedIsPosted'
<1> SUFFICES ASSUME TypeOK, NamedIsPosted, [Next]_vars
             PROVE  NamedIsPosted'
  OBVIOUS
<1>1. TypeOK'
  BY StepTypes
<1>2. /\ posted \in [Alerts -> Refs] /\ posted' \in [Alerts -> Refs]
      /\ blocks \in [Alerts -> [Msgs -> SUBSET Sections]]
      /\ \A a \in Alerts : posted[a] \in Nat /\ posted'[a] \in Nat
      /\ Msgs \subseteq Nat /\ Refs \subseteq Nat
  <2>1. Msgs \subseteq Nat /\ Refs \subseteq Nat
    BY BoundsAssumption DEF Refs, Msgs
  <2>2. /\ posted \in [Alerts -> Refs] /\ posted' \in [Alerts -> Refs]
        /\ blocks \in [Alerts -> [Msgs -> SUBSET Sections]]
    BY <1>1 DEF TypeOK
  <2>3. QED
    BY <2>1, <2>2
<1>3. \A p \in Procs :
        /\ proc[p].alert \in Alerts
        /\ proc[p].pc \in MessagePC => proc[p].msg \in Msgs
  BY ProcType
<1>4. UpdatePC \subseteq MessagePC
  BY DEF UpdatePC, MessagePC, AnalyzePC, WorkerPC, ResolvePC
<1>5. ASSUME NEW a \in Alerts
      PROVE  posted[a] <= posted'[a]
  <2>1. CASE UNCHANGED posted
    BY <1>2, <2>1
  <2>2. CASE \E b \in Alerts, m \in Msgs : Posts(b, m)
    BY <1>2, <2>2 DEF Posts
  <2>3. QED
    BY <2>1, <2>2, MessageSteps DEF Rewrites
<1>6. ASSUME NEW a \in Alerts, NEW n \in Msgs, blocks'[a][n] # {}
      PROVE  n <= posted'[a]
  <2>1. blocks[a][n] # {} => n <= posted[a]
    BY DEF NamedIsPosted
  <2>2. CASE UNCHANGED <<blocks, posted>>
    BY <1>6, <2>1, <2>2
  <2>3. CASE \E b \in Alerts, m \in Msgs : Posts(b, m)
    <3>1. PICK b \in Alerts, m \in Msgs : Posts(b, m)
      BY <2>3
    <3>2. CASE b = a /\ m = n
      BY <1>2, <3>1, <3>2 DEF Posts
    <3>3. CASE ~(b = a /\ m = n)
      BY <1>2, <1>5, <1>6, <2>1, <3>1, <3>3 DEF Posts
    <3>4. QED
      BY <3>2, <3>3
  <2>4. CASE \E p \in Procs, x \in Additions : Rewrites(p, x)
    <3>1. PICK p \in Procs, x \in Additions : Rewrites(p, x)
      BY <2>4
    <3>2. CASE proc[p].alert = a /\ proc[p].msg = n
      BY <1>4, <3>1, <3>2 DEF Rewrites, NamedIsPosted
    <3>3. CASE ~(proc[p].alert = a /\ proc[p].msg = n)
      BY <1>2, <1>3, <1>4, <1>6, <2>1, <3>1, <3>3 DEF Rewrites
    <3>4. QED
      BY <3>2, <3>3
  <2>5. QED
    BY <2>2, <2>3, <2>4, MessageSteps
<1>7. ASSUME NEW a \in Alerts, NEW n \in Msgs, jobs'[a][n] > 0 \/ modals'[a][n] > 0
      PROVE  n <= posted'[a]
  <2>1. n <= posted[a]
    BY <1>7, JobSteps, ModalSteps DEF NamedIsPosted
  <2>2. QED
    BY <1>2, <1>5, <2>1
<1>8. ASSUME NEW q \in Procs, proc'[q].pc \in MessagePC
      PROVE  proc'[q].msg <= posted'[proc'[q].alert]
  <2>1. CASE proc'[q] = proc[q] \/ GoesOn(q) \/ ReadsBack(q)
    <3>1. /\ proc'[q].alert = proc[q].alert /\ proc'[q].msg = proc[q].msg
          /\ proc[q].pc \in MessagePC
      BY <1>8, <2>1 DEF GoesOn, ReadsBack
    <3>2. proc[q].msg \in Nat /\ proc[q].msg <= posted[proc[q].alert]
      BY <1>2, <1>3, <3>1 DEF NamedIsPosted
    <3>3. posted[proc[q].alert] <= posted'[proc[q].alert]
      BY <1>3, <1>5
    <3>4. QED
      BY <1>2, <1>3, <3>1, <3>2, <3>3
  <2>2. CASE proc'[q] = Idle
    BY <1>8, <2>2 DEF Idle, Enter, MessagePC, AnalyzePC, WorkerPC, ResolvePC
  <2>3. CASE Enters(q)
    <3>1. PICK pc \in StartPC, a \in Alerts, n \in Refs, i \in Items :
            /\ proc'[q] = Enter(pc, a, n, i)
            /\ pc \in MessagePC =>
                 n \in Msgs /\ (blocks[a][n] # {} \/ jobs[a][n] > 0 \/ modals[a][n] > 0)
      BY <2>3 DEF Enters
    <3>2. proc'[q].pc = pc /\ proc'[q].alert = a /\ proc'[q].msg = n
      BY <3>1 DEF Enter
    <3>3. n <= posted[a]
      BY <1>8, <3>1, <3>2 DEF NamedIsPosted
    <3>4. QED
      BY <1>2, <1>5, <3>2, <3>3
  <2>4. QED
    BY <2>1, <2>2, <2>3, FrameSteps
<1>9. QED
  BY <1>6, <1>7, <1>8 DEF NamedIsPosted

\* Nothing is named before a message is posted.
LEMMA NamedInit == Init => NamedIsPosted
<1> SUFFICES ASSUME Init
             PROVE  NamedIsPosted
  OBVIOUS
<1>1. \A p \in Procs : proc[p].pc = "idle"
  BY DEF Init, Idle, Enter
<1>2. \A a \in Alerts : \A n \in Msgs : blocks[a][n] = {} /\ jobs[a][n] = 0 /\ modals[a][n] = 0
  BY DEF Init
<1>3. QED
  BY <1>1, <1>2 DEF NamedIsPosted, MessagePC, AnalyzePC, WorkerPC, ResolvePC

\* A step keeps the description, in the messages and in hand.
LEMMA SummaryStep == ReadsBackWork /\ SummaryInv /\ [Next]_vars => SummaryInv'
<1> SUFFICES ASSUME ReadsBackWork, TypeOK, SummaryKept, NamedIsPosted, SummaryInHand,
                    [Next]_vars
             PROVE  SummaryInv'
  BY DEF SummaryInv
<1>1. TypeOK' /\ NamedIsPosted'
  BY StepTypes, NamedStep
<1>2. /\ posted \in [Alerts -> Refs] /\ posted' \in [Alerts -> Refs]
      /\ blocks \in [Alerts -> [Msgs -> SUBSET Sections]]
      /\ \A a \in Alerts : posted[a] \in Nat /\ posted'[a] \in Nat
      /\ Msgs \subseteq Nat /\ Refs \subseteq Nat
  <2>1. Msgs \subseteq Nat /\ Refs \subseteq Nat
    BY BoundsAssumption DEF Refs, Msgs
  <2>2. /\ posted \in [Alerts -> Refs] /\ posted' \in [Alerts -> Refs]
        /\ blocks \in [Alerts -> [Msgs -> SUBSET Sections]]
    BY <1>1 DEF TypeOK
  <2>3. QED
    BY <2>1, <2>2
<1>3. \A p \in Procs :
        /\ proc[p].alert \in Alerts
        /\ proc[p].pc \in UpdatePC => proc[p].msg \in Msgs
  BY ProcType DEF UpdatePC, MessagePC, AnalyzePC, WorkerPC, ResolvePC
<1>4. ASSUME NEW a \in Alerts, NEW n \in Msgs, n <= posted'[a]
      PROVE  "summary" \in blocks'[a][n]
  <2>1. n <= posted[a] => "summary" \in blocks[a][n]
    BY <1>2 DEF SummaryKept, Msgs
  <2>2. CASE UNCHANGED <<blocks, posted>>
    BY <1>4, <2>1, <2>2
  <2>3. CASE \E b \in Alerts, m \in Msgs : Posts(b, m)
    <3>1. PICK b \in Alerts, m \in Msgs : Posts(b, m)
      BY <2>3
    <3>2. CASE b = a /\ m = n
      BY <1>2, <3>1, <3>2 DEF Posts, SimpleMessage
    <3>3. CASE b = a /\ m # n
      <4>1. blocks'[a][n] = blocks[a][n] /\ posted'[a] = m /\ m = posted[a] + 1
        BY <1>2, <3>1, <3>3 DEF Posts
      <4>2. QED
        BY <1>2, <1>4, <2>1, <3>3, <4>1
    <3>4. CASE b # a
      BY <1>2, <1>4, <2>1, <3>1, <3>4 DEF Posts
    <3>5. QED
      BY <3>2, <3>3, <3>4
  <2>4. CASE \E p \in Procs, x \in Additions : Rewrites(p, x)
    <3>1. PICK p \in Procs, x \in Additions : Rewrites(p, x)
      BY <2>4
    <3>2. CASE proc[p].alert = a /\ proc[p].msg = n
      BY <1>2, <3>1, <3>2 DEF Rewrites, SummaryInHand
    <3>3. CASE ~(proc[p].alert = a /\ proc[p].msg = n)
      BY <1>2, <1>3, <1>4, <2>1, <3>1, <3>3 DEF Rewrites
    <3>4. QED
      BY <3>2, <3>3
  <2>5. QED
    BY <2>2, <2>3, <2>4, MessageSteps
<1>5. ASSUME NEW q \in Procs, proc'[q].pc \in UpdatePC
      PROVE  "summary" \in proc'[q].blocks
  <2>1. CASE proc'[q] = proc[q]
    BY <1>5, <2>1 DEF SummaryInHand
  <2>2. CASE proc'[q] = Idle \/ Enters(q) \/ GoesOn(q)
    <3>1. \A pc, a, n, i : Enter(pc, a, n, i).pc = pc
      BY DEF Enter
    <3>2. proc'[q].pc \notin UpdatePC
      BY <2>2, <3>1 DEF Idle, Enters, GoesOn, StartPC, UpdatePC
    <3>3. QED
      BY <1>5, <3>2
  <2>3. CASE ReadsBack(q)
    <3>1. proc[q].msg \in Msgs /\ proc[q].msg <= posted[proc[q].alert]
      BY <2>3, ProcType DEF ReadsBack, NamedIsPosted
    <3>2. "summary" \in blocks[proc[q].alert][proc[q].msg]
      BY <1>2, <1>3, <3>1 DEF SummaryKept, Msgs
    <3>3. proc'[q].blocks = Strip(blocks[proc[q].alert][proc[q].msg])
      BY <2>3 DEF ReadsBack, Reads, ReadsBackWork
    <3>4. QED
      BY <3>2, <3>3 DEF Strip, Buttons
  <2>4. QED
    BY <2>1, <2>2, <2>3, FrameSteps
<1>6. SummaryInHand'
  BY <1>5 DEF SummaryInHand
<1>7. SummaryKept'
  <2>1. ASSUME NEW a \in Alerts, NEW n \in 1..posted'[a]
        PROVE  "summary" \in blocks'[a][n]
    <3>1. n \in Msgs /\ n <= posted'[a]
      BY <1>2, BoundsAssumption DEF Refs, Msgs
    <3>2. QED
      BY <1>4, <3>1
  <2>2. QED
    BY <2>1 DEF SummaryKept
<1>8. QED
  BY <1>1, <1>6, <1>7 DEF SummaryInv

\* If messages can be read back, whatever else fails or overlaps, no handler
\* takes the description of the alert out of a message it rewrites.
THEOREM SummariesKept ==
  ASSUME ReadsBackWork
  PROVE  Spec => []SummaryKept
<1>1. ASSUME Init
      PROVE  SummaryInv
  <2>1. TypeOK
    BY <1>1, InitTypes
  <2>2. \A p \in Procs : proc[p].pc = "idle"
    BY <1>1 DEF Init, Idle, Enter
  <2>3. \A a \in Alerts : posted[a] = 0
    BY <1>1 DEF Init
  <2>4. SummaryKept
    BY <2>3 DEF SummaryKept
  <2>5. NamedIsPosted /\ SummaryInHand
    BY <1>1, <2>2, NamedInit DEF SummaryInHand, UpdatePC
  <2>6. QED
    BY <2>1, <2>4, <2>5 DEF SummaryInv
<1>2. SummaryInv /\ [Next]_vars => SummaryInv'
  BY SummaryStep
<1>3. SummaryInv => SummaryKept
  BY DEF SummaryInv
<1>4. QED
  BY <1>1, <1>2, <1>3, PTL DEF Spec
=============================================================================
