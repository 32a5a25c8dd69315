------------------------- MODULE IncidentLifecycle -------------------------
(***************************************************************************)
(* The life of an incident across the invocations of the alert Lambda and  *)
(* of the analysis runtime.  They share four stores and no lock:           *)
(*                                                                         *)
(*   item    the DynamoDB table of ongoing incidents, keyed by alert name  *)
(*   hist    AgentCore memory, the records of resolved incidents           *)
(*   blocks  the alert's Slack messages, rewritten whole by chat.update    *)
(*   jobs    analyses requested from Lambda and not yet started            *)
(*                                                                         *)
(* A step of an invocation is one call to one store, with the computation  *)
(* up to the next call.  Steps of different invocations interleave freely: *)
(* neither the function nor the topic limits concurrency.                  *)
(***************************************************************************)
EXTENDS Naturals, Sequences

CONSTANTS Alerts,       \* alert names
          Procs,        \* invocations that may be in progress at once
          MaxFire,      \* bound: FIRING notices delivered
          MaxOk,        \* bound: RESOLVED notices delivered
          MaxAnalyze,   \* bound: clicks on the analysis button
          MaxResolve,   \* bound: modals opened, plus modals submitted again
          Faults        \* the failures of calls that may happen

FaultKinds == {"get", "stale", "put", "delete", "post", "read", "update", "save",
               "invoke", "template", "raise", "crash", "twice", "slow"}

ASSUME BoundsAssumption == /\ MaxFire \in Nat
                           /\ MaxOk \in Nat
                           /\ MaxAnalyze \in Nat
                           /\ MaxResolve \in Nat
ASSUME FaultsAssumption == Faults \subseteq FaultKinds
ASSUME AlertsAssumption == Alerts # {}

VARIABLES item,     \* item[a]: the table's entry for alert a
          old,      \* old[a]: the entry it replaced, which a read may still see
          hist,     \* hist[a]: the records saved for a, oldest first
          posted,   \* posted[a]: how many messages were posted for a
          blocks,   \* blocks[a][n]: the sections of the n-th message of a
          modals,   \* modals[a][n]: resolve dialogs open on that message
          jobs,     \* jobs[a][n]: analyses of that message not yet started
          proc,     \* proc[p]: what invocation p is doing
          left,     \* left[e]: how many events of kind e may still come
          ended     \* ended[a]: what removed which entries (ghost)

vars == <<item, old, hist, posted, blocks, modals, jobs, proc, left, ended>>

-----------------------------------------------------------------------------
(* Data.  A message is named by its number among those of its alert, an    *)
(* incident by the message that announced it; 0 is "none".  An entry's     *)
(* root cause is named by the message whose analysis wrote it.             *)

Msgs == 1..MaxFire
Refs == 0..MaxFire

\* "sns" entries were put by an alarm handler, "analysis" entries by the
\* graph's last node, "bare" entries hold nothing but a root cause.
Kinds == {"sns", "analysis", "bare"}
Absent == [kind |-> "absent", ts |-> 0, rc |-> 0]
Items == {Absent} \union [kind : Kinds, ts : Refs, rc : Refs]

\* put_item writes expires_at; update_item on a missing key does not.
HasExpiry(i) == i.kind \in {"sns", "analysis"}

Records == [by : {"auto", "human"}, of : Refs, rc : Refs]

Sections == {"summary", "analyze", "resolve", "status", "report", "resolved"}
Buttons == {"analyze", "resolve"}

\* build_simple_alert_message: the alert and its two buttons.
SimpleMessage == {"summary", "analyze", "resolve"}
\* build_analysis_append_blocks: the report and a resolve button.
AnalysisBlocks == {"report", "resolve"}
\* build_resolved_append_blocks.
ResolvedBlocks == {"resolved"}

\* Mutants of Strip: the buttons stay; the status stays.
StripStatusOnly(b) == b \ {"status"}
StripButtonsOnly(b) == b \ Buttons

\* _strip_action_and_status_blocks
Strip(b) == b \ (Buttons \union {"status"})

Reports == {"cause", "nocause", "none"}

AlarmPC == {"alarm_post", "alarm_put"}
OkPC == {"ok_save", "ok_delete"}
AnalyzePC == {"an_read", "an_update", "an_invoke"}
WorkerPC == {"rca", "ms_get", "ms_put", "rp_read", "rp_update", "rp_cause"}
ResolvePC == {"rs_get", "rs_save", "rs_delete", "rs_read", "rs_update"}
MessagePC == AnalyzePC \union WorkerPC \union ResolvePC
BusyPC == AlarmPC \union OkPC \union MessagePC

\* What an invocation holds between two calls.  An idle one holds nothing, and
\* one that works on a message knows which.
Frames == [pc : {"idle"} \union BusyPC, alert : Alerts, msg : Refs, seen : Items,
           blocks : SUBSET Sections, report : Reports]
Locals == {l \in Frames : l.pc \in MessagePC => l.msg \in Msgs}
Enter(pc, a, n, seen) == [pc |-> pc, alert |-> a, msg |-> n, seen |-> seen,
                          blocks |-> {}, report |-> "none"]
Idle == Enter("idle", CHOOSE a \in Alerts : TRUE, 0, Absent)

Events == {"fire", "ok", "analyze", "resolve"}

-----------------------------------------------------------------------------
(* The calls.  Each failure that the code swallows is an outcome.          *)

\* get_ongoing_incident: None for a missing key and for any error alike.  The
\* read is eventually consistent, so it may miss the last write ("stale").
Gets(a) == {item[a]}
           \union (IF "get" \in Faults THEN {Absent} ELSE {})
           \union (IF "stale" \in Faults THEN {old[a]} ELSE {})

Write(a, i) == /\ item' = [item EXCEPT ![a] = i]
               /\ old' = IF "stale" \in Faults THEN [old EXCEPT ![a] = item[a]]
                                               ELSE old

\* put_ongoing_incident replaces the entry; there is no condition on it.
PutItem(a, i) == \/ Write(a, i)
                 \/ "put" \in Faults /\ UNCHANGED <<item, old>>

\* Mutant of WithCause: the entry is taken for granted.
WithCauseNoUpsert(i, n) == [i EXCEPT !.rc = n]

\* update_ongoing_root_cause: UpdateItem creates the entry it does not find.
WithCause(i, n) == IF i.kind = "absent"
                     THEN [kind |-> "bare", ts |-> 0, rc |-> n]
                     ELSE [i EXCEPT !.rc = n]
UpdateCause(a, n) == \/ Write(a, WithCause(item[a], n))
                     \/ "put" \in Faults /\ UNCHANGED <<item, old>>

\* The entry of a goes away, by how: "deleted" or "expired".
Remove(a, how) ==
  /\ Write(a, Absent)
  /\ ended' = IF item[a].kind = "absent" THEN ended
              ELSE [ended EXCEPT ![a] = @ \union {<<item[a].ts, how>>}]

\* delete_ongoing_incident: by alert name, whichever incident is there.
DeleteItem(a) == \/ Remove(a, "deleted")
                 \/ "delete" \in Faults /\ UNCHANGED <<item, old, ended>>

\* AgentCoreMemory.save_incident: a failure is printed and forgotten.
SaveIncident(a, r) == \/ hist' = [hist EXCEPT ![a] = Append(@, r)]
                      \/ "save" \in Faults /\ UNCHANGED hist

\* _get_slack_message_attachment: an error reads as a message without blocks.
Reads(a, n) == {blocks[a][n]} \union (IF "read" \in Faults THEN {{}} ELSE {})

\* _update_slack_message: chat.update replaces all the blocks.
UpdateMessage(a, n, b) == \/ blocks' = [blocks EXCEPT ![a][n] = b]
                          \/ "update" \in Faults /\ UNCHANGED blocks

-----------------------------------------------------------------------------
(* Control of an invocation.                                               *)

At(p, pc) == proc[p].pc = pc
Begin(p, l) == proc[p] = Idle /\ proc' = [proc EXCEPT ![p] = l]
Goto(p, pc) == proc' = [proc EXCEPT ![p].pc = pc]
Return(p) == proc' = [proc EXCEPT ![p] = Idle]
Spend(e) == left[e] > 0 /\ left' = [left EXCEPT ![e] = @ - 1]

-----------------------------------------------------------------------------
Init == /\ item = [a \in Alerts |-> Absent]
        /\ old = [a \in Alerts |-> Absent]
        /\ hist = [a \in Alerts |-> <<>>]
        /\ posted = [a \in Alerts |-> 0]
        /\ blocks = [a \in Alerts |-> [n \in Msgs |-> {}]]
        /\ modals = [a \in Alerts |-> [n \in Msgs |-> 0]]
        /\ jobs = [a \in Alerts |-> [n \in Msgs |-> 0]]
        /\ proc = [p \in Procs |-> Idle]
        /\ left = [fire |-> MaxFire, ok |-> MaxOk,
                   analyze |-> MaxAnalyze, resolve |-> MaxResolve]
        /\ ended = [a \in Alerts |-> {}]

-----------------------------------------------------------------------------
(* A FIRING notice.  Alertmanager repeats it while the alert fires, the    *)
(* topic may deliver it twice and in any order: it may come at any time.   *)

\* The alert is thought to be ongoing: the notice is dropped.
AlarmSkip(p, a) ==
  /\ proc[p] = Idle
  /\ \E seen \in Gets(a) : seen # Absent
  /\ Spend("fire")
  /\ UNCHANGED <<item, old, hist, posted, blocks, modals, jobs, proc, ended>>

\* Mutant of AlarmCheck: the message is posted without looking.
AlarmUnchecked(p, a) ==
  /\ Begin(p, Enter("alarm_post", a, 0, Absent))
  /\ Spend("fire")
  /\ UNCHANGED <<item, old, hist, posted, blocks, modals, jobs, ended>>

AlarmCheck(p, a) ==
  /\ \E seen \in Gets(a) : seen = Absent
  /\ Begin(p, Enter("alarm_post", a, 0, Absent))
  /\ Spend("fire")
  /\ UNCHANGED <<item, old, hist, posted, blocks, modals, jobs, ended>>

\* A failed post has an empty ts, and the alert is registered all the same.
\* Bound: a notice posts at most one message, so there are no more than Msgs.
AlarmPost(p) ==
  LET a == proc[p].alert
      n == posted[a] + 1
  IN /\ At(p, "alarm_post")
     /\ \/ /\ n \in Msgs
           /\ posted' = [posted EXCEPT ![a] = n]
           /\ blocks' = [blocks EXCEPT ![a][n] = SimpleMessage]
           /\ proc' = [proc EXCEPT ![p].pc = "alarm_put", ![p].msg = n]
        \/ "post" \in Faults /\ Goto(p, "alarm_put") /\ UNCHANGED <<posted, blocks>>
     /\ UNCHANGED <<item, old, hist, modals, jobs, left, ended>>

AlarmPut(p) ==
  /\ At(p, "alarm_put")
  /\ PutItem(proc[p].alert, [kind |-> "sns", ts |-> proc[p].msg, rc |-> 0])
  /\ Return(p)
  /\ UNCHANGED <<hist, posted, blocks, modals, jobs, left, ended>>

-----------------------------------------------------------------------------
(* A RESOLVED notice: the record of an automatic recovery, and no message. *)

\* Mutant of OkGet: the recovery is not recorded.
OkGetUnsaved(p, a) ==
  /\ \E seen \in Gets(a) :
       IF seen = Absent
         THEN proc[p] = Idle /\ UNCHANGED proc
         ELSE Begin(p, Enter("ok_delete", a, 0, seen))
  /\ Spend("ok")
  /\ UNCHANGED <<item, old, hist, posted, blocks, modals, jobs, ended>>

OkGet(p, a) ==
  /\ \E seen \in Gets(a) :
       IF seen = Absent
         THEN proc[p] = Idle /\ UNCHANGED proc
         ELSE Begin(p, Enter("ok_save", a, 0, seen))
  /\ Spend("ok")
  /\ UNCHANGED <<item, old, hist, posted, blocks, modals, jobs, ended>>

OkSave(p) ==
  /\ At(p, "ok_save")
  /\ SaveIncident(proc[p].alert,
       [by |-> "auto", of |-> proc[p].seen.ts, rc |-> proc[p].seen.rc])
  /\ Goto(p, "ok_delete")
  /\ UNCHANGED <<item, old, posted, blocks, modals, jobs, left, ended>>

OkDelete(p) ==
  /\ At(p, "ok_delete")
  /\ DeleteItem(proc[p].alert)
  /\ Return(p)
  /\ UNCHANGED <<hist, posted, blocks, modals, jobs, left>>

-----------------------------------------------------------------------------
(* A click on the analysis button of message n.                            *)

\* Mutant of AnalyzeClick: an incident that is no longer ongoing is analysed.
AnalyzeUnchecked(p, a, n) ==
  /\ "analyze" \in blocks[a][n]
  /\ Begin(p, Enter("an_read", a, n, Absent))
  /\ Spend("analyze")
  /\ UNCHANGED <<item, old, hist, posted, blocks, modals, jobs, ended>>

AnalyzeClick(p, a, n) ==
  /\ "analyze" \in blocks[a][n]
  /\ \E seen \in Gets(a) :
       IF seen = Absent
         THEN proc[p] = Idle /\ UNCHANGED proc
         ELSE Begin(p, Enter("an_read", a, n, Absent))
  /\ Spend("analyze")
  /\ UNCHANGED <<item, old, hist, posted, blocks, modals, jobs, ended>>

\* The message as it is now: what the handler will write back.
ReadMessage(p, from, to) ==
  /\ At(p, from)
  /\ \E b \in Reads(proc[p].alert, proc[p].msg) :
       proc' = [proc EXCEPT ![p].pc = to, ![p].blocks = Strip(b)]
  /\ UNCHANGED <<item, old, hist, posted, blocks, modals, jobs, left, ended>>

AnalyzeRead(p) == ReadMessage(p, "an_read", "an_update")

AnalyzeUpdate(p) ==
  /\ At(p, "an_update")
  /\ UpdateMessage(proc[p].alert, proc[p].msg, proc[p].blocks \union {"status"})
  /\ Goto(p, "an_invoke")
  /\ UNCHANGED <<item, old, hist, posted, modals, jobs, left, ended>>

\* The asynchronous self-invocation; when it fails that is only printed.
AnalyzeInvoke(p) ==
  /\ At(p, "an_invoke")
  /\ \/ jobs' = [jobs EXCEPT ![proc[p].alert][proc[p].msg] = @ + 1]
     \/ "invoke" \in Faults /\ UNCHANGED jobs
  /\ Return(p)
  /\ UNCHANGED <<item, old, hist, posted, blocks, modals, left, ended>>

-----------------------------------------------------------------------------
(* The analysis: in the agent runtime, or here when delegating fails.      *)

\* "twice": the event is delivered again, or the call that delegated it
\* failed after the runtime had started and the fallback starts another.
StartAnalysis(p, a, n) ==
  /\ jobs[a][n] > 0
  /\ Begin(p, Enter("rca", a, n, Absent))
  /\ \/ jobs' = [jobs EXCEPT ![a][n] = @ - 1]
     \/ "twice" \in Faults /\ UNCHANGED jobs
  /\ UNCHANGED <<item, old, hist, posted, blocks, modals, left, ended>>

\* memory_node and rca_node write to no store.  A report may name no cause.
Analyze(p) ==
  /\ At(p, "rca")
  /\ \E r \in Reports \ {"none"} :
       proc' = [proc EXCEPT ![p].pc = "ms_get", ![p].report = r]
  /\ UNCHANGED <<item, old, hist, posted, blocks, modals, jobs, left, ended>>

\* Lambda runs a failed asynchronous event again, for a while; the runtime does
\* not.  Bound: at most MaxAnalyze analyses of one message wait at once.
MaybeRetry(a, n) ==
  \/ UNCHANGED jobs
  \/ jobs[a][n] < MaxAnalyze /\ jobs' = [jobs EXCEPT ![a][n] = @ + 1]

\* The graph raises: the collector did, or the report's fields are not the
\* strings that memory_save_node takes them for.
AnalyzeRaise(p) ==
  /\ "raise" \in Faults
  /\ proc[p].pc \in {"rca", "ms_get", "ms_put"}
  /\ Return(p)
  /\ MaybeRetry(proc[p].alert, proc[p].msg)
  /\ UNCHANGED <<item, old, hist, posted, blocks, modals, left, ended>>

\* Mutants of SaveNodeGet: the entry is always put; an ongoing incident ends
\* the graph before it reports.
SaveNodeAlways(p) ==
  /\ At(p, "ms_get")
  /\ Goto(p, "ms_put")
  /\ UNCHANGED <<item, old, hist, posted, blocks, modals, jobs, left, ended>>
SaveNodeEnds(p) ==
  /\ At(p, "ms_get")
  /\ \E seen \in Gets(proc[p].alert) :
       IF seen = Absent THEN Goto(p, "ms_put") ELSE Return(p)
  /\ UNCHANGED <<item, old, hist, posted, blocks, modals, jobs, left, ended>>

\* memory_save_node: nothing to do while the incident is ongoing.
SaveNodeGet(p) ==
  /\ At(p, "ms_get")
  /\ \E seen \in Gets(proc[p].alert) :
       Goto(p, IF seen = Absent THEN "ms_put" ELSE "rp_read")
  /\ UNCHANGED <<item, old, hist, posted, blocks, modals, jobs, left, ended>>

Cause(p) == IF proc[p].report = "cause" THEN proc[p].msg ELSE 0

SaveNodePut(p) ==
  /\ At(p, "ms_put")
  /\ PutItem(proc[p].alert,
       [kind |-> "analysis", ts |-> proc[p].msg, rc |-> Cause(p)])
  /\ Goto(p, "rp_read")
  /\ UNCHANGED <<hist, posted, blocks, modals, jobs, left, ended>>

ReportRead(p) == ReadMessage(p, "rp_read", "rp_update")

\* Mutant of ReportUpdate: the report replaces the message.
ReportReplaces(p) ==
  /\ At(p, "rp_update")
  /\ UpdateMessage(proc[p].alert, proc[p].msg, AnalysisBlocks)
  /\ IF proc[p].report = "cause" THEN Goto(p, "rp_cause") ELSE Return(p)
  /\ UNCHANGED <<item, old, hist, posted, modals, jobs, left, ended>>

\* A root cause is stored only when the report names one.
ReportUpdate(p) ==
  /\ At(p, "rp_update")
  /\ UpdateMessage(proc[p].alert, proc[p].msg, proc[p].blocks \union AnalysisBlocks)
  /\ IF proc[p].report = "cause" THEN Goto(p, "rp_cause") ELSE Return(p)
  /\ UNCHANGED <<item, old, hist, posted, modals, jobs, left, ended>>

\* The report does not fit its schema: a plain text replaces the message's
\* text, its blocks stay, and no root cause is stored.
ReportFallback(p) ==
  /\ "template" \in Faults
  /\ At(p, "rp_read")
  /\ Return(p)
  /\ UNCHANGED <<item, old, hist, posted, blocks, modals, jobs, left, ended>>

ReportCause(p) ==
  /\ At(p, "rp_cause")
  /\ UpdateCause(proc[p].alert, proc[p].msg)
  /\ Return(p)
  /\ UNCHANGED <<hist, posted, blocks, modals, jobs, left, ended>>

-----------------------------------------------------------------------------
(* A click on the resolve button of message n, and the dialog it opens.    *)

OpenModal(a, n) ==
  /\ "resolve" \in blocks[a][n]
  /\ Spend("resolve")
  /\ modals' = [modals EXCEPT ![a][n] = @ + 1]
  /\ UNCHANGED <<item, old, hist, posted, blocks, jobs, proc, ended>>

\* "slow": the answer takes more than three seconds, the dialog stays open
\* and can be submitted again.
SubmitModal(p, a, n) ==
  /\ modals[a][n] > 0
  /\ Begin(p, Enter("rs_get", a, n, Absent))
  /\ \/ modals' = [modals EXCEPT ![a][n] = @ - 1] /\ UNCHANGED left
     \/ "slow" \in Faults /\ Spend("resolve") /\ UNCHANGED modals
  /\ UNCHANGED <<item, old, hist, posted, blocks, jobs, ended>>

\* Mutant of ResolveGet: nothing is saved for an alert that is not ongoing.
ResolveGetOngoing(p) ==
  /\ At(p, "rs_get")
  /\ \E seen \in Gets(proc[p].alert) :
       proc' = [proc EXCEPT ![p].pc = IF seen = Absent THEN "rs_read" ELSE "rs_save",
                            ![p].seen = seen]
  /\ UNCHANGED <<item, old, hist, posted, blocks, modals, jobs, left, ended>>

\* save_resolution: it resolves the alert, not the incident of the message.
ResolveGet(p) ==
  /\ At(p, "rs_get")
  /\ \E seen \in Gets(proc[p].alert) :
       proc' = [proc EXCEPT ![p].pc = "rs_save", ![p].seen = seen]
  /\ UNCHANGED <<item, old, hist, posted, blocks, modals, jobs, left, ended>>

ResolveSave(p) ==
  /\ At(p, "rs_save")
  /\ SaveIncident(proc[p].alert,
       [by |-> "human", of |-> proc[p].seen.ts, rc |-> proc[p].seen.rc])
  /\ Goto(p, "rs_delete")
  /\ UNCHANGED <<item, old, posted, blocks, modals, jobs, left, ended>>

ResolveDelete(p) ==
  /\ At(p, "rs_delete")
  /\ DeleteItem(proc[p].alert)
  /\ Goto(p, "rs_read")
  /\ UNCHANGED <<hist, posted, blocks, modals, jobs, left>>

ResolveRead(p) == ReadMessage(p, "rs_read", "rs_update")

\* Mutant of ResolveUpdate: the resolution replaces the message.
ResolveReplaces(p) ==
  /\ At(p, "rs_update")
  /\ UpdateMessage(proc[p].alert, proc[p].msg, ResolvedBlocks)
  /\ Return(p)
  /\ UNCHANGED <<item, old, hist, posted, modals, jobs, left, ended>>

ResolveUpdate(p) ==
  /\ At(p, "rs_update")
  /\ UpdateMessage(proc[p].alert, proc[p].msg, proc[p].blocks \union ResolvedBlocks)
  /\ Return(p)
  /\ UNCHANGED <<item, old, hist, posted, modals, jobs, left, ended>>

-----------------------------------------------------------------------------
(* The environment.                                                        *)

\* The table drops an entry a day after it was put.
Expire(a) ==
  /\ HasExpiry(item[a])
  /\ Remove(a, "expired")
  /\ UNCHANGED <<hist, posted, blocks, modals, jobs, proc, left>>

\* An invocation is killed; Lambda may run an asynchronous event again.
Crash(p) ==
  /\ "crash" \in Faults
  /\ proc[p] # Idle
  /\ Return(p)
  /\ IF proc[p].pc \in WorkerPC THEN MaybeRetry(proc[p].alert, proc[p].msg)
                                ELSE UNCHANGED jobs
  /\ UNCHANGED <<item, old, hist, posted, blocks, modals, left, ended>>

\* The steps an invocation takes once it has begun.
Advance(p) ==
  \/ AlarmPost(p) \/ AlarmPut(p)
  \/ OkSave(p) \/ OkDelete(p)
  \/ AnalyzeRead(p) \/ AnalyzeUpdate(p) \/ AnalyzeInvoke(p)
  \/ Analyze(p) \/ SaveNodeGet(p) \/ SaveNodePut(p)
  \/ ReportRead(p) \/ ReportUpdate(p) \/ ReportCause(p)
  \/ ResolveGet(p) \/ ResolveSave(p) \/ ResolveDelete(p)
  \/ ResolveRead(p) \/ ResolveUpdate(p)

Start(p) == \E a \in Alerts : \E n \in Msgs : StartAnalysis(p, a, n)

Arrive(p) == \E a \in Alerts :
  \/ AlarmSkip(p, a) \/ AlarmCheck(p, a) \/ OkGet(p, a)
  \/ \E n \in Msgs : AnalyzeClick(p, a, n) \/ SubmitModal(p, a, n)

Fail(p) == AnalyzeRaise(p) \/ ReportFallback(p) \/ Crash(p)

Next == \/ \E p \in Procs : Advance(p) \/ Start(p) \/ Arrive(p) \/ Fail(p)
        \/ \E a \in Alerts : Expire(a) \/ \E n \in Msgs : OpenModal(a, n)

Spec == Init /\ [][Next]_vars

\* An invocation that runs goes on, and a requested analysis is started.
\* Nobody owes the system a notice, a click or a failure.
Fairness == /\ \A p \in Procs : WF_vars(Advance(p))
            /\ WF_vars(\E p \in Procs : Start(p))
FairSpec == Spec /\ Fairness

-----------------------------------------------------------------------------
(* Properties.  The constants of a run say how many invocations overlap    *)
(* and which calls fail; what holds only without some of these is stated   *)
(* for the runs without them, and its theorem names them as hypotheses.    *)

\* The types of the stores and of what an invocation holds.
TypeOK ==
  /\ item \in [Alerts -> Items]
  /\ old \in [Alerts -> Items]
  /\ hist \in [Alerts -> Seq(Records)]
  /\ posted \in [Alerts -> Refs]
  /\ blocks \in [Alerts -> [Msgs -> SUBSET Sections]]
  /\ modals \in [Alerts -> [Msgs -> Nat]]
  /\ jobs \in [Alerts -> [Msgs -> Nat]]
  /\ proc \in [Procs -> Locals]
  /\ left \in [Events -> Nat]
  /\ ended \in [Alerts -> SUBSET (Refs \X {"expired", "deleted"})]

\* What a reader of the channel may see.  The analysis button is only on a
\* message no handler has rewritten, so an analysis is requested from it before
\* any answer; "analysing" is never shown beside a button; and a rewritten
\* message offers to resolve only below a report.  Any handlers may overlap and
\* any call may fail (_strip_action_and_status_blocks before every append).
MessageShape ==
  \A a \in Alerts : \A n \in Msgs :
    LET b == blocks[a][n]
    IN /\ "analyze" \in b => b = SimpleMessage
       /\ "status" \in b => b \intersect Buttons = {}
       /\ "resolve" \in b => "analyze" \in b \/ "report" \in b

\* A posted message keeps the description of its alert whatever handlers
\* rewrite it together, as long as reading it back does not fail.
SummaryKept ==
  \A a \in Alerts : \A n \in 1..posted[a] : "summary" \in blocks[a][n]

\* An entry that no notice registered (put by memory_save_node, or made by the
\* upsert of a root cause) appears only after an entry of its alert was removed:
\* an analysis outlives its incident, it never precedes it.
LateEntryAfterClose ==
  \A a \in Alerts : item[a].kind \in {"analysis", "bare"} => ended[a] # {}

\* The table keeps the abstract promise step by step.
StateOf(i) == CASE i.kind = "absent" -> "none"
                [] i.kind = "sns" -> "open"
                [] i.kind = "analysis" -> "revived"
                [] i.kind = "bare" -> "bare"
Registry == INSTANCE OngoingRegistry
              WITH reg <- [a \in Alerts |-> StateOf(item[a])],
                   closed <- [a \in Alerts |-> ended[a] # {}]
RegistrySpec == Registry!Spec

\* A message that says the resolution was stored in long-term memory
\* (build_resolved_append_blocks says so) is backed by a human's record.
ResolvedIsRecorded ==
  \A a \in Alerts : (\E n \in Msgs : "resolved" \in blocks[a][n]) =>
    \E i \in DOMAIN hist[a] : hist[a][i].by = "human"

\* An incident that a handler removed from the table left a record: its
\* announcement is answered in memory and the past is complete.
DeletedWasRecorded ==
  \A a \in Alerts : \A n \in Msgs : <<n, "deleted">> \in ended[a] =>
    \E i \in DOMAIN hist[a] : hist[a][i].of = n

\* A message is posted only for an alert with no ongoing incident: the check
\* of the handler still holds when it posts.
OneMessagePerIncident ==
  [][\A a \in Alerts : posted'[a] # posted[a] => item[a] = Absent]_vars

\* A report or a resolution shown in a message is never taken away again by
\* another handler's rewrite of it.
SectionsKept ==
  [][\A a \in Alerts : \A n \in Msgs :
       blocks[a][n] \intersect {"report", "resolved"} \subseteq blocks'[a][n]]_vars

\* Every entry of the table carries the day's time to live, at least while none of
\* its alert has reached the end of it: closing an incident leaves none without.
EveryEntryExpires ==
  \A a \in Alerts :
    item[a] # Absent /\ (\A n \in Msgs : <<n, "expired">> \notin ended[a])
      => HasExpiry(item[a])

\* A record may name the cause found for another incident of its alert, but only
\* when that incident had left the table before: a late analysis writes on a later
\* incident, and never on one that is ongoing beside its own.
ForeignCauseIsLate ==
  \A a \in Alerts : \A i \in DOMAIN hist[a] :
    LET r == hist[a][i]
    IN r.rc \in {0, r.of} \/ \E how \in {"expired", "deleted"} : <<r.rc, how>> \in ended[a]

\* "Analysing, please wait" does not stay: without failures the answer, or a
\* resolution, takes its place.
StatusIsTemporary ==
  \A a \in Alerts : \A n \in Msgs :
    "status" \in blocks[a][n] ~> "status" \notin blocks[a][n]

\* A requested analysis ends in a report shown in the message it was asked from.
RequestIsAnswered ==
  \A a \in Alerts : \A n \in Msgs :
    jobs[a][n] > 0 ~> "report" \in blocks[a][n]
=============================================================================
