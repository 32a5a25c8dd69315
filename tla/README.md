# A formal model of the AIOps incident platform

The platform answers Prometheus alerts in Slack: it announces an incident, has a
team of language-model agents look for the cause when a user asks for it, records
how the incident was resolved, and offers a chatbot about the running systems.
This directory holds TLA+ models of the parts of it that keep state, the TLC runs
that check them, and TLAPS proofs of what holds for every size of the system.

Paths below are under `src/`. Five files are abbreviated:
**H** = `lambda_package/bedrock_agent_runtime_handler.py`,
**G** = `lambda_package/graph_agent_with_memory.py`,
**D** = `lambda_package/dynamodb_incident.py`,
**A** = `lambda_package/agents_aws.py`,
**M** = `lambda_package/agentcore_memory.py`.

## 1. The system

| Part | Where | State it keeps | Operations |
|---|---|---|---|
| Alert handler | H (Lambda) | none of its own | FIRING and RESOLVED notices; clicks on the analysis and resolve buttons; the resolve dialog; the asynchronous analysis |
| Ongoing incidents | D, `bedrock_agent_memory.tf` | DynamoDB table keyed by *alert name*, one day to live | put, get, upsert of a root cause, delete |
| Analysis graph | G | the graph's state; `_writer` and `_reviewer`, made once per process | `memory_node`, `rca_node`, `memory_save_node`, `save_resolution` |
| Sub-agents | A | `_raw_outputs`, one dictionary per process | three tools that query metrics, logs and infrastructure |
| History tools | A 1085-1402, Glue tables in `modules/observability/main.tf` | a query in progress | logs, traces and error counts of a range of days, from S3 by way of Athena |
| Telemetry collector | `user_data.sh` | batches not yet uploaded | route by environment and source, upload |
| Long-term memory | M | AgentCore records of closed incidents, each a line of text | `save_incident`, search, statistics |
| Slack messages | `lambda_package/slack_templates.py`, H | the blocks of each posted message | post, read back, `chat.update` |
| Agent runtime | `lambda_package/agent_runtime_app.py` | none | the same graph, run outside Lambda |
| Chatbot | `modules/chatbot/chatbot/{app,database,chat_agent}.py` | two DynamoDB tables; `_session_agents`, a dictionary of agents | create, list, delete a conversation; chat |
| Rules, Terraform, demos, vendored layer | `modules/observability`, `*.tf`, `LFS148-code_v2`, `lambda_layer` | configuration | - |

**How they interact.** Managed Alertmanager publishes to SNS, SNS invokes the
Lambda. Nothing bounds how many invocations run at once, Alertmanager repeats a
notice while the alert fires, and SNS may deliver it twice or out of order. A
handler is a sequence of calls to DynamoDB, AgentCore and Slack with no lock and
no conditional write; nearly every failure is printed and swallowed. An analysis
is handed on by an asynchronous self-invocation and may run minutes later. The
chatbot is one FastAPI server whose handlers run in threads and share the agents'
dictionary; its page hinders neither a second message nor a deletion while an
answer is awaited. Applications send their telemetry to the collector, which uploads
logs and traces to S3; agents ask for them there when OpenSearch no longer has them.

**What is hard.** Check-then-act on the incident table; `chat.update` rewriting a
whole message another handler also rewrites; analyses that outlive their
incident; agents that outlive theirs and remember it; records written as text and read
back by parsing it; calls that fail silently; events that are lost, repeated or delivered
again after a crash; the time limits and the two ways out of the review loop;
agents, caches and summaries that requests share; queries that read one page, in no
useful order, and copies that lag behind; deletion while a chat is in progress; time ranges across months and years, and queries that may never end. `PROJECT.json` lists them as hazards at the lines where they bite.

**What makes it right.**
- *Incidents*: one message per ongoing incident; an incident leaves the table
  only with a record; an analysis revives nothing that was not closed; every
  entry expires; a record that names another incident's cause names that of an
  earlier one.
- *Messages*: no contradictory sections, nothing reported is taken away again, the
  alert's description stays, "analysing" is temporary, "stored" is true.
- *Analysis*: it ends, in time; the figures given to the Writer are this round's,
  and every tool that was asked is among them; another incident's are forgotten before
  its own; an unaccepted report is used only at a limit.
- *Memory*: a record reads back as it was saved; the count of past incidents does not
  grow without a reason; an analysis is told no less than its message shows.
- *Chatbot*: every message is answered; nothing older than a summarised message is left
  out; nothing but a little is forgotten at a restart or by an agent; a deleted
  conversation is gone; the list works.
- *History*: an answer is of what was asked and lacks nothing of it; it comes in
  time, and no query is left running.

## 2. The modules

| Module | What it is | Code |
|---|---|---|
| `OngoingRegistry` | what the incident table promises, abstractly | D |
| `IncidentLifecycle` | handlers, graph nodes, table, memory, messages | H, G, D, `slack_templates.py`, `agentcore_memory.py` |
| `MCIncidentLifecycle` | its instances for TLC | |
| `IncidentProofs` | types and message shape | |
| `RegistryProofs` | refinement of `OngoingRegistry` | |
| `RecordProofs` | records and descriptions behind the messages | |
| `AloneProofs` | what holds of an alert's handlers where they do not overlap | |
| `RcaLoop`, `MCRcaLoop` | Collector, Writer, Reviewer and the tools' outputs | G, A |
| `RcaProofs` | time bound, evidence, what is forgotten, ways out of the loop | |
| `IncidentMemory`, `MCIncidentMemory` | what is remembered of an alert's past incidents, and who is told of it | M, G, H, D |
| `MemoryProofs` | types, reading back, what an analysis is told, number of records | |
| `ChatSession`, `MCChatSession` | one conversation of the chatbot | `app.py`, `database.py`, `chat_agent.py` |
| `ChatProofs` | types, summaries, deletions, and what is remembered of a conversation | |
| `TelemetryHistory`, `MCTelemetryHistory` | collector, S3 and the history tools | A, `user_data.sh`, `modules/observability/main.tf` |
| `HistoryProofs` | types, waiting, completeness of an answer | |

`PROJECT.json` maps each definition to its lines.

### IncidentLifecycle
State: `item` is the table (one entry or `Absent` per alert), `old` the entry
before it, for eventually consistent reads; `hist` the saved records; `posted` and
`blocks` the Slack messages as sets of sections; `modals` the open dialogs; `jobs`
the asynchronous analyses not yet started; `proc` what each invocation is doing and
holds; `ended` (a ghost) what removed which entry; `left` the budget of events.

A message is named by its number among those of its alert, an incident by the
message that announced it, a root cause by the message whose analysis wrote it.
Texts, severities and times are dropped.

A step is one call to one store plus the computation up to the next call, so
everything another invocation can come between is a step boundary:

| Handler | Actions |
|---|---|
| FIRING notice (H 903-966) | `AlarmSkip`, `AlarmCheck`, `AlarmPost`, `AlarmPut` |
| RESOLVED notice (H 971-1010) | `OkGet`, `OkSave`, `OkDelete` |
| analysis button | `AnalyzeClick`, `AnalyzeRead`, `AnalyzeUpdate`, `AnalyzeInvoke` |
| analysis and report | `StartAnalysis`, `Analyze`, `SaveNodeGet`, `SaveNodePut`, `ReportRead`, `ReportUpdate`, `ReportCause` |
| resolve button and dialog | `OpenModal`, `SubmitModal`, `ResolveGet`, `ResolveSave`, `ResolveDelete`, `ResolveRead`, `ResolveUpdate` |
| failures and time | `AnalyzeRaise`, `ReportFallback`, `Crash`, `Expire` |

The failures are the constant `Faults`: a read that fails (`get`, answered like a
missing entry) or is stale (`stale`), a put, delete, post, read of a message,
update, save or self-invocation that fails, a report that does not fit the template
(`template`), a graph that raises (`raise`), a killed invocation (`crash`), an
event handled twice (`twice`), a dialog submitted again (`slow`). Crashed or raised
analyses may be run again, as Lambda does with asynchronous events. A click is
possible only where the message shows the button. A dialog once open can be
submitted whatever becomes of its message.

Not in the model: the debug query, slash commands and the URL challenge, which
change none of these stores; a text posted to the thread when an analysis raises;
the two reads of the entry in the dialog's handler are one step, for the first is
only kept in a variable nothing uses.

### RcaLoop
`rca_node`: up to `MaxIterations` rounds of Collector, Writer and Reviewer; `Soft`
is looked at before a round, `Hard` after a Writer. The Collector calls tools,
which run in parallel and each leave one output in `raw`; `given` is the copy that
goes into the Writer's and the Reviewer's prompt. A tool is a sub-agent of the process
and a Strands agent takes one call at a time: a call made while the tool works is refused
at once, and the refusal is its output. What an agent answers is a choice: a report, a
text without JSON, an empty text; PASS, FAIL or neither. How long an agent takes is a
choice up to an *assumed* longest time. A tool call is counted per round (`MaxCalls`),
the budget the Collector's prompt states.

A warm process runs one analysis after the other (`NextAnalysis`). Each has a Collector
and variables of its own; `raw` and the agents `_writer` and `_reviewer` are the
process's. `memory` is what these two remember: each prompt, with raw outputs or without,
and each answer. After a call the last `Window` messages stay (`Trim`); when the model
refuses the length, the oldest go and it is asked again (`Overflow`); an agent that
raises keeps the prompt (`AgentRaises`). `ProcessEnds` loses all of it, at work or idle.

### IncidentMemory
One alert, its entry and its records. A text is what stands before its first ' | ' and
the parts "name: value" after it; `Content` is the line that `save_incident` writes, in
parts, and `Read` what the parser makes of it: the last part of a name counts. A lookup
(`GetStats`, `Similar`) answers with any of the records that can be found, as many as it
asks for; a saved record can be found some time later (`Indexed`).

`NoticePosts`, `NoticePuts` are the FIRING notice; `Click`, `MemoryNode`, `Analyzed`,
`SaveNodePuts`, `Reports` an analysis; `RecoveryGets`, `RecoverySaves`, `RecoveryDeletes`
the RESOLVED notice; `OpenModal`, `ResolutionSaves`, `ResolutionDeletes` the dialog;
`Expire` and `Killed` what happens around them. A call is a step.

Any number of RESOLVED notices (`Recoverers`) is in progress, a notice delivered twice
among them: each holds the entry it read, saves a record and deletes by alert name. Of
the other kinds one handler is in progress, beside those notices and each other: a second
FIRING notice or analysis would put or change the entry once more, which one does too, a
second dialog would save what a human typed. `Looked` is what a read of the entry may answer: the
entry, none when the read fails, `old` when it is stale. A write of the entry that fails
leaves what a handler killed before it leaves.

`shown` is the count a message shows. `chances` (a ghost) counts how often an incident
can come to a recovery's record: each put of its entry, each failed deletion or kill
between saving and deleting, and each record of a notice that was not the first to read
the entry (`repeats`). The module does not join `IncidentLifecycle` in one: the messages
need the overlaps of all handlers, the records the texts, and neither needs the other's.

### ChatSession
One conversation, since conversations share nothing. `conv` is its item (`bare`:
an item without a title), `table` its messages and summaries in order, `cache` the
agent that `_session_agents` holds, `agents` the agents with their memories. The
three parts of the program are composed here in one module because every step of a
request passes through all of them. Actions follow `chat` (`ChatBegins`,
`LoadHistory`, `AddUser`, `Touch`, ..., `AddReply`), `chat_agent.chat` (`FindAgent`,
`StoreAgent`, `CallAgent`, `AgentAnswers`, `AgentFails`), `_maybe_summarize` and
`add_summary` (`Count`, `List`, `Generate`, `SummaryQuery`, `SummaryDelete`,
`SummaryPut`, `Refresh`, `Assign`) and `delete_conversation` (`DeleteBegins`,
`DeleteQuery`, `DeleteBatch`, `DeletePop`). `Restart` loses requests and agents. That an
agent at work refuses a second call is behaviour of the vendored Strands library.

A query reads `PageSize` items (its 1 MB) in the order of the message ids, which are
random: `Rank` is a drawing of them. `FirstPage` is what a reader that does not ask for
the next page sees, sorted by `created_at` afterwards; every reader but the deletion is
of that kind. The deletion continues after the last id of its page (`last`). No read asks
to be consistent: each is answered from its table or from a copy that lags behind
(`ReadConv`, `ReadTable`; `lagConv`, `lagTable`), which at some time catches up (`CatchUp`),
perhaps never. `lags` is how many reads may still be answered so, at most `MaxLags` in all;
while it is `MaxLags`, no read has lagged. Making the agent fails in `AgentFails`, reading the context for the cached agent in
`SummaryFails`; the agent may be replaced or gone between that read and `Assign`.

Left out: a message takes its `created_at` before its put, here in one step, so that of
two messages stored at once the later may sort first; a `created_at` without its year
in a summary's text; copies that lag by different amounts, or for some items only.

### TelemetryHistory
`clock` is today, `batch` what the collector holds, `stored` what is in S3 with the
prefix and the day it was uploaded to. `pc`, `ask`, `query`, `found`, `waited`, `rows`
and `result` are one call of a tool; `known` (a ghost) is what was stored when it was
made. `Send` and `Upload` are the collector with its routes (`Prefix`), `Tick` the next
day: nothing waits in a batch longer than a minute, so nothing is uploaded later than
on the day after. A call is `Ask`, `StartQuery`, `PollQuery` until Athena is done
(`RunQuery`), `Collect`, with `AskFails`, `PollFails` and `TimeOut` as its other ends.
`InWindow` is the filter all three tools build from their dates, `Above` and `Firsts`
their order and limit: of rows that rank alike, the limit keeps any.

The collector and Athena are not this repository's code: the model has what the
configuration makes the one do and what the calls rely on in the other. An item stands
for a log, a span, or one group of the error counts. Not in the model: filters by name,
severity, keyword, status and duration, which narrow an answer and know no days; metrics
and the other exporters; hours and minutes of a partition, which no filter names.

### Fairness
- `IncidentLifecycle`: an invocation that has begun takes its next step, and a
  requested analysis is started (a Lambda invocation runs its handler; an accepted
  asynchronous event is delivered). Notices, clicks and failures owe nobody anything.
- `RcaLoop`: agents and tools answer (their clients have timeouts); no fairness on
  calling a tool, raising, overflowing, or beginning another analysis.
- `IncidentMemory` has no liveness: nothing in it must happen.
- `TelemetryHistory`: the tool goes on. Nothing is asked of Athena: a query may run for
  ever.
- `ChatSession`: a request in progress goes on, each request fairly, since each has
  a thread and every call it makes returns or raises.

## 3. The runs

| Run | Instance | Shows |
|---|---|---|
| `incident_tolerated` | 2 invocations, all failures but of the table's reads, the message's read and saving; 1 of each event | types; `MessageShape`: no overlap shows contradictory sections; `SummaryKept`, `ResolvedIsRecorded`, `LateEntryAfterClose`; and the refinement `RegistrySpec` |
| `incident_serial` | 1 invocation at a time, no failures, 2 of each event | `DeletedWasRecorded`, `ForeignCauseIsLate`, `OneMessagePerIncident`, `SectionsKept` |
| `incident_live` | 2 invocations, fair, no failures; 2 analyses | `StatusIsTemporary`, `RequestIsAnswered` |
| `rca_loop` | 2 analyses, 2 tools, 2 calls, 3 rounds, a window of 3 messages, fair | `EvidenceIsCurrent`, `EveryToolIsHeard`, `ForeignGoesFirst`, `UnacceptedOnlyAtLimit`, `InTime`, `RcaEnds` |
| `chat_serial` | 1 request at a time, all failing calls, 1 read that lags behind; 4 chats, 1 deletion of two pages, 1 restart | `ChatHeals`, `DeletedIsGone`, `ListWorks`, `SummaryIsPrefix` |
| `chat_concurrent` | 2 requests, fair, 3 chats, summaries may fail | types, `SummaryIsPrefix`, `EveryMessageAnswered` |
| `history_query` | days on both sides of a new year, 2 items of 5 senders, limit 1, all failures, fair | `RowsAreAsked`, `AnswerHasAll`, `NothingLeftRunning`, `WaitBounded`, `CallAnswered` |
| `memory_records` | 2 incidents, 2 records, 2 RESOLVED notices at once, texts with separators, deletions and lookups that fail | types, `ReadsBack`, `ToldNoLess`, `RecordedOncePerEntry` |
| `incident_duplicate` | 2 invocations, no failures | violation of `OneMessagePerIncident` |
| `incident_no_expiry` | 2 invocations, no failures, 1 of each event | violation of `EveryEntryExpires` |
| `rca_foreign_evidence` | 2 analyses, 2 tools, 4 calls, a window of 40 | violation of `SightIsOwn` |
| `chat_bare` | 2 requests, chats and a deletion | violation of `ListWorks` |

**Bounds, and why they are enough.**
One alert: entries, messages and records of different alerts are separate, and no
handler touches two. Two invocations: each hazard is an overlap of two handlers,
and each handler's every step may come between any two of the other; the theorems
cover any number. Two FIRING notices give an incident and the next one of the same
alert, where names are confused; the runs with failures have one of most events, so
that every failure can strike every call. The budget of `resolve` events counts
opened dialogs and second submissions. The bound on waiting analyses of a message
(`MaybeRetry`) is `MaxAnalyze`. Invocations are symmetric and the symmetry is used
only for safety.
A unit of time in `RcaLoop` is 25 s, so the two limits are the code's 150 s and 200 s,
and the Collector's 120 s of a comment are 125 s; two calls are two tools at once, or one
tool that refuses the second call or runs twice. The window is odd and shorter than one
analysis may need, so that what is cut off is sometimes of the analysis before and
sometimes its own; two analyses are one with a past. The theorems are for any window and
any number.
In `IncidentMemory` two incidents are one with a past and two records the least that a
count can get wrong; topK and limit of 2 and 1 make the one complete and the other cut
off. The typed text, the cause and the evidence each bring parts of another field's name.
Two RESOLVED notices overlap, the least that can save one entry twice. Reads of the table
and saves that fail, and stale reads, are left to the proofs, which hold for every `CanFail`
and any number of notices.
In `ChatSession` the threshold of 40 messages and the 20 recent turns (40 messages)
are 4 and 2 in `chat_serial`, 2 and 1 in the other runs: what matters is that the
threshold is the number of messages kept, and that chats go on beyond it. `chat_serial`
keeps two turns so that a message can fail before it reaches an agent and later be among
the recent ones. In it a page of 8 holds all that is read until the fourth answer is
stored, so that no chat misses a part, while a deletion after four chats takes two pages.
One read that lags may be any of them, and its copy may be from any time; the runs with two
requests have none.
In `TelemetryHistory` the end of a year is where a comparison of dates goes wrong if it can:
there the later month is the smaller. Two items and a limit of one make the limit cut; a caller asks
for two, so that its cap is used. One call, whose answer is the end: calls share nothing.
The range is asked for in order, and a batch is uploaded whole. Half a minute is a unit,
so the code's 60 s and 2 s pauses are 2 units and, coarser, 1; `WaitBounded` is proved
for any.

Deadlock is checked in the two runs of `RcaLoop`, which ends in an explicit step.
Incidents, records and chats may be quiet when the events are used up, and a history call
ends, so their runs do not check it.

**Where the boundary of a property lies.** Trying the properties outside the runs
above shows what each rests on:
- with overlapping handlers `SectionsKept` fails (two handlers read a message, and
  the later `chat.update` erases what the earlier one added) and so does
  `DeletedWasRecorded` (a deletion by alert name removes an incident registered
  after the read);
- if saving may fail `ResolvedIsRecorded` fails: the failure is swallowed and the
  message still says the resolution was stored;
- if reads of the table fail or are stale nothing is promised about it; `MessageShape` and
  the types hold all the same, and are proved for every failure;
- a record may name another incident's cause: entries are keyed by alert name, so an
  analysis that outlives its incident writes its cause on the next one's entry;
  `ForeignCauseIsLate` says that this is all that can happen while handlers do not overlap;
- `DeletedIsGone` fails when a chat overlaps the deletion: nothing ties the two, and the
  chat stores its agent (`chat_agent.py` 230) and its messages (`app.py` 77, 86) afterwards,
  in a conversation nobody can open;
- `SummaryIsPrefix` and `ChatHeals` need a conversation that fits in a page. The list, the
  context, the count and the search for old summaries (`database.py` 118, 126, 159, 180) read
  the first page, in the order of random ids, and sort it afterwards. Past 1 MB "all messages"
  (117) are an arbitrary part: the older half of that part is summarised, and what is not on
  the page is in neither the summary nor the context. With pages of 4 items and
  the newest ids first TLC finds that;
- `ChatHeals`, `DeletedIsGone` and `ListWorks` hold until a read has lagged behind, and say so.
  The context is read back (`chat_agent.py` 197) right after the summary was put (194): when
  that query misses the summary the agent is left with the recent turns alone. A deletion
  whose query misses the last message leaves it behind, and a chat whose check sees a
  deleted conversation touches it. `SummaryIsPrefix` bears such reads: what lags behind is a
  beginning of the conversation;
- in `ChatHeals` "at most one" is tight: `_maybe_summarize` runs before the answer is
  stored, so the context misses one message, and the refreshed agent its last answer.
  A question whose chat failed before it reached the agent is not known to the cached
  agent either, however many there are: the property leaves out what was never answered;
- two summarisers at once can leave two summaries, and only the newest is used;
- `ForeignGoesFirst` is what is left of `SightIsOwn`: the other analyses' messages are the
  oldest, and both the window and an overflow take the oldest;
- `EveryToolIsHeard` says that a tool leaves *an* output: of two calls that both
  succeeded the later output is all that is left (A 902-903), under the comment that the
  original outputs are handed to the Writer (A 46-48);
- `RecordedOncePerEntry` does not say that an incident has one record: a RESOLVED notice
  delivered twice has two when both read the entry before either deletes it, and the
  property says that each such record needs its own delivery. It bounds the records of
  RESOLVED notices; an incident closed by a notice and also by a dialog has one more,
  the dialog's with an unknown cause and no time if it comes second;
- `ToldNoLess` is one-sided: the analysis makes a lookup of its own (section 4) and may be
  told more than its message shows, or nothing when that lookup fails;
- in `ReadsBack` the conditions are needed: a typed text that contains
  " | Root Cause: ..." replaces the cause, evidence (written last) any field;
- `InTime` is 340 s with the limits and times of code and comments, since an empty Writer text
  lifts the soft limit; a comment (G 48) gives Lambda's limit as 300 s;
- `AnswerHasAll` leaves out what was uploaded in another month than it is from: the last
  minute of a month is found only by asking for the next one too;
- `NothingLeftRunning` leaves out calls that end in an error: a look at the query that
  fails, or a stop that does, leaves it running.

## 4. What the violations say

Four runs each refute something the repository says of itself; `PROJECT.json` quotes
the lines.
1. *Duplicate messages* (`incident_duplicate`): check, post and register are three
   calls; two notices at once both post.
2. *An entry that never expires* (`incident_no_expiry`): the upsert of a root cause
   (D 94) creates a missing entry without `expires_at`. In the trace the graph's last node
   still sees the entry, a RESOLVED notice in progress deletes it, and the report then
   stores its cause. The property sets aside alerts an entry of which has expired, so it is
   the closing that does it. The alert is then muted.
3. *Another incident's evidence* (`rca_foreign_evidence`): `_writer` and `_reviewer` are
   made once per process and remember 40 messages, so the section "RAW TOOL OUTPUTS
   (AUTHORITATIVE)" of the analysis before, perhaps of another alert, is in their sight.
4. *A conversation without a title* (`chat_bare`): touching a deleted conversation
   makes an item that fails the list of all of them.

Four more need no run, since no order of events is involved:
- the history tools take days and repeat them in their answers, and filter by year and month
  only (A 1169-1173), so that asked about one day they answer from its month;
- `search_incident_history` (A 986) imports a class that does not exist, so that it always
  answers an error;
- the notice hands its lookup to the registration (H 959), which has no column for it
  (D 61-81). The repository's README.md:212 and the comments at H 711 and G 496 speak of storing and
  reusing it: every analysis looks again, and `Registered` and `MemoryNode` are modelled so;
- "occurrences" of an alert (`slack_templates.py` 174) are records (M 265), and a RESOLVED notice
  saves one (H 986), so that an incident that recovered and was also resolved by its dialog
  counts twice.

## 5. What is proved

The theorems hold for every value of the constants: any alerts, invocations, budgets
and failures; any tools, limits and times. They assume only the named assumptions on
constants in the modules and the hypotheses stated here.

| Theorem | Says | Hypothesis | Inductive invariant |
|---|---|---|---|
| `TypeCorrect` | `[]TypeOK` | - | itself |
| `ShapeCorrect` | `[]MessageShape` | - | with `InHandStripped` |
| `LateEntry` | `[]LateEntryAfterClose` | reads of the table neither fail nor are stale | with `AnalysedWasKnown` |
| `RegistryCorrect` | `RegistrySpec` | the same | the same |
| `ResolutionsRecorded` | `[]ResolvedIsRecorded` | saving works | with `ResolvingIsRecorded` |
| `SummariesKept` | `[]SummaryKept` | messages can be read back | with `NamedIsPosted`, `SummaryInHand` |
| `MessagesPerIncident` | `OneMessagePerIncident` | reliable reads; nobody else is at work for an alert between a notice's check and its post | `TypeOK`, `CheckHolds` |
| `AnswersStay` | `SectionsKept` | messages can be read back; no two handlers hold the same message's blocks | with `NamedIsPosted`, `AnswersInHand` |
| `DeletionsRecorded` | `[]DeletedWasRecorded` | reliable reads, saving works; a handler that closes an incident is alone with its alert | `ClosingInv` |
| `ForeignCausesLate` | `[]ForeignCauseIsLate` | reliable reads, writes that work, no crash; one invocation of an alert at a time | `CauseInv` |
| `OneAtATimeKeeps` | the four above | one invocation at a time, no failure | - |
| `RcaTypes` | `[]TypeOK` of the loop | - | with `RoundInv` |
| `RcaInTime` | `[]InTime` | - | with `Schedule` |
| `RcaEvidence` | `[]EvidenceIsCurrent` | - | with what `raw` holds during a round |
| `RcaHeard` | `[]EveryToolIsHeard` | - | with `HeardInv` |
| `RcaForgets` | `[]ForeignGoesFirst` | - | with `MemoryInv` |
| `RcaAccepted` | `[]UnacceptedOnlyAtLimit` | - | itself |
| `ChatTypes` | `[]TypeOK` of the chatbot | - | itself |
| `ChatSummaries` | `[]SummaryIsPrefix` | the conversation fits in a page (`Short`) | `StartInv` |
| `ChatDeletions` | `[]DeletedIsGone`, `[]ListWorks` | no chat during a deletion (`Apart`) | `DeleteInv` |
| `ChatDeletionsAlone` | the same | one request at a time | the same |
| `ChatRemembers` | `ChatHeals` | no two requests at once (`Solo`); the conversation fits in a page; threshold at most one more than what is kept (the code: 40 and 40) | `HealInv`, with `DeleteInv` |
| `HistoryTypes` | `[]TypeOK` of the history | - | itself |
| `HistoryWaits` | `[]WaitBounded` | - | itself, with types |
| `HistorySettles` | `[]NothingLeftRunning` | - | `Settled` |
| `HistoryMeant` | `[]RowsAreAsked` | - | `AnswerInv` |
| `HistoryComplete` | `[]AnswerHasAll` | - | `AnswerInv` |
| `MemoryTypes` | `[]TypeOK` of the memory | - | itself |
| `MemoryReads` | `[]ReadsBack` | - | types, and lemma `ReadField` |
| `MemoryTold` | `[]ToldNoLess` | - | `Told` |
| `MemoryCounts` | `[]RecordedOncePerEntry` | - | `Counted` |

*Why the strengthenings are needed.* A handler holds blocks it read long ago and will
write back: the shape of a message is kept because what is in hand never has a button
or a status in it (`InHandStripped`), and the description because what is about to be
written has it (`SummaryInHand`), which in turn needs that buttons, jobs, dialogs and
handlers name only messages that were posted (`NamedIsPosted`). An analysis puts an entry
only where it saw none; that this means "after a closing" follows because whoever asked
for it had seen the entry (`AnalysedWasKnown`): through a button's handler, a waiting
job, and the invocation that started it. A resolution is shown by a handler that is past
saving (`ResolvingIsRecorded`). In `RcaInTime` the elapsed time is bounded stage by stage:
when a round begins, after its Collector, its Writer, its Reviewer. That a round's tools
are heard rests on what `raw` holds while calls are still running (`HeardInv`); that other
analyses are forgotten first on the order of what an agent remembers (`MemoryInv`), which
dropping the oldest messages keeps. A recovery's record was to come before it was saved
(`Coming`): with an entry no recovery had read, or with the one that read it first and is
about to save (`First`); the records of the others are counted when they are saved
(`Counted`). An analysis is told no less than its message shows because what a message shows
can be found and no entry holds a lookup (`Told`). An answer of a history
tool is complete because the query found all that was asked for and known (`AllFound`), which
rests on where the collector put each item (`Routed`) and on a lemma about dates alone: the
year and month filter covers the month of every day in the range (`WindowCovers`).

*What needs handlers apart.* `incident_duplicate` and the boundaries of section 3 show that
four properties fail when handlers overlap; `AloneProofs` says which overlap each one
cannot bear, and that without it the property holds. `MessagesPerIncident` asks for quiet only while a
notice is between its check and its post: meanwhile what it checked stays true
(`CheckHolds`). `DeletionsRecorded` asks for it from the read of a closing handler to its
deletion: the entry it deletes is then the one it saved. `AnswersStay` asks only that no two
handlers are rewriting one message: what is in hand has the answers the message has
(`AnswersInHand`). In `ForeignCausesLate` an entry's cause is its own, or that of an incident
that has ended: for that every posted message names the entry, one that has ended or one about to
be put (`PostedIsKnown`), and an entry is put only where there is none (`PutsFirst`).

*Conversations.* A summary is made of messages listed a while ago and stored when there may be
more and other summaries: it covers a beginning of the messages then, and still does
(`StartInv`), because messages are only added at the end and what is deleted on the way are
summaries; a copy that lags behind holds a beginning of them too. A deletion leaves nothing behind the last page it found as long as nobody adds
(`DeleteInv`). `HealInv` follows one chat through all its steps: as long as the messages are
few, the cached agent knows all that ever reached an agent, whichever agents failed or were
lost; when they are many, what is in hand is all but the recent ones; so before the answer is
stored nothing is missing, and storing it pushes one message out of the recent ones.

*How the proofs are built.* `IncidentProofs` has lemmas for each call's types and one for
each handler's actions. The later proofs do not go through all actions again: three
lemmas say once what any step can do to the messages (`MessageSteps`), to the table
(`TableSteps`) and to what an invocation holds (`FrameSteps`), and each invariant is shown
over those few cases. `RegistryCorrect` maps the cases of `TableSteps` to the abstract
actions or a stutter. `AloneProofs` does the same for one alert, with `ActsAlone`,
`EntrySteps`, `SaveSteps`, `PostSteps` and `WatchSteps`. `ChatProofs` begins with lemmas on
filters of a sequence (`WithoutAppend`, `WithoutItems`, `WithoutOthers`) and on its newest
items (`NewestSet`, `NewestAppend`). Those on filters go by induction over the sequence: the
library's induction theorems take a predicate, which the provers cannot instantiate, but its
theorem that a well-founded relation has minimal elements (`WFMin`) takes a set, and
`UpTo` and `SequenceInduction` are derived from it. The filter itself is a recursive function
(`Kept`) so that it can be expanded.

*Only model-checked.* Liveness under fairness (`StatusIsTemporary`, `RequestIsAnswered`,
`RcaEnds`, `EveryMessageAnswered`, `CallAnswered`), which is out of the prover's reach, as is
`ENABLED`. Every other property of a passing run is stated by a theorem, under the hypotheses
in the table. `SummaryIsPrefix` says nothing once a deletion was asked for, and `ChatHeals`,
`DeletedIsGone` and `ListWorks` nothing once a read has lagged behind. Nothing is proved of conversations longer
than a page but that their deletion takes every page. No module declares a RECURSIVE operator.

## 6. What is not modelled

The wording of prompts, reports and messages; the queries of the sub-agents but those to
Athena, which read and change nothing, and the sub-agents' own memories; the average time
and the most common cause of the statistics; two functions of M that nothing calls
(`get_recent_ongoing_incident`, `update_incident_resolution`); names of alerts that differ
only in special characters and so share records (M 43-47); signature checks, slash
commands, the debug query; the chatbot's page, of which only the lack of a lock is used; log
lines to CloudWatch, which no other part reads; the collector's metrics and other exporters;
Terraform and the demo applications. Of the vendored Python layer, which is nearly all of the
repository's lines, only the two files of Strands are modelled that decide what an agent
remembers and whether it takes a call; the rest is third-party code used as it is. Each has
its entry in `PROJECT.json`.

## 7. Plan

Done, in the order of importance: `OngoingRegistry`, `IncidentLifecycle` with its three
proof modules, `RcaLoop` with its proofs, `ChatSession`, `TelemetryHistory` with its proofs,
`RcaLoop` extended to several analyses of a process, `IncidentMemory` with its proofs.

Next, to be modelled:
1. Metrics in `TelemetryHistory` (`user_data.sh` 109-123, 343-387): more routes, and a
   collector that restarts.
2. The average and the most common cause of `get_stats`, which ignore records without a
   time or a cause.

Proved since: `ChatProofs`, and `AloneProofs` for what needs handlers apart.

Next, to be proved:
1. `EveryEntryExpires` under the hypothesis that no report overlaps a closing: the one
   condition under which the upsert of a root cause finds its entry;
2. `SightIsOwn` for a process that ends after each analysis, the remedy of that finding;
3. a refinement for the conversation: the store as an append-only list with a covering
   summary, of which `HealInv` and `StartInv` are the two halves.

A new module is composed with one that has a run where it can be, and joins its run.
