-------------------------- MODULE TelemetryHistory --------------------------
(***************************************************************************)
(* Logs and traces on their way to S3 and back.  The collector routes what *)
(* an application sends by its environment and source, keeps it in a batch *)
(* and uploads it into a partition named by the time of the upload.  The   *)
(* chatbot's history tools have Athena read the partitions of a time range *)
(* and wait for the result.                                                *)
(*                                                                         *)
(* The collector, S3 and Athena are not the repository's code: they are    *)
(* modelled as its configuration and its calls use them.                   *)
(***************************************************************************)
EXTENDS Naturals, FiniteSets

CONSTANTS Dates,      \* the days the model goes through
          Senders,    \* what sends: kind, environment, source and grade
          MaxItems,   \* bound: logs and spans sent
          Limits,     \* the limits an agent may ask for
          MaxLimit,   \* the largest limit a tool uses
          Timeout,    \* timeout_sec of _athena_run_query
          Sleep,      \* its pause between two looks at the query
          CallTime,   \* assumed: the longest time a look takes
          Faults      \* the failures that may happen

Kinds == {"log", "span"}
Environments == {"none", "dev", "prod"}
FaultKinds == {"date", "call", "stop"}

\* The tables know these years (projection.year.range).  The grade of a log is 2
\* if it is a warning or an error; that of a span is its duration.
ASSUME DatesAssumption == /\ Dates \subseteq [year : 2024..2030, month : 1..12, day : 1..31]
                          /\ Dates # {}
ASSUME SendersAssumption ==
  Senders \subseteq [kind : Kinds, env : Environments, source : {"app", "sys"}, grade : 1..2]
ASSUME LimitsAssumption == Limits \subseteq Nat /\ MaxItems \in Nat /\ MaxLimit \in Nat
ASSUME WaitAssumption == /\ Timeout \in Nat \ {0}
                         /\ Sleep \in Nat \ {0}
                         /\ CallTime \in Nat
ASSUME HistoryFaultsAssumption == Faults \subseteq FaultKinds

VARIABLES clock,    \* today
          sent,     \* how many items were sent
          batch,    \* items in the collector
          stored,   \* items in S3, each with its partition
          pc, ask,  \* what the tool is doing, and for what
          known,    \* what was stored when it was asked (ghost)
          query,    \* the state of the Athena query
          found,    \* what the query read
          waited,   \* how long the tool has waited for it
          rows, result

vars == <<clock, sent, batch, stored, pc, ask, known, query, found, waited, rows, result>>
toolVars == <<pc, ask, known, query, found, waited, rows, result>>

-----------------------------------------------------------------------------
Before(a, b) == \/ a.year < b.year
                \/ a.year = b.year /\ a.month < b.month
                \/ a.year = b.year /\ a.month = b.month /\ a.day < b.day
NotAfter(a, b) == a = b \/ Before(a, b)
SameMonth(a, b) == a.year = b.year /\ a.month = b.month

Items == [no : 1..MaxItems, from : Senders, day : Dates]

\* Mutant of Prefix: the rule for production comes before the one for its hosts.
PrefixProdFirst(s) ==
  [env |-> IF s.env = "prod" THEN "prod" ELSE "dev",
   source |-> IF s.kind = "log" /\ s.source = "sys" /\ s.env # "prod" THEN "host" ELSE "app"]

\* routing/logs and routing/traces: one that names no environment is given "dev",
\* and only logs have a pipeline for hosts.
Prefix(s) ==
  [env |-> IF s.env = "prod" THEN "prod" ELSE "dev",
   source |-> IF s.kind = "log" /\ s.source = "sys" THEN "host" ELSE "app"]
Prefixes == [env : {"dev", "prod"}, source : {"host", "app"}]
Pipelines == Kinds \X Prefixes
Pipeline(s) == <<s.kind, Prefix(s)>>

Stored == [item : Items, prefix : Prefixes, day : Dates]

-----------------------------------------------------------------------------
Tools == {"logs", "traces", "summary"}
\* "" asks for every environment.
Asks == [tool : Tools, env : {"", "dev", "prod"}, from : Dates, to : Dates, limit : Nat]
\* Each tool reads one table, of the applications' prefix.
KindOf(tool) == IF tool = "traces" THEN "span" ELSE "log"

\* Mutant of InWindow: the month is compared whatever the year.
InWindowAnyYear(d, from, to) ==
  /\ d.year >= from.year /\ d.month >= from.month
  /\ d.year <= to.year /\ d.month <= to.month

\* partition_filter: it names years and months, and no days.
InWindow(d, from, to) ==
  /\ d.year > from.year \/ (d.year = from.year /\ d.month >= from.month)
  /\ d.year < to.year \/ (d.year = to.year /\ d.month <= to.month)

Matches(s, a) ==
  /\ s.item.from.kind = KindOf(a.tool)
  /\ s.prefix.source = "app"
  /\ a.env \in {"", s.prefix.env}
  /\ InWindow(s.day, a.from, a.to)
  /\ a.tool = "summary" => s.item.from.grade = 2

\* ORDER BY: newest logs, slowest spans, counts of the latest partitions.  The
\* items of one group are one here: each is a group of its own.
Above(s, t, tool) ==
  CASE tool = "logs" -> s.item.no > t.item.no
    [] tool = "traces" -> s.item.from.grade > t.item.from.grade
    [] tool = "summary" -> Before(t.day, s.day)

\* LIMIT: of items that rank alike, any are cut off.
Firsts(S, a) ==
  {R \in SUBSET S :
     /\ Cardinality(R) <= a.limit
     /\ R # S => Cardinality(R) = a.limit
     /\ \A s \in S \ R : \A r \in R : ~Above(s, r, a.tool)}

-----------------------------------------------------------------------------
Init == /\ \E d \in Dates : /\ \A e \in Dates : NotAfter(d, e)
                            /\ clock = d
                            /\ ask = [tool |-> "logs", env |-> "", from |-> d, to |-> d,
                                      limit |-> 0]
        /\ sent = 0
        /\ batch = {}
        /\ stored = {}
        /\ pc = "idle"
        /\ known = {}
        /\ query = "none"
        /\ found = {}
        /\ waited = 0
        /\ rows = {}
        /\ result = "none"

\* A batch is uploaded within a minute: at the latest on the day after.
Tick ==
  /\ \A i \in batch : i.day = clock
  /\ \E d \in Dates : /\ Before(clock, d)
                      /\ \A e \in Dates : Before(clock, e) => NotAfter(d, e)
                      /\ clock' = d
  /\ UNCHANGED <<sent, batch, stored>> /\ UNCHANGED toolVars

Send(s) ==
  /\ sent < MaxItems
  /\ sent' = sent + 1
  /\ batch' = batch \union {[no |-> sent + 1, from |-> s, day |-> clock]}
  /\ UNCHANGED <<clock, stored>> /\ UNCHANGED toolVars

\* Mutant of Upload: the environment's prefix is the attribute as it was sent.
UploadAsSent(p) ==
  LET out == {i \in batch : Pipeline(i.from) = p}
  IN /\ out # {}
     /\ batch' = batch \ out
     /\ stored' = stored \union
          {[item |-> i, prefix |-> [p[2] EXCEPT !.env = i.from.env], day |-> clock] : i \in out}
     /\ UNCHANGED <<clock, sent>> /\ UNCHANGED toolVars

\* Bound: a batch is uploaded whole.
Upload(p) ==
  LET out == {i \in batch : Pipeline(i.from) = p}
  IN /\ out # {}
     /\ batch' = batch \ out
     /\ stored' = stored \union {[item |-> i, prefix |-> p[2], day |-> clock] : i \in out}
     /\ UNCHANGED <<clock, sent>> /\ UNCHANGED toolVars

-----------------------------------------------------------------------------
(* A tool's call.  It is answered with rows, with a message that there are *)
(* none, or with an error, whatever it was.                                *)

Answer(r) == /\ pc' = "answered"
             /\ result' = r
             /\ found' = {}
             /\ waited' = 0
Told == UNCHANGED <<clock, sent, batch, stored, ask, known>>

\* An empty date is today's; a limit is at most MaxLimit; the summary has no
\* limit but its own.  Bound: one call, which shares nothing with another;
\* assumed: the days are asked for in their order.
Ask(tool, env, from, to, limit) ==
  /\ pc = "idle"
  /\ NotAfter(from, to)
  /\ pc' = "start"
  /\ ask' = [tool |-> tool, env |-> env, from |-> from, to |-> to,
             limit |-> IF tool = "summary" \/ limit > MaxLimit THEN MaxLimit ELSE limit]
  /\ known' = stored
  /\ UNCHANGED <<clock, sent, batch, stored, query, found, waited, rows, result>>

\* A date that cannot be parsed, or a query that is not accepted.
AskFails ==
  /\ pc = "start"
  /\ Faults \intersect {"date", "call"} # {}
  /\ Answer("error")
  /\ UNCHANGED <<query, rows>> /\ Told

StartQuery ==
  /\ pc = "start"
  /\ query' = "running"
  /\ pc' = "wait"
  /\ UNCHANGED <<found, waited, rows, result>> /\ Told

\* Athena, while the query runs.
RunQuery ==
  /\ query = "running"
  /\ \/ query' = "succeeded" /\ found' = {s \in stored : Matches(s, ask)}
     \/ query' = "failed" /\ UNCHANGED found
  /\ UNCHANGED <<pc, waited, rows, result>> /\ Told

\* Mutant of PollQuery: only the result ends the loop.
PollForever ==
  /\ pc = "wait"
  /\ \/ query = "succeeded" /\ pc' = "collect" /\ UNCHANGED <<found, waited, result>>
     \/ query = "failed" /\ Answer("error")
     \/ query = "running" /\ UNCHANGED <<pc, found, waited, result>>
  /\ UNCHANGED <<query, rows>> /\ Told
\* Mutant of PollQuery: the pauses grow.
PollBacksOff ==
  /\ pc = "wait"
  /\ waited < Timeout
  /\ \E d \in 0..CallTime :
       \/ /\ query = "succeeded"
          /\ pc' = "collect"
          /\ waited' = waited + d
          /\ UNCHANGED <<found, result>>
       \/ query = "failed" /\ Answer("error")
       \/ /\ query = "running"
          /\ waited' = waited + d + Sleep + waited
          /\ UNCHANGED <<pc, found, result>>
  /\ UNCHANGED <<query, rows>> /\ Told

\* One turn of the loop: a look at the query, and a pause if it still runs.
PollQuery ==
  /\ pc = "wait"
  /\ waited < Timeout
  /\ \E d \in 0..CallTime :
       \/ /\ query = "succeeded"
          /\ pc' = "collect"
          /\ waited' = waited + d
          /\ UNCHANGED <<found, result>>
       \/ query = "failed" /\ Answer("error")
       \/ /\ query = "running"
          /\ waited' = waited + d + Sleep
          /\ UNCHANGED <<pc, found, result>>
  /\ UNCHANGED <<query, rows>> /\ Told

\* A look that fails ends the call, and not the query.
PollFails ==
  /\ "call" \in Faults
  /\ pc \in {"wait", "collect"}
  /\ Answer("error")
  /\ UNCHANGED <<query, rows>> /\ Told

\* Mutant of TimeOut: the query is left to itself.
TimeOutOnly ==
  /\ pc = "wait"
  /\ waited >= Timeout
  /\ Answer("timeout")
  /\ UNCHANGED <<query, rows>> /\ Told

\* stop_query_execution has no effect on a query that has ended.
TimeOut ==
  /\ pc = "wait"
  /\ waited >= Timeout
  /\ \/ /\ query' = IF query = "running" THEN "cancelled" ELSE query
        /\ Answer("timeout")
     \/ "stop" \in Faults /\ UNCHANGED query /\ Answer("error")
  /\ UNCHANGED rows /\ Told

\* All pages of the result.
Collect ==
  /\ pc = "collect"
  /\ rows' \in Firsts(found, ask)
  /\ Answer(IF rows' = {} THEN "empty" ELSE "rows")
  /\ UNCHANGED query /\ Told

Work == StartQuery \/ PollQuery \/ TimeOut \/ Collect

\* Bound: an answer is the end.
Next ==
  \/ /\ pc # "answered"
     /\ Tick \/ (\E s \in Senders : Send(s)) \/ (\E p \in Pipelines : Upload(p))
  \/ \E tool \in Tools, env \in {"", "dev", "prod"}, limit \in Limits :
       \E from \in Dates, to \in Dates : Ask(tool, env, from, to, limit)
  \/ Work \/ RunQuery \/ AskFails \/ PollFails

Spec == Init /\ [][Next]_vars

\* The tool goes on.  Nothing is asked of Athena: a query may run for ever.
FairSpec == Spec /\ WF_vars(Work)

-----------------------------------------------------------------------------
TypeOK ==
  /\ clock \in Dates
  /\ sent \in 0..MaxItems
  /\ batch \in SUBSET Items
  /\ stored \in SUBSET Stored
  /\ pc \in {"idle", "start", "wait", "collect", "answered"}
  /\ ask \in Asks
  /\ known \in SUBSET Stored
  /\ query \in {"none", "running", "succeeded", "failed", "cancelled"}
  /\ found \in SUBSET Stored
  /\ waited \in Nat
  /\ rows \in SUBSET Stored
  /\ result \in {"none", "rows", "empty", "timeout", "error"}

\* Whether what s sends is meant by a question about env: what does not come from
\* production is of the development environment.
MeantBy(s, env) == env = "" \/ (env = "prod" <=> s.env = "prod")

\* What the tool answers with is of the environment it was asked about, and a log
\* is an application's, not a host's: the routes and the tools' tables agree.
RowsAreAsked ==
  \A r \in rows : LET s == r.item.from
                  IN /\ s.kind = KindOf(ask.tool)
                     /\ s.kind = "log" => s.source = "app"
                     /\ MeantBy(s, ask.env)

Wanted(s) ==
  /\ s.item.from.kind = KindOf(ask.tool)
  /\ s.item.from.kind = "log" => s.item.from.source = "app"
  /\ MeantBy(s.item.from, ask.env)
  /\ NotAfter(ask.from, s.item.day) /\ NotAfter(s.item.day, ask.to)
  /\ ask.tool = "summary" => s.item.from.grade = 2

\* Of what was stored when the tool was asked, an answer leaves out nothing of the
\* days asked for, across months and years, unless the limit cut it off or it was
\* uploaded in another month than it is from.
AnswerHasAll ==
  result \in {"rows", "empty"} =>
    \A s \in known : Wanted(s) /\ SameMonth(s.item.day, s.day) =>
      \/ s \in rows
      \/ /\ Cardinality(rows) = ask.limit
         /\ \A r \in rows : ~Above(s, r, ask.tool)

\* A call that ends with rows, without any, or by its time limit leaves no query
\* running.
NothingLeftRunning == result \in {"rows", "empty", "timeout"} => query # "running"

\* The tool waits little longer than its time limit, whatever Athena does.
WaitBounded == waited < Timeout + CallTime + Sleep

\* Every call is answered, though Athena never ends the query.
CallAnswered == pc \in {"start", "wait", "collect"} ~> pc = "answered"
=============================================================================
