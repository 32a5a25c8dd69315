---------------------------- MODULE HistoryProofs ----------------------------
(***************************************************************************)
(* Proofs about TelemetryHistory, for any days, senders, limits, time      *)
(* limits and failures.                                                    *)
(***************************************************************************)
EXTENDS TelemetryHistory, TLAPS

\* The environment's steps, and those of a call and of Athena.
Around == Tick \/ (\E s \in Senders : Send(s)) \/ (\E p \in Pipelines : Upload(p))
Asking == \E tool \in Tools, env \in {"", "dev", "prod"}, limit \in Limits :
            \E from \in Dates, to \in Dates : Ask(tool, env, from, to, limit)

\* What a step may be, once more, by who takes it.
LEMMA Steps ==
  ASSUME [Next]_vars
  PROVE  \/ UNCHANGED vars \/ Around \/ Asking
         \/ StartQuery \/ PollQuery \/ TimeOut \/ Collect
         \/ RunQuery \/ AskFails \/ PollFails
BY DEF Next, Work, Around, Asking

-----------------------------------------------------------------------------
(* Types.                                                                  *)

\* What is sent goes to a prefix that a table reads.
LEMMA PrefixType == \A s \in Senders : Prefix(s) \in Prefixes
BY DEF Prefix, Prefixes

\* The steps around the tool keep the types.
LEMMA AroundTypes ==
  ASSUME TypeOK, Around
  PROVE  TypeOK'
<1>1. CASE Tick
  BY <1>1 DEF Tick, toolVars, TypeOK
<1>2. ASSUME NEW s \in Senders, Send(s)
      PROVE  TypeOK'
  <2>1. sent + 1 \in 1..MaxItems
    BY <1>2, LimitsAssumption DEF Send, TypeOK
  <2>2. [no |-> sent + 1, from |-> s, day |-> clock] \in Items
    BY <2>1 DEF Items, TypeOK
  <2>3. QED
    BY <1>2, <2>1, <2>2 DEF Send, toolVars, TypeOK
<1>3. ASSUME NEW p \in Pipelines, Upload(p)
      PROVE  TypeOK'
  <2>1. ASSUME NEW i \in batch, Pipeline(i.from) = p
        PROVE  [item |-> i, prefix |-> p[2], day |-> clock] \in Stored
    BY <2>1 DEF Stored, Pipelines, TypeOK
  <2>2. stored' \in SUBSET Stored /\ batch' \in SUBSET Items
    BY <1>3, <2>1 DEF Upload, TypeOK
  <2>3. QED
    BY <1>3, <2>2 DEF Upload, toolVars, TypeOK
<1>4. QED
  BY <1>1, <1>2, <1>3 DEF Around

\* A call, its query and its answer keep the types.
LEMMA HistoryStep == TypeOK /\ [Next]_vars => TypeOK'
<1> SUFFICES ASSUME TypeOK, [Next]_vars
             PROVE  TypeOK'
  OBVIOUS
<1>1. CASE UNCHANGED vars
  BY <1>1 DEF vars, TypeOK
<1>2. CASE Around
  BY <1>2, AroundTypes
<1>3. CASE Asking
  <2>1. PICK tool \in Tools, env \in {"", "dev", "prod"}, limit \in Limits,
             from \in Dates, to \in Dates : Ask(tool, env, from, to, limit)
    BY <1>3 DEF Asking
  <2>2. ask' \in Asks
    BY <2>1, LimitsAssumption DEF Ask, Asks
  <2>3. QED
    BY <2>1, <2>2 DEF Ask, TypeOK
<1>4. CASE StartQuery
  BY <1>4 DEF StartQuery, Told, TypeOK
<1>5. CASE PollQuery
  BY <1>5, WaitAssumption DEF PollQuery, Answer, Told, TypeOK
<1>6. CASE TimeOut
  BY <1>6 DEF TimeOut, Answer, Told, TypeOK
<1>7. CASE Collect
  <2>1. rows' \in SUBSET Stored
    BY <1>7 DEF Collect, Firsts, TypeOK
  <2>2. QED
    BY <1>7, <2>1 DEF Collect, Answer, Told, TypeOK
<1>8. CASE RunQuery
  <2>1. found' \in SUBSET Stored
    BY <1>8 DEF RunQuery, TypeOK
  <2>2. QED
    BY <1>8, <2>1 DEF RunQuery, Told, TypeOK
<1>9. CASE AskFails
  BY <1>9 DEF AskFails, Answer, Told, TypeOK
<1>10. CASE PollFails
  BY <1>10 DEF PollFails, Answer, Told, TypeOK
<1>11. QED
  BY <1>1, <1>2, <1>3, <1>4, <1>5, <1>6, <1>7, <1>8, <1>9, <1>10, Steps

\* The first day is well typed.
LEMMA HistoryInit == Init => TypeOK
<1> SUFFICES ASSUME Init
             PROVE  TypeOK
  OBVIOUS
<1>1. PICK d \in Dates : /\ clock = d
                         /\ ask = [tool |-> "logs", env |-> "", from |-> d, to |-> d,
                                   limit |-> 0]
  BY DEF Init
<1>2. clock \in Dates /\ ask \in Asks
  BY <1>1 DEF Asks, Tools
<1>3. /\ sent = 0 /\ batch = {} /\ stored = {} /\ pc = "idle" /\ known = {}
      /\ query = "none" /\ found = {} /\ waited = 0 /\ rows = {} /\ result = "none"
  BY DEF Init
<1>4. sent \in 0..MaxItems
  BY <1>3, LimitsAssumption
<1>5. QED
  BY <1>2, <1>3, <1>4 DEF TypeOK

\* The history and its tools keep their types, whatever is sent and asked.
THEOREM HistoryTypes == Spec => []TypeOK
BY HistoryInit, HistoryStep, PTL DEF Spec

-----------------------------------------------------------------------------
(* The wait.                                                               *)

\* The loop looks at the time before each turn, and a turn is a look and a pause.
LEMMA WaitStep == TypeOK /\ WaitBounded /\ [Next]_vars => WaitBounded'
<1> SUFFICES ASSUME TypeOK, WaitBounded, [Next]_vars
             PROVE  WaitBounded'
  OBVIOUS
<1> USE WaitAssumption DEF WaitBounded, TypeOK
<1>1. CASE waited' \in {0, waited}
  BY <1>1
<1>2. CASE PollQuery
  BY <1>2 DEF PollQuery, Answer
<1>3. CASE UNCHANGED vars \/ Around \/ Asking \/ StartQuery \/ RunQuery
  <2>1. waited' = waited
    BY <1>3 DEF vars, toolVars, Around, Tick, Send, Upload, Asking, Ask, StartQuery, RunQuery
  <2>2. QED
    BY <2>1, <1>1
<1>4. CASE TimeOut \/ Collect \/ AskFails \/ PollFails
  <2>1. waited' = 0
    BY <1>4 DEF TimeOut, Collect, AskFails, PollFails, Answer
  <2>2. QED
    BY <2>1, <1>1
<1>5. QED
  BY <1>2, <1>3, <1>4, Steps

\* Whatever Athena does, a tool waits less than a look and a pause longer than
\* its time limit.
THEOREM HistoryWaits == Spec => []WaitBounded
<1>1. Init => WaitBounded
  <2>1. Init => waited = 0
    BY DEF Init
  <2>2. QED
    BY <2>1, WaitAssumption DEF WaitBounded
<1>2. QED
  BY <1>1, HistoryInit, HistoryStep, WaitStep, PTL DEF Spec

-----------------------------------------------------------------------------
(* No query is left running.                                               *)

\* A tool collects only from a query that succeeded; an answered call starts none.
Settled == /\ pc = "collect" => query = "succeeded"
           /\ result # "none" => pc = "answered"
           /\ NothingLeftRunning

\* Every step leaves it so.
LEMMA SettledStep == Settled /\ [Next]_vars => Settled'
<1> SUFFICES ASSUME Settled, [Next]_vars
             PROVE  Settled'
  OBVIOUS
<1> USE DEF Settled, NothingLeftRunning
<1>1. CASE UNCHANGED vars \/ Around
  BY <1>1 DEF vars, toolVars, Around, Tick, Send, Upload
<1>2. CASE Asking
  BY <1>2 DEF Asking, Ask
<1>3. CASE StartQuery \/ AskFails
  BY <1>3 DEF StartQuery, AskFails, Answer
<1>4. CASE PollQuery \/ PollFails
  BY <1>4 DEF PollQuery, PollFails, Answer
<1>5. CASE TimeOut \/ Collect
  BY <1>5 DEF TimeOut, Collect, Answer
<1>6. CASE RunQuery
  BY <1>6 DEF RunQuery
<1>7. QED
  BY <1>1, <1>2, <1>3, <1>4, <1>5, <1>6, Steps

\* A call that ends without an error has its query ended.
THEOREM HistorySettles == Spec => []NothingLeftRunning
<1>1. Init => Settled
  BY DEF Init, Settled, NothingLeftRunning
<1>2. Settled => NothingLeftRunning
  BY DEF Settled
<1>3. QED
  BY <1>1, <1>2, SettledStep, PTL DEF Spec

-----------------------------------------------------------------------------
(* What an answer holds, and what it leaves out.                           *)

\* The filter by years and months covers every month that has a day asked for.
LEMMA WindowCovers ==
  ASSUME NEW d \in Dates, NEW p \in Dates, NEW from \in Dates, NEW to \in Dates,
         NotAfter(from, d), NotAfter(d, to), SameMonth(d, p)
  PROVE  InWindow(p, from, to)
<1>1. /\ d.year \in Nat /\ d.month \in Nat
      /\ from.year \in Nat /\ from.month \in Nat
      /\ to.year \in Nat /\ to.month \in Nat
  BY DatesAssumption
<1>2. d.year = p.year /\ d.month = p.month
  BY DEF SameMonth
<1>3. from.year < d.year \/ (from.year = d.year /\ from.month <= d.month)
  BY <1>1 DEF NotAfter, Before
<1>4. d.year < to.year \/ (d.year = to.year /\ d.month <= to.month)
  BY <1>1 DEF NotAfter, Before
<1>5. QED
  BY <1>1, <1>2, <1>3, <1>4 DEF InWindow

\* What is stored went where its sender's items go.
Routed == \A s \in stored : s.prefix = Prefix(s.item.from)

\* Until the tool has answered, what was known is stored, and a query that
\* succeeded found what matches of it.
AllFound ==
  /\ known \subseteq stored
  /\ \A s \in found : s \in stored /\ Matches(s, ask)
  /\ query = "succeeded" /\ pc # "answered" =>
       \A s \in known : Matches(s, ask) => s \in found
  /\ pc \in {"idle", "start"} => query = "none" /\ found = {}
  /\ pc = "collect" => query = "succeeded"
  /\ pc # "answered" => result = "none" /\ rows = {}

AnswerInv == TypeOK /\ Routed /\ AllFound /\ RowsAreAsked /\ AnswerHasAll

\* What a stored item is of.
LEMMA StoredType ==
  ASSUME NEW s \in Stored
  PROVE  /\ s.item \in Items /\ s.prefix \in Prefixes /\ s.day \in Dates
         /\ s.item.from \in Senders /\ s.item.day \in Dates
         /\ s.item.from.kind \in Kinds
         /\ s.item.from.env \in Environments
BY SendersAssumption DEF Stored, Items

\* Where an item is routed, field by field.
LEMMA PrefixFields ==
  ASSUME NEW s
  PROVE  /\ Prefix(s).env = "prod" <=> s.env = "prod"
         /\ Prefix(s).env = "dev" <=> s.env # "prod"
         /\ Prefix(s).source = "app" <=> ~(s.kind = "log" /\ s.source = "sys")
BY DEF Prefix

\* The routes and the tables mean the same by an environment and a source: what a
\* query matches is what is asked.
LEMMA MatchesMeans ==
  ASSUME NEW s \in Stored, NEW a \in Asks, s.prefix = Prefix(s.item.from), Matches(s, a)
  PROVE  /\ s.item.from.kind = KindOf(a.tool)
         /\ s.item.from.kind = "log" => s.item.from.source = "app"
         /\ MeantBy(s.item.from, a.env)
<1>1. s.item.from.source \in {"app", "sys"}
  BY StoredType, SendersAssumption
<1>2. a.env \in {"", "dev", "prod"}
  BY DEF Asks
<1> DEFINE sender == s.item.from
<1>3. /\ s.prefix.env = "prod" <=> sender.env = "prod"
      /\ s.prefix.env = "dev" <=> sender.env # "prod"
      /\ s.prefix.source = "app" <=> ~(sender.kind = "log" /\ sender.source = "sys")
  BY PrefixFields
<1>4. sender.kind = "log" => sender.source = "app"
  BY <1>1, <1>3 DEF Matches
<1>5. a.env = "" \/ (a.env = "prod" <=> sender.env = "prod")
  BY <1>2, <1>3 DEF Matches
<1>6. QED
  BY <1>4, <1>5 DEF Matches, MeantBy

\* What is asked, and was uploaded in its own month, is matched.
LEMMA WantedMatches ==
  ASSUME TypeOK, NEW s \in Stored, s.prefix = Prefix(s.item.from), Wanted(s),
         SameMonth(s.item.day, s.day)
  PROVE  Matches(s, ask)
<1>1. ask.from \in Dates /\ ask.to \in Dates /\ ask.env \in {"", "dev", "prod"}
  BY DEF TypeOK, Asks
<1>2. InWindow(s.day, ask.from, ask.to)
  BY <1>1, StoredType, WindowCovers DEF Wanted
<1> DEFINE sender == s.item.from
<1>3. /\ s.prefix.env = "prod" <=> sender.env = "prod"
      /\ s.prefix.env = "dev" <=> sender.env # "prod"
      /\ s.prefix.source = "app" <=> ~(sender.kind = "log" /\ sender.source = "sys")
  BY PrefixFields
<1>4. s.prefix.source = "app"
  BY <1>3 DEF Wanted
<1>5. ask.env \in {"", s.prefix.env}
  BY <1>1, <1>3 DEF Wanted, MeantBy
<1>6. QED
  BY <1>2, <1>4, <1>5 DEF Wanted, Matches

\* The steps that are no answer keep the invariant.
LEMMA AroundAnswers ==
  ASSUME AnswerInv, [Next]_vars, TypeOK',
         UNCHANGED vars \/ Around \/ Asking \/ StartQuery
  PROVE  AnswerInv'
<1> USE DEF AnswerInv
<1>1. CASE UNCHANGED vars
  BY <1>1 DEF vars, Routed, AllFound, RowsAreAsked, AnswerHasAll, Wanted, Matches
<1>2. CASE Around
  <2>1. UNCHANGED toolVars /\ stored \subseteq stored'
    BY <1>2 DEF Around, Tick, Send, Upload
  <2>2. Routed'
    BY <1>2 DEF Around, Tick, Send, Upload, Routed, Pipeline
  <2>3. AllFound' /\ RowsAreAsked' /\ AnswerHasAll'
    BY <2>1 DEF toolVars, AllFound, RowsAreAsked, AnswerHasAll, Wanted, Matches
  <2>4. QED
    BY <2>2, <2>3
<1>3. CASE Asking
  <2>1. /\ pc = "idle" /\ pc' = "start" /\ known' = stored
        /\ UNCHANGED <<stored, query, found, rows, result>>
    BY <1>3 DEF Asking, Ask
  <2>2. rows = {} /\ result = "none" /\ query = "none" /\ found = {}
    BY <2>1 DEF AllFound
  <2>3. QED
    BY <2>1, <2>2 DEF Routed, AllFound, RowsAreAsked, AnswerHasAll
<1>4. CASE StartQuery
  <2>1. /\ pc = "start" /\ pc' = "wait" /\ query' = "running"
        /\ UNCHANGED <<stored, known, ask, found, rows, result>>
    BY <1>4 DEF StartQuery, Told
  <2>2. rows = {} /\ result = "none" /\ found = {}
    BY <2>1 DEF AllFound
  <2>3. QED
    BY <2>1, <2>2 DEF Routed, AllFound, RowsAreAsked, AnswerHasAll
<1>5. QED
  BY <1>1, <1>2, <1>3, <1>4

\* What Athena does, and what the tool does about it.
LEMMA AnswerStep == AnswerInv /\ [Next]_vars => AnswerInv'
<1> SUFFICES ASSUME AnswerInv, [Next]_vars
             PROVE  AnswerInv'
  OBVIOUS
<1>1. TypeOK'
  BY HistoryStep DEF AnswerInv
<1> USE DEF AnswerInv
<1>2. CASE UNCHANGED vars \/ Around \/ Asking \/ StartQuery
  BY <1>1, <1>2, AroundAnswers
<1>3. CASE RunQuery
  <2>1. /\ query = "running"
        /\ UNCHANGED <<stored, known, ask, pc, rows, result>>
        /\ \/ query' = "succeeded" /\ found' = {s \in stored : Matches(s, ask)}
           \/ query' = "failed" /\ found' = found
    BY <1>3 DEF RunQuery, Told
  <2>2. pc \in {"wait", "collect", "answered"}
    BY <2>1 DEF AllFound, TypeOK
  <2>3. Routed' /\ RowsAreAsked' /\ AnswerHasAll'
    BY <2>1 DEF Routed, RowsAreAsked, AnswerHasAll, Wanted
  <2>4. known \subseteq stored /\ \A s \in found : s \in stored /\ Matches(s, ask)
    BY DEF AllFound
  <2>5. \A s \in found' : s \in stored /\ Matches(s, ask)
    BY <2>1, <2>4
  <2>6. query' = "succeeded" => \A s \in known : Matches(s, ask) => s \in found'
    BY <2>1, <2>4
  <2>7. pc = "collect" => query = "succeeded"
    BY DEF AllFound
  <2>8. pc # "answered" => result = "none" /\ rows = {}
    BY DEF AllFound
  <2>9. AllFound'
    BY <2>1, <2>2, <2>4, <2>5, <2>6, <2>7, <2>8 DEF AllFound, Matches
  <2>10. QED
    BY <1>1, <2>3, <2>9
<1>4. CASE PollQuery \/ TimeOut \/ AskFails \/ PollFails
  <2>1. /\ UNCHANGED <<stored, known, ask, rows>>
        /\ pc \in {"start", "wait", "collect"}
        /\ query' = query \/ query' = "cancelled"
        /\ \/ pc' = pc /\ UNCHANGED <<found, result>> /\ pc = "wait"
           \/ pc' = "collect" /\ query = "succeeded" /\ UNCHANGED <<query, found, result>>
           \/ pc' = "answered" /\ found' = {} /\ result' \in {"error", "timeout"}
    BY <1>4 DEF PollQuery, TimeOut, AskFails, PollFails, Answer, Told
  <2>2. rows = {} /\ result = "none"
    BY <2>1 DEF AllFound
  <2>3. Routed' /\ RowsAreAsked' /\ AnswerHasAll'
    BY <2>1, <2>2 DEF Routed, RowsAreAsked, AnswerHasAll
  <2>4. AllFound'
    BY <2>1, <2>2 DEF AllFound, Matches
  <2>5. QED
    BY <1>1, <2>3, <2>4
<1>5. CASE Collect
  <2>1. /\ UNCHANGED <<stored, known, ask, query>>
        /\ pc = "collect" /\ pc' = "answered"
        /\ found' = {} /\ rows' \in Firsts(found, ask)
    BY <1>5 DEF Collect, Answer, Told
  <2>2. rows' \subseteq found
    BY <2>1 DEF Firsts
  <2>3. /\ found \subseteq stored /\ stored \subseteq Stored /\ ask \in Asks
        /\ known \subseteq stored
        /\ \A s \in stored : s.prefix = Prefix(s.item.from)
        /\ \A s \in found : Matches(s, ask)
        /\ \A s \in known : Matches(s, ask) => s \in found
    BY <2>1 DEF TypeOK, AllFound, Routed
  <2>4. RowsAreAsked'
    <3>1. ASSUME NEW r \in rows'
          PROVE  /\ r.item.from.kind = KindOf(ask.tool)
                 /\ r.item.from.kind = "log" => r.item.from.source = "app"
                 /\ MeantBy(r.item.from, ask.env)
      BY <2>2, <2>3, MatchesMeans
    <3>2. QED
      BY <2>1, <3>1 DEF RowsAreAsked
  <2>5. ASSUME NEW s \in known, Wanted(s), SameMonth(s.item.day, s.day)
        PROVE  \/ s \in rows'
               \/ /\ Cardinality(rows') = ask.limit
                  /\ \A r \in rows' : ~Above(s, r, ask.tool)
    <3>1. s \in found
      BY <2>3, <2>5, WantedMatches
    <3>2. QED
      BY <2>1, <3>1 DEF Firsts
  <2>6. AnswerHasAll'
    BY <2>1, <2>5 DEF AnswerHasAll, Wanted
  <2>7. Routed' /\ AllFound'
    BY <2>1, <2>3 DEF Routed, AllFound
  <2>8. QED
    BY <1>1, <2>4, <2>6, <2>7
<1>6. QED
  BY <1>2, <1>3, <1>4, <1>5, Steps

\* At first nothing is stored, known or found.
LEMMA AnswerInit == Init => AnswerInv
<1> SUFFICES ASSUME Init
             PROVE  AnswerInv
  OBVIOUS
<1>1. /\ stored = {} /\ known = {} /\ found = {} /\ rows = {}
      /\ result = "none" /\ query = "none" /\ pc = "idle"
  BY DEF Init
<1>2. QED
  BY <1>1, HistoryInit DEF AnswerInv, Routed, AllFound, RowsAreAsked, AnswerHasAll

\* Of what was stored when a tool was asked, its answer leaves out nothing of the
\* days asked for but what the limit cut off, or was uploaded in another month.
THEOREM HistoryComplete == Spec => []AnswerHasAll
<1>1. AnswerInv => AnswerHasAll
  BY DEF AnswerInv
<1>2. QED
  BY <1>1, AnswerInit, AnswerStep, PTL DEF Spec

\* What an answer holds is of the environment and of the source asked about.
THEOREM HistoryMeant == Spec => []RowsAreAsked
<1>1. AnswerInv => RowsAreAsked
  BY DEF AnswerInv
<1>2. QED
  BY <1>1, AnswerInit, AnswerStep, PTL DEF Spec
=============================================================================
