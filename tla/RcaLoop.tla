------------------------------ MODULE RcaLoop ------------------------------
(***************************************************************************)
(* The analysis of one alert (rca_node): a Collector questions tools, a    *)
(* Writer turns what it found into a report, a Reviewer accepts or rejects *)
(* the report, and a rejected one sends the Collector out again, for a few *)
(* rounds and within two time limits.                                      *)
(*                                                                         *)
(* The Collector may run several tools at once.  Each tool keeps its last  *)
(* output in a shared dictionary (_raw_outputs), from which the Writer and *)
(* the Reviewer get the numbers they are told to trust.                    *)
(*                                                                         *)
(* A warm process runs one analysis after the other.  The Collector is new *)
(* in each; the dictionary, the Writer and the Reviewer are the process's, *)
(* and these two remember the messages of their last calls.                *)
(***************************************************************************)
EXTENDS Naturals, FiniteSets, Sequences

CONSTANTS Tools,          \* metrics_agent, logs_agent, infrastructure_agent
          MaxIterations,  \* MAX_ITERATIONS
          Soft,           \* no new round after this time, if there is a report
          Hard,           \* RCA_TIMEOUT_SECONDS: no review after this time
          CollectTime,    \* assumed: the longest time a Collector takes,
          WriteTime,      \* a Writer,
          ReviewTime,     \* and a Reviewer
          Window,         \* window_size: the messages an agent keeps
          MaxAnalyses,    \* bound: analyses one after the other
          MaxCalls,       \* bound: tool calls of a Collector (its prompt says 4)
          EmptyTexts      \* whether a Writer may answer with an empty text

ASSUME LimitsAssumption == /\ MaxIterations \in Nat \ {0}
                           /\ Soft \in Nat
                           /\ Hard \in Nat
ASSUME TimesAssumption == /\ CollectTime \in Nat \ {0}
                          /\ WriteTime \in Nat \ {0}
                          /\ ReviewTime \in Nat \ {0}
ASSUME WindowAssumption == Window \in Nat \ {0}
ASSUME BoundsAssumption == MaxCalls \in Nat /\ MaxAnalyses \in Nat \ {0}
ASSUME TextsAssumption == EmptyTexts \in BOOLEAN

VARIABLES analysis,   \* the number of the analysis, from 1
          pc,         \* which agent is at work
          iteration,  \* the round, from 1
          elapsed,    \* time since the analysis began
          text,       \* the Writer's last text
          verdict,    \* the Reviewer's last verdict
          raw,        \* _raw_outputs: the call each tool's output is from
          running,    \* calls whose tool has not answered
          answered,   \* calls of this round whose tool answered
          given,      \* the raw outputs in the Writer's and Reviewer's prompts
          memory      \* the messages the Writer and the Reviewer remember

loop == <<analysis, iteration, elapsed, text, verdict>>
tools == <<raw, running, answered>>
vars == <<loop, pc, tools, given, memory>>

Analyses == 1..MaxAnalyses
Rounds == 1..MaxIterations
\* A call is refused when its sub-agent is at work on another one.
Calls == [analysis : Analyses, round : Rounds, no : 1..MaxCalls, tool : Tools,
          refused : BOOLEAN]
NoCall == [analysis |-> 0, round |-> 0, no |-> 0, tool |-> "none", refused |-> FALSE]
Nothing == [t \in Tools |-> NoCall]

Agents == {"writer", "reviewer"}
\* What is said to an agent, with raw outputs or without, and what it answers.
Message == [by : {"user", "agent"}, analysis : Analyses, round : Rounds, raw : BOOLEAN]
Forgotten == [a \in Agents |-> <<>>]
\* The agent that was asked and has not answered.
AtWork == IF pc = "write" THEN {"writer"} ELSE IF pc = "review" THEN {"reviewer"} ELSE {}
Over == pc \in {"done", "raised"}

\* A text without a JSON object becomes a report without causes, but is a "report".
Texts == {"none", "report"} \union (IF EmptyTexts THEN {"empty"} ELSE {})
\* "?" is an answer with neither verdict: it counts as a rejection.
Verdicts == {"none", "PASS", "FAIL", "?"}

Prompt(evidence) == [by |-> "user", analysis |-> analysis, round |-> iteration,
                     raw |-> evidence # Nothing]
Answer == [by |-> "agent", analysis |-> analysis, round |-> iteration, raw |-> FALSE]

\* Mutant of Trim: what came last is dropped.
TrimNewest(s) == IF Len(s) > Window THEN SubSeq(s, 1, Window) ELSE s

\* apply_management: after a call, the agent keeps the last messages.
Trim(s) == IF Len(s) > Window THEN SubSeq(s, Len(s) - Window + 1, Len(s)) ELSE s

\* reduce_context: what is too long for the model loses its oldest messages.
Reduced(s) == IF Len(s) > Window THEN Trim(s) ELSE SubSeq(s, 3, Len(s))

Init == /\ analysis = 1
        /\ pc = "top"
        /\ iteration = 0
        /\ elapsed = 0
        /\ text = "none"
        /\ verdict = "none"
        /\ raw = Nothing
        /\ running = {}
        /\ answered = {}
        /\ given = Nothing
        /\ memory = Forgotten

\* There is a text to fall back on: an empty one does not count.
HasText == text \notin {"none", "empty"}

\* No time for another round: the rejected report is used.
StopEarly == iteration > 0 /\ HasText /\ elapsed > Soft

GiveUp ==
  /\ pc = "top"
  /\ StopEarly
  /\ pc' = "done"
  /\ iteration' = iteration + 1
  /\ UNCHANGED <<analysis, elapsed, text, verdict, tools, given, memory>>

\* Mutant of NextRound: the outputs of the last round stay.
NextRoundKeeps ==
  /\ pc = "top"
  /\ ~StopEarly
  /\ iteration < MaxIterations
  /\ iteration' = iteration + 1
  /\ answered' = {}
  /\ pc' = "collect"
  /\ UNCHANGED <<analysis, elapsed, text, verdict, raw, running, given, memory>>

\* clear_raw_outputs, then the Collector sets out.
NextRound ==
  /\ pc = "top"
  /\ ~StopEarly
  /\ iteration < MaxIterations
  /\ iteration' = iteration + 1
  /\ raw' = Nothing
  /\ answered' = {}
  /\ pc' = "collect"
  /\ UNCHANGED <<analysis, elapsed, text, verdict, running, given, memory>>

\* A tool is a sub-agent of the process, which takes one call at a time and
\* refuses another at once.
CallTool(t) ==
  LET n == Cardinality(running) + Cardinality(answered) + 1
      busy == \E d \in running : d.tool = t /\ ~d.refused
      call == [analysis |-> analysis, round |-> iteration, no |-> n, tool |-> t,
               refused |-> busy]
  IN /\ pc = "collect"
     /\ n <= MaxCalls
     /\ running' = running \union {call}
     /\ UNCHANGED <<loop, pc, raw, answered, given, memory>>

\* A tool's output, its error or its refusal replaces what it left before.
ToolAnswers(c) ==
  /\ c \in running
  /\ running' = running \ {c}
  /\ answered' = answered \union {c}
  /\ raw' = [raw EXCEPT ![c.tool] = c]
  /\ UNCHANGED <<loop, pc, given, memory>>

\* Mutants of CollectorReturns: it waits for the output of a tool; it leaves
\* without waiting for all tools.
CollectorWaits ==
  /\ pc = "collect"
  /\ running = {} /\ answered # {}
  /\ \E d \in 1..CollectTime : elapsed' = elapsed + d
  /\ given' = raw
  /\ memory' = [memory EXCEPT !["writer"] = Append(@, Prompt(raw))]
  /\ pc' = "write"
  /\ UNCHANGED <<analysis, iteration, text, verdict, tools>>
CollectorHurries ==
  /\ pc = "collect"
  /\ running = {} \/ answered # {}
  /\ \E d \in 1..CollectTime : elapsed' = elapsed + d
  /\ given' = raw
  /\ memory' = [memory EXCEPT !["writer"] = Append(@, Prompt(raw))]
  /\ pc' = "write"
  /\ UNCHANGED <<analysis, iteration, text, verdict, tools>>

\* The Collector returns when all its tools have; the Writer is asked.
CollectorReturns ==
  /\ pc = "collect"
  /\ running = {}
  /\ \E d \in 1..CollectTime : elapsed' = elapsed + d
  /\ given' = raw
  /\ memory' = [memory EXCEPT !["writer"] = Append(@, Prompt(raw))]
  /\ pc' = "write"
  /\ UNCHANGED <<analysis, iteration, text, verdict, tools>>

\* An exception of any of the three leaves the loop and the analysis; an agent
\* keeps the prompt it failed on.
AgentRaises ==
  /\ pc \in {"collect", "write", "review"}
  /\ running = {}
  /\ pc' = "raised"
  /\ memory' = [a \in Agents |-> IF a \in AtWork THEN Trim(memory[a]) ELSE memory[a]]
  /\ UNCHANGED <<loop, tools, given>>

\* The model cannot take all an agent remembers: it tries again with less.
Overflow ==
  \E a \in AtWork :
    /\ Len(memory[a]) > 2
    /\ memory' = [memory EXCEPT ![a] = Reduced(@)]
    /\ UNCHANGED <<loop, pc, tools, given>>

\* Mutant of Write: the hard limit is not looked at.
WriteOn ==
  /\ pc = "write"
  /\ \E d \in 1..WriteTime : elapsed' = elapsed + d
  /\ \E x \in Texts \ {"none"} : text' = x
  /\ pc' = "review"
  /\ memory' = [memory EXCEPT !["writer"] = Trim(Append(@, Answer)),
                              !["reviewer"] = Append(@, Prompt(given))]
  /\ UNCHANGED <<analysis, iteration, verdict, tools, given>>

\* Past the hard limit the report is used without a review; else the Reviewer is
\* asked, with the same raw outputs.
Write ==
  /\ pc = "write"
  /\ \E d \in 1..WriteTime : elapsed' = elapsed + d
  /\ \E x \in Texts \ {"none"} : text' = x
  /\ pc' = IF elapsed' > Hard THEN "done" ELSE "review"
  /\ memory' = [memory EXCEPT !["writer"] = Trim(Append(@, Answer)),
                              !["reviewer"] = IF elapsed' > Hard THEN @
                                              ELSE Append(@, Prompt(given))]
  /\ UNCHANGED <<analysis, iteration, verdict, tools, given>>

\* Mutants of Review: a rejection starts a round, whichever this one was; any
\* verdict ends the loop.
ReviewForever ==
  /\ pc = "review"
  /\ \E d \in 1..ReviewTime : elapsed' = elapsed + d
  /\ \E v \in Verdicts \ {"none"} :
       /\ verdict' = v
       /\ pc' = IF v = "PASS" THEN "done" ELSE "collect"
       /\ iteration' = IF v = "PASS" THEN iteration ELSE iteration + 1
  /\ UNCHANGED <<analysis, text, tools, given, memory>>
ReviewOnce ==
  /\ pc = "review"
  /\ \E d \in 1..ReviewTime : elapsed' = elapsed + d
  /\ \E v \in Verdicts \ {"none"} : verdict' = v
  /\ pc' = "done"
  /\ UNCHANGED <<analysis, iteration, text, tools, given, memory>>

\* The gaps of a rejected report go into the next Collector's prompt.
Review ==
  /\ pc = "review"
  /\ \E d \in 1..ReviewTime : elapsed' = elapsed + d
  /\ \E v \in Verdicts \ {"none"} :
       /\ verdict' = v
       /\ pc' = IF v = "PASS" \/ iteration = MaxIterations THEN "done" ELSE "top"
  /\ memory' = [memory EXCEPT !["reviewer"] = Trim(Append(@, Answer))]
  /\ UNCHANGED <<analysis, iteration, text, tools, given>>

\* Another analysis in the same process: what rca_node keeps in its own variables
\* begins anew.
NextAnalysis ==
  /\ Over
  /\ analysis < MaxAnalyses
  /\ analysis' = analysis + 1
  /\ pc' = "top"
  /\ iteration' = 0 /\ elapsed' = 0
  /\ text' = "none" /\ verdict' = "none"
  /\ answered' = {} /\ given' = Nothing
  /\ UNCHANGED <<raw, running, memory>>

\* The process ends, at work (an invocation's time limit) or idle, and a new one
\* takes its place.
ProcessEnds ==
  /\ pc' = IF Over THEN pc ELSE "raised"
  /\ raw' = Nothing /\ running' = {}
  /\ memory' = Forgotten
  /\ UNCHANGED <<loop, answered, given>>

Ended == Over /\ analysis = MaxAnalyses /\ UNCHANGED vars

Work == \/ GiveUp \/ NextRound
        \/ \E c \in running : ToolAnswers(c)
        \/ CollectorReturns \/ Write \/ Review

Next == \/ Work \/ AgentRaises \/ Overflow
        \/ \E t \in Tools : CallTool(t)
        \/ NextAnalysis \/ ProcessEnds \/ Ended

Spec == Init /\ [][Next]_vars

\* The agents and the tools go on; nobody owes a tool call or a failure.
FairSpec == Spec /\ WF_vars(Work)

-----------------------------------------------------------------------------
TypeOK ==
  /\ analysis \in Analyses
  /\ pc \in {"top", "collect", "write", "review", "done", "raised"}
  /\ iteration \in 0..MaxIterations
  /\ elapsed \in Nat
  /\ text \in Texts
  /\ verdict \in Verdicts
  /\ raw \in [Tools -> Calls \union {NoCall}]
  /\ running \in SUBSET Calls /\ IsFiniteSet(running)
  /\ answered \in SUBSET Calls /\ IsFiniteSet(answered)
  /\ given \in [Tools -> Calls \union {NoCall}]
  /\ memory \in [Agents -> Seq(Message)]

Longer(x, y) == IF x > y THEN x ELSE y

\* How late the analysis can be, whatever the agents answer: a round that was
\* begun in time and ran to its Writer, or a review begun in time.  A Writer's
\* empty text lifts the soft limit, and then a round begins as late as the last
\* review ends.
Latest == LET lastStart == IF EmptyTexts THEN Longer(Soft, Hard + ReviewTime) ELSE Soft
          IN Longer(lastStart + CollectTime + WriteTime, Hard + ReviewTime)
InTime == elapsed <= Latest

\* The raw outputs handed to the Writer and the Reviewer are of this round of this
\* analysis, though the dictionary outlives both.
EvidenceIsCurrent ==
  pc \in {"write", "review"} =>
    \A t \in Tools : given[t] # NoCall => given[t] \in answered

\* A tool that was called several times in a round leaves one output only, but it
\* leaves one, and a refusal stands in its place only if the Collector was
\* answered by that tool as well.
EveryToolIsHeard ==
  pc \in {"write", "review"} =>
    \A c \in answered :
      /\ given[c.tool] \in answered /\ given[c.tool].tool = c.tool
      /\ given[c.tool].refused => \E d \in answered : d.tool = c.tool /\ ~d.refused

\* The agent at work reads the raw outputs of this analysis and no other.
SightIsOwn ==
  \A a \in AtWork : \A i \in 1..Len(memory[a]) :
    memory[a][i].raw => memory[a][i].analysis = analysis

\* While the agent at work still has something of another analysis before it, it
\* has all prompts of its own: own rounds are forgotten last.
ForeignGoesFirst ==
  \A a \in AtWork :
    LET read == {memory[a][i] : i \in 1..Len(memory[a])}
    IN (\E m \in read : m.analysis # analysis) =>
         \A r \in 1..iteration :
           \E m \in read : m.by = "user" /\ m.analysis = analysis /\ m.round = r

\* A report nobody accepted is used only when a limit was reached.
UnacceptedOnlyAtLimit ==
  pc = "done" /\ verdict # "PASS" =>
    elapsed > Hard \/ (elapsed > Soft /\ HasText) \/ iteration = MaxIterations

\* Every analysis comes to an end.
RcaEnds == ~Over ~> Over
=============================================================================
