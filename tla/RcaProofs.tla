----------------------------- MODULE RcaProofs -----------------------------
(***************************************************************************)
(* Proofs about RcaLoop, for any tools, any limits and any durations of    *)
(* the agents.                                                             *)
(***************************************************************************)
EXTENDS RcaLoop, FiniteSetTheorems, SequenceTheorems, TLAPS

\* Where the rounds are: one is left at the top, one is on at work.
RoundInv == /\ pc = "top" => iteration < MaxIterations
            /\ pc \in {"collect", "write", "review"} => iteration \in Rounds

RcaInv == TypeOK /\ RoundInv

\* Nothing is known of a tool before its first answer.
LEMMA NothingType == Nothing \in [Tools -> Calls \union {NoCall}]
BY DEF Nothing

\* What an agent keeps of its messages are messages.
LEMMA TrimType == ASSUME NEW s \in Seq(Message)
                  PROVE  Trim(s) \in Seq(Message)
<1>1. CASE Len(s) > Window
  <2>1. SubSeq(s, Len(s) - Window + 1, Len(s)) \in Seq(Message)
    BY <1>1, WindowAssumption, SubSeqProperties
  <2>2. QED
    BY <1>1, <2>1 DEF Trim
<1>2. CASE ~(Len(s) > Window)
  BY <1>2 DEF Trim
<1>3. QED
  BY <1>1, <1>2

\* And so are those left after an overflow.
LEMMA ReducedType == ASSUME NEW s \in Seq(Message)
                     PROVE  Reduced(s) \in Seq(Message)
<1>1. SubSeq(s, 3, Len(s)) \in Seq(Message)
  BY SubSeqProperties
<1>2. QED
  BY <1>1, TrimType DEF Reduced

\* What is said in a round of an analysis is a message.
LEMMA SaidType ==
  ASSUME analysis \in Analyses, iteration \in Rounds
  PROVE  /\ \A e : Prompt(e) \in Message
         /\ Answer \in Message
BY DEF Prompt, Answer, Message

\* The first state is well typed.
LEMMA RcaInit == Init => RcaInv
<1> SUFFICES ASSUME Init
             PROVE  RcaInv
  OBVIOUS
<1>1. IsFiniteSet({})
  BY FS_EmptySet
<1>2. QED
  BY <1>1, NothingType, LimitsAssumption, BoundsAssumption
     DEF Init, RcaInv, TypeOK, RoundInv, Texts, Verdicts, Analyses, Agents, Forgotten

\* A step keeps the types, and the count of rounds within its limit.
LEMMA RcaStep == RcaInv /\ [Next]_vars => RcaInv'
<1> SUFFICES ASSUME RcaInv, [Next]_vars
             PROVE  RcaInv'
  OBVIOUS
<1> USE LimitsAssumption DEF RcaInv, RoundInv, Rounds, loop, tools
<1>1. CASE UNCHANGED vars
  BY <1>1 DEF vars, TypeOK
<1>2. CASE GiveUp
  BY <1>2 DEF GiveUp, TypeOK
<1>3. CASE NextRound
  <2>1. IsFiniteSet({})
    BY FS_EmptySet
  <2>2. QED
    BY <1>3, <2>1, NothingType DEF NextRound, TypeOK
<1>4. ASSUME NEW t \in Tools, CallTool(t)
      PROVE  RcaInv'
  <2> DEFINE n == Cardinality(running) + Cardinality(answered) + 1
             busy == \E d \in running : d.tool = t /\ ~d.refused
             c == [analysis |-> analysis, round |-> iteration, no |-> n, tool |-> t,
                   refused |-> busy]
  <2>1. Cardinality(running) \in Nat /\ Cardinality(answered) \in Nat
    BY FS_CardinalityType DEF TypeOK
  <2>2. n \in 1..MaxCalls
    BY <1>4, <2>1, BoundsAssumption DEF CallTool
  <2> HIDE DEF n
  <2>3. busy \in BOOLEAN
    OBVIOUS
  <2> HIDE DEF busy
  <2>4. c \in Calls
    BY <1>4, <2>2, <2>3 DEF CallTool, Calls, TypeOK
  <2>5. IsFiniteSet(running \union {c})
    BY FS_AddElement DEF TypeOK
  <2>6. running' = running \union {c}
    BY <1>4 DEF CallTool, n, busy
  <2> HIDE DEF c
  <2>7. QED
    BY <1>4, <2>4, <2>5, <2>6 DEF CallTool, TypeOK
<1>5. ASSUME NEW c \in running, ToolAnswers(c)
      PROVE  RcaInv'
  <2>1. c \in Calls
    BY DEF TypeOK
  <2>2. IsFiniteSet(running \ {c}) /\ IsFiniteSet(answered \union {c})
    BY FS_AddElement, FS_RemoveElement DEF TypeOK
  <2>3. raw' \in [Tools -> Calls \union {NoCall}]
    BY <1>5, <2>1 DEF ToolAnswers, TypeOK
  <2>4. QED
    BY <1>5, <2>1, <2>2, <2>3 DEF ToolAnswers, TypeOK
<1>6. CASE CollectorReturns
  <2>1. elapsed' \in Nat
    BY <1>6, TimesAssumption DEF CollectorReturns, TypeOK
  <2>2. Prompt(raw) \in Message
    BY <1>6, SaidType DEF CollectorReturns, TypeOK
  <2>3. memory' \in [Agents -> Seq(Message)]
    BY <1>6, <2>2 DEF CollectorReturns, TypeOK, Agents
  <2>4. QED
    BY <1>6, <2>1, <2>3 DEF CollectorReturns, TypeOK
<1>7. CASE AgentRaises
  <2>1. memory' \in [Agents -> Seq(Message)]
    BY <1>7, TrimType DEF AgentRaises, TypeOK
  <2>2. QED
    BY <1>7, <2>1 DEF AgentRaises, TypeOK
<1>8. CASE Overflow
  <2>1. PICK a \in AtWork : memory' = [memory EXCEPT ![a] = Reduced(@)]
    BY <1>8 DEF Overflow
  <2>2. a \in Agents
    BY DEF AtWork, Agents
  <2>3. memory' \in [Agents -> Seq(Message)]
    BY <2>1, <2>2, ReducedType DEF TypeOK
  <2>4. QED
    BY <1>8, <2>3 DEF Overflow, TypeOK
<1>9. CASE Write
  <2>1. elapsed' \in Nat
    BY <1>9, TimesAssumption DEF Write, TypeOK
  <2>2. Answer \in Message /\ Prompt(given) \in Message
    BY <1>9, SaidType DEF Write, TypeOK
  <2>3. memory["writer"] \in Seq(Message) /\ memory["reviewer"] \in Seq(Message)
    BY DEF TypeOK, Agents
  <2>4. Append(memory["writer"], Answer) \in Seq(Message)
    BY <2>2, <2>3
  <2>5. Trim(Append(memory["writer"], Answer)) \in Seq(Message)
    BY <2>4, TrimType
  <2>6. Append(memory["reviewer"], Prompt(given)) \in Seq(Message)
    BY <2>2, <2>3
  <2>7. memory' \in [Agents -> Seq(Message)]
    BY <1>9, <2>3, <2>5, <2>6 DEF Write, TypeOK, Agents
  <2>8. QED
    BY <1>9, <2>1, <2>7 DEF Write, TypeOK
<1>10. CASE Review
  <2>1. elapsed' \in Nat
    BY <1>10, TimesAssumption DEF Review, TypeOK
  <2>2. verdict' \in Verdicts /\ pc' \in {"done", "top"}
    BY <1>10 DEF Review
  <2>3. pc' = "top" => iteration # MaxIterations
    BY <1>10 DEF Review
  <2>4. Answer \in Message /\ memory["reviewer"] \in Seq(Message)
    BY <1>10, SaidType DEF Review, TypeOK, Agents
  <2>5. Append(memory["reviewer"], Answer) \in Seq(Message)
    BY <2>4
  <2>6. memory' \in [Agents -> Seq(Message)]
    BY <1>10, <2>5, TrimType DEF Review, TypeOK
  <2>7. QED
    BY <1>10, <2>1, <2>2, <2>3, <2>6 DEF Review, TypeOK
<1>11. CASE NextAnalysis
  <2>1. analysis' \in Analyses
    BY <1>11, BoundsAssumption DEF NextAnalysis, TypeOK, Analyses
  <2>2. running' \in SUBSET Calls /\ IsFiniteSet(running') /\ IsFiniteSet({})
    BY <1>11, FS_EmptySet DEF NextAnalysis, TypeOK
  <2>3. QED
    BY <1>11, <2>1, <2>2, NothingType DEF NextAnalysis, TypeOK, Texts, Verdicts
<1>12. CASE ProcessEnds
  <2>1. IsFiniteSet({})
    BY FS_EmptySet
  <2>2. memory' \in [Agents -> Seq(Message)]
    BY <1>12 DEF ProcessEnds, Forgotten
  <2>3. QED
    BY <1>12, <2>1, <2>2, NothingType DEF ProcessEnds, TypeOK, Over
<1>13. CASE Ended
  BY <1>13 DEF Ended, vars, TypeOK
<1>14. QED
  BY <1>1, <1>2, <1>3, <1>4, <1>5, <1>6, <1>7, <1>8, <1>9, <1>10, <1>11, <1>12, <1>13
     DEF Next, Work

\* The state of an analysis is well typed, whatever the agents answer.
THEOREM RcaTypes == Spec => []TypeOK
<1>1. RcaInv => TypeOK
  BY DEF RcaInv
<1>2. QED
  BY <1>1, RcaInit, RcaStep, PTL DEF Spec

-----------------------------------------------------------------------------
(* The time an analysis may take.                                          *)

\* The latest time at which a round may begin.
LastStart == IF EmptyTexts THEN Longer(Soft, Hard + ReviewTime) ELSE Soft

\* How late it can be where the loop is.
Schedule ==
  /\ pc = "top" => elapsed <= Hard + ReviewTime
  /\ pc = "top" /\ iteration = 0 => elapsed = 0
  /\ pc = "top" /\ iteration > 0 => text # "none"
  /\ pc = "collect" => elapsed <= LastStart
  /\ pc = "write" => elapsed <= LastStart + CollectTime
  /\ pc = "review" => elapsed <= Hard /\ text # "none"
  /\ pc \in {"done", "raised"} => elapsed <= Latest

TimeInv == RcaInv /\ Schedule

\* The bounds are numbers, and no stage's is above the last one.
LEMMA BoundsOrder ==
  /\ LastStart \in Nat
  /\ Latest \in Nat
  /\ LastStart + CollectTime + WriteTime <= Latest
  /\ Hard + ReviewTime <= Latest
  /\ Soft <= LastStart
  /\ EmptyTexts => Hard + ReviewTime <= LastStart
BY LimitsAssumption, TimesAssumption, TextsAssumption DEF LastStart, Latest, Longer

\* A step keeps to the schedule.
LEMMA ScheduleStep == TimeInv /\ [Next]_vars => TimeInv'
<1> SUFFICES ASSUME RcaInv, Schedule, [Next]_vars
             PROVE  TimeInv'
  BY DEF TimeInv
<1>1. RcaInv'
  BY RcaStep
<1>2. /\ elapsed \in Nat /\ iteration \in Nat
      /\ text \in Texts
      /\ iteration' \in Nat
  BY <1>1, LimitsAssumption DEF RcaInv, TypeOK
<1> SUFFICES Schedule'
  BY <1>1 DEF TimeInv
<1> USE LimitsAssumption, TimesAssumption, TextsAssumption, BoundsOrder DEF loop
<1>3. LastStart' = LastStart /\ Latest' = Latest
  BY DEF LastStart, Latest, Longer
<1>4. CASE UNCHANGED vars
  BY <1>3, <1>4 DEF vars, Schedule
<1>5. CASE GiveUp
  BY <1>2, <1>3, <1>5 DEF GiveUp, Schedule
<1>6. CASE NextRound
  <2>1. CASE iteration = 0
    BY <1>2, <1>3, <1>6, <2>1 DEF NextRound, Schedule
  <2>2. CASE iteration > 0
    <3>1. text = "empty" \/ elapsed <= Soft
      BY <1>2, <1>6, <2>2 DEF NextRound, StopEarly, HasText, Schedule
    <3>2. text = "empty" => EmptyTexts
      BY <1>2 DEF Texts
    <3>3. elapsed <= LastStart
      BY <1>2, <1>6, <3>1, <3>2 DEF NextRound, Schedule
    <3>4. QED
      BY <1>2, <1>3, <1>6, <3>3 DEF NextRound, Schedule
  <2>3. QED
    BY <1>2, <2>1, <2>2
<1>7. ASSUME NEW t \in Tools, CallTool(t)
      PROVE  Schedule'
  BY <1>3, <1>7 DEF CallTool, Schedule
<1>8. ASSUME NEW c \in running, ToolAnswers(c)
      PROVE  Schedule'
  BY <1>3, <1>8 DEF ToolAnswers, Schedule
<1>9. CASE CollectorReturns
  BY <1>2, <1>3, <1>9 DEF CollectorReturns, Schedule
<1>10. CASE AgentRaises
  BY <1>2, <1>3, <1>10 DEF AgentRaises, Schedule
<1>11. CASE Write
  <2>1. PICK d \in 1..WriteTime : elapsed' = elapsed + d
    BY <1>11 DEF Write
  <2>2. elapsed' <= Latest
    BY <1>2, <1>11, <2>1 DEF Write, Schedule
  <2>3. text' # "none"
    BY <1>11 DEF Write
  <2>4. pc' = "done" \/ (pc' = "review" /\ elapsed' <= Hard)
    BY <1>2, <1>11, <2>1 DEF Write
  <2>5. QED
    BY <1>3, <2>2, <2>3, <2>4 DEF Schedule
<1>12. CASE Review
  <2>1. PICK d \in 1..ReviewTime : elapsed' = elapsed + d
    BY <1>12 DEF Review
  <2>2. elapsed' <= Hard + ReviewTime /\ text # "none"
    BY <1>2, <1>12, <2>1 DEF Review, Schedule
  <2>3. pc' \in {"done", "top"} /\ text' = text /\ iteration' = iteration
    BY <1>12 DEF Review
  <2>4. elapsed' <= Latest
    BY <1>2, <2>1, <2>2
  <2>5. iteration # 0
    BY <1>12 DEF Review, RcaInv, RoundInv, Rounds
  <2>6. QED
    BY <1>2, <1>3, <2>2, <2>3, <2>4, <2>5 DEF Schedule
<1>13. CASE Overflow
  BY <1>3, <1>13 DEF Overflow, Schedule
<1>14. CASE NextAnalysis
  BY <1>3, <1>14 DEF NextAnalysis, Schedule
<1>15. CASE ProcessEnds
  <2>1. pc \in {"top", "collect", "write", "review", "done", "raised"}
    BY DEF RcaInv, TypeOK
  <2>2. elapsed <= Latest
    BY <1>2, <2>1 DEF Schedule
  <2>3. QED
    BY <1>2, <1>3, <1>15, <2>2 DEF ProcessEnds, Over, Schedule
<1>16. CASE Ended
  BY <1>3, <1>16 DEF Ended, vars, Schedule
<1>17. QED
  BY <1>4, <1>5, <1>6, <1>7, <1>8, <1>9, <1>10, <1>11, <1>12, <1>13, <1>14, <1>15, <1>16
     DEF Next, Work

\* An analysis that has begun is on schedule.
LEMMA ScheduleInit == Init => TimeInv
<1>1. Init => Schedule
  BY LimitsAssumption, TimesAssumption DEF Init, Schedule
<1>2. QED
  BY <1>1, RcaInit DEF TimeInv

\* Whatever the agents answer, and however long they take up to their longest,
\* the analysis is over by Latest: the last round that may begin, or the last
\* review.
THEOREM RcaInTime == Spec => []InTime
<1>1. TimeInv => InTime
  BY LimitsAssumption, TimesAssumption, BoundsOrder
     DEF TimeInv, RcaInv, TypeOK, Schedule, InTime
<1>2. QED
  BY <1>1, ScheduleInit, ScheduleStep, PTL DEF Spec

-----------------------------------------------------------------------------
(* What the Writer is given.                                               *)

\* The dictionary holds answers of this round only, each under its own tool.
RawInv == /\ pc = "collect" => \A t \in Tools : raw[t] # NoCall => raw[t] \in answered
          /\ EvidenceIsCurrent

\* A step gives the Writer nothing but answers of its round.
LEMMA RawStep == RcaInv /\ RawInv /\ [Next]_vars => RawInv'
<1> SUFFICES ASSUME RcaInv, RawInv, [Next]_vars
             PROVE  RawInv'
  OBVIOUS
<1> USE DEF RawInv, EvidenceIsCurrent, tools
<1>1. CASE UNCHANGED vars
  BY <1>1 DEF vars
<1>2. CASE GiveUp \/ AgentRaises \/ Review \/ Overflow \/ NextAnalysis \/ ProcessEnds \/ Ended
  BY <1>2 DEF GiveUp, AgentRaises, Review, Overflow, NextAnalysis, ProcessEnds, Ended,
              Over, vars
<1>3. CASE NextRound
  BY <1>3 DEF NextRound, Nothing
<1>4. ASSUME NEW t \in Tools, CallTool(t)
      PROVE  RawInv'
  BY <1>4 DEF CallTool
<1>5. ASSUME NEW c \in running, ToolAnswers(c)
      PROVE  RawInv'
  <2>1. raw \in [Tools -> Calls \union {NoCall}]
    BY DEF RcaInv, TypeOK
  <2>2. \A t \in Tools : raw'[t] = IF t = c.tool THEN c ELSE raw[t]
    BY <1>5, <2>1 DEF ToolAnswers
  <2>3. QED
    BY <1>5, <2>2 DEF ToolAnswers
<1>6. CASE CollectorReturns
  BY <1>6 DEF CollectorReturns
<1>7. CASE Write
  BY <1>7 DEF Write
<1>8. QED
  BY <1>1, <1>2, <1>3, <1>4, <1>5, <1>6, <1>7 DEF Next, Work

\* The numbers given as authoritative are of the round they are given in:
\* clear_raw_outputs forgets those of a rejected one.
THEOREM RcaEvidence == Spec => []EvidenceIsCurrent
<1>1. Init => RawInv
  BY DEF Init, RawInv, EvidenceIsCurrent
<1>2. RawInv => EvidenceIsCurrent
  BY DEF RawInv
<1>3. QED
  BY <1>1, <1>2, RcaInit, RcaStep, RawStep, PTL DEF Spec

\* Whatever has answered has left something of its tool, and a refused call has
\* another one of its tool beside it, at work or answered.
HeardInv ==
  /\ pc = "collect" => /\ \A c \in answered : raw[c.tool] \in answered
                                               /\ raw[c.tool].tool = c.tool
                       /\ \A c \in running \union answered :
                            c.refused => \E d \in running \union answered :
                                           d.tool = c.tool /\ ~d.refused
  /\ pc = "collect" \/ running = {}
  /\ EveryToolIsHeard

\* A step loses no tool that answered.
LEMMA HeardStep == RcaInv /\ HeardInv /\ [Next]_vars => HeardInv'
<1> SUFFICES ASSUME RcaInv, HeardInv, [Next]_vars
             PROVE  HeardInv'
  OBVIOUS
<1> USE DEF HeardInv, EveryToolIsHeard, tools
<1>1. CASE UNCHANGED vars
  BY <1>1 DEF vars
<1>2. CASE GiveUp \/ AgentRaises \/ Write \/ Review \/ Overflow \/ NextAnalysis \/ Ended
  BY <1>2 DEF GiveUp, AgentRaises, Write, Review, Overflow, NextAnalysis, Ended, Over, vars
<1>3. CASE ProcessEnds
  BY <1>3 DEF ProcessEnds, Over
<1>4. CASE NextRound
  BY <1>4 DEF NextRound
<1>5. ASSUME NEW t \in Tools, CallTool(t)
      PROVE  HeardInv'
  <2> DEFINE n == Cardinality(running) + Cardinality(answered) + 1
             busy == \E d \in running : d.tool = t /\ ~d.refused
             c == [analysis |-> analysis, round |-> iteration, no |-> n, tool |-> t,
                   refused |-> busy]
  <2>1. /\ running' = running \union {c}
        /\ pc = "collect" /\ pc' = pc /\ raw' = raw /\ answered' = answered
    BY <1>5 DEF CallTool
  <2>2. c.tool = t /\ (c.refused <=> busy)
    OBVIOUS
  <2> HIDE DEF c
  <2>3. \A e \in running' \union answered' :
          e.refused => \E d \in running' \union answered' : d.tool = e.tool /\ ~d.refused
    BY <2>1, <2>2
  <2>4. QED
    BY <2>1, <2>3
<1>6. ASSUME NEW c \in running, ToolAnswers(c)
      PROVE  HeardInv'
  <2>1. pc = "collect" /\ c \in Calls
    BY DEF RcaInv, TypeOK
  <2>2. raw \in [Tools -> Calls \union {NoCall}]
    BY DEF RcaInv, TypeOK
  <2>3. \A t \in Tools : raw'[t] = IF t = c.tool THEN c ELSE raw[t]
    BY <1>6, <2>2 DEF ToolAnswers
  <2>4. answered \subseteq Calls
    BY DEF RcaInv, TypeOK
  <2>5. \A e \in answered' : raw'[e.tool] \in answered' /\ raw'[e.tool].tool = e.tool
    BY <1>6, <2>1, <2>3, <2>4 DEF ToolAnswers, Calls
  <2>6. running' \union answered' = running \union answered
    BY <1>6 DEF ToolAnswers
  <2>7. QED
    BY <1>6, <2>1, <2>5, <2>6 DEF ToolAnswers
<1>7. CASE CollectorReturns
  BY <1>7 DEF CollectorReturns
<1>8. QED
  BY <1>1, <1>2, <1>3, <1>4, <1>5, <1>6, <1>7 DEF Next, Work

\* However the tools overlap, answer or refuse, each one the Collector heard is
\* heard by the Writer, if only by one of its answers.
THEOREM RcaHeard == Spec => []EveryToolIsHeard
<1>1. Init => HeardInv
  BY DEF Init, HeardInv, EveryToolIsHeard
<1>2. HeardInv => EveryToolIsHeard
  BY DEF HeardInv
<1>3. QED
  BY <1>1, <1>2, RcaInit, RcaStep, HeardStep, PTL DEF Spec

-----------------------------------------------------------------------------
(* What the Writer and the Reviewer remember.                              *)

\* A memory in which earlier analyses come first, and in which the prompts of the
\* rounds R of analysis x are complete as long as anything else is left.
InOrder(s, x, R) ==
  /\ \A i, j \in 1..Len(s) : i < j => s[i].analysis <= s[j].analysis
  /\ \A i \in 1..Len(s) : s[i].analysis <= x
  /\ (\E i \in 1..Len(s) : s[i].analysis # x) =>
       \A r \in R : \E i \in 1..Len(s) :
         s[i].by = "user" /\ s[i].analysis = x /\ s[i].round = r

\* A message carries the number of its analysis.
LEMMA ElementType == ASSUME NEW s \in Seq(Message)
                     PROVE  \A i \in 1..Len(s) : s[i].analysis \in Nat
<1> SUFFICES ASSUME NEW i \in 1..Len(s)
             PROVE  s[i].analysis \in Nat
  OBVIOUS
<1>1. s[i] \in Message
  BY ElementOfSeq
<1>2. s[i].analysis \in Analyses
  BY <1>1 DEF Message
<1>3. QED
  BY <1>2 DEF Analyses

\* Forgetting the oldest messages keeps the order.
LEMMA OrderSuffix ==
  ASSUME NEW s \in Seq(Message), NEW x \in Analyses, NEW R, InOrder(s, x, R),
         NEW m \in 1..Len(s)
  PROVE  InOrder(SubSeq(s, m, Len(s)), x, R)
<1> DEFINE t == SubSeq(s, m, Len(s))
<1>1. /\ t \in Seq(Message)
      /\ Len(t) = Len(s) - m + 1
      /\ \A i \in 1..Len(t) : t[i] = s[i + m - 1] /\ i + m - 1 \in 1..Len(s)
  BY SubSeqProperties
<1> HIDE DEF t
<1>2. ASSUME NEW i \in 1..Len(t), NEW j \in 1..Len(t), i < j
      PROVE  t[i].analysis <= t[j].analysis
  <2>1. i + m - 1 \in 1..Len(s) /\ j + m - 1 \in 1..Len(s) /\ i + m - 1 < j + m - 1
    BY <1>1, <1>2
  <2>2. s[i + m - 1].analysis <= s[j + m - 1].analysis
    BY <2>1 DEF InOrder
  <2>3. QED
    BY <1>1, <2>2
<1>3. \A i \in 1..Len(t) : t[i].analysis <= x
  BY <1>1 DEF InOrder
<1>4. ASSUME NEW k \in 1..Len(t), t[k].analysis # x, NEW r \in R
      PROVE  \E i \in 1..Len(t) : t[i].by = "user" /\ t[i].analysis = x /\ t[i].round = r
  <2>1. t[k] = s[k + m - 1] /\ k + m - 1 \in 1..Len(s)
    BY <1>1
  <2>2. PICK i \in 1..Len(s) : s[i].by = "user" /\ s[i].analysis = x /\ s[i].round = r
    BY <1>4, <2>1 DEF InOrder
  <2>3. s[k + m - 1].analysis \in Nat /\ s[k + m - 1].analysis < x
    BY <1>4, <2>1, ElementType DEF InOrder, Analyses
  <2>4. i > k + m - 1
    BY <2>1, <2>2, <2>3 DEF InOrder, Analyses
  <2>5. i - m + 1 \in 1..Len(t) /\ t[i - m + 1] = s[i]
    BY <1>1, <2>1, <2>4
  <2>6. QED
    BY <2>2, <2>5
<1>5. QED
  BY <1>2, <1>3, <1>4 DEF InOrder, t

\* So do the window and the answer to an overflow.
LEMMA OrderTrim ==
  ASSUME NEW s \in Seq(Message), NEW x \in Analyses, NEW R, InOrder(s, x, R)
  PROVE  InOrder(Trim(s), x, R)
<1>1. CASE Len(s) > Window
  <2>1. Len(s) - Window + 1 \in 1..Len(s)
    BY <1>1, WindowAssumption
  <2>2. QED
    BY <1>1, <2>1, OrderSuffix DEF Trim
<1>2. CASE ~(Len(s) > Window)
  BY <1>2 DEF Trim
<1>3. QED
  BY <1>1, <1>2

LEMMA OrderReduced ==
  ASSUME NEW s \in Seq(Message), NEW x \in Analyses, NEW R, InOrder(s, x, R), Len(s) > 2
  PROVE  InOrder(Reduced(s), x, R)
<1>1. 3 \in 1..Len(s)
  OBVIOUS
<1>2. InOrder(SubSeq(s, 3, Len(s)), x, R)
  BY <1>1, OrderSuffix
<1>3. QED
  BY <1>2, OrderTrim DEF Reduced

\* A message of the analysis comes last, and a prompt is one more round's.
LEMMA OrderAppend ==
  ASSUME NEW s \in Seq(Message), NEW x \in Analyses, NEW R, InOrder(s, x, R),
         NEW m \in Message, m.analysis = x,
         NEW Q, \A r \in Q : r \in R \/ (m.by = "user" /\ m.round = r)
  PROVE  InOrder(Append(s, m), x, Q)
<1> DEFINE t == Append(s, m)
<1>1. /\ Len(t) = Len(s) + 1 /\ Len(s) \in Nat
      /\ \A i \in 1..Len(s) : t[i] = s[i]
      /\ t[Len(s) + 1] = m
  OBVIOUS
<1>2. \A i \in 1..Len(s) : s[i].analysis \in Nat
  BY ElementType
<1> HIDE DEF t
<1>3. \A i \in 1..Len(t) : (i \in 1..Len(s) /\ t[i] = s[i]) \/ (i = Len(s) + 1 /\ t[i] = m)
  BY <1>1
<1>4. x \in Nat
  BY DEF Analyses
<1>5. \A i, j \in 1..Len(t) : i < j => t[i].analysis <= t[j].analysis
  BY <1>1, <1>2, <1>3, <1>4 DEF InOrder
<1>6. \A i \in 1..Len(t) : t[i].analysis <= x
  BY <1>3, <1>4 DEF InOrder
<1>7. ASSUME NEW k \in 1..Len(t), t[k].analysis # x, NEW r \in Q
      PROVE  \E i \in 1..Len(t) : t[i].by = "user" /\ t[i].analysis = x /\ t[i].round = r
  <2>1. k \in 1..Len(s) /\ s[k].analysis # x
    BY <1>3, <1>7
  <2>2. CASE r \in R
    <3>1. PICK i \in 1..Len(s) : s[i].by = "user" /\ s[i].analysis = x /\ s[i].round = r
      BY <2>1, <2>2 DEF InOrder
    <3>2. i \in 1..Len(t) /\ t[i] = s[i]
      BY <1>1
    <3>3. QED
      BY <3>1, <3>2
  <2>3. CASE m.by = "user" /\ m.round = r
    <3>1. Len(s) + 1 \in 1..Len(t)
      BY <1>1
    <3>2. QED
      BY <1>1, <2>3, <3>1
  <2>4. QED
    BY <2>2, <2>3
<1>8. QED
  BY <1>5, <1>6, <1>7 DEF InOrder, t

\* The rounds of this analysis in which an agent has been asked.
AskedIn(a) == CASE Over -> {}
                [] pc = "top" \/ pc = "review" -> 1..iteration
                [] pc = "write" /\ a = "writer" -> 1..iteration
                [] OTHER -> 1..(iteration - 1)

MemoryInv == \A a \in Agents : InOrder(memory[a], analysis, AskedIn(a))

\* Fewer rounds may be asked of a memory.
LEMMA OrderLess ==
  ASSUME NEW s, NEW x, NEW R, InOrder(s, x, R), NEW Q \in SUBSET R
  PROVE  InOrder(s, x, Q)
BY DEF InOrder

\* A step keeps what both agents remember in order.
LEMMA MemoryStep == RcaInv /\ MemoryInv /\ [Next]_vars => MemoryInv'
<1> SUFFICES ASSUME RcaInv, MemoryInv, [Next]_vars, NEW a \in Agents
             PROVE  InOrder(memory'[a], analysis', AskedIn(a)')
  BY DEF MemoryInv
<1> USE DEF loop
<1>1. /\ memory \in [Agents -> Seq(Message)] /\ memory[a] \in Seq(Message)
      /\ analysis \in Analyses /\ analysis \in Nat
      /\ iteration \in Nat
      /\ InOrder(memory[a], analysis, AskedIn(a))
  BY LimitsAssumption DEF MemoryInv, RcaInv, TypeOK, Analyses
<1>3. ASSUME memory' = memory, analysis' = analysis, AskedIn(a)' \subseteq AskedIn(a)
      PROVE  InOrder(memory'[a], analysis', AskedIn(a)')
  BY <1>1, <1>3, OrderLess
<1>4. CASE UNCHANGED vars
  BY <1>3, <1>4 DEF vars, AskedIn, Over
<1>5. CASE GiveUp
  BY <1>3, <1>5 DEF GiveUp, AskedIn, Over
<1>6. CASE NextRound
  BY <1>1, <1>3, <1>6 DEF NextRound, AskedIn, Over
<1>7. ASSUME NEW t \in Tools, CallTool(t)
      PROVE  InOrder(memory'[a], analysis', AskedIn(a)')
  BY <1>3, <1>7 DEF CallTool, AskedIn, Over
<1>8. ASSUME NEW c \in running, ToolAnswers(c)
      PROVE  InOrder(memory'[a], analysis', AskedIn(a)')
  BY <1>3, <1>8 DEF ToolAnswers, AskedIn, Over
<1>9. CASE CollectorReturns
  <2>1. /\ pc = "collect" /\ pc' = "write" /\ analysis' = analysis /\ iteration' = iteration
        /\ memory' = [memory EXCEPT !["writer"] = Append(@, Prompt(raw))]
    BY <1>9 DEF CollectorReturns
  <2>2. CASE a = "writer"
    <3>1. memory'[a] = Append(memory[a], Prompt(raw))
      BY <1>1, <2>1, <2>2
    <3>2. /\ Prompt(raw) \in Message /\ Prompt(raw).analysis = analysis
          /\ Prompt(raw).by = "user" /\ Prompt(raw).round = iteration
      BY <1>1, <2>1, SaidType DEF RcaInv, RoundInv, Prompt
    <3>3. AskedIn(a) = 1..(iteration - 1) /\ AskedIn(a)' = 1..iteration
      BY <2>1, <2>2 DEF AskedIn, Over
    <3>4. \A r \in AskedIn(a)' : r \in AskedIn(a)
                                 \/ (Prompt(raw).by = "user" /\ Prompt(raw).round = r)
      BY <1>1, <3>2, <3>3
    <3>5. InOrder(Append(memory[a], Prompt(raw)), analysis, AskedIn(a)')
      BY <1>1, <3>2, <3>4, OrderAppend
    <3>6. QED
      BY <2>1, <3>1, <3>5
  <2>3. CASE a # "writer"
    <3>1. memory'[a] = memory[a] /\ AskedIn(a)' \subseteq AskedIn(a)
      BY <1>1, <2>1, <2>3 DEF AskedIn, Over
    <3>2. QED
      BY <1>1, <2>1, <3>1, OrderLess
  <2>4. QED
    BY <2>2, <2>3
<1>10. CASE AgentRaises
  <2>1. analysis' = analysis /\ AskedIn(a)' = {}
        /\ memory'[a] \in {memory[a], Trim(memory[a])}
    BY <1>1, <1>10 DEF AgentRaises, AskedIn, Over
  <2>2. InOrder(memory[a], analysis, {}) /\ InOrder(Trim(memory[a]), analysis, {})
    BY <1>1, OrderLess, OrderTrim
  <2>3. QED
    BY <2>1, <2>2
<1>11. CASE Overflow
  <2>1. PICK b \in AtWork : /\ Len(memory[b]) > 2
                            /\ memory' = [memory EXCEPT ![b] = Reduced(@)]
    BY <1>11 DEF Overflow
  <2>2. analysis' = analysis /\ AskedIn(a)' = AskedIn(a)
    BY <1>11 DEF Overflow, AskedIn, Over
  <2>3. CASE a = b
    <3>1. memory'[a] = Reduced(memory[a]) /\ Len(memory[a]) > 2
      BY <1>1, <2>1, <2>3
    <3>2. InOrder(Reduced(memory[a]), analysis, AskedIn(a))
      BY <1>1, <3>1, OrderReduced
    <3>3. QED
      BY <2>2, <3>1, <3>2
  <2>4. CASE a # b
    <3>1. memory'[a] = memory[a]
      BY <1>1, <2>1, <2>4
    <3>2. QED
      BY <1>1, <2>2, <3>1
  <2>5. QED
    BY <2>3, <2>4
<1>12. CASE Write
  <2>1. /\ pc = "write" /\ pc' \in {"done", "review"}
        /\ analysis' = analysis /\ iteration' = iteration
        /\ memory'["writer"] = Trim(Append(memory["writer"], Answer))
        /\ memory'["reviewer"] = IF pc' = "done" THEN memory["reviewer"]
                                ELSE Append(memory["reviewer"], Prompt(given))
    BY <1>1, <1>12 DEF Write, Agents
  <2>2. /\ Answer \in Message /\ Answer.analysis = analysis
        /\ Prompt(given) \in Message /\ Prompt(given).analysis = analysis
        /\ Prompt(given).by = "user" /\ Prompt(given).round = iteration
    BY <1>1, <2>1, SaidType DEF RcaInv, RoundInv, Prompt, Answer
  <2>3. CASE a = "writer"
    <3>1. AskedIn(a)' \subseteq AskedIn(a)
      BY <2>1, <2>3 DEF AskedIn, Over
    <3>2. InOrder(Append(memory[a], Answer), analysis, AskedIn(a))
      BY <1>1, <2>2, OrderAppend
    <3>3. Append(memory[a], Answer) \in Seq(Message)
      BY <1>1, <2>2
    <3>4. InOrder(Trim(Append(memory[a], Answer)), analysis, AskedIn(a))
      BY <1>1, <3>2, <3>3, OrderTrim
    <3>5. QED
      BY <2>1, <2>3, <3>1, <3>4, OrderLess
  <2>4. CASE a = "reviewer" /\ pc' = "done"
    <3>1. AskedIn(a)' = {}
      BY <2>4 DEF AskedIn, Over
    <3>2. QED
      BY <1>1, <2>1, <2>4, <3>1, OrderLess
  <2>5. CASE a = "reviewer" /\ pc' = "review"
    <3>1. AskedIn(a) = 1..(iteration - 1) /\ AskedIn(a)' = 1..iteration
      BY <2>1, <2>5 DEF AskedIn, Over
    <3>2. \A r \in AskedIn(a)' : r \in AskedIn(a)
                                 \/ (Prompt(given).by = "user" /\ Prompt(given).round = r)
      BY <1>1, <2>2, <3>1
    <3>3. InOrder(Append(memory[a], Prompt(given)), analysis, AskedIn(a)')
      BY <1>1, <2>2, <3>2, OrderAppend
    <3>4. QED
      BY <2>1, <2>5, <3>3
  <2>6. QED
    BY <2>1, <2>3, <2>4, <2>5 DEF Agents
<1>13. CASE Review
  <2>1. /\ pc = "review" /\ pc' \in {"done", "top"}
        /\ analysis' = analysis /\ iteration' = iteration
        /\ memory'["reviewer"] = Trim(Append(memory["reviewer"], Answer))
        /\ memory'["writer"] = memory["writer"]
    BY <1>1, <1>13 DEF Review, Agents
  <2>2. AskedIn(a)' \subseteq AskedIn(a)
    BY <2>1 DEF AskedIn, Over
  <2>3. Answer \in Message /\ Answer.analysis = analysis
    BY <1>1, <2>1, SaidType DEF RcaInv, RoundInv, Answer
  <2>4. CASE a = "reviewer"
    <3>1. InOrder(Append(memory[a], Answer), analysis, AskedIn(a))
      BY <1>1, <2>3, OrderAppend
    <3>2. Append(memory[a], Answer) \in Seq(Message)
      BY <1>1, <2>3
    <3>3. InOrder(Trim(Append(memory[a], Answer)), analysis, AskedIn(a))
      BY <1>1, <3>1, <3>2, OrderTrim
    <3>4. QED
      BY <2>1, <2>2, <2>4, <3>3, OrderLess
  <2>5. CASE a = "writer"
    BY <1>1, <2>1, <2>2, <2>5, OrderLess
  <2>6. QED
    BY <2>4, <2>5 DEF Agents
<1>14. CASE NextAnalysis
  <2>1. analysis' = analysis + 1 /\ memory' = memory /\ AskedIn(a)' = 1..0
    BY <1>14 DEF NextAnalysis, AskedIn, Over
  <2>2. \A i \in 1..Len(memory[a]) : memory[a][i].analysis \in Nat
    BY <1>1, ElementType
  <2>3. QED
    BY <1>1, <2>1, <2>2 DEF InOrder
<1>15. CASE ProcessEnds
  <2>1. memory'[a] = <<>>
    BY <1>15 DEF ProcessEnds, Forgotten
  <2>2. QED
    BY <2>1 DEF InOrder
<1>16. CASE Ended
  BY <1>3, <1>16 DEF Ended, vars, AskedIn, Over
<1>17. QED
  BY <1>4, <1>5, <1>6, <1>7, <1>8, <1>9, <1>10, <1>11, <1>12, <1>13, <1>14, <1>15, <1>16
     DEF Next, Work

\* Whatever the window and however often the model cannot take all of it, an agent
\* forgets its own rounds only after everything of earlier analyses.
THEOREM RcaForgets == Spec => []ForeignGoesFirst
<1>1. Init => MemoryInv
  BY DEF Init, MemoryInv, Forgotten, InOrder
<1>2. MemoryInv => ForeignGoesFirst
  <2> SUFFICES ASSUME MemoryInv, NEW a \in AtWork
               PROVE  LET read == {memory[a][i] : i \in 1..Len(memory[a])}
                      IN (\E m \in read : m.analysis # analysis) =>
                           \A r \in 1..iteration : \E m \in read :
                             m.by = "user" /\ m.analysis = analysis /\ m.round = r
    BY DEF ForeignGoesFirst
  <2>1. a \in Agents /\ AskedIn(a) = 1..iteration
    BY DEF AtWork, Agents, AskedIn, Over
  <2>2. InOrder(memory[a], analysis, 1..iteration)
    BY <2>1 DEF MemoryInv
  <2>3. QED
    BY <2>2 DEF InOrder
<1>3. QED
  BY <1>1, <1>2, RcaInit, RcaStep, MemoryStep, PTL DEF Spec

-----------------------------------------------------------------------------
(* Every way out of the loop has its reason.                               *)

\* A report the Reviewer did not pass is used only past a time limit or after
\* the last round, whatever the limits and the agents' times are.
THEOREM RcaAccepted == Spec => []UnacceptedOnlyAtLimit
<1>1. Init => UnacceptedOnlyAtLimit
  BY DEF Init, UnacceptedOnlyAtLimit
<1>2. UnacceptedOnlyAtLimit /\ [Next]_vars => UnacceptedOnlyAtLimit'
  <2> SUFFICES ASSUME UnacceptedOnlyAtLimit, [Next]_vars, pc' = "done", verdict' # "PASS"
               PROVE  \/ elapsed' > Hard
                      \/ elapsed' > Soft /\ HasText'
                      \/ iteration' = MaxIterations
    BY DEF UnacceptedOnlyAtLimit
  <2>1. CASE GiveUp
    BY <2>1 DEF GiveUp, StopEarly, HasText
  <2>2. CASE Write
    BY <2>2 DEF Write
  <2>3. CASE Review
    BY <2>3 DEF Review
  <2>4. CASE Ended \/ ProcessEnds \/ Overflow \/ UNCHANGED vars
    BY <2>4 DEF Ended, ProcessEnds, Overflow, AtWork, Over, vars, loop,
                UnacceptedOnlyAtLimit, HasText
  <2>5. CASE NextRound \/ CollectorReturns \/ AgentRaises \/ NextAnalysis
    BY <2>5 DEF NextRound, CollectorReturns, AgentRaises, NextAnalysis
  <2>6. CASE (\E c \in running : ToolAnswers(c)) \/ (\E t \in Tools : CallTool(t))
    BY <2>6 DEF ToolAnswers, CallTool, loop, UnacceptedOnlyAtLimit, HasText
  <2>7. QED
    BY <2>1, <2>2, <2>3, <2>4, <2>5, <2>6 DEF Next, Work
<1>3. QED
  BY <1>1, <1>2, PTL DEF Spec
=============================================================================
