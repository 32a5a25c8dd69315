---------------------------- MODULE ChatSession ----------------------------
(***************************************************************************)
(* One conversation of the chatbot: what its requests do to the two tables *)
(* and to the agents kept in the server's memory.                          *)
(*                                                                         *)
(*   conv    the conversation's item (chatbot-conversations)               *)
(*   table   its messages and summaries (chatbot-messages), by created_at  *)
(*   cache   which agent _session_agents holds for it                      *)
(*   agents  the agents, each with a memory of its own                     *)
(*                                                                         *)
(* FastAPI runs the handlers in threads, and the page neither stops a      *)
(* second message nor a deletion while an answer is awaited.  A step is    *)
(* one call to a table, to the cache or to a model.  Conversations share   *)
(* nothing with each other, so one is enough.                              *)
(*                                                                         *)
(* A query of the messages reads one page, in the order of their random    *)
(* ids, and only the deletion asks for the next.  No read asks to be       *)
(* consistent: a copy that lags behind may answer.  Left out: a message    *)
(* whose put is overtaken, after its created_at was taken, by another's,   *)
(* and a turn of the year, which a summary's created_at does not hold.     *)
(***************************************************************************)
EXTENDS Naturals, FiniteSets, SequencesExt

CONSTANTS Procs,        \* requests that may be in progress at once
          PageSize,     \* items a query reads before it stops (its 1 MB)
          Rank,         \* the order of the message ids, which are random
          Threshold,    \* SUMMARY_THRESHOLD
          RecentTurns,  \* RECENT_TURNS
          MaxChats,     \* bound: messages sent
          MaxDeletes,   \* bound: deletions asked for
          MaxRestarts,  \* bound: restarts of the server
          MaxLags,      \* bound: reads answered from a copy that lags behind
          Faults        \* the failures that may happen

FaultKinds == {"table", "count", "model", "summary"}

ASSUME ThresholdsAssumption == Threshold \in Nat /\ RecentTurns \in Nat \ {0}
ASSUME PageAssumption == PageSize \in Nat \ {0}
ASSUME ChatsAssumption == /\ MaxChats \in Nat
                          /\ MaxDeletes \in Nat
                          /\ MaxRestarts \in Nat
                          /\ MaxLags \in Nat
ASSUME ChatFaultsAssumption == Faults \subseteq FaultKinds

VARIABLES conv, table, cache, agents,
          lagConv, lagTable,  \* the copies of conv and table that lag behind
          proc,      \* proc[p]: what request p is doing
          chats,     \* how many messages were sent
          deletes,   \* how many deletions may still be asked for
          restarts,  \* how many restarts may still happen
          lags,      \* how many reads may still lag behind
          gone       \* a deletion was answered "ok" (ghost)

vars == <<conv, table, cache, agents, lagConv, lagTable, proc, chats, deletes, restarts, lags, gone>>

-----------------------------------------------------------------------------
(* A message is named by the number of the chat that stored it and its     *)
(* role; an assistant's message whose text is an error has a role of its   *)
(* own here.  A summary holds what it was generated from.                  *)

Keep == 2 * RecentTurns
Turns == 1..MaxChats
Roles == {"user", "assistant", "error", "summary"}
Ranks == 1..(4 * MaxChats)
ASSUME RankAssumption == /\ Rank \in [Turns \X Roles -> Ranks]
                         /\ \A i, j \in Turns \X Roles : Rank[i] = Rank[j] => i = j

Messages == [turn : Turns, role : {"user", "assistant", "error"}]
Summaries == [turn : Turns, role : {"summary"}, covers : SUBSET Messages]
Items == Messages \union Summaries

IsMessage(i) == i.role # "summary"
IsSummary(i) == i.role = "summary"
Newest(s, n) == SubSeq(s, IF Len(s) > n THEN Len(s) - n + 1 ELSE 1, Len(s))

\* A filter of a sequence, as a function of how much of it was looked at (the
\* proofs expand it, which they cannot with SelectSeq).
Kept(s, drop) ==
  LET kept[n \in 0..Len(s)] == IF n = 0 THEN <<>>
                               ELSE IF s[n] \in drop THEN kept[n - 1]
                               ELSE Append(kept[n - 1], s[n])
  IN kept
Without(s, drop) == Kept(s, drop)[Len(s)]

\* Of the items t with an id after that of rank k, those that one query reads.
RankOf(i) == Rank[<<i.turn, i.role>>]
Rest(t, k) == {i \in ToSet(t) : RankOf(i) > k}
Page(t, k) == {i \in Rest(t, k) :
                 Cardinality({j \in Rest(t, k) : RankOf(j) < RankOf(i)}) < PageSize}

\* What a query without ExclusiveStartKey makes of the items t: everything, if it
\* fits in a page.
FirstPage(t) == IF Len(t) <= PageSize THEN t ELSE Without(t, ToSet(t) \ Page(t, 0))

\* An eventually consistent read is answered from its table, or from the copy that
\* lags behind.
ReadConv(c) == \/ c = conv /\ UNCHANGED lags
               \/ lags > 0 /\ c = lagConv /\ lags' = lags - 1
ReadTable(t) == \/ t = table /\ UNCHANGED lags
                \/ lags > 0 /\ t = lagTable /\ lags' = lags - 1

\* Mutant of MessagesOf: summaries are listed too.
MessagesUnfiltered(t) == t

\* get_messages, get_context_messages
MessagesOf(t) == Without(t, Summaries)
SummariesOf(t) == Without(t, Messages)
Context(t) == Newest(SummariesOf(t), 1) \o Newest(MessagesOf(t), Keep)

NewAgent(messages) == [busy |-> FALSE, messages |-> messages]

\* "error" and "reply" are the two ends of chat_agent.chat.
ChatPC == {"history", "user", "touch_user", "agent", "store", "call", "run",
           "count", "list", "generate", "sum_query", "sum_delete", "sum_put",
           "refresh", "assign", "reply", "error", "touch_reply"}
DeletePC == {"query", "batch", "pop"}

\* agent: the agent that runs; batch: the items a query found; last: its
\* LastEvaluatedKey, 0 if there is none; covers: what is being summarised.
Frames == [pc : {"idle"} \union ChatPC \union DeletePC, turn : 0..MaxChats,
           agent : 0..MaxChats, context : Seq(Items), batch : SUBSET Items,
           last : 0..(4 * MaxChats), covers : SUBSET Messages, summed : BOOLEAN]
Locals == {l \in Frames : l.pc \in ChatPC => l.turn \in Turns}
Enter(pc, n) == [pc |-> pc, turn |-> n, agent |-> 0, context |-> <<>>,
                 batch |-> {}, last |-> 0, covers |-> {}, summed |-> FALSE]
Idle == Enter("idle", 0)

At(p, pc) == proc[p].pc = pc
Goto(p, pc) == proc' = [proc EXCEPT ![p].pc = pc]
Return(p) == proc' = [proc EXCEPT ![p] = Idle]

Init == /\ conv = "full"     \* create_conversation
        /\ table = <<>>
        /\ cache = 0
        /\ agents = [n \in Turns |-> NewAgent(<<>>)]
        /\ proc = [p \in Procs |-> Idle]
        /\ chats = 0
        /\ deletes = MaxDeletes
        /\ restarts = MaxRestarts
        /\ gone = FALSE
        /\ lags = MaxLags
        /\ lagConv = "none"
        /\ lagTable = <<>>

-----------------------------------------------------------------------------
(* POST /conversations/{cid}/chat: what is stored around the answer.       *)

\* Mutant of ChatBegins: the conversation is not looked up.
ChatBeginsUnchecked(p) ==
  /\ proc[p] = Idle
  /\ chats < MaxChats
  /\ chats' = chats + 1
  /\ proc' = [proc EXCEPT ![p] = Enter("history", chats + 1)]
  /\ UNCHANGED <<conv, table, cache, agents, deletes, restarts, gone, lagConv, lagTable, lags>>

\* A missing conversation is answered 404, and an item without a title raises.
ChatBegins(p) ==
  /\ proc[p] = Idle
  /\ chats < MaxChats
  /\ chats' = chats + 1
  /\ \E c \in {conv, lagConv} :
       /\ ReadConv(c)
       /\ proc' = IF c = "full" THEN [proc EXCEPT ![p] = Enter("history", chats + 1)]
                               ELSE proc
  /\ UNCHANGED <<conv, table, cache, agents, deletes, restarts, gone, lagConv, lagTable>>

LoadHistory(p) ==
  /\ At(p, "history")
  /\ \E t \in {table, lagTable} :
       /\ ReadTable(t)
       /\ proc' = [proc EXCEPT ![p].pc = "user", ![p].context = Context(FirstPage(t))]
  /\ UNCHANGED <<conv, table, cache, agents, chats, deletes, restarts, gone, lagConv, lagTable>>

\* add_message
AddMessage(p, from, role, to) ==
  /\ At(p, from)
  /\ table' = Append(table, [turn |-> proc[p].turn, role |-> role])
  /\ Goto(p, to)
  /\ UNCHANGED <<conv, cache, agents, chats, deletes, restarts, gone, lagConv, lagTable, lags>>

\* _touch_conversation: UpdateItem makes an item without a title when there is
\* none.
Touch(p) ==
  /\ proc[p].pc \in {"touch_user", "touch_reply"}
  /\ conv' = IF conv = "none" THEN "bare" ELSE conv
  /\ IF At(p, "touch_user") THEN Goto(p, "agent") ELSE Return(p)
  /\ UNCHANGED <<table, cache, agents, chats, deletes, restarts, gone, lagConv, lagTable, lags>>

AddUser(p) == AddMessage(p, "user", "user", "touch_user")
AddReply(p) == AddMessage(p, "reply", "assistant", "touch_reply")
\* Any exception of chat_agent.chat becomes the answer.
AddError(p) == AddMessage(p, "error", "error", "touch_reply")

\* A call to a table, outside every try, fails: the request is answered 500.
TableFails(p) ==
  /\ "table" \in Faults
  /\ proc[p].pc \in {"history", "user", "touch_user", "reply", "error",
                    "touch_reply", "query", "batch"}
  /\ Return(p)
  /\ UNCHANGED <<conv, table, cache, agents, chats, deletes, restarts, gone, lagConv, lagTable, lags>>

-----------------------------------------------------------------------------
(* chat_agent.chat                                                         *)

\* The cache is looked at, and a new agent is given the stored context.
FindAgent(p) ==
  LET n == proc[p].turn
  IN /\ At(p, "agent")
     /\ IF cache # 0
          THEN Goto(p, "call") /\ UNCHANGED agents
          ELSE /\ agents' = [agents EXCEPT ![n] = NewAgent(proc[p].context)]
               /\ Goto(p, "store")
     /\ UNCHANGED <<conv, table, cache, chats, deletes, restarts, gone, lagConv, lagTable, lags>>

StoreAgent(p) ==
  /\ At(p, "store")
  /\ cache' = proc[p].turn
  /\ Goto(p, "call")
  /\ UNCHANGED <<conv, table, agents, chats, deletes, restarts, gone, lagConv, lagTable, lags>>

\* Mutant of CallAgent: its exceptions are not caught.
CallAgentRaises(p) ==
  /\ At(p, "call")
  /\ IF cache = 0 \/ agents[cache].busy
       THEN Return(p) /\ UNCHANGED agents
       ELSE /\ agents' = [agents EXCEPT
                 ![cache].busy = TRUE,
                 ![cache].messages = Append(@, [turn |-> proc[p].turn, role |-> "user"])]
            /\ proc' = [proc EXCEPT ![p].pc = "run", ![p].agent = cache]
  /\ UNCHANGED <<conv, table, cache, chats, deletes, restarts, gone, lagConv, lagTable, lags>>

\* The agent is looked up again: it may be gone (KeyError), and one that is
\* at work refuses (ConcurrencyException).
CallAgent(p) ==
  /\ At(p, "call")
  /\ IF cache = 0 \/ agents[cache].busy
       THEN Goto(p, "error") /\ UNCHANGED agents
       ELSE /\ agents' = [agents EXCEPT
                 ![cache].busy = TRUE,
                 ![cache].messages = Append(@, [turn |-> proc[p].turn, role |-> "user"])]
            /\ proc' = [proc EXCEPT ![p].pc = "run", ![p].agent = cache]
  /\ UNCHANGED <<conv, table, cache, chats, deletes, restarts, gone, lagConv, lagTable, lags>>

AgentAnswers(p) ==
  /\ At(p, "run")
  /\ agents' = [agents EXCEPT
       ![proc[p].agent].busy = FALSE,
       ![proc[p].agent].messages = Append(@, [turn |-> proc[p].turn, role |-> "assistant"])]
  /\ Goto(p, "count")
  /\ UNCHANGED <<conv, table, cache, chats, deletes, restarts, gone, lagConv, lagTable, lags>>

\* Making the agent fails, or the agent raises.
AgentFails(p) ==
  /\ "model" \in Faults
  /\ \/ At(p, "agent") /\ cache = 0 /\ UNCHANGED agents
     \/ At(p, "run") /\ agents' = [agents EXCEPT ![proc[p].agent].busy = FALSE]
  /\ Goto(p, "error")
  /\ UNCHANGED <<conv, table, cache, chats, deletes, restarts, gone, lagConv, lagTable, lags>>

-----------------------------------------------------------------------------
(* _maybe_summarize, before the answer is stored.                          *)

\* The counting query is outside the try: its failure loses the answer.
Count(p) ==
  /\ At(p, "count")
  /\ \E t \in {table, lagTable} :
       /\ ReadTable(t)
       /\ IF Len(MessagesOf(FirstPage(t))) < Threshold
            THEN proc' = [proc EXCEPT ![p].pc = "reply", ![p].summed = TRUE]
            ELSE Goto(p, "list")
  /\ UNCHANGED <<conv, table, cache, agents, chats, deletes, restarts, gone, lagConv, lagTable>>

CountFails(p) ==
  /\ "count" \in Faults
  /\ proc[p].pc \in {"count", "list"}
  /\ Goto(p, "error")
  /\ UNCHANGED <<conv, table, cache, agents, chats, deletes, restarts, gone, lagConv, lagTable, lags>>

\* Mutants of ToSummarize: one recent message too many is kept; the recent
\* messages are summarised.
ToSummarizeFewer(s) == ToSet(SubSeq(s, 1, Len(s) - (Keep + 1)))
ToSummarizeRecent(s) == ToSet(Newest(s, Keep))

\* All messages but the last Keep.
ToSummarize(s) == ToSet(SubSeq(s, 1, Len(s) - Keep))

List(p) ==
  /\ At(p, "list")
  /\ \E t \in {table, lagTable} :
       LET covers == ToSummarize(MessagesOf(FirstPage(t)))
       IN /\ ReadTable(t)
          /\ proc' = IF covers = {}
                       THEN [proc EXCEPT ![p].pc = "reply", ![p].summed = TRUE]
                       ELSE [proc EXCEPT ![p].pc = "generate", ![p].covers = covers]
  /\ UNCHANGED <<conv, table, cache, agents, chats, deletes, restarts, gone, lagConv, lagTable>>

Generate(p) ==
  /\ At(p, "generate")
  /\ Goto(p, "sum_query")
  /\ UNCHANGED <<conv, table, cache, agents, chats, deletes, restarts, gone, lagConv, lagTable, lags>>

\* Any failure from here on is logged and the answer is given all the same.
SummaryFails(p) ==
  /\ "summary" \in Faults
  /\ proc[p].pc \in {"generate", "sum_query", "sum_delete", "sum_put", "refresh"}
  /\ proc' = [proc EXCEPT ![p].pc = "reply", ![p].batch = {}]
  /\ UNCHANGED <<conv, table, cache, agents, chats, deletes, restarts, gone, lagConv, lagTable, lags>>

\* add_summary: the earlier summaries are found, deleted, and one is put.
SummaryQuery(p) ==
  /\ At(p, "sum_query")
  /\ \E t \in {table, lagTable} :
       /\ ReadTable(t)
       /\ proc' = [proc EXCEPT ![p].pc = "sum_delete",
                               ![p].batch = ToSet(SummariesOf(FirstPage(t)))]
  /\ UNCHANGED <<conv, table, cache, agents, chats, deletes, restarts, gone, lagConv, lagTable>>

SummaryDelete(p) ==
  /\ At(p, "sum_delete")
  /\ table' = Without(table, proc[p].batch)
  /\ proc' = [proc EXCEPT ![p].pc = "sum_put", ![p].batch = {}]
  /\ UNCHANGED <<conv, cache, agents, chats, deletes, restarts, gone, lagConv, lagTable, lags>>

SummaryPut(p) ==
  /\ At(p, "sum_put")
  /\ table' = Append(table, [turn |-> proc[p].turn, role |-> "summary",
                             covers |-> proc[p].covers])
  /\ Goto(p, "refresh")
  /\ UNCHANGED <<conv, cache, agents, chats, deletes, restarts, gone, lagConv, lagTable, lags>>

\* For the cached agent, if there is one, the context is read again.
Refresh(p) ==
  /\ At(p, "refresh")
  /\ IF cache = 0
       THEN proc' = [proc EXCEPT ![p].pc = "reply", ![p].summed = TRUE] /\ UNCHANGED lags
       ELSE \E t \in {table, lagTable} :
              /\ ReadTable(t)
              /\ proc' = [proc EXCEPT ![p].pc = "assign",
                                      ![p].context = Context(FirstPage(t))]
  /\ UNCHANGED <<conv, table, cache, agents, chats, deletes, restarts, gone, lagConv, lagTable>>

\* The agent cached by now remembers it; a KeyError is caught.
Assign(p) ==
  /\ At(p, "assign")
  /\ agents' = IF cache = 0 THEN agents
               ELSE [agents EXCEPT ![cache].messages = proc[p].context]
  /\ proc' = [proc EXCEPT ![p].pc = "reply", ![p].summed = TRUE]
  /\ UNCHANGED <<conv, table, cache, chats, deletes, restarts, gone, lagConv, lagTable, lags>>

-----------------------------------------------------------------------------
(* DELETE /conversations/{cid}                                             *)

DeleteBegins(p) ==
  /\ proc[p] = Idle
  /\ deletes > 0
  /\ deletes' = deletes - 1
  /\ conv' = "none"
  /\ proc' = [proc EXCEPT ![p] = Enter("query", 0)]
  /\ UNCHANGED <<table, cache, agents, chats, restarts, gone, lagConv, lagTable, lags>>

\* The items of a page, and where the next one starts if it is not the last.
DeleteQuery(p) ==
  /\ At(p, "query")
  /\ \E t \in {table, lagTable} :
       LET page == Page(t, proc[p].last)
       IN /\ ReadTable(t)
          /\ proc' = [proc EXCEPT
               ![p].pc = "batch", ![p].batch = page,
               ![p].last = IF page = Rest(t, proc[p].last) THEN 0
                           ELSE Max({RankOf(i) : i \in page})]
  /\ UNCHANGED <<conv, table, cache, agents, chats, deletes, restarts, gone, lagConv, lagTable>>

\* Mutant of DeleteBatch: the first page is the last.
DeleteOnePage(p) ==
  /\ At(p, "batch")
  /\ table' = Without(table, proc[p].batch)
  /\ proc' = [proc EXCEPT ![p].pc = "pop", ![p].batch = {}, ![p].last = 0]
  /\ UNCHANGED <<conv, cache, agents, chats, deletes, restarts, gone, lagConv, lagTable, lags>>

DeleteBatch(p) ==
  /\ At(p, "batch")
  /\ table' = Without(table, proc[p].batch)
  /\ proc' = [proc EXCEPT ![p].pc = IF proc[p].last = 0 THEN "pop" ELSE "query",
                          ![p].batch = {}]
  /\ UNCHANGED <<conv, cache, agents, chats, deletes, restarts, gone, lagConv, lagTable, lags>>

\* delete_session
DeletePop(p) ==
  /\ At(p, "pop")
  /\ cache' = 0
  /\ gone' = TRUE
  /\ Return(p)
  /\ UNCHANGED <<conv, table, agents, chats, deletes, restarts, lagConv, lagTable, lags>>

-----------------------------------------------------------------------------
\* The server is restarted: requests in progress and agents are lost.
Restart ==
  /\ restarts > 0
  /\ restarts' = restarts - 1
  /\ proc' = [p \in Procs |-> Idle]
  /\ cache' = 0
  /\ agents' = [n \in Turns |-> NewAgent(<<>>)]
  /\ UNCHANGED <<conv, table, chats, deletes, gone, lagConv, lagTable, lags>>

\* A copy catches up with its table.
CatchUp ==
  /\ lags > 0
  /\ \/ lagConv' = conv /\ UNCHANGED lagTable
     \/ lagTable' = table /\ UNCHANGED lagConv
  /\ UNCHANGED <<conv, table, cache, agents, proc, chats, deletes, restarts, gone, lags>>

Advance(p) ==
  \/ LoadHistory(p) \/ AddUser(p) \/ Touch(p) \/ AddReply(p) \/ AddError(p)
  \/ FindAgent(p) \/ StoreAgent(p) \/ CallAgent(p) \/ AgentAnswers(p)
  \/ Count(p) \/ List(p) \/ Generate(p)
  \/ SummaryQuery(p) \/ SummaryDelete(p) \/ SummaryPut(p)
  \/ Refresh(p) \/ Assign(p)
  \/ DeleteQuery(p) \/ DeleteBatch(p) \/ DeletePop(p)

Next == \/ \E p \in Procs : \/ Advance(p) \/ ChatBegins(p) \/ DeleteBegins(p)
                            \/ AgentFails(p) \/ CountFails(p) \/ SummaryFails(p)
                            \/ TableFails(p)
        \/ Restart \/ CatchUp

Spec == Init /\ [][Next]_vars

\* A request in progress goes on: the model, the tables and the loop all answer
\* or raise.
FairSpec == Spec /\ \A p \in Procs : WF_vars(Advance(p))

-----------------------------------------------------------------------------
TypeOK ==
  /\ conv \in {"none", "full", "bare"}
  /\ table \in Seq(Items)
  /\ cache \in 0..MaxChats
  /\ agents \in [Turns -> [busy : BOOLEAN, messages : Seq(Items)]]
  /\ proc \in [Procs -> Locals]
  /\ chats \in 0..MaxChats
  /\ deletes \in 0..MaxDeletes
  /\ restarts \in 0..MaxRestarts
  /\ gone \in BOOLEAN
  /\ lags \in 0..MaxLags
  /\ lagConv \in {"none", "full", "bare"}
  /\ lagTable \in Seq(Items)

Quiet == \A p \in Procs : proc[p] = Idle

\* What was said and is in the table; what a context tells, itself or in a summary.
Said == {i \in ToSet(table) : i.role \in {"user", "assistant"}}
Told(s) == {i \in ToSet(s) : IsMessage(i)}
           \union UNION {i.covers : i \in {j \in ToSet(s) : IsSummary(j)}}
Gap == Said \ Told(Context(table))
Forgotten == IF cache = 0 THEN {} ELSE Said \ Told(agents[cache].messages)
Unanswered == {i \in Said : i.role = "user" /\ \A j \in ToSet(table) :
                              j.turn = i.turn => j.role \notin {"assistant", "error"}}

\* As long as the conversation fits in a page and no read has lagged behind, a chat
\* that was answered and did its summarising leaves a table from which a restart
\* restores all but at most one message, and an agent that remembers all but at
\* most one besides those that failed before they reached it, whatever else failed
\* or was killed in the chats before it.
ChatHeals ==
  [][\A p \in Procs :
       /\ At(p, "touch_reply") /\ proc[p].summed /\ proc'[p] = Idle
       /\ restarts' = restarts /\ lags = MaxLags
       => Cardinality(Gap) <= 1 /\ Cardinality(Forgotten \ Unanswered) <= 1]_vars

\* Once a deletion is answered, and no request is in progress, nothing of the
\* conversation is left in the message table or in the cache, however many pages
\* it took, unless a read has lagged behind.
DeletedIsGone == gone /\ Quiet /\ lags = MaxLags => table = <<>> /\ cache = 0

\* Every item of the conversations table has the fields the list shows, unless a
\* read has lagged behind: one without them fails GET /conversations for all
\* conversations.
ListWorks == lags = MaxLags => conv # "bare"

\* Until a deletion is asked for, what the newest summary leaves out is a run of the
\* latest messages: no message older than one it covers is forgotten, whichever
\* requests overlap and however far reads lag behind, as long as the conversation
\* fits in a page.
SummaryIsPrefix ==
  deletes = MaxDeletes =>
    \A s \in ToSet(Newest(SummariesOf(table), 1)) :
      \E k \in 0..Len(MessagesOf(table)) : s.covers = ToSet(SubSeq(MessagesOf(table), 1, k))

\* Every message stored for a user is followed by an answer or an error.
EveryMessageAnswered ==
  \A n \in Turns : (\E i \in ToSet(table) : i.turn = n /\ i.role = "user")
                   ~> (\E i \in ToSet(table) : i.turn = n /\ i.role \in {"assistant", "error"})
=============================================================================
