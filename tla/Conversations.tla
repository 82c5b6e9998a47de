----------------------------- MODULE Conversations -----------------------------
(***************************************************************************)
(* One agent session, its conversations and their messages, and the worker *)
(* that writes a summary once a conversation has been idle.  A request     *)
(* draws the id of a new conversation when it flushes the insert and shows *)
(* it when it commits; ids and commits may therefore come in two orders.   *)
(***************************************************************************)
EXTENDS Naturals, Sequences, SequencesExt, FiniteSets

CONSTANTS Writers,      \* requests that are served at the same time
          Ticks,        \* runs of generate_summary that may overlap
          Batch,        \* LIMIT of _find_idle (16 in the code)
          Window,       \* messages rendered for the summary (50 in the code)
          Refused,      \* conversations the LLM never summarises
          MaxConvs,     \* bound: conversations
          MaxMsgs,      \* bound: messages of a conversation
          LossBudget    \* bound: ticks that die, answers that fail by chance

VARIABLES session,      \* the row in sessions: none, open or ended
          conv,         \* conversations that were committed
          nextConv,     \* the sequence behind conversations.id
          client,       \* requests between their lookup and their commit
          tick,
          losses

conversationVars == <<session, conv, nextConv, client, tick, losses>>

ConvIds == 1..MaxConvs
\* idle: the newest message is more than 30 minutes old; summary: the
\* messages the stored summary was made from, {} while it is NULL
Fresh == [msgs |-> 0, idle |-> FALSE, summary |-> {}]
NoRequest == [op |-> "none"]
NoTick == [todo |-> <<>>, read |-> {}]
ids == DOMAIN conv

ConversationTypeOK ==
  /\ session \in {"none", "open", "ended"}
  /\ ids \subseteq ConvIds
  /\ \A c \in ids : /\ conv[c].msgs \in 0..MaxMsgs
                    /\ conv[c].summary \subseteq 1..conv[c].msgs
                    /\ conv[c].idle => conv[c].msgs > 0
  /\ \A t \in Ticks : Len(tick[t].todo) <= Batch /\ Cardinality(tick[t].read) <= Window

ConversationInit ==
  /\ session = "none"
  /\ conv = <<>>
  /\ nextConv = 1
  /\ client = [r \in Writers |-> NoRequest]
  /\ tick = [t \in Ticks |-> NoTick]
  /\ losses = 0

-----------------------------------------------------------------------------
(* Sessions.  Nothing below looks at ended_at: an ended session still takes *)
(* conversations and messages.                                             *)

StartSession ==
  /\ session = "none"
  /\ session' = "open"
  /\ UNCHANGED <<conv, nextConv, client, tick, losses>>

EndSession ==
  /\ session # "none"
  /\ session' = "ended"
  /\ UNCHANGED <<conv, nextConv, client, tick, losses>>

-----------------------------------------------------------------------------
(* Requests.                                                               *)

\* the oldest conversation the transaction can see
GetDefault(seen) == CHOOSE c \in seen : \A d \in seen : c <= d

Begin(r, op, c) ==
  /\ client[r] = NoRequest
  /\ client' = [client EXCEPT ![r] = [op |-> op, conv |-> c]]
  /\ UNCHANGED <<session, conv, tick, losses>>

\* create_for_session: 404 without a session
CreateConversation(r) ==
  /\ session # "none" /\ nextConv \in ConvIds
  /\ Begin(r, "create", nextConv)
  /\ nextConv' = nextConv + 1

\* ingest_messages up to get_or_create_default; the batch may be empty
Ingest(r, op) ==
  /\ session # "none"
  /\ IF ids # {} THEN Begin(r, op, GetDefault(ids)) /\ UNCHANGED nextConv
                 ELSE /\ nextConv \in ConvIds
                      /\ Begin(r, op, nextConv)
                      /\ nextConv' = nextConv + 1

AppendMessage(r, c) ==
  /\ c \in ids
  /\ Begin(r, "append", c)
  /\ UNCHANGED nextConv

After(c, n) ==
  LET row == IF c \in ids THEN conv[c] ELSE Fresh
  IN [row EXCEPT !.msgs = @ + n, !.idle = @ /\ n = 0]

CommitRequest(r) ==
  LET op == client[r].op
      c == client[r].conv
      n == IF op \in {"ingest", "append"} THEN 1 ELSE 0
  IN /\ op # "none"
     /\ After(c, n).msgs <= MaxMsgs
     /\ conv' = [d \in ids \cup {c} |-> IF d = c THEN After(c, n) ELSE conv[d]]
     /\ client' = [client EXCEPT ![r] = NoRequest]
     /\ UNCHANGED <<session, nextConv, tick, losses>>

\* the request fails or its process dies: the transaction is rolled back
Rollback(r) ==
  /\ client[r].op # "none"
  /\ client' = [client EXCEPT ![r] = NoRequest]
  /\ UNCHANGED <<session, conv, nextConv, tick, losses>>

\* 30 minutes without a message
Settle(c) ==
  /\ c \in ids /\ conv[c].msgs > 0 /\ ~conv[c].idle
  /\ conv' = [conv EXCEPT ![c].idle = TRUE]
  /\ UNCHANGED <<session, nextConv, client, tick, losses>>

-----------------------------------------------------------------------------
(* generate_summary.                                                       *)

NeedSummary == {c \in ids : conv[c].idle /\ conv[c].summary = {}}

FirstOf(s, n) == SubSeq(s, 1, IF Len(s) < n THEN Len(s) ELSE n)
IdleListShort == FirstOf(SetToSortSeq(NeedSummary, <), Batch - 1)
IdleList == FirstOf(SetToSortSeq(NeedSummary, <), Batch)

FindIdle(t) ==
  /\ tick[t] = NoTick /\ NeedSummary # {}
  /\ tick' = [tick EXCEPT ![t] = [todo |-> IdleList, read |-> {}]]
  /\ UNCHANGED <<session, conv, nextConv, client, losses>>

Rendered(c) == {n \in 1..conv[c].msgs : n > conv[c].msgs - Window}

\* the select of _summarise_conversation, before the LLM is asked
ReadMessages(t) ==
  /\ tick[t].todo # <<>> /\ tick[t].read = {}
  /\ tick' = [tick EXCEPT ![t].read = Rendered(Head(tick[t].todo))]
  /\ UNCHANGED <<session, conv, nextConv, client, losses>>

Advanced(t) == [todo |-> Tail(tick[t].todo), read |-> {}]

WriteSummary(t) ==
  LET c == Head(tick[t].todo)
  IN /\ tick[t].read # {} /\ c \notin Refused
     /\ conv' = [conv EXCEPT ![c].summary = tick[t].read]
     /\ tick' = [tick EXCEPT ![t] = Advanced(t)]
     /\ UNCHANGED <<session, nextConv, client, losses>>

\* LlmError becomes "", any other error is logged: the row stays as it was
NoSummary(t) ==
  /\ tick[t].read # {}
  /\ \/ Head(tick[t].todo) \in Refused /\ UNCHANGED losses
     \/ Head(tick[t].todo) \notin Refused /\ losses < LossBudget /\ losses' = losses + 1
  /\ tick' = [tick EXCEPT ![t] = Advanced(t)]
  /\ UNCHANGED <<session, conv, nextConv, client>>

TickDies(t) ==
  /\ tick[t] # NoTick /\ losses < LossBudget
  /\ losses' = losses + 1
  /\ tick' = [tick EXCEPT ![t] = NoTick]
  /\ UNCHANGED <<session, conv, nextConv, client>>

-----------------------------------------------------------------------------
TickStep(t) == FindIdle(t) \/ ReadMessages(t) \/ WriteSummary(t) \/ NoSummary(t)

ConversationNext ==
  \/ StartSession
  \/ EndSession
  \/ \E r \in Writers :
        \/ CreateConversation(r)
        \/ Ingest(r, "ingest")
        \/ Ingest(r, "ingest_none")
        \/ \E c \in ConvIds : AppendMessage(r, c)
        \/ CommitRequest(r)
        \/ Rollback(r)
  \/ \E c \in ConvIds : Settle(c)
  \/ \E t \in Ticks : TickStep(t) \/ TickDies(t)

\* Celery beat starts a tick every five minutes and a worker runs it to its
\* end; a loss is bounded because a worker does not die for ever.
ConversationFairness == \A t \in Ticks : WF_conversationVars(TickStep(t))

ConversationSpec ==
  ConversationInit /\ [][ConversationNext]_conversationVars /\ ConversationFairness

-----------------------------------------------------------------------------
\* A conversation that goes quiet gets its summary, although workers die,
\* the LLM fails now and then and other conversations fail every time, as
\* long as those are fewer than one batch; only a new message postpones it.
IdleSummarised ==
  \A c \in ConvIds \ Refused :
     (c \in NeedSummary) ~> (c \in ids /\ (conv[c].summary # {} \/ ~conv[c].idle))
=============================================================================
