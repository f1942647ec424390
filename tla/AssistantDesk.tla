----------------------------- MODULE AssistantDesk -----------------------------
(***************************************************************************)
(* The manager's assistant: the drawer of the workspace with its           *)
(* conversations and questions, and the service behind it.                 *)
(*                                                                         *)
(* A question passes through transactions of its own: the conversation is  *)
(* found or made, the run is recorded, the question is saved, the models   *)
(* are asked, the answer is saved, the run is finished (answer_question).  *)
(* Small talk is answered without a run.  Each transaction may fail, or be *)
(* committed and not heard of; the backend may die between two of them,    *)
(* and the proxy may give up while the backend works on.  Titles, periods, *)
(* evidence and voice calls are left out, and the history list may be old: *)
(* it offers conversations that were deleted since.                        *)
(***************************************************************************)
EXTENDS Integers, Sequences, FiniteSets, SequencesExt

CONSTANTS Slots,      \* bound: questions in the backend at once
          MaxChats,   \* bound: conversations
          MaxEvents   \* bound: choices of the manager, failed calls

VARIABLES chats,      \* assistant_conversations with their assistant_messages
          inquiries,  \* assistant_runs
          asks,       \* a question in the backend per slot, or NoAsk
          drawer,     \* the state of AssistantDrawer
          errands,    \* conversations asked for, to be opened or deleted
          events      \* bound

vars == <<chats, inquiries, asks, drawer, errands, events>>

NoAsk == [step |-> "none", chat |-> 0, of |-> 0, small |-> FALSE, heard |-> FALSE]
Steps == {"ensure", "start", "ask", "model", "keep", "finish", "fail"}
Chats == 1 .. Len(chats)
Inquiries == 1 .. Len(inquiries)

TypeOK ==
  /\ Len(chats) <= MaxChats
  /\ \A c \in Chats : Range(chats[c].messages) \subseteq [role : {"user", "assistant"}, of : {0} \cup Inquiries]
  /\ \A r \in Inquiries : inquiries[r] \in [chat : Chats, status : {"running", "completed", "failed"}]
  /\ asks \in [Slots -> [step : {"none"} \cup Steps, chat : {0} \cup Chats, of : {0} \cup Inquiries,
                         small : BOOLEAN, heard : BOOLEAN]]
  /\ drawer.chat \in {0} \cup Chats /\ drawer.thinking \in BOOLEAN
  /\ Range(drawer.messages) \subseteq [kind : {"question", "answer", "error", "saved"}, of : {0} \cup Inquiries]
  /\ \A e \in errands : e.verb \in {"GET", "DELETE"} /\ e.chat \in Chats /\ e.served \in BOOLEAN
  /\ events \in 0 .. MaxEvents

Event == events < MaxEvents /\ events' = events + 1

-----------------------------------------------------------------------------
\* The service.

\* What a call of answer_question stores: _ensure_conversation for a question
\* without a conversation, assistant_start, _save_message, assistant_finish.
Says(c, role, of) == [chats EXCEPT ![c].messages = Append(@, [role |-> role, of |-> of])]
Finished(r, status) == [inquiries EXCEPT ![r].status = IF @ = "running" THEN status ELSE @]

Stores(x) ==
  LET newChat == x.step = "ensure" /\ x.chat = 0
  IN  /\ chats' = CASE newChat -> Append(chats, [deleted |-> FALSE, messages |-> <<>>])
                    [] x.step = "ask" -> Says(x.chat, "user", x.of)
                    [] x.step = "keep" -> Says(x.chat, "assistant", x.of)
                    [] OTHER -> chats
      /\ inquiries' = CASE x.step = "start" -> Append(inquiries, [chat |-> x.chat, status |-> "running"])
                        [] x.step = "finish" -> Finished(x.of, "completed")
                        [] x.step = "fail" -> Finished(x.of, "failed")
                        [] OTHER -> inquiries

\* _owned_conversation: the one that was asked about was not deleted.
Admitted(x) == x.step = "ensure" /\ x.chat # 0 => ~chats[x.chat].deleted

After_FinishFirst(x) ==
  CASE x.step = "ensure" -> IF x.small THEN "ask" ELSE "start"
    [] x.step = "start" -> "ask"
    [] x.step = "ask" -> IF x.small THEN "keep" ELSE "model"
    [] x.step = "model" -> IF x.small THEN "keep" ELSE "finish"
    [] x.step = "finish" -> "keep"
    [] OTHER -> "none"

\* The order of the calls of answer_question.
After(x) ==
  CASE x.step = "ensure" -> IF x.small THEN "ask" ELSE "start"
    [] x.step = "start" -> "ask"
    [] x.step = "ask" -> IF x.small THEN "keep" ELSE "model"
    [] x.step = "model" -> "keep"
    [] x.step = "keep" -> IF x.small THEN "none" ELSE "finish"
    [] OTHER -> "none"

-----------------------------------------------------------------------------
\* The drawer: setConversationId and setMessages once the answer is there, in
\* whatever conversation is shown by then.

Heard(x, ok) ==
  drawer' = IF ~x.heard THEN drawer
            ELSE [drawer EXCEPT !.thinking = FALSE, !.chat = IF ok THEN x.chat ELSE @,
                                !.messages = Append(@, [kind |-> IF ok THEN "answer" ELSE "error", of |-> x.of])]
Goes(k, x) == asks' = [asks EXCEPT ![k] = x]
Over(k, ok) == Goes(k, NoAsk) /\ Heard(asks[k], ok)

\* The next call of a question; after the last one, its answer.
Advances(k) ==
  LET x == asks[k]
      next == [x EXCEPT !.step = After(x),
                        !.chat = IF @ = 0 THEN Len(chats') ELSE @,
                        !.of = IF x.step = "start" THEN Len(inquiries') ELSE @]
  IN  /\ x # NoAsk /\ Admitted(x)
      /\ Stores(x)
      /\ IF next.step = "none" THEN Over(k, x.step # "fail") ELSE Goes(k, next) /\ UNCHANGED drawer
      /\ UNCHANGED <<errands, events>>

\* An exception: inside the try block the run is recorded as failed first, and
\* what comes of that is suppressed.
Raises(k) ==
  LET x == asks[k]
  IN  IF ~x.small /\ x.step \in {"model", "keep", "finish"}
      THEN Goes(k, [x EXCEPT !.step = "fail"]) /\ UNCHANGED drawer
      ELSE Over(k, FALSE)

Refused(k) ==
  /\ asks[k] # NoAsk /\ ~Admitted(asks[k])
  /\ Raises(k)
  /\ UNCHANGED <<chats, inquiries, errands, events>>

\* A model or a transaction fails, or is committed and not heard of: the second
\* statement of _save_message, a lost connection.
CallFails(k) ==
  /\ Event
  /\ asks[k] # NoAsk
  /\ Stores(asks[k]) \/ UNCHANGED <<chats, inquiries>>
  /\ Raises(k)
  /\ UNCHANGED errands

\* The proxy's time is over; the backend works on.
GivesUp(k) ==
  /\ Event
  /\ asks[k].heard
  /\ Goes(k, [asks[k] EXCEPT !.heard = FALSE])
  /\ Heard(asks[k], FALSE)
  /\ UNCHANGED <<chats, inquiries, errands>>

\* The backend dies, and every call with it.
Crash ==
  /\ Event
  /\ asks' = [k \in Slots |-> NoAsk] /\ errands' = {}
  /\ \/ \E k \in Slots : asks[k].heard /\ Heard(asks[k], FALSE)
     \/ (\A k \in Slots : ~asks[k].heard) /\ UNCHANGED drawer
  /\ UNCHANGED <<chats, inquiries>>

-----------------------------------------------------------------------------
\* What the manager does.

handleSend(k, small) ==
  /\ Event
  /\ ~drawer.thinking /\ asks[k] = NoAsk
  /\ drawer.chat = 0 => Len(chats) + Cardinality({j \in Slots : asks[j].step = "ensure"}) < MaxChats
  /\ drawer' = [drawer EXCEPT !.thinking = TRUE, !.messages = Append(@, [kind |-> "question", of |-> 0])]
  /\ Goes(k, [NoAsk EXCEPT !.step = "ensure", !.chat = drawer.chat, !.small = small, !.heard = TRUE])
  /\ UNCHANGED <<chats, inquiries, errands>>

clearChat ==
  /\ Event
  /\ drawer.messages # <<>>
  /\ drawer' = [drawer EXCEPT !.chat = 0, !.messages = <<>>]
  /\ UNCHANGED <<chats, inquiries, asks, errands>>

\* openConversation and removeConversation; the latter compares with the
\* conversation that was shown when it was clicked.
SendsFor(c, verb) ==
  /\ Event
  /\ errands' = errands \cup {[verb |-> verb, chat |-> c, seen |-> drawer.chat, served |-> FALSE, messages |-> <<>>]}
  /\ UNCHANGED <<chats, inquiries, asks, drawer>>

\* get_conversation and delete_conversation; one that was deleted is not found,
\* and the drawer stays as it was.
Serves(e) ==
  /\ ~e.served
  /\ errands' = (errands \ {e}) \cup (IF chats[e.chat].deleted THEN {}
                                       ELSE {[e EXCEPT !.served = TRUE, !.messages = chats[e.chat].messages]})
  /\ chats' = IF e.verb = "DELETE" THEN [chats EXCEPT ![e.chat].deleted = TRUE] ELSE chats
  /\ UNCHANGED <<inquiries, asks, drawer, events>>

Arrives(e) ==
  /\ e.served
  /\ errands' = errands \ {e}
  /\ drawer' = CASE e.verb = "GET" ->
                      [drawer EXCEPT !.chat = e.chat,
                         !.messages = [i \in DOMAIN e.messages |-> [kind |-> "saved", of |-> e.messages[i].of]]]
                 [] e.verb = "DELETE" /\ e.seen = e.chat -> [drawer EXCEPT !.chat = 0, !.messages = <<>>]
                 [] OTHER -> drawer
  /\ UNCHANGED <<chats, inquiries, asks, events>>

Lost(e) == Event /\ errands' = errands \ {e} /\ UNCHANGED <<chats, inquiries, asks, drawer>>

-----------------------------------------------------------------------------
Init ==
  /\ chats = <<>> /\ inquiries = <<>> /\ asks = [k \in Slots |-> NoAsk]
  /\ drawer = [chat |-> 0, thinking |-> FALSE, messages |-> <<>>]
  /\ errands = {} /\ events = 0

Answers(k) == Advances(k) \/ Refused(k)

Next ==
  \/ \E k \in Slots : \/ \E small \in BOOLEAN : handleSend(k, small)
                      \/ Answers(k) \/ CallFails(k) \/ GivesUp(k)
  \/ clearChat \/ Crash
  \/ \E c \in Chats, verb \in {"GET", "DELETE"} : SendsFor(c, verb)
  \/ \E e \in errands : Serves(e) \/ Arrives(e) \/ Lost(e)

Spec == Init /\ [][Next]_vars
FairSpec == Spec /\ \A k \in Slots : WF_vars(Answers(k))

-----------------------------------------------------------------------------
\* Where the messages of a run are in a conversation.
At(c, role, r) == {i \in DOMAIN chats[c].messages : chats[c].messages[i] = [role |-> role, of |-> r]}

\* A run that was completed can be read again: its conversation, and no other,
\* holds its question and then its answer, each once, and every answer the drawer
\* received is of such a run (answer_question).
AnswersKept ==
  /\ \A r \in Inquiries :
       /\ \A c \in Chats \ {inquiries[r].chat} : At(c, "user", r) \cup At(c, "assistant", r) = {}
       /\ inquiries[r].status = "completed" =>
            \E q, a \in DOMAIN chats[inquiries[r].chat].messages :
              /\ q < a /\ At(inquiries[r].chat, "user", r) = {q} /\ At(inquiries[r].chat, "assistant", r) = {a}
  /\ \A i \in DOMAIN drawer.messages :
       drawer.messages[i].kind = "answer" /\ drawer.messages[i].of # 0 =>
         inquiries[drawer.messages[i].of].status = "completed"

\* The drawer does not think forever (handleSend).
StopsThinking == []<>~drawer.thinking

=============================================================================
