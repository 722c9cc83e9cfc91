------------------------------- MODULE ChatPage -------------------------------
(***************************************************************************)
(* The chat page of the web application (chat/page.tsx) and its list of      *)
(* conversations (SessionsSidebar.tsx), against the conversations of the API *)
(* (chat.service.ts).  The URL says which conversation is open; an effect    *)
(* loads it; an answer is streamed into the messages that are shown, at an   *)
(* index that was taken when its question was sent.  What the API does of a  *)
(* question is ChatServe's: here it is stored, answered and stored, or fails. *)
(***************************************************************************)
EXTENDS Filtering, SequencesExt

CONSTANTS
  Convs,      \* conversations that there may be (bound)
  Sends,      \* messages that the user sends (bound)
  MaxLoads,   \* loads of a conversation under way at once (bound)
  MaxVisits,  \* times the page is arrived at (bound)
  NoConv      \* no conversation

ASSUME ChatPageAssumption == {MaxLoads, MaxVisits} \subseteq Nat \ {0} /\ NoConv \notin Convs

VARIABLES
  thread,    \* thread[c]: the messages of c in the database
  made,      \* conversations ever made
  stored,    \* conversations that there are
  send,      \* send[s]: how far a message is, and what its handler closed over
  url,       \* the conversation in the URL
  convId,    \* the one that the next message is sent to
  lastOpen,  \* the one that the browser remembers
  visit,     \* number of the page's present mount; here: whether it is mounted
  here,
  shown,     \* the messages on the page
  busy,
  loads,     \* loads under way, by their start
  deleting,  \* a deletion under way
  strayed    \* since the last quiet opening, an answer or a load overlapped something else

threadVars == <<thread, made, stored>>
pageVars == <<url, convId, lastOpen, visit, here, shown, busy, loads, strayed>>
chatPageVars == <<threadVars, send, pageVars, deleting>>

Question(s) == [by |-> s, role |-> "user", text |-> "question"]
Reply(s, text) == [by |-> s, role |-> "assistant", text |-> text]
Unsent == [pc |-> "new", kind |-> "chat", from |-> NoConv, conv |-> NoConv, index |-> 0, visit |-> 0]
NoDeletion == [of |-> NoConv, active |-> FALSE]
Load(c) == [of |-> c, got |-> "nothing", rows |-> << >>]

UnderWay == {s \in Sends : send[s].pc \notin {"new", "over"}}
SendTo(s, pc) == send' = [send EXCEPT ![s].pc = pc]

ChatPageInit ==
  /\ thread = [c \in Convs |-> << >>] /\ made = {} /\ stored = {}
  /\ send = [s \in Sends |-> Unsent]
  /\ url = NoConv /\ convId = NoConv /\ lastOpen = NoConv /\ visit = 1 /\ here = TRUE
  /\ shown = << >> /\ busy = FALSE /\ loads = << >> /\ deleting = NoDeletion /\ strayed = FALSE

-----------------------------------------------------------------------------
(* The URL *)

Astray == strayed' = (UnderWay # {} \/ loads # << >>)

\* The effect of a URL with a conversation: it is the one to send to, and is loaded.
Enter(c) ==
  /\ url' = c /\ convId' = c /\ lastOpen' = c
  /\ Len(loads) < MaxLoads /\ loads' = Append(loads, Load(c))
\* ... and of one without.
Empty == url' = NoConv /\ convId' = NoConv /\ shown' = << >> /\ UNCHANGED loads

OpenConv(c) ==
  /\ here /\ c \in made \ {url} /\ Enter(c) /\ Astray
  /\ UNCHANGED <<threadVars, send, visit, here, shown, busy, deleting>>
\* "New session" opts out of what is remembered.
NewSession ==
  /\ here /\ (url # NoConv \/ shown # << >>) /\ Empty /\ lastOpen' = NoConv /\ Astray
  /\ UNCHANGED <<threadVars, send, visit, here, busy, deleting>>
\* The tab of the chat has no conversation in its URL: the one remembered is opened again.
ChatTab ==
  /\ here /\ lastOpen # NoConv /\ Enter(lastOpen) /\ shown' = << >> /\ Astray
  /\ UNCHANGED <<threadVars, send, visit, here, busy, deleting>>

\* Another page: what was under way tells nobody.
LeavePage ==
  /\ here /\ visit < MaxVisits
  /\ here' = FALSE /\ shown' = << >> /\ busy' = FALSE /\ loads' = << >>
  /\ url' = NoConv /\ convId' = NoConv
  /\ UNCHANGED <<threadVars, send, lastOpen, visit, strayed, deleting>>
ArrivePage ==
  /\ ~here /\ here' = TRUE /\ visit' = visit + 1
  /\ IF lastOpen = NoConv THEN UNCHANGED <<url, convId, lastOpen, loads>> ELSE Enter(lastOpen)
  /\ Astray
  /\ UNCHANGED <<threadVars, send, shown, busy, deleting>>

\* The conversation and its messages are read; one that is gone fails.
LoadRead(i) ==
  /\ i \in 1 .. Len(loads) /\ loads[i].got = "nothing"
  /\ LET c == loads[i].of IN
     loads' = [loads EXCEPT ![i] = IF c \in stored THEN [of |-> c, got |-> "rows", rows |-> thread[c]]
                                   ELSE [of |-> c, got |-> "gone", rows |-> << >>]]
  /\ UNCHANGED <<threadVars, send, url, convId, lastOpen, visit, here, shown, busy, deleting, strayed>>
\* Whatever the URL is by now.
LoadReturns(i) ==
  /\ i \in 1 .. Len(loads) /\ loads[i].got # "nothing"
  /\ loads' = RemoveAt(loads, i) /\ shown' = loads[i].rows
  /\ lastOpen' = IF loads[i].got = "gone" THEN NoConv ELSE lastOpen
  /\ UNCHANGED <<threadVars, send, url, convId, visit, here, busy, deleting, strayed>>

-----------------------------------------------------------------------------
(* A message and its answer *)

\* Broken variant (mutation check): the index of the question.
QuestionIndex(messages) == Len(messages) + 1
\* The index of the answer among the messages, once both are appended.
AnswerIndex(messages) == Len(messages) + 2

SendMessage(s, kind) ==
  /\ here /\ ~busy /\ send[s].pc = "new"
  /\ shown' = shown \o <<Question(s), Reply(s, "")>> /\ busy' = TRUE
  /\ send' = [send EXCEPT ![s] = [pc |-> "asked", kind |-> kind, from |-> convId, conv |-> NoConv,
                                  index |-> AnswerIndex(shown), visit |-> visit]]
  /\ strayed' = (strayed \/ loads # << >>)
  /\ UNCHANGED <<threadVars, url, convId, lastOpen, visit, here, loads, deleting>>

Hears(s) == here /\ send[s].visit = visit
Reaches(s) == Hears(s) /\ send[s].index <= Len(shown)
\* patch: the message at the index, whichever it is now.
Patched(s, text) == IF Reaches(s) THEN [shown EXCEPT ![send[s].index].text = text] ELSE shown
Idle(s) == busy' = (busy /\ ~Hears(s))

\* ensureConversation: of the user, or a new one.
TakeMessage(s) ==
  /\ send[s].pc = "asked" /\ send[s].kind = "chat"
  /\ \/ /\ send[s].from \in stored
        /\ send' = [send EXCEPT ![s].pc = "taken", ![s].conv = send[s].from]
        /\ UNCHANGED threadVars
     \/ /\ send[s].from \notin stored \cup {NoConv}
        /\ SendTo(s, "failed") /\ UNCHANGED threadVars
     \/ \E c \in Convs \ made :
          /\ send[s].from = NoConv
          /\ made' = made \cup {c} /\ stored' = stored \cup {c} /\ UNCHANGED thread
          /\ send' = [send EXCEPT ![s].pc = "taken", ![s].conv = c]
  /\ UNCHANGED <<pageVars, deleting>>
Keep(s, message) == thread' = [thread EXCEPT ![send[s].conv] = Append(@, message)]
StoreQuestion(s) ==
  /\ send[s].pc = "taken" /\ send[s].conv \in stored
  /\ Keep(s, Question(s)) /\ SendTo(s, "answered")
  /\ UNCHANGED <<made, stored, pageVars, deleting>>
HearAnswer(s) ==
  /\ send[s].pc = "answered" /\ SendTo(s, "heard")
  /\ shown' = Patched(s, "whole")
  /\ UNCHANGED <<threadVars, url, convId, lastOpen, visit, here, busy, loads, deleting, strayed>>
StoreAnswer(s) ==
  /\ send[s].pc = "heard" /\ send[s].conv \in stored
  /\ Keep(s, Reply(s, "whole")) /\ SendTo(s, "kept")
  /\ UNCHANGED <<made, stored, pageVars, deleting>>

\* `final`: a message that was sent to no conversation opens the one it was put in.
HearFinal(s) ==
  /\ send[s].pc = "kept" /\ SendTo(s, "over") /\ Idle(s)
  /\ IF Reaches(s) /\ send[s].from = NoConv
     THEN Enter(send[s].conv)
     ELSE UNCHANGED <<url, convId, lastOpen, loads>>
  /\ UNCHANGED <<threadVars, visit, here, shown, deleting, strayed>>
\* A credit is missing, the model fails, the conversation was deleted, the API stops.
TurnFails(s) ==
  /\ send[s].pc \in {"taken", "answered", "heard", "kept"} /\ SendTo(s, "failed")
  /\ UNCHANGED <<threadVars, pageVars, deleting>>
HearError(s) ==
  /\ send[s].pc = "failed" /\ Idle(s)
  /\ send' = [send EXCEPT ![s].pc = "over", ![s].conv = NoConv]
  /\ shown' = Patched(s, "error")
  /\ UNCHANGED <<threadVars, url, convId, lastOpen, visit, here, loads, deleting, strayed>>
\* A message to the agent is of a run, and of no conversation.
AgentAnswers(s) ==
  /\ send[s].pc = "asked" /\ send[s].kind = "agent"
  /\ SendTo(s, "over") /\ Idle(s) /\ shown' = Patched(s, "agent")
  /\ UNCHANGED <<threadVars, url, convId, lastOpen, visit, here, loads, deleting, strayed>>

-----------------------------------------------------------------------------
(* Deletion *)

DeleteConv(c) ==
  /\ here /\ c \in stored /\ deleting = NoDeletion
  /\ deleting' = [of |-> c, active |-> url = c]
  /\ UNCHANGED <<threadVars, send, pageVars>>
\* Done or not, the page goes on as if it was; it looks at the URL of the click.
ConvDeleted(done) ==
  /\ deleting # NoDeletion /\ deleting' = NoDeletion
  /\ IF done
     THEN /\ stored' = stored \ {deleting.of} /\ thread' = [thread EXCEPT ![deleting.of] = << >>]
          /\ UNCHANGED made
     ELSE UNCHANGED threadVars
  /\ IF deleting.active /\ here
     THEN Empty /\ lastOpen' = NoConv /\ Astray
     ELSE /\ strayed' = (strayed \/ url = deleting.of)
          /\ UNCHANGED <<url, convId, lastOpen, shown, loads>>
  /\ UNCHANGED <<send, visit, here, busy>>

ChatPageNext ==
  \/ \E c \in Convs : OpenConv(c) \/ DeleteConv(c)
  \/ NewSession \/ ChatTab \/ LeavePage \/ ArrivePage
  \/ \E i \in 1 .. MaxLoads : LoadRead(i) \/ LoadReturns(i)
  \/ \E s \in Sends :
       \/ \E kind \in {"chat", "agent"} : SendMessage(s, kind)
       \/ TakeMessage(s) \/ StoreQuestion(s) \/ HearAnswer(s) \/ StoreAnswer(s) \/ HearFinal(s)
       \/ TurnFails(s) \/ HearError(s) \/ AgentAnswers(s)
  \/ \E done \in BOOLEAN : ConvDeleted(done)

ChatPageSpec == ChatPageInit /\ [][ChatPageNext]_chatPageVars

-----------------------------------------------------------------------------
(* Properties *)

\* The messages that were answered and stored, as the page was told; of some messages, the answers
\* to these.
Told == {s \in Sends : send[s].pc = "over" /\ send[s].conv # NoConv}
Complete(messages) == Filter(messages, {Reply(s, "whole") : s \in Told})

\* Once nothing is under way, the page shows the answers of the conversation that its URL names,
\* all that were completed and in their order, and the next message goes to that conversation: as
\* long as, since it was opened, nobody went elsewhere under an answer or a load.
PageShowsItsConversation ==
  here /\ ~strayed /\ UnderWay = {} /\ loads = << >> =>
    /\ convId = url
    /\ Complete(shown) = IF url = NoConv THEN << >> ELSE Complete(thread[url])
=============================================================================
