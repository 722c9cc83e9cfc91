------------------------------- MODULE WebProofs -------------------------------
EXTENDS WebSession, ChatPage, FilteringProofs

-----------------------------------------------------------------------------
(* ChatPage: types *)

Msgs == [by : Sends, role : {"user", "assistant"}, text : {"", "question", "whole", "error", "agent"}]
Addresses == Convs \cup {NoConv}
SendStates ==
  [pc : {"new", "asked", "taken", "answered", "heard", "kept", "failed", "over"},
   kind : {"chat", "agent"}, from : Addresses, conv : Addresses, index : Nat, visit : Nat]
LoadStates == [of : Convs, got : {"nothing", "rows", "gone"}, rows : Seq(Msgs)]

ChatTypes ==
  /\ thread \in [Convs -> Seq(Msgs)] /\ stored \subseteq made /\ made \subseteq Convs
  /\ send \in [Sends -> SendStates]
  /\ {url, convId, lastOpen} \subseteq Addresses
  /\ visit \in Nat /\ {here, busy, strayed} \subseteq BOOLEAN
  /\ shown \in Seq(Msgs) /\ loads \in Seq(LoadStates)
  /\ deleting = NoDeletion \/ deleting \in [of : Convs, active : BOOLEAN]
  /\ \A s \in Sends : /\ send[s].pc \in {"taken", "answered", "heard", "kept"} => send[s].conv \in Convs
                      /\ send[s].pc \in {"new", "asked"} => send[s].conv = NoConv

LEMMA SendToShape ==
  ASSUME ChatTypes, NEW s \in Sends, NEW pc \in {"over", "answered", "heard", "kept", "failed"},
         SendTo(s, pc)
  PROVE  /\ send' \in [Sends -> SendStates]
         /\ send'[s] = [send[s] EXCEPT !.pc = pc] /\ \A r \in Sends \ {s} : send'[r] = send[r]
BY DEF ChatTypes, SendTo, SendStates

\* The fields of a message that moves on, but for how far it is.
LEMMA SendToFields ==
  ASSUME ChatTypes, NEW s \in Sends, NEW pc \in {"over", "answered", "heard", "kept", "failed"},
         SendTo(s, pc)
  PROVE  /\ send'[s].pc = pc /\ send'[s].from = send[s].from /\ send'[s].conv = send[s].conv
         /\ send'[s].index = send[s].index /\ send'[s].visit = send[s].visit
         /\ \A x \in Sends \ {s} : send'[x] = send[x]
<1>1. send[s] \in SendStates
  BY DEF ChatTypes
<1>2. send'[s] = [send[s] EXCEPT !.pc = pc] /\ \A x \in Sends \ {s} : send'[x] = send[x]
  BY SendToShape
<1> QED BY <1>1, <1>2 DEF SendStates

LEMMA PatchedType ==
  ASSUME ChatTypes, NEW s \in Sends, NEW text \in {"whole", "error", "agent"}
  PROVE  Patched(s, text) \in Seq(Msgs)
<1>1. CASE Reaches(s)
  <2> DEFINE i == send[s].index
  <2>0. i \in Nat
    BY DEF ChatTypes, SendStates
  <2>1. Patched(s, text) = [shown EXCEPT ![i].text = text]
    BY <1>1 DEF Patched
  <2>2. CASE i \in 1 .. Len(shown)
    <3>1. shown[i] \in Msgs
      BY <2>2 DEF ChatTypes
    <3>2. [shown[i] EXCEPT !.text = text] \in Msgs
      BY <3>1 DEF Msgs
    <3> HIDE DEF i
    <3>3. [shown EXCEPT ![i] = [shown[i] EXCEPT !.text = text]] \in Seq(Msgs)
      BY <2>2, <3>2 DEF ChatTypes
    <3> QED BY <2>1, <3>3
  <2>3. CASE i \notin 1 .. Len(shown)
    <3>1. i \notin DOMAIN shown
      BY <2>3 DEF ChatTypes
    <3>2. Patched(s, text) = shown
      BY <2>1, <3>1 DEF ChatTypes
    <3> QED BY <3>2 DEF ChatTypes
  <2> QED BY <2>2, <2>3
<1>2. CASE ~Reaches(s)
  BY <1>2 DEF Patched, ChatTypes
<1> QED BY <1>1, <1>2

LEMMA EnterTypes ==
  ASSUME ChatTypes, NEW c \in Convs, Enter(c)
  PROVE  /\ {url, convId, lastOpen}' \subseteq Addresses /\ loads' \in Seq(LoadStates)
         /\ loads' = Append(loads, Load(c))
<1>1. Load(c) \in LoadStates
  <2>1. << >> \in Seq(Msgs)
    OBVIOUS
  <2> QED BY <2>1 DEF Load, LoadStates
<1>2. loads \in Seq(LoadStates)
  BY DEF ChatTypes
<1> HIDE DEF ChatTypes
<1>3. loads' = Append(loads, Load(c)) /\ loads' \in Seq(LoadStates)
  BY <1>1, <1>2 DEF Enter
<1> QED BY <1>3 DEF Enter, Addresses

LEMMA ChatTypesInit == ChatPageInit => ChatTypes
<1> SUFFICES ASSUME ChatPageInit PROVE ChatTypes
  OBVIOUS
<1>1. Unsent \in SendStates
  BY DEF Unsent, SendStates, Addresses
<1>2. thread \in [Convs -> Seq(Msgs)]
  BY DEF ChatPageInit
<1>3. shown \in Seq(Msgs) /\ loads \in Seq(LoadStates)
  BY DEF ChatPageInit
<1>4. \A s \in Sends : send[s] = Unsent
  BY DEF ChatPageInit
<1>5. \A s \in Sends : send[s].pc = "new" /\ send[s].conv = NoConv
  BY <1>4 DEF Unsent
<1> QED BY <1>1, <1>2, <1>3, <1>5 DEF ChatPageInit, ChatTypes, Addresses

\* The steps that send and answer nothing.
LEMMA ChatTypesMove ==
  ASSUME ChatTypes, NEW c,
         OpenConv(c) \/ DeleteConv(c) \/ NewSession \/ ChatTab \/ LeavePage \/ ArrivePage
  PROVE  ChatTypes'
<1>0. \A d \in {url, convId, lastOpen} : d \in Addresses
  BY DEF ChatTypes
<1>9. OpenConv(c) \/ DeleteConv(c) => c \in Convs
  BY DEF OpenConv, DeleteConv, ChatTypes
<1>1. CASE OpenConv(c)
  BY <1>1, <1>9, EnterTypes DEF OpenConv, ChatTypes, threadVars, Astray
<1>2. CASE DeleteConv(c)
  BY <1>2, <1>9 DEF DeleteConv, ChatTypes, threadVars, pageVars
<1>3. CASE NewSession
  <2>1. << >> \in Seq(Msgs)
    OBVIOUS
  <2> QED BY <1>3, <2>1 DEF NewSession, Empty, ChatTypes, threadVars, Astray, Addresses
<1>4. CASE ChatTab
  <2>1. << >> \in Seq(Msgs) /\ lastOpen \in Convs
    BY <1>4, <1>0 DEF ChatTab, Addresses
  <2> QED BY <1>4, <2>1, EnterTypes DEF ChatTab, ChatTypes, threadVars, Astray
<1>5. CASE LeavePage
  <2>1. << >> \in Seq(Msgs) /\ << >> \in Seq(LoadStates)
    OBVIOUS
  <2> QED BY <1>5, <2>1 DEF LeavePage, ChatTypes, threadVars, Addresses
<1>6. CASE ArrivePage
  <2>1. CASE lastOpen = NoConv
    BY <1>6, <2>1 DEF ArrivePage, ChatTypes, threadVars, Astray
  <2>2. CASE lastOpen # NoConv
    <3>1. lastOpen \in Convs /\ Enter(lastOpen)
      BY <1>6, <2>2, <1>0 DEF ArrivePage, Addresses
    <3> QED BY <1>6, <3>1, EnterTypes DEF ArrivePage, ChatTypes, threadVars, Astray
  <2> QED BY <2>1, <2>2
<1> QED BY <1>1, <1>2, <1>3, <1>4, <1>5, <1>6

LEMMA ChatTypesLoad ==
  ASSUME ChatTypes, NEW i \in Nat, LoadRead(i) \/ LoadReturns(i)
  PROVE  ChatTypes'
<1>0. i \in 1 .. Len(loads) /\ loads[i] \in LoadStates /\ loads \in Seq(LoadStates)
  BY DEF LoadRead, LoadReturns, ChatTypes
<1>1. CASE LoadRead(i)
  <2> DEFINE l == IF loads[i].of \in stored THEN [of |-> loads[i].of, got |-> "rows", rows |-> thread[loads[i].of]]
                  ELSE [of |-> loads[i].of, got |-> "gone", rows |-> << >>]
  <2>1. loads[i].of \in Convs
    BY <1>0 DEF LoadStates
  <2>2. thread[loads[i].of] \in Seq(Msgs) /\ << >> \in Seq(Msgs)
    BY <2>1 DEF ChatTypes
  <2>3. l \in LoadStates
    BY <2>1, <2>2 DEF LoadStates
  <2>4. loads' = [loads EXCEPT ![i] = l]
    BY <1>1 DEF LoadRead
  <2> HIDE DEF l
  <2>5. loads' \in Seq(LoadStates)
    BY <1>0, <2>3, <2>4
  <2> QED BY <1>1, <2>5 DEF LoadRead, ChatTypes, threadVars
<1>2. CASE LoadReturns(i)
  <2>1. loads[i].rows \in Seq(Msgs)
    BY <1>0 DEF LoadStates
  <2>2. loads' \in Seq(LoadStates)
    BY <1>0, <1>2 DEF LoadReturns, RemoveAt
  <2>3. {url, convId, lastOpen}' \subseteq Addresses
    BY <1>2 DEF LoadReturns, ChatTypes, Addresses
  <2> QED BY <1>2, <2>1, <2>2, <2>3 DEF LoadReturns, ChatTypes, threadVars
<1> QED BY <1>1, <1>2

LEMMA ChatTypesSend ==
  ASSUME ChatTypes, NEW s \in Sends, NEW kind \in {"chat", "agent"}, SendMessage(s, kind)
  PROVE  ChatTypes'
<1> DEFINE q == Question(s)
           r == Reply(s, "")
           n == AnswerIndex(shown)
           new == [pc |-> "asked", kind |-> kind, from |-> convId, conv |-> NoConv, index |-> n, visit |-> visit]
<1>1. q \in Msgs /\ r \in Msgs /\ n \in Nat
  <2>1. q \in Msgs /\ r \in Msgs
    BY DEF Question, Reply, Msgs
  <2>2. Len(shown) \in Nat
    BY DEF ChatTypes
  <2>3. \A k \in Nat : k + 2 \in Nat
    OBVIOUS
  <2>4. n \in Nat
    BY <2>2, <2>3 DEF AnswerIndex
  <2> HIDE DEF q, r, n
  <2> QED BY <2>1, <2>4
<1>2. send' = [send EXCEPT ![s] = new] /\ shown' = shown \o <<q, r>>
  BY DEF SendMessage
<1> HIDE DEF q, r, n
<1>3. shown' \in Seq(Msgs)
  BY <1>1, <1>2 DEF ChatTypes
<1>4. new \in SendStates
  BY <1>1 DEF ChatTypes, SendStates, Addresses
<1>5. new.pc = "asked" /\ new.conv = NoConv
  OBVIOUS
<1> HIDE DEF new
<1>6. send' \in [Sends -> SendStates] /\ send'[s] = new /\ \A x \in Sends \ {s} : send'[x] = send[x]
  BY <1>2, <1>4 DEF ChatTypes
<1>7. \A x \in Sends : /\ send'[x].pc \in {"taken", "answered", "heard", "kept"} => send'[x].conv \in Convs
                       /\ send'[x].pc \in {"new", "asked"} => send'[x].conv = NoConv
  BY <1>5, <1>6 DEF ChatTypes
<1> QED BY <1>3, <1>6, <1>7 DEF SendMessage, ChatTypes, threadVars

\* What a message takes when it is taken: a conversation, or it fails.
LEMMA TakeShape ==
  ASSUME ChatTypes, NEW s \in Sends, TakeMessage(s)
  PROVE  /\ send' \in [Sends -> SendStates] /\ \A r \in Sends \ {s} : send'[r] = send[r]
         /\ send[s].pc = "asked" /\ send[s].conv = NoConv
         /\ send'[s].from = send[s].from /\ send'[s].index = send[s].index /\ send'[s].visit = send[s].visit
         /\ \/ /\ send'[s].pc = "taken" /\ send'[s].conv = send[s].from
               /\ send[s].from \in stored /\ UNCHANGED threadVars
            \/ /\ send'[s].pc = "failed" /\ UNCHANGED threadVars
            \/ \E c \in Convs \ made :
                 /\ send'[s].pc = "taken" /\ send'[s].conv = c /\ send[s].from = NoConv
                 /\ stored' = stored \cup {c} /\ made' = made \cup {c} /\ thread' = thread
<1>0. send \in [Sends -> SendStates] /\ send[s] \in SendStates
  BY DEF ChatTypes
<1>1. send[s].pc = "asked" /\ send[s].conv = NoConv
  BY DEF TakeMessage, ChatTypes
<1>2. CASE send[s].from \in stored /\ send' = [send EXCEPT ![s].pc = "taken", ![s].conv = send[s].from] /\ UNCHANGED threadVars
  <2> DEFINE new == [send[s] EXCEPT !.pc = "taken", !.conv = send[s].from]
  <2>1. /\ new \in SendStates /\ new.pc = "taken"
        /\ new.from = send[s].from /\ new.index = send[s].index /\ new.visit = send[s].visit
    BY <1>0 DEF SendStates
  <2>2. send' = [send EXCEPT ![s] = new]
    BY <1>0, <1>2
  <2>4. new.conv = send[s].from
    BY <1>0 DEF SendStates
  <2> HIDE DEF new
  <2>3. send' \in [Sends -> SendStates] /\ send'[s] = new /\ \A x \in Sends \ {s} : send'[x] = send[x]
    BY <1>0, <2>1, <2>2
  <2> QED BY <1>1, <1>2, <2>1, <2>3, <2>4
<1>3. CASE SendTo(s, "failed") /\ UNCHANGED threadVars
  <2>1. send'[s] = [send[s] EXCEPT !.pc = "failed"] /\ send' \in [Sends -> SendStates]
        /\ \A r \in Sends \ {s} : send'[r] = send[r]
    BY <1>3, SendToShape
  <2>2. /\ send'[s].pc = "failed"
        /\ send'[s].from = send[s].from /\ send'[s].index = send[s].index /\ send'[s].visit = send[s].visit
    BY <1>0, <2>1 DEF SendStates
  <2> QED BY <1>1, <1>3, <2>1, <2>2
<1>4. ASSUME NEW c \in Convs \ made, send[s].from = NoConv,
             made' = made \cup {c} /\ stored' = stored \cup {c} /\ UNCHANGED thread,
             send' = [send EXCEPT ![s].pc = "taken", ![s].conv = c]
      PROVE  /\ send' \in [Sends -> SendStates] /\ \A r \in Sends \ {s} : send'[r] = send[r]
             /\ send'[s].pc = "taken" /\ send'[s].conv = c
             /\ send'[s].from = send[s].from /\ send'[s].index = send[s].index /\ send'[s].visit = send[s].visit
  <2> DEFINE new == [send[s] EXCEPT !.pc = "taken", !.conv = c]
  <2>1. /\ new \in SendStates /\ new.pc = "taken"
        /\ new.from = send[s].from /\ new.index = send[s].index /\ new.visit = send[s].visit
    BY <1>0 DEF SendStates, Addresses
  <2>2. send' = [send EXCEPT ![s] = new]
    BY <1>0, <1>4
  <2>4. new.conv = c
    BY <1>0 DEF SendStates
  <2> HIDE DEF new
  <2>3. send' \in [Sends -> SendStates] /\ send'[s] = new /\ \A x \in Sends \ {s} : send'[x] = send[x]
    BY <1>0, <2>1, <2>2
  <2> QED BY <2>1, <2>3, <2>4
<1> QED BY <1>1, <1>2, <1>3, <1>4 DEF TakeMessage

LEMMA ChatTypesTake ==
  ASSUME ChatTypes, NEW s \in Sends, TakeMessage(s)
  PROVE  ChatTypes'
<1>0. send[s] \in SendStates
  BY DEF ChatTypes
<1>1. stored' \subseteq made' /\ made' \subseteq Convs /\ thread' = thread
  BY TakeShape DEF ChatTypes, threadVars
<1>2. /\ send'[s].pc \in {"taken", "failed"}
      /\ send'[s].pc = "taken" => send'[s].conv \in Convs
  <2>1. made \subseteq Convs /\ stored \subseteq made
    BY DEF ChatTypes
  <2> QED BY <2>1, TakeShape
<1>3. \A x \in Sends : /\ send'[x].pc \in {"taken", "answered", "heard", "kept"} => send'[x].conv \in Convs
                       /\ send'[x].pc \in {"new", "asked"} => send'[x].conv = NoConv
  BY <1>2, TakeShape DEF ChatTypes
<1> QED BY <1>1, <1>3, TakeShape DEF TakeMessage, ChatTypes, pageVars

\* A step that moves one message on and keeps its conversation.
LEMMA MovedTypes ==
  ASSUME ChatTypes, NEW s \in Sends, NEW pc \in {"over", "answered", "heard", "kept", "failed"},
         SendTo(s, pc), pc \in {"over", "failed"} \/ send[s].conv \in Convs
  PROVE  /\ send' \in [Sends -> SendStates]
         /\ \A x \in Sends : /\ send'[x].pc \in {"taken", "answered", "heard", "kept"} => send'[x].conv \in Convs
                             /\ send'[x].pc \in {"new", "asked"} => send'[x].conv = NoConv
<1>0. send[s] \in SendStates
  BY DEF ChatTypes
<1>1. send'[s].pc = pc /\ send'[s].conv = send[s].conv
  BY <1>0, SendToShape DEF SendStates
<1>2. \A x \in Sends : /\ send[x].pc \in {"taken", "answered", "heard", "kept"} => send[x].conv \in Convs
                       /\ send[x].pc \in {"new", "asked"} => send[x].conv = NoConv
  BY DEF ChatTypes
<1>3. pc \notin {"new", "asked"}
  OBVIOUS
<1>4. \A x \in Sends : \/ send'[x] = send[x]
                       \/ x = s
  BY SendToShape
<1>5. send'[s].pc \in {"taken", "answered", "heard", "kept"} => send'[s].conv \in Convs
  BY <1>1
<1>6. send' \in [Sends -> SendStates]
  BY SendToShape
<1> QED BY <1>1, <1>2, <1>3, <1>4, <1>5, <1>6

LEMMA KeepType ==
  ASSUME ChatTypes, NEW s \in Sends, send[s].conv \in Convs, NEW m \in Msgs, Keep(s, m)
  PROVE  /\ thread' \in [Convs -> Seq(Msgs)]
         /\ thread'[send[s].conv] = Append(thread[send[s].conv], m)
         /\ \A c \in Convs \ {send[s].conv} : thread'[c] = thread[c]
<1> DEFINE c == send[s].conv
           ms == Append(thread[c], m)
<1>1. thread[c] \in Seq(Msgs) /\ ms \in Seq(Msgs)
  BY DEF ChatTypes
<1>2. thread' = [thread EXCEPT ![c] = ms]
  BY DEF Keep
<1> HIDE DEF ms
<1>3. thread' \in [Convs -> Seq(Msgs)] /\ thread'[c] = ms /\ \A d \in Convs \ {c} : thread'[d] = thread[d]
  BY <1>1, <1>2 DEF ChatTypes
<1> QED BY <1>3 DEF ms

LEMMA ChatTypesAnswer ==
  ASSUME ChatTypes, NEW s \in Sends,
         \/ StoreQuestion(s) \/ HearAnswer(s) \/ StoreAnswer(s) \/ HearFinal(s)
         \/ TurnFails(s) \/ HearError(s) \/ AgentAnswers(s)
  PROVE  ChatTypes'
<1>0. \A text \in {"", "whole"} : Question(s) \in Msgs /\ Reply(s, text) \in Msgs
  BY DEF Question, Reply, Msgs
<1>1. CASE StoreQuestion(s)
  <2>1. send[s].conv \in Convs /\ Keep(s, Question(s)) /\ SendTo(s, "answered")
    BY <1>1 DEF StoreQuestion, ChatTypes
  <2> QED BY <1>1, <1>0, <2>1, MovedTypes, KeepType DEF StoreQuestion, ChatTypes, pageVars
<1>2. CASE HearAnswer(s)
  <2>1. send[s].conv \in Convs /\ SendTo(s, "heard") /\ shown' \in Seq(Msgs)
    BY <1>2, PatchedType DEF HearAnswer, ChatTypes
  <2> QED BY <1>2, <2>1, MovedTypes DEF HearAnswer, ChatTypes, threadVars
<1>3. CASE StoreAnswer(s)
  <2>1. send[s].conv \in Convs /\ Keep(s, Reply(s, "whole")) /\ SendTo(s, "kept")
    BY <1>3 DEF StoreAnswer, ChatTypes
  <2> QED BY <1>3, <1>0, <2>1, MovedTypes, KeepType DEF StoreAnswer, ChatTypes, pageVars
<1>4. CASE HearFinal(s)
  <2>1. send[s].conv \in Convs /\ SendTo(s, "over") /\ busy' \in BOOLEAN
    BY <1>4 DEF HearFinal, ChatTypes, Idle
  <2>2. {url, convId, lastOpen}' \subseteq Addresses /\ loads' \in Seq(LoadStates)
    <3>1. CASE Enter(send[s].conv)
      BY <2>1, <3>1, EnterTypes
    <3>2. CASE UNCHANGED <<url, convId, lastOpen, loads>>
      BY <3>2 DEF ChatTypes
    <3> QED BY <1>4, <3>1, <3>2 DEF HearFinal
  <2> QED BY <1>4, <2>1, <2>2, MovedTypes DEF HearFinal, ChatTypes, threadVars
<1>5. CASE TurnFails(s)
  <2>1. SendTo(s, "failed")
    BY <1>5 DEF TurnFails
  <2> QED BY <1>5, <2>1, MovedTypes DEF TurnFails, ChatTypes, threadVars, pageVars
<1>6. CASE HearError(s)
  <2> DEFINE new == [send[s] EXCEPT !.pc = "over", !.conv = NoConv]
  <2>0. send[s] \in SendStates /\ send \in [Sends -> SendStates]
    BY DEF ChatTypes
  <2>1. new \in SendStates /\ new.pc = "over"
    BY <2>0 DEF SendStates, Addresses
  <2>2. send' = [send EXCEPT ![s] = new]
    BY <1>6, <2>0 DEF HearError
  <2> HIDE DEF new
  <2>3. send' \in [Sends -> SendStates] /\ send'[s] = new /\ \A x \in Sends \ {s} : send'[x] = send[x]
    BY <2>0, <2>1, <2>2
  <2>4. \A x \in Sends : /\ send'[x].pc \in {"taken", "answered", "heard", "kept"} => send'[x].conv \in Convs
                         /\ send'[x].pc \in {"new", "asked"} => send'[x].conv = NoConv
    BY <2>1, <2>3 DEF ChatTypes
  <2>5. shown' \in Seq(Msgs) /\ busy' \in BOOLEAN
    BY <1>6, PatchedType DEF HearError, Idle, ChatTypes
  <2> QED BY <1>6, <2>3, <2>4, <2>5 DEF HearError, ChatTypes, threadVars
<1>7. CASE AgentAnswers(s)
  <2>1. SendTo(s, "over") /\ shown' \in Seq(Msgs) /\ busy' \in BOOLEAN
    BY <1>7, PatchedType DEF AgentAnswers, Idle, ChatTypes
  <2> QED BY <1>7, <2>1, MovedTypes DEF AgentAnswers, ChatTypes, threadVars
<1> QED BY <1>1, <1>2, <1>3, <1>4, <1>5, <1>6, <1>7

\* A deletion that was done empties the conversation and leaves the others.
LEMMA DeletedShape ==
  ASSUME ChatTypes, NEW done \in BOOLEAN, ConvDeleted(done)
  PROVE  /\ thread' \in [Convs -> Seq(Msgs)]
         /\ \A c \in Convs : thread'[c] \in {thread[c], << >>}
         /\ \A c \in Convs \ {deleting.of} : thread'[c] = thread[c]
         /\ stored' \subseteq stored /\ made' = made
         /\ \A c \in stored \ stored' : thread'[c] = << >>
<1>1. deleting.of \in Convs
  BY DEF ConvDeleted, ChatTypes
<1>2. CASE done
  <2>1. << >> \in Seq(Msgs)
    OBVIOUS
  <2> QED BY <1>1, <1>2, <2>1 DEF ConvDeleted, ChatTypes
<1>3. CASE ~done
  BY <1>3 DEF ConvDeleted, ChatTypes, threadVars
<1> QED BY <1>2, <1>3

LEMMA ChatTypesDeleted ==
  ASSUME ChatTypes, NEW done \in BOOLEAN, ConvDeleted(done)
  PROVE  ChatTypes'
<1>1. << >> \in Seq(Msgs)
  OBVIOUS
<1>2. {url, convId, lastOpen}' \subseteq Addresses /\ strayed' \in BOOLEAN /\ loads' = loads
  BY DEF ConvDeleted, ChatTypes, Empty, Addresses, Astray
<1>3. shown' \in Seq(Msgs)
  BY <1>1 DEF ConvDeleted, ChatTypes, Empty
<1> QED BY <1>2, <1>3, DeletedShape DEF ConvDeleted, ChatTypes
-----------------------------------------------------------------------------
(* ChatPage: what was written before *)

WholeReply(s) == Reply(s, "whole")
\* Whatever is written was written by a message that was sent.
SentBefore(messages, sends) == \A i \in 1 .. Len(messages) : sends[messages[i].by].pc # "new"
Lacks(messages, m) == \A i \in 1 .. Len(messages) : messages[i] # m
\* A message whose answer cannot have been stored yet.
NotKept(a) == a.pc \notin {"kept", "failed", "over"}

ChatPast ==
  /\ \A c \in Convs \ stored : thread[c] = << >>
  /\ SentBefore(shown, send) /\ \A c \in Convs : SentBefore(thread[c], send)
  /\ \A i \in 1 .. Len(loads) : SentBefore(loads[i].rows, send)
  /\ \A s \in Sends : NotKept(send[s]) => \A c \in Convs : Lacks(thread[c], WholeReply(s))
  /\ ~here => url = NoConv /\ convId = NoConv /\ shown = << >> /\ loads = << >>

NobodyAnew == \A s \in Sends : send[s].pc # "new" => send'[s].pc # "new"

LEMMA SentStays ==
  ASSUME NobodyAnew, NEW ms \in Seq(Msgs), SentBefore(ms, send)
  PROVE  SentBefore(ms, send')
<1>1. \A i \in 1 .. Len(ms) : ms[i] \in Msgs
  OBVIOUS
<1>2. \A m \in Msgs : m.by \in Sends
  BY DEF Msgs
<1> QED BY <1>1, <1>2 DEF SentBefore, NobodyAnew

LEMMA SentNothing == ASSUME NEW sends PROVE SentBefore(<< >>, sends)
BY DEF SentBefore

LEMMA SentAppend ==
  ASSUME NEW ms \in Seq(Msgs), NEW sends, SentBefore(ms, sends), NEW m \in Msgs, sends[m.by].pc # "new"
  PROVE  SentBefore(Append(ms, m), sends)
<1> DEFINE n == Len(ms)
           ext == Append(ms, m)
<1>1. n \in Nat /\ Len(ext) = n + 1 /\ ext[n + 1] = m /\ \A i \in 1 .. n : ext[i] = ms[i]
  OBVIOUS
<1>2. \A i \in 1 .. n : sends[ms[i].by].pc # "new"
  BY DEF SentBefore
<1> HIDE DEF n, ext
<1>3. \A i \in 1 .. n + 1 : i \in 1 .. n \/ i = n + 1
  BY <1>1
<1> QED BY <1>1, <1>2, <1>3 DEF SentBefore, ext

LEMMA PatchedShape ==
  ASSUME ChatTypes, NEW s \in Sends, NEW text
  PROVE  /\ Len(Patched(s, text)) = Len(shown)
         /\ \A i \in 1 .. Len(shown) :
              Patched(s, text)[i] = IF Reaches(s) /\ i = send[s].index THEN [shown[i] EXCEPT !.text = text]
                                    ELSE shown[i]
<1> DEFINE k == send[s].index
<1>1. shown \in Seq(Msgs)
  BY DEF ChatTypes
<1>2. CASE Reaches(s)
  <2>1. Patched(s, text) = [shown EXCEPT ![k] = [shown[k] EXCEPT !.text = text]]
    BY <1>2 DEF Patched
  <2> HIDE DEF k
  <2>2. /\ Len(Patched(s, text)) = Len(shown)
        /\ \A i \in 1 .. Len(shown) : Patched(s, text)[i] = IF i = k THEN [shown[k] EXCEPT !.text = text] ELSE shown[i]
    BY <1>1, <2>1
  <2> QED BY <1>2, <2>2 DEF k
<1>3. CASE ~Reaches(s)
  BY <1>3 DEF Patched
<1> QED BY <1>2, <1>3

LEMMA SentPatched ==
  ASSUME ChatTypes, NEW s \in Sends, NEW text, NEW sends, SentBefore(shown, sends)
  PROVE  SentBefore(Patched(s, text), sends)
<1>1. \A i \in 1 .. Len(shown) : shown[i] \in Msgs
  BY DEF ChatTypes
<1>2. \A m \in Msgs : [m EXCEPT !.text = text].by = m.by
  BY DEF Msgs
<1>3. ASSUME NEW i \in 1 .. Len(shown) PROVE Patched(s, text)[i].by = shown[i].by
  <2>1. shown[i] \in Msgs
    BY <1>1
  <2>2. Patched(s, text)[i] = IF Reaches(s) /\ i = send[s].index THEN [shown[i] EXCEPT !.text = text]
                             ELSE shown[i]
    BY PatchedShape, Zenon
  <2> DEFINE m == shown[i]
  <2>3. [m EXCEPT !.text = text].by = m.by
    BY <2>1, <1>2
  <2> QED BY <2>2, <2>3
<1> QED BY <1>3, PatchedShape DEF SentBefore

LEMMA ChatPastInit == ChatPageInit => ChatPast
<1> SUFFICES ASSUME ChatPageInit PROVE ChatPast
  OBVIOUS
<1>1. \A c \in Convs : thread[c] = << >>
  BY DEF ChatPageInit
<1>2. shown = << >> /\ loads = << >>
  BY DEF ChatPageInit
<1>3. SentBefore(shown, send) /\ \A c \in Convs : SentBefore(thread[c], send)
  BY <1>1, <1>2, SentNothing
<1>4. \A s : \A c \in Convs : Lacks(thread[c], WholeReply(s))
  BY <1>1 DEF Lacks
<1> QED BY <1>1, <1>2, <1>3, <1>4 DEF ChatPageInit, ChatPast

\* What is opened has nothing read yet.
LEMMA EnterPast ==
  ASSUME ChatTypes, ChatPast, NEW c \in Convs, Enter(c), NEW sends,
         \A i \in 1 .. Len(loads) : SentBefore(loads[i].rows, sends)
  PROVE  \A i \in 1 .. Len(loads') : SentBefore(loads'[i].rows, sends)
<1> DEFINE l == Load(c)
           n == Len(loads)
<1>1. l.rows = << >>
  BY DEF Load
<1>2. loads' = Append(loads, l) /\ loads \in Seq(LoadStates)
  BY DEF Enter, ChatTypes
<1> HIDE DEF l
<1>3. n \in Nat /\ Len(loads') = n + 1 /\ loads'[n + 1] = l /\ \A i \in 1 .. n : loads'[i] = loads[i]
  BY <1>2
<1> HIDE DEF n
<1>4. \A i \in 1 .. n + 1 : i \in 1 .. n \/ i = n + 1
  BY <1>3
<1>5. SentBefore(l.rows, sends)
  BY <1>1, SentNothing
<1> QED BY <1>3, <1>4, <1>5 DEF n

LEMMA ChatPastMove ==
  ASSUME ChatTypes, ChatPast, NEW c,
         OpenConv(c) \/ DeleteConv(c) \/ NewSession \/ ChatTab \/ LeavePage \/ ArrivePage
  PROVE  ChatPast'
<1>0. /\ \A d \in {url, convId, lastOpen} : d \in Addresses
      /\ \A i \in 1 .. Len(loads) : SentBefore(loads[i].rows, send)
      /\ \A e : SentBefore(<< >>, e)
  BY SentNothing DEF ChatTypes, ChatPast
<1>9. OpenConv(c) \/ DeleteConv(c) => c \in Convs
  BY DEF OpenConv, DeleteConv, ChatTypes
<1>1. CASE OpenConv(c)
  BY <1>0, <1>1, <1>9, EnterPast DEF OpenConv, ChatPast, threadVars
<1>2. CASE DeleteConv(c)
  BY <1>2 DEF DeleteConv, ChatPast, threadVars, pageVars
<1>3. CASE NewSession
  BY <1>0, <1>3 DEF NewSession, Empty, ChatPast, threadVars
<1>4. CASE ChatTab
  <2>1. lastOpen \in Convs
    BY <1>4, <1>0 DEF ChatTab, Addresses
  <2> QED BY <1>0, <1>4, <2>1, EnterPast DEF ChatTab, ChatPast, threadVars
<1>5. CASE LeavePage
  BY <1>0, <1>5 DEF LeavePage, ChatPast, threadVars
<1>6. CASE ArrivePage
  <2>1. CASE lastOpen = NoConv
    BY <1>6, <2>1 DEF ArrivePage, ChatPast, threadVars
  <2>2. CASE lastOpen # NoConv
    <3>1. lastOpen \in Convs /\ Enter(lastOpen)
      BY <1>6, <2>2, <1>0 DEF ArrivePage, Addresses
    <3> QED BY <1>0, <1>6, <3>1, EnterPast DEF ArrivePage, ChatPast, threadVars
  <2> QED BY <2>1, <2>2
<1> QED BY <1>1, <1>2, <1>3, <1>4, <1>5, <1>6

LEMMA ConcatShape ==
  ASSUME NEW A, NEW f \in Seq(A), NEW g \in Seq(A)
  PROVE  /\ Len(f \o g) = Len(f) + Len(g)
         /\ \A j \in 1 .. Len(f) + Len(g) : (f \o g)[j] = IF j <= Len(f) THEN f[j] ELSE g[j - Len(f)]
OBVIOUS

LEMMA RemovedMembers ==
  ASSUME NEW A, NEW q \in Seq(A), NEW i \in 1 .. Len(q)
  PROVE  /\ Len(RemoveAt(q, i)) = Len(q) - 1
         /\ \A j \in 1 .. Len(RemoveAt(q, i)) : \E k \in 1 .. Len(q) : RemoveAt(q, i)[j] = q[k]
<1> DEFINE front == SubSeq(q, 1, i - 1)
           rest == SubSeq(q, i + 1, Len(q))
<1>1. /\ front \in Seq(A) /\ Len(front) = i - 1 /\ \A j \in 1 .. i - 1 : front[j] = q[j]
      /\ rest \in Seq(A) /\ Len(rest) = Len(q) - i /\ \A j \in 1 .. Len(q) - i : rest[j] = q[i + j]
  OBVIOUS
<1> HIDE DEF front, rest
<1> DEFINE n == Len(q)
<1>5. n \in Nat /\ i \in 1 .. n
  OBVIOUS
<1>2. /\ Len(front \o rest) = Len(q) - 1
      /\ \A j \in 1 .. Len(q) - 1 : (front \o rest)[j] = IF j <= i - 1 THEN q[j] ELSE q[j + 1]
  <2>1. /\ Len(front \o rest) = Len(front) + Len(rest)
        /\ \A j \in 1 .. Len(front) + Len(rest) :
             (front \o rest)[j] = IF j <= Len(front) THEN front[j] ELSE rest[j - Len(front)]
    <3>1. front \in Seq(A) /\ rest \in Seq(A)
      BY <1>1
    <3> QED BY ONLY <3>1, ConcatShape
  <2> HIDE DEF n
  <2>2. (i - 1) + (n - i) = n - 1 /\ i - 1 \in Nat
    BY <1>5
  <2>3. ASSUME NEW j \in 1 .. n - 1, j > i - 1
        PROVE  j - (i - 1) \in 1 .. n - i /\ i + (j - (i - 1)) = j + 1
    BY <1>5, <2>3
  <2>4. ASSUME NEW j \in 1 .. n - 1, j <= i - 1 PROVE j \in 1 .. i - 1
    BY <1>5, <2>4
  <2>5. ASSUME NEW j \in 1 .. n - 1 PROVE j \in Int /\ (j <= i - 1 \/ j > i - 1)
    BY <1>5
  <2>6. ASSUME NEW j \in 1 .. n - 1, j > i - 1 PROVE ~(j <= i - 1) /\ rest[j - (i - 1)] = q[j + 1]
    <3>1. rest[j - (i - 1)] = q[i + (j - (i - 1))]
      BY <1>1, <2>3, <2>6 DEF n
    <3>2. j \in Int /\ i \in Int
      BY <1>5
    <3> QED BY <3>1, <3>2, <2>3, <2>6
  <2>7. Len(front) = i - 1 /\ Len(rest) = n - i
    BY <1>1 DEF n
  <2>8. /\ Len(front \o rest) = n - 1
        /\ \A j \in 1 .. n - 1 :
             (front \o rest)[j] = IF j <= i - 1 THEN front[j] ELSE rest[j - (i - 1)]
    BY <2>1, <2>2, <2>7
  <2>9. \A j \in 1 .. n - 1 : j <= i - 1 => front[j] = q[j]
    BY <1>1, <2>4
  <2>10. \A j \in 1 .. n - 1 : (front \o rest)[j] = IF j <= i - 1 THEN q[j] ELSE q[j + 1]
    BY <2>5, <2>6, <2>8, <2>9
  <2> QED BY <2>8, <2>10 DEF n
<1>3. RemoveAt(q, i) = front \o rest
  BY DEF RemoveAt, front, rest
<1>4. \A j \in 1 .. Len(q) - 1 : j \in 1 .. Len(q) /\ j + 1 \in 1 .. Len(q)
  OBVIOUS
<1> QED BY <1>2, <1>3, <1>4

LEMMA ChatPastLoad ==
  ASSUME ChatTypes, ChatPast, NEW i \in Nat, LoadRead(i) \/ LoadReturns(i)
  PROVE  ChatPast'
<1>0. /\ i \in 1 .. Len(loads) /\ loads[i] \in LoadStates /\ loads \in Seq(LoadStates) /\ here
      /\ \A k \in 1 .. Len(loads) : SentBefore(loads[k].rows, send)
  <2>1. i \in 1 .. Len(loads) /\ loads \in Seq(LoadStates)
    BY DEF LoadRead, LoadReturns, ChatTypes
  <2> QED BY <2>1 DEF ChatPast
<1>1. CASE LoadRead(i)
  <2> DEFINE l == IF loads[i].of \in stored THEN [of |-> loads[i].of, got |-> "rows", rows |-> thread[loads[i].of]]
                  ELSE [of |-> loads[i].of, got |-> "gone", rows |-> << >>]
  <2>1. loads[i].of \in Convs
    BY <1>0 DEF LoadStates
  <2>2. SentBefore(l.rows, send)
    BY <2>1, SentNothing DEF ChatPast
  <2>3. loads' = [loads EXCEPT ![i] = l]
    BY <1>1 DEF LoadRead
  <2> HIDE DEF l
  <2>4. \A k \in 1 .. Len(loads') : SentBefore(loads'[k].rows, send)
    BY <1>0, <2>2, <2>3
  <2> QED BY <1>0, <1>1, <2>4 DEF LoadRead, ChatPast, threadVars
<1>2. CASE LoadReturns(i)
  <2>1. SentBefore(loads[i].rows, send)
    BY <1>0
  <2>2. \A k \in 1 .. Len(loads') : SentBefore(loads'[k].rows, send)
    BY <1>0, <1>2, RemovedMembers DEF LoadReturns
  <2> QED BY <1>0, <1>2, <2>1, <2>2 DEF LoadReturns, ChatPast, threadVars
<1> QED BY <1>1, <1>2
\* A message only goes on.
GoesOn == \A s \in Sends : /\ send[s].pc # "new" => send'[s].pc # "new"
                           /\ NotKept(send'[s]) => NotKept(send[s])

LEMMA SendsGoOn ==
  ASSUME ChatTypes, NEW s \in Sends,
         \/ \E kind \in {"chat", "agent"} : SendMessage(s, kind)
         \/ TakeMessage(s) \/ StoreQuestion(s) \/ HearAnswer(s) \/ StoreAnswer(s) \/ HearFinal(s)
         \/ TurnFails(s) \/ HearError(s) \/ AgentAnswers(s)
  PROVE  /\ GoesOn /\ \A x \in Sends \ {s} : send'[x] = send[x]
         /\ send'[s].pc # "new"
<1>0. send \in [Sends -> SendStates] /\ send[s] \in SendStates
  BY DEF ChatTypes
<1>1. ASSUME NEW pc \in {"over", "answered", "heard", "kept", "failed"}, SendTo(s, pc)
      PROVE  send'[s].pc = pc /\ \A x \in Sends \ {s} : send'[x] = send[x]
  BY <1>1, SendToFields
<1>2. CASE \E kind \in {"chat", "agent"} : SendMessage(s, kind)
  <2>1. PICK kind \in {"chat", "agent"} : SendMessage(s, kind)
    BY <1>2
  <2>2. send[s].pc = "new" /\ send'[s].pc = "asked" /\ \A x \in Sends \ {s} : send'[x] = send[x]
    BY <1>0, <2>1 DEF SendMessage
  <2> QED BY <2>2 DEF GoesOn, NotKept
<1>3. CASE TakeMessage(s)
  <2>1. send[s].pc = "asked" /\ send'[s].pc \in {"taken", "failed"} /\ \A x \in Sends \ {s} : send'[x] = send[x]
    BY <1>3, TakeShape
  <2> QED BY <2>1 DEF GoesOn, NotKept
<1>4. CASE StoreQuestion(s)
  <2>1. send[s].pc = "taken" /\ send'[s].pc = "answered" /\ \A x \in Sends \ {s} : send'[x] = send[x]
    BY <1>1, <1>4 DEF StoreQuestion
  <2> QED BY <2>1 DEF GoesOn, NotKept
<1>5. CASE HearAnswer(s)
  <2>1. send[s].pc = "answered" /\ send'[s].pc = "heard" /\ \A x \in Sends \ {s} : send'[x] = send[x]
    BY <1>1, <1>5 DEF HearAnswer
  <2> QED BY <2>1 DEF GoesOn, NotKept
<1>6. CASE StoreAnswer(s)
  <2>1. send'[s].pc = "kept" /\ \A x \in Sends \ {s} : send'[x] = send[x]
    BY <1>1, <1>6 DEF StoreAnswer
  <2> QED BY <2>1 DEF GoesOn, NotKept
<1>7. CASE HearFinal(s) \/ AgentAnswers(s)
  <2>1. send'[s].pc = "over" /\ \A x \in Sends \ {s} : send'[x] = send[x]
    BY <1>1, <1>7 DEF HearFinal, AgentAnswers
  <2> QED BY <2>1 DEF GoesOn, NotKept
<1>8. CASE TurnFails(s)
  <2>1. send'[s].pc = "failed" /\ \A x \in Sends \ {s} : send'[x] = send[x]
    BY <1>1, <1>8 DEF TurnFails
  <2> QED BY <2>1 DEF GoesOn, NotKept
<1>9. CASE HearError(s)
  <2>1. send'[s].pc = "over" /\ \A x \in Sends \ {s} : send'[x] = send[x]
    BY <1>0, <1>9 DEF HearError, SendStates
  <2> QED BY <2>1 DEF GoesOn, NotKept
<1> QED BY <1>2, <1>3, <1>4, <1>5, <1>6, <1>7, <1>8, <1>9

\* What is written stays written, and lacks what it lacked.
LEMMA PastStays ==
  ASSUME ChatTypes, ChatPast, GoesOn
  PROVE  /\ SentBefore(shown, send') /\ \A c \in Convs : SentBefore(thread[c], send')
         /\ \A i \in 1 .. Len(loads) : SentBefore(loads[i].rows, send')
         /\ \A x \in Sends : NotKept(send'[x]) => \A c \in Convs : Lacks(thread[c], WholeReply(x))
<1>0. NobodyAnew
  BY DEF NobodyAnew, GoesOn
<1>1. SentBefore(shown, send')
  BY <1>0, SentStays DEF ChatPast, ChatTypes
<1>2. ASSUME NEW c \in Convs PROVE SentBefore(thread[c], send')
  BY <1>0, SentStays DEF ChatPast, ChatTypes
<1>3. ASSUME NEW i \in 1 .. Len(loads) PROVE SentBefore(loads[i].rows, send')
  <2>1. loads[i] \in LoadStates
    BY DEF ChatTypes
  <2>2. loads[i].rows \in Seq(Msgs)
    BY <2>1 DEF LoadStates
  <2> QED BY <1>0, <2>2, SentStays DEF ChatPast
<1>4. \A x \in Sends : NotKept(send'[x]) => \A c \in Convs : Lacks(thread[c], WholeReply(x))
  BY DEF GoesOn, ChatPast
<1> QED BY <1>1, <1>2, <1>3, <1>4

LEMMA ChatPastSend ==
  ASSUME ChatTypes, ChatPast, NEW s \in Sends, NEW kind \in {"chat", "agent"}, SendMessage(s, kind)
  PROVE  ChatPast'
<1> DEFINE q == Question(s)
           r == Reply(s, "")
<1>1. q \in Msgs /\ r \in Msgs /\ q.by = s /\ r.by = s
  BY DEF Question, Reply, Msgs
<1>2. here /\ shown' = shown \o <<q, r>>
  BY DEF SendMessage
<1>3. GoesOn /\ send'[s].pc # "new"
  BY SendsGoOn
<1> HIDE DEF q, r
<1>4. shown' = Append(Append(shown, q), r) /\ Append(shown, q) \in Seq(Msgs) /\ shown \in Seq(Msgs)
  BY <1>1, <1>2 DEF ChatTypes
<1>5. SentBefore(Append(shown, q), send')
  BY <1>1, <1>3, <1>4, PastStays, SentAppend
<1>6. SentBefore(shown', send')
  BY <1>1, <1>3, <1>4, <1>5, SentAppend
<1> QED BY <1>2, <1>3, <1>6, PastStays DEF SendMessage, ChatPast, threadVars

\* A message that is stored: by its sender, and no answer of another.
LEMMA PastAppended ==
  ASSUME ChatTypes, ChatPast, GoesOn, NEW s \in Sends, send[s].conv \in Convs, NEW m \in Msgs, m.by = s,
         Keep(s, m), send'[s].pc # "new",
         \A x \in Sends : NotKept(send'[x]) => m # WholeReply(x)
  PROVE  /\ \A c \in Convs : SentBefore(thread'[c], send')
         /\ \A x \in Sends : NotKept(send'[x]) => \A c \in Convs : Lacks(thread'[c], WholeReply(x))
<1> DEFINE c == send[s].conv
           old == thread[c]
           n == Len(old)
<1>1. /\ thread'[c] = Append(old, m) /\ \A d \in Convs \ {c} : thread'[d] = thread[d]
      /\ old \in Seq(Msgs)
  BY KeepType DEF ChatTypes
<1>2. SentBefore(thread'[c], send')
  BY <1>1, PastStays, SentAppend
<1>3. n \in Nat /\ Len(thread'[c]) = n + 1 /\ thread'[c][n + 1] = m /\ \A i \in 1 .. n : thread'[c][i] = old[i]
  BY <1>1
<1>4. \A x \in Sends : NotKept(send'[x]) => Lacks(old, WholeReply(x))
  BY PastStays
<1> HIDE DEF n
<1>5. \A i \in 1 .. n + 1 : i \in 1 .. n \/ i = n + 1
  BY <1>3
<1>6. \A x \in Sends : NotKept(send'[x]) => Lacks(thread'[c], WholeReply(x))
  BY <1>3, <1>4, <1>5 DEF Lacks, n
<1> HIDE DEF c
<1> QED BY <1>1, <1>2, <1>6, PastStays

LEMMA ChatPastStore ==
  ASSUME ChatTypes, ChatPast, NEW s \in Sends, StoreQuestion(s) \/ StoreAnswer(s)
  PROVE  ChatPast'
<1>0. GoesOn /\ send'[s].pc # "new" /\ send[s].conv \in stored /\ send[s].conv \in Convs
  BY SendsGoOn DEF StoreQuestion, StoreAnswer, ChatTypes
<1>1. \A text \in {"", "whole"} : Question(s) \in Msgs /\ Reply(s, text) \in Msgs
                                  /\ Question(s).by = s /\ Reply(s, text).by = s
  BY DEF Question, Reply, Msgs
<1>2. /\ \A c \in Convs : SentBefore(thread'[c], send')
      /\ \A x \in Sends : NotKept(send'[x]) => \A c \in Convs : Lacks(thread'[c], WholeReply(x))
      /\ \A c \in Convs \ {send[s].conv} : thread'[c] = thread[c]
  <2>1. CASE StoreQuestion(s)
    <3>1. \A x : Question(s) # WholeReply(x)
      BY DEF Question, WholeReply, Reply
    <3> QED BY <1>0, <1>1, <2>1, <3>1, PastAppended, KeepType DEF StoreQuestion
  <2>2. CASE StoreAnswer(s)
    <3>1. \A x : x # s => Reply(s, "whole") # WholeReply(x)
      BY DEF WholeReply, Reply
    <3>2. ~NotKept(send'[s])
      <4>1. send'[s] = [send[s] EXCEPT !.pc = "kept"] /\ send[s] \in SendStates
        BY <2>2, SendToShape DEF StoreAnswer, ChatTypes
      <4> QED BY <4>1 DEF NotKept, SendStates
    <3> QED BY <1>0, <1>1, <2>2, <3>1, <3>2, PastAppended, KeepType DEF StoreAnswer
  <2> QED BY <2>1, <2>2
<1>3. UNCHANGED <<stored, pageVars>>
  BY DEF StoreQuestion, StoreAnswer
<1> QED BY <1>0, <1>2, <1>3, PastStays DEF ChatPast, pageVars

LEMMA ChatPastAnswer ==
  ASSUME ChatTypes, ChatPast, NEW s \in Sends,
         TakeMessage(s) \/ HearAnswer(s) \/ HearFinal(s) \/ TurnFails(s) \/ HearError(s) \/ AgentAnswers(s)
  PROVE  ChatPast'
<1>0. GoesOn
  BY SendsGoOn
<1>1. CASE TakeMessage(s)
  <2>1. thread' = thread /\ stored \subseteq stored'
    BY <1>1, TakeShape DEF threadVars
  <2> QED BY <1>0, <1>1, <2>1, PastStays DEF TakeMessage, ChatPast, pageVars
<1>2. CASE HearAnswer(s) \/ HearError(s) \/ AgentAnswers(s)
  <2>1. PICK text \in {"whole", "error", "agent"} : shown' = Patched(s, text)
    BY <1>2 DEF HearAnswer, HearError, AgentAnswers
  <2>2. SentBefore(shown', send')
    BY <1>0, <2>1, PastStays, SentPatched
  <2>3. ~here => shown' = shown
    BY <2>1 DEF Patched, Reaches, Hears
  <2>4. UNCHANGED <<threadVars, url, convId, here, loads>>
    BY <1>2 DEF HearAnswer, HearError, AgentAnswers
  <2> QED BY <1>0, <2>2, <2>3, <2>4, PastStays DEF ChatPast, threadVars
<1>3. CASE HearFinal(s)
  <2>1. \A i \in 1 .. Len(loads') : SentBefore(loads'[i].rows, send')
    <3>1. CASE Enter(send[s].conv)
      <4>1. send[s].conv \in Convs
        BY <1>3 DEF HearFinal, ChatTypes
      <4> QED BY <1>0, <3>1, <4>1, PastStays, EnterPast
    <3>2. CASE loads' = loads
      BY <1>0, <3>2, PastStays
    <3> QED BY <1>3, <3>1, <3>2 DEF HearFinal
  <2>2. ~here => UNCHANGED <<url, convId, loads>>
    BY <1>3 DEF HearFinal, Reaches, Hears
  <2> QED BY <1>0, <1>3, <2>1, <2>2, PastStays DEF HearFinal, ChatPast, threadVars
<1>4. CASE TurnFails(s)
  BY <1>0, <1>4, PastStays DEF TurnFails, ChatPast, threadVars, pageVars
<1> QED BY <1>1, <1>2, <1>3, <1>4

LEMMA ChatPastDeleted ==
  ASSUME ChatTypes, ChatPast, NEW done \in BOOLEAN, ConvDeleted(done)
  PROVE  ChatPast'
<1>1. \A c \in Convs : thread'[c] = thread[c] \/ thread'[c] = << >>
  BY DeletedShape
<1>2. \A c \in Convs : SentBefore(thread'[c], send)
  BY <1>1, SentNothing DEF ChatPast
<1>3. \A x \in Sends : NotKept(send[x]) => \A c \in Convs : Lacks(thread'[c], WholeReply(x))
  <2>1. \A x : Lacks(<< >>, x)
    BY DEF Lacks
  <2> QED BY <1>1, <2>1 DEF ChatPast
<1>4. \A c \in Convs \ stored' : thread'[c] = << >>
  BY <1>1, DeletedShape DEF ChatPast
<1>5. /\ send' = send /\ loads' = loads /\ here' = here
      /\ \/ UNCHANGED <<url, convId, shown>>
         \/ url' = NoConv /\ convId' = NoConv /\ shown' = << >>
  BY DEF ConvDeleted, Empty
<1>6. SentBefore(shown', send)
  BY <1>5, SentNothing DEF ChatPast
<1> QED BY <1>2, <1>3, <1>4, <1>5, <1>6 DEF ChatPast
-----------------------------------------------------------------------------
(* ChatPage: the answers that were completed *)

WholeOf(T) == {WholeReply(s) : s \in T}
EndsWith(messages, m) ==
  Len(messages) > 0 /\ Last(messages) = m /\ \A i \in 1 .. Len(messages) - 1 : messages[i] # m

LEMMA WholeOfIs ==
  ASSUME NEW T, NEW s PROVE /\ WholeReply(s) \in WholeOf(T) <=> s \in T
                            /\ \A m \in WholeOf(T) : m.role = "assistant" /\ m.text = "whole" /\ m.by \in T
<1>1. \A x : WholeReply(x).role = "assistant" /\ WholeReply(x).text = "whole" /\ WholeReply(x).by = x
  BY DEF WholeReply, Reply
<1>2. \A x : WholeReply(x) = WholeReply(s) => x = s
  <2> TAKE x
  <2> QED BY <1>1
<1>3. \A m \in WholeOf(T) : \E x \in T : m = WholeReply(x)
  BY DEF WholeOf
<1>4. s \in T => WholeReply(s) \in WholeOf(T)
  BY DEF WholeOf
<1> QED BY <1>1, <1>2, <1>3, <1>4

LEMMA CompleteIs == \A ms : Complete(ms) = Filter(ms, WholeOf(Told))
BY DEF Complete, WholeOf, WholeReply

LEMMA FrontShape ==
  ASSUME NEW A, NEW ms \in Seq(A), NEW k \in 0 .. Len(ms)
  PROVE  /\ SubSeq(ms, 1, k) \in Seq(A) /\ Len(SubSeq(ms, 1, k)) = k
         /\ \A i \in 1 .. k : SubSeq(ms, 1, k)[i] = ms[i]
<1>1. \A i \in 1 .. k : i \in 1 .. Len(ms) /\ ms[i] \in A
  OBVIOUS
<1> QED BY <1>1

\* An answer that was completed and is the last of some messages comes last of theirs.
LEMMA CompleteGains ==
  ASSUME NEW ms \in Seq(Msgs), NEW T, NEW s, s \notin T, EndsWith(ms, WholeReply(s))
  PROVE  Filter(ms, WholeOf(T \cup {s})) = Append(Filter(ms, WholeOf(T)), WholeReply(s))
<1> DEFINE n == Len(ms)
           m == WholeReply(s)
           front == SubSeq(ms, 1, n - 1)
<1>1. n \in Nat /\ n > 0 /\ ms[n] = m /\ \A i \in 1 .. n - 1 : ms[i] # m
  BY DEF EndsWith, Last
<1>2. m \in Msgs
  BY <1>1
<1>3. front \in Seq(Msgs) /\ Len(front) = n - 1 /\ \A i \in 1 .. n - 1 : front[i] = ms[i]
  <2>1. n - 1 \in 0 .. Len(ms) /\ n - 1 \in 0 .. n
    BY <1>1
  <2> QED BY <2>1, FrontShape
<1>4. ms = Append(front, m)
  BY <1>1, <1>2, <1>3
<1>5. m \in WholeOf(T \cup {s}) /\ m \notin WholeOf(T)
  BY WholeOfIs
<1>6. \A x : x # m => (x \in WholeOf(T) <=> x \in WholeOf(T \cup {s}))
  BY DEF WholeOf
<1> HIDE DEF n, m, front
<1>7. Filter(front, WholeOf(T \cup {s})) = Filter(front, WholeOf(T))
  <2> DEFINE A == WholeOf(T \cup {s})
             B == WholeOf(T)
  <2>1. \A i \in 1 .. Len(front) : front[i] # m
    BY <1>1, <1>3
  <2>2. Len(front) \in Nat
    BY <1>3
  <2>3. \A i \in 1 .. Len(front) : front[i] \in A <=> front[i] \in B
    BY <2>1, <1>6
  <2> HIDE DEF A, B
  <2>4. Filter(front, A) = Filter(front, B)
    BY <2>2, <2>3, FilterSame
  <2> QED BY <2>4 DEF A, B
<1>8. /\ Filter(Append(front, m), WholeOf(T \cup {s})) = Append(Filter(front, WholeOf(T \cup {s})), m)
      /\ Filter(Append(front, m), WholeOf(T)) = Filter(front, WholeOf(T))
  <2> DEFINE A == WholeOf(T \cup {s})
             B == WholeOf(T)
  <2>1. m \in A /\ m \notin B
    BY <1>5
  <2> HIDE DEF A, B
  <2>2. /\ Filter(Append(front, m), A) = Append(Filter(front, A), m)
        /\ Filter(Append(front, m), B) = Filter(front, B)
    BY <1>2, <1>3, <2>1, FilterAppend
  <2> QED BY <2>2 DEF A, B
<1> QED BY <1>4, <1>7, <1>8 DEF m

LEMMA CompleteSkips ==
  ASSUME NEW ms \in Seq(Msgs), NEW m \in Msgs, NEW A, m \notin A
  PROVE  Filter(Append(ms, m), A) = Filter(ms, A)
BY FilterAppend

-----------------------------------------------------------------------------
(* ChatPage: calm *)

ShowsAll == Complete(shown) = IF url = NoConv THEN << >> ELSE Complete(thread[url])
\* A quiet opening.
Opening ==
  /\ Len(loads) = 1 /\ loads[1].of = url /\ UnderWay = {}
  /\ loads[1].got # "nothing" => loads[1].rows = thread[url]
\* The one message under way: the last on the page is its answer, as far as it came.
Awaited(s) ==
  /\ UnderWay = {s} /\ busy /\ send[s].visit = visit /\ send[s].from = url
  /\ send[s].index = Len(shown) /\ Len(shown) > 0
AnswerShown(s) ==
  /\ Last(shown) = Reply(s, Last(shown).text)
  /\ \A i \in 1 .. Len(shown) - 1 : shown[i] # WholeReply(s)
  /\ send[s].pc \in {"heard", "kept"} => Last(shown) = WholeReply(s)
AnswerStored(s) ==
  url # NoConv =>
    /\ send[s].pc \in {"taken", "answered", "heard", "kept"} => send[s].conv = url
    /\ send[s].pc = "kept" => EndsWith(thread[url], WholeReply(s))

ChatCalm ==
  here /\ ~strayed =>
    /\ convId = url
    /\ loads # << >> => Opening
    /\ loads = << >> => ShowsAll /\ \A s \in UnderWay : Awaited(s) /\ AnswerShown(s) /\ AnswerStored(s)

LEMMA ChatCalmInit == ChatPageInit => ChatCalm
<1> SUFFICES ASSUME ChatPageInit PROVE ChatCalm
  OBVIOUS
<1>1. UnderWay = {}
  BY DEF ChatPageInit, UnderWay, Unsent
<1>2. ShowsAll
  BY CompleteIs, FilterEmpty DEF ChatPageInit, ShowsAll
<1> QED BY <1>1, <1>2 DEF ChatPageInit, ChatCalm

LEMMA OpenedCalm ==
  ASSUME ChatTypes, NEW c \in Convs, Enter(c), loads = << >>, UnderWay' = {}
  PROVE  ChatCalm'
<1> DEFINE l == Load(c)
<1>1. l.of = c /\ l.got = "nothing"
  BY DEF Load
<1>2. loads' = Append(<< >>, l) /\ url' = c /\ convId' = c
  BY DEF Enter
<1> HIDE DEF l
<1>3. Len(loads') = 1 /\ loads'[1] = l /\ loads' # << >>
  BY <1>2
<1>4. Opening'
  BY <1>1, <1>2, <1>3 DEF Opening
<1> QED BY <1>2, <1>3, <1>4 DEF ChatCalm

LEMMA EmptiedCalm ==
  ASSUME url' = NoConv, convId' = NoConv, shown' = << >>, loads' = << >>, UnderWay' = {}
  PROVE  ChatCalm'
<1>1. Complete(shown)' = << >>
  BY FilterEmpty DEF Complete
<1>2. ShowsAll'
  BY <1>1 DEF ShowsAll
<1> QED BY <1>2 DEF ChatCalm

LEMMA ChatCalmMove ==
  ASSUME ChatTypes, ChatPast, ChatCalm, NEW c,
         OpenConv(c) \/ DeleteConv(c) \/ NewSession \/ ChatTab \/ LeavePage \/ ArrivePage
  PROVE  ChatCalm'
<1>0. \A d \in {url, convId, lastOpen} : d \in Addresses
  BY DEF ChatTypes
<1>9. OpenConv(c) \/ DeleteConv(c) => c \in Convs
  BY DEF OpenConv, DeleteConv, ChatTypes
<1>1. UnderWay' = UnderWay
  BY DEF OpenConv, DeleteConv, NewSession, ChatTab, LeavePage, ArrivePage, UnderWay
<1>2. CASE DeleteConv(c)
  <2>1. UNCHANGED <<threadVars, send, pageVars>>
    BY <1>2 DEF DeleteConv
  <2>2. ShowsAll' = ShowsAll /\ Opening' = Opening
    BY <2>1, <1>1 DEF ShowsAll, Opening, Complete, Told, threadVars, pageVars
  <2>3. \A s : /\ Awaited(s)' = Awaited(s) /\ AnswerShown(s)' = AnswerShown(s)
               /\ AnswerStored(s)' = AnswerStored(s)
    BY <2>1, <1>1 DEF Awaited, AnswerShown, AnswerStored, threadVars, pageVars
  <2> QED BY <1>1, <2>1, <2>2, <2>3 DEF ChatCalm, pageVars
<1>3. CASE Astray /\ ~strayed' /\ ~DeleteConv(c) /\ ~LeavePage
  <2>1. UnderWay = {} /\ loads = << >>
    BY <1>3 DEF Astray
  <2>2. CASE OpenConv(c)
    BY <2>1, <2>2, <1>1, <1>9, OpenedCalm DEF OpenConv
  <2>3. CASE NewSession
    BY <2>1, <2>3, <1>1, EmptiedCalm DEF NewSession, Empty
  <2>4. CASE ChatTab
    BY <2>1, <2>4, <1>1, <1>0, OpenedCalm DEF ChatTab, Addresses
  <2>5. CASE ArrivePage /\ lastOpen # NoConv
    BY <2>1, <2>5, <1>1, <1>0, OpenedCalm DEF ArrivePage, Addresses
  <2>6. CASE ArrivePage /\ lastOpen = NoConv
    <3>1. UNCHANGED <<url, convId, loads, shown>>
      BY <2>6 DEF ArrivePage
    <3>2. url = NoConv /\ convId = NoConv /\ shown = << >> /\ loads = << >>
      BY <2>6 DEF ArrivePage, ChatPast
    <3> QED BY <1>1, <2>1, <3>1, <3>2, EmptiedCalm
  <2> QED BY <1>3, <2>2, <2>3, <2>4, <2>5, <2>6
<1>4. CASE LeavePage
  BY <1>4 DEF LeavePage, ChatCalm
<1>5. CASE strayed'
  BY <1>5 DEF ChatCalm
<1>6. Astray \/ DeleteConv(c) \/ LeavePage
  BY DEF OpenConv, NewSession, ChatTab, ArrivePage
<1> QED BY <1>2, <1>3, <1>4, <1>5, <1>6

LEMMA ChatCalmLoad ==
  ASSUME ChatTypes, ChatPast, ChatCalm, NEW i \in Nat, LoadRead(i) \/ LoadReturns(i)
  PROVE  ChatCalm'
<1> SUFFICES ASSUME here', ~strayed' PROVE ChatCalm'
  BY DEF ChatCalm
<1>0. loads \in Seq(LoadStates) /\ i \in 1 .. Len(loads) /\ here /\ ~strayed
  <2>1. i \in 1 .. Len(loads) /\ here' = here /\ strayed' = strayed
    BY DEF LoadRead, LoadReturns
  <2> QED BY <2>1 DEF ChatTypes
<1>1. loads # << >> /\ convId = url /\ Opening
  BY <1>0 DEF ChatCalm
<1>2. Len(loads) = 1 /\ i = 1 /\ loads[1].of = url /\ UnderWay = {} /\ loads[1] \in LoadStates
  BY <1>0, <1>1 DEF Opening
<1>3. url \in Convs /\ url # NoConv
  BY <1>2, ChatPageAssumption DEF LoadStates, ChatPageAssumption
<1>4. UnderWay' = UnderWay /\ url' = url /\ convId' = convId /\ thread' = thread
  BY DEF LoadRead, LoadReturns, UnderWay, threadVars
<1>5. CASE LoadRead(i)
  <2> DEFINE l == IF loads[i].of \in stored THEN [of |-> loads[i].of, got |-> "rows", rows |-> thread[loads[i].of]]
                  ELSE [of |-> loads[i].of, got |-> "gone", rows |-> << >>]
  <2>1. l.of = url /\ l.rows = thread[url]
    BY <1>2, <1>3 DEF ChatPast
  <2>2. loads' = [loads EXCEPT ![i] = l]
    BY <1>5 DEF LoadRead
  <2> HIDE DEF l
  <2>3. Len(loads') = 1 /\ loads'[1] = l /\ loads' # << >>
    <3>1. loads' = [loads EXCEPT ![1] = l] /\ loads \in Seq(LoadStates) /\ Len(loads) = 1
      BY <1>0, <1>2, <2>2
    <3>2. Len(loads') = 1 /\ loads'[1] = l
      BY <3>1
    <3> QED BY <3>2
  <2>4. Opening'
    BY <1>2, <1>4, <2>1, <2>3 DEF Opening
  <2> QED BY <1>1, <1>4, <2>3, <2>4 DEF ChatCalm
<1>6. CASE LoadReturns(i)
  <2>1. loads' = RemoveAt(loads, i) /\ shown' = thread[url]
    BY <1>1, <1>2, <1>6 DEF LoadReturns, Opening
  <2>2. loads' = << >>
    <3>1. SubSeq(loads, 1, 0) = << >> /\ SubSeq(loads, 2, 1) = << >>
      BY <1>0
    <3>2. loads' = SubSeq(loads, 1, 1 - 1) \o SubSeq(loads, 1 + 1, 1)
      BY <1>2, <2>1 DEF RemoveAt
    <3>3. loads' = << >> \o << >>
      BY <3>1, <3>2
    <3> QED BY <3>3
  <2>3. ShowsAll'
    BY <1>3, <1>4, <2>1 DEF ShowsAll
  <2> QED BY <1>1, <1>2, <1>4, <2>2, <2>3 DEF ChatCalm
<1> QED BY <1>5, <1>6
LEMMA AwaitedNow ==
  ASSUME ChatTypes, ChatCalm, here, ~strayed, NEW s \in UnderWay
  PROVE  /\ loads = << >> /\ convId = url /\ ShowsAll /\ Awaited(s) /\ AnswerShown(s) /\ AnswerStored(s)
         /\ UnderWay = {s} /\ Hears(s) /\ Reaches(s) /\ s \notin Told
         /\ Len(shown) \in Nat /\ Len(shown) > 0 /\ send[s].index = Len(shown)
<1>1. loads = << >>
  BY DEF ChatCalm, Opening
<1>2. convId = url /\ ShowsAll /\ Awaited(s) /\ AnswerShown(s) /\ AnswerStored(s)
  BY <1>1 DEF ChatCalm
<1>3. Len(shown) \in Nat
  BY DEF ChatTypes
<1>4. s \notin Told
  BY DEF UnderWay, Told
<1> HIDE DEF ChatTypes
<1> QED BY <1>1, <1>2, <1>3, <1>4 DEF Awaited, Hears, Reaches

\* One message moved on: the others are as they were.
LEMMA OthersStay ==
  ASSUME NEW s \in Sends, \A x \in Sends \ {s} : send'[x] = send[x]
  PROVE  /\ s \notin Told /\ s \notin Told' => Told' = Told
         /\ s \notin Told /\ s \in Told' => Told' = Told \cup {s}
         /\ UnderWay \subseteq {s} /\ s \in UnderWay' => UnderWay' = {s}
         /\ UnderWay \subseteq {s} /\ s \notin UnderWay' => UnderWay' = {}
BY DEF Told, UnderWay

LEMMA ShowsStay ==
  ASSUME Told' = Told, url' = url, ShowsAll,
         Filter(shown', WholeOf(Told)) = Filter(shown, WholeOf(Told)),
         url # NoConv => Filter(thread'[url], WholeOf(Told)) = Filter(thread[url], WholeOf(Told))
  PROVE  ShowsAll'
<1>1. /\ Complete(shown)' = Filter(shown', WholeOf(Told))
      /\ Complete(thread[url])' = Filter(thread'[url], WholeOf(Told))
  BY DEF Complete, WholeOf, WholeReply
<1> QED BY <1>1, CompleteIs DEF ShowsAll

LEMMA TwoMore ==
  ASSUME NEW A, NEW ms \in Seq(A), NEW q \in A, NEW r \in A, NEW two, two = ms \o <<q, r>>
  PROVE  /\ two = Append(Append(ms, q), r) /\ Append(ms, q) \in Seq(A)
         /\ Len(two) = Len(ms) + 2 /\ two[Len(ms) + 2] = r /\ two[Len(ms) + 1] = q
         /\ \A i \in 1 .. Len(ms) : two[i] = ms[i]
<1>1. /\ Append(ms, q) \in Seq(A) /\ Len(Append(ms, q)) = Len(ms) + 1 /\ Append(ms, q)[Len(ms) + 1] = q
      /\ \A i \in 1 .. Len(ms) : Append(ms, q)[i] = ms[i]
  OBVIOUS
<1>2. two = Append(Append(ms, q), r)
  OBVIOUS
<1>3. Len(ms) \in Nat /\ \A i \in 1 .. Len(ms) : i \in 1 .. Len(ms) + 1
  OBVIOUS
<1>4. two \in Seq(A) /\ Len(two) = Len(Append(ms, q)) + 1 /\ two[Len(Append(ms, q)) + 1] = r
      /\ \A i \in 1 .. Len(Append(ms, q)) : two[i] = Append(ms, q)[i]
  BY <1>1, <1>2
<1>5. /\ Len(two) = Len(ms) + 2 /\ two[Len(ms) + 2] = r /\ two[Len(ms) + 1] = q
      /\ \A i \in 1 .. Len(ms) : two[i] = ms[i]
  <2> DEFINE k == Len(ms)
             one == Append(ms, q)
  <2> HIDE DEF one
  <2>1. k \in Nat /\ (k + 1) + 1 = k + 2 /\ k + 1 \in 1 .. k + 1
    BY <1>3
  <2>2. Len(one) = k + 1 /\ one[k + 1] = q /\ \A i \in 1 .. k : one[i] = ms[i]
    BY <1>1 DEF one
  <2>3. Len(two) = Len(one) + 1 /\ two[Len(one) + 1] = r /\ \A i \in 1 .. Len(one) : two[i] = one[i]
    BY <1>4 DEF one
  <2>4. \A i \in 1 .. k : i \in 1 .. k + 1
    BY <1>3
  <2> HIDE DEF k
  <2>5. /\ Len(two) = k + 2 /\ two[k + 2] = r /\ two[k + 1] = q
        /\ \A i \in 1 .. k : two[i] = ms[i]
    BY <2>1, <2>2, <2>3, <2>4
  <2> QED BY <2>5 DEF k
<1> QED BY <1>1, <1>2, <1>5

LEMMA ChatCalmSend ==
  ASSUME ChatTypes, ChatPast, ChatCalm, NEW s \in Sends, NEW kind \in {"chat", "agent"}, SendMessage(s, kind)
  PROVE  ChatCalm'
<1> SUFFICES ASSUME here', ~strayed' PROVE ChatCalm'
  BY DEF ChatCalm
<1>1. here /\ ~strayed /\ loads = << >> /\ loads' = << >> /\ ~busy /\ busy' /\ send[s].pc = "new"
  BY DEF SendMessage
<1>2. convId = url /\ ShowsAll
  BY <1>1 DEF ChatCalm
<1>3. UnderWay = {}
  BY <1>1, AwaitedNow DEF Awaited
<1> DEFINE q == Question(s)
           r == Reply(s, "")
           n == AnswerIndex(shown)
           new == [pc |-> "asked", kind |-> kind, from |-> convId, conv |-> NoConv, index |-> n, visit |-> visit]
<1>4. send'[s] = new /\ \A x \in Sends \ {s} : send'[x] = send[x]
  <2> HIDE DEF n
  <2> QED BY DEF SendMessage, ChatTypes, n
<1>5. new.pc = "asked" /\ new.from = convId /\ new.conv = NoConv /\ new.index = n /\ new.visit = visit
  OBVIOUS
<1> HIDE DEF new
<1>6. Told' = Told /\ UnderWay' = {s}
  <2>1. s \notin Told /\ s \notin Told' /\ s \in UnderWay'
    BY <1>1, <1>4, <1>5 DEF Told, UnderWay
  <2> QED BY <1>3, <1>4, <2>1, OthersStay
<1>7. q \in Msgs /\ r \in Msgs /\ q.role = "user" /\ q.by = s /\ r.by = s /\ r.text = "" /\ r = Reply(s, r.text)
  BY DEF Question, Reply, Msgs
<1>8. q \notin WholeOf(Told) /\ r \notin WholeOf(Told) /\ q # WholeReply(s) /\ r # WholeReply(s)
  <2>1. WholeReply(s).role = "assistant" /\ WholeReply(s).text = "whole" /\ WholeReply(s).by = s
    BY DEF WholeReply, Reply
  <2> QED BY <1>7, <2>1, WholeOfIs
<1>9. shown' = shown \o <<q, r>> /\ shown \in Seq(Msgs)
  BY DEF SendMessage, ChatTypes
<1> DEFINE k == Len(shown)
<1>10. k \in Nat /\ n = k + 2
  <2>1. k \in Nat
    BY DEF ChatTypes
  <2> QED BY <2>1 DEF AnswerIndex
<1> HIDE DEF q, r, n
<1>11. /\ shown' = Append(Append(shown, q), r) /\ Append(shown, q) \in Seq(Msgs)
       /\ Len(shown') = k + 2 /\ shown'[k + 2] = r /\ shown'[k + 1] = q
       /\ \A i \in 1 .. k : shown'[i] = shown[i]
  <2>1. q \in Msgs /\ r \in Msgs
    BY <1>7
  <2>2. shown' = shown \o <<q, r>> /\ shown \in Seq(Msgs)
    BY <1>9
  <2> QED BY ONLY <2>1, <2>2, TwoMore
<1>13. Filter(shown', WholeOf(Told)) = Filter(shown, WholeOf(Told))
  <2>1. Filter(Append(shown, q), WholeOf(Told)) = Filter(shown, WholeOf(Told))
    BY <1>7, <1>8, <1>9, CompleteSkips
  <2> QED BY <1>7, <1>8, <1>11, <2>1, CompleteSkips
<1>14. UNCHANGED <<thread, url, convId, visit>>
  BY DEF SendMessage, threadVars
<1>15. ShowsAll'
  BY <1>2, <1>6, <1>13, <1>14, ShowsStay
<1> HIDE DEF k
<1>16. \A i \in 1 .. k : shown[i] # WholeReply(s)
  <2>1. \A i \in 1 .. k : shown[i].by # s
    BY <1>1 DEF ChatPast, SentBefore, k
  <2>2. WholeReply(s).by = s
    BY DEF WholeReply, Reply
  <2> QED BY <2>1, <2>2
<1>17. \A i \in 1 .. (k + 2) - 1 : shown'[i] # WholeReply(s)
  <2>1. \A i \in 1 .. (k + 2) - 1 : i \in 1 .. k \/ i = k + 1
    BY <1>10
  <2> QED BY <1>8, <1>11, <1>16, <2>1
<1>18. k + 2 > 0
  BY <1>10
<1>19. Awaited(s)'
  BY <1>1, <1>2, <1>4, <1>5, <1>6, <1>10, <1>11, <1>14, <1>18 DEF Awaited
<1>20. AnswerShown(s)'
  BY <1>4, <1>5, <1>7, <1>11, <1>17 DEF AnswerShown, Last
<1>21. AnswerStored(s)'
  BY <1>4, <1>5 DEF AnswerStored
<1> QED BY <1>1, <1>2, <1>6, <1>14, <1>15, <1>19, <1>20, <1>21 DEF ChatCalm

LEMMA ChatCalmTake ==
  ASSUME ChatTypes, ChatPast, ChatCalm, NEW s \in Sends, TakeMessage(s)
  PROVE  ChatCalm'
<1> SUFFICES ASSUME here', ~strayed' PROVE ChatCalm'
  BY DEF ChatCalm
<1>1. here /\ ~strayed /\ UNCHANGED <<url, convId, visit, shown, busy, loads>>
  BY DEF TakeMessage, pageVars
<1>2. s \in UnderWay
  BY DEF TakeMessage, UnderWay
<1>3. /\ thread' = thread /\ \A x \in Sends \ {s} : send'[x] = send[x]
      /\ send'[s].pc \in {"taken", "failed"}
      /\ send'[s].from = send[s].from /\ send'[s].index = send[s].index /\ send'[s].visit = send[s].visit
      /\ send'[s].pc = "taken" => send'[s].conv = send[s].from \/ send[s].from = NoConv
  BY TakeShape DEF threadVars
<1>4. Told' = Told /\ UnderWay' = {s}
  <2>1. s \notin Told' /\ s \in UnderWay'
    BY <1>3 DEF Told, UnderWay
  <2> QED BY <1>1, <1>2, <1>3, <2>1, AwaitedNow, OthersStay
<1>5. ShowsAll'
  BY <1>1, <1>2, <1>3, <1>4, AwaitedNow, ShowsStay
<1>6. Awaited(s)'
  BY <1>1, <1>2, <1>3, <1>4, AwaitedNow DEF Awaited
<1>7. AnswerShown(s)'
  <2>1. AnswerShown(s)
    BY <1>1, <1>2, AwaitedNow
  <2> QED BY <1>1, <1>3, <2>1 DEF AnswerShown
<1>8. AnswerStored(s)'
  <2>1. send[s].from = url
    BY <1>1, <1>2, AwaitedNow DEF Awaited
  <2> QED BY <1>1, <1>3, <2>1 DEF AnswerStored
<1> QED BY <1>1, <1>2, <1>4, <1>5, <1>6, <1>7, <1>8, AwaitedNow DEF ChatCalm

LEMMA ChatCalmFails ==
  ASSUME ChatTypes, ChatPast, ChatCalm, NEW s \in Sends, TurnFails(s)
  PROVE  ChatCalm'
<1> SUFFICES ASSUME here', ~strayed' PROVE ChatCalm'
  BY DEF ChatCalm
<1>1. here /\ ~strayed /\ UNCHANGED <<url, convId, visit, shown, busy, loads, thread>> /\ s \in UnderWay
  BY DEF TurnFails, pageVars, threadVars, UnderWay
<1>2. /\ \A x \in Sends \ {s} : send'[x] = send[x]
      /\ send'[s].pc = "failed"
      /\ send'[s].from = send[s].from /\ send'[s].index = send[s].index /\ send'[s].visit = send[s].visit
  <2>1. SendTo(s, "failed") /\ send[s] \in SendStates
    BY DEF TurnFails, ChatTypes
  <2>2. send'[s] = [send[s] EXCEPT !.pc = "failed"] /\ \A x \in Sends \ {s} : send'[x] = send[x]
    BY <2>1, SendToShape
  <2> QED BY <2>1, <2>2 DEF SendStates
<1>4. Told' = Told /\ UnderWay' = {s}
  <2>1. s \notin Told' /\ s \in UnderWay'
    BY <1>2 DEF Told, UnderWay
  <2> QED BY <1>1, <1>2, <2>1, AwaitedNow, OthersStay
<1>5. ShowsAll'
  BY <1>1, <1>2, <1>4, AwaitedNow, ShowsStay
<1>6. Awaited(s)'
  BY <1>1, <1>2, <1>4, AwaitedNow DEF Awaited
<1>7. AnswerShown(s)'
  <2>1. AnswerShown(s)
    BY <1>1, AwaitedNow
  <2> QED BY <1>1, <1>2, <2>1 DEF AnswerShown
<1>8. AnswerStored(s)'
  BY <1>2 DEF AnswerStored
<1> QED BY <1>1, <1>4, <1>5, <1>6, <1>7, <1>8, AwaitedNow DEF ChatCalm
LEMMA ChatCalmStore ==
  ASSUME ChatTypes, ChatPast, ChatCalm, NEW s \in Sends, StoreQuestion(s) \/ StoreAnswer(s)
  PROVE  ChatCalm'
<1> SUFFICES ASSUME here', ~strayed' PROVE ChatCalm'
  BY DEF ChatCalm
<1>1. here /\ ~strayed /\ UNCHANGED <<url, convId, visit, shown, busy, loads>>
  <2>1. CASE StoreQuestion(s)
    BY <2>1 DEF StoreQuestion, pageVars
  <2>2. CASE StoreAnswer(s)
    BY <2>2 DEF StoreAnswer, pageVars
  <2> QED BY <2>1, <2>2
<1>2. s \in UnderWay /\ send[s].pc \in {"taken", "heard"} /\ send[s].conv \in Convs
  BY DEF StoreQuestion, StoreAnswer, UnderWay, ChatTypes
<1>3. /\ loads = << >> /\ convId = url /\ ShowsAll /\ Awaited(s) /\ AnswerShown(s) /\ AnswerStored(s)
      /\ UnderWay = {s} /\ s \notin Told
  BY <1>1, <1>2, AwaitedNow
<1>4. PICK pc \in {"answered", "kept"} : SendTo(s, pc) /\ (pc = "answered" => StoreQuestion(s)) /\ (pc = "kept" => StoreAnswer(s))
  BY DEF StoreQuestion, StoreAnswer
<1> DEFINE m == IF pc = "kept" THEN WholeReply(s) ELSE Question(s)
<1>5. /\ send'[s].pc = pc /\ send'[s].from = send[s].from /\ send'[s].conv = send[s].conv
      /\ send'[s].index = send[s].index /\ send'[s].visit = send[s].visit
      /\ \A x \in Sends \ {s} : send'[x] = send[x]
  BY <1>4, SendToFields
<1>6. Keep(s, m) /\ m \in Msgs /\ m \notin WholeOf(Told)
  <2>1. CASE pc = "kept"
    <3>1. WholeReply(s) \in Msgs
      BY DEF WholeReply, Reply, Msgs
    <3> QED BY <1>3, <1>4, <2>1, <3>1, WholeOfIs DEF StoreAnswer, WholeReply
  <2>2. CASE pc = "answered"
    <3>1. Question(s) \in Msgs /\ Question(s).role = "user"
      BY DEF Question, Msgs
    <3> QED BY <1>4, <2>2, <3>1, WholeOfIs DEF StoreQuestion
  <2> QED BY <2>1, <2>2
<1>7. Told' = Told /\ UnderWay' = {s}
  <2>1. s \notin Told' /\ s \in UnderWay'
    BY <1>5 DEF Told, UnderWay
  <2> QED BY <1>3, <1>5, <2>1, OthersStay
<1>8. pc = "kept" => m = WholeReply(s)
  OBVIOUS
<1> HIDE DEF m
<1>9. url # NoConv => /\ thread[url] \in Seq(Msgs) /\ thread'[url] = Append(thread[url], m)
                      /\ send[s].conv = url
  <2>1. send[s].pc \in {"taken", "heard"} /\ (url # NoConv => send[s].conv = url)
    BY <1>2, <1>3 DEF AnswerStored
  <2> QED BY <1>2, <1>6, <2>1, KeepType DEF ChatTypes
<1>10. url # NoConv => Filter(thread'[url], WholeOf(Told)) = Filter(thread[url], WholeOf(Told))
  BY <1>6, <1>9, CompleteSkips
<1>11. ShowsAll'
  BY <1>1, <1>3, <1>7, <1>10, ShowsStay
<1>12. Awaited(s)'
  BY <1>1, <1>3, <1>5, <1>7 DEF Awaited
<1>13. AnswerShown(s)'
  <2>1. pc = "kept" => send[s].pc = "heard"
    BY <1>4 DEF StoreAnswer
  <2> QED BY <1>1, <1>3, <1>5, <2>1 DEF AnswerShown
<1>14. ASSUME url # NoConv, pc = "kept" PROVE EndsWith(thread'[url], WholeReply(s))
  <2> DEFINE old == thread[url]
             k == Len(old)
  <2>1. m = WholeReply(s) /\ old \in Seq(Msgs) /\ thread'[url] = Append(old, m)
    BY <1>8, <1>9, <1>14
  <2>2. \A i \in 1 .. k : old[i] # m
    <3>1. NotKept(send[s]) /\ url \in Convs
      BY <1>2, <1>4, <1>9, <1>14 DEF NotKept, StoreAnswer
    <3> QED BY <2>1, <3>1 DEF ChatPast, Lacks
  <2>3. /\ k \in Nat /\ Len(thread'[url]) = k + 1 /\ thread'[url][k + 1] = m
        /\ \A i \in 1 .. k : thread'[url][i] = old[i]
    BY <2>1, <1>6
  <2> HIDE DEF k
  <2>4. k + 1 > 0 /\ (k + 1) - 1 = k
    BY <2>3
  <2> QED BY <2>1, <2>2, <2>3, <2>4 DEF EndsWith, Last
<1>15. AnswerStored(s)'
  BY <1>1, <1>5, <1>9, <1>14 DEF AnswerStored
<1> QED BY <1>1, <1>3, <1>7, <1>11, <1>12, <1>13, <1>15 DEF ChatCalm

\* What comes of the answer awaited goes into the last message shown, and into no other.
LEMMA PatchedLast ==
  ASSUME ChatTypes, ChatCalm, here, ~strayed, NEW s \in UnderWay, NEW text \in {"whole", "error", "agent"}
  PROVE  LET p == Patched(s, text)
         IN  /\ Len(p) = Len(shown) /\ Last(p) = Reply(s, text)
             /\ \A i \in 1 .. Len(shown) - 1 : p[i] = shown[i]
             /\ Filter(p, WholeOf(Told)) = Filter(shown, WholeOf(Told))
<1> DEFINE n == Len(shown)
           p == Patched(s, text)
<1>0. s \in Sends
  BY DEF UnderWay
<1>1. /\ n \in Nat /\ n > 0 /\ send[s].index = n /\ Reaches(s) /\ s \notin Told /\ AnswerShown(s)
  BY AwaitedNow
<1>2. /\ Len(p) = n
      /\ \A i \in 1 .. n : p[i] = IF Reaches(s) /\ i = n THEN [shown[i] EXCEPT !.text = text] ELSE shown[i]
  BY <1>0, <1>1, PatchedShape
<1>3. shown[n] = Reply(s, shown[n].text)
  BY <1>1 DEF AnswerShown, Last
<1> HIDE DEF n, p
<1>4. n \in 1 .. n /\ \A i \in 1 .. n - 1 : i \in 1 .. n /\ i # n
  BY <1>1
<1>5. \A i \in 1 .. n - 1 : p[i] = shown[i]
  BY <1>2, <1>4
<1>6. p[n] = Reply(s, text)
  <2>1. p[n] = [shown[n] EXCEPT !.text = text]
    BY <1>1, <1>2, <1>4
  <2>2. \A t : [Reply(s, t) EXCEPT !.text = text] = Reply(s, text)
    BY DEF Reply
  <2> QED BY <1>3, <2>1, <2>2
<1>7. p[n] \notin WholeOf(Told) /\ shown[n] \notin WholeOf(Told)
  <2>1. \A t : Reply(s, t).by = s
    BY DEF Reply
  <2> QED BY <1>1, <1>3, <1>6, <2>1, WholeOfIs
<1>8. Filter(p, WholeOf(Told)) = Filter(shown, WholeOf(Told))
  <2> DEFINE A == WholeOf(Told)
  <2>1. p[n] \notin A /\ shown[n] \notin A
    BY <1>7
  <2> HIDE DEF A
  <2>2. \A i \in 1 .. n : i \in 1 .. n - 1 \/ i = n
    BY <1>1
  <2>3. \A i \in 1 .. Len(shown) : (p[i] \in A <=> shown[i] \in A) /\ (p[i] \in A => p[i] = shown[i])
    BY <1>5, <2>1, <2>2 DEF n
  <2>4. Len(shown) \in Nat /\ Len(p) = Len(shown)
    BY <1>1, <1>2 DEF n
  <2>5. Filter(p, A) = Filter(shown, A)
    BY <2>3, <2>4, FilterSame
  <2> QED BY <2>5 DEF A
<1> QED BY <1>2, <1>5, <1>6, <1>8 DEF n, p, Last

LEMMA ChatCalmHear ==
  ASSUME ChatTypes, ChatPast, ChatCalm, NEW s \in Sends, HearAnswer(s)
  PROVE  ChatCalm'
<1> SUFFICES ASSUME here', ~strayed' PROVE ChatCalm'
  BY DEF ChatCalm
<1>1. here /\ ~strayed /\ UNCHANGED <<url, convId, visit, busy, loads, thread>>
  BY DEF HearAnswer, threadVars
<1>2. s \in UnderWay /\ send[s].pc = "answered" /\ SendTo(s, "heard")
  BY DEF HearAnswer, UnderWay
<1>3. /\ loads = << >> /\ convId = url /\ ShowsAll /\ Awaited(s) /\ AnswerShown(s) /\ AnswerStored(s)
      /\ UnderWay = {s} /\ s \notin Told
  BY <1>1, <1>2, AwaitedNow
<1>4. /\ send'[s].pc = "heard" /\ send'[s].from = send[s].from /\ send'[s].conv = send[s].conv
      /\ send'[s].index = send[s].index /\ send'[s].visit = send[s].visit
      /\ \A x \in Sends \ {s} : send'[x] = send[x]
  BY <1>2, SendToFields
<1>5. Told' = Told /\ UnderWay' = {s}
  <2>1. s \notin Told' /\ s \in UnderWay'
    BY <1>4 DEF Told, UnderWay
  <2> QED BY <1>3, <1>4, <2>1, OthersStay
<1>6. /\ Len(shown') = Len(shown) /\ Last(shown') = Reply(s, "whole")
      /\ \A i \in 1 .. Len(shown) - 1 : shown'[i] = shown[i]
      /\ Filter(shown', WholeOf(Told)) = Filter(shown, WholeOf(Told))
  <2>1. shown' = Patched(s, "whole")
    BY DEF HearAnswer
  <2> QED BY <1>1, <1>2, <2>1, PatchedLast
<1>7. ShowsAll'
  BY <1>1, <1>3, <1>5, <1>6, ShowsStay
<1>8. Awaited(s)'
  BY <1>1, <1>3, <1>4, <1>5, <1>6 DEF Awaited
<1>9. AnswerShown(s)'
  <2>1. Last(shown)' = Last(shown')
    BY DEF Last
  <2>2. Reply(s, "whole").text = "whole"
    BY DEF Reply
  <2>3. \A i \in 1 .. Len(shown) - 1 : shown[i] # WholeReply(s)
    BY <1>3 DEF AnswerShown
  <2> QED BY <1>6, <2>1, <2>2, <2>3 DEF AnswerShown, WholeReply
<1>10. AnswerStored(s)'
  BY <1>1, <1>2, <1>3, <1>4 DEF AnswerStored
<1> QED BY <1>1, <1>3, <1>5, <1>7, <1>8, <1>9, <1>10 DEF ChatCalm

LEMMA ChatCalmError ==
  ASSUME ChatTypes, ChatPast, ChatCalm, NEW s \in Sends, HearError(s) \/ AgentAnswers(s)
  PROVE  ChatCalm'
<1> SUFFICES ASSUME here', ~strayed' PROVE ChatCalm'
  BY DEF ChatCalm
<1>1. here /\ ~strayed /\ UNCHANGED <<url, convId, loads, thread>> /\ s \in UnderWay
  <2>1. CASE HearError(s)
    BY <2>1 DEF HearError, threadVars, UnderWay
  <2>2. CASE AgentAnswers(s)
    BY <2>2 DEF AgentAnswers, threadVars, UnderWay
  <2> QED BY <2>1, <2>2
<1>2. /\ loads = << >> /\ convId = url /\ ShowsAll /\ UnderWay = {s} /\ s \notin Told
  BY <1>1, AwaitedNow
<1>3. /\ send'[s].pc = "over" /\ send'[s].conv = NoConv
      /\ \A x \in Sends \ {s} : send'[x] = send[x]
  <2>1. send \in [Sends -> SendStates] /\ send[s] \in SendStates
    BY DEF ChatTypes
  <2>2. CASE HearError(s)
    BY <2>1, <2>2 DEF HearError, SendStates
  <2>3. CASE AgentAnswers(s)
    <3>1. send[s].conv = NoConv /\ SendTo(s, "over")
      BY <2>3 DEF AgentAnswers, ChatTypes
    <3> QED BY <3>1, SendToFields
  <2> QED BY <2>2, <2>3
<1>4. Told' = Told /\ UnderWay' = {}
  <2>1. s \notin Told' /\ s \notin UnderWay'
    BY <1>3 DEF Told, UnderWay
  <2> QED BY <1>2, <1>3, <2>1, OthersStay
<1>5. Filter(shown', WholeOf(Told)) = Filter(shown, WholeOf(Told))
  <2>1. PICK text \in {"error", "agent"} : shown' = Patched(s, text)
    BY DEF HearError, AgentAnswers
  <2> QED BY <1>1, <2>1, PatchedLast
<1>6. ShowsAll'
  BY <1>1, <1>2, <1>4, <1>5, ShowsStay
<1> QED BY <1>1, <1>2, <1>4, <1>6 DEF ChatCalm

LEMMA ChatCalmFinal ==
  ASSUME ChatTypes, ChatPast, ChatCalm, NEW s \in Sends, HearFinal(s)
  PROVE  ChatCalm'
<1> SUFFICES ASSUME here', ~strayed' PROVE ChatCalm'
  BY DEF ChatCalm
<1>1. here /\ ~strayed /\ UNCHANGED <<shown, thread>> /\ s \in UnderWay /\ send[s].pc = "kept" /\ SendTo(s, "over")
  BY DEF HearFinal, threadVars, UnderWay
<1>2. /\ loads = << >> /\ convId = url /\ ShowsAll /\ Awaited(s) /\ AnswerShown(s) /\ AnswerStored(s)
      /\ UnderWay = {s} /\ s \notin Told /\ Reaches(s) /\ Len(shown) > 0
  BY <1>1, AwaitedNow
<1>3. /\ send'[s].pc = "over" /\ send'[s].conv = send[s].conv
      /\ \A x \in Sends \ {s} : send'[x] = send[x]
  BY <1>1, SendToFields
<1>4. send[s].conv \in Convs /\ send[s].conv # NoConv /\ send[s].from = url
  BY <1>1, <1>2, ChatPageAssumption DEF ChatTypes, ChatPageAssumption, Awaited
<1>5. Told' = Told \cup {s} /\ UnderWay' = {}
  <2>1. s \in Told' /\ s \notin UnderWay'
    BY <1>3, <1>4 DEF Told, UnderWay
  <2> QED BY <1>2, <1>3, <2>1, OthersStay
<1>6. CASE url = NoConv
  BY <1>2, <1>4, <1>5, <1>6, OpenedCalm DEF HearFinal
<1>7. CASE url # NoConv
  <2>1. UNCHANGED <<url, convId, loads>>
    BY <1>4, <1>7 DEF HearFinal
  <2>2. EndsWith(shown, WholeReply(s)) /\ EndsWith(thread[url], WholeReply(s)) /\ send[s].conv = url
    BY <1>1, <1>2, <1>7 DEF AnswerShown, AnswerStored, EndsWith
  <2>3. shown \in Seq(Msgs) /\ thread[url] \in Seq(Msgs)
    BY <1>4, <2>2 DEF ChatTypes
  <2>4. /\ Filter(shown, WholeOf(Told \cup {s})) = Append(Filter(shown, WholeOf(Told)), WholeReply(s))
        /\ Filter(thread[url], WholeOf(Told \cup {s})) = Append(Filter(thread[url], WholeOf(Told)), WholeReply(s))
    BY <1>2, <2>2, <2>3, CompleteGains
  <2>5. Filter(shown, WholeOf(Told)) = Filter(thread[url], WholeOf(Told))
    BY <1>2, <1>7, CompleteIs DEF ShowsAll
  <2>6. /\ Complete(shown)' = Filter(shown', WholeOf(Told'))
        /\ Complete(thread[url])' = Filter(thread'[url'], WholeOf(Told'))
    BY DEF Complete, WholeOf, WholeReply
  <2>7. Complete(shown)' = Complete(thread[url])'
    BY <1>1, <1>5, <2>1, <2>4, <2>5, <2>6
  <2>8. ShowsAll'
    BY <1>7, <2>1, <2>7 DEF ShowsAll
  <2> QED BY <1>2, <1>5, <2>1, <2>8 DEF ChatCalm
<1> QED BY <1>6, <1>7

LEMMA ChatCalmDeleted ==
  ASSUME ChatTypes, ChatPast, ChatCalm, NEW done \in BOOLEAN, ConvDeleted(done)
  PROVE  ChatCalm'
<1> SUFFICES ASSUME here', ~strayed' PROVE ChatCalm'
  BY DEF ChatCalm
<1>1. here /\ UNCHANGED <<send, visit, busy>> /\ UnderWay' = UnderWay
  BY DEF ConvDeleted, UnderWay
<1>2. CASE deleting.active
  <2>1. Empty /\ Astray
    BY <1>1, <1>2 DEF ConvDeleted
  <2> QED BY <1>1, <2>1, EmptiedCalm DEF Empty, Astray
<1>3. CASE ~deleting.active
  <2>1. ~strayed /\ url # deleting.of /\ UNCHANGED <<url, convId, shown, loads>>
    BY <1>3 DEF ConvDeleted
  <2>2. url # NoConv => url \in Convs
    BY DEF ChatTypes, Addresses
  <2>3. url # NoConv => thread'[url] = thread[url]
    BY <2>1, <2>2, DeletedShape
  <2>4. Told' = Told
    BY <1>1 DEF Told
  <2>5. ShowsAll => ShowsAll'
    BY <2>1, <2>3, <2>4, ShowsStay
  <2>6. Opening => Opening'
    <3> SUFFICES ASSUME Opening PROVE Opening'
      OBVIOUS
    <3>2. Len(loads) = 1 /\ loads[1].of = url
      BY DEF Opening
    <3>3. loads \in Seq(LoadStates)
      BY DEF ChatTypes
    <3>4. loads[1] \in LoadStates
      BY <3>2, <3>3
    <3>5. url \in Convs /\ url # NoConv
      BY <3>2, <3>4, ChatPageAssumption DEF LoadStates, ChatPageAssumption
    <3> QED BY <1>1, <2>1, <2>3, <3>5 DEF Opening
  <2>8. CASE loads # << >>
    <3>1. Opening /\ convId = url
      BY <1>1, <2>1, <2>8 DEF ChatCalm
    <3> QED BY <2>1, <2>6, <2>8, <3>1 DEF ChatCalm
  <2>9. CASE loads = << >>
    <3>1. ShowsAll /\ convId = url /\ \A s \in UnderWay : Awaited(s) /\ AnswerShown(s) /\ AnswerStored(s)
      BY <1>1, <2>1, <2>9 DEF ChatCalm
    <3>2. ShowsAll' /\ \A s \in UnderWay' : Awaited(s)' /\ AnswerShown(s)' /\ AnswerStored(s)'
      <4>1. ASSUME NEW s \in UnderWay' PROVE Awaited(s)' /\ AnswerShown(s)' /\ AnswerStored(s)'
        <5>1. Awaited(s) /\ AnswerShown(s) /\ AnswerStored(s)
          BY <1>1, <3>1
        <5> QED BY <1>1, <2>1, <2>3, <5>1 DEF Awaited, AnswerShown, AnswerStored
      <4> QED BY <2>5, <3>1, <4>1
    <3> QED BY <2>1, <2>9, <3>1, <3>2 DEF ChatCalm
  <2> QED BY <2>8, <2>9
<1> QED BY <1>2, <1>3

-----------------------------------------------------------------------------
(* ChatPage: the theorem *)

ChatInv == ChatTypes /\ ChatPast /\ ChatCalm

LEMMA ChatStarts == ChatPageInit => ChatInv
BY ChatTypesInit, ChatPastInit, ChatCalmInit DEF ChatInv

LEMMA ChatSteps == ChatInv /\ [ChatPageNext]_chatPageVars => ChatInv'
<1> SUFFICES ASSUME ChatTypes, ChatPast, ChatCalm, [ChatPageNext]_chatPageVars
             PROVE  ChatTypes' /\ ChatPast' /\ ChatCalm'
  BY DEF ChatInv
<1>1. ASSUME NEW c, OpenConv(c) \/ DeleteConv(c) \/ NewSession \/ ChatTab \/ LeavePage \/ ArrivePage
      PROVE  ChatTypes' /\ ChatPast' /\ ChatCalm'
  BY <1>1, ChatTypesMove, ChatPastMove, ChatCalmMove
<1>2. CASE NewSession \/ ChatTab \/ LeavePage \/ ArrivePage
  BY <1>1, <1>2
<1>3. ASSUME NEW i \in 1 .. MaxLoads, LoadRead(i) \/ LoadReturns(i)
      PROVE  ChatTypes' /\ ChatPast' /\ ChatCalm'
  <2>1. i \in Nat
    BY ChatPageAssumption DEF ChatPageAssumption
  <2> QED BY <1>3, <2>1, ChatTypesLoad, ChatPastLoad, ChatCalmLoad
<1>4. ASSUME NEW s \in Sends, NEW kind \in {"chat", "agent"}, SendMessage(s, kind)
      PROVE  ChatTypes' /\ ChatPast' /\ ChatCalm'
  BY <1>4, ChatTypesSend, ChatPastSend, ChatCalmSend
<1>5. ASSUME NEW s \in Sends, TakeMessage(s)
      PROVE  ChatTypes' /\ ChatPast' /\ ChatCalm'
  BY <1>5, ChatTypesTake, ChatPastAnswer, ChatCalmTake
<1>6. ASSUME NEW s \in Sends,
             StoreQuestion(s) \/ HearAnswer(s) \/ StoreAnswer(s) \/ HearFinal(s) \/ TurnFails(s)
             \/ HearError(s) \/ AgentAnswers(s)
      PROVE  ChatTypes' /\ ChatPast' /\ ChatCalm'
  <2>1. ChatTypes'
    BY <1>6, ChatTypesAnswer
  <2>2. ChatPast'
    BY <1>6, ChatPastStore, ChatPastAnswer
  <2>3. ChatCalm'
    BY <1>6, ChatCalmStore, ChatCalmHear, ChatCalmFinal, ChatCalmFails, ChatCalmError
  <2> QED BY <2>1, <2>2, <2>3
<1>7. ASSUME NEW done \in BOOLEAN, ConvDeleted(done)
      PROVE  ChatTypes' /\ ChatPast' /\ ChatCalm'
  BY <1>7, ChatTypesDeleted, ChatPastDeleted, ChatCalmDeleted
<1>8. CASE UNCHANGED chatPageVars
  <2>1. UNCHANGED <<thread, made, stored, send, url, convId, lastOpen, visit, here, shown, busy, loads, strayed, deleting>>
    BY <1>8 DEF chatPageVars, threadVars, pageVars
  <2>2. ChatTypes' /\ ChatPast'
    BY <2>1 DEF ChatTypes, ChatPast
  <2>3. ChatCalm'
    BY <2>1 DEF ChatCalm, ShowsAll, Opening, Awaited, AnswerShown, AnswerStored, Complete, Told, UnderWay
  <2> QED BY <2>2, <2>3
<1> QED BY <1>1, <1>2, <1>3, <1>4, <1>5, <1>6, <1>7, <1>8 DEF ChatPageNext

LEMMA ChatShown == ChatInv => PageShowsItsConversation
BY DEF ChatInv, ChatCalm, ShowsAll, PageShowsItsConversation

\* The page shows its conversation, for any conversations, messages and loads: once nothing is under
\* way, and if nobody went elsewhere under an answer or a load since the conversation was opened, the
\* answers shown are those that the database has of the conversation in the URL, in their order, and
\* the next message goes there (chat/page.tsx against chat.service.ts).
THEOREM PageIsItsConversations == ChatPageSpec => []PageShowsItsConversation
BY ChatStarts, ChatSteps, ChatShown, PTL DEF ChatPageSpec

-----------------------------------------------------------------------------
USE WebSessionAssumption DEF WebSessionAssumption

-----------------------------------------------------------------------------
(* WebSession: types *)

Pending(a) == a.pc \notin {"new", "over"}
\* Its answer, if this is it, names a token.
Named(a) == a.pc = "answered" /\ a.result = "ok" /\ a.kind \in {"mount", "resolve", "login", "register"}

Issues == [user : People \cup {Nobody}, family : Nat, revoked : BOOLEAN, fresh : BOOLEAN]
TabStates == [token : Nat, user : People \cup {Nobody}, loading : BOOLEAN, retry : BOOLEAN]
Kinds == {"mount", "resolve", "work", "login", "register", "logout", "delete"}
AskStates ==
  [pc : {"new", "sent", "answered", "refreshing", "refreshed", "claiming", "claimed", "over"},
   tab : Tabs \cup {"none"}, kind : Kinds \cup {"none"}, who : People \cup {Nobody},
   token : Nat, retry : BOOLEAN, result : {"none", "ok", "error", "401", "403", "lost"}]

WebTypes ==
  /\ {onDesktop, cookieDomain, left, crossed} \subseteq BOOLEAN
  /\ people \subseteq People /\ issued \in Seq(Issues)
  /\ {jar, saved} \subseteq 0 .. Len(issued)
  /\ tab \in [Tabs -> TabStates] /\ ask \in [Visits -> AskStates]
  /\ \A b \in Tabs : tab[b].token <= Len(issued)
  /\ \A v \in Visits : /\ ask[v].token <= Len(issued)
                       /\ Pending(ask[v]) => ask[v].tab \in Tabs /\ ask[v].kind \in Kinds
                       /\ ask[v].result = "lost" => ~ask[v].retry
                       /\ Named(ask[v]) => ask[v].token # 0
                       /\ ask[v].kind \in {"login", "register"} => ask[v].who \in People
  /\ \A r \in 1 .. Len(issued) : issued[r].user \in people \cup {Nobody}

LEMMA RevokedShape ==
  ASSUME WebTypes, NEW rs
  PROVE  /\ Revoked(rs) \in Seq(Issues) /\ Len(Revoked(rs)) = Len(issued)
         /\ \A r \in 1 .. Len(issued) :
              /\ Revoked(rs)[r].user = issued[r].user
              /\ Revoked(rs)[r].revoked = (issued[r].revoked \/ r \in rs)
<1>1. Len(issued) \in Nat /\ DOMAIN issued = 1 .. Len(issued) /\ \A r \in 1 .. Len(issued) : issued[r] \in Issues
  BY DEF WebTypes
<1>2. \A r \in 1 .. Len(issued) : [issued[r] EXCEPT !.revoked = issued[r].revoked \/ r \in rs] \in Issues
  BY <1>1 DEF Issues
<1>3. /\ Revoked(rs) \in Seq(Issues) /\ Len(Revoked(rs)) = Len(issued)
      /\ \A r \in 1 .. Len(issued) :
           Revoked(rs)[r] = [issued[r] EXCEPT !.revoked = issued[r].revoked \/ r \in rs]
  BY <1>1, <1>2 DEF Revoked
<1>4. \A r \in 1 .. Len(issued) : /\ Revoked(rs)[r].user = issued[r].user
                                  /\ Revoked(rs)[r].revoked = (issued[r].revoked \/ r \in rs)
  BY <1>1, <1>3 DEF Issues
<1> QED BY <1>3, <1>4

LEMMA DisownedShape ==
  ASSUME WebTypes, NEW u
  PROVE  /\ Disowned(u) \in Seq(Issues) /\ Len(Disowned(u)) = Len(issued)
         /\ \A r \in 1 .. Len(issued) :
              /\ Disowned(u)[r].revoked = issued[r].revoked
              /\ Disowned(u)[r].user = IF issued[r].user = u THEN Nobody ELSE issued[r].user
<1>1. Len(issued) \in Nat /\ DOMAIN issued = 1 .. Len(issued) /\ \A r \in 1 .. Len(issued) : issued[r] \in Issues
  BY DEF WebTypes
<1>2. \A r \in 1 .. Len(issued) :
        [issued[r] EXCEPT !.user = IF issued[r].user = u THEN Nobody ELSE issued[r].user] \in Issues
  BY <1>1 DEF Issues
<1>3. /\ Disowned(u) \in Seq(Issues) /\ Len(Disowned(u)) = Len(issued)
      /\ \A r \in 1 .. Len(issued) :
           Disowned(u)[r] = [issued[r] EXCEPT !.user = IF issued[r].user = u THEN Nobody ELSE issued[r].user]
  BY <1>1, <1>2 DEF Disowned
<1>4. \A r \in 1 .. Len(issued) :
        /\ Disowned(u)[r].revoked = issued[r].revoked
        /\ Disowned(u)[r].user = IF issued[r].user = u THEN Nobody ELSE issued[r].user
  BY <1>1, <1>3 DEF Issues
<1> QED BY <1>3, <1>4

LEMMA AppendShape ==
  ASSUME NEW S, NEW s \in Seq(S), NEW x \in S
  PROVE  /\ Append(s, x) \in Seq(S) /\ Len(Append(s, x)) = Len(s) + 1 /\ Len(s) \in Nat
         /\ Append(s, x)[Len(s) + 1] = x /\ \A i \in 1 .. Len(s) : Append(s, x)[i] = s[i]
OBVIOUS

LEMMA IssueShape ==
  ASSUME WebTypes, NEW u \in People, NEW f \in Nat, Issue(u, f)
  PROVE  /\ issued' \in Seq(Issues) /\ Len(issued') = Len(issued) + 1
         /\ \A r \in 1 .. Len(issued) : issued'[r] = issued[r]
         /\ issued'[Len(issued) + 1].user = u /\ ~issued'[Len(issued) + 1].revoked
<1>1. [user |-> u, family |-> f, revoked |-> FALSE, fresh |-> TRUE] \in Issues
  BY DEF Issues
<1>2. issued \in Seq(Issues)
  BY DEF WebTypes
<1> DEFINE new == [user |-> u, family |-> f, revoked |-> FALSE, fresh |-> TRUE]
<1>3. new \in Issues /\ new.user = u /\ new.revoked = FALSE
  BY <1>1
<1>4. issued' = Append(issued, new)
  BY DEF Issue
<1> HIDE DEF new
<1> QED BY <1>2, <1>3, <1>4

LEMMA WebStartTyped == WebSessionInit => WebTypes
<1> SUFFICES ASSUME WebSessionInit PROVE WebTypes
  OBVIOUS
<1>1. Closed \in TabStates /\ NoAsk \in AskStates
  BY DEF Closed, NoAsk, TabStates, AskStates
<1>2. issued = << >> /\ Len(issued) = 0 /\ issued \in Seq(Issues)
  BY DEF WebSessionInit
<1>3. tab \in [Tabs -> TabStates] /\ ask \in [Visits -> AskStates]
  BY <1>1 DEF WebSessionInit
<1>4. \A v \in Visits : ask[v].pc = "new" /\ ask[v].result = "none" /\ ask[v].kind = "none"
  BY DEF WebSessionInit, NoAsk
<1>5. \A v \in Visits : ask[v].token = 0
  BY DEF WebSessionInit, NoAsk
<1>6. \A b \in Tabs : tab[b].token = 0
  BY DEF WebSessionInit, Closed
<1>7. people \subseteq People /\ {jar, saved} \subseteq 0 .. Len(issued)
  BY <1>2 DEF WebSessionInit
<1>8. {onDesktop, cookieDomain, left, crossed} \subseteq BOOLEAN
  BY DEF WebSessionInit
<1>9. \A v \in Visits : ~Pending(ask[v]) /\ ~Named(ask[v])
  BY <1>4 DEF Pending, Named
<1> QED BY <1>2, <1>3, <1>4, <1>5, <1>6, <1>7, <1>8, <1>9 DEF WebTypes


\* The request v after a step that changes no more of it than this.
Now(v, pc, token, retry, result) ==
  [pc |-> pc, tab |-> ask[v].tab, kind |-> ask[v].kind, who |-> ask[v].who,
   token |-> token, retry |-> retry, result |-> result]
Finished == [NoAsk EXCEPT !.pc = "over"]
\* The step changes the request v, to a; the tab b, to t.
AskBecomes(v, a) ==
  /\ a \in AskStates /\ ask' \in [Visits -> AskStates]
  /\ \A w \in Visits : ask'[w] = IF w = v THEN a ELSE ask[w]
TabBecomes(b, t) ==
  /\ t \in TabStates /\ tab' \in [Tabs -> TabStates]
  /\ \A c \in Tabs : tab'[c] = IF c = b THEN t ELSE tab[c]

PCs == {"new", "sent", "answered", "refreshing", "refreshed", "claiming", "claimed", "over"}
Results == {"none", "ok", "error", "401", "403", "lost"}

LEMMA AskShape ==
  ASSUME WebTypes, NEW v \in Visits
  PROVE  /\ ask[v] = Now(v, ask[v].pc, ask[v].token, ask[v].retry, ask[v].result)
         /\ ask[v].pc \in PCs /\ ask[v].token \in Nat /\ ask[v].retry \in BOOLEAN /\ ask[v].result \in Results
         /\ ask[v].tab \in Tabs \cup {"none"} /\ ask[v].kind \in Kinds \cup {"none"}
         /\ ask[v].who \in People \cup {Nobody}
         /\ ask[v].pc \notin {"new", "over"} => ask[v].tab \in Tabs /\ ask[v].kind \in Kinds
<1>1. ask[v] \in AskStates
  BY DEF WebTypes
<1>2. ask[v].pc \notin {"new", "over"} => ask[v].tab \in Tabs /\ ask[v].kind \in Kinds
  BY DEF WebTypes, Pending
<1> QED BY <1>1, <1>2 DEF AskStates, Now, PCs, Results

LEMMA TabShape ==
  ASSUME WebTypes, NEW b \in Tabs
  PROVE  /\ tab[b] = [token |-> tab[b].token, user |-> tab[b].user, loading |-> tab[b].loading,
                      retry |-> tab[b].retry]
         /\ tab[b].token \in Nat /\ tab[b].user \in People \cup {Nobody}
         /\ tab[b].loading \in BOOLEAN /\ tab[b].retry \in BOOLEAN
<1>1. tab[b] \in TabStates
  BY DEF WebTypes
<1> QED BY <1>1 DEF TabStates

LEMMA AskChanges ==
  ASSUME WebTypes, NEW v \in Visits, NEW pc \in PCs, NEW token \in Nat, NEW retry \in BOOLEAN,
         NEW result \in Results, ask' = [ask EXCEPT ![v] = Now(v, pc, token, retry, result)]
  PROVE  AskBecomes(v, Now(v, pc, token, retry, result))
<1>1. Now(v, pc, token, retry, result) \in AskStates
  BY AskShape DEF Now, AskStates, PCs, Results
<1>2. ask \in [Visits -> AskStates]
  BY DEF WebTypes
<1> HIDE DEF Now
<1> QED BY <1>1, <1>2 DEF AskBecomes

LEMMA AskToShape ==
  ASSUME WebTypes, NEW v \in Visits, NEW pc \in PCs, NEW token \in Nat, NEW result \in Results,
         AskTo(v, pc, token, result)
  PROVE  AskBecomes(v, Now(v, pc, token, ask[v].retry, result))
<1>1. ask \in [Visits -> AskStates] /\ ask[v] \in AskStates
  BY DEF WebTypes
<1> DEFINE a == [ask[v] EXCEPT !.pc = pc, !.token = token, !.result = result]
<1>2. ask' = [ask EXCEPT ![v] = a]
  BY <1>1 DEF AskTo
<1>3. /\ a \in AskStates /\ a.pc = pc /\ a.token = token /\ a.result = result
      /\ a.tab = ask[v].tab /\ a.kind = ask[v].kind /\ a.who = ask[v].who /\ a.retry = ask[v].retry
  BY <1>1 DEF AskStates, PCs, Results
<1> HIDE DEF a
<1>4. a = Now(v, pc, token, ask[v].retry, result)
  BY <1>3 DEF AskStates, Now
<1> QED BY <1>2, <1>4, AskShape, AskChanges

LEMMA OverShape ==
  ASSUME WebTypes, NEW v \in Visits, Over(v)
  PROVE  AskBecomes(v, Finished)
<1>1. Finished \in AskStates
  BY DEF Finished, NoAsk, AskStates
<1>2. ask \in [Visits -> AskStates]
  BY DEF WebTypes
<1> QED BY <1>1, <1>2 DEF Over, AskBecomes, Finished

LEMMA SetTokenShape ==
  ASSUME WebTypes, NEW v \in Visits, ask[v].tab \in Tabs, NEW r \in Nat, SetToken(v, r)
  PROVE  saved' = r /\ TabBecomes(ask[v].tab, [tab[ask[v].tab] EXCEPT !.token = r])
<1>1. tab \in [Tabs -> TabStates]
  BY DEF WebTypes
<1>2. [tab[ask[v].tab] EXCEPT !.token = r] \in TabStates
  BY <1>1 DEF TabStates
<1> QED BY <1>1, <1>2 DEF SetToken, TabBecomes

-----------------------------------------------------------------------------
(* WebSession: what each step does *)

ServerStays == UNCHANGED serverVars

LEMMA BeginDoes ==
  ASSUME WebTypes, NEW v \in Visits, NEW b \in Tabs, NEW kind \in Kinds, NEW who \in People \cup {Nobody},
         Begin(v, b, kind, who)
  PROVE  /\ ask[v].pc = "new"
         /\ AskBecomes(v, [pc |-> "sent", tab |-> b, kind |-> kind, who |-> who, retry |-> TRUE,
                           token |-> IF kind = "logout" THEN jar ELSE Token(b), result |-> "none"])
         /\ TabBecomes(b, [tab[b] EXCEPT !.token = Token(b), !.retry = FALSE])
         /\ crossed' = (crossed \/ CrossTab(b) \/ (kind \in Session /\ (Cross(v) \/ UnderTab(b))))
         /\ UNCHANGED <<serverVars, jar, saved, left>>
<1>1. ask \in [Visits -> AskStates] /\ tab \in [Tabs -> TabStates] /\ jar \in Nat /\ saved \in Nat
  BY DEF WebTypes
<1>2. Token(b) \in Nat
  BY <1>1 DEF Token, TabStates
<1> DEFINE a == [pc |-> "sent", tab |-> b, kind |-> kind, who |-> who, retry |-> TRUE,
                 token |-> IF kind = "logout" THEN jar ELSE Token(b), result |-> "none"]
           t == [tab[b] EXCEPT !.token = Token(b), !.retry = FALSE]
<1>3. a \in AskStates
  BY <1>1, <1>2 DEF AskStates
<1>4. t \in TabStates
  BY <1>1, <1>2 DEF TabStates
<1>5. ask' = [ask EXCEPT ![v] = a]
  BY DEF Begin
<1>6. tab' = [tab EXCEPT ![b] = t]
  BY <1>1 DEF Begin, TabStates
<1>7. AskBecomes(v, a)
  <2> HIDE DEF a
  <2> QED BY <1>1, <1>3, <1>5 DEF AskBecomes
<1>8. TabBecomes(b, t)
  <2> HIDE DEF t
  <2> QED BY <1>1, <1>4, <1>6 DEF TabBecomes
<1> QED BY <1>7, <1>8 DEF Begin

LEMMA LoseDoes ==
  ASSUME WebTypes, NEW v \in Visits, Lose(v)
  PROVE  /\ ask[v].pc \notin {"new", "over"} /\ crossed' = (crossed \/ OfSession(ask[v]))
         /\ \E pc \in {"answered", "claimed"} :
              /\ AskBecomes(v, Now(v, pc, ask[v].token, FALSE, "lost"))
              /\ pc = "claimed" => OfSession(ask[v])
         /\ UNCHANGED <<serverVars, browserVars, left>>
<1>1. ask \in [Visits -> AskStates] /\ ask[v] \in AskStates
  BY DEF WebTypes
<1> DEFINE pc == IF ask[v].pc \in {"claiming", "claimed"} THEN "claimed" ELSE "answered"
           a == [ask[v] EXCEPT !.result = "lost", !.retry = FALSE, !.pc = pc]
<1>a. ask' = [ask EXCEPT ![v] = a]
  BY <1>1 DEF Lose
<1>b. pc \in {"claimed", "answered"}
  OBVIOUS
<1> HIDE DEF pc
<1>c. /\ a \in AskStates /\ a.pc = pc /\ a.token = ask[v].token /\ a.result = "lost"
      /\ a.tab = ask[v].tab /\ a.kind = ask[v].kind /\ a.who = ask[v].who /\ a.retry = FALSE
  BY <1>1, <1>b DEF AskStates
<1> HIDE DEF a
<1>d. a = Now(v, pc, ask[v].token, FALSE, "lost")
  BY <1>c DEF AskStates, Now
<1>2. ask' = [ask EXCEPT ![v] = Now(v, pc, ask[v].token, FALSE, "lost")]
  BY <1>a, <1>d
<1>3. AskBecomes(v, Now(v, pc, ask[v].token, FALSE, "lost"))
  BY <1>2, <1>b, AskShape, AskChanges DEF PCs, Results
<1>4. pc = "claimed" => OfSession(ask[v])
  BY DEF OfSession, pc
<1> QED BY <1>3, <1>4, <1>b DEF Lose

LEMMA HearUnauthorizedDoes ==
  ASSUME WebTypes, NEW v \in Visits, HearUnauthorized(v)
  PROVE  /\ ask[v].pc = "answered" /\ ask[v].result = "401" /\ ask[v].retry
         /\ AskBecomes(v, Now(v, "refreshing", jar, FALSE, "401"))
         /\ crossed' = (crossed \/ Cross(v)) /\ UNCHANGED <<serverVars, browserVars, left>>
<1>1. ask \in [Visits -> AskStates] /\ ask[v] \in AskStates /\ jar \in Nat
  BY DEF WebTypes
<1>2. ask' = [ask EXCEPT ![v] = Now(v, "refreshing", jar, FALSE, "401")]
  BY <1>1 DEF HearUnauthorized, Now, AskStates
<1>3. AskBecomes(v, Now(v, "refreshing", jar, FALSE, "401"))
  BY <1>1, <1>2, AskShape, AskChanges DEF PCs, Results
<1> QED BY <1>3 DEF HearUnauthorized

LEMMA ServeRefreshDoes ==
  ASSUME WebTypes, NEW v \in Visits, ServeRefresh(v)
  PROVE  /\ ask[v].pc = "refreshing" /\ UNCHANGED <<deployVars, people, browserVars, left, crossed>>
         /\ \/ /\ Live(ask[v].token) /\ UNCHANGED ended
               /\ \E result \in {"ok", "403"} : AskBecomes(v, Now(v, "refreshed", Len(issued) + 1, ask[v].retry, result))
               /\ \E fresh \in BOOLEAN :
                    issued' = Append(Revoked({ask[v].token}), [issued[ask[v].token] EXCEPT !.fresh = fresh])
            \/ /\ Live(ask[v].token) /\ ended' = ended \cup TokensOf(issued[ask[v].token].user)
               /\ AskBecomes(v, Now(v, "refreshed", ask[v].token, ask[v].retry, "401"))
               /\ issued' = Revoked({ask[v].token})
            \/ /\ ~Live(ask[v].token) /\ UNCHANGED ended
               /\ AskBecomes(v, Now(v, "refreshed", ask[v].token, ask[v].retry, "401"))
               /\ issued' = IF Known(ask[v].token) THEN Revoked(FamilyOf(ask[v].token)) ELSE issued
<1>1. Len(issued) + 1 \in Nat /\ ask[v].token \in Nat
  BY AskShape DEF WebTypes
<1>2. ask[v].pc = "refreshing" /\ UNCHANGED <<deployVars, people, browserVars, left, crossed>>
  BY DEF ServeRefresh
<1>3. CASE Rotated(v)
  <2> DEFINE active == issued[ask[v].token].user \notin inactive
             result == IF active THEN "ok" ELSE "403"
  <2>1. /\ Live(ask[v].token) /\ UNCHANGED ended /\ AskTo(v, "refreshed", Len(issued) + 1, result)
        /\ issued' = Append(Revoked({ask[v].token}), [issued[ask[v].token] EXCEPT !.fresh = active])
    BY <1>3 DEF Rotated
  <2>2. active \in BOOLEAN /\ result \in {"ok", "403"}
    OBVIOUS
  <2> HIDE DEF active, result
  <2>3. AskBecomes(v, Now(v, "refreshed", Len(issued) + 1, ask[v].retry, result))
    BY <1>1, <2>1, <2>2, AskToShape DEF PCs, Results
  <2> HIDE DEF Now
  <2> QED BY <1>2, <2>1, <2>2, <2>3
<1>4. CASE RefusedOld(v)
  BY <1>1, <1>2, <1>4, AskToShape DEF RefusedOld, PCs, Results
<1>5. CASE RefusedUsed(v)
  BY <1>1, <1>2, <1>5, AskToShape DEF RefusedUsed, PCs, Results
<1> QED BY <1>3, <1>4, <1>5 DEF ServeRefresh

LEMMA HearRefreshDoes ==
  ASSUME WebTypes, NEW v \in Visits, HearRefresh(v)
  PROVE  /\ ask[v].pc = "refreshed" /\ UNCHANGED <<serverVars, left, crossed>>
         /\ \/ /\ ask[v].result = "ok" /\ jar' = ask[v].token /\ saved' = ask[v].token
               /\ TabBecomes(ask[v].tab, [tab[ask[v].tab] EXCEPT !.token = ask[v].token])
               /\ AskBecomes(v, Now(v, "sent", ask[v].token, ask[v].retry, "none"))
            \/ /\ ask[v].result # "ok"
               /\ jar' \in IF ask[v].result = "403" THEN {ask[v].token} ELSE {jar, 0}
               /\ AskBecomes(v, Now(v, "answered", 0, ask[v].retry, "401")) /\ UNCHANGED <<saved, tab>>
<1>1. ask[v].pc = "refreshed" /\ ask[v].tab \in Tabs /\ ask[v].token \in Nat
  BY AskShape DEF HearRefresh
<1>2. CASE ask[v].result = "ok"
  BY <1>1, <1>2, AskToShape, SetTokenShape DEF HearRefresh, PCs, Results
<1>3. CASE ask[v].result # "ok"
  <2>1. AskBecomes(v, Now(v, "answered", 0, ask[v].retry, "401")) /\ UNCHANGED <<saved, tab>>
    BY <1>1, <1>3, AskToShape DEF HearRefresh, PCs, Results
  <2>2. jar' \in IF ask[v].result = "403" THEN {ask[v].token} ELSE {jar, 0}
    BY <1>3 DEF HearRefresh, Cleared
  <2> QED BY <1>1, <1>3, <2>1, <2>2 DEF HearRefresh
<1> QED BY <1>2, <1>3 DEF HearRefresh

LEMMA HearMeDoes ==
  ASSUME WebTypes, NEW v \in Visits, HearMe(v)
  PROVE  /\ WhoAmI(v) /\ ask[v].result = "ok" /\ AskBecomes(v, Finished)
         /\ tab' = [tab EXCEPT ![ask[v].tab].user = issued[ask[v].token].user, ![ask[v].tab].loading = FALSE]
         /\ UNCHANGED <<serverVars, jar, saved, left, crossed>>
BY OverShape DEF HearMe

LEMMA NoUserDoes ==
  ASSUME WebTypes, NEW v \in Visits, ask[v].pc \notin {"new", "over"}, NoUser(v)
  PROVE  /\ AskBecomes(v, Finished)
         /\ TabBecomes(ask[v].tab, [tab[ask[v].tab] EXCEPT !.user = Nobody, !.loading = FALSE,
                                                           !.retry = ask[v].kind = "mount"])
<1>1. tab \in [Tabs -> TabStates] /\ ask[v].tab \in Tabs
  BY AskShape DEF WebTypes
<1> DEFINE t == [tab[ask[v].tab] EXCEPT !.user = Nobody, !.loading = FALSE, !.retry = ask[v].kind = "mount"]
<1>2. t \in TabStates
  BY <1>1 DEF TabStates
<1>3. tab' = [tab EXCEPT ![ask[v].tab] = t]
  BY <1>1 DEF NoUser, TabStates
<1>4. TabBecomes(ask[v].tab, t)
  <2> HIDE DEF t
  <2> QED BY <1>1, <1>2, <1>3 DEF TabBecomes
<1> QED BY <1>4, OverShape DEF NoUser

LEMMA HearNobodyDoes ==
  ASSUME WebTypes, NEW v \in Visits, HearNobody(v)
  PROVE  /\ WhoAmI(v) /\ ask[v].result # "ok" /\ UNCHANGED <<serverVars, jar, saved, left>>
         /\ \/ /\ onDesktop /\ UNCHANGED tab
               /\ crossed' = (crossed \/ Cross(v) \/ UnderTab(ask[v].tab))
               /\ AskBecomes(v, [Now(v, "claiming", ask[v].token, ask[v].retry, "none") EXCEPT !.who = LocalOwner])
            \/ NoUser(v) /\ UNCHANGED crossed
<1>1. ask \in [Visits -> AskStates] /\ ask[v] \in AskStates
  BY DEF WebTypes
<1>2. CASE onDesktop /\ ask[v].who = Nobody
  <2> DEFINE a == [Now(v, "claiming", ask[v].token, ask[v].retry, "none") EXCEPT !.who = LocalOwner]
  <2>1. a \in AskStates
    BY <1>1 DEF Now, AskStates
  <2>2. ask' = [ask EXCEPT ![v] = a]
    BY <1>1, <1>2 DEF HearNobody, Now, AskStates
  <2>3. AskBecomes(v, a)
    <3> HIDE DEF a
    <3> QED BY <1>1, <2>1, <2>2 DEF AskBecomes
  <2> QED BY <1>2, <2>3 DEF HearNobody
<1>3. CASE ~(onDesktop /\ ask[v].who = Nobody)
  BY <1>3 DEF HearNobody
<1> QED BY <1>2, <1>3

LEMMA HearClaimDoes ==
  ASSUME WebTypes, NEW v \in Visits, HearClaim(v)
  PROVE  /\ ask[v].pc = "claimed" /\ UNCHANGED <<serverVars, crossed>>
         /\ \/ /\ ask[v].result = "ok" /\ jar' = ask[v].token /\ saved' = ask[v].token /\ left' = FALSE
               /\ TabBecomes(ask[v].tab, [tab[ask[v].tab] EXCEPT !.token = ask[v].token])
               /\ AskBecomes(v, Now(v, "sent", ask[v].token, TRUE, "none"))
            \/ ask[v].result # "ok" /\ NoUser(v) /\ UNCHANGED <<jar, saved, left>>
<1>1. ask[v].pc = "claimed" /\ ask[v].tab \in Tabs /\ ask[v].token \in Nat
  BY AskShape DEF HearClaim
<1>2. CASE ask[v].result = "ok"
  <2>1. ask \in [Visits -> AskStates] /\ ask[v] \in AskStates
    BY DEF WebTypes
  <2>2. ask' = [ask EXCEPT ![v] = Now(v, "sent", ask[v].token, TRUE, "none")]
    BY <1>2, <2>1 DEF HearClaim, Now, AskStates
  <2>3. AskBecomes(v, Now(v, "sent", ask[v].token, TRUE, "none"))
    BY <1>1, <2>2, AskChanges DEF PCs, Results
  <2> QED BY <1>1, <1>2, <2>3, SetTokenShape DEF HearClaim
<1>3. CASE ask[v].result # "ok"
  BY <1>1, <1>3 DEF HearClaim
<1> QED BY <1>2, <1>3

LEMMA HearSessionDoes ==
  ASSUME WebTypes, NEW v \in Visits, HearSession(v)
  PROVE  /\ Settled(v) /\ ask[v].kind \in {"login", "register"} /\ ask[v].result = "ok" /\ AskBecomes(v, Finished)
         /\ jar' = ask[v].token /\ saved' = ask[v].token /\ left' = FALSE
         /\ tab' = [tab EXCEPT ![ask[v].tab].token = ask[v].token, ![ask[v].tab].user = issued[ask[v].token].user]
         /\ UNCHANGED <<serverVars, crossed>>
BY OverShape DEF HearSession

\* The user of a token that was issued, in a tab.
LEMMA UserShown ==
  ASSUME WebTypes, NEW b \in Tabs, NEW r \in 1 .. Len(issued)
  PROVE  /\ tab' = [tab EXCEPT ![b].token = r, ![b].user = issued[r].user]
              => TabBecomes(b, [tab[b] EXCEPT !.token = r, !.user = issued[r].user])
         /\ tab' = [tab EXCEPT ![b].user = issued[r].user, ![b].loading = FALSE]
              => TabBecomes(b, [tab[b] EXCEPT !.user = issued[r].user, !.loading = FALSE])
<1>1. tab \in [Tabs -> TabStates] /\ r \in Nat /\ issued[r].user \in People \cup {Nobody}
  BY DEF WebTypes, Issues
<1>2. ASSUME tab' = [tab EXCEPT ![b].token = r, ![b].user = issued[r].user]
      PROVE  TabBecomes(b, [tab[b] EXCEPT !.token = r, !.user = issued[r].user])
  <2> DEFINE t == [tab[b] EXCEPT !.token = r, !.user = issued[r].user]
  <2>1. t \in TabStates
    BY <1>1 DEF TabStates
  <2>2. tab' = [tab EXCEPT ![b] = t]
    BY <1>1, <1>2 DEF TabStates
  <2> HIDE DEF t
  <2>3. TabBecomes(b, t)
    BY <1>1, <2>1, <2>2 DEF TabBecomes
  <2> QED BY <2>3 DEF t
<1>3. ASSUME tab' = [tab EXCEPT ![b].user = issued[r].user, ![b].loading = FALSE]
      PROVE  TabBecomes(b, [tab[b] EXCEPT !.user = issued[r].user, !.loading = FALSE])
  <2> DEFINE t == [tab[b] EXCEPT !.user = issued[r].user, !.loading = FALSE]
  <2>1. t \in TabStates
    BY <1>1 DEF TabStates
  <2>2. tab' = [tab EXCEPT ![b] = t]
    BY <1>1, <1>3 DEF TabStates
  <2> HIDE DEF t
  <2>3. TabBecomes(b, t)
    BY <1>1, <2>1, <2>2 DEF TabBecomes
  <2> QED BY <2>3 DEF t
<1> QED BY <1>2, <1>3

LEMMA HearLogoutDoes ==
  ASSUME WebTypes, NEW v \in Visits, HearLogout(v)
  PROVE  /\ Settled(v) /\ ask[v].kind = "logout" /\ AskBecomes(v, Finished)
         /\ jar' \in {jar, 0} /\ saved' = 0 /\ left' = TRUE
         /\ TabBecomes(ask[v].tab, [tab[ask[v].tab] EXCEPT !.token = 0, !.user = Nobody, !.retry = TRUE])
         /\ UNCHANGED <<serverVars, crossed>>
<1>1. tab \in [Tabs -> TabStates] /\ ask[v].tab \in Tabs
  BY AskShape DEF WebTypes, HearLogout, Settled
<1> DEFINE t == [tab[ask[v].tab] EXCEPT !.token = 0, !.user = Nobody, !.retry = TRUE]
<1>2. t \in TabStates
  BY <1>1 DEF TabStates
<1>3. tab' = [tab EXCEPT ![ask[v].tab] = t]
  BY <1>1 DEF HearLogout
<1>4. TabBecomes(ask[v].tab, t)
  <2> HIDE DEF t
  <2> QED BY <1>1, <1>2, <1>3 DEF TabBecomes
<1> QED BY <1>4, OverShape DEF HearLogout, Cleared

LEMMA HearDeletedDoes ==
  ASSUME WebTypes, NEW v \in Visits, HearDeleted(v)
  PROVE  /\ Settled(v) /\ ask[v].kind = "delete" /\ ask[v].result = "ok" /\ jar' \in {jar, 0}
         /\ AskBecomes(v, [pc |-> "sent", tab |-> ask[v].tab, kind |-> "logout", who |-> ask[v].who,
                           token |-> jar', retry |-> TRUE, result |-> "none"])
         /\ UNCHANGED <<serverVars, saved, tab, left, crossed>>
<1>1. ask \in [Visits -> AskStates] /\ ask[v] \in AskStates /\ jar' = Cleared /\ Cleared \in {jar, 0} /\ jar \in Nat
  BY DEF WebTypes, HearDeleted, Cleared
<1> DEFINE a == [pc |-> "sent", tab |-> ask[v].tab, kind |-> "logout", who |-> ask[v].who,
                 token |-> jar', retry |-> TRUE, result |-> "none"]
<1>2. a \in AskStates
  BY <1>1 DEF AskStates, Kinds
<1>3. ask' = [ask EXCEPT ![v] = a]
  BY <1>1 DEF HearDeleted, Now, AskStates
<1>4. AskBecomes(v, a)
  <2> HIDE DEF a
  <2> QED BY <1>1, <1>2, <1>3 DEF AskBecomes
<1> QED BY <1>1, <1>4 DEF HearDeleted
-----------------------------------------------------------------------------
(* WebSession: every step keeps the types *)

LEMMA FinishedShape ==
  /\ Finished = [pc |-> "over", tab |-> "none", kind |-> "none", who |-> Nobody,
                 token |-> 0, retry |-> TRUE, result |-> "none"]
  /\ ~Pending(Finished) /\ ~Named(Finished) /\ Finished.token = 0 /\ Finished.result = "none"
  /\ ~OfSession(Finished) /\ Finished.kind = "none" /\ Finished.pc = "over" /\ Finished.tab = "none"
<1>1. Finished = [pc |-> "over", tab |-> "none", kind |-> "none", who |-> Nobody,
                  token |-> 0, retry |-> TRUE, result |-> "none"]
  <2> DEFINE f == [pc |-> "over", tab |-> "none", kind |-> "none", who |-> Nobody,
                   token |-> 0, retry |-> TRUE, result |-> "none"]
  <2>1. NoAsk \in AskStates
    BY DEF NoAsk, AskStates
  <2>2. /\ Finished \in AskStates /\ Finished.pc = "over" /\ Finished.tab = "none" /\ Finished.kind = "none"
        /\ Finished.who = Nobody /\ Finished.token = 0 /\ Finished.retry = TRUE /\ Finished.result = "none"
    BY <2>1 DEF Finished, NoAsk, AskStates
  <2> QED BY <2>2 DEF AskStates
<1> QED BY <1>1 DEF Pending, Named, OfSession, Session

\* What the types ask of a request, given the number of tokens.
AskTyped(a, n) ==
  /\ a.token <= n
  /\ Pending(a) => a.tab \in Tabs /\ a.kind \in Kinds
  /\ a.result = "lost" => ~a.retry
  /\ Named(a) => a.token # 0
  /\ a.kind \in {"login", "register"} => a.who \in People

\* The types after a step of the request v: the parts that the step may disturb.
LEMMA TypesKept ==
  ASSUME WebTypes, NEW v \in Visits, NEW a, AskBecomes(v, a),
         issued' \in Seq(Issues), Len(issued') >= Len(issued), people' \subseteq People,
         \A r \in 1 .. Len(issued') : issued'[r].user \in people' \cup {Nobody},
         AskTyped(a, Len(issued')),
         {jar', saved'} \subseteq 0 .. Len(issued'),
         UNCHANGED tab \/ \E b \in Tabs : \E t : TabBecomes(b, t) /\ t.token <= Len(issued'),
         {left', crossed'} \subseteq BOOLEAN, UNCHANGED deployVars
  PROVE  WebTypes'
<1>1. Len(issued) \in Nat /\ Len(issued') \in Nat
  BY DEF WebTypes
<1>2. tab' \in [Tabs -> TabStates] /\ \A b \in Tabs : tab'[b].token <= Len(issued')
  <2>1. tab \in [Tabs -> TabStates] /\ \A b \in Tabs : tab[b].token <= Len(issued) /\ tab[b].token \in Nat
    BY DEF WebTypes, TabStates
  <2>2. CASE UNCHANGED tab
    BY <1>1, <2>1, <2>2
  <2>3. ASSUME NEW b \in Tabs, NEW t, TabBecomes(b, t), t.token <= Len(issued')
        PROVE  tab' \in [Tabs -> TabStates] /\ \A c \in Tabs : tab'[c].token <= Len(issued')
    BY <1>1, <2>1, <2>3 DEF TabBecomes
  <2> QED BY <2>2, <2>3
<1>3. ask' \in [Visits -> AskStates] /\ \A w \in Visits : AskTyped(ask'[w], Len(issued'))
  <2>1. \A w \in Visits : ask[w].token \in Nat /\ AskTyped(ask[w], Len(issued))
    BY DEF WebTypes, AskStates, AskTyped
  <2> QED BY <1>1, <2>1 DEF AskBecomes, AskTyped
<1>4. onDesktop' = onDesktop /\ cookieDomain' = cookieDomain
  BY DEF deployVars
<1> QED BY <1>2, <1>3, <1>4 DEF WebTypes, AskTyped

\* A step that leaves the server as it is.
LEMMA TypesStay ==
  ASSUME WebTypes, NEW v \in Visits, NEW a, AskBecomes(v, a), AskTyped(a, Len(issued)),
         {jar', saved'} \subseteq 0 .. Len(issued),
         UNCHANGED tab \/ \E b \in Tabs : \E t : TabBecomes(b, t) /\ t.token <= Len(issued),
         {left', crossed'} \subseteq BOOLEAN, UNCHANGED serverVars
  PROVE  WebTypes'
BY TypesKept DEF WebTypes, serverVars, deployVars

LEMMA TypedHears ==
  ASSUME WebTypes, NEW v \in Visits,
         \/ Lose(v) \/ HearUnauthorized(v) \/ HearRefresh(v) \/ HearMe(v) \/ HearNobody(v) \/ HearClaim(v)
         \/ HearWork(v) \/ HearSession(v) \/ HearLogout(v) \/ HearDeleted(v)
  PROVE  WebTypes'
<1>1. /\ {jar, saved} \subseteq 0 .. Len(issued) /\ {left, crossed} \subseteq BOOLEAN /\ Len(issued) \in Nat
      /\ AskTyped(ask[v], Len(issued)) /\ ask[v].token \in 0 .. Len(issued) /\ ask[v].retry \in BOOLEAN
      /\ \A b \in Tabs : tab[b] \in TabStates /\ tab[b].token <= Len(issued)
  BY AskShape DEF WebTypes, AskTyped
<1>2. AskTyped(Finished, Len(issued))
  BY <1>1, FinishedShape DEF AskTyped
<1>3. ASSUME NEW pc, NEW token \in 0 .. Len(issued), NEW retry, NEW result \in {"none", "401"},
             ask[v].pc \notin {"new", "over"}
      PROVE  AskTyped(Now(v, pc, token, retry, result), Len(issued))
  BY <1>1, <1>3 DEF AskTyped, Now, Pending, Named
<1>4. CASE Lose(v)
  <2>1. PICK pc \in {"answered", "claimed"} : AskBecomes(v, Now(v, pc, ask[v].token, FALSE, "lost"))
    BY <1>4, LoseDoes
  <2>2. AskTyped(Now(v, pc, ask[v].token, FALSE, "lost"), Len(issued))
    BY <1>1, <1>4, LoseDoes DEF AskTyped, Now, Pending, Named
  <2>3. UNCHANGED <<jar, saved, tab, serverVars, left>> /\ crossed' \in BOOLEAN
    BY <1>1, <1>4, LoseDoes DEF browserVars, OfSession
  <2> QED BY <1>1, <2>1, <2>2, <2>3, TypesStay
<1>5. CASE HearUnauthorized(v)
  <2>1. AskBecomes(v, Now(v, "refreshing", jar, FALSE, "401")) /\ ask[v].pc = "answered"
    BY <1>5, HearUnauthorizedDoes
  <2>2. UNCHANGED <<jar, saved, tab, serverVars, left>> /\ crossed' \in BOOLEAN
    BY <1>1, <1>5, HearUnauthorizedDoes DEF browserVars, Cross
  <2> QED BY <1>1, <1>3, <2>1, <2>2, TypesStay
<1>6. CASE HearRefresh(v)
  <2>1. ask[v].pc = "refreshed" /\ ask[v].tab \in Tabs
    BY <1>6, HearRefreshDoes, AskShape
  <2>2. CASE ask[v].result = "ok"
    <3>1. TabBecomes(ask[v].tab, [tab[ask[v].tab] EXCEPT !.token = ask[v].token])
      BY <1>6, <2>2, HearRefreshDoes
    <3>2. [tab[ask[v].tab] EXCEPT !.token = ask[v].token].token <= Len(issued)
      BY <1>1, <2>1 DEF TabStates
    <3>3. AskBecomes(v, Now(v, "sent", ask[v].token, ask[v].retry, "none"))
      BY <1>6, <2>2, HearRefreshDoes
    <3>4. jar' = ask[v].token /\ saved' = ask[v].token /\ UNCHANGED <<serverVars, left, crossed>>
      BY <1>6, <2>2, HearRefreshDoes
    <3> QED BY <1>1, <1>3, <2>1, <3>1, <3>2, <3>3, <3>4, TypesStay
  <2>3. CASE ask[v].result # "ok"
    <3>1. AskBecomes(v, Now(v, "answered", 0, ask[v].retry, "401"))
      BY <1>6, <2>3, HearRefreshDoes
    <3>2. jar' \in {jar, 0, ask[v].token} /\ UNCHANGED <<saved, tab, serverVars, left, crossed>>
      BY <1>6, <2>3, HearRefreshDoes
    <3> QED BY <1>1, <1>3, <2>1, <3>1, <3>2, TypesStay
  <2> QED BY <2>2, <2>3
<1>7. CASE HearMe(v)
  <2>1. /\ ask[v].tab \in Tabs /\ ask[v].token \in 1 .. Len(issued) /\ AskBecomes(v, Finished)
        /\ UNCHANGED <<serverVars, jar, saved, left, crossed>>
    <3>1. Named(ask[v]) /\ ask[v].pc = "answered"
      BY <1>7 DEF HearMe, WhoAmI, Settled, Named
    <3>2. ask[v].token # 0
      BY <1>1, <3>1 DEF AskTyped
    <3>3. ask[v].token \in 1 .. Len(issued)
      BY <1>1, <3>2
    <3>4. ask[v].tab \in Tabs
      BY <3>1, AskShape
    <3> QED BY <1>7, <3>3, <3>4, HearMeDoes
  <2> DEFINE t == [tab[ask[v].tab] EXCEPT !.user = issued[ask[v].token].user, !.loading = FALSE]
  <2>2. TabBecomes(ask[v].tab, t)
    BY <1>7, <2>1, HearMeDoes, UserShown
  <2>3. t.token <= Len(issued)
    BY <1>1, <2>1 DEF TabStates
  <2> HIDE DEF t
  <2> QED BY <1>1, <1>2, <2>1, <2>2, <2>3, TypesStay
<1>8. ASSUME NoUser(v), ask[v].pc \notin {"new", "over"}, UNCHANGED <<serverVars, jar, saved, left, crossed>>
      PROVE  WebTypes'
  <2> DEFINE t == [tab[ask[v].tab] EXCEPT !.user = Nobody, !.loading = FALSE, !.retry = ask[v].kind = "mount"]
  <2>1. ask[v].tab \in Tabs /\ AskBecomes(v, Finished) /\ TabBecomes(ask[v].tab, t)
    BY <1>8, NoUserDoes, AskShape
  <2>2. t.token <= Len(issued)
    BY <1>1, <2>1 DEF TabStates
  <2> HIDE DEF t
  <2> QED BY <1>1, <1>2, <1>8, <2>1, <2>2, TypesStay
<1>9. CASE HearNobody(v)
  <2> DEFINE a == [Now(v, "claiming", ask[v].token, ask[v].retry, "none") EXCEPT !.who = LocalOwner]
  <2>1. CASE AskBecomes(v, a) /\ crossed' = (crossed \/ Cross(v) \/ UnderTab(ask[v].tab)) /\ UNCHANGED tab
    <3>1. AskTyped(a, Len(issued))
      BY <1>1, <1>9, HearNobodyDoes DEF AskTyped, Now, Pending, Named, WhoAmI, Settled
    <3>2. UNCHANGED <<jar, saved, tab, serverVars, left>> /\ crossed' \in BOOLEAN
      BY <1>1, <1>9, <2>1, HearNobodyDoes DEF Cross, UnderTab
    <3> HIDE DEF a
    <3> QED BY <1>1, <2>1, <3>1, <3>2, TypesStay
  <2> QED BY <1>8, <1>9, <2>1, HearNobodyDoes DEF WhoAmI, Settled
<1>10. CASE HearClaim(v)
  <2>1. ask[v].pc = "claimed" /\ ask[v].tab \in Tabs /\ UNCHANGED <<serverVars, crossed>>
    BY <1>10, HearClaimDoes, AskShape
  <2>2. CASE ask[v].result = "ok"
    <3>1. TabBecomes(ask[v].tab, [tab[ask[v].tab] EXCEPT !.token = ask[v].token])
      BY <1>10, <2>2, HearClaimDoes
    <3>2. [tab[ask[v].tab] EXCEPT !.token = ask[v].token].token <= Len(issued)
      BY <1>1, <2>1 DEF TabStates
    <3>3. AskBecomes(v, Now(v, "sent", ask[v].token, TRUE, "none"))
      BY <1>10, <2>2, HearClaimDoes
    <3>4. jar' = ask[v].token /\ saved' = ask[v].token /\ left' = FALSE
      BY <1>10, <2>2, HearClaimDoes
    <3> QED BY <1>1, <1>3, <2>1, <3>1, <3>2, <3>3, <3>4, TypesStay
  <2>3. CASE ask[v].result # "ok"
    BY <1>8, <1>10, <2>1, <2>3, HearClaimDoes
  <2> QED BY <2>2, <2>3
<1>11. CASE HearWork(v)
  <2>1. AskBecomes(v, Finished) /\ UNCHANGED <<jar, saved, tab, serverVars, left, crossed>>
    BY <1>11, OverShape DEF HearWork, browserVars
  <2> QED BY <1>1, <1>2, <2>1, TypesStay
<1>12. CASE HearSession(v)
  <2>1. /\ ask[v].tab \in Tabs /\ ask[v].token \in 1 .. Len(issued) /\ AskBecomes(v, Finished)
        /\ jar' = ask[v].token /\ saved' = ask[v].token /\ left' = FALSE /\ UNCHANGED <<serverVars, crossed>>
    <3>1. Named(ask[v]) /\ ask[v].pc = "answered"
      BY <1>12 DEF HearSession, Settled, Named
    <3>2. ask[v].token # 0
      BY <1>1, <3>1 DEF AskTyped
    <3>3. ask[v].token \in 1 .. Len(issued)
      BY <1>1, <3>2
    <3>4. ask[v].tab \in Tabs
      BY <3>1, AskShape
    <3> QED BY <1>12, <3>3, <3>4, HearSessionDoes
  <2> DEFINE t == [tab[ask[v].tab] EXCEPT !.token = ask[v].token, !.user = issued[ask[v].token].user]
  <2>2. TabBecomes(ask[v].tab, t)
    BY <1>12, <2>1, HearSessionDoes, UserShown
  <2>3. t.token <= Len(issued)
    BY <1>1, <2>1 DEF TabStates
  <2> HIDE DEF t
  <2> QED BY <1>1, <1>2, <2>1, <2>2, <2>3, TypesStay
<1>13. CASE HearLogout(v)
  <2> DEFINE t == [tab[ask[v].tab] EXCEPT !.token = 0, !.user = Nobody, !.retry = TRUE]
  <2>1. /\ ask[v].tab \in Tabs /\ AskBecomes(v, Finished) /\ TabBecomes(ask[v].tab, t)
        /\ jar' \in {jar, 0} /\ saved' = 0 /\ left' = TRUE /\ UNCHANGED <<serverVars, crossed>>
    BY <1>13, HearLogoutDoes, AskShape DEF Settled
  <2>2. t.token <= Len(issued)
    BY <1>1, <2>1 DEF TabStates
  <2> HIDE DEF t
  <2> QED BY <1>1, <1>2, <2>1, <2>2, TypesStay
<1>14. CASE HearDeleted(v)
  <2> DEFINE a == [pc |-> "sent", tab |-> ask[v].tab, kind |-> "logout", who |-> ask[v].who,
                   token |-> jar', retry |-> TRUE, result |-> "none"]
  <2>1. /\ ask[v].tab \in Tabs /\ AskBecomes(v, a) /\ jar' \in {jar, 0}
        /\ UNCHANGED <<serverVars, saved, tab, left, crossed>>
    BY <1>14, HearDeletedDoes, AskShape DEF Settled
  <2>2. AskTyped(a, Len(issued))
    BY <1>1, <2>1 DEF AskTyped, Pending, Named, Kinds
  <2> HIDE DEF a
  <2> QED BY <1>1, <2>1, <2>2, TypesStay
<1> QED BY <1>4, <1>5, <1>6, <1>7, <1>9, <1>10, <1>11, <1>12, <1>13, <1>14

LEMMA TypedServes ==
  ASSUME WebTypes, NEW v \in Visits,
         \/ Unauthorized(v) \/ ServeMe(v) \/ ServeRegister(v) \/ ServeLogout(v) \/ ServeRefresh(v) \/ ServeClaim(v)
         \/ \E right \in BOOLEAN : ServeLogin(v, right) \/ ServeDelete(v, right)
  PROVE  WebTypes'
<1>1. /\ {jar, saved} \subseteq 0 .. Len(issued) /\ {left, crossed} \subseteq BOOLEAN /\ Len(issued) \in Nat
      /\ AskTyped(ask[v], Len(issued)) /\ ask[v].token \in 0 .. Len(issued) /\ ask[v].retry \in BOOLEAN
      /\ people \subseteq People /\ issued \in Seq(Issues) /\ ask[v].who \in People \cup {Nobody}
      /\ \A r \in 1 .. Len(issued) : issued[r] \in Issues /\ issued[r].user \in people \cup {Nobody}
  BY AskShape DEF WebTypes, AskTyped
<1>2. ASSUME NEW pc \in PCs, NEW token \in Nat, NEW result \in Results \ {"lost"}, NEW n \in Nat,
             AskTo(v, pc, token, result), ask[v].pc \notin {"new", "over"}, token <= n,
             token = 0 => result # "ok" \/ ask[v].kind \in {"logout", "delete"}
      PROVE  \E a : AskBecomes(v, a) /\ AskTyped(a, n)
  <2>1. AskBecomes(v, Now(v, pc, token, ask[v].retry, result))
    BY <1>2, AskToShape
  <2>2. AskTyped(Now(v, pc, token, ask[v].retry, result), n)
    BY <1>1, <1>2 DEF AskTyped, Now, Pending, Named
  <2> QED BY <2>1, <2>2
<1>3. ASSUME NEW a, AskBecomes(v, a) /\ AskTyped(a, Len(issued)), UNCHANGED <<serverVars, browserVars, left, crossed>>
      PROVE  WebTypes'
  BY <1>1, <1>3, TypesStay DEF browserVars
<1>4. ASSUME UNCHANGED <<browserVars, deployVars, left, crossed>>, people' \subseteq People,
             issued' \in Seq(Issues), Len(issued') >= Len(issued),
             \A r \in 1 .. Len(issued') : issued'[r].user \in people' \cup {Nobody},
             \E a : AskBecomes(v, a) /\ AskTyped(a, Len(issued'))
      PROVE  WebTypes'
  <2>1. PICK a : AskBecomes(v, a) /\ AskTyped(a, Len(issued'))
    BY <1>4
  <2>2. {jar', saved'} \subseteq 0 .. Len(issued') /\ UNCHANGED tab /\ {left', crossed'} \subseteq BOOLEAN
    BY <1>1, <1>4 DEF browserVars
  <2> QED BY <1>4, <2>1, <2>2, TypesKept
<1>5. ASSUME NEW u \in People, NEW f \in Nat, Issue(u, f), people' = people \cup {u}
      PROVE  /\ issued' \in Seq(Issues) /\ Len(issued') = Len(issued) + 1
             /\ \A r \in 1 .. Len(issued') : issued'[r].user \in people' \cup {Nobody}
             /\ people' \subseteq People
  <2>1. \A r \in 1 .. Len(issued) : issued'[r] = issued[r]
    BY <1>5, IssueShape
  <2>2. Len(issued') = Len(issued) + 1 /\ issued'[Len(issued) + 1].user = u /\ issued' \in Seq(Issues)
    BY <1>5, IssueShape
  <2> QED BY <1>1, <1>5, <2>1, <2>2
<1>6. ASSUME NEW rs, issued' = Revoked(rs), UNCHANGED people
      PROVE  /\ issued' \in Seq(Issues) /\ Len(issued') = Len(issued) /\ people' \subseteq People
             /\ \A r \in 1 .. Len(issued') : issued'[r].user \in people' \cup {Nobody}
  BY <1>1, <1>6, RevokedShape
<1>7. CASE Unauthorized(v)
  BY <1>1, <1>2, <1>3, <1>7 DEF Unauthorized, PCs, Results
<1>8. CASE ServeMe(v)
  <2>1. Known(ask[v].token) => ask[v].token # 0
    BY DEF Known
  <2> DEFINE result == IF Known(ask[v].token) THEN "ok" ELSE "error"
  <2>2. result \in Results \ {"lost"} /\ (ask[v].token = 0 => result # "ok")
    BY <2>1 DEF Results
  <2>3. AskTo(v, "answered", ask[v].token, result) /\ ask[v].pc = "sent"
    BY <1>8 DEF ServeMe
  <2> HIDE DEF result
  <2>4. \E a : AskBecomes(v, a) /\ AskTyped(a, Len(issued))
    <3>1. AskBecomes(v, Now(v, "answered", ask[v].token, ask[v].retry, result))
      BY <1>1, <2>2, <2>3, AskToShape DEF PCs
    <3>2. AskTyped(Now(v, "answered", ask[v].token, ask[v].retry, result), Len(issued))
      BY <1>1, <2>2, <2>3 DEF AskTyped, Now, Pending, Named, Results
    <3> HIDE DEF Now
    <3> QED BY <3>1, <3>2
  <2> QED BY <1>3, <1>8, <2>4 DEF ServeMe
<1>9. ASSUME NEW right \in BOOLEAN, ServeLogin(v, right) PROVE WebTypes'
  <2>1. /\ ask[v].pc = "sent" /\ ask[v].kind = "login"
        /\ UNCHANGED <<deployVars, outsideVars, people, browserVars, left, crossed>>
    BY <1>9 DEF ServeLogin
  <2>2. CASE right /\ ask[v].who \in people \ inactive
    <3>1. Issue(ask[v].who, NewFamily) /\ AskTo(v, "answered", Len(issued) + 1, "ok")
      BY <1>9, <2>2 DEF ServeLogin
    <3>2. NewFamily \in Nat /\ ask[v].who \in People /\ people' = people \cup {ask[v].who}
      BY <1>1, <2>1, <2>2 DEF NewFamily
    <3>3. \E a : AskBecomes(v, a) /\ AskTyped(a, Len(issued'))
      BY <1>1, <1>2, <1>5, <2>1, <3>1, <3>2 DEF PCs, Results
    <3> QED BY <1>1, <1>4, <1>5, <2>1, <3>1, <3>2, <3>3
  <2>3. CASE ~(right /\ ask[v].who \in people \ inactive)
    <3> DEFINE result == IF right /\ ask[v].who \in people THEN "error" ELSE "401"
    <3>1. AskTo(v, "answered", 0, result) /\ UNCHANGED issued /\ result \in {"error", "401"}
      BY <1>9, <2>3 DEF ServeLogin
    <3> HIDE DEF result
    <3>2. \E a : AskBecomes(v, a) /\ AskTyped(a, Len(issued))
      <4>1. "answered" \in PCs /\ result \in Results \ {"lost"} /\ 0 <= Len(issued) /\ result # "ok"
        BY <1>1, <3>1 DEF PCs, Results
      <4> QED BY <1>1, <1>2, <2>1, <3>1, <4>1
    <3> QED BY <1>1, <1>3, <2>1, <3>1, <3>2 DEF serverVars
  <2> QED BY <2>2, <2>3
<1>10. CASE ServeRegister(v)
  <2>1. ask[v].pc = "sent" /\ ask[v].kind = "register" /\ UNCHANGED <<deployVars, outsideVars, browserVars, left, crossed>>
    BY <1>10 DEF ServeRegister
  <2>a. ask[v].who \in People
    BY <1>1, <2>1 DEF AskTyped
  <2>2. CASE ask[v].who \notin people
    <3>1. Issue(ask[v].who, NewFamily) /\ AskTo(v, "answered", Len(issued) + 1, "ok") /\ people' = people \cup {ask[v].who}
      BY <1>10, <2>2 DEF ServeRegister
    <3>2. NewFamily \in Nat
      BY <1>1 DEF NewFamily
    <3>3. \E a : AskBecomes(v, a) /\ AskTyped(a, Len(issued'))
      BY <1>1, <1>2, <1>5, <2>1, <2>2, <2>a, <3>1, <3>2 DEF PCs, Results
    <3> QED BY <1>1, <1>4, <1>5, <2>1, <2>2, <2>a, <3>1, <3>2, <3>3
  <2>3. CASE ask[v].who \in people
    <3>1. AskTo(v, "answered", 0, "error") /\ UNCHANGED <<people, issued>>
      BY <1>10, <2>3 DEF ServeRegister
    <3>2. \E a : AskBecomes(v, a) /\ AskTyped(a, Len(issued))
      BY <1>1, <1>2, <2>1, <3>1 DEF PCs, Results
    <3> QED BY <1>1, <1>3, <2>1, <3>1, <3>2 DEF serverVars
  <2> QED BY <2>2, <2>3
<1>11. CASE ServeLogout(v)
  <2>1. /\ ask[v].pc = "sent" /\ ask[v].kind = "logout" /\ AskTo(v, "answered", 0, "ok")
        /\ UNCHANGED <<deployVars, people, browserVars, left, crossed>>
        /\ issued' = issued \/ issued' = Revoked(FamilyOf(ask[v].token))
    BY <1>11 DEF ServeLogout
  <2>2. /\ issued' \in Seq(Issues) /\ Len(issued') = Len(issued) /\ people' \subseteq People
        /\ \A r \in 1 .. Len(issued') : issued'[r].user \in people' \cup {Nobody}
    BY <1>1, <1>6, <2>1
  <2>3. \E a : AskBecomes(v, a) /\ AskTyped(a, Len(issued'))
    BY <1>1, <1>2, <2>1, <2>2 DEF PCs, Results
  <2> QED BY <1>1, <1>4, <2>1, <2>2, <2>3
<1>12. CASE ServeRefresh(v)
  <2> DEFINE r == ask[v].token
  <2>1. ask[v].pc = "refreshing" /\ UNCHANGED <<deployVars, people, browserVars, left, crossed>>
    BY <1>12, ServeRefreshDoes
  <2>2. ASSUME NEW result \in {"ok", "403"}, NEW fresh \in BOOLEAN, Live(r),
               AskBecomes(v, Now(v, "refreshed", Len(issued) + 1, ask[v].retry, result)),
               issued' = Append(Revoked({r}), [issued[r] EXCEPT !.fresh = fresh])
        PROVE  WebTypes'
    <3> DEFINE new == [issued[r] EXCEPT !.fresh = fresh]
    <3>1. AskBecomes(v, Now(v, "refreshed", Len(issued) + 1, ask[v].retry, result))
      BY <2>2
    <3>2. issued' = Append(Revoked({r}), new)
      BY <2>2
    <3>3. new \in Issues /\ new.user \in people \cup {Nobody}
      BY <1>1, <2>2 DEF Live, Known, Issues
    <3> HIDE DEF new
    <3>4. /\ Revoked({r}) \in Seq(Issues) /\ Len(Revoked({r})) = Len(issued)
          /\ \A s \in 1 .. Len(issued) : Revoked({r})[s].user \in people \cup {Nobody}
      BY <1>1, RevokedShape
    <3>5. /\ issued' \in Seq(Issues) /\ Len(issued') = Len(issued) + 1
          /\ \A s \in 1 .. Len(issued') : issued'[s].user \in people \cup {Nobody}
      <4> DEFINE old == Revoked({r})
      <4>1. old \in Seq(Issues) /\ Len(old) = Len(issued) /\ \A s \in 1 .. Len(issued) : old[s].user \in people \cup {Nobody}
        BY <3>4
      <4>2. issued' = Append(old, new)
        BY <3>2
      <4> HIDE DEF old
      <4>3. /\ issued' \in Seq(Issues) /\ Len(issued') = Len(issued) + 1 /\ issued'[Len(issued) + 1] = new
            /\ \A s \in 1 .. Len(issued) : issued'[s] = old[s]
        BY <3>3, <4>1, <4>2, AppendShape
      <4>4. \A s \in 1 .. Len(issued') : s = Len(issued) + 1 \/ s \in 1 .. Len(issued)
        BY <1>1, <4>3
      <4> QED BY <3>3, <4>1, <4>3, <4>4
    <3>6. AskTyped(Now(v, "refreshed", Len(issued) + 1, ask[v].retry, result), Len(issued'))
      BY <1>1, <2>1, <3>5 DEF AskTyped, Now, Pending, Named
    <3>7. Len(issued') >= Len(issued) /\ people' \subseteq People /\ people' = people
      BY <1>1, <2>1, <3>5
    <3> QED BY <1>4, <2>1, <3>1, <3>5, <3>6, <3>7
  <2>3. ASSUME AskBecomes(v, Now(v, "refreshed", r, ask[v].retry, "401")), NEW rs,
               issued' = issued \/ issued' = Revoked(rs)
        PROVE  WebTypes'
    <3>3. /\ issued' \in Seq(Issues) /\ Len(issued') = Len(issued) /\ people' \subseteq People
          /\ \A s \in 1 .. Len(issued') : issued'[s].user \in people' \cup {Nobody}
      BY <1>1, <1>6, <2>1, <2>3
    <3>4. AskTyped(Now(v, "refreshed", r, ask[v].retry, "401"), Len(issued'))
      BY <1>1, <2>1, <3>3 DEF AskTyped, Now, Pending, Named
    <3> QED BY <1>1, <1>4, <2>1, <2>3, <3>3, <3>4
  <2> HIDE DEF r, Now
  <2> QED BY <1>12, <2>2, <2>3, ServeRefreshDoes DEF r
<1>13. CASE ServeClaim(v)
  <2>1. /\ ask[v].pc = "claiming" /\ people' = people \cup {LocalOwner} /\ Issue(LocalOwner, NewFamily)
        /\ AskTo(v, "claimed", Len(issued) + 1, "ok") /\ UNCHANGED <<deployVars, browserVars, left, crossed>>
    BY <1>13 DEF ServeClaim
  <2>2. NewFamily \in Nat /\ LocalOwner \in People
    BY <1>1 DEF NewFamily
  <2>3. \E a : AskBecomes(v, a) /\ AskTyped(a, Len(issued'))
    BY <1>1, <1>2, <1>5, <2>1, <2>2 DEF PCs, Results
  <2> QED BY <1>1, <1>4, <1>5, <2>1, <2>2, <2>3
<1>14. ASSUME NEW right \in BOOLEAN, ServeDelete(v, right) PROVE WebTypes'
  <2>1. ask[v].pc = "sent" /\ ask[v].kind = "delete" /\ UNCHANGED <<deployVars, browserVars, left, crossed>>
    BY <1>14 DEF ServeDelete
  <2>2. ASSUME NEW result \in {"error", "401"}, AskTo(v, "answered", 0, result), UNCHANGED <<people, issued, outsideVars>>
        PROVE  WebTypes'
    <3>1. \E a : AskBecomes(v, a) /\ AskTyped(a, Len(issued))
      BY <1>1, <1>2, <2>1, <2>2 DEF PCs, Results
    <3> QED BY <1>1, <1>3, <2>1, <2>2, <3>1 DEF serverVars
  <2>3. ASSUME NEW u, AskTo(v, "answered", 0, "ok"), people' = people \ {u}, issued' = Disowned(u)
        PROVE  WebTypes'
    <3>1. \E a : AskBecomes(v, a) /\ AskTyped(a, Len(issued))
      BY <1>1, <1>2, <2>1, <2>3 DEF PCs, Results
    <3>2. /\ issued' \in Seq(Issues) /\ Len(issued') = Len(issued) /\ people' \subseteq People
          /\ \A r \in 1 .. Len(issued') : issued'[r].user \in people' \cup {Nobody}
      BY <1>1, <2>3, DisownedShape
    <3> QED BY <1>1, <1>4, <2>1, <3>1, <3>2
  <2> QED BY <1>14, <2>2, <2>3 DEF ServeDelete, outsideVars
<1> QED BY <1>7, <1>8, <1>9, <1>10, <1>11, <1>12, <1>13, <1>14

LEMMA TypedSteps == WebTypes /\ [WebSessionNext]_sessionVars => WebTypes'
<1> SUFFICES ASSUME WebTypes, [WebSessionNext]_sessionVars PROVE WebTypes'
  OBVIOUS
<1>1. ASSUME NEW r \in 1 .. MaxIssued, AccessExpires(r) PROVE WebTypes'
  <2> DEFINE old == [issued[r] EXCEPT !.fresh = FALSE]
  <2>1. r \in 1 .. Len(issued) /\ issued' = [issued EXCEPT ![r] = old] /\ old \in Issues /\ old.user = issued[r].user
    <3>1. r \in 1 .. Len(issued) /\ issued[r] \in Issues
      BY <1>1 DEF AccessExpires, Valid, WebTypes
    <3>2. old \in Issues /\ old.user = issued[r].user
      BY <3>1 DEF Issues
    <3>3. issued' = [issued EXCEPT ![r] = old]
      BY <1>1, <3>1 DEF AccessExpires, Issues
    <3> QED BY <3>1, <3>2, <3>3
  <2> HIDE DEF old
  <2>2. issued \in Seq(Issues)
    BY DEF WebTypes
  <2>3. issued' \in Seq(Issues) /\ Len(issued') = Len(issued)
        /\ \A s \in 1 .. Len(issued) : issued'[s].user = issued[s].user
    BY <2>1, <2>2
  <2> QED BY <1>1, <2>3 DEF AccessExpires, WebTypes, deployVars, browserVars
<1>2. ASSUME NEW b \in Tabs, Reload(b) PROVE WebTypes'
  <2>1. Closed \in TabStates /\ Closed.token = 0
    BY DEF Closed, TabStates
  <2>2. tab' = [tab EXCEPT ![b] = Closed] /\ UNCHANGED <<serverVars, jar, saved, ask, left, crossed>>
    BY <1>2 DEF Reload
  <2>3. tab' \in [Tabs -> TabStates] /\ \A c \in Tabs : tab'[c].token <= Len(issued)
    BY <2>1, <2>2 DEF WebTypes
  <2> QED BY <2>2, <2>3 DEF WebTypes, serverVars, deployVars
<1>3. ASSUME NEW v \in Visits, NEW b \in Tabs, NEW kind \in Kinds, NEW who \in People \cup {Nobody},
             Begin(v, b, kind, who), kind \in {"login", "register"} => who \in People
      PROVE  WebTypes'
  <2> DEFINE a == [pc |-> "sent", tab |-> b, kind |-> kind, who |-> who, retry |-> TRUE,
                   token |-> IF kind = "logout" THEN jar ELSE Token(b), result |-> "none"]
             t == [tab[b] EXCEPT !.token = Token(b), !.retry = FALSE]
  <2>1. AskBecomes(v, a) /\ TabBecomes(b, t) /\ UNCHANGED <<serverVars, jar, saved, left>>
    BY <1>3, BeginDoes
  <2>2. {jar, saved} \subseteq 0 .. Len(issued) /\ tab[b].token \in Nat /\ tab[b].token <= Len(issued) /\ Len(issued) \in Nat
        /\ tab[b] \in TabStates
    BY TabShape DEF WebTypes
  <2>3. Token(b) \in 0 .. Len(issued)
    BY <2>2 DEF Token
  <2>4. t.token <= Len(issued)
    BY <2>2, <2>3 DEF TabStates
  <2>5. AskTyped(a, Len(issued))
    BY <1>3, <2>2, <2>3 DEF AskTyped, Pending, Named
  <2>6. crossed' \in BOOLEAN /\ left \in BOOLEAN
    BY <1>3, BeginDoes DEF WebTypes, CrossTab, Cross, UnderTab
  <2> HIDE DEF a, t
  <2> QED BY <2>1, <2>2, <2>4, <2>5, <2>6, TypesStay
<1>4. ASSUME NEW v \in Visits, NEW b \in Tabs,
             \/ Mount(v, b) \/ WhoIsIt(v, b) \/ Work(v, b) \/ SignOut(v, b) \/ DeleteAccount(v, b)
             \/ \E kind \in {"login", "register"}, who \in People : SignIn(v, b, kind, who)
      PROVE  WebTypes'
  BY <1>3, <1>4 DEF Mount, WhoIsIt, Work, SignOut, DeleteAccount, SignIn, Kinds
<1>5. CASE UNCHANGED sessionVars
  BY <1>5 DEF sessionVars, serverVars, browserVars, deployVars, WebTypes
<1>6. ASSUME NEW u \in People, ResetPassword(u) \/ Deactivate(u) PROVE WebTypes'
  <2>1. /\ issued' \in Seq(Issues) /\ Len(issued') = Len(issued)
        /\ \A r \in 1 .. Len(issued) : issued'[r].user = issued[r].user
    <3>1. issued' = issued \/ issued' = Revoked(TokensOf(u))
      BY <1>6 DEF ResetPassword, Deactivate
    <3>2. issued \in Seq(Issues)
      BY DEF WebTypes
    <3> QED BY <3>1, <3>2, RevokedShape
  <2>2. UNCHANGED <<onDesktop, cookieDomain, people, jar, saved, tab, ask, left, crossed>>
    BY <1>6 DEF ResetPassword, Deactivate, deployVars, browserVars
  <2> QED BY <2>1, <2>2 DEF WebTypes
<1>7. CASE WebSessionNext
  BY <1>1, <1>2, <1>4, <1>6, <1>7, TypedServes, TypedHears DEF WebSessionNext
<1> QED BY <1>5, <1>7

-----------------------------------------------------------------------------
(* WebSession: the inductive invariant *)

AsksWho(a) == Pending(a) /\ a.kind \in {"mount", "resolve"}
\* It changes whose session it is, in the only tab that is open.
Strong(a) == OfSession(a) /\ (a.kind \in Session \/ a.pc \in {"claiming", "claimed"})

\* The tabs that are not the only one.
Crowded == {b \in Tabs : UnderTab(b)}

\* One request about the session at a time.
OneAtATime ==
  /\ \A v, w \in Visits : OfSession(ask[v]) /\ OfSession(ask[w]) => v = w
  /\ \A v \in Visits : Strong(ask[v]) => ask[v].tab \notin Crowded

\* What a tab shows while it asks.
AskFits(a, t) ==
  /\ AsksWho(a) => /\ t.user = Nobody /\ ~t.retry
                   /\ IF a.kind = "mount" THEN t.loading ELSE onDesktop /\ ~t.loading
  /\ a.kind \in {"login", "register"} => ~onDesktop /\ ~t.loading /\ ~t.retry
  /\ a.kind \in {"logout", "delete"} => t.user # Nobody
  /\ a.pc \in {"claiming", "claimed"} => AsksWho(a)
  /\ OfSession(a) => a.result # "lost"
TabFits(t) == (t.user # Nobody => ~t.retry) /\ (t.user # Nobody \/ t.retry => ~t.loading)
Asked ==
  /\ \A v, w \in Visits : AsksWho(ask[v]) /\ AsksWho(ask[w]) /\ ask[v].tab = ask[w].tab => v = w
  /\ \A v \in Visits : Pending(ask[v]) => AskFits(ask[v], tab[ask[v].tab])
  /\ \A b \in Tabs : TabFits(tab[b])

\* It is live, or its session expired or was reset.
Sound(r) == r # 0 /\ (Live(r) \/ r \in ended)

\* The tokens of the requests about the session.
Bears(a) ==
  /\ a.pc = "refreshing" => a.token = jar
  /\ a.pc = "refreshed" => /\ a.result \in {"ok", "403", "401"} /\ ~Live(jar)
                           /\ a.result # "401" => Sound(a.token)
  /\ a.kind = "logout" =>
       /\ a.pc \in {"sent", "answered"}
       /\ IF a.pc = "sent" THEN a.token = jar ELSE a.result = "ok" /\ ~Live(jar)
  /\ a.pc = "claimed" => a.result = "ok" /\ Sound(a.token)
  /\ a.kind \in {"login", "register"} /\ a.pc = "answered" /\ a.result = "ok" => Sound(a.token)
Carried == \A v \in Visits : Pending(ask[v]) => Bears(ask[v])

\* A refresh was answered with a token that the browser has not heard of.
Renewed(a) == a.pc = "refreshed" /\ a.result \in {"ok", "403"}
\* The session ends whatever comes.
Ending(a) ==
  \/ a.kind = "logout" /\ a.pc \in {"sent", "answered"}
  \/ a.kind = "delete" /\ a.pc = "answered" /\ a.result = "ok"
\* The user of its token will be shown.
Shows(a) == AsksWho(a) /\ (a.pc = "sent" \/ (a.pc = "answered" /\ a.result = "ok"))

\* The tokens that renew the session of the browser, or will once they are heard of.
Bearers == {r \in 1 .. Len(issued) : (r = jar /\ Live(jar)) \/ \E v \in Visits : Renewed(ask[v]) /\ r = ask[v].token}
Renews == \E r \in Bearers : Live(r)
\* What they renew is the session of t's user, and there is one, unless that of t was ended.
Backed(t) ==
  /\ \A r \in Bearers : issued[r].user = issued[t].user
  /\ Renews \/ t \in ended
SavedOwned == saved = 0 \/ Backed(saved)
TabOwned(b) ==
  /\ tab[b].token = 0 \/ Backed(tab[b].token)
  /\ tab[b].user # Nobody => tab[b].token # 0 /\ tab[b].user = issued[tab[b].token].user
AskOwned(v) ==
  Shows(ask[v]) /\ ask[v].token # 0 =>
    /\ Backed(ask[v].token) /\ tab[ask[v].tab].token # 0
    /\ issued[tab[ask[v].tab].token].user = issued[ask[v].token].user
Unended == \A v \in Visits : ~Ending(ask[v])
Owned ==
  Unended => /\ SavedOwned
             /\ \A b \in Tabs : TabOwned(b)
             /\ \A v \in Visits : AskOwned(v)
LeftOver == left => ~Live(jar) /\ saved = 0 /\ \A v \in Visits : ~Renewed(ask[v])

-----------------------------------------------------------------------------
(* WebSession: steps of one request, and what they leave alone *)

\* The step changes no request but v, and no tab but its own.
StepOf(v) ==
  /\ Pending(ask[v])
  /\ \A w \in Visits \ {v} : ask'[w] = ask[w]
  /\ \A c \in Tabs \ {ask[v].tab} : tab'[c] = tab[c]
  /\ Pending(ask'[v]) => ask'[v].tab = ask[v].tab
Moved(v, pc, token, result) ==
  /\ ask'[v].pc = pc /\ ask'[v].token = token /\ ask'[v].result = result
  /\ ask'[v].tab = ask[v].tab /\ ask'[v].kind = ask[v].kind
Gone(v) ==
  ask'[v].pc = "over" /\ ask'[v].token = 0 /\ ask'[v].result = "none" /\ ask'[v].tab = "none" /\ ask'[v].kind = "none"
TabElsewhere(v) == \A c \in Tabs \ {ask[v].tab} : tab'[c] = tab[c]

LEMMA MovedStep ==
  ASSUME NEW v \in Visits, NEW pc, NEW token, NEW retry, NEW result, Pending(ask[v]), TabElsewhere(v),
         AskBecomes(v, Now(v, pc, token, retry, result))
  PROVE  StepOf(v) /\ Moved(v, pc, token, result)
BY DEF AskBecomes, Now, StepOf, Moved, TabElsewhere

LEMMA GoneStep ==
  ASSUME NEW v \in Visits, Pending(ask[v]), TabElsewhere(v), AskBecomes(v, Finished)
  PROVE  StepOf(v) /\ Gone(v)
<1>1. ask'[v] = Finished /\ \A w \in Visits \ {v} : ask'[w] = ask[w]
  BY DEF AskBecomes
<1> QED BY <1>1, FinishedShape DEF StepOf, Gone, TabElsewhere

LEMMA StepTab ==
  ASSUME WebTypes, NEW v \in Visits, StepOf(v)
  PROVE  ask[v].tab \in Tabs /\ ask[v].kind \in Kinds
BY AskShape DEF StepOf, Pending

LEMMA OneKept ==
  ASSUME WebTypes, OneAtATime, NEW v \in Visits, StepOf(v),
         OfSession(ask'[v]) => OfSession(ask[v]) \/ ~Cross(v),
         Strong(ask'[v]) => Strong(ask[v]) \/ ~UnderTab(ask[v].tab)
  PROVE  OneAtATime'
<1> DEFINE b == ask[v].tab
<1>1. \A w \in Visits \ {v} : ask'[w] = ask[w]
  BY DEF StepOf
<1>2. \A w \in Visits \ {v} : OfSession(ask[w]) => ~OfSession(ask'[v])
  BY DEF OneAtATime, Cross
<1>3. ASSUME NEW x \in Visits, NEW y \in Visits, OfSession(ask'[x]), OfSession(ask'[y]) PROVE x = y
  BY <1>1, <1>2, <1>3 DEF OneAtATime
<1>4. b \in Tabs /\ Pending(ask[v])
  BY StepTab DEF StepOf
<1>5. b \in Crowded' => b \in Crowded
  <2> SUFFICES ASSUME b \in Crowded' PROVE b \in Crowded
    OBVIOUS
  <2>1. PICK c \in Tabs \ {b} : tab'[c] # Closed \/ \E w \in Visits : ask'[w].tab = c /\ ask'[w].pc \notin {"new", "over"}
    BY DEF Crowded, UnderTab, Busy, Closed
  <2>2. tab[c] # Closed \/ \E w \in Visits : ask[w].tab = c /\ ask[w].pc \notin {"new", "over"}
    BY <1>1, <2>1 DEF StepOf, Pending
  <2> QED BY <1>4, <2>1, <2>2 DEF Crowded, UnderTab, Busy
<1>6. ASSUME NEW w \in Visits, Strong(ask'[w]) PROVE ask'[w].tab \notin Crowded'
  <2>1. CASE w = v
    <3>1. ask'[v].tab = b
      BY <1>6, <2>1 DEF StepOf, Strong, OfSession, Pending
    <3>2. b \notin Crowded
      BY <1>4, <1>6, <2>1 DEF OneAtATime, Crowded
    <3> QED BY <1>5, <2>1, <3>1, <3>2
  <2>2. CASE w # v
    <3>1. ask'[w] = ask[w] /\ ask[w].tab \notin Crowded /\ ask[w].tab \in Tabs
      BY <1>1, <1>6, <2>2, AskShape DEF OneAtATime, Strong, OfSession
    <3>2. ask[w].tab = b
      BY <1>4, <3>1 DEF Crowded, UnderTab, Busy, Pending
    <3> QED BY <1>5, <3>1, <3>2
  <2> QED BY <2>1, <2>2
<1>7. \A w \in Visits : Strong(ask[w])' => ask'[w].tab \notin Crowded'
  BY <1>6 DEF Strong, OfSession, Session
<1>8. \A x, y \in Visits : OfSession(ask[x])' /\ OfSession(ask[y])' => x = y
  BY <1>3 DEF OfSession, Session
<1> QED BY <1>7, <1>8 DEF OneAtATime

LEMMA AskedKept ==
  ASSUME WebTypes, Asked, NEW v \in Visits, StepOf(v), UNCHANGED deployVars,
         Pending(ask'[v]) => AskFits(ask'[v], tab'[ask[v].tab]),
         AsksWho(ask'[v]) => AsksWho(ask[v]),
         TabFits(tab'[ask[v].tab]),
         \A w \in Visits \ {v} :
           Pending(ask[w]) /\ ask[w].tab = ask[v].tab => AskFits(ask[w], tab'[ask[v].tab])
  PROVE  Asked'
<1>1. \A w \in Visits \ {v} : ask'[w] = ask[w]
  BY DEF StepOf
<1>2. ASSUME NEW x \in Visits, NEW y \in Visits, AsksWho(ask'[x]), AsksWho(ask'[y]), ask'[x].tab = ask'[y].tab
      PROVE  x = y
  BY <1>1, <1>2 DEF Asked, StepOf, AsksWho
<1>3. \A b \in Tabs : TabFits(tab'[b])
  BY DEF Asked, StepOf
<1>4. onDesktop' = onDesktop
  BY DEF deployVars
<1>5. ASSUME NEW w \in Visits, Pending(ask'[w]) PROVE AskFits(ask[w], tab[ask[w].tab])'
  <2>1. AskFits(ask'[w], tab'[ask'[w].tab])
    <3>1. CASE w = v
      BY <1>5, <3>1 DEF StepOf
    <3>2. CASE w # v /\ ask[w].tab = ask[v].tab
      BY <1>1, <1>5, <3>2
    <3>3. CASE w # v /\ ask[w].tab # ask[v].tab
      <4>1. Pending(ask[w]) /\ ask'[w] = ask[w] /\ ask[w].tab \in Tabs
        BY <1>1, <1>5, <3>3, AskShape DEF Pending
      <4>2. tab'[ask[w].tab] = tab[ask[w].tab]
        BY <3>3, <4>1 DEF StepOf
      <4> QED BY <4>1, <4>2 DEF Asked
    <3> QED BY <3>1, <3>2, <3>3
  <2> QED BY <1>4, <2>1 DEF AskFits, AsksWho
<1>6. \A w \in Visits : Pending(ask[w])' => AskFits(ask[w], tab[ask[w].tab])'
  BY <1>5 DEF Pending
<1>7. \A x, y \in Visits : AsksWho(ask[x])' /\ AsksWho(ask[y])' /\ ask'[x].tab = ask'[y].tab => x = y
  BY <1>2 DEF AsksWho, Pending
<1>8. \A b \in Tabs : TabFits(tab[b])'
  BY <1>3 DEF TabFits
<1> QED BY <1>6, <1>7, <1>8 DEF Asked

LEMMA CarriedKept ==
  ASSUME WebTypes, OneAtATime, Carried, NEW v \in Visits, StepOf(v),
         Pending(ask'[v]) => Bears(ask[v])',
         OfSession(ask[v]) \/ (jar' = jar /\ ended' = ended /\ \A r \in 0 .. Len(issued) : Live(r)' = Live(r))
  PROVE  Carried'
<1>1. \A w \in Visits \ {v} : ask'[w] = ask[w]
  BY DEF StepOf
<1>2. ASSUME NEW w \in Visits \ {v}, Pending(ask[w]) PROVE Bears(ask[w])'
  <2>1. Bears(ask[w]) /\ ask'[w] = ask[w]
    BY <1>1, <1>2 DEF Carried
  <2>2. CASE OfSession(ask[w])
    <3>1. jar' = jar /\ ended' = ended /\ \A r \in 0 .. Len(issued) : Live(r)' = Live(r)
      BY <2>2 DEF OneAtATime
    <3>2. jar \in 0 .. Len(issued) /\ ask[w].token \in 0 .. Len(issued)
      BY AskShape DEF WebTypes
    <3>3. Live(jar)' = Live(jar)
      BY <3>1, <3>2 DEF Live, Known
    <3>4. Sound(ask[w].token)' = Sound(ask[w].token)
      BY <2>1, <3>1, <3>2 DEF Sound, Live, Known
    <3> QED BY <2>1, <3>1, <3>3, <3>4 DEF Bears
  <2>3. CASE ~OfSession(ask[w])
    BY <2>1, <2>3 DEF Bears, OfSession, Session
  <2> QED BY <2>2, <2>3
<1>3. \A w \in Visits : Pending(ask[w])' => Bears(ask[w])'
  BY <1>1, <1>2 DEF Pending
<1> QED BY <1>3 DEF Carried

SameUsers == \A r \in 1 .. Len(issued) : issued'[r].user = issued[r].user

\* What was backed still is.
BackedAfter(t) ==
  /\ \A r \in Bearers' : issued'[r].user = issued'[t].user
  /\ Renews' \/ t \in ended'
BackedStays == \A t \in 1 .. Len(issued) : Backed(t) => BackedAfter(t)

LEMMA OwnedKept ==
  ASSUME WebTypes, Owned, NEW v \in Visits, StepOf(v),
         Unended' => /\ Unended /\ SameUsers /\ BackedStays
                     /\ SavedOwned' /\ (\A b \in Tabs : b = ask[v].tab => TabOwned(b)') /\ AskOwned(v)'
                     /\ tab[ask[v].tab].token # 0 =>
                          /\ tab'[ask[v].tab].token # 0
                          /\ issued'[tab'[ask[v].tab].token].user = issued[tab[ask[v].tab].token].user
  PROVE  Owned'
<1> SUFFICES ASSUME Unended'
             PROVE  SavedOwned' /\ (\A b \in Tabs : TabOwned(b)') /\ (\A w \in Visits : AskOwned(w)')
  BY DEF Owned
<1>1. /\ Unended /\ SameUsers /\ SavedOwned' /\ (\A b \in Tabs : b = ask[v].tab => TabOwned(b)') /\ AskOwned(v)'
      /\ BackedStays
      /\ tab[ask[v].tab].token # 0 =>
           /\ tab'[ask[v].tab].token # 0
           /\ issued'[tab'[ask[v].tab].token].user = issued[tab[ask[v].tab].token].user
  OBVIOUS
<1>2. \A b \in Tabs : TabOwned(b)
  BY <1>1 DEF Owned
<1>3. \A w \in Visits : AskOwned(w)
  BY <1>1 DEF Owned
<1>4. Len(issued) \in Nat /\ \A r \in 0 .. Len(issued) : r # 0 => issued'[r].user = issued[r].user
  BY <1>1 DEF WebTypes, SameUsers
<1>5. ASSUME NEW b \in Tabs, b # ask[v].tab PROVE TabOwned(b)'
  <2>1. tab'[b] = tab[b] /\ TabOwned(b)
    BY <1>2, <1>5 DEF StepOf
  <2>2. tab[b].token \in 0 .. Len(issued)
    BY TabShape DEF WebTypes
  <2>3. tab[b].token # 0 => BackedAfter(tab[b].token)
    BY <1>1, <1>4, <2>1, <2>2 DEF TabOwned, BackedStays
  <2> QED BY <1>1, <1>4, <2>1, <2>2, <2>3 DEF TabOwned, Backed, BackedAfter
<1>6. ASSUME NEW w \in Visits, w # v PROVE AskOwned(w)'
  <2>1. ask'[w] = ask[w] /\ AskOwned(w)
    BY <1>3, <1>6 DEF StepOf
  <2>2. ask[w].token \in 0 .. Len(issued)
    BY AskShape DEF WebTypes
  <2>3. Shows(ask[w]) => ask[w].tab \in Tabs /\ tab[ask[w].tab].token \in 0 .. Len(issued)
    BY AskShape, TabShape DEF Shows, AsksWho, Pending, WebTypes
  <2>4. Shows(ask[w]) /\ tab[ask[w].tab].token # 0 =>
          /\ tab'[ask[w].tab].token # 0
          /\ issued'[tab'[ask[w].tab].token].user = issued[tab[ask[w].tab].token].user
    <3>1. CASE ask[w].tab = ask[v].tab
      BY <1>1, <3>1
    <3>2. CASE ask[w].tab # ask[v].tab
      BY <1>4, <2>3, <3>2 DEF StepOf
    <3> QED BY <3>1, <3>2
  <2>5. Shows(ask[w])' <=> Shows(ask[w])
    BY <2>1 DEF Shows, AsksWho, Pending
  <2>6. Shows(ask[w]) /\ ask[w].token # 0 => BackedAfter(ask[w].token)
    BY <1>1, <1>4, <2>1, <2>2 DEF AskOwned, BackedStays
  <2>7. ASSUME Shows(ask[w]), ask[w].token # 0
        PROVE  /\ BackedAfter(ask[w].token) /\ tab'[ask[w].tab].token # 0
               /\ issued'[tab'[ask[w].tab].token].user = issued'[ask[w].token].user
    BY <1>4, <2>1, <2>2, <2>4, <2>6, <2>7 DEF AskOwned
  <2> QED BY <2>1, <2>5, <2>7 DEF AskOwned, Backed, BackedAfter
<1> QED BY <1>1, <1>5, <1>6

-----------------------------------------------------------------------------
(* WebSession: the steps of a request that leave the tokens of the browser alone *)

SessionSafe == OneAtATime /\ Asked /\ Carried /\ Owned /\ LeftOver

\* The tokens: which are live, and whose they are, for the same rows.
LEMMA LiveSame ==
  ASSUME WebTypes, \A r \in 1 .. Len(issued) : issued'[r].user = issued[r].user /\ issued'[r].revoked = issued[r].revoked,
         Len(issued') \in Nat, Len(issued') >= Len(issued),
         \E u \in People : people' \in {people, people \cup {u}}
  PROVE  /\ \A r \in 0 .. Len(issued) : Live(r)' = Live(r)
         /\ jar' = jar => Live(jar)' = Live(jar)
<1>1. Len(issued) \in Nat /\ jar \in 0 .. Len(issued)
  BY DEF WebTypes
<1>2. \A r \in 1 .. Len(issued) : issued[r].user \in people' <=> issued[r].user \in people
  BY DEF WebTypes
<1>3. \A r \in 0 .. Len(issued) : Live(r)' = Live(r)
  BY <1>1, <1>2 DEF Live, Known
<1>4. ASSUME jar' = jar PROVE Live(jar)' = Live(jar)
  BY <1>1, <1>3, <1>4 DEF Live, Known
<1> QED BY <1>3, <1>4

LEMMA QuietStep ==
  ASSUME WebTypes, SessionSafe, NEW v \in Visits, StepOf(v), UNCHANGED <<serverVars, jar, saved, tab, left>>,
         Pending(ask'[v]) => ask'[v].kind = ask[v].kind /\ Bears(ask'[v]),
         OfSession(ask'[v]) => ask'[v].result # "lost" /\ (OfSession(ask[v]) \/ ~Cross(v)),
         Strong(ask'[v]) => Strong(ask[v]) \/ ~UnderTab(ask[v].tab),
         ask'[v].pc \in {"claiming", "claimed"} => AsksWho(ask[v]),
         Shows(ask'[v]) => Shows(ask[v]) /\ ask'[v].token = ask[v].token,
         Ending(ask[v]) => Ending(ask'[v]),
         ~Renewed(ask[v]), ~Renewed(ask'[v])
  PROVE  SessionSafe'
<1>1. UNCHANGED <<onDesktop, people, issued, ended, jar, saved, tab, left>> /\ UNCHANGED deployVars
  BY DEF serverVars, deployVars, outsideVars
<1>2. ask[v].tab \in Tabs /\ ask[v].kind \in Kinds /\ Pending(ask[v])
  BY StepTab DEF StepOf
<1>3. OneAtATime'
  BY OneKept DEF SessionSafe
<1>4. Asked'
  <2>1. AskFits(ask[v], tab[ask[v].tab]) /\ TabFits(tab[ask[v].tab])
    BY <1>2 DEF SessionSafe, Asked
  <2>2. Pending(ask'[v]) => AskFits(ask'[v], tab'[ask[v].tab])
    BY <1>1, <1>2, <2>1 DEF AskFits, AsksWho
  <2>3. AsksWho(ask'[v]) => AsksWho(ask[v])
    BY <1>2 DEF AsksWho
  <2>4. \A w \in Visits \ {v} :
          Pending(ask[w]) /\ ask[w].tab = ask[v].tab => AskFits(ask[w], tab'[ask[v].tab])
    BY <1>1 DEF SessionSafe, Asked
  <2> QED BY <1>1, <2>1, <2>2, <2>3, <2>4, AskedKept DEF SessionSafe
<1>5. (\A r \in 0 .. Len(issued) : Live(r)' = Live(r)) /\ Live(jar)' = Live(jar)
      /\ Sound(ask[v].token)' = Sound(ask'[v].token)
  BY <1>1 DEF Sound, Live, Known
<1>6. Carried'
  <2>1. Pending(ask'[v]) => Bears(ask[v])'
    BY <1>1, <1>5 DEF Bears
  <2> QED BY <1>1, <1>5, <2>1, CarriedKept DEF SessionSafe
<1>7. \A w \in Visits : Renewed(ask'[w]) <=> Renewed(ask[w])
  BY DEF StepOf
<1>8. Bearers' = Bearers /\ Renews' = Renews
  <2>1. \A w \in Visits : Renewed(ask[w]) => ask'[w] = ask[w]
    BY DEF StepOf
  <2>2. Bearers' = Bearers
    BY <1>1, <1>7, <2>1 DEF Bearers, Live, Known, Renewed
  <2> QED BY <1>1, <2>2 DEF Renews, Live, Known
<1>9. Owned'
  <2>1. ASSUME Unended' PROVE Unended
    BY <2>1 DEF Unended, Ending, StepOf
  <2>2. ASSUME Unended PROVE SavedOwned' /\ (\A b \in Tabs : b = ask[v].tab => TabOwned(b)') /\ AskOwned(v)'
    <3>1. SavedOwned /\ TabOwned(ask[v].tab) /\ AskOwned(v)
      BY <1>2, <2>2 DEF SessionSafe, Owned
    <3>2. SavedOwned' /\ (\A b \in Tabs : b = ask[v].tab => TabOwned(b)')
      BY <1>1, <1>8, <3>1 DEF SavedOwned, TabOwned, Backed
    <3>3. AskOwned(v)'
      <4>1. ASSUME Shows(ask'[v]) PROVE ask'[v].tab = ask[v].tab /\ ask'[v].token = ask[v].token /\ Shows(ask[v])
        BY <4>1 DEF StepOf, Shows, AsksWho
      <4>2. Shows(ask[v])' = Shows(ask'[v])
        BY DEF Shows, AsksWho, Pending
      <4> QED BY <1>1, <1>8, <3>1, <4>1, <4>2 DEF AskOwned, Backed
    <3> QED BY <3>2, <3>3
  <2>3. BackedStays
    BY <1>1, <1>8 DEF BackedStays, BackedAfter, Backed
  <2> QED BY <1>1, <2>1, <2>2, <2>3, OwnedKept DEF SessionSafe, SameUsers
<1>10. LeftOver'
  <2>1. \A w \in Visits : Renewed(ask[w])' <=> Renewed(ask[w])
    BY <1>7 DEF Renewed
  <2> QED BY <1>1, <1>5, <2>1 DEF SessionSafe, LeftOver
<1> QED BY <1>3, <1>4, <1>6, <1>9, <1>10 DEF SessionSafe

LEMMA SafeUnauthorized ==
  ASSUME WebTypes, SessionSafe, NEW v \in Visits, Unauthorized(v) PROVE SessionSafe'
<1>1. /\ ask[v].pc = "sent" /\ ask[v].kind # "logout" /\ UNCHANGED <<serverVars, jar, saved, tab, left>>
      /\ AskTo(v, "answered", 0, "401")
  BY DEF Unauthorized, Authorized, browserVars
<1>2. StepOf(v) /\ Moved(v, "answered", 0, "401")
  BY <1>1, AskToShape, MovedStep DEF Pending, TabElsewhere, PCs, Results
<1> QED
  BY <1>1, <1>2, QuietStep DEF Moved, Pending, Bears, OfSession, Strong, Shows, AsksWho, Ending, Renewed, Session

LEMMA SafeServeMe ==
  ASSUME WebTypes, SessionSafe, NEW v \in Visits, ServeMe(v) PROVE SessionSafe'
<1> DEFINE result == IF Known(ask[v].token) THEN "ok" ELSE "error"
<1>1. /\ ask[v].pc = "sent" /\ ask[v].kind \in {"mount", "resolve", "work"}
      /\ UNCHANGED <<serverVars, jar, saved, tab, left>>
      /\ AskTo(v, "answered", ask[v].token, result) /\ result \in {"ok", "error"} /\ ask[v].token \in Nat
  BY AskShape DEF ServeMe, browserVars
<1> HIDE DEF result
<1>2. StepOf(v) /\ Moved(v, "answered", ask[v].token, result)
  BY <1>1, AskToShape, MovedStep DEF Pending, TabElsewhere, PCs, Results
<1> QED
  BY <1>1, <1>2, QuietStep DEF Moved, Pending, Bears, OfSession, Strong, Shows, AsksWho, Ending, Renewed, Session

\* A login, a registration or a deletion that is refused.
LEMMA SafeRefused ==
  ASSUME WebTypes, SessionSafe, NEW v \in Visits, NEW result \in {"401", "error"}, AskTo(v, "answered", 0, result),
         ask[v].pc = "sent", ask[v].kind \in {"login", "register", "delete"},
         UNCHANGED <<deployVars, outsideVars, people, issued, browserVars, left>>
  PROVE  SessionSafe'
<1>1. UNCHANGED <<serverVars, jar, saved, tab, left>>
  BY DEF serverVars, browserVars
<1>2. StepOf(v) /\ Moved(v, "answered", 0, result)
  BY <1>1, AskToShape, MovedStep DEF Pending, TabElsewhere, PCs, Results
<1> QED
  BY <1>1, <1>2, QuietStep DEF Moved, Pending, Bears, OfSession, Strong, Shows, AsksWho, Ending, Renewed, Session

LEMMA SafeHearUnauthorized ==
  ASSUME WebTypes, SessionSafe, NEW v \in Visits, HearUnauthorized(v), ~crossed' PROVE SessionSafe'
<1>1. /\ ask[v].pc = "answered" /\ ask[v].result = "401" /\ ~Cross(v) /\ Pending(ask[v])
      /\ UNCHANGED <<serverVars, jar, saved, tab, left>>
      /\ AskBecomes(v, Now(v, "refreshing", jar, FALSE, "401"))
  BY HearUnauthorizedDoes DEF browserVars, Pending
<1>2. StepOf(v) /\ Moved(v, "refreshing", jar, "401")
  BY <1>1, MovedStep DEF TabElsewhere
<1>3. ask[v].kind # "logout"
  BY <1>1 DEF SessionSafe, Carried, Bears
<1> QED
  BY <1>1, <1>2, <1>3, QuietStep
     DEF Moved, Pending, Bears, OfSession, Strong, Shows, AsksWho, Ending, Renewed, Session

LEMMA SafeHearWork ==
  ASSUME WebTypes, SessionSafe, NEW v \in Visits, HearWork(v) PROVE SessionSafe'
<1>1. /\ ask[v].pc = "answered" /\ Pending(ask[v]) /\ UNCHANGED <<serverVars, jar, saved, tab, left>>
      /\ AskBecomes(v, Finished)
      /\ ask[v].kind = "work" \/ (ask[v].kind \in {"login", "register", "delete"} /\ ask[v].result # "ok")
  BY OverShape DEF HearWork, browserVars, Settled, Pending
<1>2. StepOf(v) /\ Gone(v)
  BY <1>1, GoneStep DEF TabElsewhere
<1> QED
  BY <1>1, <1>2, QuietStep DEF Gone, Pending, Bears, OfSession, Strong, Shows, AsksWho, Ending, Renewed, Session

LEMMA SafeLose ==
  ASSUME WebTypes, SessionSafe, NEW v \in Visits, Lose(v), ~crossed' PROVE SessionSafe'
<1>1. /\ Pending(ask[v]) /\ UNCHANGED <<serverVars, jar, saved, tab, left>> /\ ~OfSession(ask[v])
      /\ AskBecomes(v, Now(v, "answered", ask[v].token, FALSE, "lost"))
  BY LoseDoes DEF browserVars, Pending
<1>2. StepOf(v) /\ Moved(v, "answered", ask[v].token, "lost")
  BY <1>1, MovedStep DEF TabElsewhere
<1>3. ask[v].kind \notin Session /\ ask[v].pc \in {"sent", "answered"}
  BY <1>1, AskShape DEF OfSession, Pending, PCs, SessionSafe, Carried, Bears, Session
<1> QED
  BY <1>1, <1>2, <1>3, QuietStep
     DEF Moved, Pending, Bears, OfSession, Strong, Shows, AsksWho, Ending, Renewed, Session

LEMMA SafeNobodyClaims ==
  ASSUME WebTypes, SessionSafe, NEW v \in Visits, HearNobody(v), ~crossed', ~NoUser(v) PROVE SessionSafe'
<1>1. /\ ask[v].pc = "answered" /\ AsksWho(ask[v]) /\ Pending(ask[v]) /\ ~Cross(v) /\ ~UnderTab(ask[v].tab)
      /\ UNCHANGED <<serverVars, jar, saved, tab, left>>
      /\ AskBecomes(v, [Now(v, "claiming", ask[v].token, ask[v].retry, "none") EXCEPT !.who = LocalOwner])
  BY HearNobodyDoes DEF WhoAmI, Settled, AsksWho, Pending
<1>2. Moved(v, "claiming", ask[v].token, "none")
  BY <1>1 DEF AskBecomes, Now, Moved
<1>3. StepOf(v)
  BY <1>1, <1>2 DEF AskBecomes, StepOf, Moved
<1> QED
  BY <1>1, <1>2, <1>3, QuietStep
     DEF Moved, Pending, Bears, OfSession, Strong, Shows, AsksWho, Ending, Renewed, Session

-----------------------------------------------------------------------------
(* WebSession: the steps of the server that make or end tokens *)

\* A request about the session of which the server makes one more token.
LEMMA IssueStep ==
  ASSUME WebTypes, SessionSafe, NEW v \in Visits, NEW u \in People, Issue(u, NewFamily),
         people' = people \cup {u}, UNCHANGED <<deployVars, ended, jar, saved, tab, left>>,
         OfSession(ask[v]), StepOf(v), ~Renewed(ask[v]), ask'[v].kind = ask[v].kind,
         ask'[v].token = Len(issued) + 1, ask'[v].result = "ok",
         \/ ask'[v].pc = "answered" /\ ask[v].kind \in {"login", "register"}
         \/ ask'[v].pc = "claimed" /\ ask[v].pc = "claiming"
  PROVE  SessionSafe'
<1>1. /\ Len(issued') = Len(issued) + 1 /\ Len(issued) \in Nat
      /\ \A r \in 1 .. Len(issued) : issued'[r] = issued[r]
      /\ issued'[Len(issued) + 1].user = u /\ ~issued'[Len(issued) + 1].revoked
  BY IssueShape DEF NewFamily, WebTypes
<1>2. ask[v].tab \in Tabs /\ ask[v].kind \in Kinds /\ Pending(ask[v]) /\ onDesktop' = onDesktop
  BY StepTab DEF StepOf, deployVars
<1>3. (\A r \in 0 .. Len(issued) : Live(r)' = Live(r)) /\ Live(jar)' = Live(jar)
  BY <1>1, LiveSame
<1>4. Sound(ask[v].token)'
  BY <1>1 DEF Sound, Live, Known
<1>5. AskFits(ask[v], tab[ask[v].tab])
  BY <1>2 DEF SessionSafe, Asked
<1>6. AsksWho(ask[v]) \/ ask[v].kind \in {"login", "register"}
  BY <1>5 DEF AskFits
<1>7. OneAtATime'
  BY <1>2, <1>6, OneKept DEF SessionSafe, Strong, Session, AsksWho
<1>8. Asked'
  <2>1. AskFits(ask'[v], tab'[ask[v].tab])
    BY <1>2, <1>5, <1>6 DEF AskFits, AsksWho, Pending
  <2>2. AsksWho(ask'[v]) => AsksWho(ask[v])
    BY <1>2 DEF AsksWho
  <2>3. TabFits(tab'[ask[v].tab]) /\ \A w \in Visits \ {v} :
          Pending(ask[w]) /\ ask[w].tab = ask[v].tab => AskFits(ask[w], tab'[ask[v].tab])
    BY <1>2 DEF SessionSafe, Asked
  <2> QED BY <2>1, <2>2, <2>3, AskedKept DEF SessionSafe
<1>9. Carried'
  <2>1. ask[v].kind # "logout" /\ Bears(ask[v])'
    BY <1>4, <1>6 DEF Bears, AsksWho
  <2> QED BY <2>1, CarriedKept DEF SessionSafe
<1>10. Bearers' = Bearers /\ (Renews => Renews')
  <2>1. \A w \in Visits : /\ Renewed(ask'[w]) <=> Renewed(ask[w])
                          /\ Renewed(ask[w]) => ask'[w] = ask[w]
    BY DEF StepOf, Renewed
  <2>2. \A w \in Visits : Renewed(ask[w]) => ask[w].token \in 0 .. Len(issued)
    BY AskShape DEF WebTypes
  <2>3. \A r : r \in Bearers' <=> r \in Bearers
    BY <1>1, <1>3, <2>1, <2>2 DEF Bearers, Renewed, Live, Known
  <2>4. Bearers' = Bearers /\ Bearers \subseteq 0 .. Len(issued)
    BY <2>3 DEF Bearers
  <2> QED BY <1>3, <2>4 DEF Renews
<1>11. ~Shows(ask'[v]) /\ ~Ending(ask[v])
  BY <1>6 DEF Shows, AsksWho, Ending
<1>12. Owned'
  <2>4. BackedStays
    BY <1>1, <1>10 DEF BackedStays, BackedAfter, Backed, Bearers
  <2>1. ASSUME Unended' PROVE Unended
    BY <1>11, <2>1 DEF Unended, Ending, StepOf
  <2>2. ASSUME Unended PROVE SavedOwned' /\ (\A b \in Tabs : b = ask[v].tab => TabOwned(b)')
    <3>1. SavedOwned /\ TabOwned(ask[v].tab)
      BY <1>2, <2>2 DEF SessionSafe, Owned
    <3>2. saved \in 0 .. Len(issued) /\ tab[ask[v].tab].token \in 0 .. Len(issued)
      BY <1>2, TabShape DEF WebTypes
    <3>3. saved = 0 \/ BackedAfter(saved)
      BY <2>4, <3>1, <3>2 DEF BackedStays, SavedOwned
    <3>4. tab[ask[v].tab].token = 0 \/ BackedAfter(tab[ask[v].tab].token)
      BY <2>4, <3>1, <3>2 DEF BackedStays, TabOwned
    <3>5. tab[ask[v].tab].user # Nobody => /\ tab[ask[v].tab].token # 0
                                          /\ tab[ask[v].tab].user = issued'[tab[ask[v].tab].token].user
      BY <1>1, <3>1, <3>2 DEF TabOwned
    <3> QED BY <3>3, <3>4, <3>5 DEF SavedOwned, TabOwned, Backed, BackedAfter
  <2>3. AskOwned(v)'
    BY <1>11 DEF AskOwned, Shows, AsksWho, Pending
  <2>5. tab[ask[v].tab].token # 0 => issued'[tab'[ask[v].tab].token].user = issued[tab[ask[v].tab].token].user
    BY <1>1, <1>2, TabShape DEF WebTypes
  <2> QED BY <1>1, <2>1, <2>2, <2>3, <2>4, <2>5, OwnedKept DEF SessionSafe, SameUsers
<1>13. LeftOver'
  <2>1. \A w \in Visits : Renewed(ask[w])' => Renewed(ask[w])
    BY DEF Renewed, StepOf
  <2> QED BY <1>3, <2>1 DEF SessionSafe, LeftOver
<1> QED BY <1>7, <1>8, <1>9, <1>12, <1>13 DEF SessionSafe

LEMMA SafeServeLogin ==
  ASSUME WebTypes, SessionSafe, NEW v \in Visits, NEW right \in BOOLEAN, ServeLogin(v, right) PROVE SessionSafe'
<1>1. /\ ask[v].pc = "sent" /\ ask[v].kind = "login" /\ Pending(ask[v]) /\ OfSession(ask[v]) /\ ~Renewed(ask[v])
      /\ UNCHANGED <<deployVars, outsideVars, ended, people, jar, saved, tab, left, browserVars>> /\ Len(issued) + 1 \in Nat
  BY DEF ServeLogin, Pending, OfSession, Session, Renewed, browserVars, outsideVars, WebTypes
<1>2. CASE right /\ ask[v].who \in people \ inactive
  <2>1. Issue(ask[v].who, NewFamily) /\ AskTo(v, "answered", Len(issued) + 1, "ok") /\ ask[v].who \in People
    BY <1>2 DEF ServeLogin, WebTypes
  <2>2. StepOf(v) /\ Moved(v, "answered", Len(issued) + 1, "ok")
    BY <1>1, <2>1, AskToShape, MovedStep DEF TabElsewhere, PCs, Results
  <2>3. people' = people \cup {ask[v].who}
    BY <1>1, <1>2
  <2> QED BY <1>1, <2>1, <2>2, <2>3, IssueStep DEF Moved
<1>3. CASE ~(right /\ ask[v].who \in people \ inactive)
  <2> DEFINE result == IF right /\ ask[v].who \in people THEN "error" ELSE "401"
  <2>1. AskTo(v, "answered", 0, result) /\ UNCHANGED issued /\ result \in {"401", "error"}
    BY <1>3 DEF ServeLogin
  <2> HIDE DEF result
  <2> QED BY <1>1, <2>1, SafeRefused
<1> QED BY <1>2, <1>3

LEMMA SafeServeRegister ==
  ASSUME WebTypes, SessionSafe, NEW v \in Visits, ServeRegister(v) PROVE SessionSafe'
<1>1. /\ ask[v].pc = "sent" /\ ask[v].kind = "register" /\ Pending(ask[v]) /\ OfSession(ask[v]) /\ ~Renewed(ask[v])
      /\ UNCHANGED <<deployVars, outsideVars, ended, jar, saved, tab, left, browserVars>> /\ Len(issued) + 1 \in Nat
      /\ ask[v].who \in People
  BY DEF ServeRegister, Pending, OfSession, Session, Renewed, browserVars, outsideVars, WebTypes
<1>2. CASE ask[v].who \notin people
  <2>1. /\ Issue(ask[v].who, NewFamily) /\ AskTo(v, "answered", Len(issued) + 1, "ok")
        /\ people' = people \cup {ask[v].who}
    BY <1>2 DEF ServeRegister
  <2>2. StepOf(v) /\ Moved(v, "answered", Len(issued) + 1, "ok")
    BY <1>1, <2>1, AskToShape, MovedStep DEF TabElsewhere, PCs, Results
  <2> QED BY <1>1, <2>1, <2>2, IssueStep DEF Moved
<1>3. CASE ask[v].who \in people
  BY <1>1, <1>3, SafeRefused DEF ServeRegister
<1> QED BY <1>2, <1>3

LEMMA SafeServeClaim ==
  ASSUME WebTypes, SessionSafe, NEW v \in Visits, ServeClaim(v) PROVE SessionSafe'
<1>1. /\ ask[v].pc = "claiming" /\ Pending(ask[v]) /\ OfSession(ask[v]) /\ ~Renewed(ask[v])
      /\ UNCHANGED <<deployVars, ended, jar, saved, tab, left>> /\ Len(issued) + 1 \in Nat
      /\ people' = people \cup {LocalOwner} /\ Issue(LocalOwner, NewFamily) /\ LocalOwner \in People
      /\ AskTo(v, "claimed", Len(issued) + 1, "ok")
  BY DEF ServeClaim, Pending, OfSession, Renewed, browserVars, outsideVars, WebTypes
<1>2. StepOf(v) /\ Moved(v, "claimed", Len(issued) + 1, "ok")
  BY <1>1, AskToShape, MovedStep DEF TabElsewhere, PCs, Results
<1> QED BY <1>1, <1>2, IssueStep DEF Moved

\* The only request about the session is v: nothing else renews it, and nothing else ends it.
LEMMA Alone ==
  ASSUME SessionSafe, NEW v \in Visits, OfSession(ask[v]), NEW w \in Visits \ {v}
  PROVE  ~OfSession(ask[w]) /\ ~Renewed(ask[w]) /\ ~Ending(ask[w])
<1>1. ~OfSession(ask[w])
  BY DEF SessionSafe, OneAtATime
<1> QED BY <1>1 DEF OfSession, Session, Renewed, Ending

\* The session ends: nothing is asked of the tokens until the tab has heard.
LEMMA EndStep ==
  ASSUME WebTypes, SessionSafe, NEW v \in Visits, StepOf(v), UNCHANGED <<deployVars, saved, tab, left>>,
         OfSession(ask[v]), ask[v].kind \in {"logout", "delete"}, Ending(ask'[v]),
         Strong(ask'[v]), ~Renewed(ask[v]), ask'[v].result # "lost", Bears(ask[v])',
         Live(jar)' => Live(jar)
  PROVE  SessionSafe'
<1>1. ask[v].tab \in Tabs /\ Pending(ask[v]) /\ onDesktop' = onDesktop
  BY StepTab DEF StepOf, deployVars
<1>2. ask'[v].kind \in {"logout", "delete"} /\ ask'[v].pc \in {"sent", "answered"}
  BY DEF Ending
<1>3. Strong(ask[v])
  BY DEF Strong, Session
<1>4. OneAtATime'
  BY <1>3, OneKept DEF SessionSafe
<1>5. Asked'
  <2>1. AskFits(ask[v], tab[ask[v].tab]) /\ TabFits(tab'[ask[v].tab])
    BY <1>1 DEF SessionSafe, Asked
  <2>2. AskFits(ask'[v], tab'[ask[v].tab]) /\ ~AsksWho(ask'[v])
    BY <1>1, <1>2, <2>1 DEF AskFits, AsksWho
  <2>3. \A w \in Visits \ {v} :
          Pending(ask[w]) /\ ask[w].tab = ask[v].tab => AskFits(ask[w], tab'[ask[v].tab])
    BY <1>1 DEF SessionSafe, Asked
  <2> QED BY <2>1, <2>2, <2>3, AskedKept DEF SessionSafe
<1>6. Carried'
  BY CarriedKept DEF SessionSafe
<1>7. Owned'
  <2>1. ~Unended'
    BY DEF Unended, Ending
  <2> QED BY <2>1 DEF Owned
<1>8. LeftOver'
  <2>1. \A w \in Visits \ {v} : ~Renewed(ask[w])'
    <3>1. \A w \in Visits \ {v} : ~Renewed(ask[w]) /\ ask'[w] = ask[w]
      BY Alone DEF StepOf
    <3> QED BY <3>1 DEF Renewed
  <2>2. ~Renewed(ask[v])'
    BY <1>2 DEF Renewed
  <2>3. \A w \in Visits : ~Renewed(ask[w])'
    BY <2>1, <2>2
  <2> QED BY <2>3 DEF SessionSafe, LeftOver
<1> QED BY <1>4, <1>5, <1>6, <1>7, <1>8 DEF SessionSafe

LEMMA SafeServeLogout ==
  ASSUME WebTypes, SessionSafe, NEW v \in Visits, ServeLogout(v) PROVE SessionSafe'
<1>1. /\ ask[v].pc = "sent" /\ ask[v].kind = "logout" /\ Pending(ask[v]) /\ OfSession(ask[v]) /\ ~Renewed(ask[v])
      /\ UNCHANGED <<deployVars, people, jar, saved, tab, left>> /\ AskTo(v, "answered", 0, "ok")
      /\ issued' = IF Known(ask[v].token) THEN Revoked(FamilyOf(ask[v].token)) ELSE issued
  BY DEF ServeLogout, Pending, OfSession, Session, Renewed, browserVars
<1>2. StepOf(v) /\ Moved(v, "answered", 0, "ok")
  BY <1>1, AskToShape, MovedStep DEF TabElsewhere, PCs, Results
<1>3. ask[v].token = jar
  BY <1>1 DEF SessionSafe, Carried, Bears
<1>4. ~Live(jar)'
  <2>1. CASE Known(jar)
    <3>1. jar \in FamilyOf(jar) /\ jar \in 1 .. Len(issued)
      BY <2>1 DEF Known, FamilyOf
    <3>2. issued'[jar].revoked
      <4>1. issued' = Revoked(FamilyOf(ask[v].token)) /\ jar \in FamilyOf(ask[v].token)
        BY <1>1, <1>3, <2>1, <3>1
      <4>2. Revoked(FamilyOf(ask[v].token))[jar].revoked
        BY <3>1, <4>1, RevokedShape
      <4> QED BY <4>1, <4>2
    <3> QED BY <1>1, <3>2 DEF Live
  <2>2. CASE ~Known(jar)
    BY <1>1, <1>3, <2>2 DEF Live, Known
  <2> QED BY <2>1, <2>2
<1>5. Bears(ask[v])'
  BY <1>1, <1>2, <1>4 DEF Bears, Moved
<1>6. Ending(ask'[v]) /\ Strong(ask'[v])
  BY <1>1, <1>2 DEF Moved, Ending, Strong, OfSession, Session
<1> QED BY <1>1, <1>2, <1>4, <1>5, <1>6, EndStep DEF Moved

LEMMA SafeServeDelete ==
  ASSUME WebTypes, SessionSafe, NEW v \in Visits, NEW right \in BOOLEAN, ServeDelete(v, right) PROVE SessionSafe'
<1>1. /\ ask[v].pc = "sent" /\ ask[v].kind = "delete" /\ Pending(ask[v]) /\ OfSession(ask[v]) /\ ~Renewed(ask[v])
      /\ UNCHANGED <<deployVars, jar, saved, tab, left, browserVars>>
  BY DEF ServeDelete, Pending, OfSession, Session, Renewed, browserVars
<1>2. ASSUME NEW result \in {"error", "401"}, AskTo(v, "answered", 0, result),
             UNCHANGED <<people, issued, outsideVars>>
      PROVE  SessionSafe'
  BY <1>1, <1>2, SafeRefused
<1>3. ASSUME NEW u, u = issued[ask[v].token].user, Known(ask[v].token),
             AskTo(v, "answered", 0, "ok"), people' = people \ {u}, issued' = Disowned(u)
      PROVE  SessionSafe'
  <2>1. StepOf(v) /\ Moved(v, "answered", 0, "ok")
    BY <1>1, <1>3, AskToShape, MovedStep DEF TabElsewhere, PCs, Results
  <2>2. Live(jar)' => Live(jar)
    <3>1. /\ Len(issued') = Len(issued)
          /\ \A r \in 1 .. Len(issued) : /\ issued'[r].revoked = issued[r].revoked
                                         /\ issued'[r].user = IF issued[r].user = u THEN Nobody ELSE issued[r].user
      BY <1>3, DisownedShape
    <3>2. Nobody \notin people'
      BY <1>3 DEF WebTypes
    <3> QED BY <1>1, <1>3, <3>1, <3>2 DEF Live, Known
  <2>3. Bears(ask[v])'
    BY <1>1, <2>1 DEF Bears, Moved
  <2>4. Ending(ask'[v]) /\ Strong(ask'[v])
    BY <1>1, <2>1 DEF Moved, Ending, Strong, OfSession, Session
  <2> QED BY <1>1, <2>1, <2>2, <2>3, <2>4, EndStep DEF Moved
<1> QED BY <1>2, <1>3 DEF ServeDelete, outsideVars

LEMMA SafeServeRefresh ==
  ASSUME WebTypes, SessionSafe, NEW v \in Visits, ServeRefresh(v) PROVE SessionSafe'
<1> DEFINE b == ask[v].tab
           n == Len(issued)
<1>1. /\ ask[v].pc = "refreshing" /\ Pending(ask[v]) /\ OfSession(ask[v]) /\ ~Renewed(ask[v]) /\ ask[v].token = jar
      /\ UNCHANGED <<deployVars, people, jar, saved, tab, left>> /\ onDesktop' = onDesktop /\ n \in Nat
      /\ jar \in 0 .. n
  <2>1. ask[v].pc = "refreshing" /\ Pending(ask[v]) /\ OfSession(ask[v]) /\ ~Renewed(ask[v])
    BY ServeRefreshDoes DEF Pending, OfSession, Renewed
  <2>2. ask[v].token = jar
    BY <2>1 DEF SessionSafe, Carried, Bears
  <2>3. UNCHANGED <<deployVars, people, jar, saved, tab, left>> /\ onDesktop' = onDesktop
    BY ServeRefreshDoes DEF browserVars, deployVars
  <2>4. n \in Nat /\ jar \in 0 .. n
    BY DEF WebTypes
  <2> QED BY <2>1, <2>2, <2>3, <2>4
<1> DEFINE Answered(token, result) ==
             /\ AskBecomes(v, Now(v, "refreshed", token, ask[v].retry, result))
             /\ Len(issued') \in Nat /\ Len(issued') >= n /\ \A r \in 1 .. n : issued'[r].user = issued[r].user
             /\ ~Live(jar)'
             /\ IF result = "401"
                THEN ended' = IF Live(jar) THEN ended \cup TokensOf(issued[jar].user) ELSE ended
                ELSE /\ Live(jar) /\ token = n + 1 /\ Len(issued') = n + 1
                     /\ issued'[n + 1].user = issued[jar].user /\ issued[jar].user \in people
                     /\ ~issued'[n + 1].revoked /\ ended' = ended
<1>2. \E token \in Nat, result \in {"ok", "403", "401"} : Answered(token, result)
  <2>1. ASSUME NEW result \in {"ok", "403"}, NEW fresh \in BOOLEAN, Live(jar), UNCHANGED ended,
               AskBecomes(v, Now(v, "refreshed", n + 1, ask[v].retry, result)),
               issued' = Append(Revoked({jar}), [issued[jar] EXCEPT !.fresh = fresh])
        PROVE  Answered(n + 1, result)
    <3> DEFINE new == [issued[jar] EXCEPT !.fresh = fresh]
               old == Revoked({jar})
    <3>0. AskBecomes(v, Now(v, "refreshed", n + 1, ask[v].retry, result)) /\ result # "401" /\ Live(jar) /\ UNCHANGED ended
      BY <2>1
    <3>1. jar \in 1 .. n /\ issued[jar] \in Issues /\ issued[jar].user \in people /\ ~issued[jar].revoked
      BY <2>1 DEF Live, Known, WebTypes
    <3>2. new \in Issues /\ new.user = issued[jar].user /\ ~new.revoked
      BY <3>1 DEF Issues
    <3>3. old \in Seq(Issues) /\ Len(old) = n /\ old[jar].revoked /\ \A r \in 1 .. n : old[r].user = issued[r].user
      BY <3>1, RevokedShape
    <3>4. issued' = Append(old, new)
      BY <2>1
    <3> HIDE DEF old, new, Now
    <3>5. /\ Len(issued') = n + 1 /\ issued'[n + 1] = new /\ \A r \in 1 .. n : issued'[r] = old[r]
      BY <3>2, <3>3, <3>4, AppendShape
    <3>6. ~Live(jar)'
      BY <1>1, <3>1, <3>3, <3>5 DEF Live
    <3> QED BY <1>1, <3>0, <3>1, <3>2, <3>3, <3>5, <3>6
  <2>2. ASSUME AskBecomes(v, Now(v, "refreshed", jar, ask[v].retry, "401")), NEW rs,
               issued' = Revoked(rs) \/ issued' = issued, Live(jar) => jar \in rs /\ issued' = Revoked(rs),
               ended' = IF Live(jar) THEN ended \cup TokensOf(issued[jar].user) ELSE ended
        PROVE  Answered(jar, "401")
    <3>1. /\ Len(issued') = n /\ \A r \in 1 .. n : issued'[r].user = issued[r].user
          /\ \A r \in 1 .. n : issued[r].revoked => issued'[r].revoked
      <4>1. CASE issued' = issued
        BY <4>1
      <4>2. CASE issued' = Revoked(rs)
        BY <4>2, RevokedShape
      <4> QED BY <2>2, <4>1, <4>2
    <3>2. ~Live(jar)'
      <4>1. CASE Live(jar)
        <5>1. jar \in 1 .. n /\ issued'[jar].revoked
          BY <2>2, <4>1, RevokedShape DEF Live, Known
        <5> QED BY <1>1, <5>1 DEF Live
      <4>2. CASE ~Live(jar)
        BY <1>1, <3>1, <4>2 DEF Live, Known
      <4> QED BY <4>1, <4>2
    <3> QED BY <1>1, <2>2, <3>1, <3>2
  <2>3. CASE Live(jar) /\ UNCHANGED ended
    <3>1. \/ \E result \in {"ok", "403"}, fresh \in BOOLEAN :
               /\ AskBecomes(v, Now(v, "refreshed", n + 1, ask[v].retry, result))
               /\ issued' = Append(Revoked({jar}), [issued[jar] EXCEPT !.fresh = fresh])
          \/ /\ AskBecomes(v, Now(v, "refreshed", jar, ask[v].retry, "401"))
             /\ issued' = Revoked({jar}) /\ ended' = ended \cup TokensOf(issued[jar].user)
      BY <1>1, <2>3, ServeRefreshDoes
    <3> HIDE DEF Answered
    <3>2. n + 1 \in Nat /\ jar \in Nat
      BY <1>1
    <3> QED BY <2>1, <2>2, <2>3, <3>1, <3>2
  <2>4. CASE Live(jar) /\ ended' = ended \cup TokensOf(issued[jar].user) /\ ~UNCHANGED ended
    <3>1. AskBecomes(v, Now(v, "refreshed", jar, ask[v].retry, "401")) /\ issued' = Revoked({jar})
      BY <1>1, <2>4, ServeRefreshDoes
    <3> HIDE DEF Answered
    <3> QED BY <1>1, <2>2, <2>4, <3>1
  <2>5. CASE ~Live(jar)
    <3>1. /\ AskBecomes(v, Now(v, "refreshed", jar, ask[v].retry, "401")) /\ UNCHANGED ended
          /\ issued' = issued \/ issued' = Revoked(FamilyOf(jar))
      BY <1>1, <2>5, ServeRefreshDoes
    <3> HIDE DEF Answered
    <3> QED BY <1>1, <2>2, <2>5, <3>1
  <2>6. Live(jar) => UNCHANGED ended \/ ended' = ended \cup TokensOf(issued[jar].user)
    BY <1>1, ServeRefreshDoes
  <2> QED BY <2>3, <2>4, <2>5, <2>6
<1>3. PICK token \in Nat, result \in {"ok", "403", "401"} : Answered(token, result)
  BY <1>2
<1>4. StepOf(v) /\ Moved(v, "refreshed", token, result)
  BY <1>1, <1>3, MovedStep DEF TabElsewhere
<1>5. b \in Tabs /\ AskFits(ask[v], tab[b]) /\ TabFits(tab[b])
  BY <1>1, <1>4, StepTab DEF SessionSafe, Asked
<1>6. ask[v].kind # "logout"
  BY <1>1 DEF SessionSafe, Carried, Bears
<1>7. /\ Len(issued') \in Nat /\ Len(issued') >= n /\ \A r \in 1 .. n : issued'[r].user = issued[r].user
      /\ ~Live(jar)' /\ ended \subseteq ended'
      /\ result = "401" => (Live(jar) => TokensOf(issued[jar].user) \subseteq ended')
      /\ result # "401" => /\ Live(jar) /\ token = n + 1 /\ Len(issued') = n + 1 /\ issued'[n + 1].user = issued[jar].user
                           /\ issued[jar].user \in people /\ ~issued'[n + 1].revoked
  BY <1>3
<1> HIDE DEF Answered
<1>8. result # "401" => Live(ask[v].token)' /\ Sound(ask[v].token)'
  BY <1>1, <1>4, <1>7 DEF Sound, Live, Known, Moved
<1>9. OneAtATime'
  <2>1. Strong(ask'[v]) => Strong(ask[v])
    BY <1>1, <1>4 DEF Strong, Moved
  <2> QED BY <1>1, <1>4, <2>1, OneKept DEF SessionSafe
<1>10. Asked'
  <2>1. AskFits(ask'[v], tab'[b]) /\ (AsksWho(ask'[v]) => AsksWho(ask[v]))
    BY <1>1, <1>4, <1>5 DEF AskFits, AsksWho, Moved, Pending
  <2>2. TabFits(tab'[b]) /\ \A w \in Visits \ {v} :
          Pending(ask[w]) /\ ask[w].tab = b => AskFits(ask[w], tab'[b])
    BY <1>1, <1>5 DEF SessionSafe, Asked
  <2> QED BY <1>1, <1>4, <2>1, <2>2, AskedKept DEF SessionSafe
<1>11. Carried'
  <2>1. Bears(ask[v])'
    BY <1>3, <1>4, <1>6, <1>7, <1>8 DEF Bears, Moved
  <2> QED BY <1>1, <1>4, <2>1, CarriedKept DEF SessionSafe
<1>12. BackedStays
  <2>1. \A r \in Bearers : r = jar /\ Live(jar)
    BY <1>1, Alone DEF Bearers
  <2>2. \A w \in Visits \ {v} : ~Renewed(ask'[w])
    BY <1>1, <1>4, Alone DEF StepOf
  <2>3. \A r \in Bearers' : result # "401" /\ r = token
    <3>1. ASSUME NEW r \in Bearers' PROVE result # "401" /\ r = token
      <4>1. PICK w \in Visits : Renewed(ask'[w]) /\ r = ask'[w].token
        BY <1>7, <3>1 DEF Bearers, Renewed
      <4>2. w = v
        BY <2>2, <4>1
      <4> QED BY <1>4, <4>1, <4>2 DEF Renewed, Moved
    <3> QED BY <3>1
  <2>4. SUFFICES ASSUME NEW t \in 1 .. n, Backed(t)
                 PROVE  BackedAfter(t)
    BY DEF BackedStays
  <2>5. CASE result = "401"
    <3>1. CASE Live(jar)
      <4>1. jar \in Bearers /\ issued[t].user = issued[jar].user
        BY <2>4, <3>1 DEF Bearers, Backed, Live, Known
      <4>2. t \in TokensOf(issued[jar].user)
        BY <4>1 DEF TokensOf
      <4> QED BY <1>7, <2>3, <2>5, <3>1, <4>2 DEF BackedAfter
    <3>2. CASE ~Live(jar)
      BY <1>7, <2>1, <2>3, <2>4, <2>5, <3>2 DEF Backed, BackedAfter, Renews
    <3> QED BY <3>1, <3>2
  <2>6. CASE result # "401"
    <3>1. Live(jar) /\ token = n + 1 /\ issued'[token].user = issued[jar].user /\ issued'[t].user = issued[t].user
      BY <1>7, <2>6
    <3>2. jar \in Bearers /\ issued[t].user = issued[jar].user
      BY <2>4, <3>1 DEF Bearers, Backed, Live, Known
    <3>3. token \in Bearers' /\ Live(token)'
      <4>1. Renewed(ask[v])' /\ ask'[v].token = token /\ token \in 1 .. Len(issued')
        BY <1>1, <1>3, <1>4, <1>7, <2>6 DEF Renewed, Moved
      <4>2. token \in Bearers'
        BY <4>1 DEF Bearers
      <4>3. Live(token)'
        BY <1>8, <2>6, <4>1 DEF Live, Known
      <4> QED BY <4>2, <4>3
    <3>4. Renews'
      BY <3>3 DEF Renews, Live, Known
    <3> QED BY <2>3, <3>1, <3>2, <3>4 DEF BackedAfter
  <2> QED BY <2>5, <2>6
<1>13. Owned'
  <2>1. ~Ending(ask[v]) /\ ~Shows(ask'[v])
    BY <1>1, <1>4 DEF Ending, Shows, Moved
  <2>2. Unended' => Unended
    BY <2>1, <1>4 DEF Unended, Ending, StepOf
  <2>3. ASSUME Unended PROVE SavedOwned' /\ (\A c \in Tabs : c = b => TabOwned(c)')
    <3>1. SavedOwned /\ TabOwned(b)
      BY <1>5, <2>3 DEF SessionSafe, Owned
    <3>2. saved \in 0 .. n /\ tab[b].token \in 0 .. n
      BY <1>5, TabShape DEF WebTypes
    <3>3. /\ saved = 0 \/ BackedAfter(saved)
          /\ tab[b].token = 0 \/ BackedAfter(tab[b].token)
          /\ tab[b].user # Nobody => tab[b].token # 0 /\ tab[b].user = issued'[tab[b].token].user
      BY <1>1, <1>7, <1>12, <3>1, <3>2 DEF BackedStays, SavedOwned, TabOwned
    <3>4. saved' = saved /\ tab' = tab
      BY <1>1
    <3> QED BY <3>3, <3>4 DEF SavedOwned, TabOwned, Backed, BackedAfter
  <2>4. AskOwned(v)'
    BY <2>1 DEF AskOwned, Shows, AsksWho, Pending
  <2>5. tab[b].token # 0 => issued'[tab'[b].token].user = issued[tab[b].token].user
    BY <1>1, <1>5, <1>7, TabShape DEF WebTypes
  <2> QED BY <1>1, <1>4, <1>7, <1>12, <2>2, <2>3, <2>4, <2>5, OwnedKept DEF SessionSafe, SameUsers
<1>14. LeftOver'
  <2>1. ASSUME left PROVE \A w \in Visits : ~Renewed(ask[w])'
    <3>1. ~Live(jar) /\ \A w \in Visits : ~Renewed(ask[w])
      BY <2>1 DEF SessionSafe, LeftOver
    <3>2. ~Renewed(ask[v])'
      BY <1>4, <1>7, <3>1 DEF Renewed, Moved
    <3> QED BY <1>4, <3>1, <3>2 DEF StepOf, Renewed
  <2> QED BY <1>1, <1>7, <2>1 DEF SessionSafe, LeftOver
<1> QED BY <1>9, <1>10, <1>11, <1>13, <1>14 DEF SessionSafe

-----------------------------------------------------------------------------
(* WebSession: the answers that a tab takes *)

LEMMA SafeHearRefresh ==
  ASSUME WebTypes, SessionSafe, NEW v \in Visits, HearRefresh(v) PROVE SessionSafe'
<1> DEFINE b == ask[v].tab
<1>1. /\ ask[v].pc = "refreshed" /\ Pending(ask[v]) /\ OfSession(ask[v]) /\ ~Live(jar) /\ ~Ending(ask[v])
      /\ ask[v].kind # "logout"
  <2>1. ask[v].pc = "refreshed" /\ Pending(ask[v])
    BY HearRefreshDoes DEF Pending
  <2>2. Bears(ask[v])
    BY <2>1 DEF SessionSafe, Carried
  <2> QED BY <2>1, <2>2 DEF OfSession, Ending, Bears
<1>2. /\ UNCHANGED <<serverVars, deployVars, people, issued, ended, left, onDesktop>>
      /\ Len(issued) \in Nat /\ jar \in 0 .. Len(issued) /\ ask[v].token \in Nat /\ b \in Tabs
  <2>1. UNCHANGED <<serverVars, left>>
    BY HearRefreshDoes
  <2>2. ask[v].token \in Nat /\ b \in Tabs
    BY <1>1, AskShape DEF Pending
  <2>3. Len(issued) \in Nat /\ jar \in 0 .. Len(issued)
    BY DEF WebTypes
  <2> QED BY <2>1, <2>2, <2>3 DEF serverVars, deployVars, outsideVars
<1> DEFINE Heard(token, result, pc) ==
             /\ StepOf(v) /\ Moved(v, pc, token, result)
             /\ tab'[b].user = tab[b].user /\ tab'[b].loading = tab[b].loading /\ tab'[b].retry = tab[b].retry
             /\ Renewed(ask[v]) => Sound(ask[v].token)
             /\ IF ask[v].result = "ok"
                THEN /\ Renewed(ask[v]) /\ pc = "sent" /\ result = "none" /\ token = ask[v].token
                     /\ jar' = token /\ saved' = token /\ tab'[b].token = token
                ELSE /\ pc = "answered" /\ result = "401" /\ UNCHANGED <<saved, tab>>
                     /\ jar' \in IF Renewed(ask[v]) THEN {ask[v].token} ELSE {jar, 0}
<1>3. \E token \in Nat, result \in {"none", "401"}, pc \in {"sent", "answered"} : Heard(token, result, pc)
  <2>0. /\ ask[v].result \in {"ok", "403", "401"} /\ (ask[v].result # "401" => Sound(ask[v].token))
        /\ Renewed(ask[v]) <=> ask[v].result \in {"ok", "403"}
    BY <1>1 DEF SessionSafe, Carried, Bears, Renewed
  <2>1. CASE ask[v].result = "ok"
    <3>1. /\ AskBecomes(v, Now(v, "sent", ask[v].token, ask[v].retry, "none"))
          /\ jar' = ask[v].token /\ saved' = ask[v].token
          /\ TabBecomes(b, [tab[b] EXCEPT !.token = ask[v].token])
      BY <1>1, <2>1, HearRefreshDoes
    <3>2. /\ tab'[b] = [tab[b] EXCEPT !.token = ask[v].token] /\ TabElsewhere(v) /\ tab[b] \in TabStates
      BY <1>2, <3>1 DEF TabBecomes, TabElsewhere, WebTypes
    <3>3. /\ tab'[b].user = tab[b].user /\ tab'[b].loading = tab[b].loading /\ tab'[b].retry = tab[b].retry
          /\ tab'[b].token = ask[v].token
      BY <3>2 DEF TabStates
    <3>4. StepOf(v) /\ Moved(v, "sent", ask[v].token, "none")
      BY <1>1, <3>1, <3>2, MovedStep
    <3>5. Heard(ask[v].token, "none", "sent")
      BY <2>0, <2>1, <3>1, <3>3, <3>4
    <3> HIDE DEF Heard
    <3> QED BY <1>2, <3>5
  <2>2. CASE ask[v].result # "ok"
    <3>1. /\ AskBecomes(v, Now(v, "answered", 0, ask[v].retry, "401"))
          /\ jar' \in (IF ask[v].result = "403" THEN {ask[v].token} ELSE {jar, 0}) /\ UNCHANGED <<saved, tab>>
      BY <1>1, <2>2, HearRefreshDoes
    <3>2. StepOf(v) /\ Moved(v, "answered", 0, "401")
      BY <1>1, <3>1, MovedStep DEF TabElsewhere
    <3>3. Heard(0, "401", "answered")
      BY <2>0, <2>2, <3>1, <3>2
    <3> HIDE DEF Heard
    <3> QED BY <3>3
  <2> QED BY <2>1, <2>2
<1>4. PICK token \in Nat, result \in {"none", "401"}, pc \in {"sent", "answered"} : Heard(token, result, pc)
  BY <1>3
<1>5. AskFits(ask[v], tab[b]) /\ TabFits(tab[b])
  BY <1>1, <1>2 DEF SessionSafe, Asked
<1>6. OneAtATime'
  <2>1. Strong(ask'[v]) => Strong(ask[v])
    BY <1>1, <1>4 DEF Strong, Moved
  <2> QED BY <1>1, <1>4, <2>1, OneKept DEF SessionSafe
<1>7. Asked'
  <2>1. \A t : AskFits(t, tab[b]) => AskFits(t, tab'[b])
    BY <1>4 DEF AskFits
  <2>2. AskFits(ask'[v], tab'[b]) /\ (AsksWho(ask'[v]) => AsksWho(ask[v]))
    BY <1>1, <1>4, <1>5 DEF AskFits, AsksWho, Moved, Pending
  <2>3. TabFits(tab'[b]) /\ \A w \in Visits \ {v} :
          Pending(ask[w]) /\ ask[w].tab = b => AskFits(ask[w], tab'[b])
    BY <1>4, <1>5, <2>1 DEF SessionSafe, Asked, TabFits
  <2> QED BY <1>2, <1>4, <2>2, <2>3, AskedKept DEF SessionSafe
<1>8. Carried'
  <2>1. Bears(ask[v])'
    BY <1>1, <1>4 DEF Bears, Moved
  <2> QED BY <1>1, <1>4, <2>1, CarriedKept DEF SessionSafe
<1>9. /\ BackedStays /\ \A r \in Bearers' : r = jar'
      /\ Renewed(ask[v]) => /\ jar' = ask[v].token /\ ask[v].token \in Bearers
                            /\ Renews' \/ jar' \in ended
  <2>1. \A r \in Bearers : Renewed(ask[v]) /\ r = ask[v].token
    BY <1>1, Alone DEF Bearers
  <2>2. \A w \in Visits : ~Renewed(ask'[w])
    <3>1. \A w \in Visits \ {v} : ~Renewed(ask[w]) /\ ask'[w] = ask[w]
      BY <1>1, <1>4, Alone DEF StepOf
    <3>2. ~Renewed(ask'[v])
      BY <1>4 DEF Renewed, Moved
    <3> QED BY <3>1, <3>2
  <2>3. \A r \in Bearers' : r = jar' /\ Live(jar)'
    BY <2>2 DEF Bearers, Renewed
  <2>4. ASSUME Renewed(ask[v]) PROVE /\ jar' = ask[v].token /\ ask[v].token \in Bearers
                                     /\ Live(ask[v].token) => Renews'
                                     /\ Renews' \/ jar' \in ended
    <3>1. jar' = ask[v].token /\ Sound(ask[v].token)
      BY <1>4, <2>4
    <3>2. ask[v].token \in Bearers
      <4>1. ask[v].token \in 1 .. Len(issued)
        BY <1>2, <3>1 DEF Sound, WebTypes
      <4> QED BY <2>4, <4>1 DEF Bearers
    <3>3. ASSUME Live(ask[v].token) PROVE Renews'
      <4>1. Live(jar)' /\ jar' \in 1 .. Len(issued')
        BY <1>2, <3>1, <3>3 DEF Live, Known
      <4>2. jar' \in Bearers'
        BY <4>1 DEF Bearers
      <4> QED BY <4>1, <4>2 DEF Renews, Live, Known
    <3> QED BY <3>1, <3>2, <3>3 DEF Sound
  <2>5. ASSUME ~Renewed(ask[v]) PROVE Bearers' = {}
    <3>1. ~Live(jar)'
      BY <1>1, <1>2, <1>4, <2>5 DEF Live, Known
    <3> QED BY <2>3, <3>1
  <2>6. BackedStays
    <3>1. SUFFICES ASSUME NEW t \in 1 .. Len(issued), Backed(t)
                   PROVE  BackedAfter(t)
      BY DEF BackedStays
    <3>2. CASE Renewed(ask[v])
      BY <1>2, <2>1, <2>3, <2>4, <3>1, <3>2 DEF Backed, BackedAfter, Renews
    <3>3. CASE ~Renewed(ask[v])
      BY <1>2, <2>1, <2>5, <3>1, <3>3 DEF Backed, BackedAfter, Renews
    <3> QED BY <3>2, <3>3
  <2> QED BY <2>3, <2>4, <2>6
<1>10. Owned'
  <2>1. ~Ending(ask'[v])
    BY <1>1, <1>4 DEF Ending, Moved
  <2>2. Unended' => Unended
    BY <1>1, <1>4 DEF Unended, Ending, StepOf
  <2>3. saved \in 0 .. Len(issued) /\ tab[b].token \in 0 .. Len(issued)
    BY <1>2, TabShape DEF WebTypes
  <2>4. \A t \in 1 .. Len(issued) : Backed(t) => BackedAfter(t)
    BY <1>9 DEF BackedStays
  <2>5. ASSUME Unended PROVE /\ SavedOwned' /\ (\A c \in Tabs : c = b => TabOwned(c)') /\ AskOwned(v)'
                             /\ tab[b].token # 0 => /\ tab'[b].token # 0
                                                    /\ issued'[tab'[b].token].user = issued[tab[b].token].user
    <3>1. SavedOwned /\ TabOwned(b) /\ AskOwned(v)
      BY <1>2, <2>5 DEF SessionSafe, Owned
    <3>2. CASE ask[v].result = "ok"
      <4>1. /\ jar' = ask[v].token /\ saved' = ask[v].token /\ tab'[b].token = ask[v].token /\ token = ask[v].token
            /\ tab'[b].user = tab[b].user /\ ask[v].token # 0 /\ ask[v].token \in Bearers
            /\ Moved(v, pc, token, result) /\ issued' = issued /\ ended' = ended
            /\ \A r \in Bearers' : r = ask[v].token
            /\ Renews' \/ ask[v].token \in ended
        BY <1>2, <1>4, <1>9, <3>2 DEF Bearers
      <4>2. SavedOwned'
        BY <4>1 DEF SavedOwned, Backed
      <4>3. tab[b].token # 0 => issued[tab[b].token].user = issued[ask[v].token].user
        BY <3>1, <4>1 DEF TabOwned, Backed
      <4>4. \A c \in Tabs : c = b => TabOwned(c)'
        BY <3>1, <4>1, <4>3 DEF TabOwned, Backed
      <4>5. AskOwned(v)'
        BY <4>1 DEF AskOwned, Moved, Backed
      <4> QED BY <4>1, <4>2, <4>3, <4>4, <4>5
    <3>3. CASE ask[v].result # "ok"
      <4>1. UNCHANGED <<saved, tab, issued>> /\ ask'[v].result = "401" /\ ask'[v].pc = "answered"
        BY <1>2, <1>4, <3>3 DEF Moved
      <4>2. SavedOwned' /\ (\A c \in Tabs : c = b => TabOwned(c)')
        <5>1. /\ saved = 0 \/ BackedAfter(saved)
              /\ tab[b].token = 0 \/ BackedAfter(tab[b].token)
              /\ tab[b].user # Nobody => tab[b].token # 0 /\ tab[b].user = issued'[tab[b].token].user
          BY <2>3, <2>4, <3>1, <4>1 DEF SavedOwned, TabOwned
        <5> QED BY <4>1, <5>1 DEF SavedOwned, TabOwned, Backed, BackedAfter
      <4>3. AskOwned(v)'
        BY <4>1 DEF AskOwned, Shows
      <4> QED BY <4>1, <4>2, <4>3
    <3> QED BY <3>2, <3>3
  <2> HIDE DEF Heard
  <2> QED BY <1>2, <1>3, <1>4, <1>9, <2>2, <2>5, OwnedKept DEF SessionSafe, SameUsers, Heard
<1>11. LeftOver'
  <2>1. ASSUME left PROVE /\ ~Live(jar)' /\ saved' = 0 /\ \A w \in Visits : ~Renewed(ask[w])'
    <3>1. saved = 0 /\ ~Renewed(ask[v]) /\ \A w \in Visits : ~Renewed(ask[w])
      BY <2>1 DEF SessionSafe, LeftOver
    <3>2. ~Live(jar)'
      BY <1>1, <1>2, <1>4, <3>1 DEF Live, Known
    <3>3. \A w \in Visits : ~Renewed(ask[w])'
      BY <1>4, <3>1 DEF StepOf, Renewed, Moved
    <3> QED BY <1>4, <3>1, <3>2, <3>3
  <2> QED BY <1>2, <2>1 DEF LeftOver
<1> QED BY <1>6, <1>7, <1>8, <1>10, <1>11 DEF SessionSafe

\* A tab was told who its user is, or that it has none.
LEMMA ToldStep ==
  ASSUME WebTypes, SessionSafe, NEW v \in Visits, StepOf(v), Gone(v), AsksWho(ask[v]), ~Renewed(ask[v]),
         UNCHANGED <<serverVars, jar, saved, left>>,
         tab'[ask[v].tab].token = tab[ask[v].tab].token, ~tab'[ask[v].tab].loading,
         \/ /\ tab'[ask[v].tab].user = issued[ask[v].token].user /\ tab'[ask[v].tab].retry = tab[ask[v].tab].retry
            /\ Shows(ask[v]) /\ ask[v].token # 0
         \/ tab'[ask[v].tab].user = Nobody /\ tab'[ask[v].tab].retry = (ask[v].kind = "mount")
  PROVE  SessionSafe'
<1> DEFINE b == ask[v].tab
<1>1. b \in Tabs /\ Pending(ask[v]) /\ AskFits(ask[v], tab[b]) /\ TabFits(tab[b])
      /\ UNCHANGED <<deployVars, people, issued, ended, onDesktop>>
  BY StepTab DEF StepOf, SessionSafe, Asked, serverVars, deployVars, outsideVars
<1>2. ~Pending(ask'[v]) /\ ~OfSession(ask'[v]) /\ ~Renewed(ask'[v]) /\ ~Ending(ask[v]) /\ ~Shows(ask'[v])
  BY DEF Gone, Pending, OfSession, Renewed, Ending, Shows, AsksWho, Session
<1>3. OneAtATime'
  BY <1>2, OneKept DEF SessionSafe, Strong
<1>4. Asked'
  <2>1. TabFits(tab'[b])
    BY <1>1 DEF TabFits, AskFits
  <2>2. ASSUME NEW w \in Visits \ {v}, Pending(ask[w]), ask[w].tab = b PROVE AskFits(ask[w], tab'[b])
    <3>1. AskFits(ask[w], tab[b]) /\ ~AsksWho(ask[w])
      BY <2>2 DEF SessionSafe, Asked
    <3>2. ask[w].kind \notin {"logout", "delete"}
      BY <1>1, <3>1 DEF AskFits
    <3>3. ask[w].kind \in {"login", "register"} => ask[v].kind = "resolve" /\ ~onDesktop /\ onDesktop
      BY <1>1, <3>1 DEF AskFits, AsksWho
    <3> QED BY <3>1, <3>2, <3>3 DEF AskFits
  <2> QED BY <1>1, <1>2, <2>1, <2>2, AskedKept DEF SessionSafe, AsksWho
<1>5. Carried'
  BY <1>1, <1>2, CarriedKept DEF SessionSafe, Live, Known
<1>6. Bearers' = Bearers /\ Renews' = Renews
  <2>1. Bearers' = Bearers
    BY <1>1, <1>2 DEF Bearers, Live, Known, Renewed, StepOf
  <2> QED BY <1>1, <2>1 DEF Renews, Live, Known
<1>7. Owned'
  <2>1. Unended' => Unended
    BY <1>2 DEF Unended, Ending, StepOf
  <2>2. ASSUME Unended PROVE SavedOwned' /\ (\A c \in Tabs : c = b => TabOwned(c)')
    <3>1. SavedOwned /\ TabOwned(b) /\ AskOwned(v)
      BY <1>1, <2>2 DEF SessionSafe, Owned
    <3>2. SavedOwned'
      BY <1>1, <1>6, <3>1 DEF SavedOwned, Backed
    <3>3. \A c \in Tabs : c = b => TabOwned(c)'
      BY <1>1, <1>6, <3>1 DEF TabOwned, AskOwned, Backed
    <3> QED BY <3>2, <3>3
  <2>3. AskOwned(v)'
    BY <1>2 DEF AskOwned, Shows, AsksWho, Pending
  <2>4. BackedStays
    BY <1>1, <1>6 DEF BackedStays, BackedAfter, Backed
  <2> QED BY <1>1, <1>6, <2>1, <2>2, <2>3, <2>4, OwnedKept DEF SessionSafe, SameUsers
<1>8. LeftOver'
  <2>1. \A w \in Visits : Renewed(ask[w])' => Renewed(ask[w])
    BY <1>2 DEF StepOf, Renewed
  <2> QED BY <1>1, <2>1 DEF SessionSafe, LeftOver, Live, Known
<1> QED BY <1>3, <1>4, <1>5, <1>7, <1>8 DEF SessionSafe

LEMMA SafeHearMe ==
  ASSUME WebTypes, SessionSafe, NEW v \in Visits, HearMe(v) PROVE SessionSafe'
<1> DEFINE b == ask[v].tab
<1>1. /\ ask[v].pc = "answered" /\ ask[v].result = "ok" /\ ask[v].kind \in {"mount", "resolve"}
      /\ Pending(ask[v]) /\ AskBecomes(v, Finished) /\ UNCHANGED <<serverVars, jar, saved, left>>
  BY HearMeDoes DEF WhoAmI, Settled, Pending
<1>2. AsksWho(ask[v]) /\ Shows(ask[v]) /\ ~Renewed(ask[v]) /\ Named(ask[v])
  BY <1>1 DEF AsksWho, Shows, Renewed, Named
<1>3. b \in Tabs /\ ask[v].token \in 1 .. Len(issued)
  BY <1>1, <1>2, AskShape DEF WebTypes
<1>4. TabBecomes(b, [tab[b] EXCEPT !.user = issued[ask[v].token].user, !.loading = FALSE])
  BY <1>3, HearMeDoes, UserShown
<1>5. TabElsewhere(v) /\ tab'[b] = [tab[b] EXCEPT !.user = issued[ask[v].token].user, !.loading = FALSE]
      /\ tab[b] \in TabStates
  BY <1>3, <1>4 DEF TabBecomes, TabElsewhere, WebTypes
<1>6. /\ tab'[b].user = issued[ask[v].token].user /\ ~tab'[b].loading /\ tab'[b].retry = tab[b].retry
      /\ tab'[b].token = tab[b].token
  BY <1>5 DEF TabStates
<1>7. StepOf(v) /\ Gone(v)
  BY <1>1, <1>5, GoneStep
<1> QED BY <1>1, <1>2, <1>3, <1>6, <1>7, ToldStep

LEMMA SafeNoUser ==
  ASSUME WebTypes, SessionSafe, NEW v \in Visits, NoUser(v), AsksWho(ask[v]), ~Renewed(ask[v]),
         UNCHANGED <<serverVars, jar, saved, left>>
  PROVE  SessionSafe'
<1> DEFINE b == ask[v].tab
<1>1. Pending(ask[v]) /\ ask[v].pc \notin {"new", "over"} /\ b \in Tabs
  BY AskShape DEF AsksWho, Pending
<1>2. /\ AskBecomes(v, Finished)
      /\ TabBecomes(b, [tab[b] EXCEPT !.user = Nobody, !.loading = FALSE, !.retry = ask[v].kind = "mount"])
  BY <1>1, NoUserDoes
<1>3. TabElsewhere(v) /\ tab'[b] = [tab[b] EXCEPT !.user = Nobody, !.loading = FALSE, !.retry = ask[v].kind = "mount"]
      /\ tab[b] \in TabStates
  BY <1>1, <1>2 DEF TabBecomes, TabElsewhere, WebTypes
<1>4. /\ tab'[b].user = Nobody /\ ~tab'[b].loading /\ tab'[b].retry = (ask[v].kind = "mount")
      /\ tab'[b].token = tab[b].token
  BY <1>3 DEF TabStates
<1>5. StepOf(v) /\ Gone(v)
  BY <1>1, <1>2, <1>3, GoneStep
<1> QED BY <1>4, <1>5, ToldStep

\* A request that changes whose session it is: nothing else is open, and in its tab nothing but
\* other work is under way.
LEMMA OnlyTab ==
  ASSUME WebTypes, SessionSafe, NEW v \in Visits, Strong(ask[v])
  PROVE  /\ ask[v].tab \in Tabs
         /\ \A c \in Tabs \ {ask[v].tab} : tab[c] = Closed
         /\ \A w \in Visits \ {v} : Pending(ask[w]) => /\ ask[w].tab = ask[v].tab /\ ask[w].kind \notin Session
                                                       /\ ~Renewed(ask[w]) /\ ~OfSession(ask[w])
<1>1. OfSession(ask[v]) /\ ask[v].tab \in Tabs
  BY AskShape DEF Strong, OfSession
<1>2. ~UnderTab(ask[v].tab)
  BY <1>1 DEF SessionSafe, OneAtATime, Crowded
<1>3. \A c \in Tabs \ {ask[v].tab} : tab[c] = Closed
  BY <1>2 DEF UnderTab
<1>4. ASSUME NEW w \in Visits \ {v}, Pending(ask[w])
      PROVE  ask[w].tab = ask[v].tab /\ ask[w].kind \notin Session /\ ~Renewed(ask[w]) /\ ~OfSession(ask[w])
  <2>1. ask[w].tab \in Tabs /\ ask[w].pc \in PCs
    BY <1>4, AskShape DEF Pending
  <2>2. ~OfSession(ask[w]) /\ ~Renewed(ask[w])
    BY <1>1, Alone
  <2>3. ask[w].kind \notin Session
    BY <1>4, <2>1, <2>2 DEF OfSession, PCs, Pending
  <2>4. ask[w].tab = ask[v].tab
    BY <1>2, <1>4, <2>1 DEF UnderTab, Busy, Pending
  <2> QED BY <2>2, <2>3, <2>4
<1> QED BY <1>1, <1>3, <1>4

\* A session of the tab begins with the token of its request.
LEMMA TakeStep ==
  ASSUME WebTypes, SessionSafe, NEW v \in Visits, StepOf(v), Strong(ask[v]), ~Ending(ask[v]), ~Renewed(ask[v]),
         UNCHANGED serverVars, jar' = ask[v].token, saved' = ask[v].token, ~left',
         Sound(ask[v].token), tab'[ask[v].tab].token = ask[v].token,
         tab'[ask[v].tab].loading = tab[ask[v].tab].loading, tab'[ask[v].tab].retry = tab[ask[v].tab].retry,
         \/ /\ Gone(v) /\ ask[v].kind \in {"login", "register"}
            /\ tab'[ask[v].tab].user = issued[ask[v].token].user
         \/ /\ Moved(v, "sent", ask[v].token, "none") /\ ask[v].pc = "claimed"
            /\ tab'[ask[v].tab].user = tab[ask[v].tab].user
  PROVE  SessionSafe'
<1> DEFINE b == ask[v].tab
           r == ask[v].token
<1>1. /\ b \in Tabs /\ Pending(ask[v]) /\ AskFits(ask[v], tab[b]) /\ TabFits(tab[b])
      /\ UNCHANGED <<deployVars, people, issued, ended, onDesktop>>
  BY StepTab DEF StepOf, SessionSafe, Asked, serverVars, deployVars, outsideVars
<1>2. /\ \A c \in Tabs \ {b} : tab'[c] = Closed
      /\ \A w \in Visits \ {v} : Pending(ask[w]) => /\ ask[w].tab = b /\ ask[w].kind \notin Session
                                                    /\ ~Renewed(ask[w]) /\ ~OfSession(ask[w])
  BY OnlyTab DEF StepOf
<1>3. \A w \in Visits \ {v} : ~AsksWho(ask[w])
  <2>1. ASSUME NEW w \in Visits \ {v}, AsksWho(ask[w]) PROVE FALSE
    <3>1. Pending(ask[w]) /\ ask[w].tab = b
      BY <1>2, <2>1 DEF AsksWho
    <3>2. AskFits(ask[w], tab[b])
      BY <3>1 DEF SessionSafe, Asked
    <3>3. ask[v].kind \in {"login", "register"} \/ AsksWho(ask[v])
      BY <1>1 DEF AskFits
    <3>4. ~AsksWho(ask[v])
      BY <2>1, <3>1 DEF SessionSafe, Asked
    <3> QED BY <1>1, <2>1, <3>2, <3>3, <3>4 DEF AskFits, AsksWho
  <2> QED BY <2>1
<1>4. ~Ending(ask'[v]) /\ ~Renewed(ask'[v]) /\ ~OfSession(ask'[v]) /\ (AsksWho(ask'[v]) => AsksWho(ask[v]))
  <2>1. CASE Gone(v)
    BY <2>1 DEF Gone, Ending, Renewed, OfSession, AsksWho, Session, Pending
  <2>2. CASE Moved(v, "sent", ask[v].token, "none") /\ ask[v].pc = "claimed"
    BY <1>1, <2>2 DEF Moved, Ending, Renewed, OfSession, AsksWho, AskFits, Session, Pending
  <2> QED BY <2>1, <2>2
<1>5. OneAtATime'
  BY <1>4, OneKept DEF SessionSafe, Strong
<1>6. Asked'
  <2>1. TabFits(tab'[b])
    <3>1. CASE ask[v].kind \in {"login", "register"}
      BY <1>1, <3>1 DEF TabFits, AskFits
    <3>2. CASE tab'[b].user = tab[b].user
      BY <1>1, <3>2 DEF TabFits
    <3> QED BY <3>1, <3>2
  <2>2. ASSUME NEW w \in Visits \ {v}, Pending(ask[w]), ask[w].tab = b PROVE AskFits(ask[w], tab'[b])
    <3>1. AskFits(ask[w], tab[b]) /\ ~AsksWho(ask[w]) /\ ask[w].kind \notin Session
      BY <1>2, <1>3, <2>2 DEF SessionSafe, Asked
    <3> QED BY <3>1 DEF AskFits, Session
  <2>3. Pending(ask'[v]) => AskFits(ask'[v], tab'[b])
    <3>1. CASE Gone(v)
      BY <3>1 DEF Gone, Pending
    <3>2. CASE Moved(v, "sent", ask[v].token, "none") /\ ask[v].pc = "claimed" /\ tab'[b].user = tab[b].user
      BY <1>1, <3>2 DEF Moved, AskFits, AsksWho, OfSession, Session, Pending
    <3> QED BY <3>1, <3>2
  <2> QED BY <1>1, <1>4, <2>1, <2>2, <2>3, AskedKept DEF SessionSafe
<1>7. Carried'
  <2>1. Pending(ask'[v]) => Bears(ask[v])'
    <3>1. CASE Gone(v)
      BY <3>1 DEF Gone, Pending
    <3>2. CASE Moved(v, "sent", ask[v].token, "none") /\ ask[v].pc = "claimed"
      BY <1>1, <3>2 DEF Moved, Bears, AskFits, AsksWho
    <3> QED BY <3>1, <3>2
  <2> QED BY <2>1, CarriedKept DEF SessionSafe, Strong
<1>8. r # 0 /\ (\A s \in Bearers' : s = r) /\ (Renews' \/ r \in ended')
  <2>1. \A w \in Visits : ~Renewed(ask'[w])
    <3>1. \A w \in Visits \ {v} : ~Renewed(ask[w]) /\ ask'[w] = ask[w]
      BY Alone DEF StepOf, Strong
    <3> QED BY <1>4, <3>1
  <2>2. \A s \in Bearers' : s = r
    BY <2>1 DEF Bearers, Renewed
  <2>3. ASSUME Live(r) PROVE Renews'
    <3>1. Live(jar)' /\ jar' = r /\ r \in 1 .. Len(issued')
      BY <1>1, <2>3 DEF Live, Known
    <3>2. r \in Bearers'
      BY <3>1 DEF Bearers
    <3> QED BY <3>1, <3>2 DEF Renews, Live, Known
  <2> QED BY <1>1, <2>2, <2>3 DEF Sound
<1>9. Owned'
  <2>1. SavedOwned'
    BY <1>1, <1>8 DEF SavedOwned, Backed
  <2>2. ASSUME NEW c \in Tabs PROVE TabOwned(c)'
    <3>1. CASE c = b
      <4>1. tab'[b].user = issued[r].user \/ tab'[b].user = Nobody
        BY <1>1 DEF AskFits
      <4> QED BY <1>1, <1>8, <3>1, <4>1 DEF TabOwned, Backed
    <3>2. CASE c # b
      BY <1>2, <3>2 DEF TabOwned, Closed
    <3> QED BY <3>1, <3>2
  <2>3. ASSUME NEW w \in Visits PROVE AskOwned(w)'
    <3>1. CASE w = v
      <4>1. CASE Gone(v)
        BY <3>1, <4>1 DEF Gone, AskOwned, Shows, AsksWho, Pending
      <4>2. CASE Moved(v, "sent", ask[v].token, "none")
        BY <1>1, <1>8, <3>1, <4>2 DEF Moved, AskOwned, Backed
      <4> QED BY <4>1, <4>2
    <3>2. CASE w # v
      BY <1>3, <3>2 DEF StepOf, AskOwned, Shows, AsksWho, Pending
    <3> QED BY <3>1, <3>2
  <2> QED BY <2>1, <2>2, <2>3 DEF Owned
<1>10. LeftOver'
  BY DEF LeftOver
<1> QED BY <1>5, <1>6, <1>7, <1>9, <1>10 DEF SessionSafe

LEMMA SafeHearClaim ==
  ASSUME WebTypes, SessionSafe, NEW v \in Visits, HearClaim(v) PROVE SessionSafe'
<1> DEFINE b == ask[v].tab
<1>1. ask[v].pc = "claimed" /\ Pending(ask[v]) /\ ~Renewed(ask[v]) /\ Strong(ask[v]) /\ UNCHANGED serverVars
  BY HearClaimDoes DEF Pending, Renewed, Strong, OfSession
<1>2. ask[v].result = "ok" /\ Sound(ask[v].token) /\ ~Ending(ask[v]) /\ b \in Tabs /\ tab[b] \in TabStates
  <2>1. Bears(ask[v])
    BY <1>1 DEF SessionSafe, Carried
  <2>2. b \in Tabs
    BY <1>1, OnlyTab
  <2> QED BY <1>1, <2>1, <2>2 DEF Bears, Ending, WebTypes
<1>3. /\ jar' = ask[v].token /\ saved' = ask[v].token /\ ~left'
      /\ TabBecomes(b, [tab[b] EXCEPT !.token = ask[v].token])
      /\ AskBecomes(v, Now(v, "sent", ask[v].token, TRUE, "none"))
  BY <1>2, HearClaimDoes
<1>4. TabElsewhere(v) /\ tab'[b] = [tab[b] EXCEPT !.token = ask[v].token]
  BY <1>2, <1>3 DEF TabBecomes, TabElsewhere
<1>5. /\ tab'[b].user = tab[b].user /\ tab'[b].loading = tab[b].loading /\ tab'[b].retry = tab[b].retry
      /\ tab'[b].token = ask[v].token
  BY <1>2, <1>4 DEF TabStates
<1>6. StepOf(v) /\ Moved(v, "sent", ask[v].token, "none")
  BY <1>1, <1>3, <1>4, MovedStep
<1> QED BY <1>1, <1>2, <1>3, <1>5, <1>6, TakeStep

LEMMA SafeHearSession ==
  ASSUME WebTypes, SessionSafe, NEW v \in Visits, HearSession(v) PROVE SessionSafe'
<1> DEFINE b == ask[v].tab
<1>1. /\ ask[v].pc = "answered" /\ ask[v].kind \in {"login", "register"} /\ ask[v].result = "ok"
      /\ AskBecomes(v, Finished) /\ jar' = ask[v].token /\ saved' = ask[v].token /\ ~left' /\ UNCHANGED serverVars
  BY HearSessionDoes DEF Settled
<1>2. Pending(ask[v]) /\ Strong(ask[v]) /\ ~Renewed(ask[v]) /\ ~Ending(ask[v])
  BY <1>1 DEF Pending, Renewed, Strong, OfSession, Session, Ending
<1>3. Sound(ask[v].token) /\ b \in Tabs /\ tab[b] \in TabStates /\ ask[v].token \in 1 .. Len(issued)
  <2>1. Sound(ask[v].token)
    BY <1>1, <1>2 DEF SessionSafe, Carried, Bears
  <2>2. b \in Tabs
    BY <1>2, OnlyTab
  <2>3. ask[v].token \in 0 .. Len(issued)
    BY AskShape DEF WebTypes
  <2> QED BY <2>1, <2>2, <2>3 DEF WebTypes, Sound
<1>4. TabBecomes(b, [tab[b] EXCEPT !.token = ask[v].token, !.user = issued[ask[v].token].user])
  BY <1>3, HearSessionDoes, UserShown
<1>5. TabElsewhere(v) /\ tab'[b] = [tab[b] EXCEPT !.token = ask[v].token, !.user = issued[ask[v].token].user]
  BY <1>3, <1>4 DEF TabBecomes, TabElsewhere
<1>6. /\ tab'[b].user = issued[ask[v].token].user /\ tab'[b].loading = tab[b].loading
      /\ tab'[b].retry = tab[b].retry /\ tab'[b].token = ask[v].token
  BY <1>3, <1>5 DEF TabStates
<1>7. StepOf(v) /\ Gone(v)
  BY <1>1, <1>2, <1>5, GoneStep
<1> QED BY <1>1, <1>2, <1>3, <1>6, <1>7, TakeStep

LEMMA SafeHearLogout ==
  ASSUME WebTypes, SessionSafe, NEW v \in Visits, HearLogout(v) PROVE SessionSafe'
<1> DEFINE b == ask[v].tab
<1>1. /\ ask[v].pc = "answered" /\ ask[v].kind = "logout" /\ Pending(ask[v]) /\ Strong(ask[v]) /\ ~Renewed(ask[v])
      /\ AskBecomes(v, Finished) /\ jar' \in {jar, 0} /\ saved' = 0
      /\ TabBecomes(b, [tab[b] EXCEPT !.token = 0, !.user = Nobody, !.retry = TRUE])
      /\ UNCHANGED serverVars
  BY HearLogoutDoes DEF Settled, Pending, Strong, OfSession, Session, Renewed
<1>2. ~Live(jar) /\ b \in Tabs /\ tab[b] \in TabStates /\ AskFits(ask[v], tab[b]) /\ TabFits(tab[b])
  <2>1. ~Live(jar)
    BY <1>1 DEF SessionSafe, Carried, Bears
  <2>2. b \in Tabs
    BY <1>1, OnlyTab
  <2> QED BY <1>1, <2>1, <2>2 DEF WebTypes, SessionSafe, Asked
<1>3. TabElsewhere(v) /\ tab'[b] = [tab[b] EXCEPT !.token = 0, !.user = Nobody, !.retry = TRUE]
  BY <1>1, <1>2 DEF TabBecomes, TabElsewhere
<1>4. tab'[b].token = 0 /\ tab'[b].user = Nobody /\ tab'[b].retry /\ ~tab'[b].loading
  BY <1>1, <1>2, <1>3 DEF TabStates, AskFits, TabFits
<1>5. StepOf(v) /\ Gone(v)
  BY <1>1, <1>3, GoneStep
<1>6. /\ \A c \in Tabs \ {b} : tab'[c] = Closed
      /\ \A w \in Visits \ {v} : Pending(ask[w]) => /\ ask[w].tab = b /\ ask[w].kind \notin Session
                                                    /\ ~Renewed(ask[w]) /\ ~OfSession(ask[w])
  BY <1>1, <1>5, OnlyTab DEF StepOf
<1>7. \A w \in Visits \ {v} : ~AsksWho(ask[w])
  BY <1>1, <1>2, <1>6 DEF SessionSafe, Asked, AskFits, AsksWho
<1>8. ~Pending(ask'[v]) /\ ~OfSession(ask'[v]) /\ ~Renewed(ask'[v]) /\ ~Shows(ask'[v]) /\ ~AsksWho(ask'[v])
  BY <1>5 DEF Gone, Pending, OfSession, Renewed, Shows, AsksWho, Session
<1>9. UNCHANGED <<deployVars, people, issued, onDesktop>>
  BY <1>1 DEF serverVars, deployVars
<1>10. OneAtATime'
  BY <1>5, <1>8, OneKept DEF SessionSafe, Strong
<1>11. Asked'
  <2>1. TabFits(tab'[b])
    BY <1>4 DEF TabFits
  <2>2. ASSUME NEW w \in Visits \ {v}, Pending(ask[w]), ask[w].tab = b PROVE AskFits(ask[w], tab'[b])
    <3>1. AskFits(ask[w], tab[b]) /\ ~AsksWho(ask[w]) /\ ask[w].kind \notin Session
      BY <1>6, <1>7, <2>2 DEF SessionSafe, Asked
    <3> QED BY <3>1 DEF AskFits, Session
  <2> QED BY <1>5, <1>8, <1>9, <2>1, <2>2, AskedKept DEF SessionSafe
<1>12. Carried'
  BY <1>1, <1>5, <1>8, CarriedKept DEF SessionSafe, Strong
<1>13. Owned'
  <2>1. \A c \in Tabs : TabOwned(c)'
    BY <1>4, <1>6 DEF TabOwned, Closed
  <2>2. \A w \in Visits : ~Shows(ask[w])'
    BY <1>5, <1>7, <1>8 DEF StepOf, Shows, AsksWho, Pending
  <2> QED BY <1>1, <2>1, <2>2 DEF Owned, SavedOwned, AskOwned
<1>14. LeftOver'
  <2>1. ~Live(jar)'
    BY <1>1, <1>2, <1>9 DEF Live, Known
  <2>2. \A w \in Visits : ~Renewed(ask[w])'
    BY <1>5, <1>6, <1>8 DEF StepOf, Renewed, Pending
  <2> QED BY <1>1, <2>1, <2>2 DEF LeftOver
<1> QED BY <1>10, <1>11, <1>12, <1>13, <1>14 DEF SessionSafe

LEMMA SafeHearDeleted ==
  ASSUME WebTypes, SessionSafe, NEW v \in Visits, HearDeleted(v) PROVE SessionSafe'
<1> DEFINE a == [pc |-> "sent", tab |-> ask[v].tab, kind |-> "logout", who |-> ask[v].who,
                 token |-> jar', retry |-> TRUE, result |-> "none"]
<1>1. /\ ask[v].pc = "answered" /\ ask[v].kind = "delete" /\ jar' \in {jar, 0} /\ Pending(ask[v])
      /\ AskBecomes(v, a) /\ UNCHANGED <<serverVars, saved, tab, left>>
  BY HearDeletedDoes DEF Settled, Pending
<1>2. OfSession(ask[v]) /\ ~Renewed(ask[v])
  BY <1>1 DEF OfSession, Session, Renewed
<1>3. /\ ask'[v].pc = "sent" /\ ask'[v].kind = "logout" /\ ask'[v].token = jar' /\ ask'[v].result = "none"
      /\ ask'[v].tab = ask[v].tab
  BY <1>1 DEF AskBecomes
<1>4. StepOf(v)
  BY <1>1, <1>3 DEF AskBecomes, StepOf
<1>5. Ending(ask'[v]) /\ Strong(ask'[v]) /\ Bears(ask[v])'
  BY <1>3 DEF Ending, Strong, OfSession, Session, Bears
<1>6. UNCHANGED <<deployVars, people, issued>>
  BY <1>1 DEF serverVars
<1>7. Live(jar)' => Live(jar)
  BY <1>1, <1>6 DEF Live, Known
<1> QED BY <1>1, <1>2, <1>3, <1>4, <1>5, <1>6, <1>7, EndStep

-----------------------------------------------------------------------------
(* WebSession: a request begins, a tab is reloaded, an access token grows too old *)

LEMMA BeginStep ==
  ASSUME WebTypes, SessionSafe, NEW v \in Visits, NEW b \in Tabs, NEW kind \in Kinds, NEW who \in People \cup {Nobody},
         Begin(v, b, kind, who), ~crossed',
         kind = "mount" => tab[b] = Closed,
         kind = "resolve" => onDesktop /\ tab[b].retry,
         kind \in {"mount", "resolve"} =>
           \A w \in Visits : Pending(ask[w]) /\ ask[w].tab = b => ~AsksWho(ask[w]),
         kind \in {"login", "register"} => ~onDesktop /\ ~tab[b].loading,
         kind \in {"logout", "delete"} => tab[b].user # Nobody
  PROVE  SessionSafe'
<1>1. /\ ask[v].pc = "new" /\ UNCHANGED <<serverVars, jar, saved, left>>
      /\ ~CrossTab(b) /\ (kind \in Session => ~Cross(v) /\ ~UnderTab(b))
      /\ TabBecomes(b, [tab[b] EXCEPT !.token = Token(b), !.retry = FALSE])
  BY BeginDoes
<1>2. /\ ask'[v].pc = "sent" /\ ask'[v].kind = kind /\ ask'[v].tab = b /\ ask'[v].result = "none"
      /\ ask'[v].token = (IF kind = "logout" THEN jar ELSE Token(b))
      /\ \A w \in Visits \ {v} : ask'[w] = ask[w]
  <2> DEFINE t == IF kind = "logout" THEN jar ELSE Token(b)
             a == [pc |-> "sent", tab |-> b, kind |-> kind, who |-> who, retry |-> TRUE,
                   token |-> t, result |-> "none"]
  <2>1. AskBecomes(v, a)
    BY BeginDoes
  <2> HIDE DEF t
  <2>2. /\ a.pc = "sent" /\ a.kind = kind /\ a.tab = b /\ a.result = "none" /\ a.token = t
    OBVIOUS
  <2> HIDE DEF a
  <2>3. ask'[v] = a /\ \A w \in Visits \ {v} : ask'[w] = ask[w]
    BY <2>1 DEF AskBecomes
  <2> QED BY <2>2, <2>3 DEF t
<1>3. tab'[b] = [tab[b] EXCEPT !.token = Token(b), !.retry = FALSE] /\ tab[b] \in TabStates
      /\ \A c \in Tabs \ {b} : tab'[c] = tab[c]
  BY <1>1 DEF TabBecomes, WebTypes
<1>4. /\ tab'[b].token = Token(b) /\ ~tab'[b].retry /\ tab'[b].user = tab[b].user /\ tab'[b].loading = tab[b].loading
  BY <1>3 DEF TabStates
<1>5. UNCHANGED <<deployVars, people, issued, ended, onDesktop, jar, saved, left>> /\ TabFits(tab[b])
  BY <1>1 DEF serverVars, deployVars, outsideVars, SessionSafe, Asked
<1>6. ~Renewed(ask'[v]) /\ ~Pending(ask[v])
  BY <1>1, <1>2 DEF Renewed, Pending
<1>7. OfSession(ask'[v]) => kind \in Session
  BY <1>2 DEF OfSession
<1>8. OneAtATime'
  <2>1. b \in Crowded' => b \in Crowded
    <3> SUFFICES ASSUME b \in Crowded' PROVE b \in Crowded
      OBVIOUS
    <3>1. PICK c \in Tabs \ {b} : tab'[c] # Closed \/ \E w \in Visits : ask'[w].tab = c /\ ask'[w].pc \notin {"new", "over"}
      BY DEF Crowded, UnderTab, Busy, Closed
    <3>2. tab[c] # Closed \/ \E w \in Visits : ask[w].tab = c /\ ask[w].pc \notin {"new", "over"}
      BY <1>2, <1>3, <3>1
    <3> QED BY <3>1, <3>2 DEF Crowded, UnderTab, Busy
  <2>2. ASSUME NEW w \in Visits, Strong(ask'[w]) PROVE ask'[w].tab \notin Crowded'
    <3>1. CASE w = v
      <4>1. b \notin Crowded
        BY <1>1, <1>7, <2>2, <3>1 DEF Strong, Crowded
      <4> QED BY <1>2, <2>1, <3>1, <4>1
    <3>2. CASE w # v
      <4>1. ask'[w] = ask[w] /\ ask[w].tab \notin Crowded
        BY <1>2, <2>2, <3>2 DEF SessionSafe, OneAtATime
      <4>2. ask[w].tab = b
        BY <1>1, <2>2, <4>1 DEF CrossTab, Strong
      <4> QED BY <2>1, <4>1, <4>2
    <3> QED BY <3>1, <3>2
  <2>3. ASSUME NEW x \in Visits, NEW y \in Visits, OfSession(ask'[x]), OfSession(ask'[y]) PROVE x = y
    BY <1>1, <1>2, <1>7, <2>3 DEF SessionSafe, OneAtATime, Cross
  <2>4. \A w \in Visits : Strong(ask[w])' => ask'[w].tab \notin Crowded'
    BY <2>2 DEF Strong, OfSession, Session
  <2>5. \A x, y \in Visits : OfSession(ask[x])' /\ OfSession(ask[y])' => x = y
    BY <2>3 DEF OfSession, Session
  <2> QED BY <2>4, <2>5 DEF OneAtATime
<1>9. Asked'
  <2>1. AskFits(ask'[v], tab'[b])
    BY <1>2, <1>4, <1>5 DEF AskFits, AsksWho, Pending, OfSession, TabFits, Closed
  <2>2. TabFits(tab'[b])
    BY <1>4, <1>5 DEF TabFits
  <2>3. ASSUME NEW w \in Visits, Pending(ask'[w]) PROVE AskFits(ask'[w], tab'[ask'[w].tab])
    <3>1. CASE w = v
      BY <1>2, <2>1, <3>1
    <3>2. CASE w # v
      <4>1. ask'[w] = ask[w] /\ AskFits(ask[w], tab[ask[w].tab]) /\ ask[w].tab \in Tabs
        BY <1>2, <2>3, <3>2, AskShape DEF SessionSafe, Asked, Pending
      <4>2. AskFits(ask[w], tab[b]) => AskFits(ask[w], tab'[b])
        BY <1>4 DEF AskFits
      <4> QED BY <1>3, <4>1, <4>2
    <3> QED BY <3>1, <3>2
  <2>4. ASSUME NEW x \in Visits, NEW y \in Visits, AsksWho(ask'[x]), AsksWho(ask'[y]), ask'[x].tab = ask'[y].tab
        PROVE  x = y
    <3>1. \A w \in Visits \ {v} : AsksWho(ask'[w]) /\ ask'[w].tab = b => ~AsksWho(ask'[v])
      BY <1>2 DEF AsksWho
    <3> QED BY <1>2, <2>4, <3>1 DEF SessionSafe, Asked
  <2>5. \A w \in Visits : Pending(ask[w])' => AskFits(ask[w], tab[ask[w].tab])'
    BY <1>5, <2>3 DEF Pending, AskFits, AsksWho
  <2>6. \A x, y \in Visits : AsksWho(ask[x])' /\ AsksWho(ask[y])' /\ ask'[x].tab = ask'[y].tab => x = y
    BY <2>4 DEF AsksWho, Pending
  <2>7. \A c \in Tabs : TabFits(tab[c])'
    BY <1>3, <2>2 DEF SessionSafe, Asked, TabFits
  <2> QED BY <2>5, <2>6, <2>7 DEF Asked
<1>10. Carried'
  <2>1. ASSUME NEW w \in Visits, Pending(ask[w])' PROVE Bears(ask[w])'
    <3>1. CASE w = v
      BY <1>2, <1>5, <3>1 DEF Bears
    <3>2. CASE w # v
      BY <1>2, <1>5, <2>1, <3>2 DEF SessionSafe, Carried, Bears, Sound, Live, Known, Pending
    <3> QED BY <3>1, <3>2
  <2> QED BY <2>1 DEF Carried
<1>11. Bearers' = Bearers /\ Renews' = Renews
  <2>1. Bearers' = Bearers
    <3>1. \A w \in Visits : /\ Renewed(ask'[w]) <=> Renewed(ask[w])
                            /\ Renewed(ask[w]) => ask'[w] = ask[w]
      BY <1>2, <1>6 DEF Renewed, Pending
    <3> QED BY <1>5, <3>1 DEF Bearers, Live, Known, Renewed
  <2> QED BY <1>5, <2>1 DEF Renews, Live, Known
<1>12. Owned'
  <2> SUFFICES ASSUME Unended'
               PROVE  SavedOwned' /\ (\A c \in Tabs : TabOwned(c)') /\ (\A w \in Visits : AskOwned(w)')
    BY DEF Owned
  <2>1. Unended
    BY <1>1, <1>2 DEF Unended, Ending
  <2>2. SavedOwned /\ (\A c \in Tabs : TabOwned(c)) /\ (\A w \in Visits : AskOwned(w))
    BY <2>1 DEF SessionSafe, Owned
  <2>3. Token(b) = 0 \/ Backed(Token(b))
    BY <2>2 DEF Token, SavedOwned, TabOwned
  <2>4. tab[b].token # 0 => Token(b) = tab[b].token
    BY DEF Token
  <2>5. SavedOwned'
    BY <1>5, <1>11, <2>2 DEF SavedOwned, Backed
  <2>6. ASSUME NEW c \in Tabs PROVE TabOwned(c)'
    <3>1. CASE c = b
      BY <1>4, <1>5, <1>11, <2>2, <2>3, <2>4, <3>1 DEF TabOwned, Backed
    <3>2. CASE c # b
      BY <1>3, <1>5, <1>11, <2>2, <3>2 DEF TabOwned, Backed
    <3> QED BY <3>1, <3>2
  <2>7. ASSUME NEW w \in Visits PROVE AskOwned(w)'
    <3>1. CASE w = v
      <4>1. kind # "logout" => ask'[v].token = Token(b) /\ tab'[b].token = Token(b)
        BY <1>2, <1>4
      <4>2. Shows(ask[v])' => kind # "logout"
        BY <1>2 DEF Shows, AsksWho
      <4> QED BY <1>2, <1>5, <1>11, <2>3, <3>1, <4>1, <4>2 DEF AskOwned, Backed
    <3>2. CASE w # v
      <4>1. ask'[w] = ask[w] /\ AskOwned(w) /\ (Shows(ask[w])' <=> Shows(ask[w]))
        BY <1>2, <2>2, <3>2 DEF Shows, AsksWho, Pending
      <4>2. Shows(ask[w]) => ask[w].tab \in Tabs
        BY AskShape DEF Shows, AsksWho, Pending
      <4>3. Shows(ask[w]) /\ tab[ask[w].tab].token # 0 => tab'[ask[w].tab].token = tab[ask[w].tab].token
        BY <1>3, <1>4, <2>4, <4>2
      <4> QED BY <1>5, <1>11, <4>1, <4>3 DEF AskOwned, Backed
    <3> QED BY <3>1, <3>2
  <2> QED BY <2>5, <2>6, <2>7
<1>13. LeftOver'
  <2>1. \A w \in Visits : Renewed(ask[w])' => Renewed(ask[w])
    BY <1>2, <1>6 DEF Renewed
  <2> QED BY <1>5, <2>1 DEF SessionSafe, LeftOver, Live, Known
<1> QED BY <1>8, <1>9, <1>10, <1>12, <1>13 DEF SessionSafe

LEMMA SafeBegins ==
  ASSUME WebTypes, SessionSafe, NEW v \in Visits, NEW b \in Tabs, ~crossed',
         \/ Mount(v, b) \/ WhoIsIt(v, b) \/ Work(v, b) \/ SignOut(v, b) \/ DeleteAccount(v, b)
         \/ \E kind \in {"login", "register"}, who \in People : SignIn(v, b, kind, who)
  PROVE  SessionSafe'
<1>1. CASE Mount(v, b)
  BY <1>1, BeginStep DEF Mount, Kinds, Pending
<1>2. CASE WhoIsIt(v, b)
  <2>1. onDesktop /\ tab[b].retry /\ Begin(v, b, "resolve", Nobody)
    BY <1>2 DEF WhoIsIt
  <2>2. \A w \in Visits : Pending(ask[w]) /\ ask[w].tab = b => ~AsksWho(ask[w])
    BY <2>1 DEF SessionSafe, Asked, AskFits
  <2> QED BY <2>1, <2>2, BeginStep DEF Kinds
<1>3. CASE Work(v, b) \/ SignOut(v, b) \/ DeleteAccount(v, b)
  BY <1>3, BeginStep DEF Work, SignOut, DeleteAccount, Kinds
<1>4. CASE \E kind \in {"login", "register"}, who \in People : SignIn(v, b, kind, who)
  BY <1>4, BeginStep DEF SignIn, Kinds
<1> QED BY <1>1, <1>2, <1>3, <1>4

LEMMA SafeReload ==
  ASSUME WebTypes, SessionSafe, NEW b \in Tabs, Reload(b) PROVE SessionSafe'
<1>1. /\ UNCHANGED <<deployVars, onDesktop, people, issued, ended, jar, saved, ask, left>>
      /\ \A w \in Visits : Pending(ask[w]) => ask[w].tab # b
      /\ tab' = [tab EXCEPT ![b] = Closed] /\ tab \in [Tabs -> TabStates]
  BY DEF Reload, serverVars, deployVars, outsideVars, Pending, WebTypes
<1>2. \A c \in Tabs : tab'[c] = IF c = b THEN Closed ELSE tab[c]
  BY <1>1
<1>3. OneAtATime'
  <2>1. Crowded' \subseteq Crowded
    BY <1>1, <1>2 DEF Crowded, UnderTab, Busy, Closed
  <2> QED BY <1>1, <2>1 DEF SessionSafe, OneAtATime, Strong, OfSession, Session
<1>4. Asked'
  <2>1. \A w \in Visits : Pending(ask[w]) => tab'[ask[w].tab] = tab[ask[w].tab] /\ AskFits(ask[w], tab[ask[w].tab])
    BY <1>1, <1>2, AskShape DEF SessionSafe, Asked, Pending
  <2>2. \A w \in Visits : Pending(ask[w])' => AskFits(ask[w], tab[ask[w].tab])'
    BY <1>1, <2>1 DEF AskFits, Pending, AsksWho
  <2>3. \A c \in Tabs : TabFits(tab[c])'
    BY <1>2 DEF SessionSafe, Asked, TabFits, Closed
  <2> QED BY <1>1, <2>2, <2>3 DEF SessionSafe, Asked, AsksWho, Pending
<1>5. Carried'
  BY <1>1 DEF SessionSafe, Carried, Bears, Sound, Live, Known, Pending
<1>6. Bearers' = Bearers /\ Renews' = Renews
  BY <1>1 DEF Renews, Bearers, Live, Known, Renewed
<1>7. Owned'
  <2> SUFFICES ASSUME Unended'
               PROVE  SavedOwned' /\ (\A c \in Tabs : TabOwned(c)') /\ (\A w \in Visits : AskOwned(w)')
    BY DEF Owned
  <2>1. Unended
    BY <1>1 DEF Unended, Ending
  <2>2. SavedOwned /\ (\A c \in Tabs : TabOwned(c)) /\ (\A w \in Visits : AskOwned(w))
    BY <2>1 DEF SessionSafe, Owned
  <2>3. SavedOwned'
    BY <1>1, <1>6, <2>2 DEF SavedOwned, Backed
  <2>4. \A c \in Tabs : TabOwned(c)'
    BY <1>1, <1>2, <1>6, <2>2 DEF TabOwned, Closed, Backed
  <2>5. ASSUME NEW w \in Visits PROVE AskOwned(w)'
    <3>1. Shows(ask[w]) => tab'[ask[w].tab] = tab[ask[w].tab]
      BY <1>1, <1>2, AskShape DEF Shows, AsksWho, Pending
    <3>2. Shows(ask[w])' = Shows(ask[w])
      BY <1>1 DEF Shows, AsksWho, Pending
    <3> QED BY <1>1, <1>6, <2>2, <3>1, <3>2 DEF AskOwned, Backed
  <2> QED BY <2>3, <2>4, <2>5
<1>8. LeftOver'
  BY <1>1 DEF SessionSafe, LeftOver, Live, Known, Renewed
<1> QED BY <1>3, <1>4, <1>5, <1>7, <1>8 DEF SessionSafe

\* A step that leaves the browser as it is, and what was backed.
LEMMA OwnedStays ==
  ASSUME WebTypes, Owned, UNCHANGED <<saved, tab, ask>>, SameUsers, BackedStays
  PROVE  Owned'
<1> SUFFICES ASSUME Unended'
             PROVE  SavedOwned' /\ (\A b \in Tabs : TabOwned(b)') /\ (\A v \in Visits : AskOwned(v)')
  BY DEF Owned
<1>1. Unended
  BY DEF Unended, Ending
<1>2. SavedOwned /\ (\A b \in Tabs : TabOwned(b)) /\ (\A v \in Visits : AskOwned(v))
  BY <1>1 DEF Owned
<1>3. /\ saved \in 0 .. Len(issued) /\ (\A b \in Tabs : tab[b].token \in 0 .. Len(issued)) /\ Len(issued) \in Nat
      /\ \A v \in Visits : ask[v].token \in 0 .. Len(issued) /\ (Shows(ask[v]) => ask[v].tab \in Tabs)
  BY AskShape, TabShape DEF WebTypes, Shows, AsksWho, Pending
<1>4. \A t \in 1 .. Len(issued) : /\ issued'[t].user = issued[t].user
                                  /\ Backed(t) => BackedAfter(t)
  BY DEF SameUsers, BackedStays
<1>5. SavedOwned'
  <2>1. saved = 0 \/ BackedAfter(saved)
    BY <1>2, <1>3, <1>4 DEF SavedOwned
  <2> QED BY <2>1 DEF SavedOwned, Backed, BackedAfter
<1>6. ASSUME NEW b \in Tabs PROVE TabOwned(b)'
  <2>1. /\ tab[b].token = 0 \/ BackedAfter(tab[b].token)
        /\ tab[b].user # Nobody => tab[b].token # 0 /\ tab[b].user = issued'[tab[b].token].user
    BY <1>2, <1>3, <1>4 DEF TabOwned
  <2> QED BY <2>1 DEF TabOwned, Backed, BackedAfter
<1>7. ASSUME NEW v \in Visits PROVE AskOwned(v)'
  <2>1. Shows(ask[v])' = Shows(ask[v])
    BY DEF Shows, AsksWho, Pending
  <2>2. ASSUME Shows(ask[v]), ask[v].token # 0
        PROVE  /\ BackedAfter(ask[v].token) /\ tab[ask[v].tab].token # 0
               /\ issued'[tab[ask[v].tab].token].user = issued'[ask[v].token].user
    <3>1. Shows(ask[v]) /\ ask[v].token \in 1 .. Len(issued) /\ ask[v].tab \in Tabs
      BY <1>3, <2>2
    <3>2. /\ Backed(ask[v].token) /\ tab[ask[v].tab].token # 0
          /\ issued[tab[ask[v].tab].token].user = issued[ask[v].token].user
      BY <1>2, <2>2 DEF AskOwned
    <3>3. tab[ask[v].tab].token \in 1 .. Len(issued)
      BY <1>3, <3>1, <3>2
    <3> QED BY <1>4, <3>1, <3>2, <3>3
  <2> QED BY <2>1, <2>2 DEF AskOwned, Backed, BackedAfter
<1> QED BY <1>5, <1>6, <1>7

\* A step that leaves all but the age of the access tokens, and who is active, as it is.
LEMMA SafeStays ==
  ASSUME WebTypes, SessionSafe, UNCHANGED <<onDesktop, people, ended, browserVars, ask, left>>,
         DOMAIN issued' = DOMAIN issued, Len(issued') = Len(issued),
         \A r \in 1 .. Len(issued) : issued'[r].user = issued[r].user /\ issued'[r].revoked = issued[r].revoked
  PROVE  SessionSafe'
<1>1. UNCHANGED <<jar, saved, tab>> /\ Len(issued) \in Nat /\ {jar, saved} \subseteq 0 .. Len(issued)
      /\ (\A v \in Visits : ask[v].token \in 0 .. Len(issued)) /\ (\A b \in Tabs : tab[b].token \in 0 .. Len(issued))
  BY AskShape, TabShape DEF browserVars, WebTypes
<1>2. \A r \in Nat : Live(r)' = Live(r)
  BY <1>1 DEF Live, Known
<1>3. Live(jar)' = Live(jar) /\ \A v \in Visits : Sound(ask[v].token)' = Sound(ask[v].token)
  BY <1>1 DEF Sound, Live, Known
<1>4. OneAtATime' /\ Asked'
  BY <1>1 DEF SessionSafe, OneAtATime, Asked, AskFits, TabFits, AsksWho, Pending, Strong, OfSession, Session,
              Crowded, UnderTab, Busy, Closed
<1>5. Carried'
  <2>1. \A v \in Visits : Bears(ask[v]) => Bears(ask[v])'
    BY <1>1, <1>3 DEF Bears
  <2> QED BY <2>1 DEF SessionSafe, Carried, Pending
<1>6. Bearers' = Bearers /\ Renews' = Renews
  <2>1. Bearers' = Bearers
    BY <1>1, <1>2, <1>3 DEF Bearers, Renewed
  <2> QED BY <1>2, <2>1 DEF Renews, Bearers
<1>7. Owned'
  <2>1. \A t \in 1 .. Len(issued) : Backed(t) => BackedAfter(t)
    BY <1>6 DEF Backed, BackedAfter, Bearers
  <2> QED BY <1>1, <2>1, OwnedStays DEF SessionSafe, BackedStays, SameUsers
<1>8. LeftOver'
  BY <1>1, <1>3 DEF SessionSafe, LeftOver, Renewed
<1> QED BY <1>4, <1>5, <1>7, <1>8 DEF SessionSafe

\* The tokens of an account are revoked.
LEMMA SafeReset ==
  ASSUME WebTypes, SessionSafe, NEW u \in People, ResetPassword(u) PROVE SessionSafe'
<1>1. /\ UNCHANGED <<onDesktop, people, jar, saved, tab, ask, left>> /\ ended' = ended \cup TokensOf(u)
      /\ Len(issued) \in Nat /\ Len(issued') = Len(issued)
      /\ \A r \in 1 .. Len(issued) : /\ issued'[r].user = issued[r].user
                                     /\ issued'[r].revoked = (issued[r].revoked \/ r \in TokensOf(u))
  BY RevokedShape DEF ResetPassword, deployVars, browserVars, WebTypes
<1>2. \A r \in 1 .. Len(issued) : /\ Live(r)' => Live(r)
                                  /\ Live(r) => Live(r)' \/ issued[r].user = u
  BY <1>1 DEF Live, Known, TokensOf
<1>3. (Live(jar)' => Live(jar)) /\ (Live(jar) => Live(jar)' \/ issued[jar].user = u)
  BY <1>1 DEF Live, Known, TokensOf
<1>4. OneAtATime' /\ Asked'
  BY <1>1 DEF SessionSafe, OneAtATime, Asked, AskFits, TabFits, AsksWho, Pending, Strong, OfSession, Session,
              Crowded, UnderTab, Busy, Closed
<1>5. Carried'
  <2>1. ASSUME NEW v \in Visits PROVE Sound(ask[v].token) => Sound(ask[v].token)'
    BY <1>1 DEF Sound, Live, Known, TokensOf
  <2>2. \A v \in Visits : Bears(ask[v]) => Bears(ask[v])'
    BY <1>1, <1>3, <2>1 DEF Bears
  <2> QED BY <1>1, <2>2 DEF SessionSafe, Carried, Pending
<1>6. Owned'
  <2>1. \A r \in Bearers' : r \in Bearers /\ r \in 1 .. Len(issued)
    BY <1>1, <1>3 DEF Bearers, Renewed
  <2>2. \A r \in Bearers : Live(r) => (r \in Bearers' /\ Live(r)') \/ issued[r].user = u
    <3>1. ASSUME NEW r \in Bearers, Live(r), issued[r].user # u PROVE r \in Bearers' /\ Live(r)'
      <4>1. r \in 1 .. Len(issued) /\ Live(r)'
        BY <1>2, <3>1 DEF Bearers
      <4>2. r = jar /\ Live(jar) => Live(jar)'
        BY <1>3, <3>1
      <4> QED BY <1>1, <4>1, <4>2 DEF Bearers, Renewed
    <3> QED BY <3>1
  <2>3. ASSUME NEW t \in 1 .. Len(issued), Backed(t)
        PROVE  BackedAfter(t)
    <3>1. \A r \in Bearers' : issued'[r].user = issued'[t].user
      BY <1>1, <2>1, <2>3 DEF Backed
    <3>2. CASE issued[t].user = u \/ t \in ended
      BY <1>1, <3>1, <3>2 DEF TokensOf, BackedAfter
    <3>3. CASE issued[t].user # u /\ Renews
      <4>1. PICK r \in Bearers : Live(r)
        BY <3>3 DEF Renews
      <4>2. r \in Bearers' /\ Live(r)'
        BY <2>2, <2>3, <3>3, <4>1 DEF Backed
      <4>3. Renews'
        BY <4>2 DEF Renews, Live, Known
      <4> QED BY <3>1, <4>3 DEF BackedAfter
    <3> QED BY <2>3, <3>2, <3>3 DEF Backed
  <2> QED BY <1>1, <2>3, OwnedStays DEF SessionSafe, BackedStays, SameUsers
<1>7. LeftOver'
  BY <1>1, <1>3 DEF SessionSafe, LeftOver, Renewed
<1> QED BY <1>4, <1>5, <1>6, <1>7 DEF SessionSafe

-----------------------------------------------------------------------------
(* WebSession: the session follows the user *)

\* As long as nothing was crossed, the invariant holds.
SessionInv == WebTypes /\ (~crossed => SessionSafe)

LEMMA SessionStarts == WebSessionInit => SessionInv
<1> SUFFICES ASSUME WebSessionInit PROVE SessionInv
  OBVIOUS
<1>1. WebTypes
  BY WebStartTyped
<1>2. /\ issued = << >> /\ Len(issued) = 0 /\ jar = 0 /\ saved = 0 /\ ~left
      /\ \A b \in Tabs : tab[b] = Closed
      /\ \A v \in Visits : ask[v] = NoAsk
  BY DEF WebSessionInit
<1>3. \A v \in Visits : /\ ~Pending(ask[v]) /\ ~OfSession(ask[v]) /\ ~Strong(ask[v]) /\ ~AsksWho(ask[v])
                        /\ ~Shows(ask[v]) /\ ~Renewed(ask[v])
  BY <1>2 DEF NoAsk, Pending, OfSession, Strong, AsksWho, Shows, Renewed, Session
<1>4. OneAtATime /\ Asked /\ Carried /\ LeftOver
  BY <1>2, <1>3 DEF OneAtATime, Asked, Carried, LeftOver, TabFits, Closed
<1>5. Owned
  BY <1>2, <1>3 DEF Owned, SavedOwned, TabOwned, AskOwned, Closed
<1> QED BY <1>1, <1>4, <1>5 DEF SessionInv, SessionSafe

LEMMA CrossedStays == WebTypes /\ crossed /\ [WebSessionNext]_sessionVars => crossed'
<1> SUFFICES ASSUME WebTypes, crossed, [WebSessionNext]_sessionVars PROVE crossed'
  OBVIOUS
<1>1. ASSUME NEW r \in 1 .. MaxIssued, AccessExpires(r) PROVE crossed'
  BY <1>1 DEF AccessExpires
<1>2. ASSUME NEW b \in Tabs, Reload(b) PROVE crossed'
  BY <1>2 DEF Reload
<1>3. ASSUME NEW v \in Visits, NEW b \in Tabs,
             \/ Mount(v, b) \/ WhoIsIt(v, b) \/ Work(v, b) \/ SignOut(v, b) \/ DeleteAccount(v, b)
             \/ \E kind \in {"login", "register"}, who \in People : SignIn(v, b, kind, who)
      PROVE  crossed'
  BY <1>3 DEF Begin, Mount, WhoIsIt, Work, SignOut, DeleteAccount, SignIn
<1>4. ASSUME NEW v \in Visits, Unauthorized(v) \/ ServeMe(v) \/ ServeRegister(v) \/ ServeLogout(v) \/ ServeRefresh(v)
                               \/ ServeClaim(v) \/ \E right \in BOOLEAN : ServeLogin(v, right) \/ ServeDelete(v, right)
      PROVE  crossed'
  BY <1>4 DEF Unauthorized, ServeMe, ServeLogin, ServeRegister, ServeLogout, ServeDelete, ServeRefresh, ServeClaim
<1>5. ASSUME NEW v \in Visits, Lose(v) \/ HearUnauthorized(v) \/ HearRefresh(v) \/ HearMe(v) \/ HearNobody(v)
                               \/ HearClaim(v) \/ HearWork(v) \/ HearSession(v) \/ HearLogout(v) \/ HearDeleted(v)
      PROVE  crossed'
  BY <1>5 DEF Lose, HearUnauthorized, HearRefresh, HearMe, HearNobody, HearClaim, HearWork, HearSession, HearLogout,
              HearDeleted
<1>6. CASE UNCHANGED sessionVars
  BY <1>6 DEF sessionVars
<1>7. ASSUME NEW u \in People, ResetPassword(u) \/ Deactivate(u) PROVE crossed'
  BY <1>7 DEF ResetPassword, Deactivate
<1>8. CASE WebSessionNext
  BY <1>1, <1>2, <1>3, <1>4, <1>5, <1>7, <1>8 DEF WebSessionNext
<1> QED BY <1>6, <1>8

LEMMA SafeSteps ==
  ASSUME WebTypes, SessionSafe, [WebSessionNext]_sessionVars, ~crossed' PROVE SessionSafe'
<1>1. ASSUME NEW r \in 1 .. MaxIssued, AccessExpires(r) PROVE SessionSafe'
  <2>1. /\ r \in 1 .. Len(issued) /\ issued \in Seq(Issues)
        /\ \A s \in 1 .. Len(issued) : issued[s] \in Issues
    BY <1>1 DEF AccessExpires, Valid, WebTypes
  <2>2. issued' = [issued EXCEPT ![r] = [issued[r] EXCEPT !.fresh = FALSE]]
    BY <1>1, <2>1 DEF AccessExpires, Issues
  <2>3. /\ DOMAIN issued' = DOMAIN issued /\ Len(issued') = Len(issued)
        /\ \A s \in 1 .. Len(issued) : issued'[s].user = issued[s].user /\ issued'[s].revoked = issued[s].revoked
    BY <2>1, <2>2 DEF Issues
  <2> QED BY <1>1, <2>3, SafeStays DEF AccessExpires, deployVars, outsideVars
<1>2. CASE UNCHANGED sessionVars
  BY <1>2, SafeStays DEF sessionVars, serverVars, deployVars, outsideVars
<1>3. ASSUME NEW v \in Visits, HearNobody(v) PROVE SessionSafe'
  <2>1. AsksWho(ask[v]) /\ ~Renewed(ask[v]) /\ UNCHANGED <<serverVars, jar, saved, left>>
    BY <1>3, HearNobodyDoes DEF WhoAmI, Settled, AsksWho, Renewed, Pending
  <2> QED BY <1>3, <2>1, SafeNoUser, SafeNobodyClaims
<1>5. ASSUME NEW u \in People, Deactivate(u) PROVE SessionSafe'
  BY <1>5, SafeStays DEF Deactivate, deployVars
<1>4. CASE WebSessionNext
  BY <1>1, <1>3, <1>4, <1>5, SafeReset, SafeReload, SafeBegins, SafeServeLogin, SafeServeDelete, SafeUnauthorized, SafeServeMe,
     SafeServeRegister, SafeServeLogout, SafeServeRefresh, SafeServeClaim, SafeLose, SafeHearUnauthorized,
     SafeHearRefresh, SafeHearMe, SafeHearClaim, SafeHearWork, SafeHearSession, SafeHearLogout, SafeHearDeleted
     DEF WebSessionNext
<1> QED BY <1>2, <1>4

LEMMA SessionSteps == SessionInv /\ [WebSessionNext]_sessionVars => SessionInv'
BY TypedSteps, CrossedStays, SafeSteps DEF SessionInv, WebTypes

LEMMA SessionShown == SessionInv => SessionFollowsUser
<1> SUFFICES ASSUME SessionInv, ~crossed, Quiet
             PROVE  /\ \A b \in Tabs : tab[b].user # Nobody =>
                         /\ Token(b) # 0 /\ issued[Token(b)].user = tab[b].user
                         /\ Live(jar) => issued[jar].user = tab[b].user
                         /\ Live(jar) \/ Token(b) \in ended
                    /\ left => ~Live(jar) /\ saved = 0
  BY DEF SessionFollowsUser
<1>1. Unended /\ \A v \in Visits : ~Renewed(ask[v])
  BY DEF Quiet, Unended, Ending, Renewed
<1>2. (\A r \in Bearers : r = jar /\ Live(jar)) /\ (Renews => Live(jar)) /\ (Live(jar) => jar \in Bearers)
  BY <1>1 DEF Renews, Bearers, Live, Known
<1>3. ASSUME NEW b \in Tabs, tab[b].user # Nobody
      PROVE  /\ Token(b) # 0 /\ issued[Token(b)].user = tab[b].user
             /\ Live(jar) => issued[jar].user = tab[b].user
             /\ Live(jar) \/ Token(b) \in ended
  <2>1. tab[b].token # 0 /\ tab[b].user = issued[tab[b].token].user /\ Backed(tab[b].token)
    BY <1>1, <1>3 DEF SessionInv, SessionSafe, Owned, TabOwned
  <2> QED BY <1>2, <2>1 DEF Token, Backed
<1>4. left => ~Live(jar) /\ saved = 0
  BY DEF SessionInv, SessionSafe, LeftOver
<1> QED BY <1>3, <1>4

\* The session follows the user, for any tabs, accounts and requests: as long as no two requests
\* about the session overlap, none is lost and no tab changes it under another, a tab that shows a
\* user works under no other name and the cookie is of no other user; its token is live unless the
\* user's session expired or was revoked by a reset since (then the user goes on being shown); and
\* once a session was ended, nothing the browser keeps begins another (lib/auth.tsx, lib/api.ts
\* against auth.service.ts and refresh-token.service.ts).
THEOREM SessionIsTheUsers == WebSessionSpec => []SessionFollowsUser
BY SessionStarts, SessionSteps, SessionShown, PTL DEF WebSessionSpec

===============================================================================
