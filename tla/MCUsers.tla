-------------------------------- MODULE MCUsers --------------------------------
(***************************************************************************)
(* Small instances of what a user has to do with: the runs of the agent,    *)
(* the chat page and the session of a browser.  The parts share no variable: *)
(* a behaviour runs one of them, chosen at its start, and leaves the others  *)
(* as they begin.                                                           *)
(***************************************************************************)
EXTENDS AgentRuns, ChatPage, WebSession, TLC

CONSTANTS alice, owner

VARIABLE part

AllAlice == [r \in Runs |-> alice]

\* While something has overlapped an answer or a load, no message is sent and nothing is deleted:
\* what is shown from then on is not claimed.
QuietSteps ==
  /\ ChatPageNext
  /\ strayed /\ deleting = NoDeletion => deleting' = NoDeletion
  /\ \A s \in Sends : strayed /\ send[s].pc = "new" => send'[s].pc = "new"

UsersInit ==
  /\ part \in {"runs", "chat", "session"}
  /\ AgentInit /\ ChatPageInit /\ WebSessionInit
  \* A desktop sets no domain.
  /\ part # "session" \/ onDesktop => ~cookieDomain
  /\ part # "session" => ~onDesktop

UsersNext ==
  /\ UNCHANGED part
     \* A behaviour ends when every run has ended.
  /\ \/ /\ part = "runs" /\ \E r \in Runs : run[r].status \notin Ended
        /\ AgentNext /\ UNCHANGED <<chatPageVars, sessionVars>>
     \/ part = "chat" /\ QuietSteps /\ UNCHANGED <<agentVars, sessionVars>>
     \* Once requests have crossed nothing is claimed, and a behaviour ends.
     \/ part = "session" /\ ~crossed /\ WebSessionNext /\ UNCHANGED <<agentVars, chatPageVars>>

UsersSpec == UsersInit /\ [][UsersNext]_<<part, agentVars, chatPageVars, sessionVars>>

\* The requests of one part have the names of the tabs of another, which keeps the group small.
Interchangeable == Permutations(Requests) \cup Permutations(Runs)
=============================================================================
