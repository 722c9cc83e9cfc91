------------------------------ MODULE MCServices ------------------------------
(***************************************************************************)
(* Small instances of the services that keep no process of their own: the   *)
(* ledger, the registration of nodes, the tokens of an account, the model    *)
(* files, the local engine, the media works, what a page or a stream shows   *)
(* of an agent run, the patches of an agent, its loop, its tools and their   *)
(* index, its processes and what its model gets to see, and the answers of   *)
(* the chat.  The parts share no variable: a behaviour runs one of them,     *)
(* chosen at its start, and leaves the others as they begin.                *)
(***************************************************************************)
EXTENDS CreditsService, NodeRegistration, Accounts, Downloads, LocalEngine, MediaJobs, AgentEvents,
        AgentPatch, AgentLoop, AgentTools, AgentTerminal, AgentContext, ChatServe, TLC

CONSTANTS alice, bob, p1, p2, f1, f2, f3, c4, g1, g2, s3

VARIABLE part

servicesVars ==
  <<part, creditVars, registrationVars, accountVars, downloadVars, engineVars,
    mediaVars, eventVars, patchVars, loopVars, toolVars, terminalVars, contextVars, chatVars>>

AliceHasOne == [u \in Users |-> IF u = alice THEN 1 ELSE 0]

\* Both runs work in p1; a file of p2 is out of their reach, but for a command.
TwoProjects == [p \in Projects |-> IF p = p1 THEN {f1, f2} ELSE {f3}]
AllInP1 == [c \in Calls |-> p1]
C4IsOfG2 == [c \in Calls |-> IF c = c4 THEN g2 ELSE g1]
S3IsOfG2 == [p \in Shells |-> IF p = s3 THEN g2 ELSE g1]

ServicesInit ==
  /\ part \in {"credits", "registration", "accounts", "downloads", "engine", "images", "clips",
              "page", "stream", "patch", "loop", "tools", "terminal", "context", "chat"}
  /\ CreditsInit /\ RegistrationInit /\ AccountsInit /\ DownloadsInit /\ EngineInit
  /\ MediaInit /\ EventsInit /\ PatchInit /\ LoopInit
  /\ ToolsInit /\ TerminalInit /\ ContextInit /\ ChatInit
  /\ (part # "patch" => holds = Nothing)
  /\ (part # "context" => system = Min(Prompts))
  /\ (part # "chat" => ~nodeUp)

ServicesNext ==
  /\ UNCHANGED part
  /\ IF part = "credits" THEN CreditsNext ELSE UNCHANGED creditVars
  /\ IF part = "registration" THEN RegistrationNext ELSE UNCHANGED registrationVars
  /\ IF part = "accounts" THEN AccountsNext ELSE UNCHANGED accountVars
  /\ IF part = "downloads" THEN DownloadsNext ELSE UNCHANGED downloadVars
  /\ IF part = "engine" THEN EngineNext ELSE UNCHANGED engineVars
  /\ CASE part = "images" -> ImagesNext
       [] part = "clips" -> ClipsNext
       [] OTHER -> UNCHANGED mediaVars
  /\ CASE part = "page" -> RunGoesOn \/ PageNext
       [] part = "stream" -> RunGoesOn \/ StreamNext \/ \E w \in Watches : StartRun(w)
       [] OTHER -> UNCHANGED eventVars
  /\ IF part = "patch" THEN PatchNext ELSE UNCHANGED patchVars
  /\ IF part = "loop" THEN LoopNext ELSE UNCHANGED loopVars
  /\ IF part = "tools" THEN ToolsNext ELSE UNCHANGED toolVars
  /\ IF part = "terminal" THEN TerminalNext ELSE UNCHANGED terminalVars
  /\ IF part = "context" THEN ContextNext ELSE UNCHANGED contextVars
  /\ IF part = "chat" THEN ChatNext ELSE UNCHANGED chatVars

ServicesSpec == ServicesInit /\ [][ServicesNext]_servicesVars

\* Requests are interchangeable; the parts take theirs from one set, which keeps the group small.
Interchangeable == Permutations(Txs)
=============================================================================
