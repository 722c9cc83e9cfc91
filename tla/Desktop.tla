------------------------------- MODULE Desktop -------------------------------
(***************************************************************************)
(* The desktop shell (main.js): it boots a database, a web server and the   *)
(* API, watches the API and restarts it when it stops answering, looks for  *)
(* updates, and stops all of them when the user quits: the processes in its *)
(* list in that very step, the database by a call that nobody awaits.       *)
(* Electron asks every window before it quits, and a window may refuse;     *)
(* while the stack is starting up, startStack goes on until the splash      *)
(* screen has closed.  An Ollama that the shell started (:1046) is detached *)
(* on purpose: it is no part of the stack.                                  *)
(***************************************************************************)
EXTENDS Integers, FiniteSets

CONSTANTS
  MaxApis,    \* API processes ever started (bound)
  MaxMisses,  \* misses of the watchdog before it acts (3)
  MaxVersion  \* newest version that is ever published (bound)

ASSUME DesktopAssumption ==
  MaxApis \in Nat /\ MaxMisses \in Nat \ {0} /\ MaxVersion \in Nat

VARIABLES
  stage,      \* how far startStack is, or "up", "failed", "ended"
  attempt,    \* attempts to start the API in this boot
  database,   \* the embedded Postgres: off, on, or asked to stop
  tool,       \* the process that migrates and seeds runs: it is in no list
  webServer,  \* the web server runs
  apis,       \* apis[a]: an API process
  apiProc,    \* apiProc, 0 before there is one
  watchdog,   \* what restartApi is doing
  misses,     \* fails
  isQuitting, \* isQuitting
  window,     \* the main window
  quit,       \* Electron is quitting: stopAll has run, the windows are asked
  early,      \* history: stopAll ran for the last time while startStack was under way
  cluster,    \* the files of the database exist
  migrated,   \* .migrated holds the fingerprint of this version
  version,    \* the version that is installed
  update      \* checkForUpdates: how far it is, and the version it is about

bootVars == <<stage, attempt, cluster, migrated, tool>>
stackVars == <<database, webServer, apis, apiProc>>
shellVars == <<isQuitting, window, quit, early>>
desktopVars == <<stage, attempt, database, tool, webServer, apis, apiProc, watchdog, misses,
                 isQuitting, window, quit, early, cluster, migrated, version, update>>

Processes == 1 .. MaxApis
Running(a) == apis[a] \in {"starting", "up", "hung"}
ApiAnswers == \E a \in Processes : apis[a] = "up"
PortFree == \A a \in Processes : ~Running(a)
NextApi(a) == apis[a] = "none" /\ \A b \in 1 .. a - 1 : apis[b] # "none"
NoUpdate == [pc |-> "idle", version |-> 0]

DesktopInit ==
  /\ stage = "database" /\ attempt = 0
  /\ database = "off" /\ tool = FALSE /\ webServer = FALSE
  /\ apis = [a \in Processes |-> "none"] /\ apiProc = 0
  /\ watchdog = "watching" /\ misses = 0
  /\ isQuitting = FALSE /\ window = "none" /\ quit = FALSE /\ early = FALSE
  /\ cluster \in BOOLEAN /\ migrated \in BOOLEAN /\ (migrated => cluster)
  /\ version = 1 /\ update = NoUpdate

-----------------------------------------------------------------------------
(* startStack *)

BootTo(s) == stage' = s

\* What a former instance left is cleared, the database starts and, in the step that awaited it,
\* the web server and the tool that brings the database up to date.
StartDb ==
  /\ stage = "database" /\ BootTo("migrate")
  /\ database' = "on" /\ cluster' = TRUE /\ webServer' = TRUE /\ tool' = ~migrated
  /\ UNCHANGED <<attempt, migrated, apis, apiProc, watchdog, misses, shellVars, version, update>>
Migrate ==
  /\ stage = "migrate" /\ (tool => database # "off")
  /\ BootTo("api") /\ migrated' = TRUE /\ tool' = FALSE
  /\ UNCHANGED <<attempt, cluster, stackVars, watchdog, misses, shellVars, version, update>>

\* One attempt to start the API; the second one only after the first ended or took too long.
StartApi(a) ==
  /\ stage = "api" /\ attempt < 2 /\ NextApi(a)
  /\ attempt' = attempt + 1 /\ BootTo("await")
  /\ apis' = [apis EXCEPT ![a] = "starting"] /\ apiProc' = a
  /\ UNCHANGED <<cluster, migrated, tool, database, webServer, watchdog, misses, shellVars,
                 version, update>>
ApiAnswered ==
  /\ stage = "await" /\ ApiAnswers
  /\ BootTo("up") /\ window' = "shown"
  /\ UNCHANGED <<attempt, cluster, migrated, tool, stackVars, watchdog, misses, isQuitting, quit,
                 early, version, update>>
ApiGivenUp ==
  /\ stage = "await" /\ apis[apiProc] # "up"
  /\ apis' = [apis EXCEPT ![apiProc] = "dead"] /\ BootTo("api")
  /\ UNCHANGED <<attempt, cluster, migrated, tool, database, webServer, apiProc, watchdog, misses,
                 shellVars, version, update>>

\* stopAll: every process in the list, by a call that returns when it is done, and pg.stop(),
\* which has not finished when the shell goes on.  The tool is not in the list.
Stopped == [a \in Processes |-> IF Running(a) THEN "dead" ELSE apis[a]]
StopAll ==
  /\ webServer' = FALSE /\ apis' = Stopped
  /\ database' = IF database = "on" THEN "stopping" ELSE database
  /\ UNCHANGED apiProc
\* The database has stopped, also after the shell has gone.
DbStops ==
  /\ database = "stopping" /\ database' = "off"
  /\ UNCHANGED <<bootVars, webServer, apis, apiProc, watchdog, misses, shellVars, version, update>>

\* showBootFailure: a step failed (the tool has ended by then), or both attempts did.
BootFails ==
  /\ \/ stage \in {"database", "migrate"}
     \/ stage = "api" /\ attempt = 2
     \/ stage = "await" /\ ApiAnswers
  /\ BootTo("ended") /\ tool' = FALSE /\ isQuitting' = TRUE /\ StopAll /\ early' = FALSE
  /\ UNCHANGED <<attempt, cluster, migrated, watchdog, misses, window, quit, version, update>>

-----------------------------------------------------------------------------
(* The API and its watchdog *)

ApiDoes(a) ==
  /\ Running(a)
  /\ \E s \in {"up", "hung", "dead"} :
       /\ s # apis[a] /\ (s = "up" => database # "off" /\ \A b \in Processes \ {a} : ~Running(b))
       /\ apis' = [apis EXCEPT ![a] = s]
  /\ UNCHANGED <<bootVars, database, webServer, apiProc, watchdog, misses, shellVars, version, update>>

\* One probe every 20 s.
Probe ==
  /\ stage = "up" /\ ~isQuitting /\ watchdog = "watching"
  /\ IF ApiAnswers THEN misses' = 0 /\ UNCHANGED watchdog
     ELSE IF misses + 1 < MaxMisses THEN misses' = misses + 1 /\ UNCHANGED watchdog
     ELSE misses' = 0 /\ watchdog' = "kill"
  /\ UNCHANGED <<bootVars, stackVars, shellVars, version, update>>

RestartKill ==
  /\ stage = "up" /\ watchdog = "kill"
  /\ watchdog' = IF isQuitting THEN "watching" ELSE "wait"
  /\ apis' = IF isQuitting THEN apis ELSE [apis EXCEPT ![apiProc] = "dead"]
  /\ UNCHANGED <<bootVars, database, webServer, apiProc, misses, shellVars, version, update>>
\* Broken variant (mutation check): nobody looks at isQuitting after the wait.
RestartSpawnAnyway(a) ==
  /\ stage = "up" /\ watchdog = "wait" /\ NextApi(a)
  /\ watchdog' = "boot"
  /\ apis' = [apis EXCEPT ![a] = "starting"] /\ apiProc' = a
  /\ UNCHANGED <<bootVars, database, webServer, misses, shellVars, version, update>>
RestartSpawn(a) ==
  /\ stage = "up" /\ watchdog = "wait" /\ NextApi(a)
  /\ IF isQuitting
     THEN watchdog' = "watching" /\ UNCHANGED <<apis, apiProc>>
     ELSE /\ watchdog' = "boot"
          /\ apis' = [apis EXCEPT ![a] = "starting"] /\ apiProc' = a
  /\ UNCHANGED <<bootVars, database, webServer, misses, shellVars, version, update>>
\* Broken variant (mutation check): only an API that answers ends the restart.
RestartAnswered ==
  /\ stage = "up" /\ watchdog = "boot" /\ ApiAnswers
  /\ watchdog' = "watching"
  /\ UNCHANGED <<bootVars, stackVars, misses, shellVars, version, update>>
\* It answers and the window is reloaded, or the time is up.
RestartEnds ==
  /\ stage = "up" /\ watchdog = "boot"
  /\ watchdog' = "watching"
  /\ UNCHANGED <<bootVars, stackVars, misses, shellVars, version, update>>

-----------------------------------------------------------------------------
(* Quitting *)

CloseWindow ==
  /\ window = "shown" /\ ~quit /\ ~isQuitting /\ window' = "hidden"
  /\ UNCHANGED <<bootVars, stackVars, watchdog, misses, isQuitting, quit, early, version, update>>
ShowWindow ==
  /\ window = "hidden" /\ window' = "shown"
  /\ UNCHANGED <<bootVars, stackVars, watchdog, misses, isQuitting, quit, early, version, update>>

\* The tray's Quit says that it means it; the menu's does not, and it is there while the stack
\* starts.  before-quit stops what there is.
Quit(tray) ==
  /\ stage # "ended" /\ ~quit /\ (tray => stage = "up")
  /\ isQuitting' = (isQuitting \/ tray)
  /\ StopAll /\ quit' = TRUE /\ early' = (stage # "up")
  /\ UNCHANGED <<bootVars, watchdog, misses, window, version, update>>
\* The splash screen closes.  The main window hides instead, unless the shell is quitting.
WindowAsked ==
  /\ quit /\ quit' = FALSE /\ stage # "ended"
  /\ IF isQuitting \/ window = "none"
     THEN BootTo("ended") /\ window' = "none"
     ELSE window' = "hidden" /\ UNCHANGED stage
  /\ UNCHANGED <<attempt, cluster, migrated, tool, stackVars, watchdog, misses, isQuitting, early,
                 version, update>>

-----------------------------------------------------------------------------
(* Updates *)

\* The manifest is newer and signed, or that is the end of it.
CheckForUpdates(v) ==
  /\ stage = "up" /\ update.pc = "idle" /\ v > version
  /\ update' = [pc |-> "download", version |-> v]
  /\ UNCHANGED <<bootVars, stackVars, watchdog, misses, shellVars, version>>
\* The user says later, or the download or its checksum fails.
UpdateEnds ==
  /\ stage = "up" /\ update.pc = "download" /\ update' = NoUpdate
  /\ UNCHANGED <<bootVars, stackVars, watchdog, misses, shellVars, version>>
\* The installer runs and the shell quits.
InstallUpdate ==
  /\ stage = "up" /\ ~quit /\ update.pc = "download"
  /\ version' = update.version /\ update' = NoUpdate /\ migrated' = FALSE
  /\ isQuitting' = TRUE /\ StopAll /\ quit' = TRUE /\ early' = FALSE
  /\ UNCHANGED <<stage, attempt, cluster, tool, watchdog, misses, window>>
\* The user, or the installer, starts the app again.  (A launch beside what an early quit left
\* running is not followed.)
Launch ==
  /\ stage = "ended" /\ ~early /\ \E a \in Processes : NextApi(a)
  /\ BootTo("database") /\ attempt' = 0
  /\ apiProc' = 0 /\ watchdog' = "watching" /\ misses' = 0
  /\ isQuitting' = FALSE /\ window' = "none" /\ quit' = FALSE /\ update' = NoUpdate
  /\ UNCHANGED <<database, tool, webServer, apis, early, cluster, migrated, version>>

DesktopNext ==
  \/ StartDb \/ Migrate \/ ApiAnswered \/ ApiGivenUp \/ BootFails \/ DbStops
  \/ Probe \/ RestartKill \/ RestartEnds
  \/ \E a \in Processes : StartApi(a) \/ ApiDoes(a) \/ RestartSpawn(a)
  \/ CloseWindow \/ ShowWindow \/ WindowAsked \/ \E tray \in BOOLEAN : Quit(tray)
  \/ \E v \in 1 .. MaxVersion : CheckForUpdates(v)
  \/ UpdateEnds \/ InstallUpdate \/ Launch

DesktopSpec == DesktopInit /\ [][DesktopNext]_desktopVars

\* The interval of the watchdog and the steps of restartApi go on.
DesktopFairness ==
  /\ WF_desktopVars(Probe) /\ WF_desktopVars(RestartKill) /\ WF_desktopVars(RestartEnds)
  /\ WF_desktopVars(\E a \in Processes : RestartSpawn(a))
DesktopFairSpec == DesktopSpec /\ DesktopFairness

-----------------------------------------------------------------------------
(* Properties *)

DesktopTypeOK ==
  /\ stage \in {"database", "migrate", "api", "await", "up", "ended"} /\ attempt \in 0 .. 2
  /\ apis \in [Processes -> {"none", "starting", "up", "hung", "dead"}] /\ apiProc \in 0 .. MaxApis
  /\ watchdog \in {"watching", "kill", "wait", "boot"} /\ misses \in 0 .. MaxMisses - 1
  /\ window \in {"none", "shown", "hidden"}
  /\ database \in {"off", "on", "stopping"}
  /\ {tool, webServer, isQuitting, quit, early, cluster, migrated} \subseteq BOOLEAN
  /\ version \in 1 .. MaxVersion /\ update.pc \in {"idle", "download"}

\* A shell that had started up, or has said that it could not, leaves nothing of its stack that
\* nobody stopped, whenever the user quits, also while the watchdog is restarting the API: no web
\* server and no API is left, and the database has ended or was asked to.  (A quit while the
\* stack starts is excused: startStack goes on meanwhile, and its tool is in no list.)
NothingSurvives ==
  stage = "ended" /\ ~early => database # "on" /\ ~tool /\ ~webServer /\ PortFree

\* An API that does not answer any more is killed, or answers again, unless the shell quits.
HungIsReplaced ==
  \A a \in Processes :
    stage = "up" /\ apis[a] = "hung" ~> apis[a] # "hung" \/ isQuitting

\* "Closing the window hides it to the tray (so the embedded stack + any running node keep
\* going). Real exit is the tray's Quit": while the window is there and nobody quits, the
\* database and the web server run.
StackKeepsGoing == stage = "up" /\ ~quit /\ ~isQuitting => database = "on" /\ webServer
=============================================================================
