----------------------------- MODULE LocalEngine -----------------------------
(***************************************************************************)
(* The bundled llama-server (llama-engine.service.ts): `start` stops the     *)
(* child process that is there, spawns another and polls the port until it   *)
(* answers.  The port answers for whichever child holds it, also one that is  *)
(* on its way out or was left over by an API that was killed.  Requests to    *)
(* start are not serialised.                                                 *)
(***************************************************************************)
EXTENDS Integers, FiniteSets

CONSTANTS
  Launches,      \* calls of start: use-local, setup, and the one of the bootstrap
  Models,      \* models they may ask for
  KillWaits,   \* TRUE on Windows: taskkill /f returns when the tree is gone
  NoModel,     \* no model
  NoChild      \* no child process

ASSUME EngineAssumption ==
  /\ KillWaits \in BOOLEAN /\ NoModel \notin Models /\ NoChild \notin Launches

\* The child that a call spawned is named after the call.
VARIABLES
  launch,      \* launch[s]: how far a call is, and its model
  child,      \* child[s]: the process that the call spawned
  proc,       \* this.proc
  ready,      \* this.ready
  announced,  \* the model that PeerService believes to be running
  saved,      \* engine.json
  installing, \* this.installing
  overlap,    \* two calls overlapped, or a child outlived the API
  missed      \* the last child answered a probe, and its exit was noticed before the answer

engineVars == <<launch, child, proc, ready, announced, saved, installing, overlap, missed>>

Alive == {s \in Launches : child[s] \in {"loading", "up", "dying"}}
\* /health answers 200 once the model is loaded, until the process is gone.
Answers == {s \in Launches : child[s] \in {"up", "dying"}}
Under(s) == launch[s].pc \in {"ensure", "poll", "probe", "answered"}
Underway == {s \in Launches : Under(s)}

LaunchTo(s, pc) == launch' = [launch EXCEPT ![s].pc = pc]

EngineInit ==
  /\ launch = [s \in Launches |-> [pc |-> "new", model |-> NoModel]]
  /\ child = [s \in Launches |-> "none"]
  /\ proc = NoChild /\ ready = FALSE /\ announced = NoModel /\ saved = NoModel
  /\ installing = FALSE /\ overlap = FALSE /\ missed = FALSE

\* setup and useLocalModel install what is missing first, and say so.
EngineSetup(s, m) ==
  /\ launch[s].pc = "new"
  /\ launch' = [launch EXCEPT ![s] = [pc |-> "ensure", model |-> m]]
  /\ installing' = TRUE
  /\ overlap' = (overlap \/ Underway # {})
  /\ UNCHANGED <<child, proc, ready, announced, saved, missed>>
\* What is missing cannot be had.
EnsureFails(s) ==
  /\ launch[s].pc = "ensure" /\ LaunchTo(s, "failed") /\ installing' = FALSE
  /\ UNCHANGED <<child, proc, ready, announced, saved, overlap, missed>>

\* stop: nothing is announced, and the child that is known is killed.
Killed == IF proc # NoChild /\ child[proc] \in {"loading", "up"}
          THEN [child EXCEPT ![proc] = IF KillWaits THEN "dead" ELSE "dying"]
          ELSE child
Spawn(s) ==
  /\ launch[s].pc = "ensure" /\ LaunchTo(s, "poll")
  /\ child' = [Killed EXCEPT ![s] = "loading"]
  /\ proc' = s /\ ready' = FALSE /\ announced' = NoModel
  /\ installing' = TRUE /\ missed' = FALSE
  /\ UNCHANGED <<saved, overlap>>

\* The child binds the port and loads its model; or it ends, of itself or because the port is
\* taken.
Loaded(s) ==
  /\ child[s] = "loading" /\ \A o \in Alive \ {s} : child[o] = "loading"
  /\ child' = [child EXCEPT ![s] = "up"]
  /\ UNCHANGED <<launch, proc, ready, announced, saved, installing, overlap, missed>>
ChildEnds(s) ==
  /\ child[s] \in {"loading", "up"}
  /\ child' = [child EXCEPT ![s] = "exited"]
  /\ UNCHANGED <<launch, proc, ready, announced, saved, installing, overlap, missed>>
ChildGone(s) ==
  /\ child[s] = "dying"
  /\ child' = [child EXCEPT ![s] = "dead"]
  /\ UNCHANGED <<launch, proc, ready, announced, saved, installing, overlap, missed>>
\* The event `exit`; only the newest child counts.
Exit(s) ==
  /\ child[s] = "exited" /\ child' = [child EXCEPT ![s] = "dead"]
  /\ IF proc = s THEN proc' = NoChild /\ ready' = FALSE ELSE UNCHANGED <<proc, ready>>
  /\ missed' = (missed \/ (proc = s /\ launch[s].pc = "answered"))
  /\ UNCHANGED <<launch, announced, saved, installing, overlap>>

\* One turn of the polling loop: this.proc is there, and the port is asked ...
Probe(s) ==
  /\ launch[s].pc = "poll" /\ proc # NoChild /\ LaunchTo(s, "probe")
  /\ UNCHANGED <<child, proc, ready, announced, saved, installing, overlap, missed>>
\* ... somebody answers, or nobody, ...
ProbeAnswered(s) ==
  /\ launch[s].pc = "probe" /\ Answers # {} /\ LaunchTo(s, "answered")
  /\ UNCHANGED <<child, proc, ready, announced, saved, installing, overlap, missed>>
ProbeFails(s) ==
  /\ launch[s].pc = "probe" /\ LaunchTo(s, "poll")
  /\ UNCHANGED <<child, proc, ready, announced, saved, installing, overlap, missed>>
\* ... and the answer, once it arrives, makes the engine ready, whatever this.proc is by then.
PollReady(s) ==
  /\ launch[s].pc = "answered" /\ LaunchTo(s, "done") /\ installing' = FALSE
  /\ ready' = TRUE /\ announced' = launch[s].model /\ saved' = launch[s].model
  /\ UNCHANGED <<child, proc, overlap, missed>>
\* A turn finds this.proc gone, or the time is up.
PollGone(s) ==
  /\ launch[s].pc = "poll" /\ proc = NoChild
  /\ LaunchTo(s, "failed") /\ installing' = FALSE
  /\ UNCHANGED <<child, proc, ready, announced, saved, overlap, missed>>
\* Broken variant (mutation check): the child that took too long is left alone.
PollGivesUp(s) ==
  /\ launch[s].pc = "poll" /\ LaunchTo(s, "failed") /\ installing' = FALSE
  /\ proc' = NoChild /\ ready' = FALSE /\ announced' = NoModel
  /\ UNCHANGED <<child, saved, overlap, missed>>
PollTimeOut(s) ==
  /\ launch[s].pc = "poll" /\ LaunchTo(s, "failed") /\ installing' = FALSE
  /\ child' = Killed /\ proc' = NoChild /\ ready' = FALSE /\ announced' = NoModel
  /\ UNCHANGED <<saved, overlap, missed>>

\* The API ends.  The desktop kills its children with it; elsewhere they may live on.
ApiEnds(survives) ==
  /\ \E s \in Launches : launch[s].pc # "new"
  /\ child' = [s \in Launches |->
       IF child[s] = "none" \/ (survives /\ child[s] = "up") THEN child[s] ELSE "dead"]
  /\ launch' = [s \in Launches |-> IF Under(s) THEN [launch[s] EXCEPT !.pc = "failed"] ELSE launch[s]]
  /\ proc' = NoChild /\ ready' = FALSE /\ announced' = NoModel /\ installing' = FALSE
  /\ overlap' = (overlap \/ \E s \in Launches : child'[s] = "up") /\ missed' = FALSE
  /\ UNCHANGED saved
\* onApplicationBootstrap: what was running is adopted, or started again.
Adopt ==
  /\ proc = NoChild /\ ~ready /\ saved # NoModel /\ Underway = {} /\ Answers # {}
  /\ ready' = TRUE
  /\ UNCHANGED <<launch, child, proc, announced, saved, installing, overlap, missed>>
Restore(s) ==
  /\ proc = NoChild /\ ~ready /\ saved # NoModel /\ Answers = {}
  /\ launch[s].pc = "new"
  /\ launch' = [launch EXCEPT ![s] = [pc |-> "poll", model |-> saved]]
  /\ child' = [child EXCEPT ![s] = "loading"] /\ proc' = s
  /\ overlap' = (overlap \/ Underway # {}) /\ missed' = FALSE
  /\ UNCHANGED <<ready, announced, saved, installing>>

EngineNext ==
  \/ \E s \in Launches :
       \/ \E m \in Models : EngineSetup(s, m)
       \/ EnsureFails(s) \/ Spawn(s) \/ Loaded(s) \/ ChildEnds(s) \/ ChildGone(s) \/ Exit(s)
       \/ Probe(s) \/ ProbeAnswered(s) \/ ProbeFails(s) \/ PollReady(s)
       \/ PollGone(s) \/ PollTimeOut(s) \/ Restore(s)
  \/ \E survives \in BOOLEAN : ApiEnds(survives)
  \/ Adopt

EngineSpec == EngineInit /\ [][EngineNext]_engineVars

-----------------------------------------------------------------------------
(* Properties *)

EngineTypeOK ==
  /\ \A s \in Launches : /\ launch[s].pc \in {"new", "ensure", "poll", "probe", "answered", "done", "failed"}
                       /\ launch[s].model \in Models \cup {NoModel}
  /\ child \in [Launches -> {"none", "loading", "up", "dying", "exited", "dead"}]
  /\ proc \in Launches \cup {NoChild} /\ ready \in BOOLEAN /\ installing \in BOOLEAN
  /\ announced \in Models \cup {NoModel} /\ saved \in Models \cup {NoModel}
  /\ overlap \in BOOLEAN /\ missed \in BOOLEAN

\* The model that the engine is taken to run is the one that its child loaded: what peers are
\* told, what engine.json says and what answers are the same, until the exit of the child is
\* noticed.
Faithful == ready => /\ proc # NoChild /\ announced = saved
                     /\ launch[proc].model = announced /\ child[proc] \in {"up", "exited"}

\* ... as long as a kill is immediate, no two starts overlap, no child outlived the API, and the
\* exit of this child was not noticed in the moment between its answer and the step that takes the
\* answer for readiness (`missed`: the engine then counts as ready without a child until it is
\* stopped).  And with a `missed` exit or without, no child runs that the engine does not know.
ReadyIsLoaded ==
  KillWaits /\ ~overlap => /\ ~missed => Faithful
                           /\ \A s \in Alive : s = proc

\* "it will only lend compute for the model already running".
LendsWhatRuns ==
  ready /\ announced # NoModel => \A s \in Answers : launch[s].model = announced
=============================================================================
