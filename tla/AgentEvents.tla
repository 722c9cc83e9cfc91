----------------------------- MODULE AgentEvents -----------------------------
(***************************************************************************)
(* What the user sees of an agent run.  The execution numbers its events    *)
(* and writes them one after the other (agent-execution.service.ts); the    *)
(* table of runs and the events are read by polling with a cursor           *)
(* (agent-run.service.ts), by a stream (agent.controller.ts) and by the     *)
(* page, which keeps a transcript for each folder in the browser            *)
(* (web/app/app/agent/page.tsx).  One run, of the folder it was started in. *)
(* Every event makes an entry of the transcript: the ones that only change  *)
(* the header are left out.                                                 *)
(***************************************************************************)
EXTENDS Filtering, SequencesExt

CONSTANTS
  Folders,    \* folders of the page, each with its transcript
  MaxEvents,  \* events of the run (bound)
  Take,       \* events that a read returns, from the oldest (1000)
  Keep,       \* entries of a transcript that the browser keeps (400)
  Watches,    \* slots for watches of the page (bound)
  Stream,     \* the one for a stream
  Wanders     \* BOOLEAN: the user may switch folders under a watch (bound)

ASSUME EventsAssumption ==
  /\ {MaxEvents, Take, Keep} \subseteq Nat \ {0} /\ Folders # {} /\ Wanders \in BOOLEAN /\ Stream \notin Watches

VARIABLES
  status,     \* of the run's row: "NONE", "RUNNING", ...
  execution,  \* "none", "runs", "told" (nothing more to emit), "gone" (not in the map)
  emitted,    \* number of the last event
  told,       \* number of the event that tells the end, 0 without
  writes,     \* events that wait to be written, in their order
  log,        \* events in the table, by creation
  watch,      \* watch[w]: a watch: where it is, its cursor, what it read of the row and the log
  current,    \* the watch whose generation is the page's
  page,       \* the page: its folder, the entries it shows, the events it has seen
  transcript, \* transcript[f]: what the browser keeps
  sent,       \* events that the stream sent
  home,       \* the folder of the run
  excused     \* whether the page left the folder under a watch, or entries were dropped

eventVars == <<status, execution, emitted, told, writes, log, watch, current, page, transcript, sent,
               home, excused>>
runVars == <<status, execution, emitted, told, writes, log, home>>
viewVars == <<watch, current, page, transcript, sent, excused>>

End == 0  \* the entry that the page adds when no event told the end
Off == [pc |-> "off", cursor |-> 0, status |-> "NONE", rows |-> 0]
Again(w) == [Off EXCEPT !.pc = "ask", !.cursor = watch[w].cursor]
Slots == Watches \cup {Stream}
Closed == {"COMPLETED", "FAILED", "CANCELLED", "INTERRUPTED"}

EventsInit ==
  /\ status = "NONE" /\ execution = "none" /\ emitted = 0 /\ told = 0 /\ writes = << >> /\ log = << >>
  /\ watch = [w \in Slots |-> Off] /\ current = CHOOSE w \in Watches : TRUE
  /\ home = CHOOSE f \in Folders : TRUE
  /\ page = [folder |-> home, entries |-> << >>, seen |-> {}, listed |-> FALSE]
  /\ transcript = [f \in Folders |-> << >>] /\ sent = << >> /\ excused = FALSE

-----------------------------------------------------------------------------
(* The execution *)

\* emit: the number is taken at once, the write follows the ones before it.
Emit ==
  /\ execution = "runs" /\ emitted < MaxEvents
  /\ emitted' = emitted + 1 /\ writes' = Append(writes, emitted + 1)
  /\ UNCHANGED <<status, execution, told, log, home, viewVars>>

\* The answer is an event before it is in the row; a failure, or what a cancelled run ends with,
\* after it.
Final ==
  /\ execution = "runs" /\ told = 0 /\ emitted < MaxEvents
  /\ emitted' = emitted + 1 /\ writes' = Append(writes, emitted + 1) /\ told' = emitted + 1
  /\ UNCHANGED <<status, execution, log, home, viewVars>>
Completes ==
  /\ execution = "runs" /\ told # 0
  /\ status' = IF status \in {"CANCELLED", "COMPLETED"} THEN status ELSE "COMPLETED"
  /\ execution' = "told"
  /\ UNCHANGED <<emitted, told, writes, log, home, viewVars>>
Fails ==
  /\ execution = "runs" /\ status \notin {"FAILED", "CANCELLED"}
  /\ status' = "FAILED"
  /\ UNCHANGED <<execution, emitted, told, writes, log, home, viewVars>>
TellsFailure ==
  /\ execution = "runs" /\ status \in {"FAILED", "CANCELLED"} /\ emitted < MaxEvents
  /\ emitted' = emitted + 1 /\ writes' = Append(writes, emitted + 1) /\ told' = emitted + 1
  /\ execution' = "told"
  /\ UNCHANGED <<status, log, home, viewVars>>
\* cancel, by the user; the sweep, while the execution goes on.
RunCancelled ==
  /\ status \in {"RUNNING", "INTERRUPTED"} /\ status' = "CANCELLED"
  /\ UNCHANGED <<execution, emitted, told, writes, log, home, viewVars>>
RunSwept ==
  /\ status = "RUNNING" /\ status' = "INTERRUPTED"
  /\ UNCHANGED <<execution, emitted, told, writes, log, home, viewVars>>

\* appendEvent of the i-th that waits; a write that fails is logged and skipped.
Write(i) ==
  /\ i <= Len(writes) /\ writes' = RemoveAt(writes, i)
  /\ log' \in {log, Append(log, writes[i])}
  /\ UNCHANGED <<status, execution, emitted, told, home, viewVars>>
\* Broken variant (mutation check): the writes do not wait for each other.
EventWrittenAnyhow == \E i \in 1 .. Len(writes) : Write(i)
\* eventWrites: one after the other.
EventWritten == Write(1)

\* The execution leaves the map when its writes are done.
ExecutionLeaves ==
  /\ execution = "told" /\ writes = << >> /\ execution' = "gone"
  /\ UNCHANGED <<status, emitted, told, writes, log, home, viewVars>>

\* The API restarts: the map and the writes are lost, an open run is interrupted.
EventsRestart ==
  /\ execution \in {"runs", "told"}
  /\ execution' = "gone" /\ writes' = << >>
  /\ status' = IF status = "RUNNING" THEN "INTERRUPTED" ELSE status
  /\ watch' = [w \in Slots |-> IF w = Stream THEN Off
                               ELSE IF watch[w].pc \in {"log", "reply"} THEN Again(w) ELSE watch[w]]
  /\ UNCHANGED <<emitted, told, log, home, current, page, transcript, sent, excused>>

-----------------------------------------------------------------------------
(* Reading *)

\* recoverRun: unless the page watches anew, it asks, and events reads the row, then the oldest
\* events; only after both, whether the execution is in the map.
ReadRow(w) ==
  /\ watch[w].pc = "ask"
  /\ watch' = [watch EXCEPT ![w] = IF w \in {current, Stream}
                                   THEN [@ EXCEPT !.pc = "log", !.status = status] ELSE Off]
  /\ UNCHANGED <<runVars, current, page, transcript, sent, excused>>
ReadLog(w) ==
  /\ watch[w].pc = "log"
  /\ watch' = [watch EXCEPT ![w].pc = "reply", ![w].rows = IF Len(log) > Take THEN Take ELSE Len(log)]
  /\ UNCHANGED <<runVars, current, page, transcript, sent, excused>>

\* Those after the cursor.
NewRows(w) == Filter(SubSeq(log, 1, watch[w].rows), watch[w].cursor + 1 .. MaxEvents)
Cursor(w) == IF NewRows(w) = << >> THEN watch[w].cursor ELSE Last(NewRows(w))
Over(w) == watch[w].status \in Closed /\ execution \notin {"runs", "told"}
Advance(w) == watch' = [watch EXCEPT ![w] =
                IF Over(w) THEN Off ELSE [Off EXCEPT !.pc = "ask", !.cursor = Cursor(w)]]

\* stream: whatever the reply has is sent.
StreamSends ==
  /\ watch[Stream].pc = "reply"
  /\ sent' = sent \o NewRows(Stream)
  /\ Advance(Stream)
  /\ UNCHANGED <<runVars, current, page, transcript, excused>>
StreamOpens ==
  /\ watch[Stream].pc = "off" /\ status # "NONE" /\ sent' = << >>
  /\ watch' = [watch EXCEPT ![Stream] = [Off EXCEPT !.pc = "ask"]]
  /\ UNCHANGED <<runVars, current, page, transcript, excused>>

\* saveHist, of the entries that a rendering shows: the last of them.
Kept(entries) == SubSeq(entries, IF Len(entries) > Keep THEN Len(entries) - Keep + 1 ELSE 1, Len(entries))
Show(entries, seen) ==
  /\ page' = [page EXCEPT !.entries = entries, !.seen = seen]
  /\ transcript' = IF entries = << >> THEN transcript
                   ELSE [transcript EXCEPT ![page.folder] = Kept(entries)]
  /\ excused' = (excused \/ Len(entries) > Keep)

\* Without an event of the run's end, the page tells it from the row; the event of a failure does
\* not count.
EndToTell(w, entries) ==
  /\ Over(w) /\ ~Contains(entries, End)
  /\ \/ watch[w].status = "COMPLETED" /\ ~Contains(entries, told)
     \/ watch[w].status \in {"FAILED", "INTERRUPTED"}

\* recoverRun: events that were seen are passed over.
PageReceives(w) ==
  LET new == Filter(NewRows(w), (1 .. MaxEvents) \ page.seen)
      entries == page.entries \o new IN
  /\ w \in Watches /\ watch[w].pc = "reply"
  /\ Show(IF EndToTell(w, entries) THEN Append(entries, End) ELSE entries, page.seen \cup ToSet(new))
  /\ Advance(w)
  /\ UNCHANGED <<runVars, current, sent>>
\* The request fails somewhere; the loop goes on a second later.
RequestFails(w) ==
  /\ w \in Watches /\ watch[w].pc = "reply"
  /\ watch' = [watch EXCEPT ![w] = Again(w)]
  /\ UNCHANGED <<runVars, current, page, transcript, sent, excused>>

\* A new generation, in a slot that is free.
Watch(w) ==
  /\ w \in Watches /\ (w = current => Watches = {current})
  /\ watch[w].pc = "off" /\ current' = w
  /\ watch' = [watch EXCEPT ![w] = [Off EXCEPT !.pc = "ask"]]

\* The user starts the run, and the page watches it.
StartRun(w) ==
  /\ status = "NONE" /\ status' = "RUNNING" /\ execution' = "runs" /\ home' = page.folder
  /\ Watch(w)
  /\ UNCHANGED <<emitted, told, writes, log, page, transcript, sent, excused>>
\* The list of runs that a fresh page asked for: an open one is watched, from its first event.
RunsListed(w) ==
  /\ ~page.listed /\ page' = [page EXCEPT !.listed = TRUE]
  /\ IF status = "RUNNING" THEN Watch(w) ELSE UNCHANGED <<watch, current>>
  /\ UNCHANGED <<runVars, transcript, sent, excused>>

Restored(f) == [page EXCEPT !.folder = f, !.entries = transcript[f], !.seen = ToSet(transcript[f]) \ {End}]
\* The page is left and opened again: what it held is gone but for the transcript.
Reload ==
  /\ page.listed /\ page' = [Restored(page.folder) EXCEPT !.listed = FALSE]
  /\ watch' = [w \in Slots |-> IF w = Stream THEN watch[w] ELSE Off]
  /\ UNCHANGED <<runVars, current, transcript, sent, excused>>
\* The folder is switched; a watch goes on.
SwitchFolder(f) ==
  /\ f # page.folder /\ page' = Restored(f)
  /\ LET watched == \E w \in Watches : watch[w].pc # "off" IN
       (watched => Wanders) /\ excused' = (excused \/ watched)
  /\ UNCHANGED <<runVars, watch, current, transcript, sent>>

RunGoesOn ==
  \/ Emit \/ Final \/ Completes \/ Fails \/ TellsFailure \/ RunCancelled \/ RunSwept
  \/ EventWritten \/ ExecutionLeaves \/ EventsRestart
Reads(w) == ReadRow(w) \/ ReadLog(w)
StreamNext == StreamOpens \/ StreamSends \/ Reads(Stream)
PageNext ==
  \/ \E w \in Watches : \/ Reads(w) \/ PageReceives(w) \/ RequestFails(w) \/ StartRun(w) \/ RunsListed(w)
  \/ \E f \in Folders : SwitchFolder(f)
  \/ Reload

EventsNext == RunGoesOn \/ StreamNext \/ PageNext

EventsSpec == EventsInit /\ [][EventsNext]_eventVars

-----------------------------------------------------------------------------
(* Properties *)

EventsTypeOK ==
  /\ status \in {"NONE", "RUNNING"} \cup Closed /\ execution \in {"none", "runs", "told", "gone"}
  /\ {emitted, told} \subseteq 0 .. MaxEvents
  /\ watch \in [Slots -> [pc : {"off", "ask", "log", "reply"}, cursor : 0 .. MaxEvents,
                          status : {"NONE", "RUNNING"} \cup Closed, rows : 0 .. Take]]
  /\ current \in Watches /\ {page.folder, home} \subseteq Folders /\ excused \in BOOLEAN

\* Events of the log up to the last one shown.
UpTo(events) == Filter(log, IF events = << >> THEN {} ELSE 1 .. Last(events))
ShownOfRun == {transcript[home]} \cup (IF page.folder = home THEN {page.entries} ELSE {})
Events(entries) == Filter(entries, 1 .. MaxEvents)

\* However writes fail, watches overlap, replies are late and the page is reloaded: what a stream
\* sent, and what the transcript of the run's folder shows, are the stored events in their order,
\* each once and none skipped; as long as the user stays in the folder and the browser kept all.
NothingIsSkipped ==
  /\ sent = UpTo(sent)
  /\ ~excused => \A entries \in ShownOfRun : Events(entries) = UpTo(Events(entries))
=============================================================================
