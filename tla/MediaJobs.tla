------------------------------ MODULE MediaJobs ------------------------------
(***************************************************************************)
(* Pictures and clips made in the background (image.controller.ts,          *)
(* video.controller.ts).  One work of each kind is meant to go on at a time: *)
(* module-level variables of the API name it and its child process, and a      *)
(* set of ids remembers what its user deleted while it was going on.  The    *)
(* gallery is a directory: what it says of an item survives a restart.       *)
(***************************************************************************)
EXTENDS Integers, FiniteSets

CONSTANTS
  Images, Clips,  \* items that may be made, each at most once
  Steps,          \* steps of a clip that run a child: its keyframes, then the montage (bound)
  NoItem          \* no item

ASSUME MediaAssumption ==
  /\ IsFiniteSet(Images \cup Clips) /\ Images \cap Clips = {} /\ Steps \in Nat \ {0}
  /\ NoItem \notin Images \cup Clips

Items == Images \cup Clips

VARIABLES
  gallery,  \* gallery[i]: what the item's file of the gallery says, "none" without it
  files,    \* items with a result or frames on disk
  work,     \* work[i]: "no", "runs" (a child, for a clip then `step`), "audio", "over"
  step,     \* step[v]: the step of clip v
  process,  \* process[i]: "none", "alive", "killed", "ended"
  image,    \* the globals of the images: busy (`generating`), running, proc, cancelled
  clip,     \* the same of the clips
  deleted,  \* items that their user deleted
  late      \* items whose work was ended before its process was closed, or while its sound went on

mediaVars == <<gallery, files, work, step, process, image, clip, deleted, late>>

NoWork == [busy |-> FALSE, running |-> NoItem, proc |-> NoItem, cancelled |-> {}]

MediaInit ==
  /\ gallery = [i \in Items |-> "none"] /\ files = {} /\ work = [i \in Items |-> "no"]
  /\ step = [v \in Clips |-> 1] /\ process = [i \in Items |-> "none"]
  /\ image = NoWork /\ clip = NoWork /\ deleted = {} /\ late = {}

Kill(p) == [process EXCEPT ![p] = IF @ = "alive" THEN "killed" ELSE @]
KilledBy(g) == IF g.proc = NoItem THEN process ELSE Kill(g.proc)

-----------------------------------------------------------------------------
(* Pictures *)

ImageGenerate(i) ==
  /\ work[i] = "no" /\ ~image.busy
  /\ work' = [work EXCEPT ![i] = "runs"] /\ process' = [process EXCEPT ![i] = "alive"]
  /\ gallery' = [gallery EXCEPT ![i] = "running"]
  /\ image' = [image EXCEPT !.busy = TRUE, !.running = i, !.proc = i]
  /\ UNCHANGED <<files, step, clip, deleted, late>>

\* What ends a generation forgets the current one, whichever that is.
Finish(i, s) ==
  /\ image' = [image EXCEPT !.busy = FALSE, !.running = NoItem, !.proc = NoItem, !.cancelled = @ \ {i}]
  /\ gallery' = IF i \in image.cancelled THEN gallery ELSE [gallery EXCEPT ![i] = s]

\* The process ends by itself, with a picture or without, or because it was killed.
ImageChildEnds(i) ==
  /\ i \in Images /\ process[i] \in {"alive", "killed"}
  /\ process' = [process EXCEPT ![i] = "ended"]
  /\ files' \in IF process[i] = "alive" THEN {files, files \cup {i}} ELSE {files}
  /\ UNCHANGED <<gallery, work, step, image, clip, deleted, late>>
\* `error`: the process could not be started.  The generation is finished, and its `close` follows.
ImageError(i) ==
  /\ i \in Images /\ work[i] = "runs" /\ process[i] = "alive" /\ i \notin late
  /\ process' = [process EXCEPT ![i] = "ended"] /\ late' = late \cup {i}
  /\ Finish(i, "failed")
  /\ UNCHANGED <<files, work, step, clip, deleted>>
\* `close`: also of a process that the timer, or `error`, had given up.
ImageClosed(i) ==
  /\ i \in Images /\ process[i] = "ended"
  /\ process' = [process EXCEPT ![i] = "none"] /\ work' = [work EXCEPT ![i] = "over"]
  /\ Finish(i, IF i \in files THEN "done" ELSE "failed")
  /\ UNCHANGED <<files, step, clip, deleted, late>>
\* After ten minutes the process is killed and the generation finished, before it is closed.
ImageTimeOut(i) ==
  /\ i \in Images /\ work[i] = "runs" /\ i \notin late
  /\ process' = Kill(i) /\ late' = late \cup {i}
  /\ Finish(i, "failed")
  /\ UNCHANGED <<files, work, step, clip, deleted>>

\* Deleting the current item marks it, so that its end writes nothing, and kills its child.
ImageDelete(i) ==
  /\ i \in Images /\ gallery[i] # "none"
  /\ IF i = image.running
     THEN image' = [image EXCEPT !.cancelled = @ \cup {i}] /\ process' = KilledBy(image)
     ELSE UNCHANGED <<image, process>>
  /\ gallery' = [gallery EXCEPT ![i] = "none"] /\ files' = files \ {i} /\ deleted' = deleted \cup {i}
  /\ UNCHANGED <<work, step, clip, late>>

-----------------------------------------------------------------------------
(* Clips *)

\* An item that says "running" and is not the current one is of a former process or of a work
\* that is lost; the current one counts as stuck (`stuck`) after 3h15 without an update.
Stuck(v) == clip.busy /\ clip.running = v /\ gallery[v] = "running"
Lost(stuck) ==
  {v \in Clips : gallery[v] = "running" /\ ~(clip.busy /\ clip.running = v /\ v \notin stuck)}
\* saveMeta, with the failure; the frames go, and so do frames of items that do not run.
Recovered(stuck) == [i \in Items |-> IF i \in Lost(stuck) THEN "failed" ELSE gallery[i]]
Globals(stuck) ==
  IF \E v \in stuck : Stuck(v)
  THEN [clip EXCEPT !.busy = FALSE, !.running = NoItem, !.proc = NoItem, !.cancelled = @ \ stuck]
  ELSE clip
Children(stuck) == IF \E v \in stuck : Stuck(v) THEN KilledBy(clip) ELSE process

\* recoverRunningGallery, as gallery and gallery call it.
Recover(stuck) ==
  /\ stuck \subseteq Clips /\ (\A v \in stuck : Stuck(v)) /\ Lost(stuck) # {}
  /\ gallery' = Recovered(stuck) /\ clip' = Globals(stuck) /\ process' = Children(stuck)
  /\ late' = late \cup stuck
  /\ UNCHANGED <<files, work, step, image, deleted>>

ClipGenerate(v) ==
  /\ work[v] = "no" /\ ~clip.busy
  /\ gallery' = [Recovered({}) EXCEPT ![v] = "running"]
  /\ clip' = [clip EXCEPT !.busy = TRUE, !.running = v, !.proc = v]
  /\ work' = [work EXCEPT ![v] = "runs"] /\ process' = [process EXCEPT ![v] = "alive"]
  /\ UNCHANGED <<files, step, image, deleted, late>>

\* Broken variant (mutation check): whatever its user did.
SaveClipAlways(v, s) == [gallery EXCEPT ![v] = s]
\* save: unless its user stopped this item.
SaveClip(v, s) == IF v \in clip.cancelled THEN gallery ELSE [gallery EXCEPT ![v] = s]
\* The work is over: whatever it is, the current clip is forgotten, and the frames removed.
WorkEnds(v, s) ==
  /\ gallery' = SaveClip(v, s)
  /\ clip' = [clip EXCEPT !.busy = FALSE, !.running = NoItem, !.proc = NoItem, !.cancelled = @ \ {v}]
  /\ work' = [work EXCEPT ![v] = "over"]

\* The process ends well; a later step has nothing to work on when the files are gone.
StepChildEnds(v) ==
  /\ v \in Clips /\ work[v] = "runs" /\ process[v] = "alive" /\ (step[v] > 1 => v \in files)
  /\ process' = [process EXCEPT ![v] = "ended"] /\ files' = files \cup {v}
  /\ UNCHANGED <<gallery, work, step, image, clip, deleted, late>>
\* `close`: the next step starts, which saves its progress, or the sound, or the end; what the
\* step was to make must be there.
StepDone(v) ==
  /\ v \in Clips /\ work[v] = "runs" /\ process[v] = "ended" /\ v \in files
  /\ \/ /\ step[v] < Steps
        /\ step' = [step EXCEPT ![v] = @ + 1] /\ gallery' = SaveClip(v, "running")
        /\ clip' = [clip EXCEPT !.proc = v] /\ process' = [process EXCEPT ![v] = "alive"]
        /\ UNCHANGED work
     \/ /\ step[v] = Steps
        /\ work' = [work EXCEPT ![v] = "audio"] /\ process' = [process EXCEPT ![v] = "none"]
        /\ gallery' = SaveClip(v, "running")
        /\ clip' = [clip EXCEPT !.proc = IF @ = v THEN NoItem ELSE @]
        /\ UNCHANGED step
     \/ /\ step[v] = Steps
        /\ process' = [process EXCEPT ![v] = "none"] /\ WorkEnds(v, "done")
        /\ UNCHANGED step
  /\ UNCHANGED <<files, image, deleted, late>>
\* It fails, was killed or took too long: the work is over, the process perhaps not yet.
StepFails(v) ==
  /\ v \in Clips /\ work[v] = "runs"
  /\ \E c \in {"none", "killed"} : process' = [process EXCEPT ![v] = c]
  /\ WorkEnds(v, "failed")
  /\ files' \in {files, files \ {v}}
  /\ UNCHANGED <<step, image, deleted, late>>
ClipChildEnds(v) ==
  /\ v \in Clips /\ work[v] = "over" /\ process[v] = "killed"
  /\ process' = [process EXCEPT ![v] = "none"]
  /\ UNCHANGED <<gallery, files, work, step, image, clip, deleted, late>>
\* The sound never fails the clip; its process is not the one that a deletion kills.
AudioEnds(v) ==
  /\ v \in Clips /\ work[v] = "audio"
  /\ WorkEnds(v, "done")
  /\ UNCHANGED <<files, step, process, image, deleted, late>>

DeleteClip(v, busy) ==
  /\ v \in Clips /\ gallery[v] # "none"
  /\ IF v = clip.running
     THEN /\ clip' = [clip EXCEPT !.cancelled = @ \cup {v}, !.busy = busy]
          /\ process' = KilledBy(clip)
     ELSE UNCHANGED <<clip, process>>
  /\ gallery' = [gallery EXCEPT ![v] = "none"] /\ files' = files \ {v} /\ deleted' = deleted \cup {v}
  /\ UNCHANGED <<work, step, image, late>>
\* Broken variant (mutation check): the next clip may start as soon as this one is deleted.
ClipDeleteFrees(v) == DeleteClip(v, FALSE)
\* Deleting the current clip suppresses what its work still saves; the work ends by itself.
ClipDelete(v) == DeleteClip(v, clip.busy)

-----------------------------------------------------------------------------

\* The API stops; its works with it.
MediaRestart ==
  /\ \E i \in Items : work[i] \in {"runs", "audio"}
  /\ image' = NoWork /\ clip' = NoWork
  /\ work' = [i \in Items |-> IF work[i] = "no" THEN "no" ELSE "over"]
  /\ process' = [i \in Items |-> "none"]
  /\ UNCHANGED <<gallery, files, step, deleted, late>>

ImagesNext ==
  \/ \E i \in Images :
       \/ ImageGenerate(i) \/ ImageChildEnds(i) \/ ImageError(i) \/ ImageClosed(i)
       \/ ImageTimeOut(i) \/ ImageDelete(i)
  \/ MediaRestart
ClipsNext ==
  \/ \E v \in Clips :
       \/ ClipGenerate(v) \/ StepChildEnds(v) \/ StepDone(v) \/ StepFails(v) \/ ClipChildEnds(v)
       \/ AudioEnds(v) \/ ClipDelete(v)
  \/ \E stuck \in SUBSET Clips : Recover(stuck)
  \/ MediaRestart

MediaNext ==
  \/ ImagesNext
  \/ ClipsNext

MediaSpec == MediaInit /\ [][MediaNext]_mediaVars

-----------------------------------------------------------------------------
(* Properties *)

SlotType(set) ==
  [busy : BOOLEAN, running : set \cup {NoItem}, proc : set \cup {NoItem}, cancelled : SUBSET set]

MediaTypeOK ==
  /\ gallery \in [Items -> {"none", "running", "done", "failed"}] /\ files \subseteq Items
  /\ work \in [Items -> {"no", "runs", "audio", "over"}] /\ step \in [Clips -> 1 .. Steps]
  /\ process \in [Items -> {"none", "alive", "killed", "ended"}]
  /\ image \in SlotType(Images) /\ clip \in SlotType(Clips)
  /\ deleted \subseteq Items /\ late \subseteq Items

GoesOn(i) == work[i] \in {"runs", "audio"}

\* "Stop (if running) + delete", "stopped: leave no meta": an item that was deleted does not come
\* back to the gallery when its work ends, "one at a time": two works of a kind never go on
\* together, and what goes on can be stopped; as long as no work of that kind was ended (`late`)
\* before its child was closed, by a timer or by `error`, or while its sound went on: the second
\* end of such a work forgets whatever is current by then, and this says nothing from there on.
WorksKeepApart ==
  \A kind \in {Images, Clips} : late \cap kind = {} =>
    LET slot == IF kind = Images THEN image ELSE clip IN
    /\ \A i \in kind : GoesOn(i) => slot.busy /\ slot.running = i
    /\ \A i \in kind \cap deleted : gallery[i] = "none" /\ (work[i] = "over" => i \notin files)

\* The same without the excuse.
DeletedIsGone == \A i \in deleted : gallery[i] = "none"
=============================================================================
