------------------------------ MODULE AgentPatch ------------------------------
(***************************************************************************)
(* Changes of files by an agent (agent-patch.service.ts): a patch writes     *)
(* the new contents beside the files, moves the old ones aside, puts the new *)
(* ones in their place and saves a checkpoint; undoing it does the same with *)
(* the old contents.  Every call of the file system is a step that may fail, *)
(* the API may stop between two, and the user edits the files all the while. *)
(* Files are read as text: what is not UTF-8 is not what is written back.    *)
(* One patch, which changes every file, and one request to undo it.          *)
(***************************************************************************)
EXTENDS Integers, FiniteSets

CONSTANTS
  Count,      \* files of the patch
  MaxFaults,  \* calls of the file system or the database that fail (bound)
  Edits       \* BOOLEAN: the user edits a file, at most once (bound)

ASSUME PatchAssumption == Count \in Nat \ {0} /\ MaxFaults \in Nat /\ Edits \in BOOLEAN

Paths == 1 .. Count

VARIABLES
  holds,      \* holds[p]: what the file holds, "absent" without it
  aside,      \* aside[p]: what was moved aside
  fresh,      \* fresh[p]: what was written beside it
  task,       \* the operation: its kind, where it is, the next file
  before,     \* before[p]: what the operation found, of which it has the text
  committed,  \* files that the operation changed
  checkpoint, \* what the checkpoint has for each file, once it is saved
  faults,     \* calls that failed
  edited,     \* whether the user edited a file
  raced       \* whether he did during an operation

patchVars == <<holds, aside, fresh, task, before, committed, checkpoint, faults, edited, raced>>
placeVars == <<holds, aside, fresh>>

Nothing == [p \in Paths |-> "absent"]
Task(kind, pc, i) == [kind |-> kind, pc |-> pc, next |-> i]
Goto(pc, i) == task' = [task EXCEPT !.pc = pc, !.next = i]
\* The next file, or the next phase after the last one.
Step(pc, then) == IF task.next < Count THEN Goto(pc, task.next + 1) ELSE Goto(then, 1)
Unsaved == [saved |-> FALSE, files |-> Nothing]

\* readFile(..., "utf8"): bytes that are not UTF-8 are replaced.
Text(content) == IF content = "raw" THEN "garbled" ELSE content
Texts == [p \in Paths |-> Text(before[p])]

PatchInit ==
  /\ holds \in [Paths -> {"absent", "old", "raw"}] /\ aside = Nothing /\ fresh = Nothing
  /\ task = Task("none", "idle", 1) /\ before = Nothing /\ committed = {}
  /\ checkpoint = Unsaved /\ faults = 0 /\ edited = FALSE /\ raced = FALSE

PatchAt(pc) == task.pc = pc
Fault(pc) == faults < MaxFaults /\ faults' = faults + 1 /\ Goto(pc, Count)
restVars == <<checkpoint, edited, raced>>

-----------------------------------------------------------------------------
(* apply and rollback *)

\* A patch, or the request to undo one that was applied.
Begin ==
  /\ \/ task = Task("none", "idle", 1) /\ task' = Task("apply", "read", 1)
     \/ task.kind = "apply" /\ PatchAt("idle") /\ checkpoint.saved /\ task' = Task("undo", "read", 1)
  /\ before' = Nothing /\ committed' = {}
  /\ UNCHANGED <<placeVars, faults, restVars>>

\* prepare reads the files and may reject the patch.  rollback compares with what the patch left,
\* and writes what the checkpoint has beside the file.
ReadFile ==
  LET p == task.next IN
  /\ PatchAt("read")
  /\ \/ /\ task.kind = "apply" /\ before' = [before EXCEPT ![p] = holds[p]]
        /\ Step("read", "stage") /\ UNCHANGED <<fresh, faults>>
     \/ /\ task.kind = "apply" /\ Goto("clean", Count) /\ UNCHANGED <<before, fresh, faults>>
     \/ /\ task.kind = "undo" /\ holds[p] = "new" /\ before' = [before EXCEPT ![p] = "new"]
        /\ fresh' = [fresh EXCEPT ![p] = checkpoint.files[p]]
        /\ Step("read", "aside") /\ UNCHANGED faults
     \/ /\ task.kind = "undo" /\ holds[p] # "new" /\ Goto("undo", Count)
        /\ UNCHANGED <<before, fresh, faults>>
     \/ /\ Fault(IF task.kind = "apply" THEN "clean" ELSE "undo") /\ UNCHANGED <<before, fresh>>
  /\ UNCHANGED <<holds, aside, committed, restVars>>

\* commit: all the new contents first ...
Stage ==
  /\ PatchAt("stage")
  /\ \/ fresh' = [fresh EXCEPT ![task.next] = "new"] /\ Step("stage", "aside") /\ UNCHANGED faults
     \/ Fault("undo") /\ UNCHANGED fresh
  /\ UNCHANGED <<holds, aside, before, committed, restVars>>

\* ... then file by file: the old one aside, if there was one ...
MoveAside ==
  LET p == task.next IN
  /\ PatchAt("aside")
  /\ \/ /\ before[p] = "absent" /\ Goto("place", p) /\ UNCHANGED <<holds, aside, faults>>
     \/ /\ before[p] # "absent" /\ holds[p] # "absent"
        /\ aside' = [aside EXCEPT ![p] = holds[p]] /\ holds' = [holds EXCEPT ![p] = "absent"]
        /\ Goto("place", p) /\ UNCHANGED faults
     \/ /\ before[p] # "absent" /\ holds[p] = "absent" /\ Goto("undo", Count)
        /\ UNCHANGED <<holds, aside, faults>>
     \/ Fault("undo") /\ before[p] # "absent" /\ UNCHANGED <<holds, aside>>
  /\ UNCHANGED <<fresh, before, committed, restVars>>

\* ... and the new one in its place.
Place ==
  LET p == task.next IN
  /\ PatchAt("place")
  /\ \/ /\ holds' = [holds EXCEPT ![p] = IF task.kind = "undo" /\ fresh[p] = "absent" THEN @ ELSE fresh[p]]
        /\ fresh' = [fresh EXCEPT ![p] = "absent"] /\ committed' = committed \cup {p}
        /\ (IF p < Count THEN Goto("aside", p + 1) ELSE Goto(IF task.kind = "apply" THEN "save" ELSE "drop", 1))
        /\ UNCHANGED <<aside, faults>>
     \/ Fault("undo") /\ fresh[p] # "absent" /\ UNCHANGED <<placeVars, committed>>
  /\ UNCHANGED <<before, restVars>>

\* A patch saves its checkpoint, then drops what it moved aside; undoing drops first, then saves.
SaveThenDrop(order) ==
  LET saves == task.pc = "save" IN
  /\ task.pc \in {"save", "drop"}
  /\ \/ /\ IF task.pc = order[1] THEN Goto(order[2], 1) ELSE Goto("clean", Count)
        /\ aside' = IF saves THEN aside ELSE Nothing
        /\ checkpoint' = IF saves /\ task.kind = "apply" THEN [saved |-> TRUE, files |-> Texts] ELSE checkpoint
        /\ UNCHANGED faults
     \/ saves /\ Fault("undo") /\ UNCHANGED <<aside, checkpoint>>
  /\ UNCHANGED <<holds, fresh, before, committed, edited, raced>>
Order == IF task.kind = "apply" THEN <<"save", "drop">> ELSE <<"drop", "save">>
\* Broken variant (mutation check): a patch drops first, too.
DropThenKeepCheckpoint == SaveThenDrop(<<"drop", "save">>)
KeepCheckpoint == SaveThenDrop(Order)

\* On a failure, backwards: the files that were changed are removed and the ones aside put back
\* (a patch also puts back the one whose new content it could not place).  That a file cannot be
\* put back is ignored.
Undo ==
  LET p == task.next
      back == p \in committed \/ (task.kind = "apply" /\ aside[p] # "absent") IN
  /\ PatchAt("undo")
  /\ \/ ~back /\ UNCHANGED <<holds, aside, faults>>
     \/ /\ back /\ holds' = [holds EXCEPT ![p] = aside[p]] /\ aside' = [aside EXCEPT ![p] = "absent"]
        /\ UNCHANGED faults
     \/ /\ back /\ aside[p] # "absent" /\ faults < MaxFaults /\ faults' = faults + 1
        /\ holds' = [holds EXCEPT ![p] = "absent"] /\ UNCHANGED aside
  /\ committed' = committed \ {p}
  /\ IF p > 1 THEN Goto("undo", p - 1) ELSE Goto("clean", Count)
  /\ UNCHANGED <<fresh, before, restVars>>

\* In the end what lies beside the files is removed.
Clean ==
  /\ PatchAt("clean")
  /\ fresh' = Nothing
  /\ aside' = IF task.kind = "undo" THEN Nothing
              ELSE [p \in Paths |-> IF p \in committed THEN aside[p] ELSE "absent"]
  /\ Goto("idle", 1)
  /\ UNCHANGED <<holds, before, committed, faults, restVars>>

-----------------------------------------------------------------------------
(* The user and the process *)

UserEdits(p) ==
  /\ Edits /\ ~edited /\ edited' = TRUE /\ raced' = ~PatchAt("idle")
  /\ holds' = [holds EXCEPT ![p] = "mine"]
  /\ UNCHANGED <<aside, fresh, task, before, committed, checkpoint, faults>>

\* The API stops: what is beside the files stays there.
PatchCrash ==
  /\ ~PatchAt("idle") /\ ~PatchAt("gone")
  /\ Goto("gone", 1)
  /\ UNCHANGED <<placeVars, before, committed, faults, restVars>>

PatchNext ==
  \/ Begin \/ ReadFile \/ Stage \/ MoveAside \/ Place \/ KeepCheckpoint \/ Undo \/ Clean \/ PatchCrash
  \/ \E p \in Paths : UserEdits(p)

PatchSpec == PatchInit /\ [][PatchNext]_patchVars

-----------------------------------------------------------------------------
(* Properties *)

Contents == {"absent", "old", "raw", "garbled", "new", "mine"}
PatchTypeOK ==
  /\ {holds, aside, fresh, before} \subseteq [Paths -> Contents]
  /\ task \in [kind : {"none", "apply", "undo"}, next : Paths,
               pc : {"idle", "read", "stage", "aside", "place", "save", "drop", "undo", "clean", "gone"}]
  /\ committed \subseteq Paths /\ faults \in 0 .. MaxFaults
  /\ checkpoint \in [saved : BOOLEAN, files : [Paths -> Contents]]
  /\ {edited, raced} \subseteq BOOLEAN

Ended(kind) == task.kind = kind /\ PatchAt("idle")

\* A patch, whatever fails and wherever the API stops in it: a file that it found is in its place or
\* beside it, or overwritten by the user, or its text is in the checkpoint, which nothing removes.
OldIsSomewhere ==
  task.kind = "apply" => \A p \in Paths :
    before[p] # "absent" =>
      \/ before[p] \in {holds[p], aside[p]} \/ holds[p] = "mine"
      \/ checkpoint = [saved |-> TRUE, files |-> Texts]
\* A patch that ended, well or not, changed all of its files or none, and left nothing beside them;
\* nothing is said of a patch in which the API stopped.
AllOrNone ==
  Ended("apply") =>
    /\ aside = Nothing /\ fresh = Nothing
    /\ \A p \in Paths : IF checkpoint.saved THEN holds[p] \in {"new", "mine"}
                        ELSE holds[p] # "new" /\ (before[p] # "absent" => holds[p] \in {before[p], "mine"})
\* Undoing, when it ended and no call failed, put the text of all files back, or refused and left
\* all: work done since is not lost.
UndoneOrRefused ==
  Ended("undo") /\ faults = 0 =>
    /\ edited => \E p \in Paths : holds[p] = "mine"
    /\ \E left \in {checkpoint.files, [p \in Paths |-> "new"]} :
         \A p \in Paths : holds[p] \in {left[p], "mine"}

\* "Atomically apply multiple file edits with a rollback checkpoint": the three, as long as the user
\* does not edit a file during an operation.  The first is of every moment, the second of patches
\* that ended, the third of undoings that ended without a failing call.
PatchIsAtomic == ~raced => OldIsSomewhere /\ AllOrNone /\ UndoneOrRefused

\* "Restore every file changed by a previous atomic patch in this run": or leave them as they are.
RollbackRestores ==
  Ended("undo") /\ ~edited => holds \in {checkpoint.files, [p \in Paths |-> "new"]}
\* The same words: no file gets a content that neither it had nor the patch wrote.
RestoresWhatWasThere == \A p \in Paths : holds[p] # "garbled"
=============================================================================
