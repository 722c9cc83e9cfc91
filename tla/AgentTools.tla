------------------------------ MODULE AgentTools ------------------------------
(***************************************************************************)
(* The tools of an agent that look at a project and change it               *)
(* (agent-tools.service.ts), and the index they look things up in           *)
(* (agent-code-index.service.ts): one per folder, kept for some time, built *)
(* file by file when it is asked for, and forgotten when a patch was        *)
(* applied or undone.  A run makes one call at a time; two runs may work in *)
(* one folder, or in a folder and one inside it.  A file is the number of   *)
(* its last change; what the index makes of its text is left out, and the   *)
(* steps of a patch are those of AgentPatch, taken at once.                 *)
(***************************************************************************)
EXTENDS Integers, FiniteSets

CONSTANTS
  Projects,   \* the folders that runs have opened
  Covers,     \* Covers[p]: the files below p, which are not the folder itself
  Calls,      \* tool calls
  Caller,     \* Caller[c]: the run that makes the call
  Cwd,        \* Cwd[c]: its folder
  FsEnabled,  \* AGENT_FS_ENABLED
  MaxChanges  \* changes of files (bound)

ASSUME ToolsAssumption ==
  FsEnabled \in BOOLEAN /\ MaxChanges \in Nat /\ Cwd \in [Calls -> Projects]

VARIABLES
  file,     \* file[f]: the number of its last change
  changes,  \* changes so far
  cache,    \* cache[p]: the index of p: whether there is one, and not too old; what it has of
            \* each file; whether a patch ended while it was built
  call,     \* call[c]: where the call is, what it does, to which file, what it read, what it wrote
  patched,  \* patched[c]: what a patch may be undone with, once its checkpoint is saved
  owed      \* owed[p][f]: the change of f by the last patch in p that ended

toolVars == <<file, changes, cache, call, patched, owed>>

TreeFiles == UNION {Covers[p] : p \in Projects}
NothingSeen == [f \in TreeFiles |-> 0]
NoIndex == [there |-> FALSE, fresh |-> FALSE, has |-> NothingSeen, crossed |-> FALSE]
NoPatch == [there |-> FALSE, target |-> "", stamp |-> 0]
Fresh0 == [pc |-> "new", kind |-> "", target |-> "", has |-> NothingSeen, left |-> {}, stamp |-> 0,
           crossed |-> FALSE, owed |-> NothingSeen]

ToolsInit ==
  /\ file = NothingSeen /\ changes = 0 /\ owed = [p \in Projects |-> NothingSeen]
  /\ cache = [p \in Projects |-> NoIndex] /\ patched = [c \in Calls |-> NoPatch]
  /\ call = [c \in Calls |-> Fresh0]

CallAt(c, pc) == call[c].pc = pc
Calling(c) == call[c].pc \notin {"new", "answered", "refused"}
Becomes(c, r) == call' = [call EXCEPT ![c] = r]
Ends(c, pc) == Becomes(c, [call[c] EXCEPT !.pc = pc])
\* A run waits for one tool before it calls the next.
MayCall(c) == CallAt(c, "new") /\ \A d \in Calls : Caller[d] = Caller[c] => ~Calling(d)

\* resolve, and assertNotWorkspaceRoot for a tool that changes something.
Resolves(c, f) == f \in Covers[Cwd[c]]

\* A file changes: its text is one that it never had.
ChangesTo(f) ==
  /\ changes < MaxChanges /\ changes' = changes + 1
  /\ file' = [file EXCEPT ![f] = changes']

-----------------------------------------------------------------------------
(* The tools that look *)

\* project_map, code_search, symbol_graph: the index there is, unless it is too old.
AskIndex(c) ==
  LET p == Cwd[c]
      asks == [Fresh0 EXCEPT !.kind = "ask", !.owed = owed[p], !.left = Covers[p]]
  IN  /\ MayCall(c) /\ FsEnabled
      /\ IF cache[p].there /\ cache[p].fresh
         THEN Becomes(c, [asks EXCEPT !.pc = "answered", !.has = cache[p].has, !.crossed = cache[p].crossed])
         ELSE Becomes(c, [asks EXCEPT !.pc = "build"])
      /\ UNCHANGED <<file, changes, cache, patched, owed>>
\* read_file, read_many_files, search_files, find_files, list_dir: the files themselves.
LookAtFiles(c) ==
  /\ MayCall(c) /\ FsEnabled
  /\ Becomes(c, [Fresh0 EXCEPT !.kind = "look", !.pc = "build", !.left = Covers[Cwd[c]],
                               !.owed = owed[Cwd[c]]])
  /\ UNCHANGED <<file, changes, cache, patched, owed>>

\* stat_path, also when the tools are disabled; what it says of a file is left out.
StatPath(c) ==
  /\ MayCall(c) /\ Becomes(c, [Fresh0 EXCEPT !.kind = "stat", !.pc = "answered"])
  /\ UNCHANGED <<file, changes, cache, patched, owed>>

\* build and walk read one file after the other, while others may change them.
ReadNext(c, f) ==
  /\ CallAt(c, "build") /\ f \in call[c].left
  /\ Becomes(c, [call[c] EXCEPT !.left = @ \ {f}, !.has[f] = file[f]])
  /\ UNCHANGED <<file, changes, cache, patched, owed>>

\* The index that was built is kept, and it counts as new from now on.
Indexed(c) ==
  /\ CallAt(c, "build") /\ call[c].left = {} /\ Ends(c, "answered")
  /\ cache' = IF call[c].kind = "look" THEN cache
              ELSE [cache EXCEPT ![Cwd[c]] = [there |-> TRUE, fresh |-> TRUE, has |-> call[c].has,
                                              crossed |-> call[c].crossed]]
  /\ UNCHANGED <<file, changes, patched, owed>>

\* AGENT_CODE_INDEX_TTL_MS pass.
IndexAges(p) ==
  /\ cache[p].there /\ cache[p].fresh /\ cache' = [cache EXCEPT ![p].fresh = FALSE]
  /\ UNCHANGED <<file, changes, call, patched, owed>>

-----------------------------------------------------------------------------
(* The tools that change files through a patch *)

\* invalidate; an index that is being built is not told.
Invalidate(p) == cache' = [cache EXCEPT ![p] = NoIndex]
\* Those who build an index of p while a patch in p ends may have read what it replaced.
CrossedAt(p, c, pc) ==
  call' = [d \in Calls |->
    CASE d = c -> [call[c] EXCEPT !.pc = pc]
      [] d # c /\ CallAt(d, "build") /\ Cwd[d] = p -> [call[d] EXCEPT !.crossed = TRUE]
      [] OTHER -> call[d]]
Owes(p, f, n) == owed' = [owed EXCEPT ![p][f] = n]

\* write_file, edit_file, append_file, apply_patch, create_project.
BeginPatch(c, f) ==
  /\ MayCall(c)
  /\ LET asks == [Fresh0 EXCEPT !.kind = "patch", !.target = f] IN
     IF FsEnabled /\ Resolves(c, f)
     THEN \/ Becomes(c, [asks EXCEPT !.pc = "write"])
          \/ Becomes(c, [asks EXCEPT !.pc = "refused"])   \* rejected, or nothing to change
     ELSE Becomes(c, [asks EXCEPT !.pc = "refused"])
  /\ UNCHANGED <<file, changes, cache, patched, owed>>
CommitPatch(c) ==
  /\ CallAt(c, "write") /\ call[c].kind = "patch" /\ ChangesTo(call[c].target)
  /\ Becomes(c, [call[c] EXCEPT !.pc = "save", !.stamp = changes'])
  /\ UNCHANGED <<cache, patched, owed>>
\* The checkpoint is saved, and the index forgotten; or what was there is put back.
PatchApplied(c) ==
  LET f == call[c].target IN
  /\ CallAt(c, "save") /\ call[c].kind = "patch"
  /\ Invalidate(Cwd[c]) /\ CrossedAt(Cwd[c], c, "answered") /\ Owes(Cwd[c], f, call[c].stamp)
  /\ patched' = [patched EXCEPT ![c] = [there |-> TRUE, target |-> f, stamp |-> call[c].stamp]]
  /\ UNCHANGED <<file, changes>>
PatchUnsaved(c) ==
  /\ CallAt(c, "save") /\ ChangesTo(call[c].target) /\ Ends(c, "refused")
  /\ UNCHANGED <<cache, patched, owed>>

\* rollback_patch, of a patch of this run; refused when the file has changed since.
BeginUndo(c, d) ==
  /\ MayCall(c) /\ Caller[d] = Caller[c] /\ patched[d].there /\ FsEnabled
  /\ LET f == patched[d].target IN
     Becomes(c, [Fresh0 EXCEPT !.kind = "undo", !.target = f,
                               !.pc = IF file[f] = patched[d].stamp THEN "write" ELSE "refused"])
  /\ UNCHANGED <<file, changes, cache, patched, owed>>
CommitUndo(c) ==
  /\ CallAt(c, "write") /\ call[c].kind = "undo" /\ ChangesTo(call[c].target)
  /\ Becomes(c, [call[c] EXCEPT !.pc = "save", !.stamp = changes'])
  /\ UNCHANGED <<cache, patched, owed>>
\* Broken variant (mutation check): the index keeps what was undone.
UndoneUnnoticed(c) ==
  /\ CallAt(c, "save") /\ call[c].kind = "undo" /\ Ends(c, "answered")
  /\ Owes(Cwd[c], call[c].target, call[c].stamp)
  /\ UNCHANGED <<file, changes, cache, patched>>
Undone(c) ==
  /\ CallAt(c, "save") /\ call[c].kind = "undo"
  /\ Invalidate(Cwd[c]) /\ CrossedAt(Cwd[c], c, "answered")
  /\ Owes(Cwd[c], call[c].target, call[c].stamp)
  /\ UNCHANGED <<file, changes, patched>>

-----------------------------------------------------------------------------
(* The tools that change files without one *)

\* move_path, delete_path, make_dir, within the folder; run_command and a process, anywhere.  The
\* index is not told.
ChangeLoosely(c, f) ==
  /\ MayCall(c) /\ FsEnabled /\ ChangesTo(f)
  /\ Becomes(c, [Fresh0 EXCEPT !.kind = "loose", !.target = f, !.pc = "answered"])
  /\ UNCHANGED <<cache, patched, owed>>

ToolsNext ==
  \/ \E p \in Projects : IndexAges(p)
  \/ \E c \in Calls :
       \/ AskIndex(c) \/ LookAtFiles(c) \/ StatPath(c) \/ Indexed(c)
       \/ CommitPatch(c) \/ PatchApplied(c) \/ PatchUnsaved(c)
       \/ CommitUndo(c) \/ Undone(c)
       \/ \E d \in Calls : BeginUndo(c, d)
       \/ \E f \in TreeFiles : ReadNext(c, f) \/ BeginPatch(c, f) \/ ChangeLoosely(c, f)

ToolsSpec == ToolsInit /\ [][ToolsNext]_toolVars

-----------------------------------------------------------------------------
(* Properties *)

ToolsTypeOK ==
  /\ file \in [TreeFiles -> 0 .. MaxChanges] /\ changes \in 0 .. MaxChanges
  /\ \A p \in Projects : cache[p].fresh => cache[p].there
  /\ \A c \in Calls : call[c].pc \in {"new", "build", "write", "save", "answered", "refused"}

\* "Build or reuse the code index" (project_map): whoever asks after a patch in the same folder was
\* applied or undone is told of the files as that patch left them, or as they were later.  Not so
\* when the index was being built while the patch ended (`crossed`), which then serves it for its
\* whole time to live; and nothing is said of what a command, a move or a patch in another folder
\* changed.
IndexFollowsPatches ==
  \A c \in Calls :
    CallAt(c, "answered") /\ call[c].kind \in {"ask", "look"} /\ ~call[c].crossed =>
      \A f \in Covers[Cwd[c]] : call[c].has[f] >= call[c].owed[f]
=============================================================================
