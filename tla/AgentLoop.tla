------------------------------ MODULE AgentLoop ------------------------------
(***************************************************************************)
(* The loop of an agent run in a project folder (agent-orchestrator.service, *)
(* run and loop).  The model replies with an action or with a final answer;  *)
(* before an answer is given, changed files must pass the project's checks   *)
(* and a review.  The loop knows of changes by counting its own calls;       *)
(* `version`, `checked` and `reviewed` are what really happened in the folder. *)
(*                                                                         *)
(* Files change through the file tools only: commands and processes, whose   *)
(* effect nobody counts, are not modelled.                                  *)
(***************************************************************************)
EXTENDS Integers, FiniteSets

CONSTANTS
  StepLimit,      \* MAX_STEPS
  Grace,          \* steps beyond it while checks or a review are due
  MaxRepairs,     \* MAX_ACTION_REPAIRS
  MaxCorrections, \* MAX_REVIEW_CORRECTIONS
  Delegates,      \* BOOLEAN: the model hands work to sub-agents
  MaxFiles        \* changes of files (bound)

ASSUME LoopAssumption ==
  /\ {StepLimit, Grace, MaxRepairs, MaxCorrections, MaxFiles} \subseteq Nat
  /\ Delegates \in BOOLEAN

VARIABLES
  at,         \* where the loop is
  turn,       \* step
  changed,    \* changeRevision
  checkedAt,  \* verificationRevision
  check,      \* verificationState
  reviewedAt, \* reviewRevision
  review,     \* reviewState
  repairs,    \* actionRepairs
  corrections,\* reviewCorrections
  repeated,   \* repeatedCalls of verify_project
  ending,     \* how the run ended, and with which warning
  version,    \* how often files of the folder were changed
  checked,    \* version when the checks passed for the last time
  reviewed,   \* version when a review passed for the last time
  delegated   \* whether a sub-agent changed one of them

gateVars == <<changed, checkedAt, check, reviewedAt, review>>
countVars == <<repairs, corrections, repeated>>
folderVars == <<version, checked, reviewed, delegated>>
loopVars == <<at, turn, gateVars, countVars, ending, folderVars>>

NoAnswer == [end |-> "none", warning |-> "none"]
Never == -1

LoopInit ==
  /\ at = "ask" /\ turn = 0
  /\ changed = 0 /\ checkedAt = 0 /\ check = "none" /\ reviewedAt = 0 /\ review = "none"
  /\ repairs = 0 /\ corrections = 0 /\ repeated = 0
  /\ ending = NoAnswer
  /\ version = 0 /\ checked = Never /\ reviewed = Never /\ delegated = FALSE

\* The next step of the loop.
NextTurn == at' = "ask" /\ turn' = turn + 1 /\ UNCHANGED ending
EndsWith(end, warning) ==
  at' = "over" /\ ending' = [end |-> end, warning |-> warning] /\ UNCHANGED turn

\* lifecyclePending
Due ==
  \/ changed > checkedAt
  \/ changed > 0 /\ reviewedAt < changed
  \/ review = "changes_required" /\ corrections <= MaxCorrections
TurnsLeft == turn < StepLimit \/ (turn < StepLimit + Grace /\ Due)

\* The user cancelled the run, or the model could not be asked, also by the reviewer.
Throws(end) ==
  /\ at \in {"ask", "review", "wrap"} /\ (end = "cancelled" => at = "ask") /\ (at = "ask" => TurnsLeft)
  /\ EndsWith(end, "none")
  /\ UNCHANGED <<gateVars, countVars, folderVars>>

-----------------------------------------------------------------------------
(* What the model replies *)

Asked == at = "ask" /\ TurnsLeft

\* Neither an action nor an answer: it is told so, a few times.
ReplyInvalid ==
  /\ Asked /\ repairs' = repairs + 1
  /\ IF repairs' <= MaxRepairs THEN NextTurn ELSE at' = "final" /\ UNCHANGED <<turn, ending>>
  /\ UNCHANGED <<gateVars, corrections, repeated, folderVars>>

\* A final ending, or the name of a tool.
Reply(what) ==
  /\ Asked /\ at' = what /\ (what = "sub" => Delegates)
  /\ UNCHANGED <<turn, ending, gateVars, countVars, folderVars>>

\* Broken variant (mutation check): what was reviewed once is not reviewed again.
ReviewDueOnce == changed > 0 /\ checkedAt = changed /\ check = "passed" /\ reviewedAt = 0
\* Before the answer: the checks if something changed since, then the review of what passed.
ReviewDue == changed > 0 /\ checkedAt = changed /\ check = "passed" /\ reviewedAt < changed

Warning ==
  CASE checkedAt = changed /\ check \in {"failed", "denied"} -> check
    [] reviewedAt = changed /\ review \in {"changes_required", "unknown"} -> review
    [] OTHER -> "none"

TryFinal ==
  /\ at = "final"
  /\ \/ changed > checkedAt /\ at' = "verify" /\ UNCHANGED <<turn, ending>>
     \/ changed <= checkedAt /\ ReviewDue /\ at' = "review" /\ UNCHANGED <<turn, ending>>
     \/ changed <= checkedAt /\ ~ReviewDue /\ EndsWith("answer", Warning)
  /\ UNCHANGED <<gateVars, countVars, folderVars>>

\* The reviewer's verdict sends the loop on, a few times, or the answer is given with it.
Review(verdict) ==
  /\ at = "review"
  /\ UNCHANGED <<changed, checkedAt, check, repairs, repeated, version, checked, delegated>>
  /\ reviewedAt' = changed /\ review' = verdict
  /\ reviewed' = IF verdict = "pass" THEN version ELSE reviewed
  /\ IF verdict = "changes_required" /\ corrections < MaxCorrections
     THEN corrections' = corrections + 1 /\ NextTurn
     ELSE UNCHANGED corrections /\ EndsWith("answer", Warning')

-----------------------------------------------------------------------------
(* Tools *)

\* verify_project: a third call without a change in between is blocked and counts as failed,
\* and so does one with arguments that are not valid (the others have none, and are alike).
Verify(outcome) ==
  /\ at = "verify"
  /\ outcome = "invalid" \/ (repeated >= 2 <=> outcome = "blocked")
  /\ checkedAt' = changed
  /\ check' = IF outcome \in {"passed", "denied"} THEN outcome ELSE "failed"
  /\ checked' = IF outcome = "passed" THEN version ELSE checked
  /\ repeated' = IF repeated < 2 /\ outcome # "invalid" THEN repeated + 1 ELSE repeated
  /\ repairs' = IF outcome = "passed" THEN 0 ELSE IF outcome = "invalid" THEN repairs + 1 ELSE repairs
  /\ NextTurn
  /\ UNCHANGED <<changed, reviewedAt, review, corrections, version, reviewed, delegated>>

\* Any other tool: it changes files, changes nothing, fails, or is refused by the user.
Change(outcome) ==
  /\ at = "change"
  /\ IF outcome = "applied"
     THEN /\ version < MaxFiles /\ version' = version + 1
          /\ changed' = changed + 1 /\ check' = "pending" /\ review' = "pending"
          /\ repeated' = 0
     ELSE UNCHANGED <<version, changed, check, review, repeated>>
  /\ repairs' = CASE outcome \in {"applied", "nothing"} -> 0 [] outcome = "invalid" -> repairs + 1
                  [] OTHER -> repairs
  /\ NextTurn
  /\ UNCHANGED <<checkedAt, reviewedAt, corrections, checked, reviewed, delegated>>

\* spawn_agent: the sub-agent changes and checks the same files, and has gates of its own for
\* neither: the loop that spawned it hears the answer only.
SubChanges ==
  /\ at = "sub" /\ version < MaxFiles /\ version' = version + 1 /\ delegated' = TRUE
  /\ UNCHANGED <<at, turn, ending, gateVars, countVars, checked, reviewed>>
SubVerifies ==
  /\ at = "sub" /\ checked' = version
  /\ UNCHANGED <<at, turn, ending, gateVars, countVars, version, reviewed, delegated>>
SubEnds(completed) ==
  /\ at = "sub" /\ NextTurn
  /\ repairs' = IF completed THEN 0 ELSE repairs
  /\ UNCHANGED <<gateVars, corrections, repeated, folderVars>>

-----------------------------------------------------------------------------
(* No steps left: a last answer *)

OutOfTurns ==
  /\ at = "ask" /\ ~TurnsLeft /\ at' = "wrap"
  /\ UNCHANGED <<turn, ending, gateVars, countVars, folderVars>>

LastWarning ==
  CASE changed > checkedAt -> "unverified"
    [] check \in {"failed", "denied"} -> check
    [] changed > reviewedAt -> "not_reviewed"
    [] review \in {"changes_required", "unknown"} -> review
    [] OTHER -> "none"

WrapUp ==
  /\ at = "wrap" /\ EndsWith("answer", LastWarning)
  /\ UNCHANGED <<gateVars, countVars, folderVars>>

LoopNext ==
  \/ \E end \in {"failed", "cancelled"} : Throws(end)
  \/ ReplyInvalid \/ TryFinal \/ SubChanges \/ SubVerifies \/ OutOfTurns \/ WrapUp
  \/ \E what \in {"final", "verify", "change", "sub"} : Reply(what)
  \/ \E verdict \in {"pass", "changes_required", "unknown"} : Review(verdict)
  \/ \E outcome \in {"passed", "failed", "denied", "invalid", "blocked"} : Verify(outcome)
  \/ \E outcome \in {"applied", "nothing", "failed", "denied", "invalid"} : Change(outcome)
  \/ \E completed \in BOOLEAN : SubEnds(completed)

LoopSpec == LoopInit /\ [][LoopNext]_loopVars

-----------------------------------------------------------------------------
(* Properties *)

LoopTypeOK ==
  /\ at \in {"ask", "final", "verify", "change", "sub", "review", "wrap", "over"}
  /\ turn \in 0 .. StepLimit + Grace /\ {changed, checkedAt, reviewedAt, version} \subseteq 0 .. MaxFiles
  /\ check \in {"none", "pending", "passed", "failed", "denied"}
  /\ review \in {"none", "pending", "pass", "changes_required", "unknown"}
  /\ repairs \in Nat /\ corrections \in 0 .. MaxCorrections /\ repeated \in 0 .. 2
  /\ {checked, reviewed} \subseteq Never .. MaxFiles /\ delegated \in BOOLEAN
  /\ ending.end \in {"none", "answer", "failed", "cancelled"}

\* "After code changes, project verification is required before the run can finish": an answer
\* without a warning is about files that passed the checks and the review as they are now, unless
\* a sub-agent changed some.
AnswerIsHonest ==
  ending = [end |-> "answer", warning |-> "none"] /\ version > 0 /\ ~delegated
    => checked = version /\ reviewed = version
=============================================================================
